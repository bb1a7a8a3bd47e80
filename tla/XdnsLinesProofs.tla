-------------------------- MODULE XdnsLinesProofs --------------------------
(***************************************************************************)
(* What Keep, the selection every reader and writer of the two files is    *)
(* made of, returns: a sequence of selected elements, the sequence itself  *)
(* when all of it is selected, and the parts' selections when two          *)
(* sequences are joined.  Induction is over a set of numbers: the          *)
(* library's induction theorems take an operator and cannot be used.       *)
(***************************************************************************)
EXTENDS XdnsLines, SequenceTheorems, FiniteSets, FiniteSetTheorems, WellFoundedInduction,
        TLAPS

\* A set with 0 and the successor of each of its numbers holds all of Nat.
LEMMA Induction ==
  ASSUME NEW T, 0 \in T, \A n \in Nat : n \in T => n + 1 \in T
  PROVE  Nat \subseteq T
<1> DEFINE Out == {n \in Nat : n \notin T}
<1> SUFFICES ASSUME Out # {} PROVE FALSE
  OBVIOUS
<1>1. PICK x \in Out : \A y \in Out : ~ (<<y, x>> \in OpToRel(<, Nat))
  <2>1. Out \subseteq Nat
    OBVIOUS
  <2>2. IsWellFoundedOn(OpToRel(<, Nat), Nat)
    BY NatLessThanWellFounded
  <2> HIDE DEF Out
  <2> QED
    BY <2>1, <2>2, WFMin
<1>2. \A y \in Out : ~ (y < x)
  BY <1>1 DEF OpToRel
<1>3. x # 0 /\ x \in Nat /\ x \notin T
  OBVIOUS
<1>4. x - 1 \in Nat
  BY <1>3
<1>5. x - 1 \in T
  BY <1>2, <1>4
<1>6. (x - 1) + 1 \in T
  BY <1>4, <1>5
<1> QED
  BY <1>3, <1>6

\* The recursive function of KeepUpTo exists.
LEMMA KeepUpToDef ==
  ASSUME NEW s, NEW S, Len(s) \in Nat
  PROVE  \A i \in 0..Len(s) :
           KeepUpTo(s, S)[i] =
             IF i = 0 THEN << >>
             ELSE IF s[i] \in S THEN Append(KeepUpTo(s, S)[i-1], s[i])
                                ELSE KeepUpTo(s, S)[i-1]
<1> DEFINE Body(f, n) ==
      [i \in 0..n |-> IF i = 0 THEN << >>
                      ELSE IF s[i] \in S THEN Append(f[i-1], s[i]) ELSE f[i-1]]
           T == {n \in Nat : \E f : f = Body(f, n)}
<1>1. 0 \in T
  <2> DEFINE f == [i \in 0..0 |-> << >>]
  <2>1. f = Body(f, 0)
    OBVIOUS
  <2> QED
    BY <2>1
<1>2. ASSUME NEW n \in Nat, n \in T PROVE n + 1 \in T
  <2>1. PICK f : f = Body(f, n)
    BY <1>2
  <2> DEFINE last == IF s[n+1] \in S THEN Append(f[n], s[n+1]) ELSE f[n]
             g == [i \in 0..n+1 |-> IF i = n + 1 THEN last ELSE f[i]]
  <2>2. ASSUME NEW i \in 0..n+1 PROVE g[i] = Body(g, n+1)[i]
    <3>1. CASE i = n + 1
      <4>1. g[n] = f[n]
        OBVIOUS
      <4> HIDE DEF g
      <4>2. Body(g, n+1)[n+1] = IF s[n+1] \in S THEN Append(g[n], s[n+1]) ELSE g[n]
        OBVIOUS
      <4>3. g[n+1] = last
        BY DEF g
      <4> QED
        BY <3>1, <4>1, <4>2, <4>3
    <3>2. CASE i \in 0..n
      <4>1. g[i] = f[i]
        BY <3>2
      <4>2. f[i] = Body(f, n)[i]
        BY <2>1
      <4>3. i # 0 => g[i-1] = f[i-1]
        BY <3>2
      <4> QED
        BY <3>2, <4>1, <4>2, <4>3
    <3> QED
      BY <3>1, <3>2
  <2>3. g = Body(g, n+1)
    BY <2>2
  <2>4. \E h : h = Body(h, n+1)
    <3> HIDE DEF g
    <3> QED
      BY <2>3
  <2> QED
    BY <2>4
<1>3. Len(s) \in T
  <2> HIDE DEF T
  <2> QED
    BY <1>1, <1>2, Induction
<1>4. \E f : f = Body(f, Len(s))
  BY <1>3
<1>5. KeepUpTo(s, S) = Body(KeepUpTo(s, S), Len(s))
  BY <1>4 DEF KeepUpTo
<1> QED
  BY <1>5

\* The same, one step at a time.
LEMMA KeepUpToStep ==
  ASSUME NEW X, NEW s \in Seq(X), NEW S
  PROVE  /\ KeepUpTo(s, S)[0] = << >>
         /\ \A n \in 0..Len(s)-1 :
              KeepUpTo(s, S)[n+1] =
                IF s[n+1] \in S THEN Append(KeepUpTo(s, S)[n], s[n+1])
                                ELSE KeepUpTo(s, S)[n]
<1>1. Len(s) \in Nat
  BY LenProperties
<1>2. \A i \in 0..Len(s) :
        KeepUpTo(s, S)[i] =
          IF i = 0 THEN << >>
          ELSE IF s[i] \in S THEN Append(KeepUpTo(s, S)[i-1], s[i])
                             ELSE KeepUpTo(s, S)[i-1]
  BY <1>1, KeepUpToDef
<1>3. KeepUpTo(s, S)[0] = << >>
  <2>1. 0 \in 0..Len(s)
    BY <1>1
  <2>2. KeepUpTo(s, S)[0] =
          IF 0 = 0 THEN << >>
          ELSE IF s[0] \in S THEN Append(KeepUpTo(s, S)[0-1], s[0])
                             ELSE KeepUpTo(s, S)[0-1]
    BY <1>2, <2>1, Zenon
  <2> QED
    BY <2>2
<1>4. ASSUME NEW n \in 0..Len(s)-1
      PROVE  KeepUpTo(s, S)[n+1] =
               IF s[n+1] \in S THEN Append(KeepUpTo(s, S)[n], s[n+1])
                               ELSE KeepUpTo(s, S)[n]
  <2>1. n + 1 \in 0..Len(s) /\ n + 1 # 0 /\ (n + 1) - 1 = n
    BY <1>1
  <2>2. KeepUpTo(s, S)[n+1] =
          IF n + 1 = 0 THEN << >>
          ELSE IF s[n+1] \in S THEN Append(KeepUpTo(s, S)[(n+1)-1], s[n+1])
                               ELSE KeepUpTo(s, S)[(n+1)-1]
    BY <1>2, <2>1, Zenon
  <2> QED
    BY <2>1, <2>2, Zenon
<1> QED
  BY <1>3, <1>4

\* Keep returns a sequence of elements of s that are in S.
LEMMA KeepType ==
  ASSUME NEW X, NEW s \in Seq(X), NEW S
  PROVE  Keep(s, S) \in Seq(X \cap S)
<1> DEFINE T == {n \in Nat : n <= Len(s) => KeepUpTo(s, S)[n] \in Seq(X \cap S)}
<1>1. Len(s) \in Nat
  BY LenProperties
<1>2. 0 \in T
  <2>1. KeepUpTo(s, S)[0] = << >>
    BY KeepUpToStep, Zenon
  <2> QED
    BY <2>1, EmptySeq
<1>3. ASSUME NEW n \in Nat, n \in T PROVE n + 1 \in T
  <2> SUFFICES ASSUME n + 1 <= Len(s)
               PROVE  KeepUpTo(s, S)[n+1] \in Seq(X \cap S)
    OBVIOUS
  <2>1. KeepUpTo(s, S)[n] \in Seq(X \cap S)
    BY <1>1, <1>3
  <2>2. s[n+1] \in X
    BY <1>1, ElementOfSeq
  <2>3. KeepUpTo(s, S)[n+1] = IF s[n+1] \in S THEN Append(KeepUpTo(s, S)[n], s[n+1])
                                              ELSE KeepUpTo(s, S)[n]
    BY <1>1, KeepUpToStep
  <2>4. CASE s[n+1] \in S
    BY <2>1, <2>2, <2>3, <2>4, AppendProperties
  <2>5. CASE s[n+1] \notin S
    BY <2>1, <2>3, <2>5
  <2> QED
    BY <2>4, <2>5
<1>4. Len(s) \in T
  <2> HIDE DEF T
  <2> QED
    BY <1>1, <1>2, <1>3, Induction
<1> QED
  BY <1>1, <1>4 DEF Keep

\* A sequence whose elements are all in S is kept as it is.
LEMMA KeepAll ==
  ASSUME NEW X, NEW S, X \subseteq S, NEW s \in Seq(X)
  PROVE  Keep(s, S) = s
<1> DEFINE IsPrefix(p, n) ==
      p \in Seq(X) /\ Len(p) = n /\ \A i \in 1..n : p[i] = s[i]
           T == {n \in Nat : n <= Len(s) => IsPrefix(KeepUpTo(s, S)[n], n)}
<1>1. Len(s) \in Nat
  BY LenProperties
<1>2. 0 \in T
  <2>1. KeepUpTo(s, S)[0] = << >>
    BY KeepUpToStep, Zenon
  <2>2. << >> \in Seq(X) /\ Len(<< >>) = 0
    BY EmptySeq
  <2>3. IsPrefix(KeepUpTo(s, S)[0], 0)
    BY <2>1, <2>2
  <2> QED
    BY <2>3
<1>3. ASSUME NEW n \in Nat, n \in T PROVE n + 1 \in T
  <2> SUFFICES ASSUME n + 1 <= Len(s)
               PROVE  IsPrefix(KeepUpTo(s, S)[n+1], n + 1)
    OBVIOUS
  <2>1. IsPrefix(KeepUpTo(s, S)[n], n)
    BY <1>1, <1>3
  <2>2. s[n+1] \in X
    BY <1>1, ElementOfSeq
  <2>3. KeepUpTo(s, S)[n+1] = Append(KeepUpTo(s, S)[n], s[n+1])
    <3>1. n \in 0..Len(s)-1 /\ s[n+1] \in S
      BY <1>1, <2>2
    <3> QED
      BY <3>1, KeepUpToStep, Zenon
  <2>4. /\ KeepUpTo(s, S)[n+1] \in Seq(X)
        /\ Len(KeepUpTo(s, S)[n+1]) = n + 1
        /\ \A i \in 1..n : KeepUpTo(s, S)[n+1][i] = KeepUpTo(s, S)[n][i]
        /\ KeepUpTo(s, S)[n+1][n+1] = s[n+1]
    BY <2>1, <2>2, <2>3, AppendProperties
  <2> QED
    BY <2>1, <2>4
<1>4. Len(s) \in T
  <2> HIDE DEF T
  <2> QED
    BY <1>1, <1>2, <1>3, Induction
<1>5. IsPrefix(KeepUpTo(s, S)[Len(s)], Len(s))
  BY <1>1, <1>4
<1> QED
  BY <1>1, <1>5, SeqEqual DEF Keep

\* A selection that is not empty found something.
LEMMA KeepFound ==
  ASSUME NEW X, NEW s \in Seq(X), NEW S, Keep(s, S) # << >>
  PROVE  \E i \in DOMAIN s : s[i] \in S
<1> SUFFICES ASSUME \A i \in DOMAIN s : s[i] \notin S
             PROVE  Keep(s, S) = << >>
  OBVIOUS
<1> DEFINE T == {n \in Nat : n <= Len(s) => KeepUpTo(s, S)[n] = << >>}
<1>1. Len(s) \in Nat /\ DOMAIN s = 1..Len(s)
  BY LenProperties
<1>2. 0 \in T
  BY KeepUpToStep
<1>3. ASSUME NEW n \in Nat, n \in T PROVE n + 1 \in T
  <2> SUFFICES ASSUME n + 1 <= Len(s)
               PROVE  KeepUpTo(s, S)[n+1] = << >>
    OBVIOUS
  <2>1. KeepUpTo(s, S)[n] = << >>
    BY <1>1, <1>3
  <2>2. s[n+1] \notin S /\ n \in 0..Len(s)-1
    BY <1>1
  <2>3. KeepUpTo(s, S)[n+1] = KeepUpTo(s, S)[n]
    BY <2>2, KeepUpToStep
  <2> QED
    BY <2>1, <2>3
<1>4. Len(s) \in T
  <2> HIDE DEF T
  <2> QED
    BY <1>1, <1>2, <1>3, Induction
<1> QED
  BY <1>1, <1>4 DEF Keep

\* Nothing is left of an empty sequence.
LEMMA KeepEmpty ==
  ASSUME NEW S
  PROVE  Keep(<< >>, S) = << >>
BY KeepAll, EmptySeq, SeqMonotonic

\* The result is a sequence over what the argument was one over.
COROLLARY KeepSub ==
  ASSUME NEW X, NEW s \in Seq(X), NEW S
  PROVE  Keep(s, S) \in Seq(X)
<1>1. Keep(s, S) \in Seq(X \cap S)
  BY KeepType
<1> QED
  BY <1>1, SeqMonotonic, X \cap S \subseteq X

\* Every stage of the selection is a sequence over what the argument was.
LEMMA KeepUpToSub ==
  ASSUME NEW X, NEW s \in Seq(X), NEW S, NEW m \in 0..Len(s)
  PROVE  KeepUpTo(s, S)[m] \in Seq(X)
<1> DEFINE T == {n \in Nat : n <= Len(s) => KeepUpTo(s, S)[n] \in Seq(X)}
<1>1. Len(s) \in Nat
  BY LenProperties
<1>2. 0 \in T
  <2>1. KeepUpTo(s, S)[0] = << >>
    BY KeepUpToStep, Zenon
  <2> QED
    BY <2>1, EmptySeq
<1>3. ASSUME NEW n \in Nat, n \in T PROVE n + 1 \in T
  <2> SUFFICES ASSUME n + 1 <= Len(s)
               PROVE  KeepUpTo(s, S)[n+1] \in Seq(X)
    OBVIOUS
  <2>1. KeepUpTo(s, S)[n] \in Seq(X) /\ n \in 0..Len(s)-1 /\ n+1 \in 1..Len(s)
    BY <1>1, <1>3
  <2>2. s[n+1] \in X
    BY <2>1, ElementOfSeq
  <2>3. KeepUpTo(s, S)[n+1] = IF s[n+1] \in S THEN Append(KeepUpTo(s, S)[n], s[n+1])
                                              ELSE KeepUpTo(s, S)[n]
    BY <2>1, KeepUpToStep
  <2> QED
    BY <2>1, <2>2, <2>3, AppendProperties
<1>4. m \in T
  <2> HIDE DEF T
  <2> QED
    BY <1>1, <1>2, <1>3, Induction
<1> QED
  BY <1>1, <1>4

\* What is in the set is found: the converse of KeepFound.
LEMMA KeepFinds ==
  ASSUME NEW X, NEW s \in Seq(X), NEW S, NEW m \in DOMAIN s, s[m] \in S
  PROVE  Keep(s, S) # << >>
<1> DEFINE T == {n \in Nat : n <= Len(s) /\ m <= n => KeepUpTo(s, S)[n] # << >>}
<1>1. Len(s) \in Nat /\ DOMAIN s = 1..Len(s)
  BY LenProperties
<1>2. 0 \in T
  BY <1>1
<1>3. ASSUME NEW n \in Nat, n \in T PROVE n + 1 \in T
  <2> SUFFICES ASSUME n + 1 <= Len(s), m <= n + 1
               PROVE  KeepUpTo(s, S)[n+1] # << >>
    OBVIOUS
  <2>1. n \in 0..Len(s)-1 /\ n \in 0..Len(s)
    BY <1>1
  <2>2. KeepUpTo(s, S)[n+1] =
          IF s[n+1] \in S THEN Append(KeepUpTo(s, S)[n], s[n+1]) ELSE KeepUpTo(s, S)[n]
    BY <2>1, KeepUpToStep
  <2>3. KeepUpTo(s, S)[n] \in Seq(X) /\ s[n+1] \in X
    BY <1>1, <2>1, KeepUpToSub, ElementOfSeq
  <2>4. CASE s[n+1] \in S
    BY <2>2, <2>3, <2>4, AppendProperties
  <2>5. CASE s[n+1] \notin S
    <3>1. m <= n
      BY <1>1, <2>5
    <3>2. KeepUpTo(s, S)[n] # << >>
      BY <1>1, <1>3, <3>1
    <3> QED
      BY <2>2, <2>5, <3>2
  <2> QED
    BY <2>4, <2>5
<1>4. Len(s) \in T
  <2> HIDE DEF T
  <2> QED
    BY <1>1, <1>2, <1>3, Induction
<1> QED
  BY <1>1, <1>4 DEF Keep

\* What is selected from the first elements depends on these alone.
LEMMA KeepPrefix ==
  ASSUME NEW X, NEW s \in Seq(X), NEW u \in Seq(X), NEW S,
         NEW m \in Nat, m <= Len(s), m <= Len(u), \A i \in 1..m : s[i] = u[i]
  PROVE  KeepUpTo(s, S)[m] = KeepUpTo(u, S)[m]
<1> DEFINE T == {n \in Nat : n <= m => KeepUpTo(s, S)[n] = KeepUpTo(u, S)[n]}
<1>1. Len(s) \in Nat /\ Len(u) \in Nat
  BY LenProperties
<1>2. 0 \in T
  <2>1. KeepUpTo(s, S)[0] = << >> /\ KeepUpTo(u, S)[0] = << >>
    BY KeepUpToStep, Zenon
  <2> QED
    BY <2>1
<1>3. ASSUME NEW n \in Nat, n \in T PROVE n + 1 \in T
  <2> SUFFICES ASSUME n + 1 <= m
               PROVE  KeepUpTo(s, S)[n+1] = KeepUpTo(u, S)[n+1]
    OBVIOUS
  <2>1. KeepUpTo(s, S)[n] = KeepUpTo(u, S)[n] /\ s[n+1] = u[n+1]
    BY <1>3
  <2>2. n \in 0..Len(s)-1 /\ n \in 0..Len(u)-1
    BY <1>1
  <2>3. KeepUpTo(s, S)[n+1] = IF s[n+1] \in S THEN Append(KeepUpTo(s, S)[n], s[n+1])
                                              ELSE KeepUpTo(s, S)[n]
    BY <2>2, KeepUpToStep
  <2>4. KeepUpTo(u, S)[n+1] = IF u[n+1] \in S THEN Append(KeepUpTo(u, S)[n], u[n+1])
                                              ELSE KeepUpTo(u, S)[n]
    BY <2>2, KeepUpToStep
  <2> QED
    BY <2>1, <2>3, <2>4
<1>4. m \in T
  <2> HIDE DEF T
  <2> QED
    BY <1>2, <1>3, Induction
<1> QED
  BY <1>4

\* The last element is selected or not, whatever is in front of it.
LEMMA KeepAppend ==
  ASSUME NEW X, NEW s \in Seq(X), NEW x \in X, NEW S
  PROVE  Keep(Append(s, x), S) = IF x \in S THEN Append(Keep(s, S), x) ELSE Keep(s, S)
<1> DEFINE u == Append(s, x)
<1>1. /\ u \in Seq(X) /\ Len(u) = Len(s) + 1 /\ Len(s) \in Nat
      /\ u[Len(s)+1] = x /\ \A i \in 1..Len(s) : u[i] = s[i]
  BY AppendProperties, LenProperties
<1> HIDE DEF u
<1>2. KeepUpTo(u, S)[Len(s)] = Keep(s, S)
  BY <1>1, KeepPrefix DEF Keep
<1>3. Len(s) \in 0..Len(u)-1
  BY <1>1
<1>4. KeepUpTo(u, S)[Len(s)+1] = IF u[Len(s)+1] \in S THEN Append(KeepUpTo(u, S)[Len(s)], u[Len(s)+1])
                                                    ELSE KeepUpTo(u, S)[Len(s)]
  BY <1>1, <1>3, KeepUpToStep
<1>5. Keep(u, S) = KeepUpTo(u, S)[Len(s)+1]
  BY <1>1 DEF Keep
<1> QED
  BY <1>1, <1>2, <1>4, <1>5 DEF u

\* What is selected from two joined sequences is what is selected from each.
LEMMA KeepConcat ==
  ASSUME NEW X, NEW s \in Seq(X), NEW t \in Seq(X), NEW S
  PROVE  Keep(s \o t, S) = Keep(s, S) \o Keep(t, S)
<1> DEFINE u == s \o t
           T == {n \in Nat : n <= Len(t) =>
                   KeepUpTo(u, S)[Len(s)+n] = Keep(s, S) \o KeepUpTo(t, S)[n]}
<1>0. \A p \in Seq(X), q \in Seq(X), y \in X : Append(p \o q, y) = p \o Append(q, y)
  <2> SUFFICES ASSUME NEW p \in Seq(X), NEW q \in Seq(X), NEW y \in X
               PROVE  Append(p \o q, y) = p \o Append(q, y)
    BY Zenon
  <2>1. p \o q \in Seq(X) /\ <<y>> \in Seq(X)
    BY ConcatProperties
  <2>2. Append(p \o q, y) = (p \o q) \o <<y>>
    BY <2>1, AppendIsConcat
  <2>3. Append(q, y) = q \o <<y>>
    BY <2>1, AppendIsConcat
  <2>4. (p \o q) \o <<y>> = p \o (q \o <<y>>)
    BY <2>1
  <2> QED
    BY <2>2, <2>3, <2>4, Zenon
<1>1. /\ u \in Seq(X) /\ Len(u) = Len(s) + Len(t) /\ Len(s) \in Nat /\ Len(t) \in Nat
      /\ \A i \in 1..Len(s) : u[i] = s[i]
      /\ \A i \in 1..Len(t) : u[Len(s)+i] = t[i]
  BY ConcatProperties, LenProperties
<1>2. Keep(s, S) \in Seq(X)
  BY KeepSub
<1> HIDE DEF u
<1>3. 0 \in T
  <2>1. KeepUpTo(u, S)[Len(s)] = Keep(s, S)
    BY <1>1, KeepPrefix DEF Keep
  <2>2. KeepUpTo(t, S)[0] = << >>
    BY KeepUpToStep, Zenon
  <2>3. Keep(s, S) \o << >> = Keep(s, S)
    BY <1>2, ConcatEmptySeq
  <2>4. Len(s) + 0 = Len(s)
    BY <1>1
  <2>5. KeepUpTo(u, S)[Len(s)+0] = Keep(s, S) \o KeepUpTo(t, S)[0]
    BY <2>1, <2>2, <2>3, <2>4, Zenon
  <2> QED
    BY <2>5
<1>4. ASSUME NEW n \in Nat, n \in T PROVE n + 1 \in T
  <2> SUFFICES ASSUME n + 1 <= Len(t)
               PROVE  KeepUpTo(u, S)[Len(s)+(n+1)] = Keep(s, S) \o KeepUpTo(t, S)[n+1]
    OBVIOUS
  <2> DEFINE k == Len(s) + n
             e == t[n+1]
  <2>1. k \in 0..Len(u)-1 /\ n \in 0..Len(t)-1 /\ n+1 \in 1..Len(t) /\ Len(s)+(n+1) = k+1
    BY <1>1
  <2>2. u[k+1] = e
    <3>1. u[Len(s)+(n+1)] = t[n+1]
      BY <1>1, <2>1
    <3> QED
      BY <2>1, <3>1
  <2>3. KeepUpTo(u, S)[k] = Keep(s, S) \o KeepUpTo(t, S)[n]
    BY <1>1, <1>4
  <2>4. KeepUpTo(u, S)[k+1] = IF u[k+1] \in S THEN Append(KeepUpTo(u, S)[k], u[k+1])
                                             ELSE KeepUpTo(u, S)[k]
    BY <1>1, <2>1, KeepUpToStep
  <2>5. KeepUpTo(t, S)[n+1] = IF e \in S THEN Append(KeepUpTo(t, S)[n], e)
                                         ELSE KeepUpTo(t, S)[n]
    BY <2>1, KeepUpToStep
  <2>6. e \in X
    BY <2>1, ElementOfSeq
  <2>7. KeepUpTo(t, S)[n] \in Seq(X)
    BY <1>1, <2>1, KeepUpToSub
  <2> HIDE DEF k, e
  <2>8. Append(Keep(s, S) \o KeepUpTo(t, S)[n], e) = Keep(s, S) \o Append(KeepUpTo(t, S)[n], e)
    BY <1>2, <1>0, <2>6, <2>7, Zenon
  <2> QED
    BY <2>1, <2>2, <2>3, <2>4, <2>5, <2>8
<1>5. Len(t) \in T
  <2> HIDE DEF T
  <2> QED
    BY <1>1, <1>3, <1>4, Induction
<1>6. KeepUpTo(u, S)[Len(u)] = Keep(s, S) \o KeepUpTo(t, S)[Len(t)]
  BY <1>1, <1>5
<1> QED
  BY <1>6 DEF Keep, u

\* Two selections may be made in either order.
LEMMA KeepCommute ==
  ASSUME NEW X, NEW s \in Seq(X), NEW A, NEW B
  PROVE  Keep(Keep(s, A), B) = Keep(Keep(s, B), A)
<1> DEFINE T == {n \in Nat : n <= Len(s) =>
                   Keep(KeepUpTo(s, A)[n], B) = Keep(KeepUpTo(s, B)[n], A)}
<1>1. Len(s) \in Nat
  BY LenProperties
<1>2. 0 \in T
  <2>1. KeepUpTo(s, A)[0] = << >> /\ KeepUpTo(s, B)[0] = << >>
    BY KeepUpToStep, Zenon
  <2> QED
    BY <2>1, KeepEmpty
<1>3. ASSUME NEW n \in Nat, n \in T PROVE n + 1 \in T
  <2> SUFFICES ASSUME n + 1 <= Len(s)
               PROVE  Keep(KeepUpTo(s, A)[n+1], B) = Keep(KeepUpTo(s, B)[n+1], A)
    OBVIOUS
  <2> DEFINE a == KeepUpTo(s, A)[n]
             b == KeepUpTo(s, B)[n]
             x == s[n+1]
  <2>1. n \in 0..Len(s)-1 /\ n \in 0..Len(s) /\ n+1 \in 1..Len(s)
    BY <1>1
  <2>2. Keep(a, B) = Keep(b, A)
    BY <1>1, <1>3
  <2>3. a \in Seq(X) /\ b \in Seq(X) /\ x \in X
    BY <2>1, KeepUpToSub, ElementOfSeq
  <2>4. KeepUpTo(s, A)[n+1] = IF x \in A THEN Append(a, x) ELSE a
    BY <2>1, KeepUpToStep
  <2>5. KeepUpTo(s, B)[n+1] = IF x \in B THEN Append(b, x) ELSE b
    BY <2>1, KeepUpToStep
  <2> HIDE DEF a, b, x
  <2>6. Keep(Append(a, x), B) = IF x \in B THEN Append(Keep(a, B), x) ELSE Keep(a, B)
    BY <2>3, KeepAppend
  <2>7. Keep(Append(b, x), A) = IF x \in A THEN Append(Keep(b, A), x) ELSE Keep(b, A)
    BY <2>3, KeepAppend
  <2> QED
    BY <2>2, <2>4, <2>5, <2>6, <2>7, Zenon
<1>4. Len(s) \in T
  <2> HIDE DEF T
  <2> QED
    BY <1>1, <1>2, <1>3, Induction
<1> QED
  BY <1>1, <1>4 DEF Keep

-----------------------------------------------------------------------------
(***************************************************************************)
(* What the helpers do to the types of lines and files.                    *)
(***************************************************************************)

\* A word of a line, or the empty text when the line is shorter.
LEMMA WordType ==
  ASSUME NEW l \in Line, NEW i \in Nat \ {0}
  PROVE  Word(l, i) \in Text
<1>1. l \in Seq(Token) /\ Len(l) \in Nat
  BY LenProperties DEF Line
<1>2. ASSUME Len(l) >= i PROVE l[i] \in Token
  <2>1. i \in 1..Len(l)
    BY <1>1, <1>2
  <2> QED
    BY <1>1, <2>1, ElementOfSeq
<1> QED
  BY <1>2 DEF Word, Text

\* What an override line is written from becomes a line.
LEMMA OverrideType ==
  ASSUME NEW mac \in Text, NEW v4 \in Text, NEW v6 \in Text, NEW tag \in Text
  PROVE  Override(mac, v4, v6, tag) \in Line
<1>1. <<mac, v4, v6, tag>> \in Seq(Text)
  OBVIOUS
<1>2. Keep(<<mac, v4, v6, tag>>, Token) \in Seq(Text \cap Token)
  BY <1>1, KeepType
<1>3. Keep(<<mac, v4, v6, tag>>, Token) \in Seq(Token)
  BY <1>2, SeqMonotonic, Text \cap Token \subseteq Token
<1>4. <<"dnsoverride">> \in Seq(Token)
  <2>1. "dnsoverride" \in Token
    BY WordsAssumption
  <2> QED
    BY <2>1
<1> QED
  BY <1>3, <1>4, ConcatProperties DEF Override, Line

\* The handlers add one line at the most.
LEMMA EntryType ==
  ASSUME NEW mac \in Text, NEW v4 \in Text, NEW v6 \in Text, NEW tag \in Text
  PROVE  /\ Entry(mac, v4, v6, tag) \in Seq(Line)
         /\ \/ /\ Fits(mac, v4, v6, tag)
               /\ Entry(mac, v4, v6, tag) = <<Override(mac, v4, v6, tag)>>
            \/ ~ Fits(mac, v4, v6, tag) /\ Entry(mac, v4, v6, tag) = << >>
<1> DEFINE line == Override(mac, v4, v6, tag)
<1>1. line \in Line
  BY OverrideType
<1>2. Entry(mac, v4, v6, tag) = IF Fits(mac, v4, v6, tag) THEN <<line>> ELSE << >>
  BY DEF Entry
<1> HIDE DEF line
<1>3. <<line>> \in Seq(Line) /\ << >> \in Seq(Line)
  BY <1>1, EmptySeq
<1>4. CASE Fits(mac, v4, v6, tag)
  BY <1>2, <1>3, <1>4 DEF line
<1>5. CASE ~ Fits(mac, v4, v6, tag)
  BY <1>2, <1>3, <1>5
<1> QED
  BY <1>4, <1>5

\* A valid line has the four words its readers take from it.
LEMMA ValidLinesAreLines == ValidLines \subseteq Line /\ ValidDefaults \subseteq ValidLines
BY DEF ValidLines, ValidDefaults, WithWord

\* What is selected as valid consists of valid lines.
LEMMA KeepValid ==
  ASSUME NEW s \in Seq(Line)
  PROVE  Keep(s, ValidLines) \in Seq(ValidLines)
<1>1. Keep(s, ValidLines) \in Seq(Line \cap ValidLines)
  BY KeepType
<1>2. Line \cap ValidLines \subseteq ValidLines
  OBVIOUS
<1> QED
  BY <1>1, <1>2, SeqMonotonic

LEMMA RefreshType ==
  ASSUME NEW fs \in Files, NEW flag
  PROVE  RefreshResolvConfEntry(fs, flag) \in Files
<1>1. Keep(fs.conf, ValidLines) \in Seq(Line)
  BY KeepSub DEF Files
<1> QED
  BY <1>1 DEF RefreshResolvConfEntry, Files

LEMMA AppendType ==
  ASSUME NEW fs \in Files, NEW lines \in Seq(Line)
  PROVE  AppendDnsmasqConfEntry(fs, lines) \in Files
<1>1. fs.conf \o lines \in Seq(Line)
  BY ConcatProperties DEF Files
<1> QED
  BY <1>1 DEF AppendDnsmasqConfEntry, Files

LEMMA ReplaceType ==
  ASSUME NEW fs \in Files, NEW flag, NEW mac, NEW lines \in Seq(Line)
  PROVE  ReplaceDnsmasqConfEntry(fs, flag, mac, lines) \in Files
<1> DEFINE kept == [fs EXCEPT !.conf = Keep(@, Line \ Mentioning(mac))]
<1>1. Keep(fs.conf, Line \ Mentioning(mac)) \in Seq(Line)
  BY KeepSub DEF Files
<1>2. kept \in Files
  BY <1>1 DEF Files
<1>3. AppendDnsmasqConfEntry(kept, lines) \in Files
  BY <1>2, AppendType
<1> QED
  BY <1>3, RefreshType DEF ReplaceDnsmasqConfEntry

LEMMA SetType ==
  ASSUME NEW fs \in Files
  PROVE  SetXdnsConfig(fs).fs \in Files /\ SetXdnsConfig(fs).result \in BOOLEAN
<1>1. Keep(fs.conf, ValidLines) \in Seq(Line)
  BY KeepSub DEF Files
<1> QED
  BY <1>1 DEF SetXdnsConfig, Files

LEMMA UnsetType ==
  ASSUME NEW fs \in Files
  PROVE  UnsetXdnsConfig(fs) \in Files
BY EmptySeq DEF UnsetXdnsConfig, Files

LEMMA GetEntryType ==
  ASSUME NEW fs \in Files, NEW mac
  PROVE  GetDnsMasqFileEntry(fs, mac) \in Seq(Line)
<1>1. Keep(fs.conf, Mentioning(mac)) \in Seq(Line)
  BY KeepSub DEF Files
<1> QED
  BY <1>1, EmptySeq DEF GetDnsMasqFileEntry

-----------------------------------------------------------------------------
(***************************************************************************)
(* How much is kept, and that nothing selected is lost.                    *)
(***************************************************************************)

\* How many elements are kept: as many as there are places in s with an
\* element of S.
LEMMA KeepCount ==
  ASSUME NEW X, NEW s \in Seq(X), NEW S
  PROVE  /\ IsFiniteSet({i \in DOMAIN s : s[i] \in S})
         /\ Len(Keep(s, S)) = Cardinality({i \in DOMAIN s : s[i] \in S})
<1> DEFINE at(n) == {i \in 1..n : s[i] \in S}
           T == {n \in Nat : n <= Len(s) => Len(KeepUpTo(s, S)[n]) = Cardinality(at(n))}
<1>1. Len(s) \in Nat /\ DOMAIN s = 1..Len(s)
  BY LenProperties
<1>2. ASSUME NEW n \in Nat PROVE IsFiniteSet(at(n))
  <2>1. IsFiniteSet(1..n)
    BY FS_Interval
  <2>2. at(n) \in SUBSET (1..n)
    OBVIOUS
  <2> HIDE DEF at
  <2> QED
    BY <2>1, <2>2, FS_Subset
<1>3. 0 \in T
  <2>1. KeepUpTo(s, S)[0] = << >> /\ Len(<< >>) = 0
    BY KeepUpToStep, EmptySeq, Zenon
  <2>2. at(0) = {}
    OBVIOUS
  <2> QED
    BY <2>1, <2>2, FS_EmptySet
<1>4. ASSUME NEW n \in Nat, n \in T PROVE n + 1 \in T
  <2> SUFFICES ASSUME n + 1 <= Len(s)
               PROVE  Len(KeepUpTo(s, S)[n+1]) = Cardinality(at(n+1))
    OBVIOUS
  <2>1. n \in 0..Len(s)-1 /\ n \in 0..Len(s) /\ n + 1 \in 1..Len(s)
    BY <1>1
  <2>2. KeepUpTo(s, S)[n] \in Seq(X) /\ s[n+1] \in X
    BY <2>1, KeepUpToSub, ElementOfSeq
  <2>3. KeepUpTo(s, S)[n+1] = IF s[n+1] \in S THEN Append(KeepUpTo(s, S)[n], s[n+1])
                                              ELSE KeepUpTo(s, S)[n]
    BY <2>1, KeepUpToStep
  <2>4. Len(KeepUpTo(s, S)[n]) = Cardinality(at(n))
    BY <1>1, <1>4
  <2>5. IsFiniteSet(at(n)) /\ n + 1 \notin at(n)
    BY <1>2
  <2>6. CASE s[n+1] \in S
    <3>1. at(n+1) = at(n) \cup {n+1}
      BY <2>6
    <3>2. Cardinality(at(n+1)) = Cardinality(at(n)) + 1
      <4> HIDE DEF at
      <4> QED
        BY <2>5, <3>1, FS_AddElement
    <3>3. Len(KeepUpTo(s, S)[n+1]) = Len(KeepUpTo(s, S)[n]) + 1
      BY <2>2, <2>3, <2>6, AppendProperties
    <3> QED
      BY <2>4, <3>2, <3>3
  <2>7. CASE s[n+1] \notin S
    <3>1. at(n+1) = at(n)
      BY <2>7
    <3> QED
      BY <2>3, <2>4, <2>7, <3>1
  <2> QED
    BY <2>6, <2>7
<1>5. Len(s) \in T
  <2> HIDE DEF T
  <2> QED
    BY <1>1, <1>3, <1>4, Induction
<1>6. at(Len(s)) = {i \in DOMAIN s : s[i] \in S}
  BY <1>1
<1>7. IsFiniteSet(at(Len(s))) /\ Len(KeepUpTo(s, S)[Len(s)]) = Cardinality(at(Len(s)))
  BY <1>1, <1>2, <1>5
<1> QED
  BY <1>6, <1>7, Zenon DEF Keep

\* A selection is never longer than what it selects from.
COROLLARY KeepShorter ==
  ASSUME NEW X, NEW s \in Seq(X), NEW S
  PROVE  Len(Keep(s, S)) <= Len(s)
<1>1. Len(s) \in Nat /\ DOMAIN s = 1..Len(s)
  BY LenProperties
<1>2. IsFiniteSet(1..Len(s)) /\ Cardinality(1..Len(s)) = Len(s)
  BY <1>1, FS_Interval
<1>3. {i \in DOMAIN s : s[i] \in S} \in SUBSET (1..Len(s))
  BY <1>1
<1>4. Cardinality({i \in DOMAIN s : s[i] \in S}) <= Cardinality(1..Len(s))
  BY <1>2, <1>3, FS_Subset
<1> QED
  BY <1>2, <1>4, KeepCount

\* At most one element is kept exactly when no two places of s hold one of S.
COROLLARY KeepUnique ==
  ASSUME NEW X, NEW s \in Seq(X), NEW S
  PROVE  Len(Keep(s, S)) <= 1
           <=> \A i, j \in DOMAIN s : s[i] \in S /\ s[j] \in S => i = j
<1> DEFINE at == {i \in DOMAIN s : s[i] \in S}
<1>1. IsFiniteSet(at) /\ Len(Keep(s, S)) = Cardinality(at) /\ Cardinality(at) \in Nat
  BY KeepCount, FS_CardinalityType
<1>2. Cardinality(at) <= 1 <=> \A i, j \in at : i = j
  <2> HIDE DEF at
  <2>1. ASSUME Cardinality(at) <= 1, NEW i \in at, NEW j \in at PROVE i = j
    <3>1. Cardinality(at) # 0
      BY <1>1, FS_EmptySet
    <3>2. Cardinality(at) = 1
      BY <1>1, <2>1, <3>1
    <3>3. \E x : at = {x}
      BY <1>1, <3>2, FS_Singleton
    <3> QED
      BY <3>3
  <2>2. ASSUME \A i, j \in at : i = j PROVE Cardinality(at) <= 1
    <3>1. CASE at = {}
      BY <3>1, FS_EmptySet
    <3>2. CASE at # {}
      <4>1. PICK x \in at : TRUE
        BY <3>2
      <4>2. at = {x}
        BY <2>2, <4>1
      <4>3. Cardinality({x}) = 1
        BY FS_Singleton
      <4> QED
        BY <4>2, <4>3
    <3> QED
      BY <3>1, <3>2
  <2> QED
    BY <2>1, <2>2
<1> QED
  BY <1>1, <1>2

\* Nothing is kept of a sequence with no element in S.
LEMMA KeepNone ==
  ASSUME NEW X, NEW s \in Seq(X), NEW S, X \cap S = {}
  PROVE  Keep(s, S) = << >>
<1> SUFFICES ASSUME Keep(s, S) # << >> PROVE FALSE
  OBVIOUS
<1>1. PICK i \in DOMAIN s : s[i] \in S
  BY KeepFound
<1>2. s[i] \in X
  BY LenProperties, ElementOfSeq
<1> QED
  BY <1>1, <1>2

\* No element of S is lost.
LEMMA KeepHas ==
  ASSUME NEW X, NEW s \in Seq(X), NEW S, NEW i \in DOMAIN s, s[i] \in S
  PROVE  \E j \in DOMAIN Keep(s, S) : Keep(s, S)[j] = s[i]
<1> DEFINE one == {s[i]}
           ones == Keep(s, one)
<1>1. ones # << >>
  BY KeepFinds
<1>2. ones \in Seq(X \cap one) /\ X \cap one \subseteq S
  BY KeepType
<1> HIDE DEF ones
<1>3. Keep(ones, S) = ones
  BY <1>2, KeepAll
<1>4. Keep(Keep(s, S), one) = Keep(ones, S)
  BY KeepCommute DEF ones
<1>5. Keep(s, S) \in Seq(X)
  BY KeepSub
<1>6. \E j \in DOMAIN Keep(s, S) : Keep(s, S)[j] \in one
  BY <1>1, <1>3, <1>4, <1>5, KeepFound
<1> QED
  BY <1>6
=============================================================================

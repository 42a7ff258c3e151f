--------------------------- MODULE SequenceProofs ---------------------------
(***************************************************************************)
(* Facts about the operators of SequenceOps, for every sequence and every  *)
(* selecting set.  What a recursive function computes is proved by induction *)
(* over sequences (SeqInduction): the induction principle takes the property *)
(* as a set of sequences and rests on the well-foundedness of < on Nat.    *)
(***************************************************************************)
EXTENDS SequenceOps, Functions, WellFoundedInduction, TLAPS

\* Most leaves are first-order and go to Zenon; the ones about numbers,
\* records and sequences cite SMT.
USE Zenon

\* A set of numbers that is not empty has a least element.
LEMMA LeastNatural ==
    ASSUME NEW T, T \subseteq Nat, T # {}
    PROVE  \E m \in T : \A k \in T : m <= k
<1> DEFINE R == OpToRel(<, Nat)
<1>1. IsWellFoundedOn(R, Nat)
    BY NatLessThanWellFounded
<1>2. \A j, k \in Nat : <<j, k>> \in R <=> j < k
    BY DEF OpToRel
<1> HIDE DEF R
<1>3. PICK m \in T : \A k \in T : ~(<<k, m>> \in R)
    BY <1>1, WFMin
<1>4. ASSUME NEW k \in T PROVE m <= k
  <2>1. k \in Nat /\ m \in Nat /\ ~(k < m)
      BY <1>2, <1>3
  <2> QED BY <2>1, SMT
<1> QED BY <1>4

\* Induction with the property as a set: the provers can instantiate a set.
LEMMA SetInduction ==
    ASSUME NEW S, 0 \in S, \A n \in Nat : n \in S => n + 1 \in S
    PROVE  Nat \subseteq S
<1> DEFINE T == Nat \ S
<1>1. ASSUME T # {} PROVE FALSE
  <2>1. PICK m \in T : \A k \in T : m <= k
    BY <1>1, LeastNatural
  <2>2. m \in Nat \ {0} /\ m \notin S
    OBVIOUS
  <2>3. m - 1 \in Nat /\ m - 1 \notin T
    BY <2>1, <2>2, SMT
  <2>4. (m - 1) + 1 = m
    BY <2>2, SMT
  <2>5. m - 1 \in S
    BY <2>3
  <2> QED BY <2>2, <2>3, <2>4, <2>5
<1> QED BY <1>1

-----------------------------------------------------------------------------
(* Sequences. *)

\* A sequence over a set is one over every larger set.
LEMMA SeqWiden ==
    ASSUME NEW S, NEW T, S \subseteq T, NEW s \in Seq(S)
    PROVE  s \in Seq(T)
BY SMT

\* The empty sequence is neutral.
LEMMA ConcatEmpty ==
    ASSUME NEW T, NEW s \in Seq(T)
    PROVE  s \o <<>> = s /\ <<>> \o s = s
BY SMT

\* Concatenation is associative.
LEMMA ConcatAssoc ==
    ASSUME NEW T, NEW r \in Seq(T), NEW s \in Seq(T), NEW t \in Seq(T)
    PROVE  (r \o s) \o t = r \o (s \o t)
BY SMTT(30)

\* A sequence that is not empty has a last element.
LEMMA LastOf ==
    ASSUME NEW T, NEW s \in Seq(T), s # <<>>
    PROVE  \E t \in Seq(T), e \in T : s = Append(t, e)
<1> DEFINE n == Len(s) - 1
           t == [i \in 1..n |-> s[i]]
<1>1. n \in Nat /\ \A i \in 1..n : s[i] \in T
  BY SMT
<1>2. t \in Seq(T) /\ Len(t) = n /\ s[Len(s)] \in T
  BY <1>1, SMT
<1>3. s = Append(t, s[Len(s)])
  BY <1>1, <1>2, SMT
<1> QED BY <1>2, <1>3

\* A set that holds the empty sequence and is closed under Append holds them all.
LEMMA SeqInduction ==
    ASSUME NEW T, NEW P, <<>> \in P,
           \A s \in Seq(T), e \in T : s \in P => Append(s, e) \in P
    PROVE  Seq(T) \subseteq P
<1> DEFINE S == {n \in Nat : \A s \in Seq(T) : Len(s) = n => s \in P}
<1>1. 0 \in S
  <2>1. \A s \in Seq(T) : Len(s) = 0 => s = <<>>
    BY SMT
  <2> QED BY <2>1
<1>2. ASSUME NEW n \in Nat, n \in S PROVE n + 1 \in S
  <2> SUFFICES ASSUME NEW s \in Seq(T), Len(s) = n + 1 PROVE s \in P
    BY SMT
  <2>1. s # <<>>
    BY SMT
  <2>2. PICK t \in Seq(T), e \in T : s = Append(t, e)
    BY <2>1, LastOf
  <2>3. Len(t) = n
    BY <2>2, SMT
  <2>4. t \in P
    BY <1>2, <2>3
  <2> QED BY <2>2, <2>4
<1> HIDE DEF S
<1>3. Nat \subseteq S
  BY <1>1, <1>2, SetInduction
<1>4. ASSUME NEW s \in Seq(T) PROVE s \in P
  <2>1. Len(s) \in S
    BY <1>3, SMT
  <2> QED BY <2>1 DEF S
<1> QED BY <1>4

\* The elements after an Append.
LEMMA AppendRange ==
    ASSUME NEW T, NEW s \in Seq(T), NEW e \in T
    PROVE  Range(Append(s, e)) = Range(s) \cup {e}
<1>1. /\ \A i \in 1..Len(s) : Append(s, e)[i] = s[i]
      /\ Append(s, e)[Len(s) + 1] = e
      /\ DOMAIN Append(s, e) = 1..(Len(s) + 1) /\ DOMAIN s = 1..Len(s) /\ Len(s) \in Nat
  BY SMT
<1>2. ASSUME NEW x PROVE x \in Range(Append(s, e)) <=> x \in Range(s) \cup {e}
  BY <1>1, SMT DEF Range
<1> QED BY <1>2

\* An element appended to the second part is appended to the whole.
LEMMA AppendConcat ==
    ASSUME NEW T, NEW s \in Seq(T), NEW t \in Seq(T), NEW e \in T
    PROVE  s \o Append(t, e) = Append(s \o t, e)
BY SMT

\* The equations of the recursive function define it.
LEMMA OnlyUpToDef ==
    ASSUME NEW T, NEW s \in Seq(T), NEW S
    PROVE  LET only == OnlyUpTo(s, S) IN
           only = [i \in 0..Len(s) |->
                      IF i = 0 THEN <<>>
                      ELSE IF s[i] \in S THEN Append(only[i - 1], s[i])
                      ELSE only[i - 1]]
<1> DEFINE Body(f, i) == IF i = 0 THEN <<>>
                         ELSE IF s[i] \in S THEN Append(f[i - 1], s[i])
                         ELSE f[i - 1]
           N == {n \in Nat : \E f : f = [i \in 0..n |-> Body(f, i)]}
<1>1. 0 \in N
  <2> DEFINE f == [i \in 0..0 |-> <<>>]
  <2>1. f = [i \in 0..0 |-> Body(f, i)]
    BY SMT
  <2> HIDE DEF f
  <2> QED BY <2>1
<1>2. ASSUME NEW n \in Nat, n \in N PROVE n + 1 \in N
  <2>1. PICK f : f = [i \in 0..n |-> Body(f, i)]
    BY <1>2
  <2> DEFINE g == [i \in 0..(n + 1) |-> IF i = n + 1 THEN Body(f, i) ELSE f[i]]
  <2>2. ASSUME NEW i \in 0..(n + 1) PROVE g[i] = Body(g, i)
    <3>1. CASE i = n + 1
      <4>1. g[i] = Body(f, i) /\ i # 0 /\ i - 1 = n /\ n \in 0..(n + 1) /\ n # n + 1
        BY <3>1, SMT
      <4>2. g[i - 1] = f[i - 1]
        BY <4>1
      <4> QED BY <4>1, <4>2
    <3>2. CASE i # n + 1
      <4>1. i \in 0..n
        BY <3>2, SMT
      <4>2. g[i] = f[i] /\ f[i] = Body(f, i)
        BY <2>1, <3>2, <4>1
      <4>3. i # 0 => i - 1 \in 0..n /\ i - 1 # n + 1 /\ i - 1 \in 0..(n + 1)
        BY <4>1, SMT
      <4>4. i # 0 => g[i - 1] = f[i - 1]
        BY <4>3
      <4> HIDE DEF g
      <4> QED BY <4>2, <4>4
    <3> QED BY <3>1, <3>2
  <2>3. g = [i \in 0..(n + 1) |-> g[i]]
    OBVIOUS
  <2>4. g = [i \in 0..(n + 1) |-> Body(g, i)]
    <3> HIDE DEF g
    <3> QED BY <2>2, <2>3
  <2> HIDE DEF g
  <2> QED BY <2>4, SMTT(60)
<1> HIDE DEF N
<1>3. Len(s) \in N
  BY <1>1, <1>2, SetInduction, SMT
<1>4. \E f : f = [i \in 0..Len(s) |-> Body(f, i)]
  BY <1>3 DEF N
<1> QED BY <1>4 DEF OnlyUpTo

\* What the first i elements select does not depend on what follows them.
LEMMA OnlyUpToAppend ==
    ASSUME NEW T, NEW s \in Seq(T), NEW e \in T, NEW S
    PROVE  \A i \in 0..Len(s) : OnlyUpTo(Append(s, e), S)[i] = OnlyUpTo(s, S)[i]
<1> DEFINE t == Append(s, e)
           f == OnlyUpTo(s, S)
           g == OnlyUpTo(t, S)
           N == {n \in Nat : n <= Len(s) => g[n] = f[n]}
<1>1. t \in Seq(T) /\ Len(t) = Len(s) + 1 /\ Len(s) \in Nat
      /\ \A i \in 1..Len(s) : t[i] = s[i]
  BY SMT
<1> HIDE DEF t
<1>2. f = [i \in 0..Len(s) |-> IF i = 0 THEN <<>>
                               ELSE IF s[i] \in S THEN Append(f[i - 1], s[i])
                               ELSE f[i - 1]]
  BY OnlyUpToDef, SMT
<1>3. g = [i \in 0..Len(t) |-> IF i = 0 THEN <<>>
                               ELSE IF t[i] \in S THEN Append(g[i - 1], t[i])
                               ELSE g[i - 1]]
  BY <1>1, OnlyUpToDef, SMT
<1> HIDE DEF f, g
<1>4. 0 \in N
  BY <1>1, <1>2, <1>3, SMT
<1>5. ASSUME NEW n \in Nat, n \in N PROVE n + 1 \in N
  <2> SUFFICES ASSUME n + 1 <= Len(s) PROVE g[n + 1] = f[n + 1]
    BY SMT
  <2> DEFINE m == n + 1
  <2>1. m \in 0..Len(s) /\ m \in 0..Len(t) /\ m \in 1..Len(s) /\ m # 0 /\ m - 1 = n /\ n <= Len(s)
    BY <1>1, SMT
  <2>2. g[n] = f[n]
    BY <1>5, <2>1
  <2> HIDE DEF m
  <2>3. /\ f[m] = IF s[m] \in S THEN Append(f[m - 1], s[m]) ELSE f[m - 1]
        /\ g[m] = IF t[m] \in S THEN Append(g[m - 1], t[m]) ELSE g[m - 1]
    BY <1>2, <1>3, <2>1
  <2>4. g[m] = f[m]
    BY <1>1, <2>1, <2>2, <2>3
  <2> QED BY <2>4 DEF m
<1> HIDE DEF N
<1>6. Nat \subseteq N
  BY <1>4, <1>5, SetInduction
<1>7. ASSUME NEW i \in 0..Len(s) PROVE g[i] = f[i]
  <2>1. i \in N /\ i <= Len(s)
    BY <1>1, <1>6, SMT
  <2> QED BY <2>1 DEF N
<1> QED BY <1>7 DEF f, g, t

\* The two equations of Only.
LEMMA OnlyEmpty ==
    ASSUME NEW S
    PROVE  Only(<<>>, S) = <<>>
<1>1. ASSUME NEW s \in Seq(Nat), Len(s) = 0 PROVE Only(s, S) = <<>>
  <2> DEFINE f == OnlyUpTo(s, S)
  <2>1. f = [i \in 0..Len(s) |-> IF i = 0 THEN <<>>
                                 ELSE IF s[i] \in S THEN Append(f[i - 1], s[i])
                                 ELSE f[i - 1]]
    BY OnlyUpToDef, SMT
  <2>2. Only(s, S) = f[0]
    BY <1>1 DEF Only
  <2> HIDE DEF f
  <2> QED BY <1>1, <2>1, <2>2, SMT
<1>2. <<>> \in Seq(Nat) /\ Len(<<>>) = 0
  BY SMT
<1> QED BY <1>1, <1>2

\* The selection grows by the new element, if that is selected.
LEMMA OnlyAppend ==
    ASSUME NEW T, NEW s \in Seq(T), NEW e \in T, NEW S
    PROVE  Only(Append(s, e), S) = IF e \in S THEN Append(Only(s, S), e) ELSE Only(s, S)
<1> DEFINE t == Append(s, e)
           g == OnlyUpTo(t, S)
           n == Len(t)
<1>1. t \in Seq(T) /\ n = Len(s) + 1 /\ Len(s) \in Nat /\ t[n] = e
  BY SMT
<1>2. g[Len(s)] = Only(s, S)
  BY OnlyUpToAppend, SMT DEF Only
<1>3. Only(t, S) = g[n]
  BY DEF Only
<1> HIDE DEF t
<1>4. g = [i \in 0..n |-> IF i = 0 THEN <<>>
                          ELSE IF t[i] \in S THEN Append(g[i - 1], t[i])
                          ELSE g[i - 1]]
  BY <1>1, OnlyUpToDef, SMT
<1> HIDE DEF g, n
<1>5. n \in 0..n /\ n # 0 /\ n - 1 = Len(s)
  BY <1>1, SMT
<1>6. g[n] = IF t[n] \in S THEN Append(g[n - 1], t[n]) ELSE g[n - 1]
  BY <1>4, <1>5
<1>7. Only(t, S) = IF e \in S THEN Append(Only(s, S), e) ELSE Only(s, S)
  BY <1>1, <1>2, <1>3, <1>5, <1>6
<1> QED BY <1>7 DEF t

\* The selection holds selected elements only.
LEMMA OnlyType ==
    ASSUME NEW T, NEW s \in Seq(T), NEW S
    PROVE  Only(s, S) \in Seq(T \cap S)
<1> DEFINE P == {u \in Seq(T) : Only(u, S) \in Seq(T \cap S)}
<1>1. <<>> \in P
  <2>1. Only(<<>>, S) = <<>>
    BY OnlyEmpty
  <2>2. <<>> \in Seq(T) /\ <<>> \in Seq(T \cap S)
    BY SMT
  <2> QED BY <2>1, <2>2
<1>2. ASSUME NEW u \in Seq(T), NEW e \in T, u \in P PROVE Append(u, e) \in P
  <2>1. Only(u, S) \in Seq(T \cap S) /\ Append(u, e) \in Seq(T)
    BY <1>2, SMT
  <2>2. e \in S => Append(Only(u, S), e) \in Seq(T \cap S)
    BY <2>1, SMT
  <2> QED BY <2>1, <2>2, OnlyAppend
<1> HIDE DEF P
<1>3. s \in P
  BY <1>1, <1>2, SeqInduction
<1> QED BY <1>3 DEF P

\* The selection of two parts, part by part.
LEMMA OnlyConcat ==
    ASSUME NEW T, NEW s \in Seq(T), NEW t \in Seq(T), NEW S
    PROVE  Only(s \o t, S) = Only(s, S) \o Only(t, S)
<1> DEFINE P == {u \in Seq(T) : Only(s \o u, S) = Only(s, S) \o Only(u, S)}
<1>1. <<>> \in P
  <2>1. s \o <<>> = s /\ Only(s, S) \o <<>> = Only(s, S)
    BY OnlyType, ConcatEmpty, SMT
  <2>2. <<>> \in Seq(T) /\ Only(<<>>, S) = <<>>
    BY OnlyEmpty, SMT
  <2> QED BY <2>1, <2>2
<1>2. ASSUME NEW u \in Seq(T), NEW e \in T, u \in P PROVE Append(u, e) \in P
  <2>1. s \o Append(u, e) = Append(s \o u, e) /\ s \o u \in Seq(T) /\ Append(u, e) \in Seq(T)
    BY SMT
  <2>2. Only(s, S) \in Seq(T) /\ Only(u, S) \in Seq(T)
    <3>1. Only(s, S) \in Seq(T \cap S) /\ Only(u, S) \in Seq(T \cap S) /\ T \cap S \subseteq T
      BY OnlyType
    <3> QED BY <3>1, SeqWiden
  <2>3. Only(s, S) \o Append(Only(u, S), e) = Append(Only(s, S) \o Only(u, S), e)
    BY <2>2, SMT
  <2>4. /\ Only(Append(s \o u, e), S) = IF e \in S THEN Append(Only(s \o u, S), e) ELSE Only(s \o u, S)
        /\ Only(Append(u, e), S) = IF e \in S THEN Append(Only(u, S), e) ELSE Only(u, S)
    BY <2>1, OnlyAppend
  <2> QED BY <1>2, <2>1, <2>3, <2>4
<1> HIDE DEF P
<1>3. t \in P
  BY <1>1, <1>2, SeqInduction
<1> QED BY <1>3 DEF P

\* Only elements of the sequence matter to what is selected.
LEMMA OnlySame ==
    ASSUME NEW T, NEW s \in Seq(T), NEW A, NEW B,
           \A i \in 1..Len(s) : s[i] \in A <=> s[i] \in B
    PROVE  Only(s, A) = Only(s, B)
<1> DEFINE P == {u \in Seq(T) : (\A i \in 1..Len(u) : u[i] \in A <=> u[i] \in B)
                                    => Only(u, A) = Only(u, B)}
<1>1. <<>> \in P
  BY OnlyEmpty, SMT
<1>2. ASSUME NEW u \in Seq(T), NEW e \in T, u \in P PROVE Append(u, e) \in P
  <2> DEFINE v == Append(u, e)
  <2>1. v \in Seq(T) /\ Len(v) = Len(u) + 1 /\ v[Len(v)] = e /\ \A i \in 1..Len(u) : v[i] = u[i]
    BY SMT
  <2>2. ASSUME \A i \in 1..Len(v) : v[i] \in A <=> v[i] \in B PROVE Only(v, A) = Only(v, B)
    <3> HIDE DEF v
    <3>1. Len(u) \in Nat /\ Len(v) \in 1..Len(v) /\ \A i \in 1..Len(u) : i \in 1..Len(v)
      BY <2>1, SMT
    <3>2. e \in A <=> e \in B
      BY <2>1, <2>2, <3>1
    <3>3. \A i \in 1..Len(u) : u[i] \in A <=> u[i] \in B
      BY <2>1, <2>2, <3>1
    <3>4. Only(u, A) = Only(u, B)
      BY <1>2, <3>3
    <3>5. /\ Only(v, A) = IF e \in A THEN Append(Only(u, A), e) ELSE Only(u, A)
          /\ Only(v, B) = IF e \in B THEN Append(Only(u, B), e) ELSE Only(u, B)
      BY OnlyAppend, ZenonT(40) DEF v
    <3> QED BY <3>2, <3>4, <3>5
  <2> QED BY <2>1, <2>2
<1> HIDE DEF P
<1>3. s \in P
  BY <1>1, <1>2, SeqInduction
<1> QED BY <1>3 DEF P

\* Nothing is left out of a sequence of selected elements.
LEMMA OnlyAll ==
    ASSUME NEW T, NEW s \in Seq(T), NEW S, \A i \in 1..Len(s) : s[i] \in S
    PROVE  Only(s, S) = s
<1> DEFINE P == {u \in Seq(T) : Only(u, T) = u}
<1>1. <<>> \in P
  BY OnlyEmpty, SMT
<1>2. ASSUME NEW u \in Seq(T), NEW e \in T, u \in P PROVE Append(u, e) \in P
  <2>1. Append(u, e) \in Seq(T) /\ Only(u, T) = u
    BY <1>2, SMT
  <2> QED BY <2>1, OnlyAppend
<1>3. s \in P
  <2> HIDE DEF P
  <2> QED BY <1>1, <1>2, SeqInduction
<1>4. \A i \in 1..Len(s) : s[i] \in S <=> s[i] \in T
  BY SMT
<1> QED BY <1>3, <1>4, OnlySame

\* Nothing is left of a sequence without selected elements.
LEMMA OnlyNone ==
    ASSUME NEW T, NEW s \in Seq(T), NEW S, \A i \in 1..Len(s) : s[i] \notin S
    PROVE  Only(s, S) = <<>>
<1> DEFINE P == {u \in Seq(T) : Only(u, {}) = <<>>}
<1>1. <<>> \in P
  BY OnlyEmpty, SMT
<1>2. ASSUME NEW u \in Seq(T), NEW e \in T, u \in P PROVE Append(u, e) \in P
  <2>1. Append(u, e) \in Seq(T) /\ Only(u, {}) = <<>> /\ e \notin {}
    BY <1>2, SMT
  <2> QED BY <2>1, OnlyAppend
<1>3. s \in P
  <2> HIDE DEF P
  <2> QED BY <1>1, <1>2, SeqInduction
<1>4. \A i \in 1..Len(s) : s[i] \in S <=> s[i] \in {}
  OBVIOUS
<1> QED BY <1>3, <1>4, OnlySame

\* Two selections, one after the other, select by both.
LEMMA OnlyTwice ==
    ASSUME NEW T, NEW s \in Seq(T), NEW A, NEW B
    PROVE  Only(Only(s, A), B) = Only(s, A \cap B)
<1> DEFINE P == {u \in Seq(T) : Only(Only(u, A), B) = Only(u, A \cap B)}
<1>1. <<>> \in P
  BY OnlyEmpty, SMT
<1>2. ASSUME NEW u \in Seq(T), NEW e \in T, u \in P PROVE Append(u, e) \in P
  <2>1. Append(u, e) \in Seq(T) /\ Only(Only(u, A), B) = Only(u, A \cap B)
    BY <1>2, SMT
  <2>2. Only(u, A) \in Seq(T)
    <3>1. Only(u, A) \in Seq(T \cap A) /\ T \cap A \subseteq T
      BY OnlyType
    <3> QED BY <3>1, SeqWiden
  <2>3. Only(Append(u, e), A) = IF e \in A THEN Append(Only(u, A), e) ELSE Only(u, A)
    BY OnlyAppend
  <2>4. Only(Append(Only(u, A), e), B)
          = IF e \in B THEN Append(Only(Only(u, A), B), e) ELSE Only(Only(u, A), B)
    BY <2>2, OnlyAppend, ZenonT(40)
  <2>5. Only(Append(u, e), A \cap B)
          = IF e \in A \cap B THEN Append(Only(u, A \cap B), e) ELSE Only(u, A \cap B)
    BY OnlyAppend
  <2>6. Only(Only(Append(u, e), A), B) = Only(Append(u, e), A \cap B)
    <3>1. CASE e \in A
      <4>1. Only(Only(Append(u, e), A), B) = Only(Append(Only(u, A), e), B)
        BY <2>3, <3>1
      <4>2. CASE e \in B
        BY <2>1, <2>4, <2>5, <3>1, <4>1, <4>2
      <4>3. CASE e \notin B
        BY <2>1, <2>4, <2>5, <3>1, <4>1, <4>3
      <4> QED BY <4>2, <4>3
    <3>2. CASE e \notin A
      BY <2>1, <2>3, <2>5, <3>2
    <3> QED BY <3>1, <3>2
  <2> QED BY <2>1, <2>6
<1> HIDE DEF P
<1>3. s \in P
  BY <1>1, <1>2, SeqInduction
<1> QED BY <1>3 DEF P

\* What is selected is what occurs and is wanted.
LEMMA OnlyRange ==
    ASSUME NEW T, NEW s \in Seq(T), NEW S
    PROVE  Range(Only(s, S)) = Range(s) \cap S
<1> DEFINE P == {u \in Seq(T) : Range(Only(u, S)) = Range(u) \cap S}
<1>0. Range(<<>>) = {}
  BY SMT DEF Range
<1>1. <<>> \in P
  BY <1>0, OnlyEmpty, SMT
<1>2. ASSUME NEW u \in Seq(T), NEW e \in T, u \in P PROVE Append(u, e) \in P
  <2>1. Append(u, e) \in Seq(T) /\ Range(Only(u, S)) = Range(u) \cap S
    BY <1>2, SMT
  <2>2. Range(Append(u, e)) = Range(u) \cup {e}
    BY AppendRange, SMT
  <2>3. CASE e \in S
    <3>1. Only(u, S) \in Seq(T \cap S) /\ Only(Append(u, e), S) = Append(Only(u, S), e)
      <4>1. Only(u, S) \in Seq(T \cap S)
        BY OnlyType
      <4>2. Only(Append(u, e), S) = IF e \in S THEN Append(Only(u, S), e) ELSE Only(u, S)
        BY OnlyAppend
      <4> QED BY <2>3, <4>1, <4>2
    <3>2. Range(Append(Only(u, S), e)) = Range(Only(u, S)) \cup {e}
      BY <2>3, <3>1, AppendRange, SMTT(30)
    <3>3. Range(Only(Append(u, e), S)) = Range(Append(u, e)) \cap S
      BY <2>1, <2>2, <2>3, <3>1, <3>2
    <3> QED BY <2>1, <3>3
  <2>4. CASE e \notin S
    <3>1. Only(Append(u, e), S) = Only(u, S)
      BY <2>4, OnlyAppend
    <3>2. Range(Only(Append(u, e), S)) = Range(Append(u, e)) \cap S
      BY <2>1, <2>2, <2>4, <3>1
    <3> QED BY <2>1, <3>2
  <2> QED BY <2>3, <2>4
<1> HIDE DEF P
<1>3. s \in P
  BY <1>1, <1>2, SeqInduction
<1> QED BY <1>3 DEF P

\* Taking a sequence apart at its head.
LEMMA OnlyHead ==
    ASSUME NEW T, NEW s \in Seq(T), s # <<>>, NEW S
    PROVE  /\ Head(s) \in S    => Only(s, S) = <<Head(s)>> \o Only(Tail(s), S)
           /\ Head(s) \notin S => Only(s, S) = Only(Tail(s), S)
<1> DEFINE h == Head(s)
           t == Tail(s)
           o == <<h>>
<1>1. s = o \o t /\ h \in T /\ t \in Seq(T) /\ o \in Seq(T)
  BY SMT
<1>2. Append(<<>>, h) = o /\ <<>> \in Seq(T)
  BY SMT
<1> HIDE DEF h, t
<1>3. Only(<<>>, S) = <<>> /\ Append(<<>>, h) = <<h>>
  BY OnlyEmpty, SMT
<1>4. Only(Append(<<>>, h), S) = IF h \in S THEN Append(Only(<<>>, S), h) ELSE Only(<<>>, S)
  BY <1>1, <1>2, OnlyAppend, Zenon
<1>5. (h \in S => Only(o, S) = <<h>>) /\ (h \notin S => Only(o, S) = <<>>)
  BY <1>2, <1>3, <1>4
<1> HIDE DEF o
<1>6. Only(o \o t, S) = Only(o, S) \o Only(t, S)
  BY <1>1, OnlyConcat, SMT
<1>7. <<>> \o Only(t, S) = Only(t, S)
  <2>1. Only(t, S) \in Seq(T \cap S)
    BY <1>1, OnlyType
  <2> QED BY <2>1, SMT
<1> QED BY <1>1, <1>5, <1>6, <1>7 DEF h, t

\* A sequence without x is a sequence over the other elements.
LEMMA SeqWithout ==
    ASSUME NEW T, NEW s \in Seq(T), NEW x, x \notin Range(s)
    PROVE  s \in Seq(T \ {x})
<1>1. s \in [1..Len(s) -> T] /\ DOMAIN s = 1..Len(s) /\ Len(s) \in Nat
  BY SMT
<1>2. \A i \in 1..Len(s) : s[i] \in T \ {x}
  BY <1>1 DEF Range
<1>3. s \in [1..Len(s) -> T \ {x}]
  BY <1>1, <1>2
<1> QED BY <1>1, <1>3, SMT

\* Selecting twice selects what both selections want.
LEMMA OnlyBoth ==
    ASSUME NEW T, NEW s \in Seq(T), NEW A, NEW B, NEW C,
           \A e \in T : e \in C <=> e \in A /\ e \in B
    PROVE  Only(Only(s, A), B) = Only(s, C)
<1>1. \A i \in 1..Len(s) : s[i] \in C <=> s[i] \in A \cap B
  BY SMT
<1>2. Only(s, C) = Only(s, A \cap B)
  BY <1>1, OnlySame
<1> QED BY <1>2, OnlyTwice, SMT

\* Selecting all but x from a sequence in which x occurs once.
LEMMA OnlyAround ==
    ASSUME NEW Q, NEW x, x \notin Q,
           NEW before \in Seq(Q), NEW after \in Seq(Q)
    PROVE  Only(before \o <<x>> \o after, Q) = before \o after
<1> DEFINE T == Q \cup {x}
           o == <<x>>
           b == before \o o
<1>0. Q \subseteq T /\ x \in T
  OBVIOUS
<1> HIDE DEF T
<1>1. before \in Seq(T) /\ after \in Seq(T) /\ o \in Seq(T)
  BY <1>0, SeqWiden, SMT
<1>2. b \in Seq(T) /\ before \o <<>> = before
  BY <1>1, SMT
<1>3. /\ \A i \in 1..Len(o) : o[i] \notin Q
      /\ \A i \in 1..Len(before) : before[i] \in Q
      /\ \A i \in 1..Len(after) : after[i] \in Q
  BY SMT
<1> HIDE DEF o
<1>4. Only(before, Q) = before /\ Only(after, Q) = after /\ Only(o, Q) = <<>>
  BY <1>1, <1>3, OnlyAll, OnlyNone
<1>5. Only(b, Q) = Only(before, Q) \o Only(o, Q)
  BY <1>1, OnlyConcat, SMTT(30)
<1> HIDE DEF b
<1>6. Only(b \o after, Q) = Only(b, Q) \o Only(after, Q)
  BY <1>1, <1>2, OnlyConcat, SMTT(60)
<1>7. Only(b \o after, Q) = before \o after
  BY <1>2, <1>4, <1>5, <1>6
<1> QED BY <1>7 DEF o, b

\* x is among the selected elements of s, between before and after, and V wants
\* all that W wants except x.
Leaving(T, s, W, x, V, before, after) ==
    /\ s \in Seq(T) /\ x \in T
    /\ before \in Seq(T \ {x}) /\ after \in Seq(T \ {x})
    /\ Only(s, W) = before \o <<x>> \o after
    /\ \A e \in T : e \in V <=> e \in W /\ e # x

\* When x is no longer wanted, the other selected elements stay in order.
LEMMA OnlyLeave ==
    ASSUME NEW T, NEW s, NEW W, NEW x, NEW V, NEW before, NEW after,
           Leaving(T, s, W, x, V, before, after)
    PROVE  Only(s, V) = before \o after
<1> DEFINE Q == T \ {x}
<1>1. s \in Seq(T) /\ before \in Seq(Q) /\ after \in Seq(Q)
  BY DEF Leaving
<1>2. x \notin Q /\ \A e \in T : e \in V <=> e \in W /\ e \in Q
  BY DEF Leaving
<1> HIDE DEF Q
<1>3. Only(Only(s, W), Q) = Only(s, V)
  BY <1>1, <1>2, OnlyBoth, SMT
<1>4. Only(before \o <<x>> \o after, Q) = before \o after
  BY <1>1, <1>2, OnlyAround, ZenonT(40)
<1> QED BY <1>3, <1>4 DEF Leaving

-----------------------------------------------------------------------------
(* Flat. *)

\* The equations of the recursive function define it.
LEMMA FlatUpToDef ==
    ASSUME NEW T, NEW ss \in Seq(Seq(T))
    PROVE  LET flat == FlatUpTo(ss) IN
           flat = [i \in 0..Len(ss) |-> IF i = 0 THEN <<>> ELSE flat[i - 1] \o ss[i]]
<1> DEFINE Body(f, i) == IF i = 0 THEN <<>> ELSE f[i - 1] \o ss[i]
           N == {n \in Nat : \E f : f = [i \in 0..n |-> Body(f, i)]}
<1>1. 0 \in N
  <2> DEFINE f == [i \in 0..0 |-> <<>>]
  <2>1. f = [i \in 0..0 |-> Body(f, i)]
    BY SMT
  <2> HIDE DEF f
  <2> QED BY <2>1
<1>2. ASSUME NEW n \in Nat, n \in N PROVE n + 1 \in N
  <2>1. PICK f : f = [i \in 0..n |-> Body(f, i)]
    BY <1>2
  <2> DEFINE g == [i \in 0..(n + 1) |-> IF i = n + 1 THEN Body(f, i) ELSE f[i]]
  <2>2. ASSUME NEW i \in 0..(n + 1) PROVE g[i] = Body(g, i)
    <3>1. CASE i = n + 1
      <4>1. g[i] = Body(f, i) /\ i # 0 /\ i - 1 = n /\ n \in 0..(n + 1) /\ n # n + 1
        BY <3>1, SMT
      <4>2. g[i - 1] = f[i - 1]
        BY <4>1
      <4> QED BY <4>1, <4>2
    <3>2. CASE i # n + 1
      <4>1. i \in 0..n
        BY <3>2, SMT
      <4>2. g[i] = f[i] /\ f[i] = Body(f, i)
        BY <2>1, <3>2, <4>1
      <4>3. i # 0 => i - 1 \in 0..n /\ i - 1 # n + 1 /\ i - 1 \in 0..(n + 1)
        BY <4>1, SMT
      <4>4. i # 0 => g[i - 1] = f[i - 1]
        BY <4>3
      <4> HIDE DEF g
      <4> QED BY <4>2, <4>4
    <3> QED BY <3>1, <3>2
  <2>3. g = [i \in 0..(n + 1) |-> g[i]]
    OBVIOUS
  <2>4. g = [i \in 0..(n + 1) |-> Body(g, i)]
    <3> HIDE DEF g
    <3> QED BY <2>2, <2>3
  <2>5. \E h : h = [i \in 0..(n + 1) |-> Body(h, i)]
    <3> HIDE DEF g, Body
    <3> QED BY <2>4
  <2>6. n + 1 \in Nat
    BY SMT
  <2> HIDE DEF Body
  <2> QED BY <2>5, <2>6, Zenon
<1> HIDE DEF N
<1>3. Len(ss) \in N
  BY <1>1, <1>2, SetInduction, SMTT(30)
<1>4. \E f : f = [i \in 0..Len(ss) |-> Body(f, i)]
  BY <1>3 DEF N
<1> QED BY <1>4 DEF FlatUpTo

\* A sequence that is appended leaves the earlier values alone.
LEMMA FlatUpToAppend ==
    ASSUME NEW T, NEW ss \in Seq(Seq(T)), NEW e \in Seq(T)
    PROVE  \A i \in 0..Len(ss) : FlatUpTo(Append(ss, e))[i] = FlatUpTo(ss)[i]
<1> DEFINE t == Append(ss, e)
           f == FlatUpTo(ss)
           g == FlatUpTo(t)
           N == {n \in Nat : n <= Len(ss) => g[n] = f[n]}
<1>1. t \in Seq(Seq(T)) /\ Len(t) = Len(ss) + 1 /\ Len(ss) \in Nat
      /\ \A i \in 1..Len(ss) : t[i] = ss[i]
  BY SMT
<1> HIDE DEF t
<1>2. f = [i \in 0..Len(ss) |-> IF i = 0 THEN <<>> ELSE f[i - 1] \o ss[i]]
  BY FlatUpToDef
<1>3. g = [i \in 0..Len(t) |-> IF i = 0 THEN <<>> ELSE g[i - 1] \o t[i]]
  BY <1>1, FlatUpToDef
<1> HIDE DEF f, g
<1>4. 0 \in N
  BY <1>1, <1>2, <1>3, SMT
<1>5. ASSUME NEW n \in Nat, n \in N PROVE n + 1 \in N
  <2> SUFFICES ASSUME n + 1 <= Len(ss) PROVE g[n + 1] = f[n + 1]
    BY SMT
  <2> DEFINE m == n + 1
  <2>1. m \in 0..Len(ss) /\ m \in 0..Len(t) /\ m \in 1..Len(ss) /\ m # 0 /\ m - 1 = n /\ n <= Len(ss)
    BY <1>1, SMT
  <2>2. g[n] = f[n]
    BY <1>5, <2>1
  <2> HIDE DEF m
  <2>3. f[m] = f[m - 1] \o ss[m] /\ g[m] = g[m - 1] \o t[m]
    BY <1>2, <1>3, <2>1
  <2>4. g[m] = f[m]
    BY <1>1, <2>1, <2>2, <2>3
  <2> QED BY <2>4 DEF m
<1> HIDE DEF N
<1>6. Nat \subseteq N
  BY <1>4, <1>5, SetInduction
<1>7. ASSUME NEW i \in 0..Len(ss) PROVE g[i] = f[i]
  <2>1. i \in N /\ i <= Len(ss)
    BY <1>1, <1>6, SMT
  <2> QED BY <2>1 DEF N
<1> QED BY <1>7 DEF f, g, t

\* The two equations of Flat.
LEMMA FlatEmpty == Flat(<<>>) = <<>>
<1>1. ASSUME NEW ss \in Seq(Seq(Nat)), Len(ss) = 0 PROVE Flat(ss) = <<>>
  <2> DEFINE f == FlatUpTo(ss)
  <2>1. f = [i \in 0..Len(ss) |-> IF i = 0 THEN <<>> ELSE f[i - 1] \o ss[i]]
    BY FlatUpToDef
  <2>2. Flat(ss) = f[0]
    BY <1>1 DEF Flat
  <2> HIDE DEF f
  <2> QED BY <1>1, <2>1, <2>2, SMT
<1>2. <<>> \in Seq(Seq(Nat)) /\ Len(<<>>) = 0
  BY SMT
<1> QED BY <1>1, <1>2

\* A sequence that is appended comes last.
LEMMA FlatAppend ==
    ASSUME NEW T, NEW ss \in Seq(Seq(T)), NEW e \in Seq(T)
    PROVE  Flat(Append(ss, e)) = Flat(ss) \o e
<1> DEFINE t == Append(ss, e)
           g == FlatUpTo(t)
           n == Len(t)
<1>1. t \in Seq(Seq(T)) /\ n = Len(ss) + 1 /\ Len(ss) \in Nat /\ t[n] = e
  BY SMT
<1>2. g[Len(ss)] = Flat(ss)
  BY FlatUpToAppend, SMT DEF Flat
<1>3. Flat(t) = g[n]
  BY DEF Flat
<1> HIDE DEF t
<1>4. g = [i \in 0..n |-> IF i = 0 THEN <<>> ELSE g[i - 1] \o t[i]]
  BY <1>1, FlatUpToDef
<1> HIDE DEF g, n
<1>5. n \in 0..n /\ n # 0 /\ n - 1 = Len(ss)
  BY <1>1, SMT
<1>6. g[n] = g[n - 1] \o t[n]
  BY <1>4, <1>5
<1>7. Flat(t) = Flat(ss) \o e
  BY <1>1, <1>2, <1>3, <1>5, <1>6
<1> QED BY <1>7 DEF t

\* The parts over a set make a sequence over it.
LEMMA FlatType ==
    ASSUME NEW T, NEW ss \in Seq(Seq(T))
    PROVE  Flat(ss) \in Seq(T)
<1> DEFINE P == {u \in Seq(Seq(T)) : Flat(u) \in Seq(T)}
<1>1. <<>> \in P
  <2>1. <<>> \in Seq(Seq(T)) /\ <<>> \in Seq(T)
    BY SMT
  <2> QED BY <2>1, FlatEmpty, Zenon
<1>2. ASSUME NEW u \in Seq(Seq(T)), NEW e \in Seq(T), u \in P PROVE Append(u, e) \in P
  <2>1. Append(u, e) \in Seq(Seq(T)) /\ Flat(Append(u, e)) = Flat(u) \o e
    BY FlatAppend, SMT
  <2>2. Flat(u) \o e \in Seq(T)
    BY <1>2, SMT
  <2> QED BY <2>1, <2>2
<1> HIDE DEF P
<1>3. Seq(Seq(T)) \subseteq P
  BY <1>1, <1>2, SeqInduction
<1> QED BY <1>3 DEF P

\* Flat takes its sequences from the front.
LEMMA FlatTail ==
    ASSUME NEW T, NEW ss \in Seq(Seq(T))
    PROVE  ss # <<>> => Flat(ss) = Head(ss) \o Flat(Tail(ss))
<1>0. \A r, s, t \in Seq(T) : (r \o s) \o t = r \o (s \o t)
  BY ConcatAssoc, SMTT(30)
<1> DEFINE P == {u \in Seq(Seq(T)) : u # <<>> => Flat(u) = Head(u) \o Flat(Tail(u))}
<1>1. <<>> \in P
  BY SMT
<1>2. ASSUME NEW u \in Seq(Seq(T)), NEW e \in Seq(T), u \in P PROVE Append(u, e) \in P
  <2>1. Append(u, e) \in Seq(Seq(T)) /\ Flat(Append(u, e)) = Flat(u) \o e
    BY FlatAppend, SMT
  <2>2. CASE u = <<>>
    <3>1. Head(Append(u, e)) = e /\ Tail(Append(u, e)) = <<>>
      BY <2>2, SMT
    <3>2. Flat(u) \o e = e /\ e \o Flat(Tail(Append(u, e))) = e
      BY <2>2, <3>1, FlatEmpty, ConcatEmpty
    <3> QED BY <2>1, <3>1, <3>2
  <2>3. CASE u # <<>>
    <3>1. /\ Head(u) \in Seq(T) /\ Tail(u) \in Seq(Seq(T))
          /\ Head(Append(u, e)) = Head(u) /\ Tail(Append(u, e)) = Append(Tail(u), e)
      BY <2>3, SMTT(30)
    <3>2. Flat(u) = Head(u) \o Flat(Tail(u))
      BY <1>2, <2>3
    <3>3. Flat(Append(Tail(u), e)) = Flat(Tail(u)) \o e /\ Flat(Tail(u)) \in Seq(T)
      BY <3>1, FlatAppend, FlatType
    <3>4. (Head(u) \o Flat(Tail(u))) \o e = Head(u) \o (Flat(Tail(u)) \o e)
      BY <1>0, <3>1, <3>3
    <3> QED BY <2>1, <3>1, <3>2, <3>3, <3>4
  <2> QED BY <2>2, <2>3
<1> HIDE DEF P
<1>3. Seq(Seq(T)) \subseteq P
  BY <1>1, <1>2, SeqInduction
<1> QED BY <1>3 DEF P

-----------------------------------------------------------------------------
(* What two disjoint selections have between them. *)

\* A selection by two disjoint tests has the elements of both.
LEMMA OnlySplit ==
    ASSUME NEW T, NEW s \in Seq(T), NEW A, NEW B, NEW C,
           \A e \in T : e \in C <=> e \in A \/ e \in B, \A e \in T : ~(e \in A /\ e \in B)
    PROVE  /\ Len(Only(s, A)) \in Nat /\ Len(Only(s, B)) \in Nat
           /\ Len(Only(s, C)) = Len(Only(s, A)) + Len(Only(s, B))
<1> DEFINE P == {u \in Seq(T) : Len(Only(u, C)) = Len(Only(u, A)) + Len(Only(u, B))}
<1>0. ASSUME NEW u \in Seq(T), NEW S PROVE Only(u, S) \in Seq(T) /\ Len(Only(u, S)) \in Nat
  <2>1. Only(u, S) \in Seq(T \cap S)
    BY OnlyType
  <2> QED BY <2>1, SMT
<1>1. <<>> \in P
  <2>1. <<>> \in Seq(T) /\ Len(<<>>) = 0
    BY SMT
  <2>2. Only(<<>>, A) = <<>> /\ Only(<<>>, B) = <<>> /\ Only(<<>>, C) = <<>>
    BY OnlyEmpty
  <2> QED BY <2>1, <2>2, SMT
<1>2. ASSUME NEW u \in Seq(T), NEW e \in T, u \in P PROVE Append(u, e) \in P
  <2>1. ASSUME NEW S
        PROVE  Len(Only(Append(u, e), S)) = Len(Only(u, S)) + (IF e \in S THEN 1 ELSE 0)
    <3>1. Only(u, S) \in Seq(T) /\ Len(Only(u, S)) \in Nat
      BY <1>0
    <3>2. Only(Append(u, e), S) = IF e \in S THEN Append(Only(u, S), e) ELSE Only(u, S)
      BY OnlyAppend
    <3> QED BY <3>1, <3>2, SMT
  <2>2. /\ Len(Only(u, A)) \in Nat /\ Len(Only(u, B)) \in Nat
        /\ Len(Only(u, C)) = Len(Only(u, A)) + Len(Only(u, B))
    BY <1>0, <1>2
  <2>3. Append(u, e) \in Seq(T)
    BY SMT
  <2>4. /\ Len(Only(Append(u, e), A)) = Len(Only(u, A)) + (IF e \in A THEN 1 ELSE 0)
        /\ Len(Only(Append(u, e), B)) = Len(Only(u, B)) + (IF e \in B THEN 1 ELSE 0)
        /\ Len(Only(Append(u, e), C)) = Len(Only(u, C)) + (IF e \in C THEN 1 ELSE 0)
    BY <2>1
  <2>5. (e \in C <=> e \in A \/ e \in B) /\ ~(e \in A /\ e \in B)
    OBVIOUS
  <2>6. Len(Only(Append(u, e), C)) = Len(Only(Append(u, e), A)) + Len(Only(Append(u, e), B))
    <3> DEFINE a == Len(Only(u, A))
               b == Len(Only(u, B))
               c == Len(Only(u, C))
    <3>1. a \in Nat /\ b \in Nat /\ c = a + b
      BY <2>2
    <3> HIDE DEF a, b, c
    <3>2. (c + IF e \in C THEN 1 ELSE 0) = (a + IF e \in A THEN 1 ELSE 0) + (b + IF e \in B THEN 1 ELSE 0)
      BY <2>5, <3>1, SMT
    <3> QED BY <2>4, <3>2, Zenon DEF a, b, c
  <2> QED BY <2>3, <2>6
<1> HIDE DEF P
<1>3. Seq(T) \subseteq P
  BY <1>1, <1>2, SeqInduction
<1>4. Len(Only(s, C)) = Len(Only(s, A)) + Len(Only(s, B))
  BY <1>3 DEF P
<1> QED BY <1>0, <1>4
-----------------------------------------------------------------------------
(* Sequences end to end *)

LEMMA HeadTail ==
    ASSUME NEW T, NEW s \in Seq(T), s # <<>>
    PROVE  /\ Head(s) \in T /\ Tail(s) \in Seq(T) /\ <<Head(s)>> \in Seq(T)
           /\ s = <<Head(s)>> \o Tail(s)
BY SMTT(20)

\* Append is concatenation with one element.
LEMMA AppendOne ==
    ASSUME NEW T, NEW s \in Seq(T), NEW e \in T
    PROVE  /\ Append(s, e) \in Seq(T) /\ <<e>> \in Seq(T)
           /\ Append(s, e) = s \o <<e>>
BY SMT

\* A concatenation over the same set.
LEMMA ConcatType ==
    ASSUME NEW T, NEW s \in Seq(T), NEW t \in Seq(T)
    PROVE  s \o t \in Seq(T)
BY SMT

\* Concatenation under a name of its own: the provers take it as it is, and
\* use only what the next lemmas say of it.
Join(s, t) == s \o t

LEMMA JoinType == \A s, t \in Seq(Nat) : Join(s, t) \in Seq(Nat)
BY ConcatType DEF Join

LEMMA JoinAssoc ==
    \A r, s, t \in Seq(Nat) : Join(Join(r, s), t) = Join(r, Join(s, t))
BY ConcatAssoc, SMTT(60) DEF Join

LEMMA JoinEmpty == \A s \in Seq(Nat) : Join(s, <<>>) = s
BY ConcatEmpty, SMT DEF Join

LEMMA JoinAppend ==
    \A s, t \in Seq(Nat), e \in Nat : Join(s, Append(t, e)) = Append(Join(s, t), e)
BY AppendConcat, SMTT(30) DEF Join

\* Four sequences end to end: what was delivered and the three places where
\* the rest of it waits.
Row(g, t, l, s) == Join(Join(Join(g, t), l), s)

\* A row is the concatenation in the properties.
LEMMA RowIsConcat ==
    ASSUME NEW g, NEW t, NEW l, NEW s
    PROVE  Row(g, t, l, s) = g \o t \o l \o s
BY DEF Row, Join

\* The first part and the rest.
LEMMA RowSplit ==
    ASSUME NEW g \in Seq(Nat), NEW t \in Seq(Nat), NEW l \in Seq(Nat), NEW s \in Seq(Nat)
    PROVE  /\ Row(g, t, l, s) = Join(g, Join(t, Join(l, s)))
           /\ Join(t, Join(l, s)) \in Seq(Nat)
BY JoinType, JoinAssoc, SMT DEF Row

\* The head of the last part joins the part before it.
LEMMA MoveHead ==
    ASSUME NEW g \in Seq(Nat), NEW t \in Seq(Nat), NEW l \in Seq(Nat), NEW s \in Seq(Nat),
           s # <<>>
    PROVE  Row(g, t, l, s) = Row(g, t, Append(l, Head(s)), Tail(s))
<1> DEFINE h == <<Head(s)>>
           r == Tail(s)
           e == Head(s)
<1>1. h \in Seq(Nat) /\ r \in Seq(Nat) /\ e \in Nat
  BY HeadTail
<1>2. s = Join(h, r) /\ Append(l, e) = Join(l, h)
  BY <1>1, HeadTail, AppendOne, ZenonT(40) DEF Join
<1> HIDE DEF h, r, e
<1>3. Row(g, t, l, Join(h, r)) = Row(g, t, Join(l, h), r)
  <2> DEFINE a == Join(g, t)
  <2>1. a \in Seq(Nat) /\ Join(a, l) \in Seq(Nat)
    BY JoinType
  <2> HIDE DEF a
  <2>2. Join(Join(Join(a, l), h), r) = Join(Join(a, l), Join(h, r))
    BY <1>1, <2>1, JoinAssoc, SMT
  <2>3. Join(Join(a, l), h) = Join(a, Join(l, h))
    BY <1>1, <2>1, JoinAssoc, SMT
  <2> QED BY <2>2, <2>3 DEF Row, a
<1> QED BY <1>2, <1>3 DEF e, r

\* The third part joins the second.
LEMMA MoveAll ==
    ASSUME NEW g \in Seq(Nat), NEW t \in Seq(Nat), NEW l \in Seq(Nat), NEW s \in Seq(Nat)
    PROVE  Row(g, t, l, s) = Row(g, Join(t, l), <<>>, s)
<1>1. Join(g, Join(t, l)) \in Seq(Nat) /\ Join(Join(g, t), l) = Join(g, Join(t, l))
  BY JoinType, JoinAssoc, SMT
<1>2. Join(Join(g, Join(t, l)), <<>>) = Join(g, Join(t, l))
  BY <1>1, JoinEmpty
<1> QED BY <1>1, <1>2 DEF Row

\* The head of the second part joins the first.
LEMMA MoveFirst ==
    ASSUME NEW g \in Seq(Nat), NEW t \in Seq(Nat), NEW l, NEW s, t # <<>>
    PROVE  Row(g, t, l, s) = Row(Append(g, Head(t)), Tail(t), l, s)
<1> DEFINE h == <<Head(t)>>
           r == Tail(t)
           e == Head(t)
<1>1. h \in Seq(Nat) /\ r \in Seq(Nat) /\ e \in Nat
  BY HeadTail
<1>2. t = Join(h, r) /\ Append(g, e) = Join(g, h)
  BY <1>1, HeadTail, AppendOne, ZenonT(40) DEF Join
<1> HIDE DEF h, r, e
<1>3. Join(g, Join(h, r)) = Join(Join(g, h), r)
  BY <1>1, JoinAssoc
<1> QED BY <1>2, <1>3 DEF Row, e, r
=============================================================================

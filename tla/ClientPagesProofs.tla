-------------------------- MODULE ClientPagesProofs --------------------------
(***************************************************************************)
(* Proofs about what filter() keeps, and with them about the inputs of     *)
(* scripts and the order of the dashboard, for sequences of any length;    *)
(* and that the client's pages side by side do what each of them does      *)
(* alone.                                                                  *)
(***************************************************************************)
EXTENDS ClientPages, ClientPartsProofs, SequenceTheorems

-----------------------------------------------------------------------------
(***************************************************************************)
(* Induction.  The library's rules take a predicate; here the predicate is *)
(* the set of what satisfies it, and the rule follows from WFMin, which is *)
(* about sets.                                                             *)
(***************************************************************************)

\* A set of numbers that is not empty has a least one.
LEMMA LeastNumber ==
    ASSUME NEW T, T \subseteq Nat, T # {}
    PROVE  \E m \in T : \A k \in T : ~ (k < m)
<1> DEFINE R == {p \in Nat \X Nat : p[1] < p[2]}
<1>1. IsWellFoundedOn(R, Nat)
  BY NatLessThanWellFounded, Zenon DEF OpToRel
<1> HIDE DEF R
<1>2. PICK m \in T : \A k \in T : <<k, m>> \notin R
  BY <1>1, WFMin, Zenon
<1>3. ASSUME NEW k \in T, k < m PROVE FALSE
  <2>1. <<k, m>> \in Nat \X Nat
    OBVIOUS
  <2>2. <<k, m>> \in R
    BY <2>1, <1>3 DEF R
  <2> QED
    BY <2>2, <1>2
<1> QED
  BY <1>3, Zenon

\* A set with 0 and the successor of each of its numbers has them all.
LEMMA CountingUp ==
    ASSUME NEW T, 0 \in T, \A n \in Nat : n \in T => n + 1 \in T
    PROVE  Nat \subseteq T
<1> SUFFICES ASSUME Nat \ T # {} PROVE FALSE
  OBVIOUS
<1>1. PICK m \in Nat \ T : \A k \in Nat \ T : ~ (k < m)
  BY LeastNumber, Zenon
<1>2. m # 0 /\ m - 1 \in Nat /\ m - 1 < m
  BY <1>1
<1>3. m - 1 \in T
  BY <1>1, <1>2
<1> QED
  BY <1>1, <1>2, <1>3

\* A set with the empty sequence, and every sequence one item longer than one
\* of its own, has them all.
LEMMA BuiltUp ==
    ASSUME NEW A, NEW T, <<>> \in T,
           \A s \in Seq(A), a \in A : s \in T => Append(s, a) \in T
    PROVE  Seq(A) \subseteq T
<1> DEFINE N == {n \in Nat : \A s \in Seq(A) : Len(s) = n => s \in T}
<1>1. 0 \in N
  <2>1. \A s \in Seq(A) : Len(s) = 0 => s = <<>>
    BY EmptySeq
  <2> QED
    BY <2>1
<1>2. ASSUME NEW n \in Nat, n \in N PROVE n + 1 \in N
  <2> SUFFICES ASSUME NEW s \in Seq(A), Len(s) = n + 1 PROVE s \in T
    OBVIOUS
  <2>1. s # <<>>
    BY EmptySeq
  <2>2. PICK r \in Seq(A), a \in A : s = Append(r, a)
    BY <2>1, SequenceEmptyOrAppend
  <2>3. Len(r) = n
    BY <2>2, AppendProperties
  <2>4. r \in T
    BY <2>3, <1>2
  <2> QED
    BY <2>2, <2>4
<1> HIDE DEF N
<1>3. Nat \subseteq N
  BY <1>1, <1>2, CountingUp, Zenon
<1>4. \A s \in Seq(A) : Len(s) \in Nat
  BY LenProperties
<1> QED
  BY <1>3, <1>4 DEF N

-----------------------------------------------------------------------------
(***************************************************************************)
(* KeptItems                                                               *)
(***************************************************************************)

\* f gives what is kept of the first k items of s, for every k up to n.
Steps(s, S, n, f) ==
    f = [k \in 0 .. n |->
            IF k = 0 THEN <<>>
            ELSE IF s[k] \in S THEN Append(f[k - 1], s[k]) ELSE f[k - 1]]

\* There is such a function for every number of items.
LEMMA StepsExist ==
    ASSUME NEW s, NEW S
    PROVE  \A n \in Nat : \E f : Steps(s, S, n, f)
<1> DEFINE N == {n \in Nat : \E f : Steps(s, S, n, f)}
<1>1. 0 \in N
  <2>1. Steps(s, S, 0, [k \in 0 .. 0 |-> <<>>])
    BY SMT DEF Steps
  <2> QED
    BY <2>1
<1>2. ASSUME NEW n \in Nat, n \in N PROVE n + 1 \in N
  <2>1. PICK f : Steps(s, S, n, f)
    BY <1>2
  <2> DEFINE last == IF s[n + 1] \in S THEN Append(f[n], s[n + 1]) ELSE f[n]
             g == [k \in 0 .. n + 1 |-> IF k = n + 1 THEN last ELSE f[k]]
  <2> HIDE DEF last
  <2>2. \A k \in 0 .. n : g[k] = f[k]
    OBVIOUS
  <2>3. f = [k \in 0 .. n |-> IF k = 0 THEN <<>>
            ELSE IF s[k] \in S THEN Append(f[k - 1], s[k]) ELSE f[k - 1]]
    BY <2>1 DEF Steps
  <2>4. ASSUME NEW k \in 0 .. n + 1
        PROVE  g[k] = IF k = 0 THEN <<>>
                      ELSE IF s[k] \in S THEN Append(g[k - 1], s[k]) ELSE g[k - 1]
    <3>1. CASE k = n + 1
      <4>1. g[k] = last /\ g[k - 1] = f[n] /\ k # 0
        BY <3>1, <2>2
      <4> QED
        BY <4>1, <3>1 DEF last
    <3>2. CASE k \in 0 .. n
      <4>1. g[k] = f[k] 
        BY <3>2, <2>2
      <4>2. k # 0 => k - 1 \in 0 .. n
        BY <3>2
      <4>3. k # 0 => g[k - 1] = f[k - 1]
        BY <4>2, <2>2
      <4>4. f[k] = IF k = 0 THEN <<>>
            ELSE IF s[k] \in S THEN Append(f[k - 1], s[k]) ELSE f[k - 1]
        BY <2>3, <3>2
      <4> QED
        BY <4>1, <4>3, <4>4
    <3> QED
      BY <3>1, <3>2
  <2>5. Steps(s, S, n + 1, g)
    <3> DEFINE h == [k \in 0 .. n + 1 |-> IF k = 0 THEN <<>>
            ELSE IF s[k] \in S THEN Append(g[k - 1], s[k]) ELSE g[k - 1]]
    <3>1. \A k \in 0 .. n + 1 : g[k] = h[k]
      BY <2>4
    <3>2. g = h
      BY <3>1
    <3> QED
      BY <3>2 DEF Steps
  <2> QED
    BY <2>5
<1> HIDE DEF N
<1>3. Nat \subseteq N
  BY <1>1, <1>2, CountingUp, Zenon
<1> QED
  BY <1>3 DEF N

\* What the function is at each place.
LEMMA OnlyIs ==
    ASSUME NEW s, NEW S, Len(s) \in Nat
    PROVE  \E f : Steps(s, S, Len(s), f) /\ Only(s, S) = f[Len(s)]
<1> DEFINE counted == CHOOSE f : Steps(s, S, Len(s), f)
<1>1. Steps(s, S, Len(s), counted)
  BY StepsExist
<1>2. Only(s, S) = counted[Len(s)]
  BY DEF Only, Steps
<1> QED
  BY <1>1, <1>2

\* Two such functions agree as far as the sequences do.
LEMMA StepsAgree ==
    ASSUME NEW s, NEW t, NEW S, NEW n \in Nat, NEW m \in Nat, n <= m,
           NEW f, NEW g, Steps(s, S, n, f), Steps(t, S, m, g),
           \A k \in 1 .. n : s[k] = t[k]
    PROVE  \A k \in 0 .. n : f[k] = g[k]
<1> DEFINE N == {k \in Nat : k <= n => f[k] = g[k]}
<1>1. ASSUME NEW k \in 0 .. n
      PROVE  f[k] = IF k = 0 THEN <<>>
                    ELSE IF s[k] \in S THEN Append(f[k - 1], s[k]) ELSE f[k - 1]
  <2>1. f = [j \in 0 .. n |-> IF j = 0 THEN <<>>
                    ELSE IF s[j] \in S THEN Append(f[j - 1], s[j]) ELSE f[j - 1]]
    BY DEF Steps
  <2> QED
    BY <2>1
<1>2. ASSUME NEW k \in 0 .. m
      PROVE  g[k] = IF k = 0 THEN <<>>
                    ELSE IF t[k] \in S THEN Append(g[k - 1], t[k]) ELSE g[k - 1]
  <2>1. g = [j \in 0 .. m |-> IF j = 0 THEN <<>>
                    ELSE IF t[j] \in S THEN Append(g[j - 1], t[j]) ELSE g[j - 1]]
    BY DEF Steps
  <2> QED
    BY <2>1
<1>3. 0 \in N
  BY <1>1, <1>2
<1>4. ASSUME NEW k \in Nat, k \in N PROVE k + 1 \in N
  <2> SUFFICES ASSUME k + 1 <= n PROVE f[k + 1] = g[k + 1]
    OBVIOUS
  <2>1. k + 1 \in 0 .. n /\ k + 1 \in 0 .. m /\ k + 1 \in 1 .. n /\ k + 1 # 0 /\ (k + 1) - 1 = k
    OBVIOUS
  <2>2. f[k] = g[k] /\ s[k + 1] = t[k + 1]
    BY <1>4, <2>1
  <2>3. f[k + 1] = IF s[k + 1] \in S THEN Append(f[k], s[k + 1]) ELSE f[k]
    BY <1>1, <2>1
  <2>4. g[k + 1] = IF t[k + 1] \in S THEN Append(g[k], t[k + 1]) ELSE g[k]
    BY <1>2, <2>1
  <2> QED
    BY <2>2, <2>3, <2>4
<1> HIDE DEF N
<1>5. Nat \subseteq N
  BY <1>3, <1>4, CountingUp, Zenon
<1> QED
  BY <1>5 DEF N

\* The two equations of Only.
LEMMA OnlyEmpty == ASSUME NEW S PROVE Only(<<>>, S) = <<>>
<1>1. Len(<<>>) = 0
  OBVIOUS
<1>2. PICK f : Steps(<<>>, S, 0, f) /\ Only(<<>>, S) = f[0]
  BY <1>1, OnlyIs
<1>3. f[0] = <<>>
  BY <1>2 DEF Steps
<1> QED
  BY <1>2, <1>3

\* One more item at the end of an array is filtered by itself.
LEMMA OnlyAppend ==
    ASSUME NEW A, NEW s \in Seq(A), NEW a \in A, NEW S
    PROVE  Only(Append(s, a), S) = IF a \in S THEN Append(Only(s, S), a) ELSE Only(s, S)
<1> DEFINE t == Append(s, a)
           n == Len(s)
<1>1. /\ n \in Nat /\ Len(t) = n + 1 /\ t[n + 1] = a
      /\ \A k \in 1 .. n : s[k] = t[k]
  BY AppendProperties, LenProperties
<1> HIDE DEF t, n
<1>2. n \in Nat /\ n + 1 \in Nat /\ n <= n + 1 /\ n \in 0 .. n
  BY <1>1
<1>3. PICK f : Steps(s, S, n, f) /\ Only(s, S) = f[n]
  BY <1>2, OnlyIs DEF n
<1>4. PICK g : Steps(t, S, n + 1, g) /\ Only(t, S) = g[n + 1]
  BY <1>1, <1>2, OnlyIs
<1>5. g[n] = f[n]
  <2> DEFINE m == n + 1
  <2>0. m \in Nat /\ n <= m /\ Steps(t, S, m, g)
    BY <1>2, <1>4
  <2> HIDE DEF m
  <2>1. \A k \in 0 .. n : f[k] = g[k]
    BY <2>0, <1>1, <1>2, <1>3, StepsAgree, SMT
  <2> QED
    BY <2>1, <1>2
<1>6. g[n + 1] = IF t[n + 1] \in S THEN Append(g[n], t[n + 1]) ELSE g[n]
  <2>1. g = [k \in 0 .. n + 1 |-> IF k = 0 THEN <<>>
                  ELSE IF t[k] \in S THEN Append(g[k - 1], t[k]) ELSE g[k - 1]]
    BY <1>4 DEF Steps
  <2>2. n + 1 \in 0 .. n + 1 /\ n + 1 # 0 /\ (n + 1) - 1 = n
    BY <1>2
  <2>3. g[n + 1] = IF n + 1 = 0 THEN <<>>
                  ELSE IF t[n + 1] \in S THEN Append(g[(n + 1) - 1], t[n + 1])
                       ELSE g[(n + 1) - 1]
    BY <2>1, <2>2
  <2> QED
    BY <2>2, <2>3
<1>7. Only(t, S) = IF a \in S THEN Append(Only(s, S), a) ELSE Only(s, S)
  BY <1>1, <1>3, <1>4, <1>5, <1>6
<1> QED
  BY <1>7 DEF t

-----------------------------------------------------------------------------
\* The items of an array with one more at its end.
LEMMA ToSetAppend ==
    ASSUME NEW A, NEW s \in Seq(A), NEW a \in A
    PROVE  ToSet(Append(s, a)) = ToSet(s) \cup {a}
<1>1. /\ Len(s) \in Nat /\ Len(Append(s, a)) = Len(s) + 1
      /\ \A k \in 1 .. Len(s) : Append(s, a)[k] = s[k]
      /\ Append(s, a)[Len(s) + 1] = a /\ Append(s, a) \in Seq(A)
  BY AppendProperties, LenProperties
<1>2. DOMAIN s = 1 .. Len(s) /\ DOMAIN Append(s, a) = 1 .. Len(s) + 1
  BY <1>1, LenProperties
<1>3. 1 .. Len(s) + 1 = 1 .. Len(s) \cup {Len(s) + 1}
  BY <1>1
<1> QED
  BY <1>1, <1>2, <1>3 DEF ToSet

\* The empty array has no items.
LEMMA ToSetEmpty == ToSet(<<>>) = {}
BY DEF ToSet

\* The items of an array of As are As.
LEMMA ToSetType ==
    ASSUME NEW A, NEW s \in Seq(A)
    PROVE  ToSet(s) \subseteq A
BY ElementOfSeq, LenProperties DEF ToSet

\* What is kept: items of the sequence, of the set.
LEMMA OnlyType ==
    ASSUME NEW A, NEW s \in Seq(A), NEW S
    PROVE  Only(s, S) \in Seq(A \cap S) /\ ToSet(Only(s, S)) = ToSet(s) \cap S
<1> DEFINE T == {r \in Seq(A) : Only(r, S) \in Seq(A \cap S)
                                /\ ToSet(Only(r, S)) = ToSet(r) \cap S}
<1>1. <<>> \in T
  <2>1. <<>> \in Seq(A) /\ <<>> \in Seq(A \cap S)
    BY EmptySeq
  <2> QED
    BY <2>1, OnlyEmpty, ToSetEmpty
<1>2. ASSUME NEW r \in Seq(A), NEW a \in A, r \in T PROVE Append(r, a) \in T
  <2>1. Append(r, a) \in Seq(A)
    BY AppendProperties
  <2>2. ToSet(Append(r, a)) = ToSet(r) \cup {a}
    BY ToSetAppend
  <2>3. CASE a \in S
    <3>1. Only(Append(r, a), S) = Append(Only(r, S), a)
      BY <2>3, OnlyAppend
    <3>2. Only(r, S) \in Seq(A \cap S) /\ a \in A \cap S
      BY <1>2, <2>3
    <3>3. ToSet(Append(Only(r, S), a)) = ToSet(Only(r, S)) \cup {a}
      BY <3>2, ToSetAppend
    <3>4. Append(Only(r, S), a) \in Seq(A \cap S)
      BY <3>2, AppendProperties
    <3>5. ToSet(Only(Append(r, a), S)) = ToSet(Append(r, a)) \cap S
      BY <3>1, <3>3, <2>2, <2>3, <1>2
    <3> QED
      BY <2>1, <3>1, <3>4, <3>5
  <2>4. CASE a \notin S
    BY <2>1, <2>2, <2>4, <1>2, OnlyAppend
  <2> QED
    BY <2>3, <2>4
<1> HIDE DEF T
<1>3. Seq(A) \subseteq T
  BY <1>1, <1>2, BuiltUp, Zenon
<1> QED
  BY <1>3 DEF T

\* Sets that agree on the items keep the same.
LEMMA OnlySame ==
    ASSUME NEW A, NEW s \in Seq(A), NEW S, NEW U, ToSet(s) \cap S = ToSet(s) \cap U
    PROVE  Only(s, S) = Only(s, U)
<1> DEFINE T == {r \in Seq(A) : ToSet(r) \cap S = ToSet(r) \cap U => Only(r, S) = Only(r, U)}
<1>1. <<>> \in T
  BY EmptySeq, OnlyEmpty
<1>2. ASSUME NEW r \in Seq(A), NEW a \in A, r \in T PROVE Append(r, a) \in T
  <2>1. Append(r, a) \in Seq(A)
    BY AppendProperties
  <2>2. ToSet(Append(r, a)) = ToSet(r) \cup {a}
    BY ToSetAppend
  <2>3. ASSUME ToSet(Append(r, a)) \cap S = ToSet(Append(r, a)) \cap U
        PROVE  Only(Append(r, a), S) = Only(Append(r, a), U)
    <3>1. (a \in S <=> a \in U) /\ ToSet(r) \cap S = ToSet(r) \cap U
      BY <2>2, <2>3
    <3>2. Only(r, S) = Only(r, U)
      BY <3>1, <1>2
    <3>3. /\ Only(Append(r, a), S) = IF a \in S THEN Append(Only(r, S), a) ELSE Only(r, S)
          /\ Only(Append(r, a), U) = IF a \in U THEN Append(Only(r, U), a) ELSE Only(r, U)
      BY OnlyAppend, Zenon
    <3> QED
      BY <3>1, <3>2, <3>3
  <2> QED
    BY <2>1, <2>3
<1> HIDE DEF T
<1>3. Seq(A) \subseteq T
  BY <1>1, <1>2, BuiltUp, Zenon
<1> QED
  BY <1>3 DEF T

\* A set that has all the items keeps all.
LEMMA OnlyAll ==
    ASSUME NEW A, NEW s \in Seq(A), NEW S, ToSet(s) \subseteq S
    PROVE  Only(s, S) = s
<1> DEFINE T == {r \in Seq(A) : ToSet(r) \subseteq S => Only(r, S) = r}
<1>1. <<>> \in T
  BY EmptySeq, OnlyEmpty
<1>2. ASSUME NEW r \in Seq(A), NEW a \in A, r \in T PROVE Append(r, a) \in T
  <2>1. Append(r, a) \in Seq(A)
    BY AppendProperties
  <2>2. ToSet(Append(r, a)) = ToSet(r) \cup {a}
    BY ToSetAppend
  <2> QED
    BY <1>2, <2>1, <2>2, OnlyAppend
<1> HIDE DEF T
<1>3. Seq(A) \subseteq T
  BY <1>1, <1>2, BuiltUp, Zenon
<1> QED
  BY <1>3 DEF T

\* A set that has none of them keeps none.
LEMMA OnlyNone ==
    ASSUME NEW A, NEW s \in Seq(A), NEW S, ToSet(s) \cap S = {}
    PROVE  Only(s, S) = <<>>
<1>1. Only(s, S) = Only(s, {})
  BY OnlySame
<1>2. Only(s, {}) \in Seq(A \cap {})
  BY OnlyType
<1> QED
  BY <1>1, <1>2, ElementOfSeq, EmptySeq, LenProperties

\* One filter after another.
LEMMA OnlyTwice ==
    ASSUME NEW A, NEW s \in Seq(A), NEW S, NEW U
    PROVE  Only(Only(s, S), U) = Only(s, S \cap U)
<1> DEFINE T == {r \in Seq(A) : Only(Only(r, S), U) = Only(r, S \cap U)}
<1>1. <<>> \in T
  BY EmptySeq, OnlyEmpty
<1>2. ASSUME NEW r \in Seq(A), NEW a \in A, r \in T PROVE Append(r, a) \in T
  <2>1. Append(r, a) \in Seq(A)
    BY AppendProperties
  <2>2. Only(r, S) \in Seq(A \cap S)
    BY OnlyType
  <2>3. CASE a \in S
    <3>1. Only(Append(r, a), S) = Append(Only(r, S), a)
      BY <2>3, OnlyAppend
    <3>2. a \in A \cap S
      BY <2>3
    <3>3. Only(Append(Only(r, S), a), U)
            = IF a \in U THEN Append(Only(Only(r, S), U), a) ELSE Only(Only(r, S), U)
      <4> DEFINE B == A \cap S
                 q == Only(r, S)
      <4>1. q \in Seq(B) /\ a \in B
        BY <2>2, <3>2
      <4> HIDE DEF B, q
      <4>2. Only(Append(q, a), U) = IF a \in U THEN Append(Only(q, U), a) ELSE Only(q, U)
        BY <4>1, OnlyAppend
      <4> QED
        BY <4>2 DEF q
    <3>4. Only(Append(r, a), S \cap U)
            = IF a \in S \cap U THEN Append(Only(r, S \cap U), a) ELSE Only(r, S \cap U)
      BY OnlyAppend, Zenon
    <3>5. Only(Only(Append(r, a), S), U) = Only(Append(r, a), S \cap U)
      BY <3>1, <3>3, <3>4, <2>3, <1>2
    <3> QED
      BY <2>1, <3>5
  <2>4. CASE a \notin S
    <3>1. Only(Append(r, a), S) = Only(r, S) /\ Only(Append(r, a), S \cap U) = Only(r, S \cap U)
      BY <2>4, OnlyAppend
    <3> QED
      BY <2>1, <3>1, <1>2
  <2> QED
    BY <2>3, <2>4
<1> HIDE DEF T
<1>3. Seq(A) \subseteq T
  BY <1>1, <1>2, BuiltUp, Zenon
<1> QED
  BY <1>3 DEF T

\* Two sequences, one after the other.
LEMMA OnlyConcat ==
    ASSUME NEW A, NEW s \in Seq(A), NEW t \in Seq(A), NEW S
    PROVE  Only(s \o t, S) = Only(s, S) \o Only(t, S)
<1> DEFINE T == {r \in Seq(A) : Only(s \o r, S) = Only(s, S) \o Only(r, S)}
<1>0. Only(s, S) \in Seq(A \cap S)
  BY OnlyType
<1>1. <<>> \in T
  BY <1>0, EmptySeq, OnlyEmpty, ConcatEmptySeq
<1>2. ASSUME NEW r \in Seq(A), NEW a \in A, r \in T PROVE Append(r, a) \in T
  <2>1. Append(r, a) \in Seq(A) /\ s \o r \in Seq(A)
    BY AppendProperties, ConcatProperties
  <2>2. s \o Append(r, a) = Append(s \o r, a)
    OBVIOUS
  <2>3. Only(Append(s \o r, a), S)
          = IF a \in S THEN Append(Only(s \o r, S), a) ELSE Only(s \o r, S)
    BY <2>1, OnlyAppend
  <2>4. Only(Append(r, a), S) = IF a \in S THEN Append(Only(r, S), a) ELSE Only(r, S)
    BY OnlyAppend
  <2>5. Only(r, S) \in Seq(A \cap S)
    BY OnlyType
  <2>6. a \in S => Only(s, S) \o Append(Only(r, S), a) = Append(Only(s, S) \o Only(r, S), a)
    BY <2>5, <1>0
  <2> QED
    BY <2>1, <2>2, <2>3, <2>4, <2>6, <1>2
<1> HIDE DEF T
<1>3. Seq(A) \subseteq T
  BY <1>1, <1>2, BuiltUp, Zenon
<1> QED
  BY <1>3 DEF T

\* Without takes out its item and nothing else.
LEMMA WithoutType ==
    ASSUME NEW A, NEW s \in Seq(A), NEW x
    PROVE  /\ Without(s, x) \in Seq(A)
           /\ ToSet(Without(s, x)) = ToSet(s) \ {x}
           /\ x \notin ToSet(s) => Without(s, x) = s
<1> DEFINE S == ToSet(s) \ {x}
<1>1. Only(s, S) \in Seq(A \cap S) /\ ToSet(Only(s, S)) = ToSet(s) \cap S
  BY OnlyType
<1>2. Only(s, S) \in Seq(A)
  <2>1. A \cap S \subseteq A
    OBVIOUS
  <2> HIDE DEF S
  <2> QED
    BY <1>1, <2>1, SeqMonotonic
<1>3. x \notin ToSet(s) => Only(s, S) = s
  BY OnlyAll
<1> QED
  BY <1>1, <1>2, <1>3 DEF Without

-----------------------------------------------------------------------------
(***************************************************************************)
(* ScriptRun                                                               *)
(***************************************************************************)

\* What an input of a type may hold.
Fits(type) ==
    CASE type \in {"file", "multi_file"} -> Files
      [] type = "list" -> Words \cup {NoWord}
      [] type \in {"text", "ssh_key_select"} -> Words
      [] OTHER -> {}

InputsFit(s, in) ==
    /\ DOMAIN in = Names(s)
    /\ \A n \in Names(s) : in[n] \in Seq(Fits(TypeOf(s, n)))

\* The window holds inputs of the script it is open for; the plan is shown for
\* scripts without inputs.
WindowOK ==
    /\ window = "inputs" => script \in Scripts /\ InputsFit(script, inputs)
    /\ window = "plan" => script \in Scripts /\ script.inputs = {}

\* The last call is the packing of what fits its script.
PackedOK ==
    packed.way # "none" =>
        /\ packed.for \in Scripts /\ InputsFit(packed.for, packed.entered)
        /\ packed = Pack(packed.for, packed.entered)

RunTypes ==
    /\ window \in {"none", "plan", "inputs"}
    /\ script \in Scripts \cup {NoScript} /\ calling \in BOOLEAN
    /\ \A n \in DOMAIN inputs : inputs[n] \in Seq(Items)
    /\ DOMAIN libraryTicks = DOMAIN inputs
    /\ \A n \in DOMAIN inputs : libraryTicks[n] \subseteq Refs
    /\ packed.way \in {"none", "action", "run", "run-with-files"}

RunIInv == RunTypes /\ WindowOK /\ PackedOK

\* Files and words are different things, and the empty string is neither.
LEMMA FitsFacts ==
    ASSUME NEW type
    PROVE  /\ Fits(type) \subseteq Items
           /\ type # "list" => NoWord \notin Fits(type)
           /\ type \in {"file", "multi_file"} => Fits(type) = Files
           /\ type \notin {"file", "multi_file"} => Fits(type) \cap Files = {}
           /\ Files \subseteq Items /\ NoWord \notin Files
           /\ Uploads \cap Refs = {} /\ Files = Uploads \cup Refs
<1>1. /\ Uploads \cap Refs = {} /\ Files = Uploads \cup Refs
      /\ Files \cap (Words \cup {NoWord}) = {} /\ NoWord \notin Words
  BY RunAssumption DEF Files, Refs
<1>2. Items = Files \cup Words \cup {NoWord}
  BY DEF Items
<1>3. CASE type \in {"file", "multi_file"}
  <2>1. Fits(type) = Files /\ type # "list"
    BY <1>3 DEF Fits
  <2> QED
    BY <2>1, <1>1, <1>2, <1>3
<1>4. CASE type = "list"
  <2>1. Fits(type) = Words \cup {NoWord}
    BY <1>4 DEF Fits
  <2> QED
    BY <2>1, <1>1, <1>2, <1>4
<1>5. CASE type \in {"text", "ssh_key_select"}
  <2>1. Fits(type) = Words
    BY <1>5 DEF Fits
  <2> QED
    BY <2>1, <1>1, <1>2, <1>5
<1>6. CASE type \notin {"file", "multi_file", "list", "text", "ssh_key_select"}
  <2>1. Fits(type) = {}
    BY <1>6 DEF Fits
  <2> QED
    BY <2>1, <1>1, <1>2, <1>6
<1> QED
  BY <1>3, <1>4, <1>5, <1>6

\* What is kept of a value is all of it but the empty rows.
LEMMA TrimmedIs ==
    ASSUME NEW s, NEW n, NEW v \in Seq(Fits(TypeOf(s, n)))
    PROVE  Trimmed(s, n, v) = Without(v, NoWord)
<1> DEFINE type == TypeOf(s, n)
           F == Fits(type)
<1>1. ToSet(v) \subseteq F
  BY ToSetType
<1>2. type # "list" => Without(v, NoWord) = v
  BY <1>1, FitsFacts, WithoutType
<1>3. CASE ~Many(type)
  BY <1>2, <1>3 DEF Trimmed, Many
<1>4. CASE Many(type) /\ ToSet(v) \cap Files # {}
  <2>1. type \in {"file", "multi_file"} /\ F = Files
    BY <1>1, <1>4, FitsFacts
  <2>2. Only(v, Files) = v
    BY <1>1, <2>1, OnlyAll
  <2> QED
    BY <1>2, <1>4, <2>1, <2>2 DEF Trimmed
<1>5. CASE Many(type) /\ ToSet(v) \cap Files = {}
  BY <1>5 DEF Trimmed
<1> QED
  BY <1>3, <1>4, <1>5

\* What the server makes of a value W that was sent for n.
LEMMA PackedIs ==
    ASSUME NEW s, NEW in, InputsFit(s, in), NEW n \in Names(s)
    PROVE  LET W == Without(in[n], NoWord)
               call == Pack(s, in)
           IN  \/ /\ call.way = "run-with-files"
                  /\ call.fields[n] = FormField(s, n, W) /\ call.parts[n] = FormParts(W)
               \/ /\ call.way # "run-with-files" /\ ToSet(W) \cap Uploads = {}
                  /\ call.fields[n] = AsJson(W) /\ call.parts[n] = <<>>
<1> DEFINE W == Without(in[n], NoWord)
           given == Processed(s, in)
           call == Pack(s, in)
<1>1. in[n] \in Seq(Fits(TypeOf(s, n)))
  BY DEF InputsFit
<1>2. given[n] = W /\ DOMAIN given = Names(s)
  BY <1>1, TrimmedIs DEF Processed
<1>3. CASE HasUploads(given)
  <2>1. /\ call.way = "run-with-files"
        /\ call.fields = [m \in Names(s) |-> FormField(s, m, given[m])]
        /\ call.parts = [m \in Names(s) |-> FormParts(given[m])]
    BY <1>3 DEF Pack
  <2> HIDE DEF W, given, call
  <2> QED
    BY <1>2, <2>1 DEF W, call
<1>4. CASE ~HasUploads(given)
  <2>1. /\ call.way \in {"action", "run"}
        /\ call.fields = [m \in Names(s) |-> AsJson(given[m])]
        /\ call.parts = [m \in Names(s) |-> <<>>]
    BY <1>4 DEF Pack
  <2>2. ToSet(given[n]) \cap Uploads = {}
    BY <1>2, <1>4 DEF HasUploads
  <2> HIDE DEF W, given, call
  <2> QED
    BY <1>2, <2>1, <2>2 DEF W, call
<1> QED
  BY <1>3, <1>4

\* The script gets what fits its inputs, unless the call loses it.
LEMMA PackedArrives ==
    ASSUME NEW s, NEW in, InputsFit(s, in), NEW n \in Names(s)
    PROVE  \/ LostOnTheWay(Pack(s, in), n)
           \/ Unpacked(Pack(s, in), n) = Without(in[n], NoWord)
<1> DEFINE v == in[n]
           W == Without(v, NoWord)
           call == Pack(s, in)
           type == TypeOf(s, n)
<1>1. v \in Seq(Fits(type)) /\ ToSet(v) \subseteq Fits(type)
  BY ToSetType DEF InputsFit
<1>2. /\ W \in Seq(Fits(type)) /\ ToSet(W) = ToSet(v) \ {NoWord}
      /\ NoWord \notin ToSet(v) => W = v
  BY <1>1, WithoutType
<1>3. call.for = s /\ call.entered = in
  BY DEF Pack
<1>4. ToSet(W) \subseteq Items \ {NoWord}
  BY <1>1, <1>2, FitsFacts
<1>5. ToSet(W) \cap Uploads = {} => AsJson(W) = W
  <2>1. ToSet(W) \cap Uploads = {} => ToSet(W) \subseteq Items \ Uploads
    BY <1>4
  <2> QED
    BY <1>2, <2>1, OnlyAll DEF AsJson
<1>6. ToSet(W) \cap Uploads = {} => FormParts(W) = <<>>
  BY <1>2, OnlyNone DEF FormParts
<1>7. ToSet(W) \subseteq Refs => Only(W, Refs) = W
  BY <1>2, OnlyAll
\* A field that holds all of the value, without parts beside it, arrives.
<1>8. ASSUME call.parts[n] = <<>>, call.fields[n] = W, ToSet(W) \cap Uploads = {}
      PROVE  Unpacked(call, n) = W
  <2>1. ToSet(W) \cap Refs # {} => ToSet(W) \subseteq Refs
    BY <1>1, <1>2, <1>8, FitsFacts
  <2> QED
    BY <1>7, <1>8, <2>1 DEF Unpacked
<1> HIDE DEF call, W, type
<1>9. CASE call.way # "run-with-files"
  <2>1. /\ ToSet(W) \cap Uploads = {}
        /\ call.fields[n] = AsJson(W) /\ call.parts[n] = <<>>
    BY <1>9, PackedIs DEF call, W
  <2> QED
    BY <2>1, <1>5, <1>8 DEF call, W
<1>10. CASE call.way = "run-with-files"
  <2>1. call.fields[n] = FormField(s, n, W) /\ call.parts[n] = FormParts(W)
    BY <1>10, PackedIs DEF call, W
  <2>2. CASE type \in {"list", "ssh_key_select"}
    BY <2>2, <1>3, <1>10 DEF LostOnTheWay, call, type
  <2>3. CASE type \notin {"file", "multi_file", "list", "ssh_key_select"}
    <3>1. ToSet(W) \cap Uploads = {}
      BY <1>1, <1>2, <2>3, FitsFacts
    <3>2. FormField(s, n, W) = AsJson(W)
      BY <2>3 DEF FormField, Many, type
    <3> QED
      BY <2>1, <3>1, <3>2, <1>5, <1>6, <1>8 DEF call, W
  <2>4. CASE type \in {"file", "multi_file"}
    <3>1. W = v /\ ToSet(v) \subseteq Uploads \cup Refs
      BY <1>1, <1>2, <2>4, FitsFacts
    <3>2. CASE ToSet(v) \cap Uploads # {} /\ ToSet(v) \cap Refs # {}
      BY <3>2, <1>3, <1>10 DEF LostOnTheWay, call
    <3>3. CASE ToSet(v) \cap Uploads = {}
      <4>1. ToSet(W) \subseteq Refs /\ ToSet(W) \cap Uploads = {}
        BY <3>1, <3>3
      <4>2. FormField(s, n, W) = W
        BY <4>1, <1>5, <1>7 DEF FormField
      <4> QED
        BY <2>1, <4>1, <4>2, <1>6, <1>8 DEF call, W
    <3>4. CASE ToSet(v) \cap Refs = {}
      <4>1. ToSet(W) \subseteq Uploads
        BY <3>1, <3>4
      <4>2. FormParts(W) = W
        BY <4>1, <1>2, OnlyAll DEF FormParts
      <4>3. CASE W # <<>>
        BY <4>2, <4>3, <2>1 DEF Unpacked, call, W
      <4>4. CASE W = <<>>
        <5>1. FormField(s, n, W) = <<>>
          BY <4>4, OnlyEmpty DEF FormField, AsJson
        <5> QED
          BY <5>1, <4>2, <4>4, <2>1, ToSetEmpty, <1>8 DEF call, W
      <4> QED
        BY <4>3, <4>4
    <3> QED
      BY <3>2, <3>3, <3>4
  <2> QED
    BY <2>2, <2>3, <2>4
<1> QED
  BY <1>9, <1>10

-----------------------------------------------------------------------------
\* A script that is started has a call that is its packing.
LEMMA StartStep ==
    ASSUME NEW s \in Scripts, NEW in, InputsFit(s, in), Start(s, in)
    PROVE  /\ PackedOK' /\ calling' \in BOOLEAN
           /\ packed'.way \in {"none", "action", "run", "run-with-files"}
<1>1. packed' = Pack(s, in) /\ calling' = TRUE
  BY DEF Start
<1>2. /\ Pack(s, in).for = s /\ Pack(s, in).entered = in
      /\ Pack(s, in).way \in {"action", "run", "run-with-files"}
  BY DEF Pack
<1>3. InputsFit(packed'.for, packed'.entered) /\ packed' = Pack(packed'.for, packed'.entered)
  BY <1>1, <1>2
<1> QED
  BY <1>1, <1>2, <1>3 DEF PackedOK

\* A script without inputs has nothing to fit.
LEMMA NoInputsFit ==
    ASSUME NEW s, s.inputs = {}
    PROVE  InputsFit(s, <<>>)
BY DEF InputsFit, Names

\* A value put in its place.
LEMMA PutStep ==
    ASSUME RunIInv, window = "inputs", NEW n \in DOMAIN inputs,
           NEW v \in Seq(Fits(TypeOf(script, n))), Put(n, v)
    PROVE  RunIInv'
<1>1. script \in Scripts /\ InputsFit(script, inputs) /\ n \in Names(script)
  BY DEF RunIInv, WindowOK, InputsFit
<1>2. v \in Seq(Items)
  <2>1. Fits(TypeOf(script, n)) \subseteq Items
    BY FitsFacts
  <2> QED
    BY <2>1, SeqMonotonic
<1>3. /\ inputs' = [inputs EXCEPT ![n] = v]
      /\ UNCHANGED <<window, script, libraryTicks, calling, packed>>
  BY DEF Put
<1>4. /\ DOMAIN inputs' = DOMAIN inputs /\ inputs'[n] = v
      /\ \A m \in DOMAIN inputs : m # n => inputs'[m] = inputs[m]
  BY <1>3
<1>5. InputsFit(script, inputs')
  BY <1>1, <1>4 DEF InputsFit
<1>6. WindowOK'
  BY <1>1, <1>3, <1>5 DEF WindowOK
<1>7. RunTypes'
  BY <1>2, <1>3, <1>4 DEF RunIInv, RunTypes
<1>8. PackedOK'
  BY <1>3 DEF RunIInv, PackedOK
<1> QED
  BY <1>6, <1>7, <1>8 DEF RunIInv

\* The actions that open, shut and send.
LEMMA TriggerStep ==
    ASSUME RunIInv, NEW s \in Scripts, Trigger(s)
    PROVE  RunIInv'
<1>1. CASE s.inputs # {}
  <2>1. /\ window' = "inputs" /\ script' = s /\ inputs' = DefaultOf(s)
        /\ libraryTicks' = [n \in Names(s) |-> {}]
        /\ packed' = NoCall /\ UNCHANGED calling
    BY <1>1 DEF Trigger
  <2>2. InputsFit(s, DefaultOf(s))
    <3>1. ASSUME NEW n \in Names(s) PROVE DefaultOf(s)[n] \in Seq(Fits(TypeOf(s, n)))
      <4>1. CASE TypeOf(s, n) = "list"
        <5>1. DefaultOf(s)[n] = <<NoWord>> /\ NoWord \in Fits(TypeOf(s, n))
          BY <4>1 DEF DefaultOf, Fits
        <5> QED
          BY <5>1
      <4>2. CASE TypeOf(s, n) # "list"
        BY <4>2, EmptySeq DEF DefaultOf
      <4> QED
        BY <4>1, <4>2
    <3> QED
      BY <3>1 DEF InputsFit, DefaultOf
  <2>3. \A n \in DOMAIN inputs' : inputs'[n] \in Seq(Items)
    <3>1. \A n \in Names(s) : Fits(TypeOf(s, n)) \subseteq Items
      BY FitsFacts
    <3>2. ASSUME NEW n \in Names(s) PROVE inputs'[n] \in Seq(Items)
      BY <2>1, <2>2, <3>1, SeqMonotonic DEF InputsFit
    <3> QED
      BY <3>2, <2>1, <2>2 DEF InputsFit
  <2>4. RunTypes'
    <3>1. DOMAIN libraryTicks' = DOMAIN inputs' /\ \A n \in DOMAIN inputs' : libraryTicks'[n] \subseteq Refs
      BY <2>1 DEF DefaultOf
    <3> QED
      BY <2>1, <2>3, <3>1 DEF RunIInv, RunTypes, NoCall
  <2>5. WindowOK'
    BY <2>1, <2>2 DEF WindowOK
  <2>6. PackedOK'
    BY <2>1 DEF PackedOK, NoCall
  <2> QED
    BY <2>4, <2>5, <2>6 DEF RunIInv
<1>2. CASE s.inputs = {} /\ s.script = "deploy" /\ s.service \in WithObject
  <2>1. /\ window' = "plan" /\ script' = s /\ packed' = NoCall
        /\ UNCHANGED <<inputs, libraryTicks, calling>>
    BY <1>2 DEF Trigger
  <2> QED
    BY <2>1, <1>2 DEF RunIInv, RunTypes, WindowOK, PackedOK, NoCall
<1>3. CASE s.inputs = {} /\ ~(s.script = "deploy" /\ s.service \in WithObject)
  <2>1. Start(s, <<>>) /\ UNCHANGED <<window, script, inputs, libraryTicks>>
    BY <1>3 DEF Trigger
  <2>2. InputsFit(s, <<>>)
    BY <1>3, NoInputsFit
  <2>3. PackedOK' /\ calling' \in BOOLEAN /\ packed'.way \in {"none", "action", "run", "run-with-files"}
    BY <2>1, <2>2, StartStep
  <2> QED
    BY <2>1, <2>3 DEF RunIInv, RunTypes, WindowOK
<1> QED
  BY <1>1, <1>2, <1>3

\* A confirmed deployment and sent inputs carry what the window holds.
LEMMA ConfirmStep ==
    ASSUME RunIInv, ConfirmDeploy \/ SubmitScriptInputs
    PROVE  RunIInv'
<1>1. CASE ConfirmDeploy
  <2>1. /\ Start(script, <<>>) /\ window' = "none" /\ UNCHANGED <<script, inputs, libraryTicks>>
        /\ script \in Scripts /\ InputsFit(script, <<>>)
    BY <1>1, NoInputsFit DEF ConfirmDeploy, RunIInv, WindowOK
  <2>2. PackedOK' /\ calling' \in BOOLEAN /\ packed'.way \in {"none", "action", "run", "run-with-files"}
    BY <2>1, StartStep
  <2> QED
    BY <2>1, <2>2 DEF RunIInv, RunTypes, WindowOK
<1>2. CASE SubmitScriptInputs
  <2>1. /\ Start(script, inputs) /\ window' = "none" /\ UNCHANGED <<script, inputs, libraryTicks>>
        /\ script \in Scripts /\ InputsFit(script, inputs)
    BY <1>2 DEF SubmitScriptInputs, RunIInv, WindowOK
  <2>2. PackedOK' /\ calling' \in BOOLEAN /\ packed'.way \in {"none", "action", "run", "run-with-files"}
    BY <2>1, StartStep
  <2> QED
    BY <2>1, <2>2 DEF RunIInv, RunTypes, WindowOK
<1> QED
  BY <1>1, <1>2

\* Closing windows and the end of a call leave the inputs alone.
LEMMA RunQuietStep ==
    ASSUME RunIInv, DismissModals \/ CallEnds \/ UNCHANGED runVars
    PROVE  RunIInv'
<1>1. /\ window' \in {window, "none"} /\ calling' \in BOOLEAN
      /\ UNCHANGED <<script, inputs, libraryTicks, packed>>
  BY DEF RunIInv, RunTypes, DismissModals, CallEnds, runVars
<1>2. RunTypes'
  BY <1>1 DEF RunIInv, RunTypes
<1>3. WindowOK'
  BY <1>1 DEF RunIInv, WindowOK
<1>4. PackedOK'
  BY <1>1 DEF RunIInv, PackedOK
<1> QED
  BY <1>2, <1>3, <1>4 DEF RunIInv

\* The fields: what is put in fits the type of the input.
LEMMA FileStep ==
    ASSUME RunIInv, NEW n \in DOMAIN inputs,
           \/ ChooseFile(n)
           \/ \E f \in Uploads : AddFile(n, f)
           \/ \E k \in DOMAIN inputs[n] : RemoveFile(n, k)
    PROVE  RunIInv'
<1> DEFINE F == Fits(TypeOf(script, n))
<1>0. /\ window = "inputs" /\ TypeOf(script, n) \in {"file", "multi_file"}
  BY DEF ChooseFile, AddFile, RemoveFile, Edits
<1>1. inputs[n] \in Seq(F) /\ F = Uploads \cup Refs
  BY <1>0, FitsFacts DEF RunIInv, WindowOK, InputsFit
<1> SUFFICES \E v \in Seq(F) : Put(n, v)
  BY <1>0, PutStep
<1>2. CASE ChooseFile(n)
  <2>1. CASE inputs[n] = <<>>
    <3>1. PICK f \in Uploads \cup Refs : Put(n, <<f>>)
      BY <1>2, <2>1 DEF ChooseFile
    <3>2. <<f>> \in Seq(F)
      BY <1>1
    <3> QED
      BY <3>1, <3>2
  <2>2. CASE inputs[n] # <<>>
    BY <1>2, <2>2, EmptySeq DEF ChooseFile
  <2> QED
    BY <2>1, <2>2
<1>3. ASSUME NEW f \in Uploads, AddFile(n, f) PROVE \E v \in Seq(F) : Put(n, v)
  <2>1. Append(inputs[n], f) \in Seq(F)
    BY <1>1, AppendProperties
  <2> QED
    BY <1>3, <2>1 DEF AddFile
<1>4. ASSUME NEW k \in DOMAIN inputs[n], RemoveFile(n, k) PROVE \E v \in Seq(F) : Put(n, v)
  <2>1. RemoveAt(inputs[n], k) \in Seq(F)
    <3> HIDE DEF F
    <3> QED
      BY <1>1, LenProperties DEF RemoveAt
  <2> QED
    BY <1>4, <2>1 DEF RemoveFile
<1> QED
  BY <1>2, <1>3, <1>4

\* Edits of rows, keys and texts keep an input of the kind its type asks for.
LEMMA WordStep ==
    ASSUME RunIInv, NEW n \in DOMAIN inputs,
           \/ AddRow(n)
           \/ \E k \in DOMAIN inputs[n] : RemoveRow(n, k)
           \/ \E k \in DOMAIN inputs[n], w \in Words \cup {NoWord} : EditRow(n, k, w)
           \/ \E w \in Words : TickKey(n, w) \/ TypeText(n, w)
    PROVE  RunIInv'
<1> DEFINE F == Fits(TypeOf(script, n))
<1>0. window = "inputs" /\ TypeOf(script, n) \in {"list", "ssh_key_select", "text"}
  BY DEF AddRow, RemoveRow, EditRow, TickKey, TypeText, Edits
<1>1. inputs[n] \in Seq(F) /\ Words \subseteq F
  BY <1>0 DEF RunIInv, WindowOK, InputsFit, Fits
<1>2. TypeOf(script, n) = "list" => NoWord \in F
  BY DEF Fits
<1> SUFFICES \E v \in Seq(F) : Put(n, v)
  BY <1>0, PutStep
<1> HIDE DEF F
<1>3. CASE AddRow(n)
  <2>1. Append(inputs[n], NoWord) \in Seq(F)
    BY <1>1, <1>2, <1>3, AppendProperties DEF AddRow, Edits
  <2> QED
    BY <1>3, <2>1 DEF AddRow
<1>4. ASSUME NEW k \in DOMAIN inputs[n], RemoveRow(n, k) PROVE \E v \in Seq(F) : Put(n, v)
  <2>1. RemoveAt(inputs[n], k) \in Seq(F)
    BY <1>1, LenProperties DEF RemoveAt
  <2> QED
    BY <1>4, <2>1 DEF RemoveRow
<1>5. ASSUME NEW k \in DOMAIN inputs[n], NEW w \in Words \cup {NoWord}, EditRow(n, k, w)
      PROVE  \E v \in Seq(F) : Put(n, v)
  <2>1. w \in F /\ k \in 1 .. Len(inputs[n])
    BY <1>1, <1>2, <1>5, LenProperties DEF EditRow, Edits
  <2>2. [inputs[n] EXCEPT ![k] = w] \in Seq(F)
    BY <1>1, <2>1, ExceptSeq
  <2> QED
    BY <1>5, <2>2 DEF EditRow
<1>6. ASSUME NEW w \in Words, TickKey(n, w) PROVE \E v \in Seq(F) : Put(n, v)
  <2>1. Append(inputs[n], w) \in Seq(F) /\ Without(inputs[n], w) \in Seq(F)
    BY <1>1, AppendProperties, WithoutType
  <2> QED
    BY <1>6, <2>1 DEF TickKey
<1>7. ASSUME NEW w \in Words, TypeText(n, w) PROVE \E v \in Seq(F) : Put(n, v)
  <2>1. <<w>> \in Seq(F)
    BY <1>1
  <2> QED
    BY <1>7, <2>1 DEF TypeText
<1> QED
  BY <1>3, <1>4, <1>5, <1>6, <1>7

\* So do the ticks of the library and what is added from them.
LEMMA LibraryStep ==
    ASSUME RunIInv, NEW n \in DOMAIN inputs,
           AddTickedFiles(n) \/ \E f \in Refs : TickLibraryFile(n, f)
    PROVE  RunIInv'
<1> DEFINE F == Fits(TypeOf(script, n))
<1>0. window = "inputs" /\ TypeOf(script, n) = "multi_file"
  BY DEF AddTickedFiles, TickLibraryFile, Edits
<1>1. /\ script \in Scripts /\ InputsFit(script, inputs) /\ n \in Names(script)
      /\ inputs[n] \in Seq(F) /\ F = Uploads \cup Refs /\ F \subseteq Items
  BY <1>0, FitsFacts DEF RunIInv, WindowOK, InputsFit
<1> DEFINE ticks == libraryTicks[n]
           new == Only(Library, ticks \ ToSet(inputs[n]))
           more == IF new = <<>> THEN inputs[n] ELSE Append(inputs[n], Last(new))
<1>2. more \in Seq(F)
  <2>1. CASE new # <<>>
    <3>1. Library \in Seq(Refs)
      BY RunAssumption DEF Refs
    <3>2. new \in Seq(Refs \cap (ticks \ ToSet(inputs[n])))
      BY <3>1, OnlyType
    <3>3. Len(new) \in 1 .. Len(new)
      BY <2>1, <3>2, EmptySeq, LenProperties
    <3>4. Last(new) \in F
      BY <1>1, <3>2, <3>3, ElementOfSeq DEF Last
    <3> HIDE DEF new, F
    <3> QED
      BY <1>1, <2>1, <3>4, AppendProperties
  <2>2. CASE new = <<>>
    BY <1>1, <2>2
  <2> QED
    BY <2>1, <2>2
<1>3. CASE AddTickedFiles(n)
  <2>1. /\ inputs' = [inputs EXCEPT ![n] = more]
        /\ libraryTicks' = [libraryTicks EXCEPT ![n] = {}]
        /\ UNCHANGED <<window, script, calling, packed>>
    BY <1>3 DEF AddTickedFiles
  <2> HIDE DEF more, F
  <2>2. /\ DOMAIN inputs' = DOMAIN inputs /\ inputs'[n] = more
        /\ \A m \in DOMAIN inputs : m # n => inputs'[m] = inputs[m]
    BY <2>1
  <2>3. more \in Seq(Items)
    BY <1>1, <1>2, SeqMonotonic
  <2>4. InputsFit(script, inputs')
    BY <1>1, <1>2, <2>2 DEF InputsFit, F
  <2>5. WindowOK'
    BY <1>1, <1>0, <2>1, <2>4 DEF WindowOK
  <2>6. RunTypes'
    BY <2>1, <2>2, <2>3 DEF RunIInv, RunTypes
  <2>7. PackedOK'
    BY <2>1 DEF RunIInv, PackedOK
  <2> QED
    BY <2>5, <2>6, <2>7 DEF RunIInv
<1>4. ASSUME NEW f \in Refs, TickLibraryFile(n, f) PROVE RunIInv'
  <2>1. /\ libraryTicks' = [libraryTicks EXCEPT ![n] = SymDiff(@, {f})]
        /\ UNCHANGED <<window, script, inputs, calling, packed>>
    BY <1>4 DEF TickLibraryFile
  <2>2. RunTypes'
    BY <2>1 DEF RunIInv, RunTypes, SymDiff
  <2>3. WindowOK' /\ PackedOK'
    BY <2>1 DEF RunIInv, WindowOK, PackedOK
  <2> QED
    BY <2>2, <2>3 DEF RunIInv
<1> QED
  BY <1>3, <1>4

\* RunIInv holds in every state of every behaviour.
THEOREM RunInvariance == RunSpec => []RunIInv
<1>1. RunInit => RunIInv
  <2> SUFFICES ASSUME RunInit PROVE RunIInv
    OBVIOUS
  <2>1. DOMAIN inputs = {} /\ DOMAIN libraryTicks = {}
    BY DEF RunInit
  <2> QED
    BY <2>1 DEF RunInit, RunIInv, RunTypes, WindowOK, PackedOK, NoCall
<1>2. RunIInv /\ [RunNext]_runVars => RunIInv'
  <2> SUFFICES ASSUME RunIInv, [RunNext]_runVars PROVE RunIInv'
    OBVIOUS
  <2>1. CASE \E s \in Scripts : Trigger(s)
    BY <2>1, TriggerStep
  <2>2. CASE ConfirmDeploy \/ SubmitScriptInputs
    BY <2>2, ConfirmStep
  <2>3. CASE DismissModals \/ CallEnds \/ UNCHANGED runVars
    BY <2>3, RunQuietStep
  <2>4. ASSUME NEW n \in DOMAIN inputs,
               \/ ChooseFile(n)
               \/ \E f \in Uploads : AddFile(n, f)
               \/ \E k \in DOMAIN inputs[n] : RemoveFile(n, k)
        PROVE  RunIInv'
    BY <2>4, FileStep
  <2>5. ASSUME NEW n \in DOMAIN inputs,
               \/ AddRow(n)
               \/ \E k \in DOMAIN inputs[n] : RemoveRow(n, k)
               \/ \E k \in DOMAIN inputs[n], w \in Words \cup {NoWord} : EditRow(n, k, w)
               \/ \E w \in Words : TickKey(n, w) \/ TypeText(n, w)
        PROVE  RunIInv'
    BY <2>5, WordStep
  <2>6. ASSUME NEW n \in DOMAIN inputs,
               AddTickedFiles(n) \/ \E f \in Refs : TickLibraryFile(n, f)
        PROVE  RunIInv'
    BY <2>6, LibraryStep
  <2> QED
    BY <2>1, <2>2, <2>3, <2>4, <2>5, <2>6 DEF RunNext
<1> QED
  BY <1>1, <1>2, PTL DEF RunSpec

\* Whatever is entered in whatever order, for scripts with any inputs, the call
\* that is made carries to the script what the user entered, but for the two
\* losses of LostOnTheWay: useServiceAction.ts packs what service_routes.py and
\* actions.py unpack.
THEOREM InputsReachTheScript == RunSpec => []InputsArrive
<1>1. RunIInv => InputsArrive
  <2> SUFFICES ASSUME RunIInv, packed.way # "none", NEW n \in DOMAIN packed.entered
               PROVE  \/ LostOnTheWay(packed, n)
                      \/ Unpacked(packed, n) = Without(packed.entered[n], NoWord)
    BY DEF InputsArrive
  <2>1. /\ InputsFit(packed.for, packed.entered) /\ n \in Names(packed.for)
        /\ packed = Pack(packed.for, packed.entered)
    BY DEF RunIInv, PackedOK, InputsFit
  <2> QED
    BY <2>1, PackedArrives
<1> QED
  BY <1>1, RunInvariance, PTL

-----------------------------------------------------------------------------
(***************************************************************************)
(* Sequences without repetitions, and items that are moved.                *)
(***************************************************************************)

\* The items of two arrays joined are those of both.
LEMMA ToSetConcat ==
    ASSUME NEW A, NEW s \in Seq(A), NEW t \in Seq(A)
    PROVE  ToSet(s \o t) = ToSet(s) \cup ToSet(t)
<1> DEFINE n == Len(s)
           m == Len(t)
<1>1. /\ n \in Nat /\ m \in Nat
      /\ DOMAIN s = 1 .. n /\ DOMAIN t = 1 .. m /\ DOMAIN (s \o t) = 1 .. n + m
      /\ \A i \in 1 .. n + m : (s \o t)[i] = IF i <= n THEN s[i] ELSE t[i - n]
  <2>1. n \in Nat /\ m \in Nat /\ DOMAIN s = 1 .. n /\ DOMAIN t = 1 .. m
    BY LenProperties
  <2>2. s \o t \in Seq(A) /\ Len(s \o t) = n + m
        /\ \A i \in 1 .. n + m : (s \o t)[i] = IF i <= n THEN s[i] ELSE t[i - n]
    BY ConcatProperties
  <2>3. DOMAIN (s \o t) = 1 .. n + m
    BY <2>2, LenProperties
  <2> QED
    BY <2>1, <2>2, <2>3
<1> HIDE DEF n, m
<1>2. ASSUME NEW x \in ToSet(s \o t) PROVE x \in ToSet(s) \cup ToSet(t)
  <2>1. PICK i \in 1 .. n + m : x = (s \o t)[i]
    BY <1>1 DEF ToSet
  <2>2. CASE i <= n
    BY <1>1, <2>1, <2>2 DEF ToSet
  <2>3. CASE n < i
    <3>1. i - n \in 1 .. m /\ x = t[i - n]
      BY <1>1, <2>1, <2>3
    <3> QED
      BY <3>1, <1>1 DEF ToSet
  <2> QED
    BY <1>1, <2>1, <2>2, <2>3
<1>3. ASSUME NEW x \in ToSet(s) PROVE x \in ToSet(s \o t)
  <2>1. PICK i \in 1 .. n : x = s[i]
    BY <1>1 DEF ToSet
  <2>2. i \in 1 .. n + m /\ (s \o t)[i] = x
    BY <1>1, <2>1
  <2> QED
    BY <1>1, <2>2 DEF ToSet
<1>4. ASSUME NEW x \in ToSet(t) PROVE x \in ToSet(s \o t)
  <2>1. PICK i \in 1 .. m : x = t[i]
    BY <1>1 DEF ToSet
  <2>2. i + n \in 1 .. n + m /\ ~ (i + n <= n) /\ (i + n) - n = i
    BY <1>1
  <2>3. (s \o t)[i + n] = x
    BY <1>1, <2>1, <2>2
  <2> QED
    BY <1>1, <2>2, <2>3 DEF ToSet
<1> QED
  BY <1>2, <1>3, <1>4

\* Two arrays joined have no item twice when neither has and they share none.
LEMMA InjectiveConcat ==
    ASSUME NEW A, NEW s \in Seq(A), NEW t \in Seq(A)
    PROVE  IsInjective(s \o t)
             <=> IsInjective(s) /\ IsInjective(t) /\ ToSet(s) \cap ToSet(t) = {}
<1> DEFINE n == Len(s)
           m == Len(t)
           c == s \o t
<1>1. /\ n \in Nat /\ m \in Nat
      /\ DOMAIN s = 1 .. n /\ DOMAIN t = 1 .. m /\ DOMAIN c = 1 .. n + m
      /\ \A i \in 1 .. n : c[i] = s[i]
      /\ \A i \in 1 .. m : c[i + n] = t[i]
  <2>1. n \in Nat /\ m \in Nat /\ DOMAIN s = 1 .. n /\ DOMAIN t = 1 .. m
    BY LenProperties
  <2>2. c \in Seq(A) /\ Len(c) = n + m
        /\ \A i \in 1 .. n + m : c[i] = IF i <= n THEN s[i] ELSE t[i - n]
    BY ConcatProperties
  <2>3. DOMAIN c = 1 .. n + m
    BY <2>2, LenProperties
  <2> HIDE DEF n, m, c
  <2> QED
    BY <2>1, <2>2, <2>3
<1> HIDE DEF n, m, c
<1>2. ASSUME IsInjective(c)
      PROVE  IsInjective(s) /\ IsInjective(t) /\ ToSet(s) \cap ToSet(t) = {}
  <2>1. \A a, b \in 1 .. n + m : c[a] = c[b] => a = b
    BY <1>1, <1>2 DEF IsInjective
  <2>2. \A a, b \in 1 .. n : s[a] = s[b] => a = b
    BY <1>1, <2>1
  <2>3. ASSUME NEW a \in 1 .. m, NEW b \in 1 .. m, t[a] = t[b] PROVE a = b
    <3>1. a + n \in 1 .. n + m /\ b + n \in 1 .. n + m /\ c[a + n] = c[b + n]
      BY <1>1, <2>3
    <3>2. a + n = b + n
      BY <2>1, <3>1
    <3> QED
      BY <3>2, <1>1
  <2>4. ASSUME NEW a \in 1 .. n, NEW b \in 1 .. m, s[a] = t[b] PROVE FALSE
    <3>1. a \in 1 .. n + m /\ b + n \in 1 .. n + m /\ c[a] = c[b + n]
      BY <1>1, <2>4
    <3>2. a = b + n
      BY <2>1, <3>1
    <3> QED
      BY <3>2, <1>1
  <2> QED
    BY <1>1, <2>2, <2>3, <2>4 DEF IsInjective, ToSet
<1>3. ASSUME IsInjective(s), IsInjective(t), ToSet(s) \cap ToSet(t) = {}
      PROVE  IsInjective(c)
  <2>0. \A a \in 1 .. n, b \in 1 .. m : s[a] # t[b]
    BY <1>1, <1>3 DEF ToSet
  <2>1. /\ \A a, b \in 1 .. n : s[a] = s[b] => a = b
        /\ \A a, b \in 1 .. m : t[a] = t[b] => a = b
        /\ \A a \in 1 .. n, b \in 1 .. m : s[a] # t[b]
    BY <1>1, <1>3, <2>0 DEF IsInjective
  <2> SUFFICES ASSUME NEW a \in 1 .. n + m, NEW b \in 1 .. n + m, c[a] = c[b]
               PROVE  a = b
    BY <1>1 DEF IsInjective
  <2>2. \A i \in 1 .. n + m : \/ i \in 1 .. n /\ c[i] = s[i]
                              \/ i - n \in 1 .. m /\ c[i] = t[i - n]
    <3> TAKE i \in 1 .. n + m
    <3>1. CASE i \in 1 .. n
      BY <3>1, <1>1
    <3>2. CASE i \notin 1 .. n
      <4>1. i - n \in 1 .. m /\ (i - n) + n = i
        BY <3>2, <1>1
      <4> QED
        BY <4>1, <1>1
    <3> QED
      BY <3>1, <3>2
  <2>3. CASE a \in 1 .. n /\ c[a] = s[a] /\ b \in 1 .. n /\ c[b] = s[b]
    BY <2>1, <2>3
  <2>4. CASE a - n \in 1 .. m /\ c[a] = t[a - n] /\ b - n \in 1 .. m /\ c[b] = t[b - n]
    <3>1. a - n = b - n
      BY <2>1, <2>4
    <3> QED
      BY <3>1, <1>1
  <2>5. CASE a \in 1 .. n /\ c[a] = s[a] /\ b - n \in 1 .. m /\ c[b] = t[b - n]
    BY <2>1, <2>5
  <2>6. CASE b \in 1 .. n /\ c[b] = s[b] /\ a - n \in 1 .. m /\ c[a] = t[a - n]
    BY <2>1, <2>6
  <2> QED
    BY <2>2, <2>3, <2>4, <2>5, <2>6
<1> QED
  BY <1>2, <1>3 DEF c

\* The array of one item.
LEMMA OneItem ==
    ASSUME NEW A, NEW x \in A
    PROVE  /\ <<x>> \in Seq(A) /\ ToSet(<<x>>) = {x} /\ IsInjective(<<x>>)
           /\ \A X : x \notin X => Only(<<x>>, X) = <<>>
<1>1. <<x>> \in Seq(A) /\ ToSet(<<x>>) = {x}
  BY DEF ToSet
<1>2. IsInjective(<<x>>)
  BY DEF IsInjective
<1>3. \A X : x \notin X => Only(<<x>>, X) = <<>>
  BY <1>1, OnlyNone
<1> QED
  BY <1>1, <1>2, <1>3

\* An item is added once if it was not there.
LEMMA InjectiveAppend ==
    ASSUME NEW A, NEW s \in Seq(A), NEW a \in A
    PROVE  IsInjective(Append(s, a)) <=> IsInjective(s) /\ a \notin ToSet(s)
<1>1. Append(s, a) = s \o <<a>>
  BY AppendIsConcat
<1>2. <<a>> \in Seq(A) /\ ToSet(<<a>>) = {a} /\ IsInjective(<<a>>)
  BY OneItem
<1>3. IsInjective(s \o <<a>>)
             <=> IsInjective(s) /\ IsInjective(<<a>>) /\ ToSet(s) \cap ToSet(<<a>>) = {}
  BY <1>2, InjectiveConcat
<1> QED
  BY <1>1, <1>2, <1>3

\* What is kept of items without repetitions has none.
LEMMA OnlyInjective ==
    ASSUME NEW A, NEW s \in Seq(A), NEW S, IsInjective(s)
    PROVE  IsInjective(Only(s, S))
<1> DEFINE T == {r \in Seq(A) : IsInjective(r) => IsInjective(Only(r, S))}
<1>1. <<>> \in T
  BY EmptySeq, OnlyEmpty
<1>2. ASSUME NEW r \in Seq(A), NEW a \in A, r \in T PROVE Append(r, a) \in T
  <2>1. Append(r, a) \in Seq(A)
    BY AppendProperties
  <2>2. ASSUME IsInjective(Append(r, a)) PROVE IsInjective(Only(Append(r, a), S))
    <3>1. IsInjective(r) /\ a \notin ToSet(r)
      BY <2>2, InjectiveAppend
    <3>2. IsInjective(Only(r, S))
      BY <3>1, <1>2
    <3>3. CASE a \in S
      <4>1. Only(Append(r, a), S) = Append(Only(r, S), a)
        BY <3>3, OnlyAppend
      <4>2. Only(r, S) \in Seq(A \cap S) /\ a \in A \cap S /\ ToSet(Only(r, S)) = ToSet(r) \cap S
        BY <3>3, OnlyType
      <4>3. IsInjective(Append(Only(r, S), a))
        BY <4>2, <3>1, <3>2, InjectiveAppend
      <4> QED
        BY <4>1, <4>3
    <3>4. CASE a \notin S
      BY <3>4, <3>2, OnlyAppend
    <3> QED
      BY <3>3, <3>4
  <2> QED
    BY <2>1, <2>2
<1> HIDE DEF T
<1>3. Seq(A) \subseteq T
  BY <1>1, <1>2, BuiltUp, Zenon
<1> QED
  BY <1>3 DEF T

\* An item slipped in between changes nothing for the others.
LEMMA SlippedIn ==
    ASSUME NEW A, NEW p \in Seq(A), NEW q \in Seq(A), NEW x \in A
    PROVE  /\ (p \o <<x>>) \o q \in Seq(A) /\ p \o q \in Seq(A)
           /\ ToSet((p \o <<x>>) \o q) = ToSet(p \o q) \cup {x}
           /\ IsInjective((p \o <<x>>) \o q) <=> IsInjective(p \o q) /\ x \notin ToSet(p \o q)
           /\ \A X : x \notin X => Only((p \o <<x>>) \o q, X) = Only(p \o q, X)
<1> DEFINE e == <<x>>
           u == p \o e
<1>1. /\ e \in Seq(A) /\ ToSet(e) = {x} /\ IsInjective(e)
      /\ \A X : x \notin X => Only(e, X) = <<>>
  BY OneItem
<1> HIDE DEF e
<1>2. /\ u \in Seq(A) /\ ToSet(u) = ToSet(p) \cup {x}
      /\ IsInjective(u) <=> IsInjective(p) /\ x \notin ToSet(p)
  <2>1. u \in Seq(A) /\ ToSet(u) = ToSet(p) \cup ToSet(e)
        /\ (IsInjective(u) <=> IsInjective(p) /\ IsInjective(e) /\ ToSet(p) \cap ToSet(e) = {})
    BY <1>1, ConcatProperties, ToSetConcat, InjectiveConcat
  <2> QED
    BY <1>1, <2>1
<1>3. ASSUME NEW X, x \notin X PROVE Only(u, X) = Only(p, X)
  <2>1. Only(u, X) = Only(p, X) \o Only(e, X)
    BY <1>1, OnlyConcat
  <2>2. Only(p, X) \in Seq(A \cap X)
    BY OnlyType
  <2> QED
    BY <1>1, <1>3, <2>1, <2>2, ConcatEmptySeq
<1> HIDE DEF u
<1>4. /\ u \o q \in Seq(A) /\ p \o q \in Seq(A)
      /\ ToSet(u \o q) = ToSet(u) \cup ToSet(q) /\ ToSet(p \o q) = ToSet(p) \cup ToSet(q)
  BY <1>2, ConcatProperties, ToSetConcat
<1>5. /\ IsInjective(u \o q) <=> IsInjective(u) /\ IsInjective(q) /\ ToSet(u) \cap ToSet(q) = {}
      /\ IsInjective(p \o q) <=> IsInjective(p) /\ IsInjective(q) /\ ToSet(p) \cap ToSet(q) = {}
  BY <1>2, InjectiveConcat
<1>6. ASSUME NEW X, x \notin X PROVE Only(u \o q, X) = Only(p \o q, X)
  <2>1. Only(u \o q, X) = Only(u, X) \o Only(q, X) /\ Only(p \o q, X) = Only(p, X) \o Only(q, X)
    BY <1>2, OnlyConcat
  <2> QED
    BY <2>1, <1>3, <1>6
<1>7. ToSet(u \o q) = ToSet(p \o q) \cup {x}
  BY <1>2, <1>4
<1>8. IsInjective(u \o q) <=> IsInjective(p \o q) /\ x \notin ToSet(p \o q)
  BY <1>2, <1>4, <1>5
<1> QED
  BY <1>4, <1>6, <1>7, <1>8 DEF u, e

\* A drag keeps the items, and the places of those that are not dragged.
LEMMA Moved ==
    ASSUME NEW A, NEW s \in Seq(A), NEW from \in DOMAIN s, NEW to \in DOMAIN s
    PROVE  /\ ArrayMove(s, from, to) \in Seq(A)
           /\ ToSet(ArrayMove(s, from, to)) = ToSet(s)
           /\ IsInjective(s) => IsInjective(ArrayMove(s, from, to))
           /\ \A X : s[from] \notin X => Only(ArrayMove(s, from, to), X) = Only(s, X)
<1> DEFINE n == Len(s)
           x == s[from]
           p == SubSeq(s, 1, from - 1)
           q == SubSeq(s, from + 1, n)
           r == RemoveAt(s, from)
           m == Len(r)
           pp == SubSeq(r, 1, to - 1)
           qq == SubSeq(r, to, m)
<1>1. /\ n \in Nat /\ from \in 1 .. n /\ to \in 1 .. n /\ x \in A
      /\ \A i \in 1 .. n : s[i] \in A
  BY LenProperties, ElementOfSeq
<1>2. /\ p \in Seq(A) /\ q \in Seq(A) /\ r = p \o q
      /\ Len(p) = from - 1 /\ Len(q) = n - from
  <2>1. p \in Seq(A) /\ Len(p) = from - 1
    <3>1. 1 \in Int /\ from - 1 \in Int /\ \A i \in 1 .. from - 1 : s[i] \in A
      BY <1>1
    <3> QED
      BY <3>1, <1>1, SubSeqProperties
  <2>2. q \in Seq(A) /\ Len(q) = n - from
    <3>1. from + 1 \in Int /\ n \in Int /\ \A i \in from + 1 .. n : s[i] \in A
      BY <1>1
    <3> QED
      BY <3>1, <1>1, SubSeqProperties
  <2> QED
    BY <2>1, <2>2 DEF RemoveAt
<1>3. s = (p \o <<x>>) \o q
  <2>1. SubSeq(s, from, n) = <<x>> \o q
    <3>1. from \in 1 .. Len(s) /\ n \in from .. Len(s)
      BY <1>1
    <3> QED
      BY <3>1, SubSeqRecursiveFirst
  <2>2. p \o SubSeq(s, from, n) = s
    <3> DEFINE k == from - 1
    <3>1. 1 \in 1 .. Len(s) + 1 /\ k \in 1 - 1 .. Len(s) /\ n \in k .. Len(s) /\ k + 1 = from
      BY <1>1
    <3> HIDE DEF k
    <3>2. SubSeq(s, 1, k) \o SubSeq(s, k + 1, n) = SubSeq(s, 1, n)
      BY <3>1, ConcatAdjacentSubSeq
    <3>3. SubSeq(s, 1, n) = s
      BY SubSeqFull
    <3> QED
      BY <3>1, <3>2, <3>3 DEF k
  <2>3. <<x>> \in Seq(A)
    BY <1>1
  <2>4. (p \o <<x>>) \o q = p \o (<<x>> \o q)
    <3> DEFINE e == <<x>>
    <3>1. e \in Seq(A)
      BY <2>3
    <3> HIDE DEF e, p, q
    <3>2. p \in Seq(A) /\ q \in Seq(A)
      BY <1>2
    <3>3. \A a \in Seq(A), b \in Seq(A), c \in Seq(A) : (a \o b) \o c = a \o (b \o c)
      BY ConcatAssociative
    <3>4. (p \o e) \o q = p \o (e \o q)
      BY <3>1, <3>2, <3>3, Zenon
    <3> QED
      BY <3>4 DEF e
  <2> QED
    BY <2>1, <2>2, <2>4
<1>4. r \in Seq(A) /\ m = n - 1
  <2> HIDE DEF p, q, r, n
  <2>1. r \in Seq(A) /\ Len(r) = Len(p) + Len(q)
    BY <1>2, ConcatProperties
  <2> QED
    BY <2>1, <1>1, <1>2
<1>5. pp \in Seq(A) /\ qq \in Seq(A) /\ ArrayMove(s, from, to) = (pp \o <<x>>) \o qq
  <2>0. m \in Nat /\ to \in 1 .. m + 1 /\ \A i \in 1 .. m : r[i] \in A
    <3> HIDE DEF r, n
    <3> QED
      BY <1>1, <1>4, ElementOfSeq
  <2> HIDE DEF m, r
  <2>1. pp \in Seq(A)
    <3>1. 1 \in Int /\ to - 1 \in Int /\ \A i \in 1 .. to - 1 : r[i] \in A
      BY <2>0
    <3> QED
      BY <3>1, SubSeqProperties
  <2>2. qq \in Seq(A)
    <3>1. to \in Int /\ m \in Int /\ \A i \in to .. m : r[i] \in A
      BY <2>0
    <3> QED
      BY <3>1, SubSeqProperties
  <2>3. ArrayMove(s, from, to) = (pp \o <<x>>) \o qq
    BY DEF ArrayMove, InsertAt, r, m
  <2> QED
    BY <2>1, <2>2, <2>3
<1>6. pp \o qq = r
  <2> DEFINE k == to - 1
  <2>1. 1 \in 1 .. m + 1 /\ k \in 1 - 1 .. m /\ m \in k .. m /\ k + 1 = to
    <3> HIDE DEF m, n
    <3> QED
      BY <1>1, <1>4
  <2> HIDE DEF k, r
  <2>2. SubSeq(r, 1, k) \o SubSeq(r, k + 1, m) = SubSeq(r, 1, m)
    BY <2>1, <1>4, ConcatAdjacentSubSeq
  <2>3. SubSeq(r, 1, m) = r
    BY <1>4, SubSeqFull
  <2> QED
    BY <2>1, <2>2, <2>3 DEF k
<1> HIDE DEF p, q, pp, qq, r, x
<1>7. /\ ToSet(s) = ToSet(r) \cup {x}
      /\ IsInjective(s) <=> IsInjective(r) /\ x \notin ToSet(r)
      /\ \A X : x \notin X => Only(s, X) = Only(r, X)
  BY <1>1, <1>2, <1>3, SlippedIn
<1> DEFINE v == ArrayMove(s, from, to)
<1>8. /\ v \in Seq(A) /\ ToSet(v) = ToSet(r) \cup {x}
      /\ IsInjective(v) <=> IsInjective(r) /\ x \notin ToSet(r)
      /\ \A X : x \notin X => Only(v, X) = Only(r, X)
  <2>1. v = (pp \o <<x>>) \o qq /\ r = pp \o qq /\ pp \in Seq(A) /\ qq \in Seq(A) /\ x \in A
    BY <1>1, <1>5, <1>6
  <2> HIDE DEF v
  <2> QED
    BY <2>1, SlippedIn
<1>9. /\ ArrayMove(s, from, to) \in Seq(A)
      /\ ToSet(ArrayMove(s, from, to)) = ToSet(s)
      /\ IsInjective(s) => IsInjective(ArrayMove(s, from, to))
  BY <1>7, <1>8
<1>10. ASSUME NEW X, s[from] \notin X PROVE Only(ArrayMove(s, from, to), X) = Only(s, X)
  BY <1>7, <1>8, <1>10 DEF x
<1> QED
  BY <1>9, <1>10

\* Removing an item leaves the others where they are.
LEMMA WithoutKeeps ==
    ASSUME NEW A, NEW s \in Seq(A), NEW x, NEW X, x \notin X
    PROVE  Only(Without(s, x), X) = Only(s, X)
<1>1. Only(Without(s, x), X) = Only(s, (ToSet(s) \ {x}) \cap X)
  BY OnlyTwice DEF Without
<1>2. Only(s, (ToSet(s) \ {x}) \cap X) = Only(s, X)
  <2>1. ToSet(s) \cap ((ToSet(s) \ {x}) \cap X) = ToSet(s) \cap X
    OBVIOUS
  <2> QED
    BY <2>1, OnlySame
<1> QED
  BY <1>1, <1>2

-----------------------------------------------------------------------------
(***************************************************************************)
(* DashboardLayout                                                         *)
(***************************************************************************)

\* A saved order puts what is there in some order, each item as often.
LEMMA Ordered ==
    ASSUME NEW A, NEW order \in Seq(A), NEW all \in Seq(A)
    PROVE  /\ InOrder(order, all) \in Seq(A)
           /\ ToSet(InOrder(order, all)) = ToSet(all)
           /\ IsInjective(order) /\ IsInjective(all) => IsInjective(InOrder(order, all))
<1> DEFINE S == ToSet(all)
           U == ToSet(all) \ ToSet(order)
           f == Only(order, S)
           g == Only(all, U)
<1>0. S \subseteq A /\ U \subseteq A
  BY ToSetType
<1>1. /\ f \in Seq(A) /\ g \in Seq(A) /\ InOrder(order, all) = f \o g
      /\ ToSet(f) = ToSet(order) \cap S /\ ToSet(g) = ToSet(all) \cap U
  <2>1. f \in Seq(A \cap S) /\ ToSet(f) = ToSet(order) \cap S
    BY OnlyType
  <2>2. g \in Seq(A \cap U) /\ ToSet(g) = ToSet(all) \cap U
    BY OnlyType
  <2>3. A \cap S \subseteq A /\ A \cap U \subseteq A
    OBVIOUS
  <2> HIDE DEF S, U, f, g
  <2>4. f \in Seq(A) /\ g \in Seq(A)
    BY <2>1, <2>2, <2>3, SeqMonotonic
  <2> QED
    BY <2>1, <2>2, <2>4 DEF InOrder, S, U, f, g
<1>2. IsInjective(order) /\ IsInjective(all) => IsInjective(f) /\ IsInjective(g)
  BY OnlyInjective
<1>4. ToSet(f \o g) = ToSet(f) \cup ToSet(g)
      /\ (IsInjective(f \o g) <=> IsInjective(f) /\ IsInjective(g) /\ ToSet(f) \cap ToSet(g) = {})
      /\ f \o g \in Seq(A)
  <2> HIDE DEF f, g
  <2> QED
    BY <1>1, ConcatProperties, ToSetConcat, InjectiveConcat
<1> HIDE DEF f, g
<1>5. f \o g \in Seq(A) /\ ToSet(f \o g) = ToSet(all)
      /\ (IsInjective(order) /\ IsInjective(all) => IsInjective(f \o g))
  BY <1>1, <1>2, <1>4
<1> QED
  BY <1>1, <1>5

\* Of the items that are there, those the order names come first.
LEMMA OnlyOrdered ==
    ASSUME NEW A, NEW order \in Seq(A), NEW all \in Seq(A), NEW X, X \subseteq ToSet(all)
    PROVE  Only(InOrder(order, all), X) = Only(order, X) \o Only(all, X \ ToSet(order))
<1> DEFINE S == ToSet(all)
           U == ToSet(all) \ ToSet(order)
           f == Only(order, S)
           g == Only(all, U)
<1>1. f \in Seq(A) /\ g \in Seq(A) /\ InOrder(order, all) = f \o g
  <2>1. f \in Seq(A \cap S)
    BY OnlyType
  <2>2. g \in Seq(A \cap U)
    BY OnlyType
  <2>3. A \cap S \subseteq A /\ A \cap U \subseteq A
    OBVIOUS
  <2> HIDE DEF S, U, f, g
  <2>4. f \in Seq(A) /\ g \in Seq(A)
    BY <2>1, <2>2, <2>3, SeqMonotonic
  <2> QED
    BY <2>4 DEF InOrder, S, U, f, g
<1>2. Only(f \o g, X) = Only(f, X) \o Only(g, X)
  <2>1. f \in Seq(A) /\ g \in Seq(A)
    BY <1>1
  <2> HIDE DEF f, g
  <2> QED
    BY <2>1, OnlyConcat
<1>3. Only(f, X) = Only(order, S \cap X)
  BY OnlyTwice
<1>4. Only(g, X) = Only(all, U \cap X)
  BY OnlyTwice
<1>5. S \cap X = X /\ U \cap X = X \ ToSet(order)
  OBVIOUS
<1> QED
  BY <1>1, <1>2, <1>3, <1>4, <1>5

\* What two orders, and two lists of what is there, have in common keeps its places.
LEMMA SamePlaces ==
    ASSUME NEW A, NEW o1 \in Seq(A), NEW a1 \in Seq(A), NEW o2 \in Seq(A), NEW a2 \in Seq(A),
           NEW X, X \subseteq ToSet(a1), X \subseteq ToSet(a2)
    PROVE  Only(o1, X) = Only(o2, X) /\ Only(a1, X) = Only(a2, X)
             => Only(InOrder(o1, a1), X) = Only(InOrder(o2, a2), X)
<1>1. Only(InOrder(o1, a1), X) = Only(o1, X) \o Only(a1, X \ ToSet(o1))
  BY OnlyOrdered
<1>2. Only(InOrder(o2, a2), X) = Only(o2, X) \o Only(a2, X \ ToSet(o2))
  BY OnlyOrdered
<1>3. ToSet(Only(o1, X)) = ToSet(o1) \cap X
  BY OnlyType
<1>4. ToSet(Only(o2, X)) = ToSet(o2) \cap X
  BY OnlyType
<1> DEFINE Y == X \ ToSet(o1)
<1>5. Only(Only(a1, X), Y) = Only(a1, X \cap Y)
  BY OnlyTwice
<1>6. Only(Only(a2, X), Y) = Only(a2, X \cap Y)
  BY OnlyTwice
<1>7. ASSUME Only(o1, X) = Only(o2, X), Only(a1, X) = Only(a2, X)
      PROVE  Only(InOrder(o1, a1), X) = Only(InOrder(o2, a2), X)
  <2>1. Y = X \ ToSet(o2) /\ X \cap Y = Y
    BY <1>3, <1>4, <1>7
  <2>2. Only(a1, Y) = Only(a2, Y)
    BY <2>1, <1>5, <1>6, <1>7
  <2> QED
    BY <1>1, <1>2, <1>7, <2>1, <2>2
<1> QED
  BY <1>7

\* The links that can be there at all.
Links == ToSet(Announced) \cup CustomIds

\* The saved order names a link of the user's only while there is one.
OrderIsTidy == ToSet(linkOrder) \cap CustomIds \subseteq ToSet(customLinks)

LayoutIInv ==
    /\ LayoutTypeOK
    /\ linkOrder \in Seq(Links) /\ customLinks \in Seq(CustomIds)
    /\ sectionOrder \in Seq(ToSet(Sections))
    /\ OrderIsTidy

\* The links that are there: announced and the user's own, each once.
LEMMA ShownLinks ==
    ASSUME NEW links \in SUBSET ToSet(Announced), NEW own \in Seq(CustomIds)
    PROVE  /\ Only(Announced, links) \o own \in Seq(Links)
           /\ ToSet(Only(Announced, links) \o own) = links \cup ToSet(own)
           /\ IsInjective(own) => IsInjective(Only(Announced, links) \o own)
           /\ Only(Announced, links) \in Seq(Links) /\ own \in Seq(Links)
           /\ ToSet(own) \subseteq CustomIds
<1> DEFINE A == ToSet(Announced)
           f == Only(Announced, links)
<1>1. /\ Announced \in Seq(A) /\ IsInjective(Announced) /\ A \cap CustomIds = {}
  BY LayoutAssumption
<1>2. f \in Seq(A \cap links) /\ ToSet(f) = links
  <2>1. f \in Seq(A \cap links) /\ ToSet(f) = ToSet(Announced) \cap links
    BY <1>1, OnlyType
  <2> QED
    BY <2>1
<1>3. IsInjective(f)
  BY <1>1, OnlyInjective
<1> HIDE DEF f
<1>4. f \in Seq(Links) /\ own \in Seq(Links)
  <2>1. A \cap links \subseteq Links /\ CustomIds \subseteq Links
    BY DEF Links
  <2> HIDE DEF A
  <2> QED
    BY <1>2, <2>1, SeqMonotonic
<1>5. ToSet(own) \subseteq CustomIds
  BY ToSetType
<1>6. /\ f \o own \in Seq(Links) /\ ToSet(f \o own) = ToSet(f) \cup ToSet(own)
      /\ IsInjective(f \o own)
           <=> IsInjective(f) /\ IsInjective(own) /\ ToSet(f) \cap ToSet(own) = {}
  BY <1>4, ConcatProperties, ToSetConcat, InjectiveConcat
<1> QED
  BY <1>1, <1>2, <1>3, <1>4, <1>5, <1>6 DEF f

\* The dashboard shows each link once: those announced and the user's own.
LEMMA SortedLinksIs ==
    ASSUME LayoutIInv
    PROVE  /\ SortedLinks \in Seq(Links) /\ IsInjective(SortedLinks)
           /\ ToSet(SortedLinks) = announced \cup ToSet(customLinks)
<1> DEFINE all == QuickLinks \o customLinks
<1>1. all \in Seq(Links) /\ IsInjective(all) /\ ToSet(all) = announced \cup ToSet(customLinks)
  BY ShownLinks DEF QuickLinks, LayoutIInv, LayoutTypeOK
<1>2. linkOrder \in Seq(Links) /\ IsInjective(linkOrder)
  BY DEF LayoutIInv, LayoutTypeOK
<1> HIDE DEF all
<1>3. /\ InOrder(linkOrder, all) \in Seq(Links)
      /\ ToSet(InOrder(linkOrder, all)) = ToSet(all)
      /\ IsInjective(linkOrder) /\ IsInjective(all) => IsInjective(InOrder(linkOrder, all))
  BY <1>1, <1>2, Ordered
<1> QED
  BY <1>1, <1>2, <1>3 DEF SortedLinks, all

\* The invariant holds of the preferences a new user has.
LEMMA LayoutStart ==
    ASSUME LayoutInit PROVE LayoutIInv
<1>1. /\ <<>> \in Seq(Links) /\ <<>> \in Seq(CustomIds) /\ <<>> \in Seq(ToSet(Sections))
      /\ ToSet(<<>>) = {} /\ IsInjective(<<>>)
  BY EmptySeq, ToSetEmpty DEF IsInjective
<1>2. 0 \in 0 .. MaxChanges
  BY LayoutAssumption
<1> QED
  BY <1>1, <1>2 DEF LayoutInit, LayoutIInv, LayoutTypeOK, OrderIsTidy

\* A new link gets an id of its own; an edited one keeps its place.
LEMMA AddLinkStep ==
    ASSUME LayoutIInv, NEW l \in CustomIds, HandleAddLink(l)
    PROVE  LayoutIInv'
<1>1. CASE editingLink # NoLink
  BY <1>1 DEF HandleAddLink, LayoutIInv, LayoutTypeOK, OrderIsTidy
<1>2. CASE editingLink = NoLink
  <2>1. /\ l \notin ToSet(customLinks)
        /\ customLinks' = Append(customLinks, l) /\ linkOrder' = Append(linkOrder, l)
        /\ linkDialog' = "closed" /\ editingLink' = NoLink
        /\ UNCHANGED <<announced, sectionOrder, changes>>
    BY <1>2 DEF HandleAddLink
  <2>2. /\ linkOrder \in Seq(Links) /\ customLinks \in Seq(CustomIds) /\ l \in Links
        /\ IsInjective(linkOrder) /\ IsInjective(customLinks) /\ l \notin ToSet(linkOrder)
    BY <2>1 DEF LayoutIInv, LayoutTypeOK, OrderIsTidy, Links
  <2>3. /\ customLinks' \in Seq(CustomIds) /\ IsInjective(customLinks')
        /\ ToSet(customLinks') = ToSet(customLinks) \cup {l}
    BY <2>1, <2>2, AppendProperties, InjectiveAppend, ToSetAppend
  <2>4. /\ linkOrder' \in Seq(Links) /\ IsInjective(linkOrder')
        /\ ToSet(linkOrder') = ToSet(linkOrder) \cup {l}
    BY <2>1, <2>2, AppendProperties, InjectiveAppend, ToSetAppend
  <2> QED
    BY <2>1, <2>3, <2>4 DEF LayoutIInv, LayoutTypeOK, OrderIsTidy, Links
<1> QED
  BY <1>1, <1>2

\* A removed link leaves the list and the order together.
LEMMA RemoveLinkStep ==
    ASSUME LayoutIInv, NEW l, RemoveCustomLink(l)
    PROVE  LayoutIInv'
<1>1. /\ customLinks' = Without(customLinks, l) /\ linkOrder' = Without(linkOrder, l)
      /\ linkDialog = "closed"
      /\ UNCHANGED <<announced, linkDialog, editingLink, sectionOrder, changes>>
  BY DEF RemoveCustomLink
<1>2. /\ linkOrder \in Seq(Links) /\ customLinks \in Seq(CustomIds)
      /\ IsInjective(linkOrder) /\ IsInjective(customLinks)
  BY DEF LayoutIInv, LayoutTypeOK
<1>3. /\ customLinks' \in Seq(CustomIds) /\ ToSet(customLinks') = ToSet(customLinks) \ {l}
      /\ IsInjective(customLinks')
  BY <1>1, <1>2, WithoutType, OnlyInjective DEF Without
<1>4. /\ linkOrder' \in Seq(Links) /\ ToSet(linkOrder') = ToSet(linkOrder) \ {l}
      /\ IsInjective(linkOrder')
  BY <1>1, <1>2, WithoutType, OnlyInjective DEF Without
<1> QED
  BY <1>1, <1>3, <1>4 DEF LayoutIInv, LayoutTypeOK, OrderIsTidy

\* A drag saves a permutation of what is shown.
LEMMA DragStep ==
    ASSUME LayoutIInv,
           \/ \E i, j \in DOMAIN SortedLinks : ReorderQuickLinks(i, j)
           \/ \E i, j \in DOMAIN EffectiveOrder : ReorderSections(i, j)
    PROVE  LayoutIInv'
<1>1. ASSUME NEW i \in DOMAIN SortedLinks, NEW j \in DOMAIN SortedLinks, ReorderQuickLinks(i, j)
      PROVE  LayoutIInv'
  <2>1. /\ linkOrder' = ArrayMove(SortedLinks, i, j)
        /\ UNCHANGED <<announced, customLinks, linkDialog, editingLink, sectionOrder, changes>>
    BY <1>1 DEF ReorderQuickLinks
  <2>2. /\ SortedLinks \in Seq(Links) /\ IsInjective(SortedLinks)
        /\ ToSet(SortedLinks) = announced \cup ToSet(customLinks)
    BY SortedLinksIs
  <2>3. /\ linkOrder' \in Seq(Links) /\ ToSet(linkOrder') = ToSet(SortedLinks)
        /\ IsInjective(linkOrder')
    BY <1>1, <2>1, <2>2, Moved
  <2>4. /\ announced \subseteq ToSet(Announced) /\ ToSet(Announced) \cap CustomIds = {}
        /\ ToSet(customLinks) \subseteq CustomIds
    BY LayoutAssumption DEF LayoutIInv, LayoutTypeOK
  <2>5. /\ ToSet(linkOrder') \subseteq ToSet(Announced) \cup CustomIds
        /\ ToSet(linkOrder') \cap CustomIds \subseteq ToSet(customLinks)
    BY <2>2, <2>3, <2>4
  <2> QED
    BY <2>1, <2>3, <2>5 DEF LayoutIInv, LayoutTypeOK, OrderIsTidy
<1>2. ASSUME NEW i \in DOMAIN EffectiveOrder, NEW j \in DOMAIN EffectiveOrder,
             ReorderSections(i, j)
      PROVE  LayoutIInv'
  <2>1. /\ sectionOrder' = ArrayMove(EffectiveOrder, i, j)
        /\ UNCHANGED <<announced, linkOrder, customLinks, linkDialog, editingLink, changes>>
    BY <1>2 DEF ReorderSections
  <2>2. EffectiveOrder \in Seq(ToSet(Sections))
    BY LayoutAssumption, Ordered DEF EffectiveOrder, LayoutIInv
  <2>3. sectionOrder' \in Seq(ToSet(Sections))
    BY <1>2, <2>1, <2>2, Moved
  <2>4. ToSet(sectionOrder') \subseteq ToSet(Sections)
    <3> DEFINE B == ToSet(Sections)
    <3>1. sectionOrder' \in Seq(B)
      BY <2>3
    <3> HIDE DEF B
    <3>2. ToSet(sectionOrder') \subseteq B
      BY <3>1, ToSetType
    <3> QED
      BY <3>2 DEF B
  <2> QED
    BY <2>1, <2>3, <2>4 DEF LayoutIInv, LayoutTypeOK, OrderIsTidy
<1> QED
  BY <1>1, <1>2

\* Dialogs and the answers of services touch neither order.
LEMMA LayoutQuietStep ==
    ASSUME LayoutIInv,
           \/ HandleAddClick \/ CloseLinkDialog \/ UNCHANGED layoutVars
           \/ \E l \in ToSet(customLinks) : HandleEditClick(l)
           \/ \E links \in SUBSET ToSet(Announced) : OutputsArrive(links)
    PROVE  LayoutIInv'
<1>1. CASE HandleAddClick \/ CloseLinkDialog \/ UNCHANGED layoutVars
  BY <1>1 DEF HandleAddClick, CloseLinkDialog, layoutVars, LayoutIInv, LayoutTypeOK, OrderIsTidy
<1>2. ASSUME NEW l \in ToSet(customLinks), HandleEditClick(l) PROVE LayoutIInv'
  BY <1>2 DEF HandleEditClick, LayoutIInv, LayoutTypeOK, OrderIsTidy
<1>3. ASSUME NEW links \in SUBSET ToSet(Announced), OutputsArrive(links) PROVE LayoutIInv'
  <2>1. changes' \in 0 .. MaxChanges
    BY <1>3, LayoutAssumption DEF OutputsArrive, LayoutIInv, LayoutTypeOK
  <2> QED
    BY <1>3, <2>1 DEF OutputsArrive, LayoutIInv, LayoutTypeOK, OrderIsTidy
<1> QED
  BY <1>1, <1>2, <1>3

\* Every step of the dashboard keeps the invariant.
LEMMA LayoutStep ==
    ASSUME LayoutIInv, [LayoutNext]_layoutVars
    PROVE  LayoutIInv'
BY AddLinkStep, RemoveLinkStep, DragStep, LayoutQuietStep DEF LayoutNext

\* LayoutIInv holds in every state of every behaviour.
THEOREM LayoutInvariance == LayoutSpec => []LayoutIInv
BY LayoutStart, LayoutStep, PTL DEF LayoutSpec

\* What is there, in no saved order.
AllLinks == QuickLinks \o customLinks

\* The links shown before and after a step.
Staying == ToSet(SortedLinks) \cap ToSet(SortedLinks')

\* The links shown before and after keep their places in the saved order and
\* among what is there, so they keep them on the page.
LEMMA PlacesFromParts ==
    ASSUME LayoutIInv, LayoutIInv', NEW X, X \subseteq Staying
    PROVE  Only(linkOrder, X) = Only(linkOrder', X) /\ Only(AllLinks, X) = Only(AllLinks', X)
             => Only(SortedLinks, X) = Only(SortedLinks', X)
<1> DEFINE o1 == linkOrder
           a1 == Only(Announced, announced) \o customLinks
           o2 == linkOrder'
           a2 == Only(Announced, announced') \o customLinks'
<1>1. o1 \in Seq(Links) /\ a1 \in Seq(Links)
  BY ShownLinks DEF LayoutIInv, LayoutTypeOK
<1>2. o2 \in Seq(Links) /\ a2 \in Seq(Links)
  BY ShownLinks DEF LayoutIInv, LayoutTypeOK, Links
<1>3. /\ SortedLinks = InOrder(o1, a1) /\ SortedLinks' = InOrder(o2, a2)
      /\ AllLinks = a1 /\ AllLinks' = a2
  BY DEF SortedLinks, QuickLinks, AllLinks, InOrder
<1> HIDE DEF o1, a1, o2, a2
<1>4. ToSet(SortedLinks) = ToSet(a1)
  BY <1>1, <1>3, Ordered
<1>5. ToSet(SortedLinks') = ToSet(a2)
  BY <1>2, <1>3, Ordered
<1>6. X \subseteq ToSet(a1) /\ X \subseteq ToSet(a2)
  BY <1>4, <1>5 DEF Staying
<1>7. Only(o1, X) = Only(o2, X) /\ Only(a1, X) = Only(a2, X)
        => Only(InOrder(o1, a1), X) = Only(InOrder(o2, a2), X)
  BY <1>1, <1>2, <1>6, SamePlaces
<1> QED
  BY <1>3, <1>7 DEF o1, o2

\* A link that is shown is announced or the user's own.
LEMMA StayingIs ==
    ASSUME LayoutIInv, LayoutIInv'
    PROVE  Staying = (announced \cup ToSet(customLinks)) \cap (announced' \cup ToSet(customLinks'))
<1> DEFINE o1 == linkOrder
           a1 == Only(Announced, announced) \o customLinks
           o2 == linkOrder'
           a2 == Only(Announced, announced') \o customLinks'
<1>1. o1 \in Seq(Links) /\ a1 \in Seq(Links) /\ ToSet(a1) = announced \cup ToSet(customLinks)
  BY ShownLinks DEF LayoutIInv, LayoutTypeOK
<1>2. o2 \in Seq(Links) /\ a2 \in Seq(Links) /\ ToSet(a2) = announced' \cup ToSet(customLinks')
  BY ShownLinks DEF LayoutIInv, LayoutTypeOK, Links
<1>3. SortedLinks = InOrder(o1, a1) /\ SortedLinks' = InOrder(o2, a2)
  BY DEF SortedLinks, QuickLinks, InOrder
<1> HIDE DEF o1, a1, o2, a2
<1>4. ToSet(SortedLinks) = ToSet(a1)
  BY <1>1, <1>3, Ordered
<1>5. ToSet(SortedLinks') = ToSet(a2)
  BY <1>2, <1>3, Ordered
<1> QED
  BY <1>1, <1>2, <1>4, <1>5 DEF Staying

\* Two lists of links that differ in one place only.
LEMMA OwnLinksKept ==
    ASSUME NEW links \in SUBSET ToSet(Announced), NEW own \in Seq(CustomIds),
           NEW more \in Seq(CustomIds), NEW X
    PROVE  Only(own, X) = Only(more, X)
             => Only(Only(Announced, links) \o own, X) = Only(Only(Announced, links) \o more, X)
<1> DEFINE f == Only(Announced, links)
<1>1. f \in Seq(Links) /\ own \in Seq(Links)
  BY ShownLinks
<1>2. more \in Seq(Links)
  BY ShownLinks
<1> HIDE DEF f
<1>3. Only(f \o own, X) = Only(f, X) \o Only(own, X)
  BY <1>1, OnlyConcat
<1>4. Only(f \o more, X) = Only(f, X) \o Only(more, X)
  BY <1>1, <1>2, OnlyConcat
<1> QED
  BY <1>3, <1>4 DEF f

\* A link added or edited moves none of those that stay.
LEMMA AddKeepsPlaces ==
    ASSUME LayoutIInv, LayoutIInv', NEW l \in CustomIds, HandleAddLink(l)
    PROVE  Only(SortedLinks, Staying) = Only(SortedLinks', Staying)
<1>1. CASE editingLink # NoLink
  <2>1. linkOrder' = linkOrder /\ announced' = announced /\ customLinks' = customLinks
    BY <1>1 DEF HandleAddLink
  <2> QED
    BY <2>1 DEF SortedLinks, QuickLinks
<1>2. CASE editingLink = NoLink
  <2> DEFINE X == Staying
  <2>1. /\ l \notin ToSet(customLinks) /\ announced' = announced
        /\ customLinks' = Append(customLinks, l) /\ linkOrder' = Append(linkOrder, l)
    BY <1>2 DEF HandleAddLink
  <2>2. /\ announced \subseteq ToSet(Announced) /\ l \notin ToSet(Announced) /\ l \in Links
        /\ customLinks \in Seq(CustomIds) /\ customLinks' \in Seq(CustomIds)
        /\ linkOrder \in Seq(Links)
    BY LayoutAssumption DEF LayoutIInv, LayoutTypeOK, Links
  <2>3. l \notin X
    BY StayingIs, <2>1, <2>2
  <2> HIDE DEF X
  <2>4. Only(customLinks', X) = Only(customLinks, X)
    BY <2>1, <2>2, <2>3, OnlyAppend
  <2>5. Only(linkOrder', X) = Only(linkOrder, X)
    BY <2>1, <2>2, <2>3, OnlyAppend
  <2>6. Only(AllLinks, X) = Only(AllLinks', X)
    <3> DEFINE more == customLinks'
    <3>1. more \in Seq(CustomIds) /\ Only(customLinks, X) = Only(more, X)
      BY <2>2, <2>4
    <3>2. AllLinks' = Only(Announced, announced) \o more
      BY <2>1 DEF AllLinks, QuickLinks
    <3> HIDE DEF more
    <3>3. Only(Only(Announced, announced) \o customLinks, X) = Only(Only(Announced, announced) \o more, X)
      BY <2>2, <3>1, OwnLinksKept
    <3> QED
      BY <3>2, <3>3 DEF AllLinks, QuickLinks
  <2> QED
    BY <2>5, <2>6, PlacesFromParts DEF X
<1> QED
  BY <1>1, <1>2

\* Nor does a link removed.
LEMMA RemoveKeepsPlaces ==
    ASSUME LayoutIInv, LayoutIInv', NEW l \in ToSet(customLinks), RemoveCustomLink(l)
    PROVE  Only(SortedLinks, Staying) = Only(SortedLinks', Staying)
<1> DEFINE X == Staying
<1>1. /\ customLinks' = Without(customLinks, l) /\ linkOrder' = Without(linkOrder, l)
      /\ announced' = announced
  BY DEF RemoveCustomLink
<1>2. /\ announced \subseteq ToSet(Announced) /\ l \notin ToSet(Announced)
      /\ customLinks \in Seq(CustomIds) /\ customLinks' \in Seq(CustomIds)
      /\ linkOrder \in Seq(Links)
  BY LayoutAssumption DEF LayoutIInv, LayoutTypeOK
<1>3. l \notin X
  <2>1. ToSet(customLinks') = ToSet(customLinks) \ {l}
    BY <1>1, <1>2, WithoutType
  <2> QED
    BY StayingIs, <1>1, <1>2, <2>1
<1> HIDE DEF X
<1>4. Only(customLinks', X) = Only(customLinks, X)
  BY <1>1, <1>2, <1>3, WithoutKeeps
<1>5. Only(linkOrder', X) = Only(linkOrder, X)
  BY <1>1, <1>2, <1>3, WithoutKeeps
<1>6. Only(AllLinks, X) = Only(AllLinks', X)
  <2> DEFINE more == customLinks'
  <2>1. more \in Seq(CustomIds) /\ Only(customLinks, X) = Only(more, X)
    BY <1>2, <1>4
  <2>2. AllLinks' = Only(Announced, announced) \o more
    BY <1>1 DEF AllLinks, QuickLinks
  <2> HIDE DEF more
  <2>3. Only(Only(Announced, announced) \o customLinks, X) = Only(Only(Announced, announced) \o more, X)
    BY <1>2, <2>1, OwnLinksKept
  <2> QED
    BY <2>2, <2>3 DEF AllLinks, QuickLinks
<1> QED
  BY <1>5, <1>6, PlacesFromParts DEF X

\* Another answer: the announced links that stay are in the order of Announced.
LEMMA AnswerKeepsPlaces ==
    ASSUME LayoutIInv, LayoutIInv', NEW links \in SUBSET ToSet(Announced), OutputsArrive(links)
    PROVE  Only(SortedLinks, Staying) = Only(SortedLinks', Staying)
<1> DEFINE X == Staying
           A == ToSet(Announced)
           f == Only(Announced, announced)
           g == Only(Announced, links)
<1>1. /\ announced' = links /\ linkOrder' = linkOrder /\ customLinks' = customLinks
  BY DEF OutputsArrive
<1>2. /\ announced \subseteq ToSet(Announced) /\ customLinks \in Seq(CustomIds)
      /\ ToSet(customLinks) \subseteq CustomIds
      /\ Announced \in Seq(A) /\ A \cap CustomIds = {}
  BY LayoutAssumption DEF LayoutIInv, LayoutTypeOK
<1>3. A \cap (announced \cap X) = A \cap (links \cap X)
  BY StayingIs, <1>1, <1>2
<1> HIDE DEF X
<1>4. Only(f, X) = Only(g, X)
  <2>1. Only(f, X) = Only(Announced, announced \cap X)
    BY <1>2, OnlyTwice
  <2>2. Only(g, X) = Only(Announced, links \cap X)
    BY <1>2, OnlyTwice
  <2>3. Only(Announced, announced \cap X) = Only(Announced, links \cap X)
    <3> HIDE DEF A
    <3>1. ToSet(Announced) \cap (announced \cap X) = ToSet(Announced) \cap (links \cap X)
      BY <1>3 DEF A
    <3> QED
      BY <1>2, <3>1, OnlySame
  <2> QED
    BY <2>1, <2>2, <2>3
<1>5. f \in Seq(Links) /\ customLinks \in Seq(Links)
  BY <1>2, ShownLinks
<1>6. g \in Seq(Links)
  BY <1>2, ShownLinks
<1>7. AllLinks = f \o customLinks /\ AllLinks' = g \o customLinks
  BY <1>1 DEF AllLinks, QuickLinks
<1> HIDE DEF f, g
<1>8. Only(f \o customLinks, X) = Only(f, X) \o Only(customLinks, X)
  BY <1>5, OnlyConcat
<1>9. Only(g \o customLinks, X) = Only(g, X) \o Only(customLinks, X)
  BY <1>5, <1>6, OnlyConcat
<1>10. Only(AllLinks, X) = Only(AllLinks', X)
  BY <1>4, <1>7, <1>8, <1>9
<1> QED
  BY <1>1, <1>10, PlacesFromParts DEF X

\* A drag moves the link that is dragged and no other.
LEMMA DragKeepsPlaces ==
    ASSUME LayoutIInv, LayoutIInv', NEW i \in DOMAIN SortedLinks, NEW j \in DOMAIN SortedLinks,
           ReorderQuickLinks(i, j)
    PROVE  LET X == Staying \ {SortedLinks[i]}
           IN  Only(SortedLinks, X) = Only(SortedLinks', X)
<1> DEFINE X == Staying \ {SortedLinks[i]}
           a == Only(Announced, announced) \o customLinks
           o == linkOrder'
<1>1. /\ o = ArrayMove(SortedLinks, i, j) /\ announced' = announced /\ customLinks' = customLinks
  BY DEF ReorderQuickLinks
<1>2. /\ SortedLinks \in Seq(Links) /\ ToSet(SortedLinks) = announced \cup ToSet(customLinks)
  BY SortedLinksIs
<1>3. /\ o \in Seq(Links) /\ ToSet(o) = ToSet(SortedLinks)
      /\ \A Z : SortedLinks[i] \notin Z => Only(o, Z) = Only(SortedLinks, Z)
  BY <1>1, <1>2, Moved
<1>4. a \in Seq(Links) /\ ToSet(a) = announced \cup ToSet(customLinks)
  BY ShownLinks DEF LayoutIInv, LayoutTypeOK
<1>5. SortedLinks' = InOrder(o, a)
  BY <1>1 DEF SortedLinks, QuickLinks, InOrder
<1>6. X \subseteq ToSet(SortedLinks) /\ SortedLinks[i] \notin X
  BY DEF Staying
<1> HIDE DEF X, a, o
<1>7. Only(o, X) = Only(SortedLinks, X)
  BY <1>3, <1>6
<1>8. Only(InOrder(o, a), X) = Only(o, X) \o Only(a, X \ ToSet(o))
  <2>1. o \in Seq(Links) /\ a \in Seq(Links) /\ X \subseteq ToSet(a)
    BY <1>2, <1>3, <1>4, <1>6
  <2> QED
    BY <2>1, OnlyOrdered
<1>9. Only(a, X \ ToSet(o)) = <<>>
  <2>1. X \ ToSet(o) = {}
    BY <1>3, <1>6
  <2>2. Only(a, {}) = <<>>
    BY <1>4, OnlyNone
  <2> QED
    BY <2>1, <2>2
<1>10. Only(o, X) \o <<>> = Only(o, X)
  <2>1. Only(o, X) \in Seq(Links \cap X)
    BY <1>3, OnlyType
  <2> QED
    BY <2>1, ConcatEmptySeq
<1>11. Only(SortedLinks, X) = Only(SortedLinks', X)
  BY <1>5, <1>7, <1>8, <1>9, <1>10
<1> QED
  BY <1>11 DEF X

\* What LinksKeepTheirPlaces says of a step.
PlacesKept ==
    \A was \in {SortedLinks}, is \in {SortedLinks'} :
       \E m \in {NoLink} \cup ToSet(was) :
          LET others == (ToSet(was) \cap ToSet(is)) \ {m}
          IN /\ Only(was, others) = Only(is, others)
             /\ m = NoLink \/ Dragged(m)

\* Where all keep their places, so do all but one.
LEMMA NoneDragged ==
    ASSUME LayoutIInv, LayoutIInv', Only(SortedLinks, Staying) = Only(SortedLinks', Staying)
    PROVE  PlacesKept
<1> DEFINE X == Staying \ {NoLink}
           is == SortedLinks'
<1>1. SortedLinks \in Seq(Links)
  BY SortedLinksIs
<1>2. is \in Seq(Links)
  <2> DEFINE o == linkOrder'
             a == Only(Announced, announced') \o customLinks'
  <2>1. o \in Seq(Links) /\ a \in Seq(Links)
    BY ShownLinks DEF LayoutIInv, LayoutTypeOK, Links
  <2>2. is = InOrder(o, a)
    BY DEF SortedLinks, QuickLinks, InOrder
  <2> HIDE DEF o, a, is
  <2> QED
    BY <2>1, <2>2, Ordered
<1>3. Only(Only(SortedLinks, Staying), X) = Only(SortedLinks, Staying \cap X)
  BY <1>1, OnlyTwice
<1>4. Only(Only(is, Staying), X) = Only(is, Staying \cap X)
  <2> HIDE DEF is
  <2> QED
    BY <1>2, OnlyTwice
<1>5. Staying \cap X = X
  OBVIOUS
<1>6. Only(SortedLinks, X) = Only(SortedLinks', X)
  BY <1>3, <1>4, <1>5
<1> QED
  BY <1>6 DEF PlacesKept, Staying

\* Nor does any other step: the links that stay keep their order.
LEMMA PlacesStep ==
    ASSUME LayoutIInv, LayoutIInv', LayoutNext
    PROVE  PlacesKept
<1>1. ASSUME NEW i \in DOMAIN SortedLinks, NEW j \in DOMAIN SortedLinks, ReorderQuickLinks(i, j)
      PROVE  PlacesKept
  <2> DEFINE m == SortedLinks[i]
  <2>1. m \in ToSet(SortedLinks)
    BY DEF ToSet
  <2>2. Dragged(m)
    BY <1>1 DEF Dragged
  <2>3. Only(SortedLinks, Staying \ {m}) = Only(SortedLinks', Staying \ {m})
    BY <1>1, DragKeepsPlaces
  <2> HIDE DEF m
  <2> QED
    BY <2>1, <2>2, <2>3 DEF PlacesKept, Staying
<1>2. ASSUME UNCHANGED <<announced, linkOrder, customLinks>> PROVE PlacesKept
  <2>1. SortedLinks' = SortedLinks
    BY <1>2 DEF SortedLinks, QuickLinks
  <2> QED
    BY <2>1, NoneDragged
<1>3. ASSUME NEW l \in CustomIds, HandleAddLink(l) PROVE PlacesKept
  BY <1>3, AddKeepsPlaces, NoneDragged
<1>4. ASSUME NEW l \in ToSet(customLinks), RemoveCustomLink(l) PROVE PlacesKept
  BY <1>4, RemoveKeepsPlaces, NoneDragged
<1>5. ASSUME NEW links \in SUBSET ToSet(Announced), OutputsArrive(links) PROVE PlacesKept
  BY <1>5, AnswerKeepsPlaces, NoneDragged
<1>6. ASSUME \/ HandleAddClick \/ CloseLinkDialog
             \/ \E l \in ToSet(customLinks) : HandleEditClick(l)
             \/ \E i, j \in DOMAIN EffectiveOrder : ReorderSections(i, j)
      PROVE  UNCHANGED <<announced, linkOrder, customLinks>>
  BY <1>6 DEF HandleAddClick, CloseLinkDialog, HandleEditClick, ReorderSections
<1> QED
  BY <1>1, <1>2, <1>3, <1>4, <1>5, <1>6 DEF LayoutNext

\* Links that stay keep their places among each other, whichever links are
\* announced, added, removed or gone (QuickLinksSection.tsx); a drag moves one.
THEOREM StayingLinksKeepTheirPlaces == LayoutSpec => LinksKeepTheirPlaces
<1>1. LayoutIInv /\ LayoutIInv' /\ [LayoutNext]_layoutVars => [PlacesKept]_layoutVars
  BY PlacesStep
<1> QED
  BY <1>1, LayoutInvariance, PTL DEF LayoutSpec, LinksKeepTheirPlaces, PlacesKept

-----------------------------------------------------------------------------
(***************************************************************************)
(* The pages side by side                                                  *)
(***************************************************************************)

\* What one page does leaves the others as they are.
LEMMA OnePageMoves ==
    ASSUME [ClientNext]_clientVars
    PROVE  /\ [DialogNext]_dialogVars
           /\ [SelectionNext]_selectionVars
           /\ [RefreshNext]_refreshVars
           /\ [RevealNext]_revealVars
           /\ [JobPageNext]_jobPageVars
           /\ [TerminalNext]_terminalVars
           /\ [FormNext]_formVars
           /\ [SessionNext]_sessionVars
           /\ [RunNext]_runVars
           /\ [LayoutNext]_layoutVars
<1>1. CASE ClientNext
  <2>1. OthersRest
    BY <1>1 DEF ClientNext
  <2>2. (part = "dialog" /\ DialogNext) \/ UNCHANGED dialogVars
    BY <1>1, <2>1 DEF ClientNext, OthersRest
  <2>3. (part = "selection" /\ SelectionNext) \/ UNCHANGED selectionVars
    BY <1>1, <2>1 DEF ClientNext, OthersRest
  <2>4. (part = "refresh" /\ RefreshNext) \/ UNCHANGED refreshVars
    BY <1>1, <2>1 DEF ClientNext, OthersRest
  <2>5. (part = "secret" /\ RevealNext) \/ UNCHANGED revealVars
    BY <1>1, <2>1 DEF ClientNext, OthersRest
  <2>6. (part = "job" /\ JobPageNext) \/ UNCHANGED jobPageVars
    BY <1>1, <2>1 DEF ClientNext, OthersRest
  <2>7. (part = "terminal" /\ TerminalNext) \/ UNCHANGED terminalVars
    BY <1>1, <2>1 DEF ClientNext, OthersRest
  <2>8. (part = "form" /\ FormNext) \/ UNCHANGED formVars
    BY <1>1, <2>1 DEF ClientNext, OthersRest
  <2>9. (part = "session" /\ SessionNext) \/ UNCHANGED sessionVars
    BY <1>1, <2>1 DEF ClientNext, OthersRest
  <2>10. (part = "script" /\ RunNext) \/ UNCHANGED runVars
    BY <1>1, <2>1 DEF ClientNext, OthersRest
  <2>11. (part = "layout" /\ LayoutNext) \/ UNCHANGED layoutVars
    BY <1>1, <2>1 DEF ClientNext, OthersRest
  <2> QED
    BY <2>2, <2>3, <2>4, <2>5, <2>6, <2>7, <2>8, <2>9, <2>10, <2>11
<1>2. CASE UNCHANGED clientVars
  BY <1>2 DEF clientVars
<1> QED
  BY <1>1, <1>2

\* Every behaviour of the pages together is one of each page, but for the
\* fairness of the job page, which is stated for when it is the one that moves.
THEOREM PagesSideBySide ==
    ClientSpec => /\ DialogSpec /\ SelectionSpec /\ RevealSpec /\ TerminalSpec
                  /\ FormSpec /\ SessionSpec /\ RunSpec /\ LayoutSpec
                  /\ RefreshInit /\ [][RefreshNext]_refreshVars
                  /\ JobPageInit /\ [][JobPageNext]_jobPageVars
<1>1. ClientInit => /\ DialogInit /\ SelectionInit /\ RevealInit /\ TerminalInit
                    /\ FormInit /\ SessionInit /\ RunInit /\ LayoutInit
                    /\ RefreshInit /\ JobPageInit
  BY DEF ClientInit
<1> QED
  BY <1>1, OnePageMoves, PTL
     DEF ClientSpec, DialogSpec, SelectionSpec, RevealSpec, TerminalSpec, FormSpec,
         SessionSpec, RunSpec, LayoutSpec

PartOK == part \in Parts

\* Which of the machines the pages follow is chosen at the start.
LEMMA PartStays ==
    ASSUME PartOK, [ClientNext]_clientVars
    PROVE  PartOK'
BY DEF PartOK, ClientNext, OthersRest, clientVars

\* The types of every page, while any of them moves.
THEOREM ClientTypes == ClientSpec => []ClientTypeOK
<1>1. ClientSpec => []PartOK
  <2>1. ClientInit => PartOK
    BY DEF ClientInit, PartOK
  <2> QED
    BY <2>1, PartStays, PTL DEF ClientSpec
<1>2. RefreshIInv => RefreshTypeOK
  BY DEF RefreshIInv
<1>3. RevealIInv => RevealTypeOK
  BY DEF RevealIInv
<1>4. ASSUME RunIInv PROVE RunTypeOK
  <2>1. ASSUME NEW n \in DOMAIN inputs PROVE ToSet(inputs[n]) \subseteq Items
    <3>1. inputs[n] \in Seq(Items)
      BY <1>4 DEF RunIInv, RunTypes
    <3> QED
      BY <3>1, ToSetType
  <2>2. window = "inputs" => DOMAIN inputs = Names(script)
    BY <1>4 DEF RunIInv, WindowOK, InputsFit
  <2> QED
    BY <1>4, <2>1, <2>2 DEF RunIInv, RunTypes, RunTypeOK
<1>5. LayoutIInv => LayoutTypeOK
  BY DEF LayoutIInv
<1>6. PartOK /\ DialogTypeOK /\ SelectionTypeOK /\ RefreshTypeOK /\ RevealTypeOK
      /\ JobPageTypeOK /\ TerminalTypeOK /\ FormTypeOK /\ SessionTypeOK /\ RunTypeOK
      /\ LayoutTypeOK => ClientTypeOK
  BY DEF ClientTypeOK, PartOK
<1> QED
  BY <1>1, <1>2, <1>3, <1>4, <1>5, <1>6, PagesSideBySide, DialogTypes, SelectionTypes,
     RefreshInvariance, RevealInvariance, JobPageTypes, TerminalTypes, FormTypes,
     SessionTypes, RunInvariance, LayoutInvariance, PTL

\* The safety of every page, whichever of them moves: what the run of the pages
\* checks on a small instance, for every value of the constants.
THEOREM PagesAreSafe ==
    ClientSpec => /\ []SentForItsTarget /\ []BulkHitsMeant /\ []RefreshedShowsTheCloud
                  /\ []AsksForTheLast /\ []ShowsItsOwnJob /\ []OneSocket
                  /\ []SavedUnderItsTarget /\ []OwnWhileAlone /\ []ShownIsSaved
                  /\ []InputsArrive
                  /\ OpensAfterCheck /\ TypedIsKept /\ LinksKeepTheirPlaces
<1>1. RefreshIInv => RefreshedShowsTheCloud
  BY DEF RefreshIInv, ToastOK, RefreshedShowsTheCloud
<1>2. PageIInv => ShowsItsOwnJob
  BY DEF PageIInv
<1> QED
  BY <1>1, <1>2, PagesSideBySide, RefreshInvariance, JobPageInvariance,
     DialogsSendWhatTheyShow, BulkHitsWhatWasTicked, AsksCorrect, NoSocketLeft,
     SavedWhereRead, OwnPreferences, ShownPreferences, InputsReachTheScript,
     OpensCorrect, TypingKept, StayingLinksKeepTheirPlaces, PTL
=============================================================================

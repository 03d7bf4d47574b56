---------------------------- MODULE RecallProofs ----------------------------
(***************************************************************************)
(* Proofs about what agents remember and look up: about Memory, for any      *)
(* tenants, sessions, entries and requests and a window of any size; and      *)
(* about Knowledge and its chunker, for any documents, texts, chunk sizes,    *)
(* uploads and queries.  What loops compute is shown by induction: their      *)
(* iterations are recursive functions, which the first lemmas unfold.         *)
(***************************************************************************)
EXTENDS Memory, Knowledge, SequenceTheorems, FiniteSetTheorems, WellFoundedInduction, TLAPS

-----------------------------------------------------------------------------
(***************************************************************************)
(* Induction.  The least number for which something fails: what is shown of   *)
(* n when it is given of every smaller number holds of every number.         *)
(***************************************************************************)
LEMMA LeastNumber ==
    ASSUME NEW T \in SUBSET Nat, T # {}
    PROVE  \E n \in T : \A m \in T : n <= m
<1> DEFINE R == {ss \in Nat \X Nat : ss[1] < ss[2]}
<1>1. IsWellFoundedOn(R, Nat)
  BY NatLessThanWellFounded DEF OpToRel
<1>2. \E x \in T : \A y \in T : <<y, x>> \notin R
  <2> HIDE DEF R
  <2> QED BY <1>1, WFMin
<1>3. PICK n \in T : \A m \in T : <<m, n>> \notin R
  BY <1>2
<1>4. ASSUME NEW m \in T PROVE n <= m
  <2>1. m \in Nat /\ n \in Nat /\ <<m, n>> \in Nat \X Nat
    OBVIOUS
  <2>2. ~ (<<m, n>>[1] < <<m, n>>[2])
    BY <1>3, <2>1
  <2> QED BY <2>1, <2>2
<1> QED BY <1>4

\* The form in which it is used below, about the numbers up to a bound.
LEMMA UpTo ==
    ASSUME NEW N \in Nat, NEW T \in SUBSET (0 .. N), 0 \in T,
           \A n \in 1 .. N : n - 1 \in T => n \in T
    PROVE  T = 0 .. N
<1> DEFINE Bad == (0 .. N) \ T
<1>1. CASE Bad # {}
  <2>1. Bad \in SUBSET Nat
    OBVIOUS
  <2>2. PICK n \in Bad : \A m \in Bad : n <= m
    <3> HIDE DEF Bad
    <3> QED BY <1>1, <2>1, LeastNumber
  <2>3. n \in 1 .. N /\ n - 1 \in 0 .. N /\ n - 1 \notin Bad
    BY <2>2
  <2> QED BY <2>2, <2>3
<1> QED BY <1>1

\* A function that is defined step by step, each value in S, exists.
Iterates(N, S, start, F) ==
    \E f \in [0 .. N -> S] : f[0] = start /\ \A n \in 1 .. N : f[n] = F[<<f[n - 1], n>>]

LEMMA Iteration ==
    ASSUME NEW N \in Nat, NEW S, NEW start \in S, NEW F \in [S \X (1 .. N) -> S]
    PROVE  Iterates(N, S, start, F)
<1> DEFINE Is(f, m) == f[0] = start /\ \A n \in 1 .. m : f[n] = F[<<f[n - 1], n>>]
           Upto(m) == \E f \in [0 .. m -> S] : Is(f, m)
           T == {m \in 0 .. N : Upto(m)}
<1>1. Upto(0)
  <2> DEFINE f == [n \in 0 .. 0 |-> start]
  <2>1. f \in [0 .. 0 -> S] /\ Is(f, 0)
    OBVIOUS
  <2> HIDE DEF f, Is
  <2> QED BY <2>1
<1>2. ASSUME NEW m \in 1 .. N, Upto(m - 1) PROVE Upto(m)
  <2>1. PICK g \in [0 .. m - 1 -> S] : Is(g, m - 1)
    BY <1>2
  <2> DEFINE last == F[<<g[m - 1], m>>]
             f == [n \in 0 .. m |-> IF n = m THEN last ELSE g[n]]
  <2>2. m - 1 \in 0 .. m - 1 /\ m \in 0 .. m
    OBVIOUS
  <2>3. last \in S
    <3>1. <<g[m - 1], m>> \in S \X (1 .. N)
      BY <2>2
    <3> QED BY <3>1
  <2> HIDE DEF last
  <2>4. f \in [0 .. m -> S]
    BY <2>3
  <2>5. f[m] = last /\ \A n \in 0 .. m - 1 : f[n] = g[n]
    OBVIOUS
  <2> HIDE DEF f
  <2>6. f[0] = start
    BY <2>1, <2>5
  <2>7. ASSUME NEW n \in 1 .. m PROVE f[n] = F[<<f[n - 1], n>>]
    <3>1. n - 1 \in 0 .. m - 1 /\ f[n - 1] = g[n - 1]
      BY <2>5
    <3>2. CASE n = m
      BY <2>5, <3>1, <3>2 DEF last
    <3>3. CASE n \in 1 .. m - 1
      <4>1. f[n] = g[n]
        BY <2>5, <3>3
      <4>2. g[n] = F[<<g[n - 1], n>>]
        BY <2>1, <3>3
      <4> QED BY <3>1, <4>1, <4>2
    <3> QED BY <3>2, <3>3
  <2> QED BY <2>4, <2>6, <2>7
<1>3. T = 0 .. N
  <2> HIDE DEF Upto
  <2>1. 0 \in T /\ T \in SUBSET (0 .. N)
    BY <1>1
  <2>2. ASSUME NEW m \in 1 .. N, m - 1 \in T PROVE m \in T
    BY <2>2, <1>2
  <2> HIDE DEF T
  <2> QED BY <2>1, <2>2, UpTo
<1>4. Upto(N)
  <2>1. N \in 0 .. N
    OBVIOUS
  <2> HIDE DEF Upto
  <2> QED BY <1>3, <2>1
<1> QED BY <1>4 DEF Iterates

-----------------------------------------------------------------------------
(***************************************************************************)
(* The loop of module Filter.                                              *)
(***************************************************************************)

\* The function of the loop exists and does what its body says.
LEMMA KeptAfterDef ==
    ASSUME NEW seq, Len(seq) \in Nat, NEW S
    PROVE  /\ KeptAfter(seq, S)[0] = <<>>
           /\ \A n \in 1 .. Len(seq) :
                KeptAfter(seq, S)[n] = IF seq[n] \in S THEN Append(KeptAfter(seq, S)[n - 1], seq[n])
                                                       ELSE KeptAfter(seq, S)[n - 1]
<1> DEFINE N == Len(seq)
           A == Seq({seq[i] : i \in 1 .. N})
           F == [x \in A \X (1 .. N) |-> IF seq[x[2]] \in S THEN Append(x[1], seq[x[2]]) ELSE x[1]]
           Body(f, n) == IF n = 0 THEN <<>>
                         ELSE IF seq[n] \in S THEN Append(f[n - 1], seq[n])
                         ELSE f[n - 1]
           k == KeptAfter(seq, S)
<1>1. F \in [A \X (1 .. N) -> A] /\ << >> \in A /\ N \in Nat
  OBVIOUS
<1>2. \A kept \in A, n \in 1 .. N : F[<<kept, n>>] = IF seq[n] \in S THEN Append(kept, seq[n]) ELSE kept
  OBVIOUS
<1> HIDE DEF A, F
<1>3. PICK f \in [0 .. N -> A] : f[0] = << >> /\ \A n \in 1 .. N : f[n] = F[<<f[n - 1], n>>]
  <2>1. Iterates(N, A, << >>, F)
    <3> HIDE DEF N
    <3> QED BY <1>1, Iteration
  <2> QED BY <2>1 DEF Iterates
<1>4. \A n \in 0 .. N : f[n] = Body(f, n)
  <2>1. ASSUME NEW n \in 1 .. N PROVE f[n] = Body(f, n)
    <3>1. n - 1 \in 0 .. N /\ n # 0
      OBVIOUS
    <3>2. f[n - 1] \in A
      BY <3>1
    <3> QED BY <3>1, <3>2, <1>2, <1>3
  <2>2. \A n \in 0 .. N : n = 0 \/ n \in 1 .. N
    BY <1>1
  <2> HIDE DEF N
  <2> QED BY <1>3, <2>1, <2>2
<1>5. f = [n \in 0 .. N |-> Body(f, n)]
  <2> HIDE DEF Body
  <2> QED BY <1>4
<1>6. k = CHOOSE g : g = [n \in 0 .. N |-> Body(g, n)]
  BY DEF KeptAfter
<1>7. k = [n \in 0 .. N |-> Body(k, n)]
  <2> HIDE DEF k, Body
  <2> QED BY <1>5, <1>6
<1>8. \A n \in 0 .. N : k[n] = Body(k, n)
  <2> HIDE DEF k, Body
  <2> QED BY <1>7
<1> QED BY <1>1, <1>8

LEMMA SetOfAppend ==
    ASSUME NEW A, NEW seq \in Seq(A), NEW e \in A
    PROVE  ToSet(Append(seq, e)) = ToSet(seq) \cup {e}
<1>1. /\ DOMAIN seq = 1 .. Len(seq) /\ DOMAIN Append(seq, e) = 1 .. Len(seq) + 1
      /\ Append(seq, e)[Len(seq) + 1] = e /\ Len(seq) \in Nat
      /\ \A i \in 1 .. Len(seq) : Append(seq, e)[i] = seq[i]
  OBVIOUS
<1>2. ASSUME NEW x \in ToSet(Append(seq, e)) PROVE x \in ToSet(seq) \cup {e}
  BY <1>1, <1>2 DEF ToSet
<1>3. ASSUME NEW x \in ToSet(seq) PROVE x \in ToSet(Append(seq, e))
  <2>1. PICK i \in 1 .. Len(seq) : x = seq[i]
    BY <1>1, <1>3 DEF ToSet
  <2>2. i \in DOMAIN Append(seq, e) /\ x = Append(seq, e)[i]
    BY <1>1, <2>1
  <2> QED BY <2>2 DEF ToSet
<1>4. e \in ToSet(Append(seq, e))
  BY <1>1 DEF ToSet
<1> QED BY <1>2, <1>3, <1>4

\* What the loop has kept after n iterations, and the whole of it.
LEMMA KeptTypes ==
    ASSUME NEW A, NEW seq \in Seq(A), NEW S
    PROVE  \A n \in 0 .. Len(seq) :
             LET k == KeptAfter(seq, S)[n]
             IN  /\ k \in Seq(A)
                 /\ ToSet(k) = {seq[i] : i \in 1 .. n} \cap S
                 /\ Len(k) <= n
                 /\ Len(k) > 0 => \E i \in 1 .. n : k[1] = seq[i] /\ Len(k) <= n - i + 1
<1> DEFINE k(n) == KeptAfter(seq, S)[n]
           P(n) == /\ k(n) \in Seq(A)
                   /\ ToSet(k(n)) = {seq[i] : i \in 1 .. n} \cap S
                   /\ Len(k(n)) <= n
                   /\ Len(k(n)) > 0 => \E i \in 1 .. n : k(n)[1] = seq[i] /\ Len(k(n)) <= n - i + 1
           T == {n \in 0 .. Len(seq) : P(n)}
<1>1. /\ k(0) = <<>>
      /\ \A n \in 1 .. Len(seq) :
           k(n) = IF seq[n] \in S THEN Append(k(n - 1), seq[n]) ELSE k(n - 1)
  BY KeptAfterDef
<1> HIDE DEF k
<1>2. P(0)
  <2>1. k(0) = << >> /\ ToSet(<< >>) = {} /\ {seq[i] : i \in 1 .. 0} = {}
    BY <1>1 DEF ToSet
  <2>2. << >> \in Seq(A) /\ Len(<< >>) = 0
    OBVIOUS
  <2>3. ToSet(k(0)) = {seq[i] : i \in 1 .. 0} \cap S
    BY <2>1
  <2>4. k(0) \in Seq(A) /\ Len(k(0)) = 0
    BY <2>1, <2>2, Zenon
  <2>5. Len(k(0)) <= 0 /\ ~ (Len(k(0)) > 0)
    BY <2>4
  <2> QED BY <2>3, <2>4, <2>5, Zenon
<1>3. ASSUME NEW n \in 1 .. Len(seq), P(n - 1) PROVE P(n)
  <2>1. {seq[i] : i \in 1 .. n} = {seq[i] : i \in 1 .. n - 1} \cup {seq[n]}
    OBVIOUS
  <2>2. CASE seq[n] \notin S
    <3>1. k(n) = k(n - 1)
      BY <1>1, <2>2
    <3>2. ToSet(k(n)) = {seq[i] : i \in 1 .. n} \cap S
      BY <3>1, <1>3, <2>1, <2>2
    <3>3. Len(k(n)) > 0 => \E i \in 1 .. n : k(n)[1] = seq[i] /\ Len(k(n)) <= n - i + 1
      <4>1. SUFFICES ASSUME Len(k(n)) > 0
                     PROVE  \E i \in 1 .. n : k(n)[1] = seq[i] /\ Len(k(n)) <= n - i + 1
        OBVIOUS
      <4>2. PICK i \in 1 .. n - 1 : k(n - 1)[1] = seq[i] /\ Len(k(n - 1)) <= n - 1 - i + 1
        BY <4>1, <3>1, <1>3
      <4>3. i \in 1 .. n /\ Len(k(n)) <= n - i + 1
        BY <4>2, <3>1, <1>3
      <4> QED BY <4>2, <4>3, <3>1
    <3>4. k(n) \in Seq(A) /\ Len(k(n)) <= n
      BY <3>1, <1>3
    <3> QED BY <3>2, <3>3, <3>4
  <2>3. CASE seq[n] \in S
    <3>1. k(n) = Append(k(n - 1), seq[n]) /\ seq[n] \in A /\ k(n - 1) \in Seq(A)
      BY <1>1, <2>3, <1>3
    <3>2. k(n) \in Seq(A) /\ Len(k(n)) = Len(k(n - 1)) + 1
      BY <3>1
    <3>3. ToSet(k(n)) = ToSet(k(n - 1)) \cup {seq[n]}
      BY <3>1, SetOfAppend
    <3>4. ToSet(k(n)) = {seq[i] : i \in 1 .. n} \cap S
      BY <3>3, <2>1, <2>3, <1>3
    <3>5. \E i \in 1 .. n : k(n)[1] = seq[i] /\ Len(k(n)) <= n - i + 1
      <4>1. CASE Len(k(n - 1)) = 0
        BY <4>1, <3>1, <3>2
      <4>2. CASE Len(k(n - 1)) > 0
        <5>1. PICK i \in 1 .. n - 1 : k(n - 1)[1] = seq[i] /\ Len(k(n - 1)) <= n - 1 - i + 1
          BY <4>2, <1>3
        <5>2. k(n)[1] = k(n - 1)[1]
          BY <4>2, <3>1
        <5> QED BY <5>1, <5>2, <3>2
      <4>3. Len(k(n - 1)) \in Nat
        BY <3>1
      <4> QED BY <4>1, <4>2, <4>3
    <3>6. Len(k(n)) <= n
      BY <3>2, <3>1, <1>3
    <3> QED BY <3>2, <3>4, <3>5, <3>6
  <2> QED BY <2>2, <2>3
<1>4. T = 0 .. Len(seq)
  <2>1. 0 \in T /\ T \in SUBSET (0 .. Len(seq))
    BY <1>2
  <2>2. ASSUME NEW n \in 1 .. Len(seq), n - 1 \in T PROVE n \in T
    <3> HIDE DEF P
    <3> QED BY <2>2, <1>3
  <2> HIDE DEF T
  <2> QED BY <2>1, <2>2, UpTo
<1>5. \A n \in 0 .. Len(seq) : P(n)
  <2> HIDE DEF P
  <2> QED BY <1>4
<1> QED BY <1>5 DEF k

LEMMA KeepTypes ==
    ASSUME NEW A, NEW seq \in Seq(A), NEW S
    PROVE  /\ Keep(seq, S) \in Seq(A)
           /\ ToSet(Keep(seq, S)) = ToSet(seq) \cap S
           /\ Len(Keep(seq, S)) <= Len(seq)
           /\ Len(Keep(seq, S)) > 0 =>
                \E i \in 1 .. Len(seq) :
                  Keep(seq, S)[1] = seq[i] /\ Len(Keep(seq, S)) <= Len(seq) - i + 1
<1>1. Len(seq) \in 0 .. Len(seq)
  OBVIOUS
<1>2. ToSet(seq) = {seq[i] : i \in 1 .. Len(seq)}
  BY DEF ToSet
<1> DEFINE k(n) == KeptAfter(seq, S)[n]
           P(n) == /\ k(n) \in Seq(A)
                   /\ ToSet(k(n)) = {seq[i] : i \in 1 .. n} \cap S
                   /\ Len(k(n)) <= n
                   /\ Len(k(n)) > 0 => \E i \in 1 .. n : k(n)[1] = seq[i] /\ Len(k(n)) <= n - i + 1
<1>3. P(Len(seq))
  <2>1. \A n \in 0 .. Len(seq) : P(n)
    BY KeptTypes, Zenon
  <2> HIDE DEF P
  <2> QED BY <1>1, <2>1
<1> QED BY <1>2, <1>3 DEF Keep

\* Two loops that agree on the elements they meet keep the same, up to every point.
LEMMA KeptSame ==
    ASSUME NEW A, NEW seq \in Seq(A), NEW longer \in Seq(A), NEW S, NEW R,
           Len(seq) <= Len(longer),
           \A i \in 1 .. Len(seq) : longer[i] = seq[i] /\ (seq[i] \in S <=> seq[i] \in R)
    PROVE  \A n \in 0 .. Len(seq) : KeptAfter(longer, R)[n] = KeptAfter(seq, S)[n]
<1> DEFINE P(n) == KeptAfter(longer, R)[n] = KeptAfter(seq, S)[n]
           T == {n \in 0 .. Len(seq) : P(n)}
<1>0. Len(seq) \in Nat /\ Len(longer) \in Nat
  OBVIOUS
<1>1. /\ KeptAfter(seq, S)[0] = <<>>
      /\ \A n \in 1 .. Len(seq) :
           KeptAfter(seq, S)[n] = IF seq[n] \in S THEN Append(KeptAfter(seq, S)[n - 1], seq[n])
                                                  ELSE KeptAfter(seq, S)[n - 1]
  BY <1>0, KeptAfterDef
<1>2. /\ KeptAfter(longer, R)[0] = <<>>
      /\ \A n \in 1 .. Len(longer) :
           KeptAfter(longer, R)[n] = IF longer[n] \in R
                                     THEN Append(KeptAfter(longer, R)[n - 1], longer[n])
                                     ELSE KeptAfter(longer, R)[n - 1]
  BY <1>0, KeptAfterDef
<1>3. P(0)
  BY <1>1, <1>2
<1>4. ASSUME NEW n \in 1 .. Len(seq), P(n - 1) PROVE P(n)
  <2>1. n \in 1 .. Len(longer)
    BY <1>0
  <2> QED BY <1>1, <1>2, <1>4, <2>1
<1>5. T = 0 .. Len(seq)
  <2> HIDE DEF P
  <2>1. 0 \in T /\ T \in SUBSET (0 .. Len(seq))
    BY <1>3, <1>0
  <2>2. ASSUME NEW n \in 1 .. Len(seq), n - 1 \in T PROVE n \in T
    BY <2>2, <1>4
  <2> HIDE DEF T
  <2> QED BY <2>1, <2>2, <1>0, UpTo
<1> QED BY <1>5

LEMMA KeepSame ==
    ASSUME NEW A, NEW seq \in Seq(A), NEW S, NEW R, ToSet(seq) \cap S = ToSet(seq) \cap R
    PROVE  Keep(seq, S) = Keep(seq, R)
<1>1. \A i \in 1 .. Len(seq) : seq[i] \in ToSet(seq)
  BY DEF ToSet
<1>2. \A n \in 0 .. Len(seq) : KeptAfter(seq, R)[n] = KeptAfter(seq, S)[n]
  BY <1>1, KeptSame
<1> QED BY <1>2 DEF Keep

LEMMA KeepAppend ==
    ASSUME NEW A, NEW seq \in Seq(A), NEW e \in A, NEW S
    PROVE  Keep(Append(seq, e), S) = IF e \in S THEN Append(Keep(seq, S), e) ELSE Keep(seq, S)
<1> DEFINE longer == Append(seq, e)
<1>1. /\ longer \in Seq(A) /\ Len(longer) = Len(seq) + 1 /\ longer[Len(seq) + 1] = e
      /\ Len(seq) \in Nat /\ \A i \in 1 .. Len(seq) : longer[i] = seq[i]
  OBVIOUS
<1> HIDE DEF longer
<1>2. KeptAfter(longer, S)[Len(seq)] = KeptAfter(seq, S)[Len(seq)]
  BY <1>1, KeptSame
<1>3. \A n \in 1 .. Len(longer) :
           KeptAfter(longer, S)[n] = IF longer[n] \in S
                                     THEN Append(KeptAfter(longer, S)[n - 1], longer[n])
                                     ELSE KeptAfter(longer, S)[n - 1]
  BY <1>1, KeptAfterDef
<1>4. Len(seq) + 1 \in 1 .. Len(longer) /\ (Len(seq) + 1) - 1 = Len(seq)
  BY <1>1
<1>5. KeptAfter(longer, S)[Len(seq) + 1] = IF e \in S THEN Append(KeptAfter(seq, S)[Len(seq)], e)
                                                     ELSE KeptAfter(seq, S)[Len(seq)]
  BY <1>1, <1>2, <1>3, <1>4
<1> QED BY <1>1, <1>5 DEF Keep, longer

LEMMA KeepEmpty == ASSUME NEW S PROVE Keep(<< >>, S) = << >>
<1>1. Len(<< >>) = 0
  OBVIOUS
<1> QED BY <1>1, KeptAfterDef DEF Keep

\* A loop over what another loop has kept.
LEMMA KeepTwice ==
    ASSUME NEW A, NEW seq \in Seq(A), NEW S, NEW R
    PROVE  Keep(Keep(seq, S), R) = Keep(seq, S \cap R)
<1> DEFINE P(n) == Keep(KeptAfter(seq, S)[n], R) = KeptAfter(seq, S \cap R)[n]
           T == {n \in 0 .. Len(seq) : P(n)}
<1>1. /\ KeptAfter(seq, S)[0] = <<>>
      /\ \A n \in 1 .. Len(seq) :
           KeptAfter(seq, S)[n] = IF seq[n] \in S THEN Append(KeptAfter(seq, S)[n - 1], seq[n])
                                                  ELSE KeptAfter(seq, S)[n - 1]
  BY KeptAfterDef
<1>2. /\ KeptAfter(seq, S \cap R)[0] = <<>>
      /\ \A n \in 1 .. Len(seq) :
           KeptAfter(seq, S \cap R)[n] =
             IF seq[n] \in S \cap R THEN Append(KeptAfter(seq, S \cap R)[n - 1], seq[n])
                                    ELSE KeptAfter(seq, S \cap R)[n - 1]
  BY KeptAfterDef
<1>3. P(0)
  BY <1>1, <1>2, KeepEmpty
<1>4. ASSUME NEW n \in 1 .. Len(seq), P(n - 1) PROVE P(n)
  <2>1. KeptAfter(seq, S)[n - 1] \in Seq(A) /\ seq[n] \in A
    BY KeptTypes
  <2>2. CASE seq[n] \in S
    <3>1. Keep(Append(KeptAfter(seq, S)[n - 1], seq[n]), R) =
            IF seq[n] \in R THEN Append(Keep(KeptAfter(seq, S)[n - 1], R), seq[n])
                            ELSE Keep(KeptAfter(seq, S)[n - 1], R)
      <4> DEFINE k == KeptAfter(seq, S)[n - 1]
                 e == seq[n]
      <4>1. k \in Seq(A) /\ e \in A
        BY <2>1
      <4> HIDE DEF k, e
      <4>2. Keep(Append(k, e), R) = IF e \in R THEN Append(Keep(k, R), e) ELSE Keep(k, R)
        BY <4>1, KeepAppend
      <4> QED BY <4>2 DEF k, e
    <3> QED BY <3>1, <2>2, <1>1, <1>2, <1>4
  <2>3. CASE seq[n] \notin S
    BY <2>3, <1>1, <1>2, <1>4
  <2> QED BY <2>2, <2>3
<1>5. T = 0 .. Len(seq)
  <2> HIDE DEF P
  <2>1. 0 \in T /\ T \in SUBSET (0 .. Len(seq))
    BY <1>3
  <2>2. ASSUME NEW n \in 1 .. Len(seq), n - 1 \in T PROVE n \in T
    BY <2>2, <1>4
  <2> HIDE DEF T
  <2> QED BY <2>1, <2>2, UpTo
<1>6. Len(seq) \in 0 .. Len(seq)
  OBVIOUS
<1>7. P(Len(seq))
  <2> HIDE DEF P
  <2> QED BY <1>5, <1>6
<1> QED BY <1>7 DEF Keep

\* Each element once.
Once(seq) == \A i, j \in 1 .. Len(seq) : seq[i] = seq[j] => i = j

LEMMA OnceAppend ==
    ASSUME NEW A, NEW seq \in Seq(A), NEW e \in A, Once(seq), e \notin ToSet(seq)
    PROVE  Once(Append(seq, e))
<1>1. /\ Len(Append(seq, e)) = Len(seq) + 1 /\ Len(seq) \in Nat
      /\ Append(seq, e)[Len(seq) + 1] = e
      /\ \A i \in 1 .. Len(seq) : Append(seq, e)[i] = seq[i] /\ seq[i] # e
  BY DEF ToSet
<1>2. ASSUME NEW i \in 1 .. Len(seq) + 1, NEW j \in 1 .. Len(seq) + 1,
             Append(seq, e)[i] = Append(seq, e)[j]
      PROVE  i = j
  <2>1. i \in 1 .. Len(seq) \/ i = Len(seq) + 1
    BY <1>1
  <2>2. j \in 1 .. Len(seq) \/ j = Len(seq) + 1
    BY <1>1
  <2> QED BY <1>1, <1>2, <2>1, <2>2 DEF Once
<1> QED BY <1>1, <1>2 DEF Once

LEMMA OnceKeep ==
    ASSUME NEW A, NEW seq \in Seq(A), NEW S, Once(seq)
    PROVE  Once(Keep(seq, S))
<1> DEFINE k(n) == KeptAfter(seq, S)[n]
           P(n) == Once(k(n))
           T == {n \in 0 .. Len(seq) : P(n)}
<1>1. /\ k(0) = <<>>
      /\ \A n \in 1 .. Len(seq) :
           k(n) = IF seq[n] \in S THEN Append(k(n - 1), seq[n]) ELSE k(n - 1)
  BY KeptAfterDef
<1>2. ASSUME NEW n \in 1 .. Len(seq)
      PROVE  k(n - 1) \in Seq(A) /\ seq[n] \in A /\ seq[n] \notin ToSet(k(n - 1))
  <2> DEFINE Q(m) == /\ k(m) \in Seq(A)
                     /\ ToSet(k(m)) = {seq[i] : i \in 1 .. m} \cap S
                     /\ Len(k(m)) <= m
                     /\ Len(k(m)) > 0 => \E i \in 1 .. m : k(m)[1] = seq[i] /\ Len(k(m)) <= m - i + 1
  <2>0. Q(n - 1)
    <3>1. \A m \in 0 .. Len(seq) : Q(m)
      BY KeptTypes, Zenon
    <3> HIDE DEF Q
    <3> QED BY <3>1
  <2>1. k(n - 1) \in Seq(A) /\ ToSet(k(n - 1)) = {seq[i] : i \in 1 .. n - 1} \cap S
    BY <2>0
  <2>2. \A i \in 1 .. n - 1 : seq[i] # seq[n]
    BY DEF Once
  <2> QED BY <2>1, <2>2
<1> HIDE DEF k
<1>3. P(0)
  BY <1>1 DEF Once
<1>4. ASSUME NEW n \in 1 .. Len(seq), P(n - 1) PROVE P(n)
  <2>1. Once(Append(k(n - 1), seq[n]))
    BY <1>2, <1>4, OnceAppend
  <2> QED BY <2>1, <1>1, <1>4
<1>5. T = 0 .. Len(seq)
  <2> HIDE DEF P
  <2>1. 0 \in T /\ T \in SUBSET (0 .. Len(seq))
    BY <1>3
  <2>2. ASSUME NEW n \in 1 .. Len(seq), n - 1 \in T PROVE n \in T
    BY <2>2, <1>4
  <2> HIDE DEF T
  <2> QED BY <2>1, <2>2, UpTo
<1>6. Len(seq) \in 0 .. Len(seq)
  OBVIOUS
<1>7. P(Len(seq))
  <2> HIDE DEF P
  <2> QED BY <1>5, <1>6
<1> QED BY <1>7 DEF Keep, k

\* To keep all but the first is to leave the first out.
Rest(seq) == SubSeq(seq, 2, Len(seq))

LEMMA RestTypes ==
    ASSUME NEW A, NEW seq \in Seq(A), Len(seq) > 0
    PROVE  /\ Rest(seq) \in Seq(A) /\ Len(Rest(seq)) = Len(seq) - 1
           /\ \A i \in 1 .. Len(seq) - 1 : Rest(seq)[i] = seq[i + 1]
<1>1. Len(seq) \in Int /\ 2 \in Int /\ \A i \in 2 .. Len(seq) : seq[i] \in A
  OBVIOUS
<1>2. /\ Rest(seq) \in Seq(A)
      /\ Len(Rest(seq)) = IF 2 <= Len(seq) THEN Len(seq) - 2 + 1 ELSE 0
      /\ \A i \in 1 .. Len(seq) - 2 + 1 : Rest(seq)[i] = seq[2 + i - 1]
  BY <1>1, SubSeqProperties DEF Rest
<1>3. Len(Rest(seq)) = Len(seq) - 1
  <2>1. Len(seq) = 1 \/ 2 <= Len(seq)
    OBVIOUS
  <2> QED BY <1>1, <1>2, <2>1
<1>4. ASSUME NEW i \in 1 .. Len(seq) - 1 PROVE Rest(seq)[i] = seq[i + 1]
  <2>1. i \in 1 .. Len(seq) - 2 + 1 /\ 2 + i - 1 = i + 1
    BY <1>1
  <2> QED BY <2>1, <1>2
<1> QED BY <1>2, <1>3, <1>4

LEMMA KeepRest ==
    ASSUME NEW A, NEW seq \in Seq(A), Len(seq) > 0, Once(seq)
    PROVE  Keep(seq, ToSet(Rest(seq))) = Rest(seq)
<1> DEFINE S == ToSet(Rest(seq))
           P(n) == KeptAfter(seq, S)[n] = SubSeq(seq, 2, n)
           T == {n \in 0 .. Len(seq) : P(n)}
<1>1. ASSUME NEW x PROVE x \in S <=> \E i \in 2 .. Len(seq) : x = seq[i]
  <2>1. /\ Rest(seq) \in Seq(A) /\ Len(Rest(seq)) = Len(seq) - 1
        /\ \A i \in 1 .. Len(seq) - 1 : Rest(seq)[i] = seq[i + 1]
    BY RestTypes
  <2>2. DOMAIN Rest(seq) = 1 .. Len(seq) - 1
    BY <2>1
  <2>3. ASSUME NEW i \in 2 .. Len(seq), x = seq[i] PROVE x \in S
    <3>1. i - 1 \in 1 .. Len(seq) - 1 /\ Rest(seq)[i - 1] = seq[i]
      BY <2>1
    <3> QED BY <3>1, <2>2, <2>3 DEF ToSet
  <2>4. ASSUME x \in S PROVE \E i \in 2 .. Len(seq) : x = seq[i]
    <3>1. PICK i \in 1 .. Len(seq) - 1 : x = Rest(seq)[i]
      BY <2>2, <2>4 DEF ToSet
    <3>2. i + 1 \in 2 .. Len(seq) /\ x = seq[i + 1]
      BY <2>1, <3>1
    <3> QED BY <3>2
  <2> QED BY <2>3, <2>4
<1>2. seq[1] \notin S /\ \A n \in 2 .. Len(seq) : seq[n] \in S
  <2>1. \A i \in 2 .. Len(seq) : seq[i] # seq[1]
    BY DEF Once
  <2> HIDE DEF S
  <2> QED BY <1>1, <2>1
<1> HIDE DEF S
<1>3. /\ KeptAfter(seq, S)[0] = <<>>
      /\ \A n \in 1 .. Len(seq) :
           KeptAfter(seq, S)[n] = IF seq[n] \in S THEN Append(KeptAfter(seq, S)[n - 1], seq[n])
                                                  ELSE KeptAfter(seq, S)[n - 1]
  BY KeptAfterDef
<1>4. P(0)
  <2>1. SubSeq(seq, 2, 0) = << >>
    OBVIOUS
  <2> QED BY <1>3, <2>1
<1>5. ASSUME NEW n \in 1 .. Len(seq), P(n - 1) PROVE P(n)
  <2>1. CASE n = 1
    <3>1. SubSeq(seq, 2, 1) = << >> /\ SubSeq(seq, 2, 0) = << >>
      OBVIOUS
    <3> QED BY <2>1, <3>1, <1>2, <1>3, <1>5
  <2>2. CASE n \in 2 .. Len(seq)
    <3>1. Append(SubSeq(seq, 2, n - 1), seq[n]) = SubSeq(seq, 2, n)
      BY <2>2
    <3> QED BY <2>2, <3>1, <1>2, <1>3, <1>5
  <2> QED BY <2>1, <2>2
<1>6. T = 0 .. Len(seq)
  <2> HIDE DEF P
  <2>1. 0 \in T /\ T \in SUBSET (0 .. Len(seq))
    BY <1>4
  <2>2. ASSUME NEW n \in 1 .. Len(seq), n - 1 \in T PROVE n \in T
    BY <2>2, <1>5
  <2> HIDE DEF T
  <2> QED BY <2>1, <2>2, UpTo
<1>7. Len(seq) \in 0 .. Len(seq)
  OBVIOUS
<1>8. P(Len(seq))
  <2> HIDE DEF P
  <2> QED BY <1>6, <1>7
<1> QED BY <1>8 DEF Keep, S, Rest

\* The window after an addition.
LEMMA NewestAppend ==
    ASSUME NEW A, NEW seq \in Seq(A), NEW e \in A, NEW n \in Nat \ {0}, Len(seq) <= n
    PROVE  Newest(Append(seq, e), n) = IF Len(seq) = n THEN Append(Rest(seq), e)
                                                       ELSE Append(seq, e)
<1>1. Len(Append(seq, e)) = Len(seq) + 1 /\ Len(seq) \in Nat
  OBVIOUS
<1>2. CASE Len(seq) = n
  <2>1. Len(Append(seq, e)) > n /\ Len(Append(seq, e)) - n + 1 = 2
    BY <1>1, <1>2
  <2>2. SubSeq(Append(seq, e), 2, Len(seq) + 1) = Append(SubSeq(seq, 2, Len(seq)), e)
    BY <1>1, <1>2
  <2> QED BY <2>1, <2>2, <1>1, <1>2 DEF Newest, Rest
<1>3. CASE Len(seq) # n
  BY <1>1, <1>3 DEF Newest
<1> QED BY <1>2, <1>3

-----------------------------------------------------------------------------
(***************************************************************************)
(* The conversation memory.                                                *)
(***************************************************************************)
RequestType == [pc : {"idle", "lock", "rwait", "read", "release", "wwait", "write", "persist"},
                op : {"none", "add", "get", "search", "delete", "clear", "inspect"},
                tenant : Tenants \cup {None}, entry : Entries \cup {None},
                session : Sessions \cup {None}, result : Seq(Entries)]

\* An entry is added once.
WindowTypes == /\ window \in Seq(Entries)
               /\ added \in Seq(Entries)
               /\ Once(added)
               /\ req \in [Requests -> RequestType]

\* A request to add brings an entry that is new, until it has added it; two bring two.
\* One to delete has seen the entry of its tenant when it goes for the write lock; what
\* a search holds is what it was after.
RequestProper(r) ==
    /\ req[r].op = "add" =>
         /\ req[r].pc \in {"lock", "wwait", "write", "persist"}
         /\ req[r].entry \in Entries
         /\ req[r].pc # "persist" => req[r].entry \notin ToSet(added)
         /\ \A q \in Requests \ {r} : req[q].op = "add" => req[q].entry # req[r].entry
    /\ req[r].op = "delete" =>
         /\ req[r].entry \in ToSet(added)
         /\ req[r].pc \in {"lock", "wwait", "write"} => TenantOf[req[r].entry] = req[r].tenant
    /\ ToSet(req[r].result) \subseteq Wanted(req[r])
    /\ req[r].result # <<>> => req[r].pc = "release"

MemoryInv == /\ WindowTypes
             /\ \A r \in Requests : RequestProper(r)
             /\ dropped \subseteq ToSet(added)
             /\ KeptUntilPushedOut

LEMMA EmptySet ==
    ASSUME NEW A, NEW seq \in Seq(A)
    PROVE  ToSet(seq) = {} <=> seq = << >>
<1>1. DOMAIN seq = 1 .. Len(seq) /\ Len(seq) \in Nat
  OBVIOUS
<1>2. ASSUME seq # << >> PROVE ToSet(seq) # {}
  <2>1. 1 \in DOMAIN seq
    BY <1>2, <1>1
  <2> QED BY <2>1 DEF ToSet
<1>3. ToSet(<< >>) = {}
  BY DEF ToSet
<1> QED BY <1>2, <1>3

\* An addition: the newest entry comes in, and the oldest goes if the window was full.
LEMMA AddKeeps ==
    ASSUME WindowTypes, dropped \subseteq ToSet(added), KeptUntilPushedOut,
           NEW e \in Entries, e \notin ToSet(added),
           window' = Newest(Append(window, e), WindowSize),
           added' = Append(added, e), dropped' = dropped
    PROVE  KeptUntilPushedOut' /\ window' \in Seq(Entries) /\ added' \in Seq(Entries) /\ Once(added')
<1> DEFINE W == ToSet(window)
<1>1. /\ window \in Seq(Entries) /\ added \in Seq(Entries) /\ Once(added)
      /\ Len(window) \in Nat /\ Len(added) \in Nat
  BY DEF WindowTypes
<1>2. /\ Len(window) <= WindowSize
      /\ \A i \in 1 .. Len(added) :
           Len(added) - i < WindowSize /\ added[i] \notin dropped => added[i] \in W
      /\ \A d \in dropped : d \notin W
      /\ window = Keep(added, W)
  BY <1>1 DEF KeptUntilPushedOut
<1>3. WindowSize \in Nat \ {0}
  BY MemoryAssumption
<1>4. window' = IF Len(window) = WindowSize THEN Append(Rest(window), e) ELSE Append(window, e)
  BY <1>1, <1>2, <1>3, NewestAppend
<1>5. /\ added' \in Seq(Entries) /\ Len(added') = Len(added) + 1 /\ added'[Len(added) + 1] = e
      /\ \A i \in 1 .. Len(added) : added'[i] = added[i]
  BY <1>1
<1>6. Once(added')
  BY <1>1, OnceAppend
<1>7. dropped' = dropped /\ e \notin dropped
  OBVIOUS
<1>8. W \subseteq ToSet(added)
  BY <1>1, <1>2, KeepTypes
<1> DEFINE Stay(w) == /\ w \in Seq(Entries)
                      /\ Len(w) < WindowSize
                      /\ ToSet(w) \subseteq W
                      /\ w = Keep(added, ToSet(w))
                      /\ \A i \in 1 .. Len(added) :
                           Len(added) + 1 - i < WindowSize /\ added[i] \notin dropped
                             => added[i] \in ToSet(w)
<1>9. PICK w : Stay(w) /\ window' = Append(w, e)
  <2>1. CASE Len(window) # WindowSize
    <3>1. Stay(window)
      BY <2>1, <1>1, <1>2, <1>3
    <3> HIDE DEF Stay
    <3> QED BY <3>1, <2>1, <1>4
  <2>2. CASE Len(window) = WindowSize
    <3> DEFINE w == Rest(window)
    <3>1. Len(window) > 0
      BY <2>2, <1>3
    <3>2. /\ w \in Seq(Entries) /\ Len(w) = Len(window) - 1
          /\ \A i \in 1 .. Len(window) - 1 : w[i] = window[i + 1]
      BY <1>1, <3>1, RestTypes
    <3>3. Once(window)
      BY <1>1, <1>2, OnceKeep
    <3>4. Keep(window, ToSet(w)) = w
      BY <1>1, <3>1, <3>3, KeepRest
    <3>5. ToSet(w) \subseteq W /\ W \subseteq ToSet(w) \cup {window[1]}
      <4> HIDE DEF w
      <4>1. DOMAIN w = 1 .. Len(window) - 1 /\ DOMAIN window = 1 .. Len(window)
        BY <3>2, <1>1
      <4>2. ASSUME NEW x \in ToSet(w) PROVE x \in W
        <5>1. PICK i \in 1 .. Len(window) - 1 : x = w[i]
          BY <4>1 DEF ToSet
        <5>2. i + 1 \in DOMAIN window /\ x = window[i + 1]
          BY <5>1, <4>1, <3>2, <1>1
        <5> QED BY <5>2 DEF ToSet
      <4>3. ASSUME NEW x \in W, x # window[1] PROVE x \in ToSet(w)
        <5>1. PICK i \in 1 .. Len(window) : x = window[i]
          BY <4>1 DEF ToSet
        <5>2. i - 1 \in DOMAIN w /\ x = w[i - 1]
          BY <5>1, <4>3, <4>1, <3>2, <1>1
        <5> QED BY <5>2 DEF ToSet
      <4> QED BY <4>2, <4>3
    <3>6. w = Keep(added, ToSet(w))
      <4> HIDE DEF w
      <4>1. Keep(Keep(added, W), ToSet(w)) = Keep(added, W \cap ToSet(w))
        BY <1>1, KeepTwice
      <4>2. W \cap ToSet(w) = ToSet(w)
        BY <3>5
      <4> QED BY <4>1, <4>2, <3>4, <1>2
    <3>7. PICK k \in 1 .. Len(added) : window[1] = added[k] /\ Len(window) <= Len(added) - k + 1
      BY <1>1, <1>2, <3>1, KeepTypes
    <3>8. ASSUME NEW i \in 1 .. Len(added),
                 Len(added) + 1 - i < WindowSize, added[i] \notin dropped
          PROVE  added[i] \in ToSet(w)
      <4>1. added[i] \in W
        BY <3>8, <1>1, <1>2, <1>3
      <4>2. i # k
        BY <3>8, <3>7, <2>2, <1>1, <1>3
      <4>3. added[i] # window[1]
        BY <4>2, <3>7, <1>1 DEF Once
      <4> QED BY <4>1, <4>3, <3>5
    <3>9. Len(w) < WindowSize
      BY <3>2, <2>2, <1>3
    <3>10. window' = Append(w, e)
      BY <1>4, <2>2
    <3> HIDE DEF w
    <3>11. Stay(w)
      BY <3>2, <3>5, <3>6, <3>8, <3>9
    <3> HIDE DEF Stay
    <3> QED BY <3>10, <3>11
  <2> QED BY <2>1, <2>2
<1>10. /\ window' \in Seq(Entries) /\ Len(window') <= WindowSize
       /\ ToSet(window') = ToSet(w) \cup {e}
  <2>1. Len(Append(w, e)) = Len(w) + 1 /\ Append(w, e) \in Seq(Entries) /\ Len(w) \in Nat
    BY <1>9
  <2>2. ToSet(Append(w, e)) = ToSet(w) \cup {e}
    BY <1>9, SetOfAppend
  <2> QED BY <1>9, <2>1, <2>2, <1>3
<1>11. ASSUME NEW i \in 1 .. Len(added'),
              Len(added') - i < WindowSize, added'[i] \notin dropped
       PROVE  added'[i] \in ToSet(window')
  <2>1. CASE i = Len(added) + 1
    BY <2>1, <1>5, <1>10
  <2>2. CASE i \in 1 .. Len(added)
    BY <2>2, <1>11, <1>5, <1>9, <1>10, <1>1
  <2> QED BY <2>1, <2>2, <1>5, <1>1
<1>12. \A d \in dropped : d \notin ToSet(window')
  BY <1>10, <1>9, <1>2, <1>7
<1>13. window' = Keep(added', ToSet(window'))
  <2>1. Keep(Append(added, e), ToSet(w) \cup {e}) = Append(Keep(added, ToSet(w) \cup {e}), e)
    BY <1>1, KeepAppend
  <2>2. Keep(added, ToSet(w) \cup {e}) = Keep(added, ToSet(w))
    BY <1>1, KeepSame
  <2> QED BY <2>1, <2>2, <1>9, <1>10
<1>14. KeptUntilPushedOut'
  <2>1. DOMAIN added' = 1 .. Len(added')
    BY <1>5
  <2>2. \A i \in DOMAIN added' :
          Len(added') - i < WindowSize /\ added'[i] \notin dropped' => added'[i] \in ToSet(window')
    BY <1>11, <1>7, <2>1
  <2>3. \A d \in dropped' : d \notin ToSet(window')
    BY <1>12, <1>7
  <2> QED BY <1>10, <1>13, <2>2, <2>3, Zenon DEF KeptUntilPushedOut
<1> QED BY <1>14, <1>10, <1>5, <1>6

\* A removal: the entries in gone go, all of them on purpose.
LEMMA RemoveKeeps ==
    ASSUME WindowTypes, KeptUntilPushedOut, dropped \subseteq ToSet(added), NEW gone,
           TakeOut(gone), added' = added
    PROVE  /\ KeptUntilPushedOut' /\ window' \in Seq(Entries)
           /\ dropped' \subseteq ToSet(added')
           /\ ToSet(window') = ToSet(window) \ gone
<1> DEFINE W == ToSet(window)
           S == Entries \ gone
<1>1. /\ window \in Seq(Entries) /\ added \in Seq(Entries) /\ W \subseteq Entries
      /\ window' = Keep(window, S) /\ dropped' = dropped \cup (W \cap gone)
  BY DEF WindowTypes, TakeOut, ToSet
<1>2. /\ Len(window) <= WindowSize
      /\ \A i \in DOMAIN added :
           Len(added) - i < WindowSize /\ added[i] \notin dropped => added[i] \in W
      /\ \A d \in dropped : d \notin W
      /\ window = Keep(added, W)
  BY <1>1 DEF KeptUntilPushedOut
<1>9. W \subseteq ToSet(added)
  BY <1>1, <1>2, KeepTypes
<1>3. window' \in Seq(Entries) /\ ToSet(window') = W \cap S /\ Len(window') <= Len(window)
  BY <1>1, KeepTypes
<1>4. Len(window') <= WindowSize
  <2>1. Len(window') \in Nat /\ Len(window) \in Nat /\ WindowSize \in Nat
    BY <1>1, <1>3, MemoryAssumption
  <2> QED BY <2>1, <1>2, <1>3
<1>5. \A i \in DOMAIN added' :
        Len(added') - i < WindowSize /\ added'[i] \notin dropped' => added'[i] \in ToSet(window')
  BY <1>1, <1>2, <1>3
<1>6. \A d \in dropped' : d \notin ToSet(window')
  BY <1>1, <1>2, <1>3
<1>7. window' = Keep(added', ToSet(window'))
  <2>1. Keep(Keep(added, W), S) = Keep(added, W \cap S)
    BY <1>1, KeepTwice
  <2> QED BY <2>1, <1>1, <1>2, <1>3
<1>8. KeptUntilPushedOut'
  BY <1>4, <1>5, <1>6, <1>7, Zenon DEF KeptUntilPushedOut
<1> QED BY <1>1, <1>3, <1>8, <1>9

-----------------------------------------------------------------------------
\* What may be said of a request x in the place of r.
Proper(r, x) ==
    /\ x \in RequestType
    /\ x.op = "add" =>
         /\ x.pc \in {"lock", "wwait", "write", "persist"}
         /\ x.entry \in Entries
         /\ x.pc # "persist" => x.entry \notin ToSet(added)
         /\ \A q \in Requests \ {r} : req[q].op = "add" => req[q].entry # x.entry
    /\ x.op = "delete" =>
         /\ x.entry \in ToSet(added)
         /\ x.pc \in {"lock", "wwait", "write"} => TenantOf[x.entry] = x.tenant
    /\ ToSet(x.result) \subseteq Wanted(x)
    /\ x.result # <<>> => x.pc = "release"

LEMMA ProperNow ==
    ASSUME MemoryInv, NEW r \in Requests
    PROVE  Proper(r, req[r])
BY DEF MemoryInv, WindowTypes, RequestProper, Proper

LEMMA ProperIdle == ASSUME NEW r PROVE Proper(r, Idle)
<1>1. Idle \in RequestType
  BY DEF Idle, Ask, RequestType
<1>2. ToSet(Idle.result) = {} /\ Idle.result = << >> /\ Idle.op = "none"
  BY DEF Idle, Ask, ToSet
<1> QED BY <1>1, <1>2 DEF Proper

\* A step of one request that leaves the window alone.
LEMMA OneRequest ==
    ASSUME MemoryInv, NEW r \in Requests, NEW x, Proper(r, x),
           req' = [req EXCEPT ![r] = x], UNCHANGED <<window, history>>
    PROVE  MemoryInv'
<1>1. window' = window /\ added' = added /\ dropped' = dropped
  BY DEF history
<1>2. req \in [Requests -> RequestType]
  BY DEF MemoryInv, WindowTypes
<1>3. req'[r] = x /\ \A q \in Requests \ {r} : req'[q] = req[q]
  BY <1>2
<1>4. WindowTypes'
  BY <1>1, <1>2 DEF MemoryInv, WindowTypes, Proper, Once
<1>5. ASSUME NEW q \in Requests PROVE RequestProper(q)'
  <2>1. CASE q = r
    BY <2>1, <1>1, <1>3 DEF RequestProper, Proper, Wanted
  <2>2. CASE q # r
    <3>1. RequestProper(q)
      BY DEF MemoryInv
    <3>2. x.op = "add" /\ req[q].op = "add" => req[q].entry # x.entry
      BY <2>2 DEF Proper
    <3> QED BY <3>1, <3>2, <2>2, <1>1, <1>3 DEF RequestProper, Wanted
  <2> QED BY <2>1, <2>2
<1>6. KeptUntilPushedOut'
  BY <1>1 DEF MemoryInv, KeptUntilPushedOut
<1> QED BY <1>1, <1>4, <1>5, <1>6 DEF MemoryInv

\* The requests that go for a lock.
LEMMA GoForLock ==
    ASSUME MemoryInv, NEW r \in Requests, NEW x, Proper(r, [x EXCEPT !.pc = "lock"]), Write(r, x)
    PROVE  MemoryInv'
<1> DEFINE y == [x EXCEPT !.pc = "lock"]
<1>1. req' = [req EXCEPT ![r] = y] /\ UNCHANGED <<window, history>>
  BY DEF Write
<1> HIDE DEF y
<1>2. Proper(r, y)
  BY DEF y
<1> QED BY <1>1, <1>2, OneRequest

LEMMA GoToRead ==
    ASSUME MemoryInv, NEW r \in Requests, NEW x, Proper(r, [x EXCEPT !.pc = "read"]),
           Proper(r, [x EXCEPT !.pc = "rwait"]), ReadOnly(r, x)
    PROVE  MemoryInv'
<1> DEFINE y(p) == [x EXCEPT !.pc = p]
<1>1. PICK p \in {"read", "rwait"} : req' = [req EXCEPT ![r] = y(p)]
  BY DEF ReadOnly
<1>2. UNCHANGED <<window, history>> /\ Proper(r, y(p))
  BY <1>1 DEF ReadOnly
<1> HIDE DEF y
<1> QED BY <1>1, <1>2, OneRequest

\* A number that a set is left with, the smallest, is one of them.
LEMMA MinIn ==
    ASSUME NEW T \in SUBSET Nat, T # {}
    PROVE  Min(T) \in T
<1>1. \E n \in T : \A m \in T : n <= m
  BY LeastNumber
<1> QED BY <1>1 DEF Min

LEMMA ArriveKeeps ==
    ASSUME MemoryInv, NEW r \in Requests, Arrive(r)
    PROVE  MemoryInv'
<1>0. ToSet(<< >>) = {} /\ << >> \in Seq(Entries)
  BY DEF ToSet
<1>1. CASE AddMemory(r)
  <2> DEFINE e == Min(Fresh)
             x == Ask("add", TenantOf[e], e, None)
  <2>1. e \in Fresh
    <3>1. Fresh # {} /\ Fresh \in SUBSET Nat
      BY <1>1, MemoryAssumption DEF AddMemory, Fresh
    <3> QED BY <3>1, MinIn
  <2>2. Write(r, x)
    BY <1>1 DEF AddMemory
  <2> HIDE DEF e
  <2>3. e \in Entries /\ e \notin ToSet(added) /\ TenantOf[e] \in Tenants
    BY <2>1, MemoryAssumption DEF Fresh
  <2>4. \A q \in Requests : req[q].op = "add" => req[q].entry # e
    BY <2>1 DEF Fresh
  <2>5. [x EXCEPT !.pc = "lock"] = [pc |-> "lock", op |-> "add", tenant |-> TenantOf[e],
                                    entry |-> e, session |-> None, result |-> << >>]
    BY DEF Ask
  <2> HIDE DEF x
  <2>6. Proper(r, [x EXCEPT !.pc = "lock"])
    BY <2>3, <2>4, <2>5, <1>0 DEF Proper, RequestType
  <2> QED BY <2>2, <2>6, GoForLock
<1>2. ASSUME NEW t \in Tenants \cup {None}, NEW e \in ToSet(added) \cup {None},
             NEW s \in Sessions \cup {None}, NEW op \in {"get", "search", "delete", "inspect"},
             op = "delete" => e \in ToSet(added), ReadOnly(r, Ask(op, t, e, s))
      PROVE  MemoryInv'
  <2> DEFINE x == Ask(op, t, e, s)
  <2>1. \A p \in {"read", "rwait"} :
          [x EXCEPT !.pc = p] = [pc |-> p, op |-> op, tenant |-> t, entry |-> e,
                                 session |-> s, result |-> << >>]
    BY DEF Ask
  <2>2. e \in Entries \cup {None}
    BY DEF MemoryInv, WindowTypes, ToSet
  <2> HIDE DEF x
  <2>3. \A p \in {"read", "rwait"} : Proper(r, [x EXCEPT !.pc = p])
    BY <2>1, <2>2, <1>0, <1>2 DEF Proper, RequestType
  <2>4. Proper(r, [x EXCEPT !.pc = "read"]) /\ Proper(r, [x EXCEPT !.pc = "rwait"])
    BY <2>3
  <2>5. ReadOnly(r, x)
    BY <1>2 DEF x
  <2> QED BY <2>4, <2>5, GoToRead
<1>3. CASE \E t \in Tenants, e \in Entries : GetMemory(r, t, e)
  BY <1>2, <1>3 DEF GetMemory
<1>4. CASE \E t \in Tenants, e \in Entries : DeleteMemory(r, t, e)
  BY <1>2, <1>4 DEF DeleteMemory
<1>5. CASE \E t \in Tenants, s \in Sessions \cup {None} : SearchMemory(r, t, s)
  BY <1>2, <1>5 DEF SearchMemory
<1>6. CASE Inspect(r)
  BY <1>2, <1>6 DEF Inspect
<1>7. CASE \E t \in Tenants, s \in Sessions : ClearSession(r, t, s)
  <2>1. PICK t \in Tenants, s \in Sessions : ClearSession(r, t, s)
    BY <1>7
  <2> DEFINE x == Ask("clear", t, None, s)
  <2>2. [x EXCEPT !.pc = "lock"] = [pc |-> "lock", op |-> "clear", tenant |-> t,
                                    entry |-> None, session |-> s, result |-> << >>]
    BY DEF Ask
  <2>3. Write(r, x)
    BY <2>1 DEF ClearSession
  <2> HIDE DEF x
  <2>4. Proper(r, [x EXCEPT !.pc = "lock"])
    BY <2>2, <1>0 DEF Proper, RequestType
  <2> QED BY <2>3, <2>4, GoForLock
<1> QED BY <1>1, <1>3, <1>4, <1>5, <1>6, <1>7 DEF Arrive, CreateSession, GetStats, GetEntities,
       ExtractEntities, GetSummary

\* Entries that a filter or a limit leaves are among those it was given.
LEMMA SubSeqSet ==
    ASSUME NEW A, NEW seq \in Seq(A), NEW n \in 0 .. Len(seq)
    PROVE  SubSeq(seq, 1, n) \in Seq(A) /\ ToSet(SubSeq(seq, 1, n)) \subseteq ToSet(seq)
<1>1. /\ SubSeq(seq, 1, n) \in Seq(A) /\ Len(SubSeq(seq, 1, n)) = n
      /\ \A i \in 1 .. n : SubSeq(seq, 1, n)[i] = seq[i] /\ i \in 1 .. Len(seq)
  OBVIOUS
<1>2. DOMAIN SubSeq(seq, 1, n) = 1 .. n /\ DOMAIN seq = 1 .. Len(seq)
  BY <1>1
<1> QED BY <1>1, <1>2 DEF ToSet

LEMMA ServeKeeps ==
    ASSUME MemoryInv, NEW r \in Requests, Serve(r) \/ AnnounceWrite(r)
    PROVE  MemoryInv'
<1>0. /\ Proper(r, req[r]) /\ Proper(r, Idle) /\ WindowTypes /\ KeptUntilPushedOut
      /\ dropped \subseteq ToSet(added) /\ req[r] \in RequestType
  BY ProperNow, ProperIdle DEF MemoryInv, Proper
<1>a. req \in [Requests -> RequestType]
  BY <1>0 DEF WindowTypes
<1> DEFINE at(p) == [req[r] EXCEPT !.pc = p]
<1>b. \A p \in {"read", "wwait", "write"} :
        /\ at(p) \in RequestType /\ at(p).op = req[r].op /\ at(p).entry = req[r].entry
        /\ at(p).tenant = req[r].tenant /\ at(p).session = req[r].session
        /\ at(p).result = req[r].result /\ at(p).pc = p
  BY <1>0 DEF RequestType
<1>c. \A p \in {"read", "wwait", "write"} : Wanted(at(p)) = Wanted(req[r])
  <2> HIDE DEF at
  <2> QED BY <1>b DEF Wanted
<1>1. CASE Woken(r) \/ AnnounceWrite(r) \/ WriteLock(r)
  <2>1. PICK p \in {"read", "wwait", "write"} :
          /\ req' = [req EXCEPT ![r] = at(p)]
          /\ UNCHANGED <<window, history>>
          /\ \/ req[r].pc = "rwait" /\ p = "read"
             \/ req[r].pc = "lock" /\ p = "wwait"
             \/ req[r].pc = "wwait" /\ p = "write"
    BY <1>1 DEF Woken, AnnounceWrite, WriteLock
  <2> HIDE DEF at
  <2>2. Proper(r, at(p))
    BY <2>1, <1>0, <1>b, <1>c DEF Proper
  <2> QED BY <2>1, <2>2, OneRequest
<1>2. CASE Read(r)
  <2> DEFINE found == Found(req[r])
  <2>1. PICK limit \in 1 .. WindowSize :
          req' = [req EXCEPT ![r].pc = "release",
                             ![r].result = SubSeq(found, 1, Min({limit, Len(found)}))]
    BY <1>2 DEF Read
  <2>2. found \in Seq(Entries) /\ ToSet(found) \subseteq Wanted(req[r])
    <3>1. window \in Seq(Entries)
      BY <1>0 DEF WindowTypes
    <3> QED BY <3>1, KeepTypes DEF Found
  <2> HIDE DEF found
  <2>3. Min({limit, Len(found)}) \in 0 .. Len(found)
    <3>1. limit \in Nat /\ Len(found) \in Nat
      BY <2>2, MemoryAssumption
    <3> QED BY <3>1 DEF Min
  <2> DEFINE s == SubSeq(found, 1, Min({limit, Len(found)}))
             x == [req[r] EXCEPT !.pc = "release", !.result = s]
  <2>4. s \in Seq(Entries) /\ ToSet(s) \subseteq Wanted(req[r])
    BY <2>2, <2>3, SubSeqSet
  <2>5. req' = [req EXCEPT ![r] = x]
    BY <2>1, <1>a
  <2> HIDE DEF s
  <2>6. /\ x \in RequestType /\ x.op = req[r].op /\ x.entry = req[r].entry
        /\ x.tenant = req[r].tenant /\ x.session = req[r].session
        /\ x.result = s /\ x.pc = "release"
    BY <2>4, <1>0 DEF RequestType
  <2> HIDE DEF x
  <2>7. Wanted(x) = Wanted(req[r])
    BY <2>6 DEF Wanted
  <2>8. Proper(r, x)
    BY <2>4, <2>6, <2>7, <1>0, <1>2 DEF Proper, Read
  <2>9. UNCHANGED <<window, history>>
    BY <1>2 DEF Read
  <2> QED BY <2>5, <2>8, <2>9, OneRequest
<1>3. CASE ReadUnlock(r)
  <2> DEFINE x == [req[r] EXCEPT !.pc = "lock", !.result = << >>]
  <2>1. \/ req' = [req EXCEPT ![r] = Idle]
        \/ /\ req[r].op = "delete" /\ req[r].result # << >>
           /\ req' = [req EXCEPT ![r] = x]
    BY <1>3, <1>a DEF ReadUnlock
  <2>2. UNCHANGED <<window, history>>
    BY <1>3 DEF ReadUnlock
  <2>3. CASE req' = [req EXCEPT ![r] = Idle]
    BY <2>2, <2>3, <1>0, OneRequest
  <2>4. CASE /\ req[r].op = "delete" /\ req[r].result # << >>
             /\ req' = [req EXCEPT ![r] = x]
    <3>1. /\ x \in RequestType /\ x.op = "delete" /\ x.entry = req[r].entry
          /\ x.tenant = req[r].tenant /\ x.result = << >> /\ x.pc = "lock"
      <4>1. << >> \in Seq(Entries)
        OBVIOUS
      <4> QED BY <4>1, <2>4, <1>0 DEF RequestType
    <3>2. TenantOf[req[r].entry] = req[r].tenant
      <4>1. req[r].result \in Seq(Entries)
        BY <1>0 DEF RequestType
      <4>2. PICK f \in ToSet(req[r].result) : TRUE
        BY <4>1, <2>4, EmptySet
      <4>3. f \in Wanted(req[r])
        BY <4>2, <1>0 DEF Proper
      <4> QED BY <4>3, <2>4 DEF Wanted
    <3>3. ToSet(<< >>) = {}
      BY DEF ToSet
    <3> HIDE DEF x
    <3>4. Proper(r, x)
      BY <3>1, <3>2, <3>3, <2>4, <1>0 DEF Proper
    <3> QED BY <3>4, <2>2, <2>4, OneRequest
  <2> QED BY <2>1, <2>3, <2>4
<1>4. CASE Persist(r)
  <2>1. req' = [req EXCEPT ![r] = Idle] /\ UNCHANGED <<window, history>>
    BY <1>4 DEF Persist
  <2> QED BY <2>1, <1>0, OneRequest
<1>5. CASE Add(r)
  <2> DEFINE e == req[r].entry
             x == [req[r] EXCEPT !.pc = "persist"]
  <2>1. /\ req[r].pc = "write" /\ req[r].op = "add"
        /\ window' = Newest(Append(window, e), WindowSize)
        /\ added' = Append(added, e) /\ dropped' = dropped
        /\ req' = [req EXCEPT ![r] = x]
    BY <1>5, <1>a DEF Add
  <2>2. e \in Entries /\ e \notin ToSet(added)
    BY <2>1, <1>0 DEF Proper
  <2>3. /\ x \in RequestType /\ x.op = "add" /\ x.entry = e
        /\ x.result = req[r].result /\ x.pc = "persist"
    BY <1>0, <2>1 DEF RequestType
  <2> HIDE DEF e, x
  <2>4. /\ KeptUntilPushedOut' /\ window' \in Seq(Entries) /\ added' \in Seq(Entries)
        /\ Once(added')
    BY <2>1, <2>2, <1>0, AddKeeps
  <2>5. ToSet(added') = ToSet(added) \cup {e}
    BY <2>1, <2>2, <1>0, SetOfAppend DEF WindowTypes
  <2>6. req' \in [Requests -> RequestType]
    BY <2>1, <2>3, <1>a
  <2>7. req'[r] = x /\ \A q \in Requests \ {r} : req'[q] = req[q]
    BY <2>1, <1>a
  <2>8. ASSUME NEW q \in Requests PROVE RequestProper(q)'
    <3>1. CASE q = r
      <4>1. req[r].result = << >> /\ ToSet(<< >>) = {}
        BY <1>0, <2>1 DEF Proper, ToSet
      <4>2. \A p \in Requests \ {r} : req[p].op = "add" => req[p].entry # e
        BY <1>0, <2>1 DEF Proper, e
      <4> QED BY <3>1, <4>1, <4>2, <2>2, <2>3, <2>7 DEF RequestProper
    <3>2. CASE q # r
      <4>1. RequestProper(q) /\ req'[q] = req[q]
        BY <3>2, <2>7 DEF MemoryInv
      <4>2. req[q].op = "add" => req[q].entry # e
        BY <3>2, <1>0, <2>1 DEF Proper, e
      <4> QED BY <3>2, <4>1, <4>2, <2>1, <2>3, <2>5, <2>7 DEF RequestProper, Wanted, e
    <3> QED BY <3>1, <3>2
  <2>9. dropped' \subseteq ToSet(added')
    BY <2>1, <2>5 DEF MemoryInv
  <2> QED BY <2>4, <2>6, <2>8, <2>9 DEF MemoryInv, WindowTypes
<1>6. ASSUME NEW gone, TakeOut(gone), added' = added, req' = [req EXCEPT ![r] = Idle]
      PROVE  MemoryInv'
  <2>1. /\ KeptUntilPushedOut' /\ window' \in Seq(Entries)
        /\ dropped' \subseteq ToSet(added')
    BY <1>0, <1>6, RemoveKeeps
  <2>5. req' \in [Requests -> RequestType] /\ added' \in Seq(Entries) /\ Once(added')
    BY <1>0, <1>6, <1>a DEF Proper, WindowTypes, Once
  <2>6. ASSUME NEW q \in Requests PROVE RequestProper(q)'
    <3>1. req'[r] = Idle /\ \A p \in Requests \ {r} : req'[p] = req[p]
      BY <1>6, <1>a
    <3>2. Idle.op = "none" /\ Idle.result = << >> /\ ToSet(<< >>) = {}
      BY DEF Idle, Ask, ToSet
    <3>3. RequestProper(q)
      BY DEF MemoryInv
    <3>4. CASE q = r
      BY <3>1, <3>2, <3>4 DEF RequestProper
    <3>5. CASE q # r
      BY <3>1, <3>2, <3>3, <3>5, <1>6 DEF RequestProper, Wanted
    <3> QED BY <3>4, <3>5
  <2> QED BY <2>1, <2>5, <2>6 DEF MemoryInv, WindowTypes
<1>7. CASE Delete(r) \/ Clear(r)
  BY <1>6, <1>7 DEF Delete, Clear
<1> QED BY <1>1, <1>2, <1>3, <1>4, <1>5, <1>7 DEF Serve

LEMMA RestartKeeps ==
    ASSUME MemoryInv, MemoryRestart
    PROVE  MemoryInv'
<1>1. /\ WindowTypes /\ KeptUntilPushedOut /\ window \in Seq(Entries) /\ added \in Seq(Entries)
      /\ dropped \subseteq ToSet(added)
  BY DEF MemoryInv, WindowTypes
<1>2. TakeOut(Entries) /\ added' = added /\ req' = [r \in Requests |-> Idle]
  BY DEF MemoryRestart
<1>5. /\ KeptUntilPushedOut' /\ window' \in Seq(Entries)
      /\ dropped' \subseteq ToSet(added')
  BY <1>1, <1>2, RemoveKeeps
<1>7. Idle.op = "none" /\ Idle.result = << >> /\ ToSet(<< >>) = {}
  BY DEF Idle, Ask, ToSet
<1>8. ASSUME NEW r \in Requests PROVE RequestProper(r)'
  BY <1>2, <1>7 DEF RequestProper
<1>9. req' \in [Requests -> RequestType] /\ Once(added')
  BY <1>1, <1>2, ProperIdle DEF Proper, WindowTypes, Once
<1> QED BY <1>1, <1>2, <1>5, <1>8, <1>9 DEF MemoryInv, WindowTypes

LEMMA MemoryStarts == MemoryInit => MemoryInv
<1>1. SUFFICES ASSUME MemoryInit PROVE MemoryInv
  OBVIOUS
<1>2. /\ window = << >> /\ added = << >> /\ dropped = {} /\ req = [r \in Requests |-> Idle]
  BY <1>1 DEF MemoryInit
<1>3. << >> \in Seq(Entries) /\ ToSet(<< >>) = {} /\ DOMAIN << >> = {} /\ Len(<< >>) = 0
  BY DEF ToSet
<1>4. Idle.op = "none" /\ Idle.result = << >>
  BY DEF Idle, Ask
<1>5. WindowTypes
  BY <1>2, <1>3, ProperIdle DEF WindowTypes, Proper, Once
<1>6. \A r \in Requests : RequestProper(r)
  BY <1>2, <1>3, <1>4 DEF RequestProper
<1>8. KeptUntilPushedOut
  <2>1. Keep(<< >>, {}) = << >> /\ 0 <= WindowSize
    BY KeepEmpty, MemoryAssumption
  <2> QED BY <1>2, <1>3, <2>1 DEF KeptUntilPushedOut
<1> QED BY <1>2, <1>5, <1>6, <1>8 DEF MemoryInv

\* Whatever the requests and the restarts do, in every order the lock lets them run, the
\* state of the conversation memory is as the handlers leave it.
THEOREM MemoryCorrect == MemorySpec => []MemoryInv
<1>1. MemoryInv /\ [MemoryNext]_memoryVars => MemoryInv'
  <2>1. SUFFICES ASSUME MemoryInv, [MemoryNext]_memoryVars PROVE MemoryInv'
    OBVIOUS
  <2>2. CASE MemoryNext
    BY <2>1, <2>2, ArriveKeeps, ServeKeeps, RestartKeeps DEF MemoryNext
  <2>3. CASE UNCHANGED memoryVars
    <3>1. WindowTypes'
      BY <2>1, <2>3 DEF memoryVars, history, MemoryInv, WindowTypes, Once
    <3>2. \A r \in Requests : RequestProper(r)'
      BY <2>1, <2>3 DEF memoryVars, history, MemoryInv, RequestProper, Wanted
    <3>3. dropped' = dropped
      BY <2>3 DEF memoryVars, history
    <3>4. KeptUntilPushedOut'
      BY <2>1, <2>3 DEF memoryVars, history, MemoryInv, KeptUntilPushedOut
    <3> QED BY <2>1, <2>3, <3>1, <3>2, <3>3, <3>4 DEF memoryVars, history, MemoryInv
  <2> QED BY <2>1, <2>2, <2>3
<1> QED BY <1>1, MemoryStarts, PTL DEF MemorySpec

\* An entry stays in the window until it is deleted, cleared or lost in a restart, or
\* WindowSize newer ones were added (ConversationWindowMemory.Add, Delete, Clear).
THEOREM EntriesStay == MemorySpec => []KeptUntilPushedOut
<1>1. MemoryInv => KeptUntilPushedOut
  BY DEF MemoryInv
<1> QED BY <1>1, MemoryCorrect, PTL

Counted == starts \in Nat

LEMMA StartsCounted == MemorySpec => []Counted
<1>1. MemoryInit => Counted
  BY DEF MemoryInit, Counted
<1>2. Counted /\ [MemoryNext]_memoryVars => Counted'
  <2>1. SUFFICES ASSUME starts \in Nat, [MemoryNext]_memoryVars PROVE starts' \in Nat
    BY DEF Counted
  <2>2. CASE MemoryRestart
    BY <2>1, <2>2 DEF MemoryRestart
  <2>3. ASSUME NEW r \in Requests, Arrive(r) PROVE starts' = starts
    BY <2>3 DEF Arrive, AddMemory, GetMemory, SearchMemory, DeleteMemory, ClearSession, CreateSession,
          GetStats, GetEntities, ExtractEntities, GetSummary, Inspect, Write, ReadOnly
  <2>4. ASSUME NEW r \in Requests, Serve(r) \/ AnnounceWrite(r) PROVE starts' = starts
    BY <2>4 DEF Serve, AnnounceWrite, Woken, WriteLock, Read, ReadUnlock, Add, Persist, Delete, Clear
  <2> QED BY <2>1, <2>2, <2>3, <2>4 DEF MemoryNext, memoryVars
<1> QED BY <1>1, <1>2, PTL DEF MemorySpec

\* What one request does to the window.
LEMMA ServeTakes ==
    ASSUME MemoryInv, NEW r \in Requests, Serve(r) \/ AnnounceWrite(r),
           NEW e \in ToSet(window) \ ToSet(window')
    PROVE  MayGo(e)
<1>1. WindowTypes /\ KeptUntilPushedOut /\ dropped \subseteq ToSet(added) /\ RequestProper(r)
  BY DEF MemoryInv
<1>2. ASSUME NEW gone, TakeOut(gone), added' = added PROVE e \in gone
  <2>1. ToSet(window') = ToSet(window) \ gone
    BY <1>1, <1>2, RemoveKeeps
  <2> QED BY <2>1
<1>3. CASE Add(r)
  <2>1. added \in Seq(Entries) /\ added' = Append(added, req[r].entry)
    BY <1>1, <1>3 DEF WindowTypes, Add
  <2>2. Len(added') = Len(added) + 1 /\ Len(added) \in Nat
    BY <2>1
  <2>3. added' # added
    BY <2>2
  <2> QED BY <2>3 DEF MayGo
<1>4. CASE Delete(r)
  <2>1. e = req[r].entry /\ TenantOf[e] = req[r].tenant
    <3>1. e \in {req[r].entry} /\ req[r].pc = "write" /\ req[r].op = "delete"
      BY <1>2, <1>4 DEF Delete
    <3> QED BY <1>1, <3>1 DEF RequestProper
  <2> QED BY <1>4, <2>1 DEF Delete, MayGo
<1>5. CASE Clear(r)
  <2>1. e \in {f \in Entries : SessionOf[f] = req[r].session}
    BY <1>2, <1>5 DEF Clear
  <2> QED BY <1>5, <2>1 DEF Clear, MayGo
<1>6. CASE window' = window
  BY <1>6
<1> QED BY <1>3, <1>4, <1>5, <1>6 DEF Serve, Woken, WriteLock, Read, ReadUnlock, Persist, AnnounceWrite

\* A tenant is shown entries of its own only, and takes no other out of the window,
\* although the check and the removal take the lock one after the other (GetMemory,
\* SearchMemory, DeleteMemory); but clearing a session takes the entries of every tenant
\* that names a session so (Clear).
THEOREM EntriesOfOneTenant == MemorySpec => OwnEntriesOnly
<1> DEFINE Shown == \A r \in Requests : \A e \in ToSet(req'[r].result) : TenantOf[e] = req'[r].tenant
           Taken == \A e \in ToSet(window) \ ToSet(window') : MayGo(e)
<1>1. Counted /\ MemoryInv /\ MemoryInv' /\ [MemoryNext]_memoryVars => [Shown /\ Taken]_memoryVars
  <2>1. SUFFICES ASSUME starts \in Nat, MemoryInv, MemoryInv', MemoryNext PROVE Shown /\ Taken
    BY DEF Counted
  <2>2. ASSUME NEW r \in Requests, NEW e \in ToSet(req'[r].result)
        PROVE  TenantOf[e] = req'[r].tenant
    <3>1. e \in Wanted(req'[r])
      BY <2>1 DEF MemoryInv, RequestProper, Wanted
    <3> QED BY <3>1 DEF Wanted, Matches
  <2>3. Taken
    <3>1. ASSUME NEW r \in Requests, Arrive(r) PROVE window' = window
      BY <3>1 DEF Arrive, AddMemory, GetMemory, SearchMemory, DeleteMemory, ClearSession, CreateSession,
            GetStats, GetEntities, ExtractEntities, GetSummary, Inspect, Write, ReadOnly
    <3>2. CASE MemoryRestart
      <4>1. starts' # starts
        BY <2>1, <3>2 DEF MemoryRestart
      <4> QED BY <4>1 DEF MayGo
    <3> HIDE DEF Taken
    <3>3. ASSUME NEW r \in Requests, Serve(r) \/ AnnounceWrite(r) PROVE Taken
      BY <2>1, <3>3, ServeTakes DEF Taken
    <3>4. CASE window' = window
      BY <3>4 DEF Taken
    <3> QED BY <2>1, <3>1, <3>2, <3>3, <3>4 DEF MemoryNext, Taken
  <2> QED BY <2>2, <2>3
<1>2. MemorySpec => [][MemoryNext]_memoryVars
  BY PTL DEF MemorySpec
<1> QED BY <1>1, <1>2, MemoryCorrect, StartsCounted, PTL DEF OwnEntriesOnly

-----------------------------------------------------------------------------
(***************************************************************************)
(* The knowledge base.                                                     *)
(***************************************************************************)
UploadFields == {"pc", "text", "todo", "pos", "brk", "single", "out", "n"}
IsUpload(u) == u = [f \in UploadFields |-> u[f]]

\* A sequence of something.
IsSeq(s) == s \in Seq(ToSet(s))

\* The chunks of an upload are in the collection before it flushes, and flushed before it
\* is answered; an answer 500 is the fault of a service.
UploadProper(d) ==
    LET u == upload[d] IN
      /\ IsUpload(u)
      /\ u.n \in Nat
      /\ IsSeq(u.out)
      /\ u.pc \in {"flush", "graph", "ok"} => ChunksOf(d) \subseteq inserted
      /\ u.pc \in {"graph", "ok"} => ChunksOf(d) \subseteq flushed
      /\ u.pc = "failed" => d \in fault

UploadInv == /\ upload = [d \in Docs |-> upload[d]]
             /\ flushed \subseteq inserted
             /\ IsFiniteSet(inserted)
             /\ \A d \in Docs : UploadProper(d)

LEMMA SeqIsSeq == ASSUME NEW A, NEW s \in Seq(A) PROVE IsSeq(s)
<1>1. s \in [1 .. Len(s) -> A] /\ Len(s) \in Nat /\ DOMAIN s = 1 .. Len(s)
  OBVIOUS
<1>2. \A i \in 1 .. Len(s) : s[i] \in ToSet(s)
  BY <1>1 DEF ToSet
<1>3. s \in [1 .. Len(s) -> ToSet(s)]
  BY <1>1, <1>2
<1> QED BY <1>1, <1>3 DEF IsSeq

LEMMA AppendIsSeq == ASSUME NEW s, IsSeq(s), NEW x PROVE IsSeq(Append(s, x))
<1>1. s \in Seq(ToSet(s) \cup {x})
  BY DEF IsSeq
<1>2. Append(s, x) \in Seq(ToSet(s) \cup {x})
  BY <1>1
<1> QED BY <1>2, SeqIsSeq

LEMMA ConcatIsSeq == ASSUME NEW s, IsSeq(s), NEW t, IsSeq(t) PROVE IsSeq(s \o t)
<1>1. s \in Seq(ToSet(s) \cup ToSet(t)) /\ t \in Seq(ToSet(s) \cup ToSet(t))
  BY DEF IsSeq
<1>2. s \o t \in Seq(ToSet(s) \cup ToSet(t))
  BY <1>1
<1> QED BY <1>2, SeqIsSeq

LEMMA EmptyIsSeq == IsSeq(<< >>) /\ \A x : IsSeq(<< x >>)
<1>1. << >> \in Seq({}) /\ \A x : << x >> \in Seq({x})
  OBVIOUS
<1> QED BY <1>1, SeqIsSeq

LEMMA WindowIsSeq == ASSUME NEW text, NEW pos PROVE IsSeq(Window(text, pos).add)
BY EmptyIsSeq DEF Window

LEMMA BreakIsSeq ==
    ASSUME NEW text, NEW start, NEW b PROVE IsSeq(SemanticBreak(text, start, b).add)
BY EmptyIsSeq DEF SemanticBreak, LastSection

LEMMA ChunksFinite == ASSUME NEW d, NEW n \in Nat PROVE IsFiniteSet({d} \X (0 .. n - 1))
<1>1. IsFiniteSet({d}) /\ IsFiniteSet(0 .. n - 1)
  <2>1. n - 1 \in Int /\ 0 \in Int
    OBVIOUS
  <2> QED BY <2>1, FS_Singleton, FS_Interval
<1> QED BY <1>1, FS_Product

\* A step of one upload.
LEMMA OneUpload ==
    ASSUME UploadInv, NEW d \in Docs, NEW u,
           upload' = [upload EXCEPT ![d] = u], IsUpload(u), u.n \in Nat, IsSeq(u.out),
           fault \subseteq fault', inserted \subseteq inserted', flushed \subseteq flushed',
           flushed' \subseteq inserted', IsFiniteSet(inserted'),
           u.pc \in {"flush", "graph", "ok"} => {d} \X (0 .. u.n - 1) \subseteq inserted',
           u.pc \in {"graph", "ok"} => {d} \X (0 .. u.n - 1) \subseteq flushed',
           u.pc = "failed" => d \in fault'
    PROVE  UploadInv'
<1>1. upload = [e \in Docs |-> upload[e]]
  BY DEF UploadInv
<1>2. upload'[d] = u /\ \A e \in Docs \ {d} : upload'[e] = upload[e]
  BY <1>1
<1>3. upload' = [e \in Docs |-> upload'[e]]
  BY <1>1
<1>4. ASSUME NEW e \in Docs PROVE UploadProper(e)'
  <2>1. CASE e = d
    <3>1. ChunksOf(d)' = {d} \X (0 .. u.n - 1)
      BY <1>2 DEF ChunksOf
    <3> QED BY <2>1, <3>1, <1>2 DEF UploadProper
  <2>2. CASE e # d
    <3>1. UploadProper(e) /\ upload'[e] = upload[e]
      BY <1>2, <2>2 DEF UploadInv
    <3>2. ChunksOf(e)' = ChunksOf(e)
      BY <3>1 DEF ChunksOf
    <3> QED BY <3>1, <3>2 DEF UploadProper
  <2> QED BY <2>1, <2>2
<1> QED BY <1>3, <1>4 DEF UploadInv

\* A step of an upload that is not at the store yet, or ends there.
LEMMA QuietUpload ==
    ASSUME UploadInv, NEW d \in Docs, NEW u,
           upload' = [upload EXCEPT ![d] = u], IsUpload(u), u.n \in Nat, IsSeq(u.out),
           fault \subseteq fault', UNCHANGED <<inserted, flushed>>,
           u.pc \notin {"flush", "graph", "ok"}, u.pc = "failed" => d \in fault'
    PROVE  UploadInv'
<1>1. flushed' \subseteq inserted' /\ IsFiniteSet(inserted')
  BY DEF UploadInv
<1> QED BY <1>1, OneUpload

LEMMA UploadIs ==
    ASSUME UploadInv, NEW d \in Docs
    PROVE  /\ IsUpload(upload[d]) /\ upload[d].n \in Nat /\ IsSeq(upload[d].out)
           /\ upload = [e \in Docs |-> upload[e]]
BY DEF UploadInv, UploadProper

LEMMA NoUploadIs ==
    \A p : LET u == [NoUpload EXCEPT !.pc = p]
           IN  IsUpload(u) /\ u.pc = p /\ u.n = 0 /\ u.out = << >>
<1>1. IsUpload(NoUpload) /\ NoUpload.n = 0 /\ NoUpload.out = << >>
  BY DEF NoUpload, IsUpload, UploadFields
<1> QED BY <1>1 DEF IsUpload, UploadFields

LEMMA FailKeeps ==
    ASSUME UploadInv, NEW d \in Docs, FailUpload(d), flushed' = flushed,
           inserted' = inserted \/ inserted' = inserted \cup ChunksOf(d)
    PROVE  UploadInv'
<1> DEFINE u == [NoUpload EXCEPT !.pc = "failed"]
<1>1. upload' = [upload EXCEPT ![d] = u] /\ fault' = fault \cup {d}
  BY DEF FailUpload
<1>2. IsUpload(u) /\ u.pc = "failed" /\ u.n = 0 /\ u.out = << >>
  BY NoUploadIs
<1> HIDE DEF u
<1>3. IsFiniteSet(inserted') /\ flushed' \subseteq inserted' /\ inserted \subseteq inserted'
  <2>1. IsFiniteSet(inserted) /\ flushed \subseteq inserted
    BY DEF UploadInv
  <2>2. IsFiniteSet(ChunksOf(d))
    BY UploadIs, ChunksFinite DEF ChunksOf
  <2>3. IsFiniteSet(inserted \cup ChunksOf(d))
    BY <2>1, <2>2, FS_Union
  <2> QED BY <2>1, <2>3
<1>4. IsSeq(u.out) /\ u.n \in Nat
  BY <1>2, EmptyIsSeq
<1> QED BY <1>1, <1>2, <1>3, <1>4, OneUpload

LEMMA UploadStarts ==
    ASSUME UploadInv, NEW d \in Docs, NEW t, Upload(d, t)
    PROVE  UploadInv'
<1> DEFINE paragraphs == ParagraphsOf[t]
           single == Len(paragraphs) = 1
           u == [NoUpload EXCEPT !.pc = "chunk", !.text = t, !.single = single,
                                 !.todo = IF single THEN <<t>> ELSE paragraphs]
<1>1. upload' = [upload EXCEPT ![d] = u] /\ UNCHANGED <<fault, store>>
  BY DEF Upload
<1> HIDE DEF paragraphs, single
<1>2. IsUpload(u) /\ u.pc = "chunk" /\ u.n = 0 /\ u.out = << >>
  <2>1. IsUpload(NoUpload) /\ NoUpload.n = 0 /\ NoUpload.out = << >>
    BY DEF NoUpload, IsUpload, UploadFields
  <2> QED BY <2>1 DEF IsUpload, UploadFields
<1> HIDE DEF u
<1>3. u.n \in Nat /\ IsSeq(u.out) /\ fault' = fault /\ UNCHANGED <<inserted, flushed>>
  BY <1>1, <1>2, EmptyIsSeq DEF store
<1> QED BY <1>1, <1>2, <1>3, QuietUpload

\* The steps of the chunker.
LEMMA ChunkingKeeps ==
    ASSUME UploadInv, NEW d \in Docs,
           TakePiece(d) \/ TakeWindow(d) \/ OutOfMemory(d) \/ EndPieces(d) \/ TakeBreak(d)
    PROVE  UploadInv'
<1>1. /\ IsUpload(upload[d]) /\ upload[d].n \in Nat /\ IsSeq(upload[d].out)
      /\ upload = [e \in Docs |-> upload[e]]
  BY UploadIs
<1>2. ASSUME NEW u, IsUpload(u), u.pc \in {"chunk", "breaks", "embed"}, u.n = upload[d].n,
             IsSeq(u.out), upload' = [upload EXCEPT ![d] = u], UNCHANGED <<fault, store>>
      PROVE  UploadInv'
  <2>1. fault' = fault /\ UNCHANGED <<inserted, flushed>> /\ u.n \in Nat
    BY <1>1, <1>2 DEF store
  <2> QED BY <1>2, <2>1, QuietUpload
<1>3. CASE TakePiece(d)
  <2> DEFINE x == Head(upload[d].todo)
             u == [upload[d] EXCEPT !.todo = Tail(@), !.out = Append(@, x)]
  <2>1. upload' = [upload EXCEPT ![d] = u] /\ UNCHANGED <<fault, store>> /\ upload[d].pc = "chunk"
    BY <1>1, <1>3 DEF TakePiece, At
  <2> HIDE DEF x
  <2>2. IsUpload(u) /\ u.pc = "chunk" /\ u.n = upload[d].n /\ u.out = Append(upload[d].out, x)
    BY <1>1, <2>1 DEF IsUpload, UploadFields
  <2> HIDE DEF u
  <2>3. IsSeq(u.out)
    BY <1>1, <2>2, AppendIsSeq
  <2> QED BY <1>2, <2>1, <2>2, <2>3
<1>4. CASE TakeWindow(d)
  <2> DEFINE piece == Head(upload[d].todo)
             w == Window(piece, upload[d].pos)
             pos == IF w.next < Len(piece) THEN w.next ELSE 0
             todo == IF w.next < Len(piece) THEN upload[d].todo ELSE Tail(upload[d].todo)
             u == [upload[d] EXCEPT !.out = @ \o w.add, !.pos = pos, !.todo = todo]
  <2>1. upload' = [upload EXCEPT ![d] = u] /\ UNCHANGED <<fault, store>> /\ upload[d].pc = "chunk"
    BY <1>1, <1>4 DEF TakeWindow, At
  <2>2. IsSeq(w.add)
    BY WindowIsSeq
  <2> HIDE DEF w, pos, todo
  <2>3. IsUpload(u) /\ u.pc = "chunk" /\ u.n = upload[d].n /\ u.out = upload[d].out \o w.add
    BY <1>1, <2>1 DEF IsUpload, UploadFields
  <2> HIDE DEF u
  <2>4. IsSeq(u.out)
    BY <1>1, <2>2, <2>3, ConcatIsSeq
  <2> QED BY <1>2, <2>1, <2>3, <2>4
<1>5. CASE OutOfMemory(d)
  BY <1>5 DEF OutOfMemory, store, UploadInv, UploadProper, ChunksOf
<1>6. CASE EndPieces(d)
  <2> DEFINE broken == [upload[d] EXCEPT !.pc = "breaks", !.out = <<>>, !.single = FALSE]
             whole == [upload[d] EXCEPT !.pc = "embed", !.single = FALSE]
  <2>1. /\ UNCHANGED <<fault, store>>
        /\ \/ upload' = [upload EXCEPT ![d] = broken]
           \/ upload' = [upload EXCEPT ![d] = whole]
    BY <1>1, <1>6 DEF EndPieces
  <2>2. IsUpload(broken) /\ broken.pc = "breaks" /\ broken.n = upload[d].n /\ broken.out = << >>
    BY <1>1 DEF IsUpload, UploadFields
  <2>3. IsUpload(whole) /\ whole.pc = "embed" /\ whole.n = upload[d].n /\ whole.out = upload[d].out
    BY <1>1 DEF IsUpload, UploadFields
  <2> HIDE DEF broken, whole
  <2>4. IsSeq(broken.out) /\ IsSeq(whole.out)
    BY <1>1, <2>2, <2>3, EmptyIsSeq
  <2>5. CASE upload' = [upload EXCEPT ![d] = broken]
    BY <1>2, <2>1, <2>2, <2>4, <2>5
  <2>6. CASE upload' = [upload EXCEPT ![d] = whole]
    BY <1>2, <2>1, <2>3, <2>4, <2>6
  <2> QED BY <2>1, <2>5, <2>6
<1>7. CASE TakeBreak(d)
  <2> DEFINE b == SemanticBreak(upload[d].text, upload[d].pos, upload[d].brk)
             p == IF b.more THEN "breaks" ELSE "embed"
             u == [upload[d] EXCEPT !.out = @ \o b.add, !.brk = b.brk, !.pos = b.next, !.pc = p]
  <2>1. upload' = [upload EXCEPT ![d] = u] /\ UNCHANGED <<fault, store>>
    BY <1>1, <1>7 DEF TakeBreak
  <2>2. IsSeq(b.add) /\ p \in {"breaks", "embed"}
    BY BreakIsSeq
  <2> HIDE DEF b, p
  <2>3. IsUpload(u) /\ u.pc = p /\ u.n = upload[d].n /\ u.out = upload[d].out \o b.add
    BY <1>1 DEF IsUpload, UploadFields
  <2> HIDE DEF u
  <2>4. IsSeq(u.out)
    BY <1>1, <2>2, <2>3, ConcatIsSeq
  <2> QED BY <1>2, <2>1, <2>2, <2>3, <2>4
<1> QED BY <1>3, <1>4, <1>5, <1>6, <1>7

\* The steps that store the chunks.
LEMMA StoringKeeps ==
    ASSUME UploadInv, NEW d \in Docs,
           Embed(d) \/ CheckCollection(d) \/ CreateCollection(d) \/ Insert(d) \/ Flush(d)
             \/ GraphNodes(d)
    PROVE  UploadInv'
<1>1. /\ IsUpload(upload[d]) /\ upload[d].n \in Nat /\ IsSeq(upload[d].out)
      /\ upload = [e \in Docs |-> upload[e]]
      /\ IsFiniteSet(inserted) /\ flushed \subseteq inserted
      /\ ChunksOf(d) = {d} \X (0 .. upload[d].n - 1) /\ UploadProper(d)
  BY UploadIs DEF UploadInv, ChunksOf
<1> DEFINE at(p) == [upload[d] EXCEPT !.pc = p]
<1>2. \A p : /\ Goto(d, p) => upload' = [upload EXCEPT ![d] = at(p)]
             /\ IsUpload(at(p)) /\ at(p).pc = p /\ at(p).n = upload[d].n /\ at(p).out = upload[d].out
  BY <1>1 DEF Goto, IsUpload, UploadFields
<1> DEFINE Failing == /\ FailUpload(d) /\ flushed' = flushed
                      /\ inserted' = inserted \/ inserted' = inserted \cup ChunksOf(d)
<1>3. CASE Failing
  BY <1>3, FailKeeps
<1> HIDE DEF at
<1>4. ASSUME NEW p \in {"insert", "create"}, Goto(d, p), fault' = fault,
             UNCHANGED <<inserted, flushed>>
      PROVE  UploadInv'
  BY <1>1, <1>2, <1>4, QuietUpload
<1>5. CASE ~Failing /\ (CheckCollection(d) \/ CreateCollection(d))
  BY <1>4, <1>5 DEF CheckCollection, CreateCollection, store
<1>6. CASE ~Failing /\ Embed(d)
  <2> DEFINE n == Len(upload[d].out)
             u == [NoUpload EXCEPT !.pc = "check", !.n = n]
  <2>1. upload' = [upload EXCEPT ![d] = u] /\ fault' = fault /\ UNCHANGED <<inserted, flushed>>
    BY <1>6 DEF Embed, store
  <2>2. n \in Nat
    BY <1>1 DEF IsSeq
  <2> HIDE DEF n
  <2>3. IsUpload(u) /\ u.pc = "check" /\ u.n = n /\ u.out = << >>
    <3>1. IsUpload(NoUpload) /\ NoUpload.n = 0 /\ NoUpload.out = << >>
      BY DEF NoUpload, IsUpload, UploadFields
    <3> QED BY <3>1 DEF IsUpload, UploadFields
  <2> HIDE DEF u
  <2>4. IsSeq(u.out)
    BY <2>3, EmptyIsSeq
  <2> QED BY <2>1, <2>2, <2>3, <2>4, QuietUpload
<1>7. CASE ~Failing /\ Insert(d)
  <2>1. /\ inserted' = inserted \cup ChunksOf(d) /\ Goto(d, "flush")
        /\ fault' = fault /\ flushed' = flushed
    BY <1>7 DEF Insert
  <2>2. IsFiniteSet(inserted')
    BY <1>1, <2>1, ChunksFinite, FS_Union
  <2> QED BY <1>1, <1>2, <2>1, <2>2, OneUpload
<1>8. CASE ~Failing /\ Flush(d)
  <2>1. /\ flushed' = inserted /\ Goto(d, "graph") /\ fault' = fault /\ inserted' = inserted
        /\ upload[d].pc = "flush"
    BY <1>8 DEF Flush, At
  <2>2. {d} \X (0 .. upload[d].n - 1) \subseteq inserted
    BY <1>1, <2>1 DEF UploadProper
  <2> QED BY <1>1, <1>2, <2>1, <2>2, OneUpload
<1>9. CASE GraphNodes(d)
  <2>1. Goto(d, "ok") /\ fault' = fault /\ UNCHANGED <<inserted, flushed>> /\ upload[d].pc = "graph"
    BY <1>9 DEF GraphNodes, At, store
  <2>2. {d} \X (0 .. upload[d].n - 1) \subseteq inserted /\ {d} \X (0 .. upload[d].n - 1) \subseteq flushed
    BY <1>1, <2>1 DEF UploadProper
  <2> QED BY <1>1, <1>2, <2>1, <2>2, OneUpload
<1> QED BY <1>3, <1>5, <1>6, <1>7, <1>8, <1>9

LEMMA UploadInvNext == UploadInv /\ [Next]_vars => UploadInv'
<1>1. SUFFICES ASSUME UploadInv, [Next]_vars PROVE UploadInv'
  OBVIOUS
<1>2. ASSUME UNCHANGED <<upload, fault, inserted, flushed>> PROVE UploadInv'
  BY <1>1, <1>2 DEF UploadInv, UploadProper, ChunksOf
<1>3. ASSUME NEW d \in Docs, NEW t \in Texts[d], Upload(d, t) PROVE UploadInv'
  BY <1>1, <1>3, UploadStarts
<1>4. ASSUME NEW d \in Docs, UploadUnreadable(d) PROVE UploadInv'
  BY <1>1, <1>4, FailKeeps DEF UploadUnreadable, store
<1>5. ASSUME NEW d \in Docs, UploadStep(d) PROVE UploadInv'
  BY <1>1, <1>5, ChunkingKeeps, StoringKeeps DEF UploadStep
<1>6. ASSUME NEW q \in Queries, NEW m \in Modes, StartQuery(q, m) PROVE UploadInv'
  BY <1>2, <1>6 DEF StartQuery, store
<1>7. ASSUME NEW q \in Queries, QueryStep(q) PROVE UploadInv'
  BY <1>2, <1>7 DEF QueryStep, Search, SearchPanics, Combine, EndQuery, store
<1>8. CASE Restart
  <2> DEFINE lost == [NoUpload EXCEPT !.pc = "lost"]
  <2>1. /\ upload' = [d \in Docs |-> IF upload[d].pc \in Answered \cup {"idle"} THEN upload[d] ELSE lost]
        /\ UNCHANGED <<fault, inserted, flushed>>
    BY <1>8 DEF Restart, store
  <2>2. IsUpload(lost) /\ lost.pc = "lost" /\ lost.n = 0 /\ lost.out = << >> /\ IsSeq(<< >>)
    BY NoUploadIs, EmptyIsSeq
  <2> HIDE DEF lost
  <2>3. ASSUME NEW d \in Docs PROVE UploadProper(d)'
    <3>1. CASE upload'[d] = upload[d]
      <4>1. UploadProper(d) /\ ChunksOf(d)' = ChunksOf(d)
        BY <1>1, <3>1 DEF UploadInv, ChunksOf
      <4> QED BY <4>1, <3>1, <2>1 DEF UploadProper
    <3>2. CASE upload'[d] = lost
      BY <2>2, <3>2 DEF UploadProper
    <3> QED BY <2>1, <3>1, <3>2
  <2>4. upload' = [d \in Docs |-> upload'[d]]
    BY <2>1
  <2> QED BY <1>1, <2>1, <2>3, <2>4 DEF UploadInv
<1>9. CASE UNCHANGED vars
  BY <1>2, <1>9 DEF vars, store
<1> QED BY <1>1, <1>3, <1>4, <1>5, <1>6, <1>7, <1>8, <1>9 DEF Next

LEMMA UploadInvInit == Init => UploadInv
<1>1. SUFFICES ASSUME Init PROVE UploadInv
  OBVIOUS
<1>2. IsUpload(NoUpload) /\ NoUpload.n = 0 /\ NoUpload.out = << >> /\ NoUpload.pc = "idle"
  BY DEF NoUpload, IsUpload, UploadFields
<1>3. IsFiniteSet({})
  BY FS_EmptySet
<1>4. upload = [d \in Docs |-> NoUpload] /\ inserted = {} /\ flushed = {}
  BY <1>1 DEF Init
<1>5. \A d \in Docs : UploadProper(d)
  BY <1>2, <1>4, EmptyIsSeq DEF UploadProper
<1> QED BY <1>3, <1>4, <1>5 DEF UploadInv

\* Whatever the uploads, searches and restarts do in between, the chunks of an upload
\* that has got as far as the answer 200 are flushed (IngestDocument).
THEOREM UploadsCorrect == Spec => []UploadInv
BY UploadInvInit, UploadInvNext, PTL DEF Spec

\* 200 means that the chunks of the document are flushed, 500 that a service failed it:
\* no upload fails because of another (IngestDocument, CreateCollection, Flush).
THEOREM AnswersHold == Spec => []AnswersAreTrue
<1>1. UploadInv => AnswersAreTrue
  BY DEF UploadInv, UploadProper, AnswersAreTrue
<1> QED BY <1>1, UploadsCorrect, PTL

-----------------------------------------------------------------------------
(***************************************************************************)
(* The scores of reciprocal rank fusion.                                   *)
(***************************************************************************)
LEMMA ProductsDef ==
    /\ Products[0] = 1
    /\ \A n \in 1 .. 2 * TopK : Products[n] = Products[n - 1] * (K + n)
<1> DEFINE N == 2 * TopK
           F == [x \in Nat \X (1 .. N) |-> x[1] * (K + x[2])]
           Body(f, n) == IF n = 0 THEN 1 ELSE f[n - 1] * (K + n)
<1>1. N \in Nat /\ 1 \in Nat
  BY TopKAssumption
<1> HIDE DEF N
<1>2. F \in [Nat \X (1 .. N) -> Nat] /\ \A p \in Nat, n \in 1 .. N : F[<<p, n>>] = p * (K + n)
  BY <1>1 DEF K
<1> HIDE DEF F
<1>3. PICK f \in [0 .. N -> Nat] : f[0] = 1 /\ \A n \in 1 .. N : f[n] = F[<<f[n - 1], n>>]
  <2>1. Iterates(N, Nat, 1, F)
    BY <1>1, <1>2, Iteration
  <2> QED BY <2>1 DEF Iterates
<1>4. \A n \in 0 .. N : f[n] = Body(f, n)
  <2>1. ASSUME NEW n \in 1 .. N PROVE f[n] = Body(f, n)
    <3>1. n - 1 \in 0 .. N /\ n # 0
      BY <1>1
    <3>2. f[n - 1] \in Nat
      BY <3>1
    <3> QED BY <3>1, <3>2, <1>2, <1>3
  <2> QED BY <1>1, <1>3, <2>1
<1>5. f = [n \in 0 .. N |-> Body(f, n)]
  <2> HIDE DEF Body
  <2> QED BY <1>4
<1>6. Products = CHOOSE g : g = [n \in 0 .. N |-> Body(g, n)]
  BY DEF Products, N
<1>7. Products = [n \in 0 .. N |-> Body(Products, n)]
  <2> HIDE DEF Body
  <2> QED BY <1>5, <1>6
<1>8. \A n \in 0 .. N : Products[n] = Body(Products, n)
  <2> HIDE DEF Body
  <2> QED BY <1>7
<1> QED BY <1>1, <1>8 DEF N

\* The common denominator is a multiple of the denominator of each rank.
LEMMA ProductsDivide ==
    \A n \in 0 .. 2 * TopK :
      /\ Products[n] \in Nat \ {0}
      /\ \A r \in 1 .. n : \E a \in Nat : Products[n] = (K + r) * a
<1> DEFINE Top == 2 * TopK
           P(n) == /\ Products[n] \in Nat \ {0}
                   /\ \A r \in 1 .. n : \E a \in Nat : Products[n] = (K + r) * a
           T == {n \in 0 .. Top : P(n)}
<1>0. Top \in Nat
  BY TopKAssumption
<1>1. Products[0] = 1 /\ \A n \in 1 .. Top : Products[n] = Products[n - 1] * (K + n)
  BY ProductsDef
<1> HIDE DEF Top
<1>2. P(0)
  BY <1>1
<1>3. ASSUME NEW n \in 1 .. Top, P(n - 1) PROVE P(n)
  <2>1. PICK p \in Nat \ {0} : Products[n - 1] = p /\ Products[n] = p * (K + n)
    BY <1>1, <1>3
  <2>2. K + n \in Nat \ {0} /\ n \in Nat
    BY <1>0 DEF K
  <2>3. Products[n] \in Nat \ {0}
    BY <2>1, <2>2
  <2>4. ASSUME NEW r \in 1 .. n PROVE \E a \in Nat : Products[n] = (K + r) * a
    <3>0. K + r \in Nat
      BY <2>2 DEF K
    <3>1. CASE r = n
      <4>1. p * (K + n) = (K + n) * p
        BY <2>1, <2>2
      <4> QED BY <2>1, <3>1, <4>1
    <3>2. CASE r \in 1 .. n - 1
      <4>1. PICK a \in Nat : p = (K + r) * a
        BY <3>2, <1>3, <2>1
      <4>2. a * (K + n) \in Nat
        BY <2>2
      <4>3. ((K + r) * a) * (K + n) = (K + r) * (a * (K + n))
        BY <2>2, <3>0
      <4> QED BY <2>1, <4>1, <4>2, <4>3
    <3> QED BY <3>1, <3>2, <2>2
  <2> QED BY <2>3, <2>4
<1>4. T = 0 .. Top
  <2> HIDE DEF P
  <2>1. 0 \in T /\ T \in SUBSET (0 .. Top)
    BY <1>2, <1>0
  <2>2. ASSUME NEW n \in 1 .. Top, n - 1 \in T PROVE n \in T
    BY <2>2, <1>3
  <2> HIDE DEF T
  <2> QED BY <2>1, <2>2, <1>0, UpTo
<1>5. \A n \in 0 .. Top : P(n)
  <2> HIDE DEF P
  <2> QED BY <1>4
<1> QED BY <1>5 DEF Top

LEMMA ExactDivision ==
    ASSUME NEW m \in Nat \ {0}, NEW a \in Nat
    PROVE  (m * a) \div m = a
OBVIOUS

LEMMA RankScoreIs ==
    ASSUME NEW r \in 1 .. 2 * TopK
    PROVE  RankScore(r) \in Nat /\ Denominator = (K + r) * RankScore(r) /\ Denominator \in Nat \ {0}
<1>1. 2 * TopK \in 0 .. 2 * TopK /\ r \in Nat
  BY TopKAssumption
<1>2. Denominator \in Nat \ {0}
  BY <1>1, ProductsDivide DEF Denominator
<1>3. PICK a \in Nat : Denominator = (K + r) * a
  BY <1>1, ProductsDivide DEF Denominator
<1>4. K + r \in Nat \ {0}
  BY <1>1 DEF K
<1>5. RankScore(r) = a
  BY <1>3, <1>4, ExactDivision DEF RankScore
<1> QED BY <1>2, <1>3, <1>5

\* Two scores, however low, are more than one, however high.
LEMMA TwoBeatOne ==
    ASSUME TopK <= 30, NEW i \in 1 .. 2 * TopK, NEW j \in 1 .. 2 * TopK, NEW k \in 1 .. 2 * TopK
    PROVE  RankScore(i) + RankScore(j) > RankScore(k)
<1> DEFINE a == RankScore(i)
           b == RankScore(j)
           c == RankScore(k)
           D == Denominator
<1>1. /\ a \in Nat /\ b \in Nat /\ c \in Nat /\ D \in Nat \ {0}
      /\ D = (60 + i) * a /\ D = (60 + j) * b /\ D = (60 + k) * c
  BY RankScoreIs DEF K
<1>2. i \in Nat /\ j \in Nat /\ k \in Nat /\ i <= 60 /\ j <= 60 /\ k >= 1
  BY TopKAssumption
<1> HIDE DEF a, b, c, D
<1>3. D <= 120 * a
  BY <1>1, <1>2
<1>4. D <= 120 * b
  BY <1>1, <1>2
<1>5. 61 * c <= D
  BY <1>1, <1>2
<1>6. a + b > c
  BY <1>1, <1>3, <1>4, <1>5
<1> QED BY <1>6 DEF a, b, c

-----------------------------------------------------------------------------
\* The result of one search of a hybrid query.
IsRanking(s) == IsSeq(s) /\ Len(s) <= 2 * TopK

LEMMA RankingScore ==
    ASSUME NEW s, IsRanking(s), NEW id
    PROVE  IF id \in ToSet(s) THEN \E r \in 1 .. 2 * TopK : ScoreIn(id, s) = RankScore(r)
                              ELSE ScoreIn(id, s) = 0
<1>1. CASE id \in ToSet(s)
  <2>1. DOMAIN s = 1 .. Len(s) /\ Len(s) \in Nat /\ 2 * TopK \in Nat /\ Len(s) <= 2 * TopK
    BY TopKAssumption DEF IsRanking, IsSeq
  <2>2. \E i \in DOMAIN s : s[i] = id
    BY <1>1 DEF ToSet
  <2>3. RankOf(id, s) \in DOMAIN s
    BY <2>2 DEF RankOf
  <2>4. RankOf(id, s) \in 1 .. 2 * TopK
    BY <2>1, <2>3
  <2> QED BY <1>1, <2>4 DEF ScoreIn
<1>2. CASE id \notin ToSet(s)
  BY <1>2 DEF ScoreIn
<1> QED BY <1>1, <1>2

\* What both searches found has the higher score.
LEMMA BothScoreHigher ==
    ASSUME TopK <= 30, NEW vec, IsRanking(vec), NEW kw, IsRanking(kw),
           NEW x \in ToSet(vec) \cap ToSet(kw),
           NEW y \in (ToSet(vec) \cup ToSet(kw)) \ (ToSet(vec) \cap ToSet(kw))
    PROVE  /\ FusedScore(x, vec, kw) \in Nat /\ FusedScore(y, vec, kw) \in Nat
           /\ FusedScore(x, vec, kw) > FusedScore(y, vec, kw)
<1>1. PICK i \in 1 .. 2 * TopK : ScoreIn(x, vec) = RankScore(i)
  BY RankingScore
<1>2. PICK j \in 1 .. 2 * TopK : ScoreIn(x, kw) = RankScore(j)
  BY RankingScore
<1>3. PICK k \in 1 .. 2 * TopK :
        \/ ScoreIn(y, vec) = RankScore(k) /\ ScoreIn(y, kw) = 0
        \/ ScoreIn(y, vec) = 0 /\ ScoreIn(y, kw) = RankScore(k)
  <2>1. CASE y \in ToSet(vec) /\ y \notin ToSet(kw)
    <3>1. \E k \in 1 .. 2 * TopK : ScoreIn(y, vec) = RankScore(k)
      BY <2>1, RankingScore
    <3>2. ScoreIn(y, kw) = 0
      BY <2>1, RankingScore
    <3> QED BY <3>1, <3>2
  <2>2. CASE y \notin ToSet(vec) /\ y \in ToSet(kw)
    <3>1. \E k \in 1 .. 2 * TopK : ScoreIn(y, kw) = RankScore(k)
      BY <2>2, RankingScore
    <3>2. ScoreIn(y, vec) = 0
      BY <2>2, RankingScore
    <3> QED BY <3>1, <3>2
  <2> QED BY <2>1, <2>2
<1>4. RankScore(i) \in Nat /\ RankScore(j) \in Nat /\ RankScore(k) \in Nat
  BY RankScoreIs
<1>5. RankScore(i) + RankScore(j) > RankScore(k)
  BY TwoBeatOne
<1>6. FusedScore(x, vec, kw) = RankScore(i) + RankScore(j)
  BY <1>1, <1>2 DEF FusedScore
<1>7. FusedScore(y, vec, kw) = RankScore(k)
  BY <1>3, <1>4 DEF FusedScore
<1> QED BY <1>4, <1>5, <1>6, <1>7

LEMMA RankingScoreNat ==
    ASSUME NEW s, IsRanking(s), NEW id
    PROVE  ScoreIn(id, s) \in Nat
<1>1. CASE id \in ToSet(s)
  BY <1>1, RankingScore, RankScoreIs
<1>2. CASE id \notin ToSet(s)
  BY <1>2, RankingScore
<1> QED BY <1>1, <1>2

\* A list whose neighbours are in order is in order.
LEMMA SortedAll ==
    ASSUME NEW N \in Nat, NEW f, \A i \in 1 .. N : f[i] \in Nat,
           \A i \in 1 .. N - 1 : f[i] >= f[i + 1],
           NEW i \in 1 .. N
    PROVE  \A j \in i .. N : f[i] >= f[j]
<1> DEFINE P(n) == i + n <= N => f[i] >= f[i + n]
           T == {n \in 0 .. N : P(n)}
<1>1. P(0)
  OBVIOUS
<1>2. ASSUME NEW n \in 1 .. N, P(n - 1) PROVE P(n)
  <2>1. SUFFICES ASSUME i + n <= N PROVE f[i] >= f[i + n]
    OBVIOUS
  <2> DEFINE m == i + (n - 1)
  <2>2. m \in 1 .. N - 1 /\ m + 1 = i + n /\ m <= N /\ i + n \in 1 .. N
    BY <2>1
  <2>3. f[i] >= f[m]
    BY <1>2, <2>2
  <2> HIDE DEF m
  <2>4. f[m] >= f[m + 1] /\ f[m] \in Nat /\ f[m + 1] \in Nat /\ f[i] \in Nat
    BY <2>2
  <2> QED BY <2>2, <2>3, <2>4
<1>3. T = 0 .. N
  <2> HIDE DEF P
  <2>1. 0 \in T /\ T \in SUBSET (0 .. N)
    BY <1>1
  <2>2. ASSUME NEW n \in 1 .. N, n - 1 \in T PROVE n \in T
    BY <2>2, <1>2
  <2> HIDE DEF T
  <2> QED BY <2>1, <2>2, UpTo
<1>4. ASSUME NEW j \in i .. N PROVE f[i] >= f[j]
  <2>1. j - i \in 0 .. N /\ i + (j - i) = j /\ j <= N
    OBVIOUS
  <2>2. P(j - i)
    <3> HIDE DEF P
    <3> QED BY <2>1, <1>3
  <2> QED BY <2>1, <2>2
<1> QED BY <1>4

\* The elements of a sequence are finitely many, and a list of each of them once has all.
LEMMA ToSetFinite == ASSUME NEW s, IsSeq(s) PROVE IsFiniteSet(ToSet(s))
<1>1. s \in [1 .. Len(s) -> ToSet(s)] /\ DOMAIN s = 1 .. Len(s) /\ Len(s) \in Int /\ 1 \in Int
  BY DEF IsSeq
<1>2. \A x \in ToSet(s) : \E i \in 1 .. Len(s) : s[i] = x
  BY <1>1 DEF ToSet
<1>3. s \in Surjection(1 .. Len(s), ToSet(s))
  BY <1>1, <1>2 DEF Surjection
<1>4. IsFiniteSet(1 .. Len(s))
  BY <1>1, FS_Interval
<1> QED BY <1>3, <1>4, FS_Surjection

LEMMA EachListed ==
    ASSUME NEW S, IsFiniteSet(S), NEW s \in SetToSeqs(S)
    PROVE  /\ s \in [1 .. Cardinality(S) -> S] /\ Cardinality(S) \in Nat
           /\ s \in Seq(S) /\ Len(s) = Cardinality(S)
           /\ \A x \in S : \E i \in 1 .. Len(s) : s[i] = x
<1> DEFINE N == Cardinality(S)
<1>1. N \in Nat /\ 1 \in Int /\ N \in Int
  BY FS_CardinalityType
<1>2. s \in [1 .. N -> S] /\ \A i, j \in 1 .. N : i # j => s[i] # s[j]
  BY DEF SetToSeqs
<1> HIDE DEF N
<1>3. s \in Seq(S) /\ Len(s) = N
  BY <1>1, <1>2
<1>4. s \in Injection(1 .. N, S)
  BY <1>2 DEF Injection, IsInjective
<1>5. IsFiniteSet(1 .. N) /\ Cardinality(1 .. N) = N
  BY <1>1, FS_Interval
<1>6. s \in Surjection(1 .. N, S)
  BY <1>4, <1>5, FS_Injection DEF N
<1>7. \A x \in S : \E i \in 1 .. N : s[i] = x
  BY <1>6 DEF Surjection
<1> QED BY <1>1, <1>2, <1>3, <1>7 DEF N

\* What HybridSearch makes of two rankings.
LEMMA HybridOrder ==
    ASSUME TopK <= 30, NEW vec, IsRanking(vec), NEW kw, IsRanking(kw),
           NEW sources \in HybridResults(vec, kw)
    PROVE  LET Both == ToSet(vec) \cap ToSet(kw)
           IN  \/ ToSet(sources) \subseteq Both
               \/ /\ Both \subseteq ToSet(sources)
                  /\ \A i, j \in DOMAIN sources :
                       sources[i] \in Both /\ sources[j] \notin Both => i < j
<1> DEFINE Both == ToSet(vec) \cap ToSet(kw)
           All == ToSet(vec) \cup ToSet(kw)
           Score == [id \in All |-> FusedScore(id, vec, kw)]
<1>1. PICK s \in SetToSeqs(All) :
        /\ \A i \in 1 .. Len(s) - 1 : Score[s[i]] >= Score[s[i + 1]]
        /\ sources = SubSeq(s, 1, Min({TopK, Len(s)}))
  BY DEF HybridResults
<1>2. IsFiniteSet(All)
  BY ToSetFinite, FS_Union DEF IsRanking
<1>3. /\ s \in Seq(All) /\ Len(s) \in Nat
      /\ \A x \in All : \E i \in 1 .. Len(s) : s[i] = x
      /\ \A i \in 1 .. Len(s) : s[i] \in All
  <2> HIDE DEF All
  <2> QED BY <1>2, EachListed
<1>4. \A x \in All : Score[x] = FusedScore(x, vec, kw) /\ Score[x] \in Nat
  BY RankingScoreNat DEF FusedScore
<1> DEFINE n == Min({TopK, Len(s)})
<1>5. n \in 0 .. Len(s)
  BY <1>3, TopKAssumption DEF Min
<1> HIDE DEF n, Score
<1>6. \A i, j \in 1 .. Len(s) : s[i] \in Both /\ s[j] \notin Both => i < j
  <2>1. SUFFICES ASSUME NEW i \in 1 .. Len(s), NEW j \in 1 .. Len(s),
                        s[i] \in Both, s[j] \notin Both, j <= i
                 PROVE  FALSE
    BY <1>3
  <2> DEFINE f == [m \in 1 .. Len(s) |-> Score[s[m]]]
  <2>2. \A m \in 1 .. Len(s) : f[m] \in Nat
    BY <1>3, <1>4
  <2>3. \A m \in 1 .. Len(s) - 1 : f[m] >= f[m + 1]
    BY <1>1, <1>3
  <2>4. f[j] = Score[s[j]] /\ f[i] = Score[s[i]] /\ i \in j .. Len(s)
    BY <2>1
  <2> HIDE DEF f
  <2>5. f[j] >= f[i]
    <3>1. \A m \in j .. Len(s) : f[j] >= f[m]
      BY <1>3, <2>2, <2>3, SortedAll
    <3> QED BY <3>1, <2>4
  <2>6. s[i] \in Both /\ s[j] \in All \ Both /\ s[i] \in All
    BY <1>3, <2>1
  <2>7. FusedScore(s[i], vec, kw) > FusedScore(s[j], vec, kw)
    BY <2>6, BothScoreHigher
  <2>8. Score[s[i]] > Score[s[j]] /\ Score[s[i]] \in Nat /\ Score[s[j]] \in Nat
    BY <2>6, <2>7, <1>4
  <2> QED BY <2>4, <2>5, <2>8
<1> HIDE DEF Both, All
<1>7. /\ DOMAIN sources = 1 .. n
      /\ \A i \in 1 .. n : sources[i] = s[i] /\ i \in 1 .. Len(s)
  <2>1. sources = SubSeq(s, 1, n)
    BY <1>1 DEF n
  <2>2. /\ Len(SubSeq(s, 1, n)) = n /\ SubSeq(s, 1, n) \in Seq(All)
        /\ \A i \in 1 .. n : SubSeq(s, 1, n)[i] = s[i] /\ i \in 1 .. Len(s)
    BY <1>3, <1>5
  <2>3. DOMAIN SubSeq(s, 1, n) = 1 .. n
    BY <2>2
  <2> QED BY <2>1, <2>2, <2>3
<1>8. CASE ToSet(sources) \subseteq Both
  BY <1>8 DEF Both
<1>9. CASE ~(ToSet(sources) \subseteq Both)
  <2>1. PICK j \in 1 .. n : s[j] \notin Both
    BY <1>9, <1>7 DEF ToSet
  <2>2. ASSUME NEW x \in Both PROVE x \in ToSet(sources)
    <3>1. PICK i \in 1 .. Len(s) : s[i] = x
      BY <1>3 DEF Both, All
    <3>2. i < j
      BY <3>1, <2>1, <1>6, <1>7
    <3>3. i \in 1 .. n
      BY <3>1, <3>2, <1>5
    <3> QED BY <3>1, <3>3, <1>7 DEF ToSet
  <2>3. \A i, k \in DOMAIN sources : sources[i] \in Both /\ sources[k] \notin Both => i < k
    BY <1>6, <1>7
  <2> QED BY <2>2, <2>3 DEF Both
<1> QED BY <1>8, <1>9

-----------------------------------------------------------------------------
(***************************************************************************)
(* Queries.                                                                *)
(***************************************************************************)
QueryFields == {"pc", "mode", "found", "error", "sources"}
IsQuery(x) == x = [f \in QueryFields |-> x[f]]

\* What a hybrid query has found are rankings; its answer comes of both of them.
QueryProper(q) ==
    LET x == query[q] IN
      /\ IsQuery(x)
      /\ x.mode = "hybrid" =>
           /\ \A p \in DOMAIN x.found : IsRanking(x.found[p])
           /\ x.pc = "result" =>
                /\ {"vector", "keyword"} \subseteq DOMAIN x.found
                /\ x.sources \in HybridResults(x.found["vector"], x.found["keyword"])

QueryInv == /\ query = [q \in Queries |-> query[q]]
            /\ \A q \in Queries : QueryProper(q)

\* A step of one query.
LEMMA OneQueryStep ==
    ASSUME QueryInv, NEW q \in Queries, NEW x, query' = [query EXCEPT ![q] = x], IsQuery(x),
           x.mode = "hybrid" =>
             /\ \A p \in DOMAIN x.found : IsRanking(x.found[p])
             /\ x.pc = "result" =>
                  /\ {"vector", "keyword"} \subseteq DOMAIN x.found
                  /\ x.sources \in HybridResults(x.found["vector"], x.found["keyword"])
    PROVE  QueryInv'
<1>1. query = [p \in Queries |-> query[p]]
  BY DEF QueryInv
<1>2. query'[q] = x /\ \A p \in Queries \ {q} : query'[p] = query[p]
  BY <1>1
<1>3. query' = [p \in Queries |-> query'[p]]
  BY <1>1
<1>4. ASSUME NEW p \in Queries PROVE QueryProper(p)'
  <2>1. CASE p = q
    BY <2>1, <1>2 DEF QueryProper
  <2>2. CASE p # q
    BY <2>2, <1>2 DEF QueryProper, QueryInv
  <2> QED BY <2>1, <2>2
<1> QED BY <1>3, <1>4 DEF QueryInv

LEMMA NoQueryIs ==
    IsQuery(NoQuery) /\ NoQuery.mode = "none" /\ NoQuery.found = << >> /\ NoQuery.pc = "idle"
BY DEF IsQuery, NoQuery, QueryFields

\* A search that is limited to 2 * TopK returns a ranking, and so does one that fails.
LEMMA SearchRanks ==
    ASSUME NEW Chunks, IsFiniteSet(Chunks), NEW part,
           NEW r \in (IF part = "keyword" THEN KeywordRankings(Chunks, 2 * TopK)
                                         ELSE Rankings(Chunks, 2 * TopK))
    PROVE  IsRanking(r)
<1>1. 2 * TopK \in Nat /\ Cardinality(Chunks) \in Nat
  BY TopKAssumption, FS_CardinalityType
<1>2. /\ Min({2 * TopK, Cardinality(Chunks)}) \in Nat
      /\ Min({2 * TopK, Cardinality(Chunks)}) <= 2 * TopK
  BY <1>1 DEF Min
<1>3. PICK n \in Nat : n <= 2 * TopK /\ r \in Orders(Chunks, n)
  <2>1. CASE part = "keyword"
    <3>1. PICK n \in 0 .. Min({2 * TopK, Cardinality(Chunks)}) : r \in Orders(Chunks, n)
      BY <2>1 DEF KeywordRankings
    <3> QED BY <3>1, <1>1, <1>2
  <2>2. CASE part # "keyword"
    BY <2>2, <1>2 DEF Rankings
  <2> QED BY <2>1, <2>2
<1>4. r \in [1 .. n -> Chunks]
  BY <1>3 DEF Orders
<1>5. r \in Seq(Chunks) /\ Len(r) = n
  BY <1>4
<1> QED BY <1>3, <1>5, SeqIsSeq DEF IsRanking

LEMMA EmptyRanking == IsRanking(<< >>)
<1>1. Len(<< >>) = 0 /\ 0 <= 2 * TopK
  BY TopKAssumption
<1> QED BY <1>1, EmptyIsSeq DEF IsRanking

LEMMA QueryKeeps ==
    ASSUME QueryInv, UploadInv, NEW q \in Queries, QueryStep(q)
    PROVE  QueryInv'
<1>1. query = [p \in Queries |-> query[p]] /\ QueryProper(q) /\ IsQuery(query[q])
  BY DEF QueryInv, QueryProper
<1>2. ASSUME query' = [query EXCEPT ![q] = NoQuery] PROVE QueryInv'
  BY <1>2, NoQueryIs, OneQueryStep
<1>3. ASSUME NEW part \in Pending(q), Search(q, part) PROVE QueryInv'
  <2> DEFINE y(r, e) == [query[q] EXCEPT !.found = With(query[q].found, part, r), !.error = e]
  <2>1. PICK r, e : /\ query[q].pc = "search"
                    /\ query' = [query EXCEPT ![q] = y(r, e)]
                    /\ query[q].mode = "hybrid" => IsRanking(r)
    <3>1. IsFiniteSet(flushed) /\ IsFiniteSet(inserted)
      BY FS_Subset DEF UploadInv
    <3>2. CASE query' = [query EXCEPT ![q].found = With(@, part, <<>>), ![q].error = TRUE]
      <4>1. query' = [query EXCEPT ![q] = y(<< >>, TRUE)]
        BY <1>1, <3>2
      <4>2. query[q].pc = "search"
        BY <1>3 DEF Search
      <4> HIDE DEF y
      <4> QED BY <4>1, <4>2, EmptyRanking
    <3>3. ASSUME NEW Visible \in {flushed, inserted},
                 NEW r \in (IF part = "keyword" THEN KeywordRankings(Visible, Limit(query[q].mode))
                                                ELSE Rankings(Visible, Limit(query[q].mode))),
                 query' = [query EXCEPT ![q].found = With(@, part, r)]
          PROVE  \E rr, e : /\ query[q].pc = "search"
                            /\ query' = [query EXCEPT ![q] = y(rr, e)]
                            /\ query[q].mode = "hybrid" => IsRanking(rr)
      <4>1. query[q].mode = "hybrid" => IsRanking(r)
        BY <3>1, <3>3, SearchRanks DEF Limit
      <4>2. [query[q] EXCEPT !.found = With(query[q].found, part, r)] = y(r, query[q].error)
        BY <1>1 DEF IsQuery, QueryFields
      <4>3. query' = [query EXCEPT ![q] = [query[q] EXCEPT !.found = With(query[q].found, part, r)]]
        BY <1>1, <3>3
      <4>4. query[q].pc = "search"
        BY <1>3 DEF Search
      <4> HIDE DEF y
      <4> QED BY <4>1, <4>2, <4>3, <4>4
    <3> HIDE DEF y
    <3> QED BY <1>3, <3>2, <3>3 DEF Search
  <2> DEFINE x == y(r, e)
  <2>2. IsQuery(x) /\ x.pc = query[q].pc /\ x.mode = query[q].mode
        /\ x.found = With(query[q].found, part, r)
    BY <1>1 DEF IsQuery, QueryFields
  <2>3. query' = [query EXCEPT ![q] = x] /\ x.pc = "search"
    BY <2>1, <2>2
  <2> HIDE DEF x
  <2>4. ASSUME x.mode = "hybrid", NEW p \in DOMAIN x.found PROVE IsRanking(x.found[p])
    BY <1>1, <2>1, <2>2, <2>4 DEF With, QueryProper
  <2> QED BY <2>2, <2>3, <2>4, OneQueryStep
<1>4. CASE SearchPanics(q)
  <2>1. query' = query \/ query' = [query EXCEPT ![q] = NoQuery]
    BY <1>4 DEF SearchPanics
  <2> QED BY <2>1, <1>2 DEF QueryInv, QueryProper
<1>5. CASE Combine(q)
  <2>1. PICK s \in Sources(q) :
          \/ query' = [query EXCEPT ![q] = NoQuery]
          \/ query' = [query EXCEPT ![q] = [query[q] EXCEPT !.pc = "result", !.sources = s]]
    BY <1>1, <1>5 DEF Combine
  <2> DEFINE x == [query[q] EXCEPT !.pc = "result", !.sources = s]
  <2>2. IsQuery(x) /\ x.mode = query[q].mode /\ x.found = query[q].found /\ x.sources = s
    BY <1>1 DEF IsQuery, QueryFields
  <2>3. query' = [query EXCEPT ![q] = NoQuery] \/ query' = [query EXCEPT ![q] = x]
    BY <2>1
  <2> HIDE DEF x
  <2>4. ASSUME x.mode = "hybrid"
        PROVE  /\ {"vector", "keyword"} \subseteq DOMAIN x.found
               /\ x.sources \in HybridResults(x.found["vector"], x.found["keyword"])
    <3>1. Parts("hybrid") = {"vector", "keyword"}
      BY DEF Parts
    <3>2. {"vector", "keyword"} \subseteq DOMAIN query[q].found
      BY <3>1, <1>5, <2>2, <2>4 DEF Combine, Pending
    <3>3. s \in HybridResults(query[q].found["vector"], query[q].found["keyword"])
      BY <2>1, <2>2, <2>4 DEF Sources
    <3> QED BY <3>2, <3>3, <2>2
  <2>5. x.mode = "hybrid" => \A p \in DOMAIN x.found : IsRanking(x.found[p])
    BY <1>1, <2>2 DEF QueryProper
  <2> QED BY <1>2, <2>2, <2>3, <2>4, <2>5, OneQueryStep
<1>6. CASE EndQuery(q)
  BY <1>2, <1>6 DEF EndQuery
<1> QED BY <1>3, <1>4, <1>5, <1>6 DEF QueryStep

LEMMA QueryInvNext == QueryInv /\ UploadInv /\ [Next]_vars => QueryInv'
<1>1. SUFFICES ASSUME QueryInv, UploadInv, [Next]_vars PROVE QueryInv'
  OBVIOUS
<1>2. ASSUME query' = query PROVE QueryInv'
  BY <1>1, <1>2 DEF QueryInv, QueryProper
<1>3. CASE \E d \in Docs : \E t \in Texts[d] : Upload(d, t)
  BY <1>2, <1>3 DEF Upload
<1>4. CASE \E d \in Docs : UploadUnreadable(d) \/ UploadStep(d)
  BY <1>2, <1>4 DEF UploadUnreadable, UploadStep, TakePiece, TakeWindow, OutOfMemory, EndPieces,
     TakeBreak, Embed, CheckCollection, CreateCollection, Insert, Flush, GraphNodes
<1>5. ASSUME NEW q \in Queries, NEW m \in Modes, StartQuery(q, m) PROVE QueryInv'
  <2> DEFINE x == [NoQuery EXCEPT !.pc = "search", !.mode = m]
  <2>1. query' = [query EXCEPT ![q] = x]
    BY <1>5 DEF StartQuery
  <2>2. IsQuery(x) /\ x.pc = "search" /\ x.found = << >>
    BY NoQueryIs DEF IsQuery, QueryFields
  <2> HIDE DEF x
  <2>3. DOMAIN x.found = {}
    BY <2>2
  <2> QED BY <1>1, <2>1, <2>2, <2>3, OneQueryStep
<1>6. ASSUME NEW q \in Queries, QueryStep(q) PROVE QueryInv'
  BY <1>1, <1>6, QueryKeeps
<1>7. CASE Restart
  <2>1. query' = [q \in Queries |-> NoQuery]
    BY <1>7 DEF Restart
  <2> QED BY <2>1, NoQueryIs DEF QueryInv, QueryProper
<1>8. CASE UNCHANGED vars
  BY <1>2, <1>8 DEF vars
<1> QED BY <1>1, <1>3, <1>4, <1>5, <1>6, <1>7, <1>8 DEF Next

LEMMA QueryInvInit == Init => QueryInv
BY NoQueryIs DEF Init, QueryInv, QueryProper

\* A chunk that both searches of a hybrid query found comes before those that one of them
\* found, and is not cut off for one of them, whatever the ranks: for a topK of up to 30
\* (beyond that two low ranks may weigh less than a high one; VectorStore.HybridSearch).
THEOREM AgreedComesFirst ==
    ASSUME TopK <= 30
    PROVE  Spec => []FoundByBothFirst
<1>1. QueryInv => FoundByBothFirst
  <2>1. SUFFICES ASSUME QueryInv, NEW q \in Queries,
                        query[q].pc = "result", query[q].mode = "hybrid"
                 PROVE  LET r == query[q]
                            Both == ToSet(r.found["vector"]) \cap ToSet(r.found["keyword"])
                        IN  \/ ToSet(r.sources) \subseteq Both
                            \/ /\ Both \subseteq ToSet(r.sources)
                               /\ \A i, j \in DOMAIN r.sources :
                                    r.sources[i] \in Both /\ r.sources[j] \notin Both => i < j
    BY DEF FoundByBothFirst
  <2> DEFINE vec == query[q].found["vector"]
             kw == query[q].found["keyword"]
  <2>2. /\ IsRanking(vec) /\ IsRanking(kw)
        /\ query[q].sources \in HybridResults(vec, kw)
    BY <2>1 DEF QueryInv, QueryProper
  <2> HIDE DEF vec, kw
  <2>3. LET Both == ToSet(vec) \cap ToSet(kw)
        IN  \/ ToSet(query[q].sources) \subseteq Both
            \/ /\ Both \subseteq ToSet(query[q].sources)
               /\ \A i, j \in DOMAIN query[q].sources :
                    query[q].sources[i] \in Both /\ query[q].sources[j] \notin Both => i < j
    BY <2>2, HybridOrder
  <2> QED BY <2>3 DEF vec, kw
<1>2. QueryInv /\ UploadInv /\ [Next]_vars => QueryInv'
  BY QueryInvNext
<1> QED BY <1>1, <1>2, QueryInvInit, UploadsCorrect, PTL DEF Spec

-----------------------------------------------------------------------------
(***************************************************************************)
(* The chunker.  FlattenSeq step by step.                                  *)
(***************************************************************************)
Joins(f, ss, A) == /\ f \in [0 .. Len(ss) -> Seq(A)]
                   /\ f[0] = << >>
                   /\ \A n \in 1 .. Len(ss) : f[n] = f[n - 1] \o ss[n]
                   /\ FlattenSeq(ss) = f[Len(ss)]

LEMMA FlattenIs ==
    ASSUME NEW A, NEW ss \in Seq(Seq(A))
    PROVE  \E f : Joins(f, ss, A)
<1> DEFINE N == Len(ss)
           S == Seq(A)
           F == [x \in S \X (1 .. N) |-> x[1] \o ss[x[2]]]
           Body(f, i) == IF i = 1 THEN ss[i] ELSE f[i - 1] \o ss[i]
           k == CHOOSE f : f = [i \in 1 .. N |-> Body(f, i)]
<1>1. N \in Nat /\ << >> \in S /\ \A n \in 1 .. N : ss[n] \in S
  OBVIOUS
<1> HIDE DEF N
<1>2. F \in [S \X (1 .. N) -> S] /\ \A s \in S, n \in 1 .. N : F[<<s, n>>] = s \o ss[n]
  <2>1. \A s \in S, t \in S : s \o t \in S
    BY ConcatProperties
  <2> HIDE DEF S
  <2>2. \A x \in S \X (1 .. N) : x[1] \o ss[x[2]] \in S
    BY <1>1, <2>1
  <2>3. \A s \in S, n \in 1 .. N : <<s, n>> \in S \X (1 .. N) /\ <<s, n>>[1] = s /\ <<s, n>>[2] = n
    OBVIOUS
  <2> QED BY <2>2, <2>3
<1> HIDE DEF F
<1>3. PICK g \in [0 .. N -> S] : g[0] = << >> /\ \A n \in 1 .. N : g[n] = F[<<g[n - 1], n>>]
  <2>1. Iterates(N, S, << >>, F)
    <3> HIDE DEF S
    <3> QED BY <1>1, <1>2, Iteration
  <2> QED BY <2>1 DEF Iterates
<1>4. \A n \in 1 .. N : n - 1 \in 0 .. N /\ g[n - 1] \in S /\ g[n] = g[n - 1] \o ss[n]
  <2> HIDE DEF S
  <2>1. \A n \in 1 .. N : n - 1 \in 0 .. N
    BY <1>1
  <2> QED BY <1>2, <1>3, <2>1
<1>11. N > 0 => g[1] = ss[1]
  <2>1. SUFFICES ASSUME N > 0 PROVE g[1] = ss[1]
    OBVIOUS
  <2>2. 1 \in 1 .. N /\ 1 - 1 = 0
    BY <1>1, <2>1
  <2>3. g[1] = << >> \o ss[1] /\ ss[1] \in S
    BY <1>1, <1>3, <1>4, <2>2
  <2> QED BY <2>3, ConcatEmptySeq
<1> DEFINE h == [i \in 1 .. N |-> g[i]]
<1>5. h = [i \in 1 .. N |-> Body(h, i)]
  <2>1. ASSUME NEW i \in 1 .. N PROVE h[i] = Body(h, i)
    <3>1. CASE i = 1
      <4>1. N > 0
        BY <1>1
      <4> QED BY <3>1, <4>1, <1>11
    <3>2. CASE i # 1
      <4>1. i - 1 \in 1 .. N
        BY <1>1, <3>2
      <4> QED BY <1>4, <3>2, <4>1
    <3> QED BY <3>1, <3>2
  <2>2. h = [i \in 1 .. N |-> h[i]]
    OBVIOUS
  <2> HIDE DEF h, Body
  <2> QED BY <2>1, <2>2
<1>6. k = [i \in 1 .. N |-> Body(k, i)]
  <2> HIDE DEF h, Body
  <2> QED BY <1>5
<1> HIDE DEF k
<1>7. \A i \in 1 .. N : k[i] = Body(k, i)
  <2> HIDE DEF Body
  <2> QED BY <1>6
<1> DEFINE T == {n \in 0 .. N : n > 0 => k[n] = g[n]}
<1>8. T = 0 .. N
  <2>1. 0 \in T /\ T \in SUBSET (0 .. N)
    BY <1>1
  <2>2. ASSUME NEW n \in 1 .. N, n - 1 \in T PROVE n \in T
    <3>1. CASE n = 1
      <4>1. N > 0 /\ k[1] = ss[1]
        BY <1>1, <1>7, <3>1
      <4>2. k[n] = g[n]
        BY <1>11, <3>1, <4>1
      <4> QED BY <4>2
    <3>2. CASE n # 1
      <4>1. n - 1 > 0 /\ n - 1 \in 1 .. N
        BY <1>1, <3>2
      <4>2. k[n - 1] = g[n - 1]
        BY <4>1, <2>2
      <4>3. k[n] = k[n - 1] \o ss[n] /\ g[n] = g[n - 1] \o ss[n]
        BY <1>4, <1>7, <3>2
      <4>4. k[n] = g[n]
        BY <4>2, <4>3
      <4> QED BY <4>4
    <3> QED BY <3>1, <3>2
  <2> HIDE DEF T
  <2> QED BY <2>1, <2>2, <1>1, UpTo
<1>9. FlattenSeq(ss) = g[N]
  <2>1. CASE N = 0
    <3>1. ss = << >>
      BY <2>1 DEF N
    <3> QED BY <3>1, <2>1, <1>3 DEF FlattenSeq, N
  <2>2. CASE N # 0
    <3>1. FlattenSeq(ss) = k[N]
      BY <2>2 DEF FlattenSeq, N, k
    <3>2. N \in 0 .. N /\ N > 0
      BY <1>1, <2>2
    <3>3. k[N] = g[N]
      BY <1>8, <3>2
    <3> QED BY <3>1, <3>3
  <2> QED BY <2>1, <2>2
<1>10. Joins(g, ss, A)
  BY <1>3, <1>4, <1>9 DEF Joins, N
<1> QED BY <1>10

LEMMA FlattenLaws ==
    ASSUME NEW A, NEW ss \in Seq(Seq(A)), NEW s \in Seq(A)
    PROVE  /\ FlattenSeq(ss) \in Seq(A)
           /\ FlattenSeq(Append(ss, s)) = FlattenSeq(ss) \o s
<1> DEFINE tt == Append(ss, s)
           N == Len(ss)
<1>1. /\ tt \in Seq(Seq(A)) /\ Len(tt) = N + 1 /\ N \in Nat /\ tt[N + 1] = s
      /\ \A i \in 1 .. N : tt[i] = ss[i]
  OBVIOUS
<1> HIDE DEF tt
<1>2. PICK f : Joins(f, ss, A)
  BY FlattenIs
<1>3. PICK g : Joins(g, tt, A)
  BY <1>1, FlattenIs
<1> DEFINE T == {n \in 0 .. N : f[n] = g[n]}
<1>4. T = 0 .. N
  <2>1. 0 \in T /\ T \in SUBSET (0 .. N)
    BY <1>1, <1>2, <1>3 DEF Joins
  <2>2. ASSUME NEW n \in 1 .. N, n - 1 \in T PROVE n \in T
    <3>1. n \in 1 .. N + 1
      BY <1>1
    <3>2. f[n] = f[n - 1] \o ss[n] /\ g[n] = g[n - 1] \o tt[n]
      BY <1>1, <1>2, <1>3, <3>1 DEF Joins
    <3>3. f[n] = g[n]
      BY <3>2, <2>2, <1>1
    <3> QED BY <3>3
  <2> HIDE DEF T
  <2> QED BY <2>1, <2>2, <1>1, UpTo
<1>5. N \in T /\ N + 1 \in 1 .. Len(tt) /\ (N + 1) - 1 = N
  <2>1. N \in 0 .. N /\ N + 1 \in 1 .. N + 1 /\ (N + 1) - 1 = N
    BY <1>1
  <2> HIDE DEF T, N
  <2> QED BY <1>1, <1>4, <2>1
<1>6. g[N + 1] = g[N] \o tt[N + 1] /\ FlattenSeq(tt) = g[N + 1]
  BY <1>1, <1>3, <1>5 DEF Joins
<1>7. FlattenSeq(ss) = f[N] /\ f[N] \in Seq(A)
  BY <1>1, <1>2 DEF Joins
<1> QED BY <1>1, <1>5, <1>6, <1>7 DEF tt

LEMMA FlattenEmpty == FlattenSeq(<< >>) = << >>
<1>1. Len(<< >>) = 0
  OBVIOUS
<1> QED BY <1>1 DEF FlattenSeq

-----------------------------------------------------------------------------
(* The letters of a text *)

LEMMA LettersIs ==
    ASSUME NEW s \in Seq(Nat)
    PROVE  /\ Letters(s) = Keep(s, Nat \ {NL})
           /\ Letters(s) \in Seq(Nat)
<1>1. ToSet(s) \cap (ToSet(s) \ {NL}) = ToSet(s) \cap (Nat \ {NL})
  <2>1. ToSet(s) \subseteq Nat
    BY DEF ToSet
  <2> QED BY <2>1
<1>2. Keep(s, ToSet(s) \ {NL}) = Keep(s, Nat \ {NL})
  BY <1>1, KeepSame
<1> QED BY <1>2, KeepTypes DEF Letters

LEMMA LettersAppend ==
    ASSUME NEW s \in Seq(Nat), NEW c \in Nat
    PROVE  Letters(Append(s, c)) = IF c = NL THEN Letters(s) ELSE Append(Letters(s), c)
<1>1. Append(s, c) \in Seq(Nat)
  OBVIOUS
<1>2. Keep(Append(s, c), Nat \ {NL}) = IF c \in Nat \ {NL} THEN Append(Keep(s, Nat \ {NL}), c)
                                                         ELSE Keep(s, Nat \ {NL})
  BY KeepAppend
<1> QED BY <1>1, <1>2, LettersIs

LEMMA LettersEmpty == Letters(<< >>) = << >>
BY KeepEmpty DEF Letters

\* Texts are joined in any grouping.
LEMMA JoinTexts ==
    ASSUME NEW x \in Seq(Nat), NEW y \in Seq(Nat), NEW z \in Seq(Nat)
    PROVE  (x \o y) \o z = x \o (y \o z)
<1> DEFINE l == (x \o y) \o z
           r == x \o (y \o z)
<1>1. /\ l \in Seq(Nat) /\ Len(l) = Len(x) + Len(y) + Len(z)
      /\ r \in Seq(Nat) /\ Len(r) = Len(x) + Len(y) + Len(z)
  OBVIOUS
<1>2. ASSUME NEW i \in 1 .. Len(l) PROVE l[i] = r[i]
  <2>1. CASE i <= Len(x)
    BY <2>1
  <2>2. CASE i > Len(x) /\ i <= Len(x) + Len(y)
    BY <2>2
  <2>3. CASE i > Len(x) + Len(y)
    BY <2>3, <1>1
  <2> QED BY <2>1, <2>2, <2>3, <1>1
<1> HIDE DEF l, r
<1>3. l = r
  BY <1>1, <1>2, SeqEqual
<1> QED BY <1>3 DEF l, r

LEMMA AppendAfter ==
    ASSUME NEW x \in Seq(Nat), NEW y \in Seq(Nat), NEW c \in Nat
    PROVE  Append(x \o y, c) = x \o Append(y, c)
<1>1. x \o y \in Seq(Nat) /\ << c >> \in Seq(Nat)
  BY ConcatProperties
<1>2. Append(x \o y, c) = (x \o y) \o << c >> /\ Append(y, c) = y \o << c >>
  BY <1>1, AppendIsConcat
<1>3. (x \o y) \o << c >> = x \o (y \o << c >>)
  BY <1>1, JoinTexts
<1> QED BY <1>2, <1>3

LEMMA LettersConcat ==
    ASSUME NEW s \in Seq(Nat), NEW t \in Seq(Nat)
    PROVE  Letters(s \o t) = Letters(s) \o Letters(t)
<1>0. \A x \in Seq(Nat), y \in Seq(Nat), c \in Nat : Append(x \o y, c) = x \o Append(y, c)
  BY AppendAfter
<1> DEFINE u(n) == SubSeq(t, 1, n)
           P(n) == Letters(s \o u(n)) = Letters(s) \o Letters(u(n))
           T == {n \in 0 .. Len(t) : P(n)}
<1>1. P(0)
  <2>1. u(0) = << >> /\ s \o << >> = s
    OBVIOUS
  <2>2. Letters(s) \o << >> = Letters(s)
    BY LettersIs, ConcatEmptySeq
  <2>3. Letters(s \o u(0)) = Letters(s) /\ Letters(u(0)) = << >>
    BY <2>1, LettersEmpty, Zenon
  <2> HIDE DEF u
  <2> QED BY <2>2, <2>3
<1>2. ASSUME NEW n \in 1 .. Len(t), P(n - 1) PROVE P(n)
  <2> DEFINE v == u(n - 1)
             c == t[n]
  <2>1. u(n) = Append(v, c) /\ v \in Seq(Nat) /\ c \in Nat
    OBVIOUS
  <2> HIDE DEF v, c
  <2>2. s \o Append(v, c) = Append(s \o v, c) /\ s \o v \in Seq(Nat)
    BY <1>0, <2>1, ConcatProperties
  <2>3. Letters(s \o v) = Letters(s) \o Letters(v)
    BY <1>2 DEF v
  <2>4. Letters(Append(s \o v, c)) = IF c = NL THEN Letters(s \o v) ELSE Append(Letters(s \o v), c)
    BY <2>1, <2>2, LettersAppend
  <2>5. Letters(Append(v, c)) = IF c = NL THEN Letters(v) ELSE Append(Letters(v), c)
    BY <2>1, LettersAppend
  <2>6. Append(Letters(s) \o Letters(v), c) = Letters(s) \o Append(Letters(v), c)
    <3>1. Letters(s) \in Seq(Nat) /\ Letters(v) \in Seq(Nat) /\ c \in Nat
      BY <2>1, LettersIs
    <3> QED BY <3>1, <1>0
  <2> HIDE DEF u
  <2> QED BY <2>1, <2>2, <2>3, <2>4, <2>5, <2>6
<1>3. T = 0 .. Len(t)
  <2> HIDE DEF P
  <2>1. 0 \in T /\ T \in SUBSET (0 .. Len(t)) /\ Len(t) \in Nat
    BY <1>1
  <2>2. ASSUME NEW n \in 1 .. Len(t), n - 1 \in T PROVE n \in T
    BY <2>2, <1>2
  <2> HIDE DEF T
  <2> QED BY <2>1, <2>2, UpTo
<1>4. P(Len(t))
  <2>1. Len(t) \in 0 .. Len(t)
    OBVIOUS
  <2> HIDE DEF P
  <2> QED BY <1>3, <2>1
<1>5. u(Len(t)) = t
  OBVIOUS
<1> HIDE DEF u
<1> QED BY <1>4, <1>5

\* A text of line breaks has no letters.
LEMMA LettersNone ==
    ASSUME NEW s \in Seq(Nat), \A i \in 1 .. Len(s) : s[i] = NL
    PROVE  Letters(s) = << >>
<1>1. ToSet(Letters(s)) = ToSet(s) \cap (Nat \ {NL})
  BY LettersIs, KeepTypes
<1>2. \A c \in ToSet(s) : c = NL
  BY DEF ToSet
<1>3. ToSet(Letters(s)) = {}
  BY <1>1, <1>2
<1> QED BY <1>3, LettersIs, EmptySet

LEMMA LettersNat == ASSUME NEW s \in Seq(Nat) PROVE Letters(s) \in Seq(Nat)
BY LettersIs

LEMMA LettersSplit ==
    ASSUME NEW s \in Seq(Nat), NEW m \in 1 .. Len(s) + 1,
           NEW k \in m - 1 .. Len(s), NEW n \in k .. Len(s)
    PROVE  /\ SubSeq(s, m, k) \in Seq(Nat) /\ SubSeq(s, k + 1, n) \in Seq(Nat)
           /\ Letters(SubSeq(s, m, n)) = Letters(SubSeq(s, m, k)) \o Letters(SubSeq(s, k + 1, n))
<1>1. SubSeq(s, m, k) \o SubSeq(s, k + 1, n) = SubSeq(s, m, n)
  BY ConcatAdjacentSubSeq
<1>2. SubSeq(s, m, k) \in Seq(Nat)
  OBVIOUS
<1>3. SubSeq(s, k + 1, n) \in Seq(Nat)
  OBVIOUS
<1> QED BY <1>1, <1>2, <1>3, LettersConcat

\* strings.TrimSpace takes no letter.
LEMMA LettersTrim ==
    ASSUME NEW s \in Seq(Nat)
    PROVE  Trim(s) \in Seq(Nat) /\ Len(Trim(s)) <= Len(s) /\ Letters(Trim(s)) = Letters(s)
<1> DEFINE Solid == {i \in 1 .. Len(s) : s[i] # NL}
           lo == Min(Solid)
           hi == Max(Solid)
<1>1. Trim(s) = IF Solid = {} THEN <<>> ELSE SubSeq(s, lo, hi)
  BY DEF Trim
<1>2. Len(s) \in Nat /\ Solid \in SUBSET (1 .. Len(s)) /\ \A i \in (1 .. Len(s)) \ Solid : s[i] = NL
  OBVIOUS
<1> HIDE DEF Solid
<1>3. CASE Solid = {}
  <2>1. Letters(s) = << >>
    BY <1>2, <1>3, LettersNone
  <2> QED BY <1>1, <1>2, <1>3, <2>1, LettersEmpty
<1>4. CASE Solid # {}
  <2>1. lo \in Solid /\ \A i \in Solid : lo <= i
    <3>1. Solid \in SUBSET Nat
      BY <1>2
    <3>2. \E n \in Solid : \A m \in Solid : n <= m
      BY <1>4, <3>1, LeastNumber
    <3> QED BY <3>2 DEF Min
  <2>2. hi \in Solid /\ \A i \in Solid : hi >= i
    <3> DEFINE Back == {Len(s) - i : i \in Solid}
    <3>1. Back \in SUBSET Nat /\ Back # {}
      <4>1. \A i \in Solid : Len(s) - i \in Nat /\ Len(s) - i \in Back
        BY <1>2
      <4>2. Back # {}
        BY <1>4, <4>1
      <4> QED BY <4>1, <4>2
    <3>2. PICK n \in Back : \A m \in Back : n <= m
      <4> HIDE DEF Back
      <4> QED BY <3>1, LeastNumber
    <3>3. PICK j \in Solid : n = Len(s) - j
      BY <3>2
    <3>4. ASSUME NEW i \in Solid PROVE j >= i
      <4>1. n <= Len(s) - i
        BY <3>2
      <4>2. i \in Nat /\ j \in Nat
        BY <1>2
      <4> QED BY <1>2, <3>3, <4>1, <4>2
    <3> QED BY <3>4 DEF Max
  <2> HIDE DEF lo, hi
  <2> DEFINE pre == SubSeq(s, 1, lo - 1)
             post == SubSeq(s, hi + 1, Len(s))
             mid == SubSeq(s, lo, hi)
  <2>3. /\ lo \in 1 .. Len(s) /\ hi \in lo .. Len(s)
        /\ \A i \in 1 .. lo - 1 : s[i] = NL
        /\ \A i \in hi + 1 .. Len(s) : s[i] = NL
    BY <1>2, <2>1, <2>2
  <2>4. pre \in Seq(Nat) /\ post \in Seq(Nat) /\ mid \in Seq(Nat) /\ Len(mid) <= Len(s)
    BY <2>3
  <2>5. Letters(pre) = << >>
    <3>1. Len(pre) = lo - 1 /\ \A i \in 1 .. lo - 1 : pre[i] = s[i]
      BY <2>3
    <3> HIDE DEF pre
    <3> QED BY <2>3, <2>4, <3>1, LettersNone
  <2>6. Letters(post) = << >>
    <3>1. Len(post) = Len(s) - hi /\ \A i \in 1 .. Len(s) - hi : post[i] = s[hi + i]
      BY <1>2, <2>3
    <3>2. \A i \in 1 .. Len(s) - hi : hi + i \in hi + 1 .. Len(s)
      BY <1>2, <2>3
    <3> HIDE DEF post
    <3> QED BY <2>3, <2>4, <3>1, <3>2, LettersNone
  <2>7. Letters(s) = Letters(pre) \o Letters(SubSeq(s, lo, Len(s)))
    <3>1. /\ 1 \in 1 .. Len(s) + 1 /\ lo - 1 \in 1 - 1 .. Len(s) /\ Len(s) \in lo - 1 .. Len(s)
          /\ (lo - 1) + 1 = lo /\ SubSeq(s, 1, Len(s)) = s
      BY <1>2, <2>3
    <3> QED BY <3>1, LettersSplit
  <2>8. Letters(SubSeq(s, lo, Len(s))) = Letters(mid) \o Letters(post)
    <3>1. lo \in 1 .. Len(s) + 1 /\ hi \in lo - 1 .. Len(s) /\ Len(s) \in hi .. Len(s)
      BY <1>2, <2>3
    <3> QED BY <3>1, LettersSplit
  <2> HIDE DEF pre, post
  <2>9. Letters(mid) \in Seq(Nat)
    BY <2>4, LettersNat
  <2>10. Letters(s) = Letters(mid)
    BY <2>5, <2>6, <2>7, <2>8, <2>9, ConcatEmptySeq
  <2> QED BY <1>1, <1>4, <2>4, <2>10
<1> QED BY <1>3, <1>4

LEMMA FlattenLetters ==
    ASSUME NEW ss \in Seq(Seq(Nat)), NEW s \in Seq(Nat)
    PROVE  /\ FlattenSeq(ss) \in Seq(Nat)
           /\ Letters(FlattenSeq(Append(ss, s))) = Letters(FlattenSeq(ss)) \o Letters(s)
<1>1. FlattenSeq(ss) \in Seq(Nat) /\ FlattenSeq(Append(ss, s)) = FlattenSeq(ss) \o s
  BY FlattenLaws
<1> QED BY <1>1, LettersConcat

-----------------------------------------------------------------------------
(* The lines of a text and its paragraphs *)
LineState == [done : Seq(Seq(Nat)), line : Seq(Nat)]

\* One iteration of strings.Split.
Cut(state, c) == IF c = NL THEN [done |-> Append(state.done, state.line), line |-> <<>>]
                 ELSE [state EXCEPT !.line = Append(@, c)]

LEMMA CutType == ASSUME NEW state \in LineState, NEW c \in Nat PROVE Cut(state, c) \in LineState
<1>1. state.done \in Seq(Seq(Nat)) /\ state.line \in Seq(Nat) /\ << >> \in Seq(Nat)
  BY DEF LineState
<1>2. Append(state.done, state.line) \in Seq(Seq(Nat)) /\ Append(state.line, c) \in Seq(Nat)
  BY <1>1
<1> QED BY <1>1, <1>2 DEF Cut, LineState

LEMMA LinesAfterDef ==
    ASSUME NEW text \in Seq(Nat)
    PROVE  /\ LinesAfter(text)[0] = [done |-> <<>>, line |-> <<>>]
           /\ \A n \in 1 .. Len(text) :
                /\ LinesAfter(text)[n - 1] \in LineState
                /\ LinesAfter(text)[n] = Cut(LinesAfter(text)[n - 1], text[n])
           /\ LinesAfter(text)[Len(text)] \in LineState
<1> DEFINE N == Len(text)
           S == LineState
           start == [done |-> <<>>, line |-> <<>>]
           F == [x \in S \X (1 .. N) |-> Cut(x[1], text[x[2]])]
           Body(f, n) == IF n = 0 THEN [done |-> <<>>, line |-> <<>>]
                         ELSE IF text[n] = NL
                         THEN [done |-> Append(f[n - 1].done, f[n - 1].line), line |-> <<>>]
                         ELSE [f[n - 1] EXCEPT !.line = Append(@, text[n])]
           Step(f, n) == IF n = 0 THEN start ELSE Cut(f[n - 1], text[n])
           k == LinesAfter(text)
<1>1. N \in Nat /\ start \in S /\ \A n \in 1 .. N : text[n] \in Nat
  BY DEF LineState
<1>2. F \in [S \X (1 .. N) -> S] /\ \A s \in S, n \in 1 .. N : F[<<s, n>>] = Cut(s, text[n])
  <2>1. \A x \in S \X (1 .. N) : Cut(x[1], text[x[2]]) \in S
    BY <1>1, CutType
  <2>2. \A s \in S, n \in 1 .. N : <<s, n>> \in S \X (1 .. N) /\ <<s, n>>[1] = s /\ <<s, n>>[2] = n
    OBVIOUS
  <2> HIDE DEF S, N
  <2> QED BY <2>1, <2>2
<1> HIDE DEF N, S, F
<1>3. PICK f \in [0 .. N -> S] : f[0] = start /\ \A n \in 1 .. N : f[n] = F[<<f[n - 1], n>>]
  <2> HIDE DEF start
  <2>1. Iterates(N, S, start, F)
    BY <1>1, <1>2, Iteration
  <2> QED BY <2>1 DEF Iterates
<1>4. \A g, n : Step(g, n) = Body(g, n)
  BY DEF Cut
<1> HIDE DEF start
<1>5. \A n \in 0 .. N : f[n] = Step(f, n)
  <2>1. ASSUME NEW n \in 1 .. N PROVE f[n] = Step(f, n)
    <3>1. n - 1 \in 0 .. N /\ n # 0
      BY <1>1
    <3>2. f[n - 1] \in S
      BY <3>1
    <3> QED BY <3>1, <3>2, <1>2, <1>3
  <2>2. \A n \in 0 .. N : n = 0 \/ n \in 1 .. N
    BY <1>1
  <2> QED BY <1>3, <2>1, <2>2
<1> HIDE DEF Step
<1>6. f = [n \in 0 .. N |-> Body(f, n)]
  <2> HIDE DEF Body
  <2> QED BY <1>4, <1>5
<1>7. k = CHOOSE g : g = [n \in 0 .. N |-> Body(g, n)]
  BY DEF LinesAfter, N
<1>8. k = [n \in 0 .. N |-> Body(k, n)]
  <2> HIDE DEF k, Body
  <2> QED BY <1>6, <1>7
<1>9. \A n \in 0 .. N : k[n] = Step(k, n)
  <2> HIDE DEF k, Body
  <2> QED BY <1>4, <1>8
<1> HIDE DEF k, Body
<1>10. k[0] = start /\ \A n \in 1 .. N : k[n] = Cut(k[n - 1], text[n])
  <2>1. 0 \in 0 .. N /\ \A n \in 1 .. N : n \in 0 .. N /\ n # 0
    BY <1>1
  <2> QED BY <1>9, <2>1 DEF Step
<1> DEFINE T == {n \in 0 .. N : k[n] \in S}
<1>11. T = 0 .. N
  <2>1. 0 \in T /\ T \in SUBSET (0 .. N)
    BY <1>1, <1>10
  <2>2. ASSUME NEW n \in 1 .. N, n - 1 \in T PROVE n \in T
    <3>1. k[n] \in S
      BY <1>1, <1>10, <2>2, CutType DEF S
    <3> QED BY <3>1
  <2> HIDE DEF T
  <2> QED BY <1>1, <2>1, <2>2, UpTo
<1>12. \A n \in 0 .. N : k[n] \in S
  BY <1>11
<1>13. N \in 0 .. N /\ \A n \in 1 .. N : n - 1 \in 0 .. N
  BY <1>1
<1> QED BY <1>10, <1>12, <1>13 DEF k, N, S, start

\* The letters of the lines that have begun.
Told(state) == Letters(FlattenSeq(Append(state.done, state.line)))

LEMMA CutTells ==
    ASSUME NEW state \in LineState, NEW c \in Nat
    PROVE  Told(Cut(state, c)) = IF c = NL THEN Told(state) ELSE Append(Told(state), c)
<1> DEFINE ss == state.done
           s == state.line
<1>1. ss \in Seq(Seq(Nat)) /\ s \in Seq(Nat) /\ << >> \in Seq(Nat)
  BY DEF LineState
<1>2. Told(state) = Letters(FlattenSeq(Append(ss, s)))
  BY DEF Told
<1>3. CASE c = NL
  <2>1. Cut(state, c).done = Append(ss, s) /\ Cut(state, c).line = << >>
    BY <1>3 DEF Cut
  <2> HIDE DEF ss, s
  <2>2. Append(ss, s) \in Seq(Seq(Nat))
    BY <1>1
  <2>3. Letters(FlattenSeq(Append(Append(ss, s), << >>))) = Told(state) \o Letters(<< >>)
    BY <1>1, <1>2, <2>2, FlattenLetters
  <2>4. Told(state) \in Seq(Nat)
    <3>1. FlattenSeq(Append(ss, s)) \in Seq(Nat)
      BY <1>1, <2>2, FlattenLetters
    <3> QED BY <1>2, <3>1, LettersNat
  <2> QED BY <1>3, <2>1, <2>3, <2>4, LettersEmpty, ConcatEmptySeq DEF Told
<1>4. CASE c # NL
  <2>1. Cut(state, c).done = ss /\ Cut(state, c).line = Append(s, c)
    BY <1>4 DEF Cut, LineState
  <2> HIDE DEF ss, s
  <2>2. Append(s, c) \in Seq(Nat) /\ FlattenSeq(ss) \in Seq(Nat)
    BY <1>1, FlattenLetters
  <2>3. Letters(FlattenSeq(Append(ss, Append(s, c)))) = Letters(FlattenSeq(ss)) \o Letters(Append(s, c))
    BY <1>1, <2>2, FlattenLetters
  <2>4. Letters(Append(s, c)) = Append(Letters(s), c)
    BY <1>1, <1>4, LettersAppend
  <2>5. Letters(FlattenSeq(ss)) \o Append(Letters(s), c) = Append(Letters(FlattenSeq(ss)) \o Letters(s), c)
    <3>1. Letters(FlattenSeq(ss)) \in Seq(Nat) /\ Letters(s) \in Seq(Nat)
      BY <1>1, <2>2, LettersNat
    <3> QED BY <1>1, <3>1, AppendAfter
  <2>6. Told(state) = Letters(FlattenSeq(ss)) \o Letters(s)
    BY <1>1, <1>2, FlattenLetters
  <2> QED BY <1>4, <2>1, <2>3, <2>4, <2>5, <2>6 DEF Told
<1> QED BY <1>3, <1>4

\* strings.Split loses no letter.
LEMMA LinesTell ==
    ASSUME NEW text \in Seq(Nat)
    PROVE  Lines(text) \in Seq(Seq(Nat)) /\ Letters(FlattenSeq(Lines(text))) = Letters(text)
<1> DEFINE k == LinesAfter(text)
           N == Len(text)
           T == {n \in 0 .. N : Told(k[n]) = Letters(SubSeq(text, 1, n))}
<1>1. /\ k[0] = [done |-> <<>>, line |-> <<>>]
      /\ \A n \in 1 .. N : k[n - 1] \in LineState /\ k[n] = Cut(k[n - 1], text[n])
      /\ k[N] \in LineState
  BY LinesAfterDef
<1>2. N \in Nat /\ SubSeq(text, 1, N) = text
  OBVIOUS
<1> HIDE DEF k
<1>3. T = 0 .. N
  <2>1. Told(k[0]) = Letters(SubSeq(text, 1, 0))
    <3>1. SubSeq(text, 1, 0) = << >> /\ k[0].done = << >> /\ k[0].line = << >>
      BY <1>1
    <3>2. << >> \in Seq(Seq(Nat)) /\ << >> \in Seq(Nat)
      OBVIOUS
    <3>3. Letters(FlattenSeq(Append(<< >>, << >>))) = Letters(FlattenSeq(<< >>)) \o Letters(<< >>)
      BY <3>2, FlattenLetters
    <3>4. << >> \o << >> = << >>
      BY <3>2, ConcatEmptySeq
    <3> QED BY <3>1, <3>3, <3>4, FlattenEmpty, LettersEmpty DEF Told
  <2>2. ASSUME NEW n \in 1 .. N, Told(k[n - 1]) = Letters(SubSeq(text, 1, n - 1))
        PROVE  Told(k[n]) = Letters(SubSeq(text, 1, n))
    <3> DEFINE before == SubSeq(text, 1, n - 1)
               c == text[n]
    <3>1. SubSeq(text, 1, n) = Append(before, c) /\ before \in Seq(Nat) /\ c \in Nat
      OBVIOUS
    <3>2. Told(k[n]) = IF c = NL THEN Told(k[n - 1]) ELSE Append(Told(k[n - 1]), c)
      BY <1>1, <3>1, CutTells
    <3> HIDE DEF before, c
    <3>3. Letters(Append(before, c)) = IF c = NL THEN Letters(before) ELSE Append(Letters(before), c)
      BY <3>1, LettersAppend
    <3> QED BY <2>2, <3>1, <3>2, <3>3 DEF before
  <2>3. 0 \in T /\ T \in SUBSET (0 .. N)
    BY <1>2, <2>1
  <2>4. ASSUME NEW n \in 1 .. N, n - 1 \in T PROVE n \in T
    BY <2>2, <2>4
  <2> HIDE DEF T
  <2> QED BY <1>2, <2>3, <2>4, UpTo
<1>4. Told(k[N]) = Letters(text)
  <2>1. N \in 0 .. N
    BY <1>2
  <2> QED BY <1>2, <1>3, <2>1
<1>5. Lines(text) = Append(k[N].done, k[N].line)
  BY DEF Lines, k
<1> QED BY <1>1, <1>4, <1>5 DEF Told, LineState

\* The chunks so far and the one that is growing.
ChunkState == [chunks : Seq(Seq(Nat)), current : Seq(Nat)]
Kept(acc) == Letters(FlattenSeq(acc.chunks)) \o Letters(acc.current)

\* A paragraph is added to the letters kept, in a chunk of its own or not.
LEMMA AddParagraphTells ==
    ASSUME NEW acc \in ChunkState, NEW para \in Seq(Nat)
    PROVE  /\ AddParagraph(acc, para) \in ChunkState
           /\ Kept(AddParagraph(acc, para)) = Kept(acc) \o Letters(para)
<1>0. \A x \in Seq(Nat), y \in Seq(Nat), z \in Seq(Nat) : (x \o y) \o z = x \o (y \o z)
  BY JoinTexts
<1> DEFINE cs == acc.chunks
           cur == acc.current
           new == AddParagraph(acc, para)
           ended == para \o <<NL>>
<1>1. cs \in Seq(Seq(Nat)) /\ cur \in Seq(Nat) /\ acc = [chunks |-> cs, current |-> cur]
  BY DEF ChunkState
<1>2. Kept(acc) = Letters(FlattenSeq(cs)) \o Letters(cur)
  BY DEF Kept
<1>3. ended \in Seq(Nat) /\ Letters(ended) = Letters(para)
  <2>1. <<NL>> \in Seq(Nat) /\ ended \in Seq(Nat) /\ \A i \in 1 .. Len(<<NL>>) : <<NL>>[i] = NL
    BY DEF NL
  <2>2. Letters(<<NL>>) = << >>
    BY <2>1, LettersNone
  <2>3. Letters(ended) = Letters(para) \o Letters(<<NL>>)
    BY <2>1, LettersConcat
  <2> QED BY <2>1, <2>2, <2>3, LettersNat, ConcatEmptySeq
<1>4. /\ FlattenSeq(cs) \in Seq(Nat) /\ Letters(FlattenSeq(cs)) \in Seq(Nat)
      /\ Letters(cur) \in Seq(Nat) /\ Letters(para) \in Seq(Nat)
  BY <1>1, FlattenLetters, LettersNat
<1>5. new = IF para = << >> THEN acc
            ELSE IF Len(cur) + Len(para) > MaxChunkSize /\ cur # << >>
            THEN [chunks |-> Append(cs, Trim(cur)), current |-> ended]
            ELSE [chunks |-> cs, current |-> (cur \o para) \o <<NL>>]
  <2>1. \A x : [acc EXCEPT !.current = x] = [chunks |-> cs, current |-> x]
    BY DEF ChunkState
  <2> HIDE DEF NL
  <2> QED BY <2>1 DEF AddParagraph
<1>6. CASE new = acc /\ para = << >>
  <2>1. Kept(acc) \in Seq(Nat)
    <3> HIDE DEF cs, cur
    <3> QED BY <1>2, <1>4, ConcatProperties
  <2> QED BY <1>6, <2>1, LettersEmpty, ConcatEmptySeq
<1>7. CASE new = [chunks |-> Append(cs, Trim(cur)), current |-> ended]
  <2> HIDE DEF cs, cur
  <2>1. Trim(cur) \in Seq(Nat) /\ Letters(Trim(cur)) = Letters(cur)
    BY <1>1, LettersTrim
  <2>2. Append(cs, Trim(cur)) \in Seq(Seq(Nat))
    BY <1>1, <2>1
  <2>3. Letters(FlattenSeq(Append(cs, Trim(cur)))) = Letters(FlattenSeq(cs)) \o Letters(cur)
    BY <1>1, <2>1, FlattenLetters
  <2>4. new.chunks = Append(cs, Trim(cur)) /\ new.current = ended
    BY <1>7
  <2> HIDE DEF new, ended
  <2>5. new \in ChunkState
    BY <1>3, <1>7, <2>2 DEF ChunkState
  <2> QED BY <1>2, <1>3, <2>3, <2>4, <2>5 DEF Kept, new
<1>8. CASE new = [chunks |-> cs, current |-> (cur \o para) \o <<NL>>]
  <2> HIDE DEF cs, cur
  <2>1. <<NL>> \in Seq(Nat)
    BY DEF NL
  <2>2. (cur \o para) \o <<NL>> = cur \o ended
    BY <1>1, <2>1, JoinTexts
  <2>3. cur \o ended \in Seq(Nat) /\ Letters(cur \o ended) = Letters(cur) \o Letters(para)
    BY <1>1, <1>3, LettersConcat, ConcatProperties
  <2>4. new.chunks = cs /\ new.current = cur \o ended
    BY <1>8, <2>2
  <2> HIDE DEF new, ended
  <2>5. new \in ChunkState
    BY <1>1, <1>8, <2>2, <2>3 DEF ChunkState
  <2>6. Letters(FlattenSeq(cs)) \o (Letters(cur) \o Letters(para)) = Kept(acc) \o Letters(para)
    <3>1. (Letters(FlattenSeq(cs)) \o Letters(cur)) \o Letters(para)
            = Letters(FlattenSeq(cs)) \o (Letters(cur) \o Letters(para))
      <4> DEFINE x == Letters(FlattenSeq(cs))
                 y == Letters(cur)
                 z == Letters(para)
      <4>1. x \in Seq(Nat) /\ y \in Seq(Nat) /\ z \in Seq(Nat)
        BY <1>4
      <4> HIDE DEF x, y, z
      <4>2. (x \o y) \o z = x \o (y \o z)
        BY <1>0, <4>1, Zenon
      <4> QED BY <4>2 DEF x, y, z
    <3> QED BY <1>2, <3>1
  <2> QED BY <2>3, <2>4, <2>5, <2>6 DEF Kept, new
<1> HIDE DEF new
<1> QED BY <1>5, <1>6, <1>7, <1>8 DEF new

LEMMA ParagraphsAfterDef ==
    ASSUME NEW lines \in Seq(Seq(Nat))
    PROVE  /\ ParagraphsAfter(lines)[0] = [chunks |-> <<>>, current |-> <<>>]
           /\ \A n \in 1 .. Len(lines) :
                /\ ParagraphsAfter(lines)[n - 1] \in ChunkState
                /\ ParagraphsAfter(lines)[n] = AddParagraph(ParagraphsAfter(lines)[n - 1], lines[n])
           /\ ParagraphsAfter(lines)[Len(lines)] \in ChunkState
<1> DEFINE N == Len(lines)
           S == ChunkState
           start == [chunks |-> <<>>, current |-> <<>>]
           F == [x \in S \X (1 .. N) |-> AddParagraph(x[1], lines[x[2]])]
           Body(f, n) == IF n = 0 THEN [chunks |-> <<>>, current |-> <<>>]
                         ELSE AddParagraph(f[n - 1], lines[n])
           k == ParagraphsAfter(lines)
<1>1. N \in Nat /\ start \in S /\ \A n \in 1 .. N : lines[n] \in Seq(Nat)
  BY DEF ChunkState
<1>2. F \in [S \X (1 .. N) -> S] /\ \A s \in S, n \in 1 .. N : F[<<s, n>>] = AddParagraph(s, lines[n])
  <2>1. \A x \in S \X (1 .. N) : AddParagraph(x[1], lines[x[2]]) \in S
    BY <1>1, AddParagraphTells
  <2>2. \A s \in S, n \in 1 .. N : <<s, n>> \in S \X (1 .. N) /\ <<s, n>>[1] = s /\ <<s, n>>[2] = n
    OBVIOUS
  <2> HIDE DEF S, N
  <2> QED BY <2>1, <2>2
<1> HIDE DEF N, S, F
<1>3. PICK f \in [0 .. N -> S] : f[0] = start /\ \A n \in 1 .. N : f[n] = F[<<f[n - 1], n>>]
  <2> HIDE DEF start
  <2>1. Iterates(N, S, start, F)
    BY <1>1, <1>2, Iteration
  <2> QED BY <2>1 DEF Iterates
<1>4. \A n \in 0 .. N : f[n] = Body(f, n)
  <2>1. ASSUME NEW n \in 1 .. N PROVE f[n] = Body(f, n)
    <3>1. n - 1 \in 0 .. N /\ n # 0
      BY <1>1
    <3>2. f[n - 1] \in S
      BY <3>1
    <3> QED BY <3>1, <3>2, <1>2, <1>3
  <2>2. \A n \in 0 .. N : n = 0 \/ n \in 1 .. N
    BY <1>1
  <2> QED BY <1>3, <2>1, <2>2
<1>5. f = [n \in 0 .. N |-> Body(f, n)]
  <2> HIDE DEF Body
  <2> QED BY <1>4
<1>6. k = CHOOSE g : g = [n \in 0 .. N |-> Body(g, n)]
  BY DEF ParagraphsAfter, N
<1>7. k = [n \in 0 .. N |-> Body(k, n)]
  <2> HIDE DEF k, Body
  <2> QED BY <1>5, <1>6
<1>8. \A n \in 0 .. N : k[n] = Body(k, n)
  <2> HIDE DEF k, Body
  <2> QED BY <1>7
<1> HIDE DEF k
<1>9. k[0] = start /\ \A n \in 1 .. N : k[n] = AddParagraph(k[n - 1], lines[n])
  <2>1. 0 \in 0 .. N /\ \A n \in 1 .. N : n \in 0 .. N /\ n # 0
    BY <1>1
  <2> QED BY <1>8, <2>1
<1> HIDE DEF start, Body
<1> DEFINE T == {n \in 0 .. N : k[n] \in S}
<1>10. T = 0 .. N
  <2>1. 0 \in T /\ T \in SUBSET (0 .. N)
    BY <1>1, <1>9
  <2>2. ASSUME NEW n \in 1 .. N, n - 1 \in T PROVE n \in T
    <3>1. k[n] \in S
      BY <1>1, <1>9, <2>2, AddParagraphTells DEF S
    <3> QED BY <3>1
  <2> HIDE DEF T
  <2> QED BY <1>1, <2>1, <2>2, UpTo
<1>11. \A n \in 0 .. N : k[n] \in S
  BY <1>10
<1>12. N \in 0 .. N /\ \A n \in 1 .. N : n - 1 \in 0 .. N
  BY <1>1
<1> QED BY <1>9, <1>11, <1>12 DEF k, N, S, start

\* ChunkByParagraphs (chunker.go) loses no letter of any text and changes their order
\* nowhere, whatever the lengths of the text, its lines and the chunks.
THEOREM ParagraphsTell ==
    ASSUME NEW text \in Seq(Nat)
    PROVE  /\ ChunkByParagraphs(text) \in Seq(Seq(Nat))
           /\ Letters(FlattenSeq(ChunkByParagraphs(text))) = Letters(text)
<1> DEFINE lines == Lines(text)
           N == Len(lines)
           k == ParagraphsAfter(lines)
           T == {n \in 0 .. N : Kept(k[n]) = Letters(FlattenSeq(SubSeq(lines, 1, n)))}
<1>1. lines \in Seq(Seq(Nat)) /\ Letters(FlattenSeq(lines)) = Letters(text)
  BY LinesTell
<1> HIDE DEF lines
<1>2. /\ k[0] = [chunks |-> <<>>, current |-> <<>>]
      /\ \A n \in 1 .. N : k[n - 1] \in ChunkState /\ k[n] = AddParagraph(k[n - 1], lines[n])
      /\ k[N] \in ChunkState
  BY <1>1, ParagraphsAfterDef
<1>3. N \in Nat /\ SubSeq(lines, 1, N) = lines
  BY <1>1
<1> HIDE DEF k
<1>4. T = 0 .. N
  <2>1. Kept(k[0]) = Letters(FlattenSeq(SubSeq(lines, 1, 0)))
    <3>1. SubSeq(lines, 1, 0) = << >> /\ k[0].chunks = << >> /\ k[0].current = << >>
      BY <1>1, <1>2
    <3>2. << >> \o << >> = << >>
      <4>1. << >> \in Seq(Nat)
        OBVIOUS
      <4> QED BY <4>1, ConcatEmptySeq
    <3> QED BY <3>1, <3>2, FlattenEmpty, LettersEmpty DEF Kept
  <2>2. ASSUME NEW n \in 1 .. N, Kept(k[n - 1]) = Letters(FlattenSeq(SubSeq(lines, 1, n - 1)))
        PROVE  Kept(k[n]) = Letters(FlattenSeq(SubSeq(lines, 1, n)))
    <3> DEFINE before == SubSeq(lines, 1, n - 1)
               para == lines[n]
    <3>1. SubSeq(lines, 1, n) = Append(before, para) /\ before \in Seq(Seq(Nat)) /\ para \in Seq(Nat)
      BY <1>1
    <3>2. Kept(k[n]) = Kept(k[n - 1]) \o Letters(para)
      BY <1>2, <3>1, AddParagraphTells
    <3> HIDE DEF before, para
    <3>3. Letters(FlattenSeq(Append(before, para))) = Letters(FlattenSeq(before)) \o Letters(para)
      BY <3>1, FlattenLetters
    <3> QED BY <2>2, <3>1, <3>2, <3>3 DEF before
  <2>3. 0 \in T /\ T \in SUBSET (0 .. N)
    BY <1>3, <2>1
  <2>4. ASSUME NEW n \in 1 .. N, n - 1 \in T PROVE n \in T
    BY <2>2, <2>4
  <2> HIDE DEF T
  <2> QED BY <1>3, <2>3, <2>4, UpTo
<1>5. Kept(k[N]) = Letters(text)
  <2>1. N \in 0 .. N
    BY <1>3
  <2> QED BY <1>1, <1>3, <1>4, <2>1
<1> DEFINE cs == k[N].chunks
           cur == k[N].current
<1>6. /\ cs \in Seq(Seq(Nat)) /\ cur \in Seq(Nat)
      /\ Letters(FlattenSeq(cs)) \o Letters(cur) = Letters(text)
      /\ ChunkByParagraphs(text) = IF cur = << >> THEN cs ELSE Append(cs, Trim(cur))
  BY <1>2, <1>5 DEF Kept, ChunkState, ChunkByParagraphs, k, lines
<1> HIDE DEF cs, cur
<1>7. CASE cur = << >>
  <2>1. Letters(FlattenSeq(cs)) \in Seq(Nat)
    BY <1>6, FlattenLetters, LettersNat
  <2> QED BY <1>6, <1>7, <2>1, LettersEmpty, ConcatEmptySeq
<1>8. CASE cur # << >>
  <2>1. Trim(cur) \in Seq(Nat) /\ Letters(Trim(cur)) = Letters(cur)
    BY <1>6, LettersTrim
  <2>2. Append(cs, Trim(cur)) \in Seq(Seq(Nat))
    BY <1>6, <2>1
  <2>3. Letters(FlattenSeq(Append(cs, Trim(cur)))) = Letters(FlattenSeq(cs)) \o Letters(Trim(cur))
    BY <1>6, <2>1, FlattenLetters
  <2> QED BY <1>6, <1>8, <2>1, <2>2, <2>3
<1> QED BY <1>7, <1>8

-----------------------------------------------------------------------------
(* The sections between empty lines and rulers *)
LettersFrom(text, pos) == Letters(SubSeq(text, pos + 1, Len(text)))

\* What may be missing after a chunk.
Gaps == {<<>>} \cup ToSet(Rulers)

Woven(out, gaps) == [i \in DOMAIN out |-> out[i] \o gaps[i]]

\* The chunks, with what was dropped between them, and the text from pos on hold the
\* letters of the text.
Holds(out, text, pos) ==
    \E gaps \in [DOMAIN out -> Gaps] :
        Letters(FlattenSeq(Woven(out, gaps))) \o LettersFrom(text, pos) = Letters(text)

LEMMA GapsAreTexts == Gaps \in SUBSET Seq(Nat)
<1>1. \A i \in DOMAIN Rulers : Rulers[i] \in Seq(Nat)
  <2>1. Rulers \in Seq(Seq(Nat \ {NL}))
    BY RulersAssumption
  <2>2. \A s \in Seq(Nat \ {NL}) : s \in Seq(Nat)
    OBVIOUS
  <2>3. \A i \in DOMAIN Rulers : Rulers[i] \in Seq(Nat \ {NL})
    BY <2>1
  <2> QED BY <2>2, <2>3
<1>2. << >> \in Seq(Nat)
  OBVIOUS
<1> QED BY <1>1, <1>2 DEF Gaps, ToSet

\* A break is an empty line, which has no letters, or a ruler.
LEMMA BreakIsGap ==
    ASSUME NEW b \in 1 .. Len(Breaks)
    PROVE  Breaks[b] \in Seq(Nat) /\ \E g \in Gaps : Letters(Breaks[b]) = Letters(g)
<1>1. Rulers \in Seq(Seq(Nat \ {NL})) /\ Len(Rulers) \in Nat /\ DOMAIN Rulers = 1 .. Len(Rulers)
  BY RulersAssumption
<1>2. << <<NL, NL>> >> \in Seq(Seq(Nat))
  BY DEF NL
<1>3. Rulers \in Seq(Seq(Nat))
  <2>1. \A i \in 1 .. Len(Rulers) : Rulers[i] \in Gaps
    BY <1>1 DEF Gaps, ToSet
  <2>2. \A i \in 1 .. Len(Rulers) : Rulers[i] \in Seq(Nat)
    BY <2>1, GapsAreTexts
  <2> QED BY <1>1, <2>2
<1>4. /\ Len(Breaks) = 1 + Len(Rulers) /\ Breaks[1] = <<NL, NL>>
      /\ \A i \in 2 .. Len(Breaks) : Breaks[i] = Rulers[i - 1]
  BY <1>2, <1>3 DEF Breaks
<1>5. CASE b = 1
  <2>1. <<NL, NL>> \in Seq(Nat) /\ \A i \in 1 .. Len(<<NL, NL>>) : <<NL, NL>>[i] = NL
    BY DEF NL
  <2>2. Letters(<<NL, NL>>) = << >>
    BY <2>1, LettersNone
  <2>3. << >> \in Gaps
    BY DEF Gaps
  <2> QED BY <1>4, <1>5, <2>1, <2>2, <2>3, LettersEmpty
<1>6. CASE b # 1
  <2>1. b \in 2 .. Len(Breaks) /\ b - 1 \in 1 .. Len(Rulers)
    BY <1>1, <1>4, <1>6
  <2>2. Breaks[b] = Rulers[b - 1] /\ Rulers[b - 1] \in Gaps
    BY <1>1, <1>4, <2>1 DEF Gaps, ToSet
  <2> QED BY <2>2, GapsAreTexts
<1> QED BY <1>5, <1>6

\* One iteration of ChunkBySemanticBreaks: what it makes of the text from start on.
Passed(b, text, start) ==
    /\ b.next \in 0 .. Len(text)
    /\ b.brk \in Nat \ {0}
    /\ ~ b.more => b.next = Len(text)
    /\ \/ b.add = << >> /\ LettersFrom(text, start) = LettersFrom(text, b.next)
       \/ \E s \in Seq(Nat), g \in Gaps :
            /\ b.add = << s >> /\ Len(s) <= Len(text)
            /\ LettersFrom(text, start) = Letters(s \o g) \o LettersFrom(text, b.next)

\* A cut puts the letters before the break into a chunk.
LEMMA CutTellsBreak ==
    ASSUME NEW text \in Seq(Nat), NEW start \in 0 .. Len(text), NEW k \in 1 .. Len(Breaks),
           CutsAt(text, start, Breaks[k])
    PROVE  Passed(SemanticBreak(text, start, k), text, start)
<1> DEFINE N == Len(text)
           mark == Breaks[k]
           M == Len(mark)
           e == FirstAt(text, start, mark)
           b == SemanticBreak(text, start, k)
           section == SubSeq(text, start + 1, e)
           rest == SubSeq(text, (e + M) + 1, N)
<1>1. mark \in Seq(Nat) /\ M \in Nat /\ N \in Nat /\ start \in 0 .. N /\ Len(Breaks) \in Nat
  <2>1. mark \in Seq(Nat)
    BY BreakIsGap
  <2>2. Len(Breaks) \in Nat
    BY RulersAssumption DEF Breaks
  <2> QED BY <2>1, <2>2
<1>2. PICK g \in Gaps : Letters(mark) = Letters(g)
  BY BreakIsGap
<1>3. e \in start .. N - M /\ SubSeq(text, e + 1, e + M) = mark
  <2>1. Occurrences(text, start, mark) \in SUBSET Nat
    BY <1>1 DEF Occurrences
  <2>2. Occurrences(text, start, mark) # {}
    BY DEF CutsAt
  <2>3. e \in Occurrences(text, start, mark)
    BY <2>1, <2>2, MinIn DEF FirstAt
  <2> QED BY <2>3 DEF Occurrences
<1>4. /\ b.more = TRUE /\ b.next = e + M /\ b.brk = k /\ b.add = << Trim(section) >>
  <2>1. ~ (k > Len(Breaks))
    BY <1>1
  <2> QED BY <2>1 DEF SemanticBreak
<1> HIDE DEF b, mark, M, e, N
<1>5. /\ e \in Nat /\ e + M \in Nat /\ start \in Nat /\ start <= e /\ e + M <= N
  BY <1>1, <1>3
<1>6. section \in Seq(Nat) /\ rest \in Seq(Nat) /\ Len(section) <= N
  BY <1>1, <1>5 DEF N
<1>7. Letters(SubSeq(text, start + 1, N)) = Letters(section) \o Letters(SubSeq(text, e + 1, N))
  <2>1. /\ start + 1 \in 1 .. Len(text) + 1 /\ e \in (start + 1) - 1 .. Len(text)
        /\ N \in e .. Len(text)
    BY <1>1, <1>5 DEF N
  <2> QED BY <2>1, LettersSplit
<1>8. Letters(SubSeq(text, e + 1, N)) = Letters(mark) \o Letters(rest)
  <2>1. /\ e + 1 \in 1 .. Len(text) + 1 /\ e + M \in (e + 1) - 1 .. Len(text)
        /\ N \in e + M .. Len(text)
    BY <1>1, <1>5 DEF N
  <2>2. Letters(SubSeq(text, e + 1, N)) = Letters(SubSeq(text, e + 1, e + M)) \o Letters(rest)
    BY <2>1, LettersSplit
  <2> QED BY <2>2, <1>3
<1>9. Letters(rest) = LettersFrom(text, b.next)
  BY <1>4 DEF LettersFrom, N
<1> HIDE DEF section, rest
<1>10. /\ Trim(section) \in Seq(Nat) /\ Len(Trim(section)) <= N
       /\ Letters(Trim(section)) = Letters(section)
  <2>1. Trim(section) \in Seq(Nat) /\ Len(Trim(section)) <= Len(section)
        /\ Letters(Trim(section)) = Letters(section)
    BY <1>6, LettersTrim
  <2>2. Len(Trim(section)) \in Nat /\ Len(section) \in Nat
    BY <1>6, <2>1
  <2> QED BY <1>1, <1>6, <2>1, <2>2
<1>11. g \in Seq(Nat) /\ Letters(Trim(section) \o g) = Letters(section) \o Letters(g)
  <2>1. g \in Seq(Nat)
    BY GapsAreTexts
  <2> QED BY <2>1, <1>10, LettersConcat
<1>12. LettersFrom(text, start) = Letters(Trim(section) \o g) \o LettersFrom(text, b.next)
  <2>1. Letters(section) \in Seq(Nat) /\ Letters(g) \in Seq(Nat) /\ Letters(rest) \in Seq(Nat)
    BY <1>6, <1>11, LettersNat
  <2>2. (Letters(section) \o Letters(g)) \o Letters(rest) = Letters(section) \o (Letters(g) \o Letters(rest))
    BY <2>1, JoinTexts
  <2> QED BY <1>2, <1>7, <1>8, <1>9, <1>11, <2>2 DEF LettersFrom, N
<1>13. b.next \in 0 .. N /\ b.brk \in Nat \ {0} /\ b.more = TRUE
  BY <1>1, <1>4, <1>5
<1> QED BY <1>4, <1>10, <1>12, <1>13 DEF Passed, b, N

\* One iteration puts the letters it passes into the chunk it adds, but for a ruler, and
\* leaves the others.
LEMMA BreakTells ==
    ASSUME NEW text \in Seq(Nat), NEW start \in 0 .. Len(text), NEW k \in Nat \ {0}
    PROVE  Passed(SemanticBreak(text, start, k), text, start)
<1> DEFINE N == Len(text)
           b == SemanticBreak(text, start, k)
<1>1. N \in Nat /\ start \in 0 .. N /\ Len(Breaks) \in Nat
  BY RulersAssumption DEF Breaks
<1>2. LettersFrom(text, N) = << >>
  <2>1. SubSeq(text, N + 1, N) = << >>
    OBVIOUS
  <2> QED BY <2>1, LettersEmpty DEF LettersFrom
<1>3. CASE k > Len(Breaks)
  <2>1. b.more = FALSE /\ b.next = N /\ b.brk = k /\ b.add = LastSection(text, start)
    BY <1>3 DEF SemanticBreak
  <2> HIDE DEF b, N
  <2>2. CASE start < N
    <3> DEFINE section == SubSeq(text, start + 1, N)
    <3>1. section \in Seq(Nat) /\ Len(section) <= N /\ LettersFrom(text, start) = Letters(section)
      BY <1>1, <2>2 DEF LettersFrom, N
    <3>6. b.add = << Trim(section) >>
      BY <2>1, <2>2 DEF LastSection, N
    <3> HIDE DEF section
    <3>2. Trim(section) \in Seq(Nat) /\ Len(Trim(section)) <= Len(section)
          /\ Letters(Trim(section)) = Letters(section)
      BY <3>1, LettersTrim
    <3>3. Len(Trim(section)) \in Nat /\ Len(section) \in Nat /\ Letters(section) \in Seq(Nat)
      BY <3>1, <3>2, LettersNat
    <3>4. Len(Trim(section)) <= N
      BY <1>1, <3>1, <3>2, <3>3
    <3>5. Trim(section) \o << >> = Trim(section) /\ << >> \in Gaps
      BY <3>2, ConcatEmptySeq DEF Gaps
    <3>7. LettersFrom(text, start) = Letters(Trim(section) \o << >>) \o LettersFrom(text, N)
      BY <1>2, <3>1, <3>2, <3>3, <3>5, ConcatEmptySeq
    <3>8. \E s \in Seq(Nat), g \in Gaps :
             /\ b.add = << s >> /\ Len(s) <= N
             /\ LettersFrom(text, start) = Letters(s \o g) \o LettersFrom(text, b.next)
      BY <2>1, <3>2, <3>4, <3>5, <3>6, <3>7
    <3>9. b.next \in 0 .. N /\ b.next = N /\ b.brk \in Nat \ {0}
      BY <1>1, <2>1
    <3> QED BY <3>8, <3>9 DEF b, N, Passed
  <2>3. CASE ~ (start < N)
    <3>1. start = N /\ b.add = << >>
      BY <1>1, <2>1, <2>3 DEF LastSection, N
    <3> QED BY <1>1, <2>1, <3>1 DEF b, N, Passed
  <2> QED BY <2>2, <2>3
<1>4. CASE k \in 1 .. Len(Breaks) /\ CutsAt(text, start, Breaks[k])
  BY <1>4, CutTellsBreak
<1>5. CASE k \in 1 .. Len(Breaks) /\ ~ CutsAt(text, start, Breaks[k])
  <2>1. b.more = TRUE /\ b.next = start /\ b.brk = k + 1 /\ b.add = << >>
    <3>1. ~ (k > Len(Breaks))
      BY <1>1, <1>5
    <3> QED BY <1>5, <3>1 DEF SemanticBreak
  <2> HIDE DEF b
  <2>2. k + 1 \in Nat \ {0}
    OBVIOUS
  <2> QED BY <1>1, <2>1, <2>2 DEF Passed, b
<1> QED BY <1>1, <1>3, <1>4, <1>5

LEMMA SubTexts ==
    ASSUME NEW text \in Seq(Nat), NEW pos \in 0 .. Len(text)
    PROVE  LettersFrom(text, pos) \in Seq(Nat)
<1>1. SubSeq(text, pos + 1, Len(text)) \in Seq(Nat)
  OBVIOUS
<1> QED BY <1>1, LettersNat DEF LettersFrom

LEMMA WovenIs ==
    ASSUME NEW out \in Seq(Seq(Nat)), NEW gaps \in [DOMAIN out -> Gaps]
    PROVE  Woven(out, gaps) \in Seq(Seq(Nat))
<1>1. Len(out) \in Nat /\ DOMAIN out = 1 .. Len(out) /\ \A i \in 1 .. Len(out) : out[i] \in Seq(Nat)
  OBVIOUS
<1>2. \A i \in 1 .. Len(out) : gaps[i] \in Gaps
  BY <1>1
<1>3. \A i \in 1 .. Len(out) : gaps[i] \in Seq(Nat)
  BY <1>2, GapsAreTexts
<1>4. \A i \in 1 .. Len(out) : out[i] \o gaps[i] \in Seq(Nat)
  BY <1>1, <1>3, ConcatProperties
<1> QED BY <1>1, <1>4 DEF Woven

LEMMA WovenAppend ==
    ASSUME NEW out \in Seq(Seq(Nat)), NEW gaps \in [DOMAIN out -> Gaps],
           NEW s \in Seq(Nat), NEW g \in Gaps
    PROVE  \E all \in [DOMAIN Append(out, s) -> Gaps] :
              Woven(Append(out, s), all) = Append(Woven(out, gaps), s \o g)
<1> DEFINE longer == Append(out, s)
           n == Len(out) + 1
           all == [i \in DOMAIN longer |-> IF i = n THEN g ELSE gaps[i]]
           l == Woven(longer, all)
           r == Append(Woven(out, gaps), s \o g)
<1>1. /\ longer \in Seq(Seq(Nat)) /\ Len(longer) = n /\ DOMAIN longer = 1 .. n /\ longer[n] = s
      /\ DOMAIN out = 1 .. n - 1 /\ n \in Nat \ {0} /\ \A i \in 1 .. n - 1 : longer[i] = out[i]
      /\ n - 1 = Len(out)
  OBVIOUS
<1> HIDE DEF longer, n
<1>2. all \in [DOMAIN longer -> Gaps]
  <2>1. \A i \in 1 .. n : i = n \/ i \in 1 .. n - 1
    BY <1>1
  <2> QED BY <1>1, <2>1
<1>3. Woven(out, gaps) \in Seq(Seq(Nat)) /\ l \in Seq(Seq(Nat)) /\ s \o g \in Seq(Nat)
  <2>1. g \in Seq(Nat)
    BY GapsAreTexts
  <2> HIDE DEF all
  <2> QED BY <1>1, <1>2, <2>1, WovenIs, ConcatProperties
<1>4. DOMAIN Woven(out, gaps) = 1 .. n - 1 /\ DOMAIN l = 1 .. n
  BY <1>1 DEF Woven
<1>5. Len(Woven(out, gaps)) = n - 1 /\ Len(l) = n
  BY <1>1, <1>3, <1>4
<1>6. /\ r \in Seq(Seq(Nat)) /\ Len(r) = n /\ r[n] = s \o g
      /\ \A i \in 1 .. n - 1 : r[i] = Woven(out, gaps)[i]
  <2> DEFINE w == Woven(out, gaps)
             x == s \o g
  <2>1. w \in Seq(Seq(Nat)) /\ x \in Seq(Nat) /\ Len(w) = n - 1
    BY <1>3, <1>5
  <2> HIDE DEF w, x
  <2>2. /\ Append(w, x) \in Seq(Seq(Nat)) /\ Len(Append(w, x)) = n /\ Append(w, x)[n] = x
        /\ \A i \in 1 .. n - 1 : Append(w, x)[i] = w[i]
    BY <1>1, <2>1
  <2> QED BY <2>2 DEF w, x
<1>7. ASSUME NEW i \in 1 .. n PROVE l[i] = r[i]
  <2>1. CASE i = n
    <3>1. l[i] = longer[n] \o all[n] /\ all[n] = g
      BY <1>1, <2>1 DEF Woven
    <3> QED BY <1>1, <1>6, <2>1, <3>1
  <2>2. CASE i # n
    <3>1. i \in 1 .. n - 1
      BY <1>1, <2>2
    <3>2. l[i] = longer[i] \o all[i] /\ all[i] = gaps[i] /\ Woven(out, gaps)[i] = out[i] \o gaps[i]
      BY <1>1, <2>2, <3>1 DEF Woven
    <3> QED BY <1>1, <1>6, <3>1, <3>2
  <2> QED BY <2>1, <2>2
<1> HIDE DEF l, r, all
<1>8. l = r
  BY <1>3, <1>5, <1>6, <1>7, SeqEqual
<1> QED BY <1>2, <1>8 DEF l, r, longer

\* Another chunk, and what is dropped after it.
LEMMA HoldsMore ==
    ASSUME NEW text \in Seq(Nat), NEW pos \in 0 .. Len(text), NEW next \in 0 .. Len(text),
           NEW out \in Seq(Seq(Nat)), NEW s \in Seq(Nat), NEW g \in Gaps,
           LettersFrom(text, pos) = Letters(s \o g) \o LettersFrom(text, next),
           Holds(out, text, pos)
    PROVE  Holds(Append(out, s), text, next)
<1>1. PICK gaps \in [DOMAIN out -> Gaps] :
         Letters(FlattenSeq(Woven(out, gaps))) \o LettersFrom(text, pos) = Letters(text)
  BY DEF Holds
<1>2. PICK all \in [DOMAIN Append(out, s) -> Gaps] :
         Woven(Append(out, s), all) = Append(Woven(out, gaps), s \o g)
  BY WovenAppend
<1>3. Woven(out, gaps) \in Seq(Seq(Nat)) /\ s \o g \in Seq(Nat)
  <2>1. g \in Seq(Nat)
    BY GapsAreTexts
  <2> QED BY <2>1, WovenIs, ConcatProperties
<1> DEFINE before == Letters(FlattenSeq(Woven(out, gaps)))
           piece == Letters(s \o g)
           rest == LettersFrom(text, next)
<1>4. FlattenSeq(Woven(out, gaps)) \in Seq(Nat)
      /\ Letters(FlattenSeq(Append(Woven(out, gaps), s \o g))) = before \o piece
  BY <1>3, FlattenLetters
<1>5. before \in Seq(Nat) /\ piece \in Seq(Nat) /\ rest \in Seq(Nat)
  BY <1>3, <1>4, LettersNat, SubTexts
<1>6. before \o (piece \o rest) = Letters(text)
  BY <1>1
<1>7. Letters(FlattenSeq(Woven(Append(out, s), all))) = before \o piece
  BY <1>2, <1>4
<1> HIDE DEF before, piece, rest
<1>8. (before \o piece) \o rest = before \o (piece \o rest)
  BY <1>5, JoinTexts
<1>9. Letters(FlattenSeq(Woven(Append(out, s), all))) \o rest = Letters(text)
  BY <1>6, <1>7, <1>8
<1> QED BY <1>9 DEF Holds, rest

\* At the end of the text, only rulers are missing.
LEMMA HoldsAll ==
    ASSUME NEW text \in Seq(Nat), NEW out \in Seq(Seq(Nat)), Holds(out, text, Len(text))
    PROVE  WithoutRulers(out, text)
<1>1. PICK gaps \in [DOMAIN out -> Gaps] :
         Letters(FlattenSeq(Woven(out, gaps))) \o LettersFrom(text, Len(text)) = Letters(text)
  BY DEF Holds
<1>2. LettersFrom(text, Len(text)) = << >>
  <2>1. SubSeq(text, Len(text) + 1, Len(text)) = << >>
    OBVIOUS
  <2> QED BY <2>1, LettersEmpty DEF LettersFrom
<1>3. Letters(FlattenSeq(Woven(out, gaps))) \in Seq(Nat)
  <2>1. Woven(out, gaps) \in Seq(Seq(Nat)) /\ << >> \in Seq(Nat)
    BY WovenIs
  <2> HIDE DEF Woven
  <2> QED BY <2>1, FlattenLetters, LettersNat
<1>4. Letters(FlattenSeq(Woven(out, gaps))) = Letters(text)
  BY <1>1, <1>2, <1>3, ConcatEmptySeq
<1> QED BY <1>4 DEF WithoutRulers, Gaps, Woven

-----------------------------------------------------------------------------
(***************************************************************************)
(* The splitting of a document that fits.                                  *)
(***************************************************************************)
Splitting == {"chunk", "breaks", "embed"}

Short(out) == out \in Seq(Seq(Nat)) /\ \A i \in DOMAIN out : Len(out[i]) <= MaxChunkSize

\* A text that is one paragraph is taken as a whole, and then cut at its empty lines and
\* its rulers: what it is cut into, the rulers dropped and what remains hold its letters.
\* The others are the paragraphs themselves, those that are chunks already and those to
\* come.
SplitsFit(u) ==
    /\ u.pc = "chunk" /\ u.single =>
         /\ Len(u.text) <= MaxChunkSize
         /\ Len(ParagraphsOf[u.text]) = 1
         /\ u.pos = 0
         /\ u.brk = 1
         /\ \/ u.out = << >> /\ u.todo = << u.text >>
            \/ u.out = << u.text >> /\ u.todo = << >>
    /\ u.pc = "chunk" /\ ~ u.single =>
         /\ u.todo \in Seq(Seq(Nat))
         /\ u.out \in Seq(Seq(Nat))
         /\ Short(u.out \o u.todo)
         /\ Letters(FlattenSeq(u.out \o u.todo)) = Letters(u.text)
    /\ u.pc = "breaks" =>
         /\ Len(u.text) <= MaxChunkSize
         /\ Len(ParagraphsOf[u.text]) = 1
         /\ u.pos \in 0 .. Len(u.text)
         /\ u.brk \in Nat \ {0}
         /\ Short(u.out)
         /\ Holds(u.out, u.text, u.pos)
    /\ u.pc = "embed" =>
         /\ Short(u.out)
         /\ \/ Letters(FlattenSeq(u.out)) = Letters(u.text)
            \/ Len(ParagraphsOf[u.text]) = 1 /\ WithoutRulers(u.out, u.text)

SplitProper(u) == u.pc \in Splitting =>
                    /\ u.text \in AllTexts
                    /\ TextFits[u.text] => SplitsFit(u)

SplitInv == \A d \in Docs : SplitProper(upload[d])

LEMMA TextIs ==
    ASSUME NEW t \in AllTexts
    PROVE  t \in Seq(Nat) /\ ParagraphsOf[t] = ChunkByParagraphs(t) /\ TextFits[t] = Fits(t)
BY KnowledgeAssumption DEF AllTexts, ParagraphsOf, TextFits

LEMMA OneSplit ==
    ASSUME UploadInv, SplitInv, NEW d \in Docs, NEW u,
           upload' = [upload EXCEPT ![d] = u], SplitProper(u)
    PROVE  SplitInv'
<1>1. upload = [e \in Docs |-> upload[e]]
  BY DEF UploadInv
<1>2. upload'[d] = u /\ \A e \in Docs \ {d} : upload'[e] = upload[e]
  BY <1>1
<1>3. ASSUME NEW e \in Docs PROVE SplitProper(upload'[e])
  <2>1. SplitProper(upload[e])
    BY DEF SplitInv
  <2> QED BY <1>2, <2>1
<1> QED BY <1>3 DEF SplitInv

LEMMA SplitElsewhere ==
    ASSUME UploadInv, SplitInv, NEW d \in Docs, NEW u,
           upload' = [upload EXCEPT ![d] = u], u.pc \notin Splitting
    PROVE  SplitInv'
BY OneSplit DEF SplitProper

LEMMA FailSplits == ASSUME UploadInv, SplitInv, NEW d \in Docs, FailUpload(d) PROVE SplitInv'
<1> DEFINE u == [NoUpload EXCEPT !.pc = "failed"]
<1>1. upload' = [upload EXCEPT ![d] = u]
  BY DEF FailUpload
<1>2. u.pc = "failed"
  BY NoUploadIs
<1> HIDE DEF u
<1> QED BY <1>1, <1>2, SplitElsewhere DEF Splitting

\* The upload begins: the paragraphs, or the text as a whole.
LEMMA UploadSplits ==
    ASSUME UploadInv, SplitInv, NEW d \in Docs, NEW t \in Texts[d], Upload(d, t)
    PROVE  SplitInv'
<1> DEFINE ps == ParagraphsOf[t]
           one == Len(ps) = 1
           pieces == IF one THEN <<t>> ELSE ps
           u == [NoUpload EXCEPT !.pc = "chunk", !.text = t, !.single = one, !.todo = pieces]
<1>1. upload' = [upload EXCEPT ![d] = u]
  BY DEF Upload
<1>2. t \in AllTexts /\ t \in Seq(Nat) /\ ps = ChunkByParagraphs(t) /\ TextFits[t] = Fits(t)
  <2>1. t \in AllTexts
    BY DEF AllTexts
  <2> QED BY <2>1, TextIs
<1>3. ps \in Seq(Seq(Nat)) /\ Letters(FlattenSeq(ps)) = Letters(t)
  BY <1>2, ParagraphsTell
<1>4. Fits(t) => IF one THEN Len(t) <= MaxChunkSize ELSE \A i \in DOMAIN ps : Len(ps[i]) <= MaxChunkSize
  BY <1>2 DEF Fits
<1> HIDE DEF ps
<1>5. /\ u.pc = "chunk" /\ u.text = t /\ u.single = one /\ u.todo = pieces
      /\ u.pos = 0 /\ u.brk = 1 /\ u.out = << >>
  <2> HIDE DEF one, pieces
  <2> QED BY DEF NoUpload
<1> HIDE DEF u
<1>6. ASSUME Fits(t) PROVE SplitsFit(u)
  <2>1. CASE one
    <3>1. pieces = <<t>> /\ u.single
      BY <1>5, <2>1
    <3>2. Len(ParagraphsOf[u.text]) = 1
      BY <1>5, <2>1 DEF ps
    <3> QED BY <1>4, <1>5, <1>6, <2>1, <3>1, <3>2 DEF SplitsFit
  <2>2. CASE ~ one
    <3>1. pieces = ps /\ ~ u.single
      BY <1>5, <2>2
    <3>2. << >> \o ps = ps /\ << >> \in Seq(Seq(Nat))
      BY <1>3, ConcatEmptySeq
    <3>3. Short(ps)
      BY <1>3, <1>4, <1>6, <2>2 DEF Short
    <3> HIDE DEF one, pieces
    <3> QED BY <1>3, <1>5, <3>1, <3>2, <3>3 DEF SplitsFit
  <2> QED BY <2>1, <2>2
<1>7. SplitProper(u)
  BY <1>2, <1>5, <1>6 DEF SplitProper
<1> QED BY <1>1, <1>7, OneSplit

LEMMA MoveOver ==
    ASSUME NEW s \in Seq(Seq(Nat)), NEW t \in Seq(Seq(Nat)), t # << >>
    PROVE  /\ Append(s, Head(t)) \in Seq(Seq(Nat)) /\ Tail(t) \in Seq(Seq(Nat))
           /\ Append(s, Head(t)) \o Tail(t) = s \o t
<1>1. Head(t) \in Seq(Nat) /\ Tail(t) \in Seq(Seq(Nat)) /\ << Head(t) >> \in Seq(Seq(Nat)) /\ << Head(t) >> \o Tail(t) = t
  OBVIOUS
<1>2. Append(s, Head(t)) = s \o << Head(t) >> /\ Append(s, Head(t)) \in Seq(Seq(Nat))
  BY <1>1, AppendIsConcat
<1>3. (s \o << Head(t) >>) \o Tail(t) = s \o (<< Head(t) >> \o Tail(t))
  BY <1>1, ConcatAssociative
<1> QED BY <1>1, <1>2, <1>3

LEMMA HeadAfter ==
    ASSUME NEW s \in Seq(Seq(Nat)), NEW t \in Seq(Seq(Nat)), t # << >>
    PROVE  /\ Len(s) + 1 \in DOMAIN (s \o t)
           /\ (s \o t)[Len(s) + 1] = Head(t) /\ Head(t) \in Seq(Nat)
<1>1. Len(s) \in Nat /\ Len(t) \in Nat /\ Len(t) >= 1 /\ Head(t) = t[1] /\ Head(t) \in Seq(Nat)
  OBVIOUS
<1>2. s \o t \in Seq(Seq(Nat)) /\ Len(s \o t) = Len(s) + Len(t)
  OBVIOUS
<1>3. DOMAIN (s \o t) = 1 .. Len(s \o t)
  BY <1>2
<1>4. (s \o t)[Len(s) + 1] = t[1]
  BY <1>1
<1> QED BY <1>1, <1>2, <1>3, <1>4

\* A step of the splitting keeps what is in the chunks and what is to come.
LEMMA SplittingKeeps ==
    ASSUME UploadInv, SplitInv, NEW d \in Docs,
           TakePiece(d) \/ TakeWindow(d) \/ OutOfMemory(d) \/ EndPieces(d) \/ TakeBreak(d)
    PROVE  SplitInv'
<1>8. \A s \in Seq(Nat), t \in Seq(Nat), v \in Seq(Nat) : (s \o t) \o v = s \o (t \o v)
  BY JoinTexts
<1>9. \A s \in Seq(Seq(Nat)), t \in Seq(Seq(Nat)) : t # << >> =>
           /\ Append(s, Head(t)) \in Seq(Seq(Nat)) /\ Tail(t) \in Seq(Seq(Nat))
           /\ Append(s, Head(t)) \o Tail(t) = s \o t
  BY MoveOver
<1>10. \A s \in Seq(Seq(Nat)), t \in Seq(Seq(Nat)) : t # << >> =>
           /\ Len(s) + 1 \in DOMAIN (s \o t)
           /\ (s \o t)[Len(s) + 1] = Head(t) /\ Head(t) \in Seq(Nat)
  BY HeadAfter
<1> DEFINE x == upload[d]
<1>1. IsUpload(x) /\ upload = [e \in Docs |-> upload[e]] /\ SplitProper(x)
  BY UploadIs DEF SplitInv
<1>2. x.pc \in Splitting => x.text \in AllTexts /\ x.text \in Seq(Nat)
  BY <1>1, TextIs DEF SplitProper
<1>3. CASE TakePiece(d)
  <2> DEFINE piece == Head(x.todo)
             u == [x EXCEPT !.todo = Tail(@), !.out = Append(@, piece)]
  <2>1. /\ x.pc = "chunk" /\ x.todo # << >> /\ Len(piece) <= MaxChunkSize
        /\ upload' = [upload EXCEPT ![d] = u]
    BY <1>1, <1>3 DEF TakePiece, At
  <2> HIDE DEF x, piece
  <2>2. /\ u.pc = "chunk" /\ u.text = x.text /\ u.pos = x.pos /\ u.brk = x.brk
        /\ u.single = x.single /\ u.todo = Tail(x.todo) /\ u.out = Append(x.out, piece)
    BY <1>1, <2>1 DEF IsUpload, UploadFields
  <2> HIDE DEF u
  <2>3. ASSUME TextFits[x.text] PROVE SplitsFit(u)
    <3>1. SplitsFit(x)
      BY <1>1, <2>1, <2>3 DEF SplitProper, Splitting
    <3>2. CASE x.single
      <4>1. /\ x.out = << >> /\ x.todo = << x.text >> /\ Len(x.text) <= MaxChunkSize
            /\ Len(ParagraphsOf[x.text]) = 1 /\ x.pos = 0 /\ x.brk = 1
        BY <2>1, <3>1, <3>2 DEF SplitsFit
      <4>2. piece = x.text /\ Tail(x.todo) = << >> /\ Append(x.out, piece) = << x.text >>
        BY <4>1 DEF piece
      <4> QED BY <2>2, <3>2, <4>1, <4>2 DEF SplitsFit
    <3>3. CASE ~ x.single
      <4>1. x.todo \in Seq(Seq(Nat)) /\ x.out \in Seq(Seq(Nat)) /\ Short(x.out \o x.todo)
            /\ Letters(FlattenSeq(x.out \o x.todo)) = Letters(x.text)
        BY <2>1, <3>1, <3>3 DEF SplitsFit
      <4>2. u.todo \in Seq(Seq(Nat)) /\ u.out \in Seq(Seq(Nat)) /\ u.out \o u.todo = x.out \o x.todo
        BY <1>9, <2>1, <2>2, <4>1 DEF piece
      <4> QED BY <2>2, <3>3, <4>1, <4>2 DEF SplitsFit
    <3> QED BY <3>2, <3>3
  <2>4. SplitProper(u)
    BY <1>2, <2>1, <2>2, <2>3 DEF SplitProper, Splitting
  <2> QED BY <2>1, <2>4, OneSplit
<1>4. CASE TakeWindow(d)
  <2> DEFINE piece == Head(x.todo)
             w == Window(piece, x.pos)
             u == [x EXCEPT !.out = @ \o w.add,
                            !.pos = IF w.next < Len(piece) THEN w.next ELSE 0,
                            !.todo = IF w.next < Len(piece) THEN @ ELSE Tail(@)]
  <2>1. /\ x.pc = "chunk" /\ x.todo # << >> /\ Len(piece) > MaxChunkSize
        /\ upload' = [upload EXCEPT ![d] = u]
    BY <1>1, <1>4 DEF TakeWindow, At
  <2> HIDE DEF x, w
  <2>2. u.pc = "chunk" /\ u.text = x.text
    BY <1>1, <2>1 DEF IsUpload, UploadFields
  <2> HIDE DEF u
  <2>3. ~ TextFits[x.text]
    <3>1. SUFFICES ASSUME TextFits[x.text] PROVE FALSE
      OBVIOUS
    <3>2. SplitsFit(x)
      BY <1>1, <2>1, <3>1 DEF SplitProper, Splitting
    <3>3. CASE x.single
      <4>1. x.todo = << x.text >> /\ Len(x.text) <= MaxChunkSize
        BY <2>1, <3>2, <3>3 DEF SplitsFit
      <4>2. piece = x.text /\ Len(x.text) \in Nat /\ MaxChunkSize \in Nat
        BY <1>2, <2>1, <4>1, SizesAssumption DEF Splitting
      <4> QED BY <2>1, <4>1, <4>2
    <3>4. CASE ~ x.single
      <4> DEFINE all == x.out \o x.todo
                 i == Len(x.out) + 1
      <4>1. x.todo \in Seq(Seq(Nat)) /\ x.out \in Seq(Seq(Nat)) /\ Short(all)
        BY <2>1, <3>2, <3>4 DEF SplitsFit
      <4>2. i \in DOMAIN all /\ all[i] = piece /\ piece \in Seq(Nat)
        BY <1>10, <2>1, <4>1 DEF piece
      <4>3. Len(piece) <= MaxChunkSize /\ Len(piece) \in Nat /\ MaxChunkSize \in Nat
        <5> HIDE DEF all, i, piece
        <5> QED BY <4>1, <4>2, SizesAssumption DEF Short
      <4> QED BY <2>1, <4>3
    <3> QED BY <3>3, <3>4
  <2>4. SplitProper(u)
    BY <1>2, <2>1, <2>2, <2>3 DEF SplitProper, Splitting
  <2> QED BY <2>1, <2>4, OneSplit
<1>5. CASE OutOfMemory(d)
  BY <1>5 DEF OutOfMemory, SplitInv
<1>6. CASE EndPieces(d)
  <2> DEFINE again == x.single /\ Len(x.out) = 1
             u1 == [x EXCEPT !.pc = "breaks", !.out = <<>>, !.single = FALSE]
             u2 == [x EXCEPT !.pc = "embed", !.single = FALSE]
             u == IF again THEN u1 ELSE u2
  <2>1. x.pc = "chunk" /\ x.todo = << >> /\ upload' = [upload EXCEPT ![d] = u]
    BY <1>1, <1>6 DEF EndPieces, At
  <2> HIDE DEF x
  <2>2. /\ u1.pc = "breaks" /\ u1.text = x.text /\ u1.pos = x.pos /\ u1.brk = x.brk /\ u1.out = << >>
        /\ u2.pc = "embed" /\ u2.text = x.text /\ u2.out = x.out
    BY <1>1, <2>1 DEF IsUpload, UploadFields
  <2> HIDE DEF u1, u2
  <2>3. ASSUME TextFits[x.text] PROVE SplitsFit(u)
    <3>1. SplitsFit(x)
      BY <1>1, <2>1, <2>3 DEF SplitProper, Splitting
    <3>2. CASE x.single
      <4>1. /\ x.out = << x.text >> /\ Len(x.text) <= MaxChunkSize
            /\ Len(ParagraphsOf[x.text]) = 1 /\ x.pos = 0 /\ x.brk = 1
        BY <2>1, <3>1, <3>2 DEF SplitsFit
      <4>2. u = u1
        BY <3>2, <4>1
      <4>3. x.text \in Seq(Nat)
        BY <1>2, <2>1 DEF Splitting
      <4>4. LettersFrom(x.text, 0) = Letters(x.text)
        <5>1. SubSeq(x.text, 0 + 1, Len(x.text)) = x.text
          BY <4>3
        <5> QED BY <5>1 DEF LettersFrom
      <4>5. Holds(<< >>, x.text, 0)
        <5>1. \A gaps : Woven(<< >>, gaps) = << >>
          BY DEF Woven
        <5>2. \A gaps : Letters(FlattenSeq(Woven(<< >>, gaps))) \o LettersFrom(x.text, 0) = Letters(x.text)
          BY <4>3, <4>4, <5>1, FlattenEmpty, LettersEmpty, LettersNat, ConcatEmptySeq
        <5>3. [DOMAIN << >> -> Gaps] # {}
          <6>1. [i \in DOMAIN << >> |-> << >>] \in [DOMAIN << >> -> Gaps]
            BY DEF Gaps
          <6> QED BY <6>1
        <5> QED BY <5>2, <5>3 DEF Holds
      <4>6. Short(<< >>) /\ 0 \in 0 .. Len(x.text)
        BY <4>3 DEF Short
      <4> HIDE DEF u
      <4> QED BY <2>2, <4>1, <4>2, <4>5, <4>6 DEF SplitsFit
    <3>3. CASE ~ x.single
      <4>1. x.out \in Seq(Seq(Nat)) /\ Short(x.out \o << >>)
            /\ Letters(FlattenSeq(x.out \o << >>)) = Letters(x.text)
        BY <2>1, <3>1, <3>3 DEF SplitsFit
      <4>2. x.out \o << >> = x.out
        BY <4>1, ConcatEmptySeq
      <4>3. u = u2
        BY <3>3
      <4> HIDE DEF u
      <4> QED BY <2>2, <4>1, <4>2, <4>3 DEF SplitsFit
    <3> QED BY <3>2, <3>3
  <2>4. u.text = x.text
    BY <2>2
  <2> HIDE DEF u
  <2>5. SplitProper(u)
    BY <1>2, <2>1, <2>3, <2>4 DEF SplitProper, Splitting
  <2> QED BY <2>1, <2>5, OneSplit
<1>7. CASE TakeBreak(d)
  <2> DEFINE b == SemanticBreak(x.text, x.pos, x.brk)
             pc == IF b.more THEN "breaks" ELSE "embed"
             u == [x EXCEPT !.out = @ \o b.add, !.brk = b.brk, !.pos = b.next, !.pc = pc]
  <2>1. x.pc = "breaks" /\ upload' = [upload EXCEPT ![d] = u]
    BY <1>1, <1>7 DEF TakeBreak, At
  <2> HIDE DEF x, b, pc
  <2>2. /\ u.pc = pc /\ u.text = x.text /\ u.brk = b.brk /\ u.pos = b.next
        /\ u.out = x.out \o b.add
    BY <1>1, <2>1 DEF IsUpload, UploadFields
  <2> HIDE DEF u
  <2>3. ASSUME TextFits[x.text] PROVE SplitsFit(u)
    <3> DEFINE text == x.text
    <3>1. /\ Len(text) <= MaxChunkSize /\ Len(ParagraphsOf[text]) = 1 /\ x.pos \in 0 .. Len(text)
          /\ x.brk \in Nat \ {0} /\ Short(x.out) /\ Holds(x.out, text, x.pos)
      BY <1>1, <2>1, <2>3 DEF SplitProper, SplitsFit, Splitting
    <3>2. text \in Seq(Nat) /\ x.out \in Seq(Seq(Nat))
      BY <1>2, <2>1, <3>1 DEF Splitting, Short
    <3> HIDE DEF text
    <3>3. Passed(b, text, x.pos)
      BY <3>1, <3>2, BreakTells DEF b, text
    <3>4. b.next \in 0 .. Len(text) /\ b.brk \in Nat \ {0} /\ (~ b.more => b.next = Len(text))
      BY <3>3 DEF Passed
    <3>5. Short(u.out) /\ Holds(u.out, text, b.next)
      <4>1. CASE b.add = << >> /\ LettersFrom(text, x.pos) = LettersFrom(text, b.next)
        <5>1. u.out = x.out
          BY <2>2, <3>2, <4>1, ConcatEmptySeq
        <5> QED BY <3>1, <4>1, <5>1 DEF Holds
      <4>2. ASSUME NEW s \in Seq(Nat), NEW g \in Gaps, b.add = << s >>, Len(s) <= Len(text),
                   LettersFrom(text, x.pos) = Letters(s \o g) \o LettersFrom(text, b.next)
            PROVE  Short(u.out) /\ Holds(u.out, text, b.next)
        <5>1. u.out = Append(x.out, s)
          BY <2>2, <3>2, <4>2, AppendIsConcat
        <5>2. Holds(Append(x.out, s), text, b.next)
          BY <3>1, <3>2, <3>4, <4>2, HoldsMore
        <5>3. Short(Append(x.out, s))
          <6>1. Append(x.out, s) \in Seq(Seq(Nat))
            BY <3>2
          <6>2. Len(s) \in Nat /\ Len(text) \in Nat /\ MaxChunkSize \in Nat
            BY <3>2, SizesAssumption
          <6>3. Len(s) <= MaxChunkSize
            BY <3>1, <4>2, <6>2
          <6>4. \A i \in DOMAIN Append(x.out, s) :
                  \/ i \in DOMAIN x.out /\ Append(x.out, s)[i] = x.out[i]
                  \/ Append(x.out, s)[i] = s
            BY <3>2
          <6> QED BY <3>1, <6>1, <6>3, <6>4 DEF Short
        <5> QED BY <5>1, <5>2, <5>3
      <4> QED BY <3>3, <4>1, <4>2 DEF Passed
    <3>6. CASE b.more
      <4>1. u.pc = "breaks"
        BY <2>2, <3>6 DEF pc
      <4> QED BY <2>2, <3>1, <3>4, <3>5, <4>1 DEF SplitsFit, text
    <3>7. CASE ~ b.more
      <4>1. u.pc = "embed" /\ b.next = Len(text)
        BY <2>2, <3>4, <3>7 DEF pc
      <4>2. u.out \in Seq(Seq(Nat))
        BY <3>5 DEF Short
      <4>3. WithoutRulers(u.out, text)
        BY <3>2, <3>5, <4>1, <4>2, HoldsAll
      <4> QED BY <2>2, <3>1, <3>5, <4>1, <4>3 DEF SplitsFit, text
    <3> QED BY <3>6, <3>7
  <2>4. SplitProper(u)
    BY <1>2, <2>1, <2>2, <2>3 DEF SplitProper, Splitting
  <2> QED BY <2>1, <2>4, OneSplit
<1> QED BY <1>3, <1>4, <1>5, <1>6, <1>7

LEMMA StoringSplits ==
    ASSUME UploadInv, SplitInv, NEW d \in Docs,
           \/ Embed(d) \/ CheckCollection(d) \/ CreateCollection(d) \/ Insert(d) \/ Flush(d)
           \/ GraphNodes(d)
    PROVE  SplitInv'
<1>1. IsUpload(upload[d]) /\ upload = [e \in Docs |-> upload[e]]
  BY UploadIs
<1>2. ASSUME NEW pc \in {"insert", "create", "flush", "graph", "ok"}, Goto(d, pc) PROVE SplitInv'
  <2> DEFINE u == [upload[d] EXCEPT !.pc = pc]
  <2>1. upload' = [upload EXCEPT ![d] = u]
    BY <1>1, <1>2 DEF Goto
  <2>2. u.pc = pc
    BY <1>1 DEF IsUpload, UploadFields
  <2> HIDE DEF u
  <2> QED BY <1>2, <2>1, <2>2, SplitElsewhere DEF Splitting
<1>3. ASSUME FailUpload(d) PROVE SplitInv'
  BY <1>3, FailSplits
<1>4. CASE Embed(d)
  <2>1. CASE FailUpload(d)
    BY <1>3, <2>1
  <2>2. CASE upload' = [upload EXCEPT ![d] = [NoUpload EXCEPT !.pc = "check", !.n = Len(upload[d].out)]]
    <3> DEFINE u == [NoUpload EXCEPT !.pc = "check", !.n = Len(upload[d].out)]
    <3>1. u.pc = "check" /\ upload' = [upload EXCEPT ![d] = u]
      BY <2>2 DEF NoUpload
    <3> HIDE DEF u
    <3> QED BY <3>1, SplitElsewhere DEF Splitting
  <2> QED BY <1>4, <2>1, <2>2 DEF Embed
<1>5. CASE CheckCollection(d)
  BY <1>2, <1>3, <1>5 DEF CheckCollection
<1>6. CASE CreateCollection(d)
  BY <1>2, <1>3, <1>6 DEF CreateCollection
<1>7. CASE Insert(d)
  BY <1>2, <1>3, <1>7 DEF Insert
<1>8. CASE Flush(d)
  BY <1>2, <1>3, <1>8 DEF Flush
<1>9. CASE GraphNodes(d)
  BY <1>2, <1>9 DEF GraphNodes
<1> QED BY <1>4, <1>5, <1>6, <1>7, <1>8, <1>9

LEMMA SplitInvNext == UploadInv /\ SplitInv /\ [Next]_vars => SplitInv'
<1>1. SUFFICES ASSUME UploadInv, SplitInv, [Next]_vars PROVE SplitInv'
  OBVIOUS
<1>2. ASSUME UNCHANGED upload PROVE SplitInv'
  BY <1>1, <1>2 DEF SplitInv
<1>3. ASSUME NEW d \in Docs, NEW t \in Texts[d], Upload(d, t) PROVE SplitInv'
  BY <1>1, <1>3, UploadSplits
<1>4. ASSUME NEW d \in Docs, UploadUnreadable(d) PROVE SplitInv'
  BY <1>1, <1>4, FailSplits DEF UploadUnreadable
<1>5. ASSUME NEW d \in Docs, UploadStep(d) PROVE SplitInv'
  BY <1>1, <1>5, SplittingKeeps, StoringSplits DEF UploadStep
<1>6. ASSUME NEW q \in Queries, NEW m \in Modes, StartQuery(q, m) PROVE SplitInv'
  BY <1>2, <1>6 DEF StartQuery
<1>7. ASSUME NEW q \in Queries, QueryStep(q) PROVE SplitInv'
  BY <1>2, <1>7 DEF QueryStep, Search, SearchPanics, Combine, EndQuery
<1>8. CASE Restart
  <2> DEFINE lost == [NoUpload EXCEPT !.pc = "lost"]
  <2>1. upload' = [d \in Docs |-> IF upload[d].pc \in Answered \cup {"idle"} THEN upload[d] ELSE lost]
    BY <1>8 DEF Restart
  <2>2. lost.pc = "lost"
    BY NoUploadIs
  <2> HIDE DEF lost
  <2>3. ASSUME NEW d \in Docs PROVE SplitProper(upload'[d])
    <3>1. CASE upload'[d] = upload[d]
      BY <1>1, <3>1 DEF SplitInv
    <3>2. CASE upload'[d] = lost
      BY <2>2, <3>2 DEF SplitProper, Splitting
    <3> QED BY <2>1, <3>1, <3>2
  <2> QED BY <2>3 DEF SplitInv
<1>9. CASE UNCHANGED vars
  BY <1>2, <1>9 DEF vars
<1> QED BY <1>1, <1>3, <1>4, <1>5, <1>6, <1>7, <1>8, <1>9 DEF Next

LEMMA SplitInvInit == Init => SplitInv
<1>1. SUFFICES ASSUME Init PROVE SplitInv
  OBVIOUS
<1>2. NoUpload.pc = "idle" /\ upload = [d \in Docs |-> NoUpload]
  BY <1>1 DEF NoUpload, Init
<1> QED BY <1>2 DEF SplitInv, SplitProper, Splitting

\* The chunks that are embedded hold the letters of the document, each once and in their
\* order, and none is longer than the maximum (SmartChunk, for a document that fits).  A
\* document that is a single paragraph may lose whole rulers, each right after a chunk, and
\* nothing else: ChunkBySemanticBreaks drops those it cuts at.
THEOREM SplittingLosesNothing == Spec => []NothingLost
<1>1. SplitInv => NothingLost
  BY DEF SplitInv, SplitProper, SplitsFit, Splitting, Short, NothingLost
<1> QED BY <1>1, UploadsCorrect, SplitInvInit, SplitInvNext, PTL DEF Spec
=============================================================================

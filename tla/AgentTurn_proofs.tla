-------------------------- MODULE AgentTurn_proofs --------------------------
(***************************************************************************)
(* Theorems about a session's agent, for any worlds: requests to stop are  *)
(* heeded soon, no file is written over without the user's word, names     *)
(* keep their layers, a duplicate is skipped only of the same work, and a  *)
(* confirmed repair cures what it was asked for.                           *)
(***************************************************************************)
EXTENDS AgentTurn, FiniteSetTheorems, SequenceTheorems, TLAPS

-----------------------------------------------------------------------------
(* Lists                                                                   *)

\* A list is one of its own elements: its positions are 1..n.
LEMMA ListPlaces ==
  ASSUME NEW s, IsList(s)
  PROVE  Len(s) \in Nat /\ DOMAIN s = 1..Len(s)
BY DEF IsList

LEMMA ListOf ==
  ASSUME NEW n \in Nat, NEW s, s = [k \in 1..n |-> s[k]]
  PROVE  IsList(s) /\ Len(s) = n
<1>1. s \in [1..n -> ToSet(s)]
  BY DEF ToSet
<1>2. s \in Seq(ToSet(s))
  BY <1>1
<1> QED BY <1>1, <1>2 DEF IsList

LEMMA ListIn ==
  ASSUME NEW S, NEW s \in Seq(S)
  PROVE  IsList(s)
<1>1. Len(s) \in Nat /\ s = [k \in 1..Len(s) |-> s[k]]
  OBVIOUS
<1> QED BY <1>1, ListOf

LEMMA ListShort ==
  ASSUME NEW x
  PROVE  /\ IsList(<<>>) /\ DOMAIN <<>> = {}
         /\ IsList(<<x>>) /\ DOMAIN <<x>> = {1} /\ <<x>>[1] = x
<1>1. <<>> \in Seq({x}) /\ <<x>> \in Seq({x})
  OBVIOUS
<1>2. IsList(<<>>) /\ IsList(<<x>>)
  BY <1>1, ListIn
<1> QED BY <1>2

LEMMA ListAppend ==
  ASSUME NEW s, IsList(s), NEW e
  PROVE  /\ IsList(Append(s, e)) /\ Len(Append(s, e)) = Len(s) + 1
         /\ \A k \in DOMAIN Append(s, e) : Append(s, e)[k] = e \/ (k \in DOMAIN s /\ Append(s, e)[k] = s[k])
<1> DEFINE S == ToSet(s) \cup {e}
<1>1. s \in Seq(S) /\ e \in S
  <2>1. s \in Seq(ToSet(s)) /\ ToSet(s) \subseteq S
    BY DEF IsList
  <2>2. Len(s) \in Nat /\ \A k \in 1..Len(s) : s[k] \in ToSet(s)
    BY <2>1
  <2>3. s = [k \in 1..Len(s) |-> s[k]]
    BY <2>1
  <2> QED BY <2>1, <2>2, <2>3
<1> HIDE DEF S
<1>2. Append(s, e) \in Seq(S) /\ Len(Append(s, e)) = Len(s) + 1
  BY <1>1
<1>3. IsList(Append(s, e))
  BY <1>2, ListIn
<1>4. \A k \in 1..Len(s) + 1 : Append(s, e)[k] = IF k = Len(s) + 1 THEN e ELSE s[k]
  BY <1>1
<1>5. Len(s) \in Nat /\ DOMAIN s = 1..Len(s) /\ DOMAIN Append(s, e) = 1..Len(s) + 1
  BY <1>1, <1>2
<1>6. ASSUME NEW k \in 1..Len(s) + 1
      PROVE  Append(s, e)[k] = e \/ (k \in DOMAIN s /\ Append(s, e)[k] = s[k])
  BY <1>4, <1>5
<1> QED BY <1>2, <1>3, <1>5, <1>6

LEMMA ListConcat ==
  ASSUME NEW s, NEW t, IsList(s), IsList(t)
  PROVE  IsList(s \o t) /\ Len(s \o t) = Len(s) + Len(t) /\ \A k \in DOMAIN (s \o t) : (\E j \in DOMAIN s : (s \o t)[k] = s[j]) \/ (\E j \in DOMAIN t : (s \o t)[k] = t[j])
<1> DEFINE S == ToSet(s) \cup ToSet(t)
<1>1. s \in Seq(S) /\ t \in Seq(S)
  <2>1. Len(s) \in Nat /\ s = [k \in 1..Len(s) |-> s[k]] /\ \A k \in 1..Len(s) : s[k] \in S
    BY DEF IsList, ToSet
  <2>2. Len(t) \in Nat /\ t = [k \in 1..Len(t) |-> t[k]] /\ \A k \in 1..Len(t) : t[k] \in S
    BY DEF IsList, ToSet
  <2> HIDE DEF S
  <2> QED BY <2>1, <2>2
<1> HIDE DEF S
<1>2. s \o t \in Seq(S) /\ Len(s \o t) = Len(s) + Len(t)
  BY <1>1
<1>3. IsList(s \o t)
  BY <1>2, ListIn
<1>4. \A k \in 1..Len(s) + Len(t) : (s \o t)[k] = IF k <= Len(s) THEN s[k] ELSE t[k - Len(s)]
  BY <1>1
<1>5. ASSUME NEW k \in 1..Len(s) + Len(t)
      PROVE  (\E j \in DOMAIN s : (s \o t)[k] = s[j]) \/ (\E j \in DOMAIN t : (s \o t)[k] = t[j])
  <2>1. Len(s) \in Nat /\ Len(t) \in Nat /\ DOMAIN s = 1..Len(s) /\ DOMAIN t = 1..Len(t)
    BY <1>1
  <2>2. CASE k <= Len(s)
    BY <2>1, <2>2, <1>4
  <2>3. CASE ~(k <= Len(s))
    <3>1. k - Len(s) \in 1..Len(t)
      BY <2>1, <2>3
    <3> QED BY <3>1, <2>1, <2>3, <1>4
  <2> QED BY <2>2, <2>3
<1>6. DOMAIN (s \o t) = 1..Len(s) + Len(t)
  BY <1>2
<1> QED BY <1>2, <1>3, <1>5, <1>6

LEMMA ListTail ==
  ASSUME NEW s, IsList(s), s # <<>>
  PROVE  /\ IsList(Tail(s)) /\ Len(Tail(s)) = Len(s) - 1 /\ Len(s) >= 1
         /\ 1 \in DOMAIN s /\ Head(s) = s[1]
         /\ \A k \in DOMAIN Tail(s) : k + 1 \in DOMAIN s /\ Tail(s)[k] = s[k + 1]
<1>1. s \in Seq(ToSet(s))
  BY DEF IsList
<1>2. Tail(s) \in Seq(ToSet(s)) /\ Len(Tail(s)) = Len(s) - 1 /\ Len(s) >= 1 /\ Len(s) \in Nat
  BY <1>1
<1>3. IsList(Tail(s))
  BY <1>2, ListIn
<1>4. \A k \in 1..Len(s) - 1 : Tail(s)[k] = s[k + 1]
  BY <1>1
<1> QED BY <1>1, <1>2, <1>3, <1>4

-----------------------------------------------------------------------------
(* The elements of a list that pass a test                                 *)

\* A set of numbers has a least one.
LEMMA LeastOf ==
  ASSUME NEW S \in SUBSET Nat, S # {}
  PROVE  \E x \in S : \A y \in S : x <= y
<1> DEFINE R == {ss \in Nat \X Nat : ss[1] < ss[2]}
<1>1. IsWellFoundedOn(R, Nat)
  BY NatLessThanWellFounded DEF OpToRel
<1>2. PICK x \in S : \A y \in S : ~(<<y, x>> \in R)
  <2> HIDE DEF R
  <2> QED BY <1>1, WFMin
<1>3. \A y \in S : ~(y < x)
  BY <1>2
<1> QED BY <1>3

\* The k-th of some places is one of them.
LEMMA NthPlace ==
  ASSUME NEW n \in Nat, NEW places \in SUBSET (1..n)
  PROVE  /\ Cardinality(places) \in Nat
         /\ places # {} => Cardinality(places) # 0
         /\ \A k \in 1..Cardinality(places) : Nth(places, k) \in places
<1>1. IsFiniteSet(places) /\ Cardinality(places) \in Nat
  <2>1. IsFiniteSet(1..n)
    BY FS_Interval
  <2> QED BY <2>1, FS_Subset, FS_CardinalityType
<1>2. places # {} => Cardinality(places) # 0
  BY <1>1, FS_EmptySet
<1>3. PICK upto : upto = [m \in 0..n |-> {j \in places : j <= m}]
  OBVIOUS
<1>4. \A m \in 0..n : IsFiniteSet(upto[m]) /\ Cardinality(upto[m]) \in Nat
  <2> SUFFICES ASSUME NEW m \in 0..n PROVE IsFiniteSet(upto[m]) /\ Cardinality(upto[m]) \in Nat
    OBVIOUS
  <2>1. upto[m] \in SUBSET places
    BY <1>3
  <2> QED BY <2>1, <1>1, FS_Subset, FS_CardinalityType
<1>5. Cardinality(upto[0]) = 0 /\ Cardinality(upto[n]) = Cardinality(places)
  <2>1. 0 \in 0..n /\ n \in 0..n /\ \A j \in places : j \in Nat /\ j <= n /\ ~(j <= 0)
    OBVIOUS
  <2>2. upto[0] = {} /\ upto[n] = places
    BY <1>3, <2>1
  <2> QED BY <2>2, FS_EmptySet
<1>6. \A m \in 1..n :
        Cardinality(upto[m]) = Cardinality(upto[m - 1]) + (IF m \in places THEN 1 ELSE 0)
  <2> SUFFICES ASSUME NEW m \in 1..n
               PROVE  Cardinality(upto[m]) = Cardinality(upto[m - 1]) + (IF m \in places THEN 1 ELSE 0)
    OBVIOUS
  <2>1. m \in 0..n /\ m - 1 \in 0..n /\ ~(m <= m - 1) /\ \A j \in places : j \in Nat
    OBVIOUS
  <2>2. IsFiniteSet(upto[m - 1]) /\ Cardinality(upto[m - 1]) \in Nat
    BY <2>1, <1>4
  <2>3. \A j \in places : j <= m <=> j <= m - 1 \/ j = m
    BY <2>1
  <2>4. CASE m \in places
    <3>1. upto[m] = {j \in places : j <= m} /\ upto[m - 1] = {j \in places : j <= m - 1}
      BY <2>1, <1>3
    <3>2. \A j \in upto[m] : j \in upto[m - 1] \/ j = m
      BY <2>3, <3>1
    <3>3. \A j \in upto[m - 1] : j \in upto[m] /\ j # m
      BY <2>1, <2>3, <3>1
    <3>4. m \in upto[m]
      BY <2>1, <2>4, <3>1
    <3>5. upto[m] = upto[m - 1] \cup {m} /\ m \notin upto[m - 1]
      BY <3>2, <3>3, <3>4
    <3> QED BY <2>2, <2>4, <3>5, FS_AddElement
  <2>5. CASE m \notin places
    <3>1. upto[m] = upto[m - 1]
      BY <2>1, <2>3, <2>5, <1>3
    <3> QED BY <2>2, <2>5, <3>1
  <2> QED BY <2>4, <2>5
<1>7. ASSUME NEW k \in 1..Cardinality(places)
      PROVE  Nth(places, k) \in places
  <2>1. PICK reach : reach = {m \in 0..n : Cardinality(upto[m]) >= k}
    OBVIOUS
  <2>2. reach \in SUBSET Nat /\ n \in reach
    BY <2>1, <1>1, <1>5
  <2>3. PICK m \in reach : \A j \in reach : m <= j
    BY <2>2, LeastOf
  <2>4. m \in 1..n
    BY <2>1, <2>3, <1>5
  <2>5. m - 1 \in 0..n /\ ~(m <= m - 1)
    BY <2>4
  <2>6. Cardinality(upto[m]) >= k /\ ~(Cardinality(upto[m - 1]) >= k)
    BY <2>1, <2>3, <2>5
  <2>7. Cardinality(upto[m]) \in Nat /\ Cardinality(upto[m - 1]) \in Nat
    BY <2>4, <2>5, <1>4
  <2>8. m \in places /\ Cardinality(upto[m]) = k
    BY <2>4, <2>6, <2>7, <1>6
  <2>9. upto[m] = {j \in places : j <= m}
    BY <2>4, <1>3
  <2> QED BY <2>8, <2>9 DEF Nth
<1> QED BY <1>1, <1>2, <1>7

\* What is stopped by the rules is a list of issues that were found, and it is empty
\* only if everything found was soft.
LEMMA BlockingFound ==
  ASSUME NEW list, IsList(list)
  PROVE  /\ IsList(Blocking(list))
         /\ \A k \in DOMAIN Blocking(list) : \E j \in DOMAIN list : Blocking(list)[k] = list[j]
         /\ Blocking(list) = <<>> => \A j \in DOMAIN list : SoftWarning(list[j])
<1> DEFINE places == {k \in DOMAIN list : ~SoftWarning(list[k])}
<1>1. Len(list) \in Nat /\ DOMAIN list = 1..Len(list) /\ places \in SUBSET (1..Len(list))
  BY ListPlaces
<1>2. /\ Cardinality(places) \in Nat
      /\ places # {} => Cardinality(places) # 0
      /\ \A k \in 1..Cardinality(places) : Nth(places, k) \in places
  BY <1>1, NthPlace
<1>3. Blocking(list) = [k \in 1..Cardinality(places) |-> list[Nth(places, k)]]
  BY DEF Blocking, Those
<1> HIDE DEF places
<1>4. IsList(Blocking(list)) /\ Len(Blocking(list)) = Cardinality(places)
  BY <1>2, <1>3, ListOf
<1>5. \A k \in DOMAIN Blocking(list) : \E j \in places : Blocking(list)[k] = list[j]
  BY <1>2, <1>3
<1>6. Blocking(list) = <<>> => places = {}
  BY <1>2, <1>4
<1> QED BY <1>4, <1>5, <1>6 DEF places

\* What is left of findings when warnings are silenced are findings.
LEMMA WorstFound ==
  ASSUME NEW list, IsList(list)
  PROVE  IsList(WorstOf(list)) /\ \A k \in DOMAIN WorstOf(list) : \E j \in DOMAIN list : WorstOf(list)[k] = list[j]
<1> DEFINE places == {k \in DOMAIN list : ~IsWarning(list[k])}
           bad == [k \in 1..Cardinality(places) |-> list[Nth(places, k)]]
<1>1. Len(list) \in Nat /\ DOMAIN list = 1..Len(list) /\ places \in SUBSET (1..Len(list))
  BY ListPlaces
<1>2. /\ Cardinality(places) \in Nat
      /\ \A k \in 1..Cardinality(places) : Nth(places, k) \in places
  BY <1>1, NthPlace
<1>3. WorstOf(list) = IF bad # <<>> THEN bad ELSE list
  BY DEF WorstOf, Those, OrIssues
<1>4. IsList(bad)
  BY <1>2, ListOf
<1>5. \A k \in DOMAIN bad : \E j \in places : bad[k] = list[j]
  BY <1>2
<1> HIDE DEF bad
<1> QED BY <1>3, <1>4, <1>5

-----------------------------------------------------------------------------
(* A list of lists made one                                                *)

\* What the recursive function of FlattenSeq is.
Flattens(f, ss, n) == f = [i \in 1..n |-> IF i = 1 THEN ss[i] ELSE f[i - 1] \o ss[i]]

\* It exists,
LEMMA FlatValues ==
  ASSUME NEW S, NEW n \in Nat, NEW ss \in [1..n -> Seq(S)]
  PROVE  \E f : Flattens(f, ss, n)
<1> DEFINE Good(m, f) ==
             /\ f \in [1..m -> Seq(S)]
             /\ \A i \in 1..m : f[i] = IF i = 1 THEN ss[i] ELSE f[i - 1] \o ss[i]
           bad == {m \in 0..n : ~\E f : Good(m, f)}
<1>1. bad = {}
  <2> SUFFICES ASSUME bad # {} PROVE FALSE
    OBVIOUS
  <2>1. bad \in SUBSET Nat
    OBVIOUS
  <2>2. PICK m \in bad : \A j \in bad : m <= j
    <3> HIDE DEF bad
    <3> QED BY <2>1, LeastOf
  <2>3. m # 0
    <3>1. Good(0, [i \in 1..0 |-> <<>>])
      OBVIOUS
    <3> QED BY <3>1, <2>2
  <2>4. m \in 1..n /\ m - 1 \in 0..n /\ ~(m <= m - 1)
    BY <2>2, <2>3
  <2>5. PICK f : Good(m - 1, f)
    BY <2>2, <2>4
  <2> DEFINE g == [i \in 1..m |-> IF i < m THEN f[i] ELSE IF m = 1 THEN ss[m] ELSE f[m - 1] \o ss[m]]
  <2>6. m # 1 => m - 1 \in 1..m - 1
    BY <2>4
  <2>7. ss[m] \in Seq(S) /\ (m # 1 => f[m - 1] \in Seq(S))
    BY <2>4, <2>5, <2>6
  <2>8. \A i \in 1..m : i < m => i \in 1..m - 1
    BY <2>4
  <2>9. g \in [1..m -> Seq(S)]
    <3> SUFFICES ASSUME NEW i \in 1..m
                 PROVE  (IF i < m THEN f[i] ELSE IF m = 1 THEN ss[m] ELSE f[m - 1] \o ss[m]) \in Seq(S)
      OBVIOUS
    <3>1. CASE i < m
      BY <3>1, <2>5, <2>8
    <3>2. CASE ~(i < m) /\ m = 1
      BY <3>2, <2>7
    <3>3. CASE ~(i < m) /\ m # 1
      <4>1. f[m - 1] \o ss[m] \in Seq(S)
        BY <3>3, <2>7
      <4> QED BY <3>3, <4>1
    <3> QED BY <3>1, <3>2, <3>3
  <2>10. \A i \in 1..m : g[i] = IF i = 1 THEN ss[i] ELSE g[i - 1] \o ss[i]
    <3> SUFFICES ASSUME NEW i \in 1..m
                 PROVE  g[i] = IF i = 1 THEN ss[i] ELSE g[i - 1] \o ss[i]
      OBVIOUS
    <3>1. i # 1 => i - 1 \in 1..m /\ i - 1 < m /\ g[i - 1] = f[i - 1]
      BY <2>4
    <3>2. CASE i < m
      <4>1. g[i] = f[i] /\ i \in 1..m - 1
        BY <3>2, <2>8
      <4>2. f[i] = IF i = 1 THEN ss[i] ELSE f[i - 1] \o ss[i]
        BY <4>1, <2>5
      <4> QED BY <4>1, <4>2, <3>1
    <3>3. CASE i = m
      BY <3>1, <3>3, <2>4
    <3> QED BY <3>2, <3>3, <2>4
  <2>11. Good(m, g)
    <3> HIDE DEF g
    <3> QED BY <2>9, <2>10
  <2> QED BY <2>2, <2>11
<1>2. PICK f : Good(n, f)
  <2>1. n \in 0..n
    OBVIOUS
  <2> QED BY <1>1, <2>1
<1>3. Flattens(f, ss, n)
  BY <1>2 DEF Flattens
<1> QED BY <1>3

\* and has lists for values.
LEMMA FlatAnyway ==
  ASSUME NEW S, NEW n \in Nat, NEW ss \in [1..n -> Seq(S)], NEW f,
         Flattens(f, ss, n)
  PROVE  \A i \in 1..n : f[i] \in Seq(S)
<1>1. PICK bad : bad = {m \in 1..n : f[m] \notin Seq(S)}
  OBVIOUS
<1>2. SUFFICES ASSUME bad # {} PROVE FALSE
  BY <1>1
<1>3. bad \in SUBSET Nat
  BY <1>1
<1>4. PICK m \in bad : \A j \in bad : m <= j
  BY <1>2, <1>3, LeastOf
<1>5. m \in 1..n /\ f[m] \notin Seq(S) /\ ~(m <= m - 1)
  BY <1>1, <1>4
<1>6. f[m] = IF m = 1 THEN ss[m] ELSE f[m - 1] \o ss[m]
  BY <1>5 DEF Flattens
<1>7. ss[m] \in Seq(S)
  BY <1>5
<1>8. m # 1 => m - 1 \in 1..n /\ m - 1 \notin bad
  BY <1>4, <1>5
<1>9. m # 1 => f[m - 1] \in Seq(S)
  BY <1>1, <1>8
<1>10. m # 1 => f[m - 1] \o ss[m] \in Seq(S)
  BY <1>7, <1>9
<1> QED BY <1>5, <1>6, <1>7, <1>10

LEMMA FlattenedIn ==
  ASSUME NEW S, NEW ss \in Seq(Seq(S))
  PROVE  FlattenSeq(ss) \in Seq(S)
<1>1. CASE Len(ss) = 0
  BY <1>1 DEF FlattenSeq
<1>2. CASE Len(ss) # 0
  <2>1. PICK n : n = Len(ss)
    OBVIOUS
  <2>2. n \in Nat /\ n \in 1..n /\ ss \in [1..n -> Seq(S)]
    BY <1>2, <2>1
  <2>3. PICK f : f = CHOOSE g : Flattens(g, ss, n)
    OBVIOUS
  <2>4. Flattens(f, ss, n)
    BY <2>2, <2>3, FlatValues
  <2>5. FlattenSeq(ss) = f[n]
    BY <1>2, <2>1, <2>3 DEF FlattenSeq, Flattens
  <2>6. \A i \in 1..n : f[i] \in Seq(S)
    BY <2>2, <2>4, FlatAnyway
  <2> QED BY <2>2, <2>5, <2>6
<1> QED BY <1>1, <1>2

\* What a flattened list holds was in one of the lists.
LEMMA Flattened ==
  ASSUME NEW ss, IsList(ss), \A k \in DOMAIN ss : IsList(ss[k])
  PROVE  /\ IsList(FlattenSeq(ss))
         /\ \A k \in DOMAIN FlattenSeq(ss) : \E j \in DOMAIN ss : \E i \in DOMAIN ss[j] : FlattenSeq(ss)[k] = ss[j][i]
<1> DEFINE S == UNION {{ss[j][i] : i \in DOMAIN ss[j]} : j \in DOMAIN ss}
<1>1. \A j \in DOMAIN ss : ss[j] \in Seq(S)
  <2> SUFFICES ASSUME NEW j \in DOMAIN ss PROVE ss[j] \in Seq(S)
    OBVIOUS
  <2>1. Len(ss[j]) \in Nat /\ DOMAIN ss[j] = 1..Len(ss[j]) /\ ss[j] = [i \in 1..Len(ss[j]) |-> ss[j][i]]
    BY DEF IsList
  <2>2. ASSUME NEW i \in 1..Len(ss[j]) PROVE ss[j][i] \in S
    <3>1. ss[j][i] \in {ss[j][k] : k \in DOMAIN ss[j]}
      BY <2>1
    <3> QED BY <3>1
  <2> HIDE DEF S
  <2> QED BY <2>1, <2>2
<1>2. \A x \in S : \E j \in DOMAIN ss : \E i \in DOMAIN ss[j] : x = ss[j][i]
  OBVIOUS
<1> HIDE DEF S
<1>3. ss \in Seq(Seq(S))
  <2>1. Len(ss) \in Nat /\ ss = [k \in 1..Len(ss) |-> ss[k]] /\ DOMAIN ss = 1..Len(ss)
    BY DEF IsList
  <2> QED BY <1>1, <2>1
<1>4. FlattenSeq(ss) \in Seq(S)
  BY <1>3, FlattenedIn
<1>5. IsList(FlattenSeq(ss)) /\ \A k \in DOMAIN FlattenSeq(ss) : FlattenSeq(ss)[k] \in S
  BY <1>4, ListIn
<1> QED BY <1>2, <1>5

-----------------------------------------------------------------------------
(* What the rules find.  Most rules object with one issue that stops the   *)
(* action and that no repair cures.  The others offer repairs: the steps   *)
(* write no file, and the patch either is the user's word to overwrite or  *)
(* leaves alone what the overwrite rule looked at.                         *)

\* What the overwrite rule has nothing against.
MayWrite(p, F) ==
  NeedsDiskOutput(OutputPath(p)) \/ Slot(p, "overwrite") # <<>> \/ OutputPath(p) \notin F

\* What only these are said with has a repair.
RepairCodes == {"output_exists", "distance_requires_projected_crs", "overlay_crs_mismatch"}

Plain(issue) == issue.steps = <<>> /\ issue.patch = NoPatch /\ issue.code \notin RepairCodes

Objects(list) == list = <<>> \/ \E x : list = <<x>> /\ Plain(x) /\ ~SoftWarning(x)

\* A step that writes no file the user named.
Quiet(p) == p.action = "reproject_layer" /\ Slot(p, "output_path") = <<>> /\ Slot(p, "output") = <<>>

QuietSteps(list) == IsList(list) /\ \A k \in DOMAIN list : Quiet(list[k])

\* What no repair patches but by the user's word to overwrite.
KeptSlots == {"output_path", "output", "overwrite", "input_refs"}

Repairs(issue, p, F) ==
  /\ issue.missing = <<>> /\ issue.stage = "preflight" /\ issue.code \notin {"unknown_field", "unknown_layer"}
  /\ QuietSteps(issue.steps)
  /\ \/ issue.patch = [overwrite |-> <<"yes">>]
     \/ MayWrite(p, F) /\ DOMAIN issue.patch \cap KeptSlots = {}

Fits(list, p, F) == IsList(list) /\ \A k \in DOMAIN list : Plain(list[k]) \/ Repairs(list[k], p, F)

LEMMA PlainIssues ==
  ASSUME NEW x, NEW l
  PROVE  /\ \A code : code \notin RepairCodes =>
              /\ \A stage : Plain(Issue(code, stage, "error")) /\ ~SoftWarning(Issue(code, stage, "error"))
              /\ Plain(AskUser(code, x)) /\ ~SoftWarning(AskUser(code, x))
              /\ Plain(Warning(code, x))
         /\ Plain(MissingSlots(x)) /\ ~SoftWarning(MissingSlots(x))
         /\ Plain(UnknownLayer(x)) /\ ~SoftWarning(UnknownLayer(x))
         /\ Plain(UnknownField(l, x)) /\ ~SoftWarning(UnknownField(l, x))
         /\ Plain(UnknownCrs(x)) /\ ~SoftWarning(UnknownCrs(x))
         /\ \A issue : Plain(issue) => Plain(OfLayers(issue, x))
<1>1. ASSUME NEW code, code \notin RepairCodes
      PROVE  /\ \A stage : Plain(Issue(code, stage, "error")) /\ ~SoftWarning(Issue(code, stage, "error"))
             /\ Plain(AskUser(code, x)) /\ ~SoftWarning(AskUser(code, x))
             /\ Plain(Warning(code, x))
  BY <1>1 DEF Plain, SoftWarning, IsWarning, Issue, AskUser, Warning
<1>2. Plain(MissingSlots(x)) /\ ~SoftWarning(MissingSlots(x))
  BY DEF Plain, RepairCodes, SoftWarning, IsWarning, Issue, MissingSlots
<1>3. Plain(UnknownLayer(x)) /\ ~SoftWarning(UnknownLayer(x))
  BY DEF Plain, RepairCodes, SoftWarning, IsWarning, Issue, AskUser, UnknownLayer
<1>4. Plain(UnknownField(l, x)) /\ ~SoftWarning(UnknownField(l, x))
  BY DEF Plain, RepairCodes, SoftWarning, IsWarning, Issue, AskUser, UnknownField
<1>5. Plain(UnknownCrs(x)) /\ ~SoftWarning(UnknownCrs(x))
  BY DEF Plain, RepairCodes, SoftWarning, IsWarning, Issue, AskUser, OfLayers, UnknownCrs
<1>6. \A issue : Plain(issue) => Plain(OfLayers(issue, x))
  BY DEF Plain, OfLayers
<1> QED BY <1>1, <1>2, <1>3, <1>4, <1>5, <1>6

\* An objection alone, or none.
LEMMA OneObjects ==
  ASSUME NEW test, NEW x, NEW l
  PROVE  /\ Objects(<<>>)
         /\ \A code : code \notin RepairCodes =>
              /\ \A stage : Objects(One(test, Issue(code, stage, "error"))) /\ Objects(<<Issue(code, stage, "error")>>)
              /\ Objects(One(test, AskUser(code, x))) /\ Objects(<<AskUser(code, x)>>)
         /\ Objects(One(test, MissingSlots(x)))
         /\ Objects(One(test, UnknownLayer(x))) /\ Objects(<<UnknownLayer(x)>>)
         /\ Objects(One(test, UnknownField(l, x)))
BY PlainIssues DEF One, Objects

LEMMA OrObjects ==
  ASSUME NEW a, NEW b, Objects(a), Objects(b)
  PROVE  Objects(OrIssues(a, b))
BY DEF OrIssues

LEMMA SemanticObjects ==
  ASSUME NEW p
  PROVE  Objects(SemanticIssues(p))
<1>1. Objects(SchemaRequired(p))
  BY OneObjects DEF RepairCodes, SchemaRequired, Missing
<1>2. Objects(RequiredSlots(p))
  BY OneObjects DEF RequiredSlots, Missing
<1>3. Objects(BufferDistance(p))
  BY OneObjects DEF RepairCodes, BufferDistance
<1>4. Objects(AttributeOperator(p))
  BY OneObjects DEF RepairCodes, AttributeOperator
<1>5. Objects(SpatialPredicate(p))
  BY OneObjects DEF RepairCodes, SpatialPredicate
<1> DEFINE found == <<RequiredSlots(p), BufferDistance(p), AttributeOperator(p), SpatialPredicate(p)>>
<1>6. \A k \in DOMAIN found : Objects(found[k])
  BY <1>2, <1>3, <1>4, <1>5
<1> HIDE DEF found
<1>7. Objects(FirstOf(found))
  BY <1>6, OneObjects DEF FirstOf, FirstIn
<1> QED BY <1>1, <1>7, OrObjects DEF SemanticIssues, found

LEMMA KindsObject ==
  ASSUME NEW p, NEW t
  PROVE  Objects(LayerKindRequirements(p, t))
<1>1. \A ref, i, kind : Objects(LayerKindIssue(t, ref, i, kind))
  BY OneObjects DEF RepairCodes, LayerKindIssue
<1> QED BY <1>1, OneObjects DEF LayerKindRequirements, FirstIn

LEMMA GeometriesObject ==
  ASSUME NEW p, NEW t
  PROVE  Objects(GeometryRequirements(p, t))
<1>1. \A i, geom : Objects(GeometryIssue(t, i, geom))
  BY OneObjects DEF RepairCodes, GeometryIssue
<1> QED BY <1>1, OneObjects DEF GeometryRequirements, FirstIn

LEMMA FieldsObject ==
  ASSUME NEW p, NEW t
  PROVE  /\ Objects(FieldRequirements(p, t))
         /\ \A i, fields : Objects(FieldIssue(t, i, fields))
<1>1. \A i, fields : Objects(FieldIssue(t, i, fields))
  BY OneObjects DEF FieldIssue, UnknownFields
<1> QED BY <1>1, OneObjects DEF FieldRequirements, FirstIn

\* Nothing hard to say means that the overwrite rule had nothing to say.
LEMMA SilenceAllows ==
  ASSUME NEW p, NEW t, NEW F, IsList(Validate(p, t, F)), HardIssues(p, t, F) = <<>>
  PROVE  MayWrite(p, F)
<1> DEFINE later == OrIssues(OutputOverwrite(p, F), ActionRules(p, t, LayerOf(p, "input_ref", t)))
<1>1. \A j \in DOMAIN Validate(p, t, F) : SoftWarning(Validate(p, t, F)[j])
  BY BlockingFound DEF HardIssues
<1>2. \A list : Objects(list) /\ Validate(p, t, F) = list => list = <<>>
  BY <1>1 DEF Objects
<1>3. Validate(p, t, F) = later
  <2> HIDE DEF later
  <2> QED BY <1>2, SemanticObjects, KindsObject, GeometriesObject, FieldsObject
        DEF Validate, PreflightIssues, OrIssues, later
<1> DEFINE issue == Confirmable(Warning("output_exists", OutputPath(p)), <<>>, [overwrite |-> <<"yes">>])
<1>4. ~SoftWarning(issue)
  BY DEF SoftWarning, Confirmable, Warning, Issue
<1>5. OutputOverwrite(p, F) = <<>>
  <2> SUFFICES ASSUME OutputOverwrite(p, F) # <<>> PROVE FALSE
    OBVIOUS
  <2>1. OutputOverwrite(p, F) = <<issue>>
    BY DEF OutputOverwrite, One
  <2>2. later = <<issue>>
    BY <2>1 DEF OrIssues
  <2> HIDE DEF later, issue
  <2> QED BY <2>2, <1>1, <1>3, <1>4
<1> QED BY <1>5 DEF OutputOverwrite, One, MayWrite

-----------------------------------------------------------------------------
(* The rules of one action                                                 *)

\* Lists of plain issues.
AllPlain(list) == IsList(list) /\ \A k \in DOMAIN list : Plain(list[k])

LEMMA PlainLists ==
  ASSUME NEW p, NEW F
  PROVE  /\ AllPlain(<<>>)
         /\ \A x : Plain(x) => AllPlain(<<x>>)
         /\ \A x : Plain(x) => \A test : AllPlain(One(test, x))
         /\ \A list : Objects(list) => AllPlain(list)
         /\ \A list : AllPlain(list) => Fits(list, p, F)
<1>1. \A x : IsList(<<x>>) /\ DOMAIN <<x>> = {1} /\ <<x>>[1] = x
  BY ListShort
<1>2. IsList(<<>>) /\ DOMAIN <<>> = {}
  BY ListShort
<1>3. AllPlain(<<>>)
  BY <1>2 DEF AllPlain
<1>4. \A x : Plain(x) => AllPlain(<<x>>)
  BY <1>1 DEF AllPlain
<1>5. \A list : Objects(list) => AllPlain(list)
  BY <1>3, <1>4 DEF Objects
<1> QED BY <1>3, <1>4, <1>5 DEF AllPlain, Fits, One

\* Pieces of plain issues are plain.
LEMMA PlainPieces ==
  ASSUME NEW a, NEW b, AllPlain(a), AllPlain(b)
  PROVE  AllPlain(a \o b) /\ AllPlain(OrIssues(a, b)) /\ AllPlain(WorstOf(a))
<1>1. IsList(a) /\ IsList(b)
  BY DEF AllPlain
<1>2. /\ IsList(a \o b)
      /\ \A k \in DOMAIN (a \o b) : (\E j \in DOMAIN a : (a \o b)[k] = a[j]) \/ (\E j \in DOMAIN b : (a \o b)[k] = b[j])
  BY <1>1, ListConcat
<1>3. AllPlain(a \o b)
  BY <1>2 DEF AllPlain
<1>4. AllPlain(WorstOf(a))
  BY <1>1, WorstFound DEF AllPlain
<1> QED BY <1>3, <1>4 DEF OrIssues

LEMMA PlainFlattened ==
  ASSUME NEW lists, IsList(lists), \A k \in DOMAIN lists : AllPlain(lists[k])
  PROVE  AllPlain(FlattenSeq(lists))
BY Flattened DEF AllPlain

\* Rasters are warned about and objected to, never repaired.
LEMMA PairPlain ==
  ASSUME NEW l, NEW r
  PROVE  AllPlain(PairAlignment(l, r))
<1> DEFINE a == One(Known(l.extent, r.extent, {}) /\ l.extent # r.extent,
                    OfLayers(Warning("raster_extent_partial_overlap", <<>>), <<l, r>>))
           b == One(Known(l.pixel, r.pixel, 0) /\ l.pixel # r.pixel,
                    OfLayers(Warning("raster_pixel_size_mismatch", <<>>), <<l, r>>))
<1>1. AllPlain(a) /\ AllPlain(b)
  BY PlainLists, PlainIssues DEF RepairCodes
<1>2. AllPlain(a \o b)
  <2> HIDE DEF a, b
  <2> QED BY <1>1, PlainPieces
<1>3. \A code : code \notin RepairCodes => AllPlain(<<OfLayers(AskUser(code, <<>>), <<l, r>>)>>)
  BY PlainLists, PlainIssues
<1> HIDE DEF a, b
<1> QED BY <1>2, <1>3 DEF RepairCodes, PairAlignment, a, b

LEMMA AlignmentPlain ==
  ASSUME NEW rasters, IsList(rasters)
  PROVE  AllPlain(MultiRasterAlignment(rasters)) /\ AllPlain(NodataWarnings(rasters))
<1>1. PICK n : n = Len(rasters)
  OBVIOUS
<1>2. n \in Nat /\ DOMAIN rasters = 1..n /\ n * n \in Nat
  BY <1>1, ListPlaces
<1> DEFINE pair(a, b) == IF a < b THEN PairAlignment(rasters[a], rasters[b]) ELSE <<>>
           pairs == [k \in 1..(n * n) |-> pair(((k - 1) \div n) + 1, ((k - 1) % n) + 1)]
           dusty == [k \in DOMAIN rasters |-> One(rasters[k].nodata, Warning("raster_nodata_propagation", rasters[k].name))]
<1>3. \A a, b : AllPlain(pair(a, b))
  BY PairPlain, PlainLists
<1>4. IsList(pairs) /\ \A k \in DOMAIN pairs : AllPlain(pairs[k])
  <2>1. IsList(pairs)
    <3> HIDE DEF pair
    <3> QED BY <1>2, ListOf
  <2>2. \A k \in DOMAIN pairs : AllPlain(pairs[k])
    <3> HIDE DEF pair
    <3> QED BY <1>3
  <2> QED BY <2>1, <2>2
<1>5. IsList(dusty) /\ \A k \in DOMAIN dusty : AllPlain(dusty[k])
  <2>1. IsList(dusty)
    BY <1>2, ListOf
  <2>2. \A x, test : AllPlain(One(test, Warning("raster_nodata_propagation", x)))
    BY PlainLists, PlainIssues DEF RepairCodes
  <2> QED BY <2>1, <2>2
<1>6. MultiRasterAlignment(rasters) = WorstOf(FlattenSeq(pairs)) /\ NodataWarnings(rasters) = FlattenSeq(dusty)
  BY <1>1 DEF MultiRasterAlignment, NodataWarnings
<1> HIDE DEF pairs, dusty
<1>7. AllPlain(FlattenSeq(pairs)) /\ AllPlain(FlattenSeq(dusty))
  BY <1>4, <1>5, PlainFlattened
<1> QED BY <1>6, <1>7, PlainPieces

LEMMA RastersPlain ==
  ASSUME NEW p, NEW t, NEW i, ListValues(p.input)
  PROVE  AllPlain(RasterInputs(p, t, i))
<1> DEFINE refs == Slot(p, "raster_refs")
           layers == [k \in DOMAIN refs |-> t.layers[Resolve(t, refs[k])]]
           input == RasterRef(t, Slot(p, "input_ref"), LayerOf(p, "input_ref", t), p.action = "reproject_raster")
           one(ref) == RasterRef(t, ref, Resolve(t, ref), TRUE)
           others == FirstIn(<<Slot(p, "raster_ref")>> \o refs, one)
<1>1. \A ref, j, must : AllPlain(RasterRef(t, ref, j, must))
  BY PlainLists, PlainIssues DEF RepairCodes, RasterRef
<1>2. AllPlain(input) /\ AllPlain(others)
  BY <1>1, PlainLists DEF FirstIn
<1>3. AllPlain(RasterRefs(p, t))
  <2> DEFINE found == <<input, others>>
  <2>1. \A k \in DOMAIN found : AllPlain(found[k])
    <3> HIDE DEF input, others
    <3> QED BY <1>2
  <2>2. RasterRefs(p, t) = FirstOf(found)
    BY DEF RasterRefs
  <2> HIDE DEF found
  <2> QED BY <2>1, <2>2, PlainLists DEF FirstOf, FirstIn
<1>4. IsList(refs)
  <2>1. IsList(<<>>)
    BY ListShort
  <2> QED BY <2>1 DEF ListValues, Slot
<1>5. IsList(layers)
  <2>1. Len(refs) \in Nat /\ DOMAIN refs = 1..Len(refs)
    BY <1>4, ListPlaces
  <2> HIDE DEF refs
  <2> QED BY <2>1, ListOf
<1>6. AllPlain(RastersCombined(layers))
  <2> HIDE DEF layers
  <2>1. AllPlain(MultiRasterAlignment(layers)) /\ AllPlain(NodataWarnings(layers))
    BY <1>5, AlignmentPlain
  <2>2. AllPlain(MultiRasterAlignment(layers) \o NodataWarnings(layers))
    BY <2>1, PlainPieces
  <2> QED BY <2>1, <2>2 DEF RastersCombined, Combined
<1>7. \A l : AllPlain(NodataWarnings(<<l>>))
  <2>1. \A l : IsList(<<l>>)
    BY ListShort
  <2> QED BY <2>1, AlignmentPlain
<1>8. \A l : AllPlain(ResamplingAdvice(p, l))
  BY PlainLists, PlainIssues DEF RepairCodes, ResamplingAdvice
<1> DEFINE rest == CASE p.action = "raster_calculator" /\ Len(refs) >= 2 -> RastersCombined(layers)
                     [] p.action \in {"zonal_statistics", "raster_sampling"} ->
                          NodataWarnings(<<t.layers[LayerOf(p, "raster_ref", t)]>>)
                     [] p.action = "reproject_raster" -> ResamplingAdvice(p, t.layers[i])
                     [] OTHER -> <<>>
<1>9. AllPlain(rest)
  <2> HIDE DEF layers
  <2> QED BY <1>6, <1>7, <1>8, PlainLists
<1>10. RasterInputs(p, t, i) = OrIssues(RasterRefs(p, t), rest)
  BY DEF RasterInputs
<1> HIDE DEF rest
<1> QED BY <1>3, <1>9, <1>10, PlainPieces

\* A repair reprojects a layer into one that is written to no file.
LEMMA ReprojectionRepairs ==
  ASSUME NEW p, NEW F, MayWrite(p, F),
         NEW i, NEW crs, NEW name, NEW code, code \notin {"unknown_field", "unknown_layer"}, NEW x,
         NEW patch, DOMAIN patch \cap KeptSlots = {}
  PROVE  /\ Fits(<<Confirmable(AskUser(code, x), <<Reproject(i, crs, name)>>, patch)>>, p, F)
         /\ Fits(<<Confirmable(Warning(code, x), <<Reproject(i, crs, name)>>, patch)>>, p, F)
<1>1. Quiet(Reproject(i, crs, name))
  BY DEF Quiet, Reproject, Plan, Slot
<1> DEFINE run == <<Reproject(i, crs, name)>>
           a == Confirmable(AskUser(code, x), run, patch)
           b == Confirmable(Warning(code, x), run, patch)
<1>2. QuietSteps(run)
  <2> HIDE DEF Reproject
  <2> QED BY <1>1, ListShort DEF QuietSteps
<1> HIDE DEF run
<1>3. /\ a.missing = <<>> /\ a.stage = "preflight" /\ a.code = code /\ a.steps = run /\ a.patch = patch
      /\ b.missing = <<>> /\ b.stage = "preflight" /\ b.code = code /\ b.steps = run /\ b.patch = patch
  BY DEF Confirmable, AskUser, Warning, Issue
<1> HIDE DEF a, b
<1>4. Repairs(a, p, F) /\ Repairs(b, p, F)
  BY <1>2, <1>3 DEF Repairs
<1>5. Fits(<<a>>, p, F) /\ Fits(<<b>>, p, F)
  BY <1>4, ListShort DEF Fits
<1> QED BY <1>5 DEF a, b, run

LEMMA OverwriteFits ==
  ASSUME NEW p, NEW F
  PROVE  Fits(OutputOverwrite(p, F), p, F)
<1> DEFINE a == Confirmable(Warning("output_exists", OutputPath(p)), <<>>, [overwrite |-> <<"yes">>])
<1>1. /\ a.missing = <<>> /\ a.stage = "preflight" /\ a.code = "output_exists" /\ a.steps = <<>>
      /\ a.patch = [overwrite |-> <<"yes">>]
  BY DEF Confirmable, Warning, Issue
<1>2. OutputOverwrite(p, F) = <<>> \/ OutputOverwrite(p, F) = <<a>>
  BY DEF OutputOverwrite, One
<1> HIDE DEF a
<1>3. Repairs(a, p, F)
  BY <1>1, ListShort DEF Repairs, QuietSteps
<1>4. Fits(<<a>>, p, F) /\ Fits(<<>>, p, F)
  BY <1>3, ListShort DEF Fits
<1> QED BY <1>2, <1>4

LEMMA BufferFits ==
  ASSUME NEW p, NEW t, NEW i, NEW F, MayWrite(p, F)
  PROVE  Fits(BufferCrs(p, t, i), p, F)
<1>1. \A name : DOMAIN [input_ref |-> name, target_crs |-> <<>>] \cap KeptSlots = {}
  BY DEF KeptSlots
<1>2. \A crs, name, x : Fits(<<Confirmable(AskUser("distance_requires_projected_crs", x), <<Reproject(i, crs, name)>>,
                                           [input_ref |-> name, target_crs |-> <<>>])>>, p, F)
  BY <1>1, ReprojectionRepairs
<1>3. \A x : /\ Fits(<<UnknownCrs(x)>>, p, F)
            /\ Fits(<<UnknownLayer(x)>>, p, F) /\ Fits(<<>>, p, F)
  BY PlainLists, PlainIssues DEF RepairCodes
<1> QED BY <1>2, <1>3 DEF BufferCrs

LEMMA OverlayFits ==
  ASSUME NEW p, NEW t, NEW F, MayWrite(p, F), NEW inSlot, NEW overSlot, overSlot \notin KeptSlots
  PROVE  Fits(OverlayPair(p, t, inSlot, overSlot), p, F)
<1>1. \A name : DOMAIN [s \in {overSlot} |-> name] \cap KeptSlots = {}
  OBVIOUS
<1>2. \A o, crs, name, x : Fits(<<Confirmable(Warning("overlay_crs_mismatch", x), <<Reproject(o, crs, name)>>,
                                              [s \in {overSlot} |-> name])>>, p, F)
  BY <1>1, ReprojectionRepairs
<1>3. \A x : /\ Fits(<<UnknownCrs(x)>>, p, F)
            /\ Fits(<<UnknownLayer(x)>>, p, F) /\ Fits(<<>>, p, F)
  BY PlainLists, PlainIssues DEF RepairCodes
<1>4. \A i, o : Fits(AlignedPair(p, t, i, o, overSlot), p, F)
  BY <1>2, <1>3 DEF AlignedPair, One
<1> QED BY <1>3, <1>4 DEF OverlayPair

LEMMA ActionFits ==
  ASSUME NEW p, NEW t, NEW i, NEW F, MayWrite(p, F), ListValues(p.input)
  PROVE  Fits(ActionRules(p, t, i), p, F)
<1>1. \A list : Objects(list) => Fits(list, p, F)
  BY PlainLists
<1> DEFINE over == OverlaySlot(p.action)
           pair == OrIssues(OverlayPair(p, t, PairInput(p.action), over), PairRules(p, t, i, LayerOf(p, over, t)))
<1>2. Fits(pair, p, F)
  <2>1. over \notin KeptSlots
    BY DEF OverlaySlot, KeptSlots
  <2>2. Fits(OverlayPair(p, t, PairInput(p.action), over), p, F)
    <3> HIDE DEF over
    <3> QED BY <2>1, OverlayFits
  <2>3. \A o : Objects(PredicateGeometry(p, t, i, o))
    BY OneObjects DEF RepairCodes, PredicateGeometry
  <2>4. \A o : Objects(JoinIssues(p, t, i, o))
    BY <2>3, FieldsObject, OneObjects, OrObjects DEF JoinIssues
  <2>5. \A o : Objects(PairRules(p, t, i, o))
    BY <2>3, <2>4, OneObjects DEF PairRules
  <2> QED BY <2>2, <2>5, <1>1 DEF OrIssues
<1>3. Fits(BufferCrs(p, t, i), p, F)
  BY BufferFits
<1>4. \A fields : Objects(FieldsExist(p, t, i, fields))
  BY FieldsObject, OneObjects DEF FieldsExist
<1>5. Objects(SummarizeExists(p, t))
  BY OneObjects DEF SummarizeExists
<1>6. Objects(CsvCoordinates(p, t, i))
  BY FieldsObject, OneObjects DEF RepairCodes, CsvCoordinates
<1>7. Fits(RasterInputs(p, t, i), p, F)
  BY RastersPlain, PlainLists
<1>8. Fits(<<>>, p, F)
  BY PlainLists
<1> HIDE DEF pair
<1> QED BY <1>1, <1>2, <1>3, <1>4, <1>5, <1>6, <1>7, <1>8 DEF ActionRules, pair

\* Whatever the rules find can be stopped on and, if it has a repair, confirmed.
LEMMA ValidateFits ==
  ASSUME NEW p, NEW t, NEW F, ListValues(p.input)
  PROVE  Fits(Validate(p, t, F), p, F)
<1> DEFINE rules == ActionRules(p, t, LayerOf(p, "input_ref", t))
           first == OrIssues(LayerKindRequirements(p, t), GeometryRequirements(p, t))
<1>1. \A list : Objects(list) => Fits(list, p, F)
  BY PlainLists
<1>2. Fits(SemanticIssues(p), p, F) /\ Fits(first, p, F) /\ Fits(FieldRequirements(p, t), p, F)
  BY <1>1, SemanticObjects, KindsObject, GeometriesObject, FieldsObject, OrObjects
<1>3. Fits(OutputOverwrite(p, F), p, F)
  BY OverwriteFits
<1>4. OutputOverwrite(p, F) = <<>> => Fits(rules, p, F)
  <2>1. OutputOverwrite(p, F) = <<>> => MayWrite(p, F)
    BY DEF OutputOverwrite, One, MayWrite
  <2> QED BY <2>1, ActionFits
<1> HIDE DEF rules, first
<1> QED BY <1>2, <1>3, <1>4 DEF Validate, PreflightIssues, OrIssues, rules, first

LEMMA HardFits ==
  ASSUME NEW p, NEW t, NEW F, ListValues(p.input)
  PROVE  /\ Fits(HardIssues(p, t, F), p, F)
         /\ HardIssues(p, t, F) = <<>> => MayWrite(p, F)
<1>1. Fits(Validate(p, t, F), p, F)
  BY ValidateFits
<1> DEFINE list == Validate(p, t, F)
<1>2. IsList(list)
  BY <1>1 DEF Fits
<1>3. HardIssues(p, t, F) = Blocking(list)
  BY DEF HardIssues
<1>4. HardIssues(p, t, F) = <<>> => MayWrite(p, F)
  BY <1>2, SilenceAllows
<1> HIDE DEF list
<1>5. IsList(Blocking(list)) /\ \A k \in DOMAIN Blocking(list) : \E j \in DOMAIN list : Blocking(list)[k] = list[j]
  BY <1>2, BlockingFound
<1>6. Fits(Blocking(list), p, F)
  BY <1>1, <1>5 DEF Fits, list
<1> QED BY <1>3, <1>4, <1>6

-----------------------------------------------------------------------------
(* What tools write                                                        *)

\* A result that tells the path it wrote, if any.
Writes(res, F, path) == res.path = path /\ res.files = IF path = <<>> THEN F ELSE F \cup {path}

LEMMA ResultWrites ==
  ASSUME NEW t, NEW F, NEW l, NEW path, NEW ok, NEW out
  PROVE  /\ Writes(Failed(t, F), F, <<>>) /\ ~Failed(t, F).ok
         /\ Writes(Registered(t, F, l, path), F, path)
         /\ Writes(Result(ok, t, F, out, <<>>), F, <<>>)
BY DEF Writes, Failed, Registered, Result

\* An export writes the path it completes, an algorithm the one it was given.
ToolPath(p, path) ==
  \/ path = <<>>
  \/ p.action # "export_result" /\ path = WrittenPath(p)
  \/ p.action = "export_result" /\ \E kind : path = ExportPath(Slot(p, "output_path"), kind)

LEMMA ExecuteWrites ==
  ASSUME NEW p, NEW t, NEW F, NEW ins
  PROVE  \E path : ToolPath(p, path) /\ Writes(Execute(p, t, F, ins), F, path)
<1> DEFINE Tells(res) == \E path : ToolPath(p, path) /\ Writes(res, F, path)
<1>1. Tells(Failed(t, F)) /\ \A l : Tells(Registered(t, F, l, <<>>))
  BY ResultWrites DEF ToolPath
<1>2. \A ok, tt, out : Tells(Result(ok, tt, F, out, <<>>))
  BY ResultWrites DEF ToolPath
<1>3. p.action # "export_result" => \A l : Tells(Registered(t, F, l, WrittenPath(p)))
  BY ResultWrites DEF ToolPath
<1>4. p.action = "export_result" => \A l, kind : Tells(Registered(t, F, l, ExportPath(Slot(p, "output_path"), kind)))
  BY ResultWrites DEF ToolPath
<1> HIDE DEF Tells
<1>5. Tells(LoadLayer(p, t, F)) /\ \A i : Tells(Summarize(t, F, i))
  BY <1>1, <1>2 DEF LoadLayer, Summarize
<1>6. p.action = "export_result" => \A i : Tells(Export(p, t, F, i))
  BY <1>1, <1>4 DEF Export
<1>7. Tells(BatchReproject(p, t, F, ins))
  BY <1>1, <1>2 DEF BatchReproject
<1>8. p.action # "export_result" => \A i : Tells(CsvToPoints(p, t, F, i))
  BY <1>1, <1>3 DEF CsvToPoints
<1>9. p.action # "export_result" => Tells(RunAlgorithm(p, t, F, ins))
  BY <1>1, <1>3 DEF RunAlgorithm
<1>10. Tells(Execute(p, t, F, ins))
  BY <1>1, <1>5, <1>6, <1>7, <1>8, <1>9 DEF Execute
<1> QED BY <1>10 DEF Tells

LEMMA OutcomeWrites ==
  ASSUME NEW p, NEW t, NEW F, NEW res \in Outcomes(p, t, F)
  PROVE  \E path : ToolPath(p, path) /\ Writes(res, F, path)
<1>1. \A tt : Writes(Failed(tt, F), F, <<>>)
  BY ResultWrites
<1>2. ToolPath(p, <<>>)
  BY DEF ToolPath
<1>3. \A ins, r : r \in Interrupted(p, t, F, ins) => \E tt : r = Failed(tt, F)
  BY DEF Interrupted
<1> QED BY <1>1, <1>2, <1>3, ExecuteWrites DEF Outcomes, OutcomesOn

\* What was let pass writes over nothing but with the user's word, unless the path
\* of an export is completed.
Confirmed(p) ==
  \/ Slot(p, "overwrite") # <<>>
  \/ p.action = "export_result" /\ ToSet(Slot(p, "output_path")) \cap PathSuffixes = {}

LEMMA AllowedWrites ==
  ASSUME NEW p, NEW t, NEW F, <<>> \notin F, NEW res \in Outcomes(p, t, F)
  PROVE  /\ <<>> \notin res.files
         /\ MayWrite(p, F) /\ res.path \in F => Confirmed(p)
         /\ Quiet(p) => res.path \notin F /\ res.files = F
<1>1. PICK path : ToolPath(p, path) /\ Writes(res, F, path)
  BY OutcomeWrites
<1>2. res.path = path /\ <<>> \notin res.files
  BY <1>1 DEF Writes
<1>3. CASE path = <<>>
  BY <1>1, <1>2, <1>3 DEF Writes
<1>4. CASE p.action # "export_result" /\ path = WrittenPath(p)
  <2>1. Quiet(p) => path = <<>>
    BY <1>4 DEF Quiet, WrittenPath, OutputPath, NeedsDiskOutput
  <2>2. MayWrite(p, F) /\ path \in F => Slot(p, "overwrite") # <<>>
    BY <1>4 DEF MayWrite, WrittenPath
  <2> QED BY <1>2, <1>3, <2>1, <2>2 DEF Confirmed
<1>5. CASE p.action = "export_result" /\ \E kind : path = ExportPath(Slot(p, "output_path"), kind)
  <2>1. ~Quiet(p)
    BY <1>5 DEF Quiet
  <2>2. CASE ToSet(Slot(p, "output_path")) \cap PathSuffixes = {}
    BY <2>1, <2>2, <1>2, <1>5 DEF Confirmed
  <2>3. CASE ToSet(Slot(p, "output_path")) \cap PathSuffixes # {}
    <3>1. path = Slot(p, "output_path")
      BY <1>5, <2>3 DEF ExportPath
    <3>2. ToSet(<<>>) = {} /\ ToSet(<<"TEMPORARY_OUTPUT">>) = {"TEMPORARY_OUTPUT"}
      BY DEF ToSet
    <3>3. ~NeedsDiskOutput(path)
      BY <2>3, <3>1, <3>2 DEF NeedsDiskOutput, PathSuffixes
    <3>4. OutputPath(p) = path
      BY <3>1, <3>3 DEF OutputPath, NeedsDiskOutput
    <3> QED BY <1>2, <2>1, <3>3, <3>4 DEF MayWrite, Confirmed
  <2> QED BY <2>2, <2>3
<1> QED BY <1>1, <1>3, <1>4, <1>5 DEF ToolPath

-----------------------------------------------------------------------------
(* Pending tasks                                                           *)

\* What a task says fits: its slots are lists, its repair's steps write no file, and the
\* repaired action may write what the files are now, and has a list where it needs one.
TaskFits(task, F) ==
  /\ ListValues(task.filled) /\ \A c \in task.choices : IsList(c.value)
  /\ QuietSteps(task.repair.steps)
  /\ HasRepair(task) => MayWrite(RepairedPlan(task), F) /\ IsList(Slot(RepairedPlan(task), "input_refs"))

Waits(task) == task.state \in {"awaiting_user", "awaiting_confirmation"}

\* An id is a list that ends like no name does, and no other id is it.
LEMMA Ids ==
  ASSUME NEW i \in Nat
  PROVE  /\ IsList(LayerId(i)) /\ Len(LayerId(i)) = i + 2 /\ LayerId(i) # <<>>
         /\ LayerId(i)[1] = "#" /\ LayerId(i)[i + 2] = "#"
         /\ LayerId(i) \notin LatestRefs \cup FinalRefs
         /\ \A j \in Nat : LayerId(i) = LayerId(j) => i = j
         /\ \A name : IsName(name) => name # LayerId(i)
         /\ \A ref, n : IsDrawn(ref, n) /\ ref = LayerId(i) /\ i # 0 => i <= n
<1>1. \A k \in Nat : IsList(LayerId(k)) /\ Len(LayerId(k)) = k + 2
  <2> SUFFICES ASSUME NEW k \in Nat PROVE IsList(LayerId(k)) /\ Len(LayerId(k)) = k + 2
    OBVIOUS
  <2>1. PICK n \in Nat : n = k + 2
    OBVIOUS
  <2>2. PICK s : s = LayerId(k)
    OBVIOUS
  <2>3. s = [m \in 1..n |-> IF m \in {1, n} THEN "#" ELSE "+"]
    BY <2>1, <2>2 DEF LayerId
  <2>4. s = [m \in 1..n |-> s[m]]
    BY <2>3
  <2> QED BY <2>1, <2>2, <2>4, ListOf
<1>2. LayerId(i)[1] = "#" /\ LayerId(i)[i + 2] = "#"
  BY DEF LayerId
<1>3. LayerId(i) # <<>> /\ LayerId(i) \notin LatestRefs \cup FinalRefs
  <2>1. \A ref \in LatestRefs \cup FinalRefs : ref[1] \in {"latest", "final"}
    BY DEF LatestRefs, FinalRefs
  <2>2. PICK s : s = LayerId(i)
    OBVIOUS
  <2>3. Len(s) = i + 2 /\ s[1] = "#"
    BY <1>1, <1>2, <2>2
  <2>4. s # <<>>
    BY <2>3
  <2>5. s \notin LatestRefs \cup FinalRefs
    BY <2>1, <2>3
  <2> QED BY <2>2, <2>4, <2>5
<1>4. \A j \in Nat : LayerId(i) = LayerId(j) => i = j
  BY <1>1
<1>5. \A name : IsName(name) => name # LayerId(i)
  BY <1>1, <1>2, <1>3 DEF IsName
<1>6. ASSUME NEW ref, NEW n, IsDrawn(ref, n), ref = LayerId(i), i # 0 PROVE i <= n
  <2>1. i \in 1..Len(ref)
    BY <1>1, <1>6
  <2> QED BY <1>6, <2>1 DEF IsDrawn
<1> QED BY <1>1, <1>2, <1>3, <1>4, <1>5, <1>6

LEMMA ChoicesList ==
  ASSUME NEW p, NEW issue, NEW missing, NEW risk, NEW t, IsList(t.layers),
         NEW c \in PendingChoices(p, issue, missing, risk, t)
  PROVE  IsList(c.value)
<1>1. ASSUME NEW i \in DOMAIN t.layers PROVE IsList(LayerId(i))
  <2>1. i \in Nat
    BY ListPlaces
  <2> QED BY <2>1, Ids
<1>2. \A slot, v : Choice(slot, v).value = v
  BY DEF Choice
<1>3. \A l \in SuggestedLayers(risk, t) : IsList(l)
  BY <1>1 DEF SuggestedLayers, LayerChoices
<1>4. \A slot : \A l \in LayerSlotChoices(slot, p, t) : IsList(l)
  BY <1>1 DEF LayerSlotChoices
<1>5. \A l \in FieldSlotChoices(p, issue, t) \cup TargetCrsChoices(p, t) : IsList(l)
  <2>1. \A f : IsList(<<f>>)
    BY ListShort
  <2> QED BY <2>1 DEF FieldSlotChoices, TargetCrsChoices
<1> DEFINE slot == Head(missing)
           values == CASE slot = "distance"   -> {<<"100">>, <<"500">>}
                       [] slot = "target_crs" -> TargetCrsChoices(p, t)
                       [] slot = "predicate"  -> {<<x>> : x \in PredicateChoices(p)}
                       [] slot = "operator"   -> {<<x>> : x \in Comparisons}
                       [] slot \in {"field", "x_field", "y_field"} -> FieldSlotChoices(p, issue, t)
                       [] slot \in ListSlots  -> {<<>> : l \in LayerSlotChoices(slot, p, t)}
                       [] slot \in LayerSlots -> LayerSlotChoices(slot, p, t)
                       [] OTHER               -> {}
<1>6. \A v \in values : IsList(v)
  <2>1. \A x : IsList(<<x>>) /\ IsList(<<>>)
    BY ListShort
  <2>2. \A v \in {<<"100">>, <<"500">>} : IsList(v)
    BY <2>1
  <2>3. \A v \in {<<x>> : x \in PredicateChoices(p)} \cup {<<x>> : x \in Comparisons} : IsList(v)
    BY <2>1
  <2>4. \A v \in {<<>> : l \in LayerSlotChoices(slot, p, t)} : IsList(v)
    BY <2>1
  <2> HIDE DEF slot
  <2> QED BY <1>4, <1>5, <2>2, <2>3, <2>4
<1>7. GeneratedChoices(p, issue, missing, t) = IF missing = <<>> THEN {} ELSE {Choice(slot, v) : v \in values}
  BY DEF GeneratedChoices
<1> HIDE DEF values
<1>8. c \in GeneratedChoices(p, issue, missing, t) => IsList(c.value)
  BY <1>2, <1>6, <1>7
<1>9. \A f : IsList(<<f>>)
  BY ListShort
<1>10. CASE HasChoices(risk, t)
  <2>1. c \in {Choice(s, <<f>>) : s \in ChoiceSlots(missing, FieldSlots), f \in SuggestedFields(risk, t)}
                \cup {Choice(s, l) : s \in ChoiceSlots(missing, LayerSlots), l \in SuggestedLayers(risk, t)}
    BY <1>10 DEF PendingChoices
  <2>2. CASE c \in {Choice(s, <<f>>) : s \in ChoiceSlots(missing, FieldSlots), f \in SuggestedFields(risk, t)}
    <3>1. PICK s \in ChoiceSlots(missing, FieldSlots), f \in SuggestedFields(risk, t) : c = Choice(s, <<f>>)
      BY <2>2
    <3> QED BY <3>1, <1>2, <1>9
  <2>3. CASE c \in {Choice(s, l) : s \in ChoiceSlots(missing, LayerSlots), l \in SuggestedLayers(risk, t)}
    <3>1. PICK s \in ChoiceSlots(missing, LayerSlots), l \in SuggestedLayers(risk, t) : c = Choice(s, l)
      BY <2>3
    <3> QED BY <3>1, <1>2, <1>3
  <2> QED BY <2>1, <2>2, <2>3
<1>11. CASE ~HasChoices(risk, t)
  BY <1>8, <1>11 DEF PendingChoices
<1> QED BY <1>10, <1>11

\* A slot the patch leaves alone is what it was.
LEMMA SlotMerged ==
  ASSUME NEW action, NEW slots, NEW patch, NEW s
  PROVE  Slot(Plan(action, Merged(slots, patch)), s) =
           IF s \in DOMAIN patch THEN patch[s] ELSE IF s \in DOMAIN slots THEN slots[s] ELSE <<>>
BY DEF Slot, Plan, Merged

LEMMA PendingFits ==
  ASSUME NEW p, ListValues(p.input), NEW F, NEW issue, NEW missing,
         Plain(issue) \/ (Repairs(issue, p, F) /\ missing = <<>>),
         NEW how \in {"awaiting_user", "awaiting_confirmation"}, NEW source, NEW risk, NEW t, IsList(t.layers)
  PROVE  /\ TaskFits(PendingTask(p, issue, missing, how, source, risk, t), F)
         /\ Waits(PendingTask(p, issue, missing, how, source, risk, t))
<1>1. PICK task : task = PendingTask(p, issue, missing, how, source, risk, t)
  OBVIOUS
<1> SUFFICES TaskFits(task, F) /\ Waits(task)
  BY <1>1
<1>2. PICK filled : filled = FilledSlots(p, missing)
  OBVIOUS
<1>3. /\ task.intent = p.action /\ task.filled = filled /\ task.state = how
      /\ task.choices = PendingChoices(p, issue, missing, risk, t)
      /\ task.repair = [steps |-> issue.steps, patch |-> issue.patch]
  BY <1>1, <1>2 DEF PendingTask, RepairOf
<1>4. ListValues(filled)
  BY <1>2 DEF FilledSlots, ListValues
<1>5. \A s : Slot(p, s) # <<>> => s \in DOMAIN p.input /\ p.input[s] = Slot(p, s)
  BY DEF Slot
<1>6. /\ \A c \in task.choices : IsList(c.value)
      /\ ListValues(task.filled) /\ Waits(task)
  BY <1>3, <1>4, ChoicesList DEF Waits
<1>7. CASE Plain(issue)
  <2>1. task.repair.steps = <<>> /\ ~HasRepair(task)
    BY <1>3, <1>7 DEF Plain, HasRepair, NoRepair
  <2>2. QuietSteps(task.repair.steps)
    BY <2>1, ListShort DEF QuietSteps
  <2> QED BY <1>6, <2>1, <2>2 DEF TaskFits
<1>8. CASE Repairs(issue, p, F) /\ missing = <<>>
  <2>1. QuietSteps(task.repair.steps) /\ task.repair.patch = issue.patch
    BY <1>3, <1>8 DEF Repairs
  <2>2. PICK patch : patch = RepairPatch(task)
    OBVIOUS
  <2>3. PICK plan : plan = RepairedPlan(task)
    OBVIOUS
  <2>4. /\ DOMAIN patch \subseteq DOMAIN issue.patch
        /\ \A s \in DOMAIN issue.patch : issue.patch[s] # <<>> => s \in DOMAIN patch /\ patch[s] = issue.patch[s]
    BY <2>1, <2>2 DEF RepairPatch
  <2>5. \A s : Slot(plan, s) = IF s \in DOMAIN patch THEN patch[s] ELSE IF s \in DOMAIN filled THEN filled[s] ELSE <<>>
    BY <1>3, <2>2, <2>3, SlotMerged DEF RepairedPlan
  <2>6. CASE issue.patch = [overwrite |-> <<"yes">>]
    <3>1. "overwrite" \in DOMAIN patch /\ patch["overwrite"] = <<"yes">>
      BY <2>4, <2>6
    <3>2. Slot(plan, "overwrite") = <<"yes">>
      BY <2>5, <3>1
    <3>3. MayWrite(plan, F)
      BY <3>2 DEF MayWrite
    <3>4. "input_refs" \notin DOMAIN patch
      BY <2>4, <2>6
    <3>5. IsList(Slot(plan, "input_refs"))
      BY <1>4, <2>5, <3>4, ListShort DEF ListValues
    <3> QED BY <1>6, <2>1, <2>3, <3>3, <3>5 DEF TaskFits
  <2>7. CASE MayWrite(p, F) /\ DOMAIN issue.patch \cap KeptSlots = {}
    <3>1. \A s \in KeptSlots : s \notin DOMAIN patch
      BY <2>4, <2>7
    <3>2. ToSet(missing) = {}
      BY <1>8 DEF ToSet
    <3>3. \A s : IF s \in DOMAIN filled THEN filled[s] = Slot(p, s) ELSE Slot(p, s) = <<>>
      BY <1>2, <3>2 DEF FilledSlots, Slot
    <3>4. \A s \in KeptSlots : Slot(plan, s) = Slot(p, s)
      BY <2>5, <3>1, <3>3
    <3>5. /\ Slot(plan, "output_path") = Slot(p, "output_path") /\ Slot(plan, "output") = Slot(p, "output")
          /\ Slot(plan, "overwrite") = Slot(p, "overwrite")
      BY <3>4 DEF KeptSlots
    <3>6. MayWrite(plan, F)
      BY <2>7, <3>5 DEF MayWrite, OutputPath
    <3>7. "input_refs" \notin DOMAIN patch
      BY <3>1 DEF KeptSlots
    <3>8. IsList(Slot(plan, "input_refs"))
      BY <1>4, <2>5, <3>7, ListShort DEF ListValues
    <3> QED BY <1>6, <2>1, <2>3, <3>6, <3>8 DEF TaskFits
  <2> QED BY <1>8, <2>6, <2>7 DEF Repairs
<1> QED BY <1>6, <1>7, <1>8

\* The risk a decision rests on is one of the issues.
LEMMA PrimaryIssue ==
  ASSUME NEW issues, IsList(issues), issues # <<>>, NEW t
  PROVE  1 \in DOMAIN issues /\ Evaluate(issues, t).primary \in DOMAIN issues
<1>1. 1 \in DOMAIN issues /\ DOMAIN issues \in SUBSET Nat
  <2>1. Len(issues) \in Nat /\ DOMAIN issues = 1..Len(issues)
    BY ListPlaces
  <2>2. Len(issues) >= 1
    BY ListTail
  <2> QED BY <2>1, <2>2
<1>2. \A S \in SUBSET DOMAIN issues : S # {} => Min(S) \in DOMAIN issues
  <2> SUFFICES ASSUME NEW S \in SUBSET DOMAIN issues, S # {} PROVE Min(S) \in DOMAIN issues
    OBVIOUS
  <2>1. S \in SUBSET Nat
    BY <1>1
  <2>2. \E x \in S : \A y \in S : x <= y
    BY <2>1, LeastOf
  <2> QED BY <2>2 DEF Min
<1> DEFINE ask == {i \in DOMAIN issues : HasChoices(issues[i], t)}
           confirm == {i \in DOMAIN issues : issues[i].confirm}
           errors == {i \in DOMAIN issues : issues[i].severity = "error"}
<1>3. /\ ask # {} => Min(ask) \in DOMAIN issues
      /\ confirm # {} => Min(confirm) \in DOMAIN issues
      /\ errors # {} => Min(errors) \in DOMAIN issues
  BY <1>2
<1>4. Evaluate(issues, t) = CASE ask # {}     -> Decision("ask_disambiguation", Min(ask))
                              [] confirm # {} -> Decision("ask_confirmation", Min(confirm))
                              [] errors # {}  -> Decision("ask_user", Min(errors))
                              [] OTHER        -> Decision("warn", 1)
  BY DEF Evaluate
<1>5. \A kind, n : Decision(kind, n).primary = n
  BY DEF Decision
<1> HIDE DEF ask, confirm, errors
<1> QED BY <1>1, <1>3, <1>4, <1>5

\* Missing slots are asked for by issues that have no repair.
LEMMA PauseFits ==
  ASSUME NEW p, ListValues(p.input), NEW F, NEW issues, Fits(issues, p, F), issues # <<>>, NEW t, IsList(t.layers)
  PROVE  /\ TaskFits(PauseForIssues(p, issues, t), F) /\ Waits(PauseForIssues(p, issues, t))
         /\ TaskFits(PauseResumedPlan(p, issues, t), F) /\ Waits(PauseResumedPlan(p, issues, t))
<1> DEFINE risk == issues[Evaluate(issues, t).primary]
<1>1. /\ Plain(risk) \/ Repairs(risk, p, F)
      /\ Plain(issues[1]) \/ Repairs(issues[1], p, F)
  BY PrimaryIssue DEF Fits
<1>2. \A decision : PauseStatus(decision) \in {"awaiting_user", "awaiting_confirmation"}
  BY DEF PauseStatus
<1>3. \A issue : Repairs(issue, p, F) => /\ issue.stage # "semantic"
                                          /\ PreflightMissingSlots(p, issue) = <<>>
                                          /\ PendingMissingSlots(p.action, <<>>) = <<>>
  BY DEF Repairs, PreflightMissingSlots, PendingMissingSlots, ToSet
<1>4. ASSUME NEW issue, Plain(issue) \/ Repairs(issue, p, F), NEW other, NEW missing, NEW source,
             NEW how \in {"awaiting_user", "awaiting_confirmation"},
             Repairs(issue, p, F) => missing = <<>>
      PROVE  /\ TaskFits(PendingTask(p, issue, missing, how, source, other, t), F)
             /\ Waits(PendingTask(p, issue, missing, how, source, other, t))
  <2>1. Plain(issue) \/ (Repairs(issue, p, F) /\ missing = <<>>)
    BY <1>4
  <2> QED BY <2>1, PendingFits
<1>5. ASSUME NEW issue, Plain(issue) \/ Repairs(issue, p, F), NEW other, issue.stage = "semantic"
      PROVE  TaskFits(SemanticPending(p, issue, other, t), F) /\ Waits(SemanticPending(p, issue, other, t))
  BY <1>3, <1>4, <1>5 DEF SemanticPending
<1>6. ASSUME NEW issue, Plain(issue) \/ Repairs(issue, p, F), NEW how \in {"awaiting_user", "awaiting_confirmation"}
      PROVE  TaskFits(PauseOnIssue(p, issue, how, t), F) /\ Waits(PauseOnIssue(p, issue, how, t))
  BY <1>3, <1>4, <1>5, <1>6 DEF PauseOnIssue, PreflightPending
<1>7. TaskFits(PauseForIssues(p, issues, t), F) /\ Waits(PauseForIssues(p, issues, t))
  BY <1>1, <1>2, <1>6 DEF PauseForIssues, PauseOnDecision
<1>8. ASSUME NEW task, TaskFits(task, F), Waits(task), NEW schema
      PROVE  TaskFits([task EXCEPT !.schema = schema], F) /\ Waits([task EXCEPT !.schema = schema])
  BY <1>8 DEF TaskFits, Waits, HasRepair, RepairedPlan, RepairPatch
<1>9. ASSUME NEW issue, Plain(issue) \/ Repairs(issue, p, F), NEW how \in {"awaiting_user", "awaiting_confirmation"}
      PROVE  /\ TaskFits(ResumedPending(p, issue, PreflightMissingSlots(p, issue), how, risk, t), F)
             /\ Waits(ResumedPending(p, issue, PreflightMissingSlots(p, issue), how, risk, t))
  <2>1. PICK missing : missing = PreflightMissingSlots(p, issue)
    OBVIOUS
  <2>2. PICK source : source = IF how = "awaiting_user" /\ missing # <<>> THEN "missing_slot_validation" ELSE ""
    OBVIOUS
  <2>3. PICK task : task = PendingTask(p, issue, missing, how, source, risk, t)
    OBVIOUS
  <2>4. TaskFits(task, F) /\ Waits(task)
    BY <1>3, <1>4, <1>9, <2>1, <2>3
  <2>5. ResumedPending(p, issue, missing, how, risk, t) = [task EXCEPT !.schema = MissingSlotSchema(missing)]
    BY <2>2, <2>3 DEF ResumedPending
  <2>6. PICK other : other = [task EXCEPT !.schema = MissingSlotSchema(missing)]
    OBVIOUS
  <2>7. TaskFits(other, F) /\ Waits(other)
    BY <1>8, <2>4, <2>6
  <2>8. ResumedPending(p, issue, PreflightMissingSlots(p, issue), how, risk, t) = other
    BY <2>1, <2>5, <2>6
  <2> QED BY <2>7, <2>8
<1>10. TaskFits(PauseResumedPlan(p, issues, t), F) /\ Waits(PauseResumedPlan(p, issues, t))
  BY <1>1, <1>2, <1>5, <1>9 DEF PauseResumedPlan, PauseResumedOnDecision
<1> QED BY <1>7, <1>10

\* Tasks without a repair.
LEMMA OtherTasks ==
  ASSUME NEW F, NEW task, TaskFits(task, F)
  PROVE  /\ TaskFits(ClarifiedAgain(task), F) /\ Waits(ClarifiedAgain(task))
         /\ \A question, allowed :
              TaskFits(AskedAgain(task, question, allowed), F) /\ Waits(AskedAgain(task, question, allowed))
         /\ \A q : ListValues(q.filled) /\ (\A c \in q.choices : IsList(c.value)) =>
              TaskFits(ClarificationTask(q), F) /\ Waits(ClarificationTask(q))
<1>1. QuietSteps(<<>>) /\ ListValues(<<>>)
  BY ListShort DEF QuietSteps, ListValues
<1>2. TaskFits(ClarifiedAgain(task), F) /\ Waits(ClarifiedAgain(task))
  BY <1>1 DEF TaskFits, Waits, NoRepair, HasRepair, ClarifiedAgain
<1>3. ASSUME NEW question, NEW allowed
      PROVE  TaskFits(AskedAgain(task, question, allowed), F) /\ Waits(AskedAgain(task, question, allowed))
  BY <1>1 DEF TaskFits, Waits, NoPending, NoRepair, HasRepair, AskedAgain
<1>4. ASSUME NEW q, ListValues(q.filled), \A c \in q.choices : IsList(c.value)
      PROVE  TaskFits(ClarificationTask(q), F) /\ Waits(ClarificationTask(q))
  BY <1>1, <1>4 DEF TaskFits, Waits, NoPending, NoRepair, HasRepair, ClarificationTask
<1> QED BY <1>2, <1>3, <1>4

\* A stem is some of the words of its path.
LEMMA StemList ==
  ASSUME NEW path, IsList(path)
  PROVE  IsList(Stem(path)) /\ ToSet(Stem(path)) \subseteq ToSet(path)
<1> DEFINE places == {k \in DOMAIN path : path[k] \notin PathSuffixes \cup Directories}
<1>1. Len(path) \in Nat /\ DOMAIN path = 1..Len(path) /\ places \in SUBSET (1..Len(path))
  BY ListPlaces
<1>2. /\ Cardinality(places) \in Nat
      /\ \A k \in 1..Cardinality(places) : Nth(places, k) \in places
  BY <1>1, NthPlace
<1>3. Stem(path) = [k \in 1..Cardinality(places) |-> path[Nth(places, k)]]
  BY DEF Stem, Those
<1>4. IsList(Stem(path))
  BY <1>2, <1>3, ListOf
<1>5. \A k \in 1..Cardinality(places) : path[Nth(places, k)] \in ToSet(path)
  BY <1>2 DEF ToSet
<1>6. ToSet(Stem(path)) \subseteq ToSet(path)
  <2> HIDE DEF places
  <2> QED BY <1>3, <1>5 DEF ToSet
<1> QED BY <1>4, <1>6

\* Two lists together, of words none of which is "#".
LEMMA CleanConcat ==
  ASSUME NEW a, NEW b, IsList(a), IsList(b)
  PROVE  IsList(a \o b) /\ ("#" \notin ToSet(a) \cup ToSet(b) => "#" \notin ToSet(a \o b))
<1>1. PICK all : all = a \o b
  OBVIOUS
<1>2. IsList(all) /\ \A k \in DOMAIN all : (\E j \in DOMAIN a : all[k] = a[j]) \/ (\E j \in DOMAIN b : all[k] = b[j])
  BY <1>1, ListConcat
<1> QED BY <1>1, <1>2 DEF ToSet

\* The path of an export is made of what its slots say, and of words that are no part
\* of an id.
LEMMA ComposedPath ==
  ASSUME NEW slots, ListValues(slots)
  PROVE  /\ IsList(ComposeExportPath(slots))
         /\ (\A s \in DOMAIN slots \cap PartsOfNames : "#" \notin ToSet(slots[s])) =>
              "#" \notin ToSet(ComposeExportPath(slots))
<1> DEFINE given(s) == IF s \in DOMAIN slots THEN slots[s] ELSE <<>>
           Clean(w) == (\A s \in DOMAIN slots \cap PartsOfNames : "#" \notin ToSet(slots[s])) => "#" \notin ToSet(w)
<1>1. IsList(<<>>) /\ ToSet(<<>>) = {}
  BY ListShort DEF ToSet
<1>2. \A s \in PartsOfNames : IsList(given(s)) /\ Clean(given(s))
  BY <1>1 DEF ListValues
<1>3. {"output_path", "output_dir", "output_format", "file_name"} \subseteq PartsOfNames
  BY DEF PartsOfNames
<1>4. PICK path, dir, format, file : /\ path = given("output_path") /\ dir = given("output_dir")
                                     /\ format = given("output_format") /\ file = given("file_name")
  OBVIOUS
<1>5. /\ IsList(path) /\ Clean(path) /\ IsList(dir) /\ Clean(dir) /\ IsList(file) /\ Clean(file)
  BY <1>2, <1>3, <1>4
<1>6. PICK stem : stem = OrDefaultName(Stem(file))
  OBVIOUS
<1>7. IsList(stem) /\ Clean(stem)
  <2>1. IsList(DefaultExportName) /\ "#" \notin ToSet(DefaultExportName)
    <3>1. PICK name : name = DefaultExportName
      OBVIOUS
    <3>2. IsList(name) /\ DOMAIN name = {1} /\ name[1] = "export_result"
      BY <3>1, ListShort DEF DefaultExportName
    <3> QED BY <3>1, <3>2 DEF ToSet
  <2>2. IsList(Stem(file)) /\ ToSet(Stem(file)) \subseteq ToSet(file)
    BY <1>5, StemList
  <2> QED BY <1>5, <1>6, <2>1, <2>2 DEF OrDefaultName
<1>8. PICK word : word = Format(format[1])
  OBVIOUS
<1>9. PICK dot : dot = <<word>>
  OBVIOUS
<1>10. IsList(dot) /\ (word \in ExportFormats => "#" \notin ToSet(dot))
  <2>1. IsList(dot) /\ DOMAIN dot = {1} /\ dot[1] = word
    BY <1>9, ListShort
  <2> QED BY <2>1 DEF ToSet, ExportFormats
<1>11. PICK named : named = dir \o stem
  OBVIOUS
<1>12. IsList(named) /\ Clean(named)
  BY <1>5, <1>7, <1>11, CleanConcat
<1>13. PICK whole : whole = named \o dot
  OBVIOUS
<1>14. IsList(whole) /\ (word \in ExportFormats => Clean(whole))
  BY <1>10, <1>12, <1>13, CleanConcat
<1> HIDE DEF Clean
<1>15. \/ ComposeExportPath(slots) \in {<<>>, path}
       \/ ComposeExportPath(slots) = whole /\ word \in ExportFormats
  <2>1. whole = given("output_dir") \o OrDefaultName(Stem(given("file_name")))
                \o <<Format(given("output_format")[1])>>
    BY <1>4, <1>6, <1>8, <1>9, <1>11, <1>13, Zenon
  <2>2. word = Format(given("output_format")[1]) /\ path = given("output_path")
    BY <1>4, <1>8, Zenon
  <2> HIDE DEF given
  <2> DEFINE built == given("output_dir") \o OrDefaultName(Stem(given("file_name")))
                      \o <<Format(given("output_format")[1])>>
             taken == Format(given("output_format")[1])
  <2>3. ComposeExportPath(slots) =
          CASE given("output_path") = <<"TEMPORARY_OUTPUT">> -> <<>>
            [] given("output_path") \notin {<<>>, <<"TEMPORARY_OUTPUT">>} -> given("output_path")
            [] given("output_path") = <<>> /\ <<>> \notin {given("output_dir"), given("output_format")}
                 /\ taken \in ExportFormats -> built
            [] OTHER -> <<>>
    BY Zenon DEF ComposeExportPath, given
  <2> HIDE DEF built, taken
  <2>4. \/ ComposeExportPath(slots) \in {<<>>, given("output_path")}
        \/ ComposeExportPath(slots) = built /\ taken \in ExportFormats
    BY <2>3
  <2> QED BY <2>1, <2>2, <2>4, Zenon DEF built, taken
<1>16. Clean(<<>>)
  BY <1>1 DEF Clean
<1>17. IsList(ComposeExportPath(slots)) /\ Clean(ComposeExportPath(slots))
  BY <1>1, <1>5, <1>14, <1>15, <1>16
<1> QED BY <1>17 DEF Clean

\* The plan that an answer makes of a task has lists for slots.
LEMMA PatchedPlan ==
  ASSUME NEW task, NEW patch, ListValues(task.filled), ListValues(patch)
  PROVE  ListValues(PlanFromSlotPatch(task, patch).input)
<1>1. PICK slots : slots = Merged(task.filled, patch)
  OBVIOUS
<1>2. ListValues(slots)
  BY <1>1 DEF Merged, ListValues
<1>3. PICK path : path = ComposeExportPath(slots)
  OBVIOUS
<1>4. IsList(path)
  BY <1>2, <1>3, ComposedPath
<1>5. ListValues(Merged(slots, [output_path |-> path]))
  BY <1>2, <1>4 DEF Merged, ListValues
<1>6. PICK rest : rest = [s \in DOMAIN patch \ {"output_path"} |-> patch[s]]
  OBVIOUS
<1>7. ListValues(Merged(task.filled, rest))
  BY <1>6 DEF Merged, ListValues
<1>8. \A action, input : Plan(action, input).input = input
  BY DEF Plan
<1> QED BY <1>1, <1>2, <1>3, <1>5, <1>6, <1>7, <1>8 DEF PlanFromSlotPatch

LEMMA ValidPatch ==
  ASSUME NEW task, NEW patch, ListValues(patch)
  PROVE  ValidatedPatch(task, patch) = <<>> \/ ListValues(ValidatedPatch(task, patch))
BY DEF ValidatedPatch, ListValues

-----------------------------------------------------------------------------
(* The invariant: a repair that is being run is one that was paused for on *)
(* the files as they are, so its original action may write; and whoever is *)
(* asked to stop has no more tools left than the poll allows.              *)

\* Who executes, and for which task.
Turning ==
  /\ world \in DOMAIN Worlds /\ turn \in 0..Here.turns
  /\ mode \in {"idle", "loop", "repair"} /\ stop \in {"", "pause", "cancel"}
  /\ (status = "running") = (mode # "idle")
  /\ todo # <<>> => mode = "repair"
  /\ mode = "loop" => pending = NoPending
  /\ mode = "repair" => HasRepair(pending)
  /\ mode = "idle" => pending = NoPending \/ (Waits(pending) /\ pending.state = status)

\* The tools that may run before the poll that heeds a stop.
Stopping == stop # "" /\ mode # "idle"

Left == IF ~Stopping THEN 0 ELSE IF mode = "loop" THEN 1 ELSE Len(todo) + 2

Polling == grace \in Int /\ grace >= Left

\* Steps that wrote over a file with the user's word.
Honest(list) == IsList(list) /\ \A k \in DOMAIN list : list[k].over => Confirmed(list[k].plan)

\* What was, is and may be written.
Writing ==
  /\ <<>> \notin files
  /\ Honest(steps)
  /\ TaskFits(pending, files) /\ QuietSteps(todo)

AgentInv == Turning /\ Polling /\ Writing

\* A turn that ends leaves nobody running and a task that waits, if any.
LEMMA Ended ==
  ASSUME NEW result, NEW task, result # "running", EndTurn(result, task),
         task = NoPending \/ (Waits(task) /\ task.state = result), TaskFits(task, files'),
         world \in DOMAIN Worlds, world' = world, turn' \in 0..Here.turns, stop' \in {"", "pause", "cancel"},
         grace' \in Int, grace' >= 0, <<>> \notin files', Honest(steps')
  PROVE  AgentInv'
<1>1. status' = result /\ pending' = task /\ mode' = "idle" /\ todo' = <<>>
  BY DEF EndTurn
<1>2. Waits(pending') <=> Waits(task)
  BY <1>1 DEF Waits
<1>3. Here'.turns = Here.turns
  BY DEF Here
<1>4. Turning'
  BY <1>1, <1>2, <1>3 DEF Turning
<1>5. Polling'
  BY <1>1 DEF Polling, Left, Stopping
<1>6. QuietSteps(todo')
  BY <1>1, ListShort DEF QuietSteps
<1>7. TaskFits(pending', files')
  BY <1>1
<1>8. Writing'
  BY <1>6, <1>7 DEF Writing, Honest, TaskFits, QuietSteps
<1> QED BY <1>4, <1>5, <1>8 DEF AgentInv

\* No task is a task like another.
LEMMA NothingWaits ==
  ASSUME NEW F
  PROVE  TaskFits(NoPending, F) /\ ~HasRepair(NoPending) /\ ~Waits(NoPending)
<1>1. QuietSteps(<<>>) /\ ListValues(<<>>)
  BY ListShort DEF QuietSteps, ListValues
<1> QED BY <1>1 DEF TaskFits, Waits, NoPending, NoRepair, HasRepair

\* Whoever was to stop has stopped at the poll.
LEMMA PolledKeeps ==
  ASSUME AgentInv, mode = "loop", Polled, grace' \in Int, grace' >= 0, <<>> \notin files', Honest(steps')
  PROVE  AgentInv'
<1>1. pending = NoPending /\ world \in DOMAIN Worlds /\ turn \in 0..Here.turns /\ stop \in {"", "pause", "cancel"}
  BY DEF AgentInv, Turning
<1>2. world' = world /\ stop' = stop /\ turn' = turn
  BY DEF Polled
<1>3. CASE stop = ""
  <2>1. mode' = mode /\ pending' = pending /\ status' = status /\ todo' = todo
    BY <1>3 DEF Polled
  <2>2. Turning'
    BY <1>2, <2>1 DEF AgentInv, Turning, Waits, Here
  <2>3. Polling'
    BY <1>2, <1>3 DEF Polling, Left, Stopping
  <2>4. TaskFits(pending', files') /\ QuietSteps(todo')
    BY <1>1, <2>1, NothingWaits DEF AgentInv, Writing
  <2>5. Writing'
    BY <2>4 DEF Writing, Honest, TaskFits, QuietSteps
  <2> QED BY <2>2, <2>3, <2>5 DEF AgentInv
<1>4. CASE stop # ""
  <2>1. PICK result : result = IF stop = "cancel" THEN "cancelled" ELSE "paused"
    OBVIOUS
  <2>2. EndTurn(result, NoPending) /\ result # "running"
    BY <1>4, <2>1 DEF Polled
  <2>3. turn' \in 0..Here.turns /\ stop' \in {"", "pause", "cancel"}
    BY <1>1, <1>2
  <2> QED BY <1>1, <1>2, <2>2, <2>3, NothingWaits, Ended
<1> QED BY <1>3, <1>4

LEMMA LeftCounts ==
  ASSUME AgentInv
  PROVE  Left \in Int /\ Left >= 0 /\ (Stopping => Left >= 1)
<1>1. Len(todo) \in Nat
  BY ListPlaces DEF AgentInv, Writing, QuietSteps
<1>2. PICK n \in Nat : n = Len(todo) + 2 /\ n >= 2
  BY <1>1
<1>3. Left = IF ~Stopping THEN 0 ELSE IF mode = "loop" THEN 1 ELSE n
  BY <1>2 DEF Left
<1> QED BY <1>2, <1>3

\* A step that asks no tool writes nothing.
LEMMA Recorded ==
  ASSUME AgentInv, NEW p, NEW how, NEW ok, NEW out, Record(p, how, ok, out)
  PROVE  <<>> \notin files' /\ files' = files /\ Honest(steps') /\ grace' \in Int /\ grace' >= 0 /\ grace' >= Left
<1>1. PICK step : step = Step(p, how, Result(ok, tree, files, out, <<>>), tree)
  OBVIOUS
<1>2. <<>> \notin files /\ Honest(steps) /\ grace \in Int /\ grace >= Left
  BY DEF AgentInv, Writing, Polling
<1>3. ~step.over
  BY <1>1, <1>2 DEF Step, Result
<1>4. steps' = Append(steps, step) /\ files' = files /\ grace' = grace
  BY <1>1 DEF Record
<1>5. Honest(steps')
  BY <1>2, <1>3, <1>4, ListAppend DEF Honest
<1>6. Left \in Int /\ Left >= 0
  BY LeftCounts
<1> QED BY <1>2, <1>4, <1>5, <1>6

\* A tool that may run writes over nothing without the user's word, and uses up a
\* tool of those left.
LEMMA Ran ==
  ASSUME AgentInv, NEW p, NEW how, NEW t, NEW before, NEW res \in Outcomes(p, t, files), NEW step,
         step.plan = p, step.over = (res.ok /\ res.path \in files), MayWrite(p, files) \/ Quiet(p),
         Takes(step), files' = res.files, mode # "idle"
  PROVE  /\ <<>> \notin files' /\ Honest(steps') /\ grace' \in Int /\ grace' >= 0
         /\ Quiet(p) => files' = files
         /\ Stopping => grace' >= Left - 1
<1>1. <<>> \notin files /\ Honest(steps) /\ grace \in Int /\ grace >= Left
  BY DEF AgentInv, Writing, Polling
<1>2. /\ <<>> \notin files'
      /\ MayWrite(p, files) /\ res.path \in files => Confirmed(p)
      /\ Quiet(p) => res.path \notin files /\ files' = files
  BY <1>1, AllowedWrites
<1>3. step.over => Confirmed(step.plan)
  BY <1>2
<1>4. steps' = Append(steps, step) /\ grace' = IF Stopping THEN grace - 1 ELSE grace
  BY DEF Takes, Stopping
<1>5. Honest(steps')
  <2>1. IsList(steps') /\ \A k \in DOMAIN steps' : steps'[k] = step \/ (k \in DOMAIN steps /\ steps'[k] = steps[k])
    BY <1>1, <1>4, ListAppend DEF Honest
  <2> QED BY <1>1, <1>3, <2>1 DEF Honest
<1>6. Left \in Int /\ Left >= 0 /\ (Stopping => Left >= 1)
  BY LeftCounts
<1> QED BY <1>1, <1>2, <1>4, <1>5, <1>6

-----------------------------------------------------------------------------
(* The loop keeps the invariant                                            *)

\* What the world offers is made of lists.
LEMMA OffersFit ==
  ASSUME world \in DOMAIN Worlds
  PROVE  /\ Here.turns \in Nat /\ <<>> \notin Here.files
         /\ \A p \in Here.plans : ListValues(p.input)
         /\ \A patch \in Here.patches : ListValues(patch)
         /\ \A q \in Here.questions : ListValues(q.filled) /\ \A c \in q.choices : IsList(c.value)
<1>1. PICK t : t = Here.tree
  OBVIOUS
<1>2. /\ <<>> \notin Here.files /\ Here.turns \in Nat
      /\ \A p \in Here.plans : FitSlots(p.input, t)
      /\ \A patch \in Here.patches : FitSlots(patch, t)
      /\ \A q \in Here.questions : FitSlots(q.filled, t) /\ \A c \in q.choices : FitChoice(c, t)
  BY <1>1, WorldsAssumption DEF Here
<1> QED BY <1>2 DEF FitSlots, FitChoice

\* An iteration that ends the turn.
LEMMA EndsKeeps ==
  ASSUME AgentInv, NEW result, NEW task, result # "running", Ends(result, task),
         task = NoPending \/ (Waits(task) /\ task.state = result), TaskFits(task, files'),
         grace' \in Int, grace' >= 0, <<>> \notin files', Honest(steps')
  PROVE  AgentInv'
<1>1. EndTurn(result, task) /\ world' = world /\ turn' = turn /\ stop' = stop
  BY DEF Ends
<1>2. world \in DOMAIN Worlds /\ turn \in 0..Here.turns /\ stop \in {"", "pause", "cancel"}
  BY DEF AgentInv, Turning
<1>3. turn' \in 0..Here.turns /\ stop' \in {"", "pause", "cancel"}
  BY <1>1, <1>2
<1> QED BY <1>1, <1>2, <1>3, Ended

LEMMA LeftAlone ==
  ASSUME AgentInv, UNCHANGED <<files, steps, grace>>
  PROVE  grace' \in Int /\ grace' >= 0 /\ <<>> \notin files' /\ Honest(steps') /\ files' = files
<1>1. grace \in Int /\ grace >= Left /\ <<>> \notin files /\ Honest(steps)
  BY DEF AgentInv, Polling, Writing
<1>2. grace' = grace /\ files' = files /\ steps' = steps
  OBVIOUS
<1>3. Honest(steps')
  BY <1>1, <1>2 DEF Honest
<1> QED BY <1>1, <1>2, <1>3, LeftCounts

LEMMA PausesKeeps ==
  ASSUME AgentInv, NEW task, TaskFits(task, files), Waits(task), Pauses(task)
  PROVE  AgentInv'
<1>1. Ends(task.state, task) /\ UNCHANGED <<files, steps, grace>> /\ task.state # "running"
  BY DEF Pauses, Waits
<1>2. grace' \in Int /\ grace' >= 0 /\ <<>> \notin files' /\ Honest(steps') /\ files' = files
  BY <1>1, LeftAlone
<1> QED BY <1>1, <1>2, EndsKeeps

\* A tool that runs in the loop is one the rules let write.
LEMMA ToolKeeps ==
  ASSUME AgentInv, mode = "loop", NEW p, MayWrite(p, files), ToolStep(p)
  PROVE  AgentInv'
<1>1. PICK res \in Outcomes(p, tree, files) :
        RunTool(p, "loop", res) /\ IF res.ok \/ request.auto_repair THEN Polled ELSE Ends("failed", NoPending)
  BY DEF ToolStep
<1>2. PICK step : step = Step(p, "loop", res, tree)
  OBVIOUS
<1>3. step.plan = p /\ step.over = (res.ok /\ res.path \in files) /\ Takes(step) /\ files' = res.files
  BY <1>1, <1>2 DEF RunTool, Step
<1>4. <<>> \notin files' /\ Honest(steps') /\ grace' \in Int /\ grace' >= 0
  BY <1>3, Ran
<1> QED BY <1>1, <1>4, PolledKeeps, EndsKeeps, NothingWaits

LEMMA JudgedKeeps ==
  ASSUME AgentInv, IsList(tree.layers), NEW p \in Here.plans, Judged(p)
  PROVE  AgentInv'
<1>1. mode = "loop" /\ Heeds(p, HardIssues(p, tree, files))
  BY DEF Judged, Chooses
<1>2. ListValues(p.input)
  BY OffersFit DEF AgentInv, Turning
<1>3. PICK issues : issues = HardIssues(p, tree, files)
  OBVIOUS
<1>4. Fits(issues, p, files) /\ (issues = <<>> => MayWrite(p, files))
  BY <1>2, <1>3, HardFits
<1>5. CASE issues # <<>> /\ Pauses(PauseForIssues(p, issues, tree))
  BY <1>2, <1>4, <1>5, PauseFits, PausesKeeps
<1>6. CASE issues = <<>> /\ QualityBlocks(p)
  BY <1>1, <1>6, Recorded, PolledKeeps DEF QualityBlocks
<1>7. CASE issues = <<>> /\ FinalAnswer(p)
  <2>1. Ends("completed", NoPending) /\ UNCHANGED <<files, steps, grace>>
    BY <1>7 DEF FinalAnswer
  <2> QED BY <2>1, LeftAlone, EndsKeeps, NothingWaits
<1>8. CASE issues = <<>> /\ ToolStep(p)
  BY <1>1, <1>4, <1>8, ToolKeeps
<1> QED BY <1>1, <1>3, <1>5, <1>6, <1>7, <1>8 DEF Heeds

LEMMA LoopKeeps ==
  ASSUME AgentInv, IsList(tree.layers), LoopNext
  PROVE  AgentInv'
<1>1. CASE SelectionFails
  <2>1. Ends("failed", NoPending) /\ UNCHANGED <<files, steps, grace>>
    BY <1>1 DEF SelectionFails
  <2> QED BY <2>1, LeftAlone, EndsKeeps, NothingWaits
<1>2. ASSUME NEW p \in Here.plans, MetaContinues(p) PROVE AgentInv'
  BY <1>2, Recorded, PolledKeeps DEF MetaContinues, Chooses
<1>3. ASSUME NEW p \in Here.plans, MetaFailsHard(p) PROVE AgentInv'
  BY <1>3, Recorded, EndsKeeps, NothingWaits DEF MetaFailsHard
<1>4. ASSUME NEW p \in Here.plans, DuplicateSkipped(p) PROVE AgentInv'
  BY <1>4, Recorded, PolledKeeps DEF DuplicateSkipped, Chooses
<1>5. ASSUME NEW p \in Here.plans, NEW q \in Here.questions, MetaAsks(p, q) PROVE AgentInv'
  <2>1. ListValues(q.filled) /\ \A c \in q.choices : IsList(c.value)
    BY OffersFit DEF AgentInv, Turning
  <2>2. TaskFits(ClarificationTask(q), files') /\ Waits(ClarificationTask(q))
    BY <2>1, NothingWaits, OtherTasks
  <2>3. ClarificationTask(q).state = "awaiting_user"
    BY DEF ClarificationTask, NoPending
  <2> QED BY <1>5, <2>2, <2>3, Recorded, EndsKeeps DEF MetaAsks
<1> QED BY <1>1, <1>2, <1>3, <1>4, <1>5, JudgedKeeps DEF LoopNext

-----------------------------------------------------------------------------
(* Turns, confirmed repairs and answers keep it                            *)

\* A new turn has been asked nothing yet.
LEMMA TurnCounts ==
  ASSUME AgentInv, TurnStarts, world' = world
  PROVE  /\ turn' \in 0..Here'.turns /\ stop' = "" /\ stop' \in {"", "pause", "cancel"}
         /\ world \in DOMAIN Worlds /\ grace' \in Int /\ grace' >= 0 /\ mode = "idle" /\ ~Stopping'
<1>1. turn < Here.turns /\ turn' = turn + 1 /\ grace' = 0 /\ stop' = "" /\ mode = "idle"
  BY DEF TurnStarts
<1>2. world \in DOMAIN Worlds /\ turn \in 0..Here.turns
  BY DEF AgentInv, Turning
<1>3. Here.turns \in Nat /\ Here' = Here
  BY <1>2, OffersFit DEF Here
<1>4. turn' \in 0..Here'.turns /\ grace' \in Int /\ grace' >= 0
  <2>1. turn < Here.turns /\ turn' = turn + 1 /\ grace' = 0
    BY <1>1
  <2> QED BY <2>1, <1>2, <1>3
<1>5. ~Stopping'
  BY <1>1 DEF Stopping
<1> QED BY <1>1, <1>2, <1>4, <1>5

LEMMA StartKeeps ==
  ASSUME AgentInv, NEW r, StartLoop(r)
  PROVE  AgentInv'
<1>1. /\ TurnStarts /\ world' = world /\ files' = files /\ steps' = <<>> /\ todo' = <<>>
      /\ pending' = NoPending /\ status' = "running" /\ mode' = "loop"
  BY DEF StartLoop
<1>2. Turning'
  BY <1>1, TurnCounts DEF Turning
<1>3. Polling'
  BY <1>1, TurnCounts DEF Polling, Left
<1>4. Honest(<<>>) /\ QuietSteps(<<>>)
  BY ListShort DEF Honest, QuietSteps
<1>5. <<>> \notin files' /\ Honest(steps') /\ QuietSteps(todo') /\ TaskFits(pending', files')
  BY <1>1, <1>4, NothingWaits DEF AgentInv, Writing
<1>6. Writing'
  BY <1>5 DEF Writing, Honest, TaskFits, QuietSteps
<1> QED BY <1>2, <1>3, <1>6 DEF AgentInv

LEMMA ConfirmKeeps ==
  ASSUME AgentInv, Confirm
  PROVE  AgentInv'
<1>1. /\ TurnStarts /\ world' = world /\ files' = files /\ steps' = <<>> /\ todo' = pending.repair.steps
      /\ pending' = pending /\ status' = "running" /\ mode' = "repair" /\ HasRepair(pending)
  BY DEF Confirm
<1>2. Turning'
  BY <1>1, TurnCounts DEF Turning, HasRepair
<1>3. Polling'
  BY <1>1, TurnCounts DEF Polling, Left
<1>4. Honest(<<>>)
  BY ListShort DEF Honest
<1>5. <<>> \notin files' /\ Honest(steps') /\ QuietSteps(todo') /\ TaskFits(pending', files')
  BY <1>1, <1>4 DEF AgentInv, Writing, TaskFits
<1>6. Writing'
  BY <1>5 DEF Writing, Honest, TaskFits, QuietSteps
<1> QED BY <1>2, <1>3, <1>6 DEF AgentInv

LEMMA StopKeeps ==
  ASSUME AgentInv, NEW how \in {"pause", "cancel"}, RequestStop(how)
  PROVE  AgentInv'
<1>1. /\ stop' = how /\ mode # "idle" /\ grace' = IF Stopping THEN grace ELSE IF mode = "loop" THEN 1 ELSE Len(todo) + 2
      /\ UNCHANGED <<world, files, steps, pending, status, mode, todo, turn>>
  BY DEF RequestStop, Stopping
<1>2. Turning'
  BY <1>1 DEF AgentInv, Turning, Waits, HasRepair, Here
<1>3. Stopping'
  BY <1>1 DEF Stopping
<1>4. Polling'
  <2>1. grace \in Int /\ grace >= Left
    BY DEF AgentInv, Polling
  <2>2. Len(todo) \in Nat
    BY ListPlaces DEF AgentInv, Writing, QuietSteps
  <2>3. Left' = IF mode = "loop" THEN 1 ELSE Len(todo) + 2
    BY <1>1, <1>3 DEF Left
  <2>4. Stopping => Left' = Left
    BY <2>3 DEF Left
  <2>5. grace' \in Int
    BY <1>1, <2>1, <2>2
  <2>6. grace' >= Left'
    BY <1>1, <2>1, <2>2, <2>3, <2>4
  <2> QED BY <2>5, <2>6 DEF Polling
<1>5. Writing'
  BY <1>1 DEF AgentInv, Writing, Honest, TaskFits, QuietSteps
<1> QED BY <1>2, <1>4, <1>5 DEF AgentInv

\* A step of a repair writes no file.
LEMMA RepairKeeps ==
  ASSUME AgentInv, RepairStep
  PROVE  AgentInv'
<1>1. mode = "repair" /\ todo # <<>>
  BY DEF RepairStep
<1>2. PICK p : p = Head(todo)
  OBVIOUS
<1>3. PICK res \in Outcomes(p, tree, files) :
        RunTool(p, "repair", res) /\ IF res.ok THEN todo' = Tail(todo) /\ UNCHANGED <<status, pending, mode>>
                                              ELSE EndTurn("failed", NoPending)
  BY <1>2 DEF RepairStep
<1>4. world' = world /\ stop' = stop /\ turn' = turn
  BY DEF RepairStep
<1>5. PICK step : step = Step(p, "repair", res, tree)
  OBVIOUS
<1>6. step.plan = p /\ step.over = (res.ok /\ res.path \in files) /\ Takes(step) /\ files' = res.files
  BY <1>3, <1>5 DEF RunTool, Step
<1>7. QuietSteps(todo)
  BY DEF AgentInv, Writing
<1>8. /\ IsList(Tail(todo)) /\ Len(Tail(todo)) = Len(todo) - 1 /\ Len(todo) >= 1
      /\ 1 \in DOMAIN todo /\ Head(todo) = todo[1]
      /\ \A k \in DOMAIN Tail(todo) : k + 1 \in DOMAIN todo /\ Tail(todo)[k] = todo[k + 1]
  BY <1>1, <1>7, ListTail DEF QuietSteps
<1>9. Quiet(p) /\ QuietSteps(Tail(todo))
  BY <1>2, <1>7, <1>8 DEF QuietSteps
<1>10. /\ <<>> \notin files' /\ Honest(steps') /\ grace' \in Int /\ grace' >= 0
       /\ files' = files /\ (Stopping => grace' >= Left - 1)
  BY <1>1, <1>6, <1>9, Ran
<1>11. world \in DOMAIN Worlds /\ turn' \in 0..Here.turns /\ stop' \in {"", "pause", "cancel"}
  BY <1>4 DEF AgentInv, Turning
<1>12. CASE res.ok
  <2>1. todo' = Tail(todo) /\ UNCHANGED <<world, stop, turn, status, pending, mode>>
    BY <1>3, <1>4, <1>12
  <2>2. Turning'
    BY <1>1, <2>1 DEF AgentInv, Turning, HasRepair, Waits, Here
  <2>3. Polling'
    <3>1. Stopping' <=> Stopping
      BY <2>1 DEF Stopping
    <3>2. Len(todo) \in Nat
      BY <1>7, ListPlaces DEF QuietSteps
    <3>3. Stopping => Left = Len(todo) + 2 /\ Left' = Len(todo) + 1
      BY <1>1, <1>8, <2>1, <3>1, <3>2 DEF Left
    <3>4. ~Stopping => Left' = 0
      BY <3>1 DEF Left
    <3> QED BY <1>10, <3>2, <3>3, <3>4 DEF Polling
  <2>4. Writing'
    BY <1>9, <1>10, <2>1 DEF AgentInv, Writing, Honest, TaskFits, QuietSteps
  <2> QED BY <2>2, <2>3, <2>4 DEF AgentInv
<1>13. CASE ~res.ok
  BY <1>3, <1>4, <1>10, <1>11, <1>13, NothingWaits, Ended
<1> QED BY <1>12, <1>13

\* The original action of a repair is one that may write.
LEMMA OriginalKeeps ==
  ASSUME AgentInv, Original
  PROVE  AgentInv'
<1>1. /\ mode = "repair" /\ todo = <<>> /\ world' = world /\ stop' = stop /\ turn' = turn
      /\ RunOriginal(RepairedPlan(pending), AliasRepairedLayers(tree, pending))
  BY DEF Original
<1>2. PICK p, aliased : p = RepairedPlan(pending) /\ aliased = AliasRepairedLayers(tree, pending)
  OBVIOUS
<1>3. PICK res \in Outcomes(p, aliased, files) :
        /\ files' = res.files /\ Takes(ConfirmedStep(p, res, aliased))
        /\ \/ pending' = NoPending /\ mode' = "loop" /\ UNCHANGED <<status, todo>>
           \/ \E result \in {"failed", "completed"} : EndTurn(result, NoPending)
  BY <1>1, <1>2 DEF RunOriginal
<1>4. PICK step : step = ConfirmedStep(p, res, aliased)
  OBVIOUS
<1>5. step.plan = p /\ step.over = (res.ok /\ res.path \in files) /\ Takes(step)
  BY <1>3, <1>4 DEF ConfirmedStep, Step
<1>6. MayWrite(p, files)
  BY <1>1, <1>2 DEF AgentInv, Turning, Writing, TaskFits
<1>7. /\ <<>> \notin files' /\ Honest(steps') /\ grace' \in Int /\ grace' >= 0
      /\ (Stopping => grace' >= Left - 1)
  BY <1>1, <1>3, <1>5, <1>6, Ran
<1>8. world \in DOMAIN Worlds /\ turn' \in 0..Here.turns /\ stop' \in {"", "pause", "cancel"}
  BY <1>1 DEF AgentInv, Turning
<1>9. CASE pending' = NoPending /\ mode' = "loop" /\ UNCHANGED <<status, todo>>
  <2>1. mode' = "loop" /\ pending' = NoPending /\ UNCHANGED <<world, stop, turn, status, todo>>
    BY <1>1, <1>9
  <2>2. Turning'
    BY <1>1, <2>1 DEF AgentInv, Turning, Here
  <2>3. Polling'
    <3>1. Stopping' <=> Stopping
      BY <1>1, <2>1 DEF Stopping
    <3>2. Len(<<>>) = 0
      OBVIOUS
    <3>3. Stopping => Left = 2 /\ Left' = 1
      BY <1>1, <2>1, <3>1, <3>2 DEF Left
    <3>4. ~Stopping => Left' = 0
      BY <3>1 DEF Left
    <3> QED BY <1>7, <3>3, <3>4 DEF Polling
  <2>4. TaskFits(pending', files') /\ QuietSteps(todo')
    BY <2>1, NothingWaits DEF AgentInv, Writing
  <2>5. Writing'
    BY <1>7, <2>4 DEF Writing, Honest, TaskFits, QuietSteps
  <2> QED BY <2>2, <2>3, <2>5 DEF AgentInv
<1>10. CASE \E result \in {"failed", "completed"} : EndTurn(result, NoPending)
  BY <1>1, <1>7, <1>8, <1>10, NothingWaits, Ended
<1> QED BY <1>3, <1>9, <1>10

\* A turn that is an answer ends as it starts.
LEMMA AnsweredKeeps ==
  ASSUME AgentInv, NEW t, NEW list, NEW result, NEW task, Answered(t, list, result, task), result # "running",
         task = NoPending \/ (Waits(task) /\ task.state = result), TaskFits(task, files'),
         <<>> \notin files', Honest(list)
  PROVE  AgentInv'
<1>1. TurnStarts /\ world' = world /\ steps' = list /\ EndTurn(result, task)
  BY DEF Answered
<1>2. Honest(steps')
  BY <1>1
<1>3. Here' = Here
  BY <1>1 DEF Here
<1> QED BY <1>1, <1>2, <1>3, TurnCounts, Ended

LEMMA AskKeeps ==
  ASSUME AgentInv, NEW task, TaskFits(task, files), Waits(task), AskWith(task)
  PROVE  AgentInv'
<1>1. Answered(Restored, <<>>, task.state, task) /\ files' = files /\ task.state # "running"
  BY DEF AskWith, Waits
<1>2. Honest(<<>>)
  BY ListShort DEF Honest
<1>3. <<>> \notin files'
  BY <1>1 DEF AgentInv, Writing
<1> QED BY <1>1, <1>2, <1>3, AnsweredKeeps

\* A plan that is resumed runs only if the rules let it write.
LEMMA ExecuteKeeps ==
  ASSUME AgentInv, NEW p, MayWrite(p, files), NEW before, ExecuteResumed(p, before)
  PROVE  AgentInv'
<1>1. PICK res \in Outcomes(p, before, files) :
        /\ Answered(res.tree, <<Step(p, "resume", res, before)>>, IF res.ok THEN "completed" ELSE "failed", NoPending)
        /\ files' = res.files
  BY DEF ExecuteResumed
<1>2. PICK step : step = Step(p, "resume", res, before)
  OBVIOUS
<1>3. step.plan = p /\ step.over = (res.ok /\ res.path \in files)
  BY <1>2 DEF Step
<1>4. <<>> \notin files' /\ (res.path \in files => Confirmed(p))
  BY <1>1, AllowedWrites DEF AgentInv, Writing
<1>5. Honest(<<step>>)
  BY <1>3, <1>4, ListShort DEF Honest
<1>6. PICK result : result = IF res.ok THEN "completed" ELSE "failed"
  OBVIOUS
<1>7. result # "running" /\ Answered(res.tree, <<step>>, result, NoPending)
  BY <1>1, <1>2, <1>6
<1> QED BY <1>4, <1>5, <1>7, NothingWaits, AnsweredKeeps

LEMMA ValidateKeeps ==
  ASSUME AgentInv, IsList(tree.layers), NEW p, ListValues(p.input), ValidateOrExecute(p)
  PROVE  AgentInv'
<1>1. PICK issues : issues = HardIssues(p, Restored, files)
  OBVIOUS
<1>2. HeedsResumed(p, Restored, issues)
  BY <1>1 DEF ValidateOrExecute, ValidateOn
<1>3. Fits(issues, p, files) /\ (issues = <<>> => MayWrite(p, files))
  BY <1>1, HardFits
<1>4. CASE p.action = "final_answer"
  <2>1. Answered(Restored, <<>>, "completed", NoPending) /\ files' = files
    BY <1>2, <1>4 DEF HeedsResumed
  <2>2. Honest(<<>>) /\ <<>> \notin files'
    BY <2>1, ListShort DEF Honest, AgentInv, Writing
  <2> QED BY <2>1, <2>2, NothingWaits, AnsweredKeeps
<1>5. CASE p.action # "final_answer" /\ issues # <<>>
  <2>1. AskWith(PauseResumedPlan(p, issues, Restored))
    BY <1>2, <1>5 DEF HeedsResumed
  <2>2. IsList(Restored.layers)
    BY DEF Restored, FromDict
  <2> QED BY <2>1, <2>2, <1>3, <1>5, PauseFits, AskKeeps
<1>6. CASE p.action # "final_answer" /\ issues = <<>>
  <2>1. ExecuteResumed(p, Restored)
    BY <1>2, <1>6 DEF HeedsResumed
  <2> QED BY <2>1, <1>3, <1>6, ExecuteKeeps
<1> QED BY <1>4, <1>5, <1>6

LEMMA PatchKeeps ==
  ASSUME AgentInv, IsList(tree.layers), NEW patch, ListValues(patch), ResumeWithPatch(patch)
  PROVE  AgentInv'
<1>1. TaskFits(pending, files)
  BY DEF AgentInv, Writing
<1>2. PICK valid : valid = IF IsClarificationPending(pending) THEN ValidatedPatch(pending, patch) ELSE patch
  OBVIOUS
<1>3. IF valid = <<>> THEN AskWith(ClarifiedAgain(pending)) ELSE ValidateOrExecute(PlanFromSlotPatch(pending, valid))
  BY <1>2 DEF ResumeWithPatch
<1>4. valid = <<>> \/ ListValues(valid)
  BY <1>2, ValidPatch
<1>5. CASE valid = <<>>
  <2>1. TaskFits(ClarifiedAgain(pending), files) /\ Waits(ClarifiedAgain(pending))
    BY <1>1, OtherTasks
  <2> QED BY <1>3, <1>5, <2>1, AskKeeps
<1>6. CASE valid # <<>>
  <2>1. ListValues(PlanFromSlotPatch(pending, valid).input)
    BY <1>1, <1>4, <1>6, PatchedPlan DEF TaskFits
  <2> QED BY <1>3, <1>6, <2>1, ValidateKeeps
<1> QED BY <1>5, <1>6

LEMMA AnswersKeep ==
  ASSUME AgentInv, IsList(tree.layers), AnswerNext
  PROVE  AgentInv'
<1>1. TaskFits(pending, files) /\ <<>> \notin files /\ world \in DOMAIN Worlds
  BY DEF AgentInv, Writing, Turning
<1>2. \A question, allowed : /\ TaskFits(AskedAgain(pending, question, allowed), files)
                            /\ Waits(AskedAgain(pending, question, allowed))
  BY <1>1, OtherTasks
<1>3. TaskFits(ClarifiedAgain(pending), files) /\ Waits(ClarifiedAgain(pending))
  BY <1>1, OtherTasks
<1>4. CASE Confirm
  BY <1>4, ConfirmKeeps
<1>5. CASE Reject
  BY <1>5, <1>2, AskKeeps DEF Reject
<1>6. CASE CancelTask
  <2>1. Answered(Restored, <<>>, "cancelled", NoPending) /\ files' = files
    BY <1>6 DEF CancelTask
  <2>2. Honest(<<>>)
    BY ListShort DEF Honest
  <2> QED BY <1>1, <2>1, <2>2, NothingWaits, AnsweredKeeps
<1>7. CASE ReplyNotUnderstood
  <2>1. CASE IsClarificationPending(pending)
    BY <2>1, <1>3, <1>7, AskKeeps DEF ReplyNotUnderstood
  <2>2. CASE ~IsClarificationPending(pending)
    BY <2>2, <1>2, <1>7, AskKeeps DEF ReplyNotUnderstood
  <2> QED BY <2>1, <2>2
<1>8. ASSUME NEW patch \in Here.patches \cup ChosenPatches, Patch(patch) \/ ReplyPatches(patch)
      PROVE  AgentInv'
  <2>1. \A c \in pending.choices : ListValues([s \in {c.slot} |-> c.value])
    BY <1>1 DEF TaskFits, ListValues
  <2>2. ListValues(patch)
    BY <2>1, <1>1, OffersFit DEF ChosenPatches
  <2> QED BY <1>8, <2>2, PatchKeeps DEF Patch, ReplyPatches
<1>9. ASSUME NEW p \in Here.plans, ReplyReplans(p) PROVE AgentInv'
  BY <1>1, <1>9, OffersFit, ValidateKeeps DEF ReplyReplans
<1>10. ASSUME NEW r \in Here.requests, Replan(r) PROVE AgentInv'
  BY <1>10, StartKeeps DEF Replan
<1> QED BY <1>4, <1>5, <1>6, <1>7, <1>8, <1>9, <1>10 DEF AnswerNext

-----------------------------------------------------------------------------
(* The state tree: whatever happens, names lead to layers, layers come     *)
(* from layers, each layer is told by its id and its name, and no name is  *)
(* an id.  It only grows, but for the names a repair moves.                *)

TreeOK(t) ==
  /\ IsTree(t) /\ IdsDrawn(t)
  /\ t = [layers |-> t.layers, aliases |-> [a \in DOMAIN t.aliases |-> t.aliases[a]]]
  /\ \A i \in DOMAIN t.layers : CandidateAliases(t.layers[i], i) \subseteq DOMAIN t.aliases

Grown(t, u) ==
  /\ DOMAIN t.layers \subseteq DOMAIN u.layers /\ \A i \in DOMAIN t.layers : u.layers[i] = t.layers[i]
  /\ DOMAIN t.aliases \subseteq DOMAIN u.aliases /\ \A a \in DOMAIN t.aliases : u.aliases[a] = t.aliases[a]

\* What may be added to a tree.
NewLayer(l, t) ==
  IsName(l.name) /\ l.crs # "#" /\ \A k \in DOMAIN l.parents : l.parents[k] \in DOMAIN t.layers

\* The greatest of some positions is one of them.
LEMMA GreatestOf ==
  ASSUME NEW n \in Nat, NEW S \in SUBSET (0..n), S # {}
  PROVE  Max(S) \in S /\ \A x \in S : x <= Max(S)
<1>1. PICK T : T = {n - x : x \in S}
  OBVIOUS
<1>2. T \in SUBSET Nat /\ T # {}
  <2>1. \A x \in S : n - x \in Nat
    OBVIOUS
  <2> QED BY <1>1, <2>1
<1>3. PICK y \in T : \A z \in T : y <= z
  BY <1>2, LeastOf
<1>4. PICK x \in S : y = n - x
  BY <1>1
<1>5. \A z \in S : x >= z
  BY <1>1, <1>3, <1>4
<1>6. Max(S) \in S /\ \A z \in S : Max(S) >= z
  BY <1>4, <1>5 DEF Max
<1>7. \A z \in S : z \in Int
  OBVIOUS
<1> QED BY <1>6, <1>7

\* A list begins with the list it was made longer from.
LEMMA ConcatKeeps ==
  ASSUME NEW s, NEW t, IsList(s), IsList(t)
  PROVE  /\ \A k \in DOMAIN s : (s \o t)[k] = s[k]
         /\ \A k \in DOMAIN t : (s \o t)[Len(s) + k] = t[k]
         /\ t # <<>> => (s \o t) # <<>> /\ (s \o t)[Len(s \o t)] = t[Len(t)]
<1> DEFINE S == ToSet(s) \cup ToSet(t)
<1>1. s \in Seq(S) /\ t \in Seq(S)
  <2>1. Len(s) \in Nat /\ s = [k \in 1..Len(s) |-> s[k]] /\ \A k \in 1..Len(s) : s[k] \in S
    BY DEF IsList, ToSet
  <2>2. Len(t) \in Nat /\ t = [k \in 1..Len(t) |-> t[k]] /\ \A k \in 1..Len(t) : t[k] \in S
    BY DEF IsList, ToSet
  <2> HIDE DEF S
  <2> QED BY <2>1, <2>2
<1> HIDE DEF S
<1>2. /\ Len(s \o t) = Len(s) + Len(t) /\ Len(s) \in Nat /\ Len(t) \in Nat
      /\ DOMAIN s = 1..Len(s) /\ DOMAIN t = 1..Len(t)
      /\ \A k \in 1..Len(s) + Len(t) : (s \o t)[k] = IF k <= Len(s) THEN s[k] ELSE t[k - Len(s)]
  BY <1>1
<1>3. \A k \in DOMAIN s : (s \o t)[k] = s[k]
  BY <1>2
<1>4. ASSUME NEW k \in DOMAIN t PROVE (s \o t)[Len(s) + k] = t[k]
  <2>1. PICK m : m = Len(s) + k
    OBVIOUS
  <2>2. m \in 1..Len(s) + Len(t) /\ ~(m <= Len(s)) /\ m - Len(s) = k
    BY <1>2, <2>1
  <2>3. (s \o t)[m] = t[m - Len(s)]
    BY <1>2, <2>2
  <2> QED BY <2>1, <2>2, <2>3
<1>5. ASSUME t # <<>> PROVE (s \o t) # <<>> /\ (s \o t)[Len(s \o t)] = t[Len(t)]
  <2>1. Len(t) \in DOMAIN t /\ Len(t) >= 1
    BY <1>1, <1>2, <1>5
  <2>2. Len(<<>>) = 0 /\ Len(s \o t) # 0
    BY <1>2, <2>1
  <2>3. (s \o t) # <<>>
    BY <2>2
  <2>4. (s \o t)[Len(s) + Len(t)] = t[Len(t)]
    BY <1>4, <2>1
  <2> QED BY <1>2, <2>3, <2>4
<1> QED BY <1>3, <1>4, <1>5

\* What is drawn stays drawn, and names are not ids.
LEMMA Drawn ==
  ASSUME NEW n \in Nat
  PROVE  /\ \A name : IsName(name) => IsDrawn(name, n)
         /\ \A i \in 0..n : IsDrawn(LayerId(i), n)
         /\ \A ref : \A m \in 0..n : IsDrawn(ref, m) => IsDrawn(ref, n)
<1>1. ASSUME NEW name, IsName(name) PROVE IsDrawn(name, n)
  <2>1. Len(name) \in Nat
    BY <1>1, ListPlaces DEF IsName
  <2>2. \A i \in 1..Len(name) : name # LayerId(i)
    BY <1>1, <2>1, Ids
  <2> QED BY <2>2 DEF IsDrawn
<1>2. ASSUME NEW i \in 0..n PROVE IsDrawn(LayerId(i), n)
  <2>1. Len(LayerId(i)) \in Nat /\ \A j \in Nat : LayerId(i) = LayerId(j) => i = j
    BY Ids
  <2> QED BY <2>1 DEF IsDrawn
<1>3. ASSUME NEW ref, NEW m \in 0..n, IsDrawn(ref, m) PROVE IsDrawn(ref, n)
  <2>1. \A i \in 1..Len(ref) : i \in Int
    OBVIOUS
  <2> QED BY <1>3, <2>1 DEF IsDrawn
<1> QED BY <1>1, <1>2, <1>3

\* Names that layers offer lead to them, unless they already lead elsewhere.
LEMMA Registers ==
  ASSUME NEW layers, NEW n \in Nat, DOMAIN layers = 1..n, NEW new \in SUBSET (1..n), NEW aliases, NEW R,
         R = RegisterAliases(aliases, layers, new),
         \A a \in DOMAIN aliases : aliases[a] \in DOMAIN layers /\ IsDrawn(a, n),
         \A i \in DOMAIN layers : IsName(layers[i].name)
  PROVE  /\ \A a \in DOMAIN R : R[a] \in DOMAIN layers /\ IsDrawn(a, n)
         /\ R = [a \in DOMAIN R |-> R[a]]
         /\ DOMAIN aliases \subseteq DOMAIN R /\ \A a \in DOMAIN aliases : R[a] = aliases[a]
         /\ \A i \in new : CandidateAliases(layers[i], i) \subseteq DOMAIN R
         /\ \A a \in DOMAIN R \ DOMAIN aliases : R[a] \in new /\ a \in CandidateAliases(layers[R[a]], R[a])
<1>1. DOMAIN R = DOMAIN aliases \cup Offered(layers, new) /\ R = [a \in DOMAIN R |-> R[a]]
  BY DEF RegisterAliases
<1>2. ASSUME NEW a \in Offered(layers, new)
      PROVE  FirstOffering(layers, new, a) \in new
             /\ a \in CandidateAliases(layers[FirstOffering(layers, new, a)], FirstOffering(layers, new, a))
  <2>1. PICK S : S = {i \in new : a \in CandidateAliases(layers[i], i)}
    OBVIOUS
  <2>2. S \in SUBSET Nat /\ S # {}
    BY <2>1 DEF Offered
  <2>3. \E x \in S : \A y \in S : x <= y
    BY <2>2, LeastOf
  <2>4. Min(S) \in S
    BY <2>3 DEF Min
  <2> QED BY <2>1, <2>4 DEF FirstOffering
<1>3. \A a \in DOMAIN R : a \notin DOMAIN aliases => a \in Offered(layers, new) /\ R[a] = FirstOffering(layers, new, a)
  BY <1>1 DEF RegisterAliases
<1>4. \A a \in DOMAIN aliases : R[a] = aliases[a]
  BY <1>1 DEF RegisterAliases
<1>5. \A a \in DOMAIN R \ DOMAIN aliases : R[a] \in new /\ a \in CandidateAliases(layers[R[a]], R[a])
  BY <1>2, <1>3
<1>6. ASSUME NEW i \in new, NEW a \in CandidateAliases(layers[i], i) PROVE IsDrawn(a, n)
  <2>1. a = LayerId(i) \/ a = layers[i].name
    BY DEF CandidateAliases
  <2>2. i \in 0..n /\ i \in DOMAIN layers
    OBVIOUS
  <2> QED BY <2>1, <2>2, Drawn
<1>7. \A a \in DOMAIN R : R[a] \in DOMAIN layers /\ IsDrawn(a, n)
  <2> SUFFICES ASSUME NEW a \in DOMAIN R PROVE R[a] \in DOMAIN layers /\ IsDrawn(a, n)
    OBVIOUS
  <2>1. CASE a \in DOMAIN aliases
    BY <2>1, <1>4
  <2>2. CASE a \notin DOMAIN aliases
    BY <2>2, <1>5, <1>6
  <2> QED BY <2>1, <2>2
<1>8. \A i \in new : CandidateAliases(layers[i], i) \subseteq DOMAIN R
  BY <1>1 DEF Offered
<1> QED BY <1>1, <1>4, <1>5, <1>7, <1>8

\* What is added comes after what there was, and takes the names that are free.
LEMMA LayersAdded ==
  ASSUME NEW t, TreeOK(t), NEW new, IsList(new), \A j \in DOMAIN new : NewLayer(new[j], t),
         NEW u, u = AddLayers(t, new)
  PROVE  /\ TreeOK(u) /\ Grown(t, u)
         /\ Len(u.layers) = Len(t.layers) + Len(new)
         /\ \A j \in DOMAIN new : u.layers[Len(t.layers) + j] = new[j]
         /\ \A a \in DOMAIN u.aliases \ DOMAIN t.aliases : u.aliases[a] \in (Len(t.layers) + 1)..Len(u.layers)
<1>1. PICK m \in Nat, n \in Nat : m = Len(t.layers) /\ n = Len(new) /\ DOMAIN t.layers = 1..m /\ DOMAIN new = 1..n
  BY ListPlaces DEF TreeOK, IsTree
<1>2. PICK layers : layers = t.layers \o new
  OBVIOUS
<1>3. IsList(t.layers)
  BY DEF TreeOK, IsTree
<1>4. IsList(layers) /\ \A k \in DOMAIN layers : (\E j \in DOMAIN t.layers : layers[k] = t.layers[j]) \/ (\E j \in DOMAIN new : layers[k] = new[j])
  BY <1>2, <1>3, ListConcat
<1>5. Len(layers) = m + n /\ DOMAIN layers = 1..(m + n)
  <2>1. Len(layers) = Len(t.layers) + Len(new)
    BY <1>2, <1>3, ListConcat
  <2> QED BY <2>1, <1>1, <1>4, ListPlaces
<1>6. DOMAIN t.layers \subseteq DOMAIN layers
  BY <1>1, <1>5
<1>7. PICK places : places = (m + 1)..(m + n)
  OBVIOUS
<1>8. PICK aliases : aliases = RegisterAliases(t.aliases, layers, places)
  OBVIOUS
<1>9. \A i \in DOMAIN layers : IsName(layers[i].name) /\ layers[i].crs # "#"
  BY <1>4 DEF TreeOK, IdsDrawn, NewLayer
<1>10. \A a \in DOMAIN t.aliases : t.aliases[a] \in DOMAIN layers /\ IsDrawn(a, m + n)
  <2>1. \A a \in DOMAIN t.aliases : t.aliases[a] \in DOMAIN t.layers /\ IsDrawn(a, m)
    BY <1>1 DEF TreeOK, IsTree, IdsDrawn
  <2>2. m + n \in Nat /\ m \in 0..(m + n)
    OBVIOUS
  <2> QED BY <2>1, <2>2, <1>6, Drawn
<1>11. /\ \A a \in DOMAIN aliases : aliases[a] \in DOMAIN layers /\ IsDrawn(a, m + n)
       /\ aliases = [a \in DOMAIN aliases |-> aliases[a]]
       /\ DOMAIN t.aliases \subseteq DOMAIN aliases /\ \A a \in DOMAIN t.aliases : aliases[a] = t.aliases[a]
       /\ \A i \in places : CandidateAliases(layers[i], i) \subseteq DOMAIN aliases
       /\ \A a \in DOMAIN aliases \ DOMAIN t.aliases : aliases[a] \in places
  <2>1. m + n \in Nat /\ places \in SUBSET (1..(m + n))
    BY <1>7
  <2> QED BY <1>5, <1>8, <1>9, <1>10, <2>1, Registers
<1>12. (\A i \in DOMAIN t.layers : layers[i] = t.layers[i]) /\ \A j \in DOMAIN new : layers[m + j] = new[j]
  BY <1>1, <1>2, <1>3, ConcatKeeps
<1>13. \A i \in DOMAIN layers : CandidateAliases(layers[i], i) \subseteq DOMAIN aliases
  <2>1. \A i \in DOMAIN layers : i \in DOMAIN t.layers \/ i \in places
    BY <1>1, <1>5, <1>7
  <2>2. \A i \in DOMAIN t.layers : CandidateAliases(layers[i], i) \subseteq DOMAIN t.aliases
    BY <1>12 DEF TreeOK
  <2> QED BY <2>1, <2>2, <1>11
<1>14. u = [layers |-> layers, aliases |-> aliases]
  BY <1>1, <1>2, <1>5, <1>7, <1>8 DEF AddLayers
<1>15. \A i \in DOMAIN layers : \A k \in DOMAIN layers[i].parents : layers[i].parents[k] \in DOMAIN layers
  <2>1. \A i \in DOMAIN t.layers : \A k \in DOMAIN t.layers[i].parents : t.layers[i].parents[k] \in DOMAIN t.layers
    BY DEF TreeOK, IsTree
  <2>2. \A i \in DOMAIN new : \A k \in DOMAIN new[i].parents : new[i].parents[k] \in DOMAIN t.layers
    BY DEF NewLayer
  <2> QED BY <1>4, <1>6, <2>1, <2>2
<1>16. u.layers = layers /\ u.aliases = aliases
  BY <1>14
<1>17. IsTree(u)
  BY <1>4, <1>11, <1>15, <1>16 DEF IsTree
<1>18. IdsDrawn(u)
  BY <1>9, <1>5, <1>11, <1>16 DEF IdsDrawn
<1>19. TreeOK(u)
  BY <1>11, <1>13, <1>14, <1>16, <1>17, <1>18 DEF TreeOK
<1>20. Grown(t, u)
  BY <1>6, <1>11, <1>16, <1>12 DEF Grown
<1> QED BY <1>1, <1>5, <1>7, <1>11, <1>16, <1>19, <1>20, <1>12

LEMMA TreeRestored ==
  ASSUME NEW t, IsTree(t), IdsDrawn(t)
  PROVE  TreeOK(FromDict(t))
<1>1. PICK n \in Nat : n = Len(t.layers) /\ DOMAIN t.layers = 1..n
  BY ListPlaces DEF IsTree
<1>2. PICK aliases : aliases = RegisterAliases(t.aliases, t.layers, DOMAIN t.layers)
  OBVIOUS
<1>3. /\ \A a \in DOMAIN aliases : aliases[a] \in DOMAIN t.layers /\ IsDrawn(a, n)
      /\ aliases = [a \in DOMAIN aliases |-> aliases[a]]
      /\ \A i \in DOMAIN t.layers : CandidateAliases(t.layers[i], i) \subseteq DOMAIN aliases
  <2>1. \A a \in DOMAIN t.aliases : t.aliases[a] \in DOMAIN t.layers /\ IsDrawn(a, n)
    BY <1>1 DEF IsTree, IdsDrawn
  <2>2. \A i \in DOMAIN t.layers : IsName(t.layers[i].name)
    BY DEF IdsDrawn
  <2>3. DOMAIN t.layers \in SUBSET (1..n)
    BY <1>1
  <2> QED BY <1>1, <1>2, <2>1, <2>2, <2>3, Registers
<1>4. PICK u : u = FromDict(t)
  OBVIOUS
<1>5. u = [layers |-> t.layers, aliases |-> aliases] /\ u.layers = t.layers /\ u.aliases = aliases
  BY <1>2, <1>4 DEF FromDict
<1>6. IsTree(u) /\ IdsDrawn(u)
  BY <1>1, <1>3, <1>5 DEF IsTree, IdsDrawn
<1> QED BY <1>3, <1>4, <1>5, <1>6 DEF TreeOK

\* Nothing is new in a tree that is saved and restored.
LEMMA TreeSame ==
  ASSUME NEW t, TreeOK(t)
  PROVE  FromDict(t) = t
<1>1. Offered(t.layers, DOMAIN t.layers) \subseteq DOMAIN t.aliases
  BY DEF TreeOK, Offered
<1>2. RegisterAliases(t.aliases, t.layers, DOMAIN t.layers) = [a \in DOMAIN t.aliases |-> t.aliases[a]]
  BY <1>1 DEF RegisterAliases
<1>3. FromDict(t) = [layers |-> t.layers, aliases |-> [a \in DOMAIN t.aliases |-> t.aliases[a]]]
  BY <1>2 DEF FromDict
<1> QED BY <1>3 DEF TreeOK

LEMMA GrownThrough ==
  ASSUME NEW t, NEW u, NEW v, Grown(t, u), Grown(u, v)
  PROVE  Grown(t, v) /\ Grown(t, t)
BY DEF Grown

\* The scores of a query are small numbers, so that one is the highest.
LEMMA Scored ==
  ASSUME NEW t, NEW q, NEW i
  PROVE  ScoreRecord(t, q, i) \in 0..41
BY DEF ScoreRecord, Points

\* The layer with the best score is one of the layers.
LEMMA BestThere ==
  ASSUME NEW t, IsTree(t), NEW q, t.layers # <<>>
  PROVE  BestRecord(t, q) \in DOMAIN t.layers
<1>1. PICK n \in Nat : n = Len(t.layers) /\ DOMAIN t.layers = 1..n
  BY ListPlaces DEF IsTree
<1>2. PICK score : score = [i \in DOMAIN t.layers |-> ScoreRecord(t, q, i)]
  OBVIOUS
<1>3. DOMAIN score = 1..n /\ \A i \in 1..n : score[i] \in Int /\ 0 <= score[i] /\ score[i] <= 41
  <2>1. \A i : ScoreRecord(t, q, i) \in 0..41
    BY Scored
  <2>2. DOMAIN score = 1..n /\ \A i \in 1..n : score[i] \in 0..41
    BY <1>2, <1>1, <2>1, Zenon
  <2>3. ASSUME NEW x \in 0..41 PROVE x \in Int /\ 0 <= x /\ x <= 41
    OBVIOUS
  <2> QED BY <2>2, <2>3, Zenon
<1>4. PICK T : T = {41 - score[i] : i \in 1..n}
  OBVIOUS
<1>5. 1 \in 1..n
  <2>1. 1 \in DOMAIN t.layers
    BY ListTail DEF IsTree
  <2> QED BY <2>1, <1>1
<1>6. T \in SUBSET Nat /\ T # {}
  <2>1. \A i \in 1..n : 41 - score[i] \in Nat
    BY <1>3
  <2> QED BY <1>4, <1>5, <2>1
<1>7. PICK y \in T : \A z \in T : y <= z
  BY <1>6, LeastOf
<1>8. PICK i \in 1..n : y = 41 - score[i]
  BY <1>4
<1>9. \A j \in 1..n : score[i] >= score[j]
  <2> SUFFICES ASSUME NEW j \in 1..n PROVE score[i] >= score[j]
    OBVIOUS
  <2>1. 41 - score[i] <= 41 - score[j]
    BY <1>4, <1>7, <1>8
  <2>2. score[i] \in Int /\ score[j] \in Int
    BY <1>3
  <2> QED BY <2>1, <2>2
<1>10. PICK S : S = {k \in DOMAIN score : \A j \in DOMAIN score : score[k] >= score[j]}
  OBVIOUS
<1>11. S \in SUBSET (0..n) /\ S # {} /\ S \subseteq 1..n
  <2>1. S \subseteq 1..n
    BY <1>3, <1>10
  <2>2. i \in S
    BY <1>3, <1>9, <1>10
  <2> QED BY <2>1, <2>2
<1>12. Max(S) \in S
  BY <1>11, GreatestOf
<1> QED BY <1>2, <1>10, <1>11, <1>12, <1>1 DEF BestRecord, Newest

\* A reference leads to a layer, or to none.
LEMMA Resolves ==
  ASSUME NEW t, IsTree(t), NEW ref
  PROVE  Resolve(t, ref) \in DOMAIN t.layers \cup {None}
<1>1. PICK n \in Nat : n = Len(t.layers) /\ DOMAIN t.layers = 1..n
  BY ListPlaces DEF IsTree
<1>2. \A S \in SUBSET (1..n) : Max({None} \cup S) \in DOMAIN t.layers \cup {None}
  <2> SUFFICES ASSUME NEW S \in SUBSET (1..n) PROVE Max({None} \cup S) \in {None} \cup S
    BY <1>1
  <2>1. {None} \cup S \in SUBSET (0..n) /\ {None} \cup S # {}
    BY DEF None
  <2> QED BY <2>1, GreatestOf
<1>3. LatestFinalLayer(t) \in DOMAIN t.layers \cup {None}
  BY <1>1, <1>2 DEF LatestFinalLayer
<1>4. \A role : LatestRoleRecord(t, role) \in DOMAIN t.layers \cup {None}
  BY <1>1, <1>2 DEF LatestRoleRecord
<1>5. t.layers # <<>> => LatestLayer(t) \in DOMAIN t.layers
  <2>1. t.layers # <<>> => Len(t.layers) >= 1
    BY ListTail DEF IsTree
  <2> QED BY <2>1, <1>1 DEF LatestLayer
<1>6. ASSUME NEW q, t.layers # <<>> PROVE BestRecord(t, q) \in DOMAIN t.layers
  BY <1>6, BestThere
<1>7. \A q : \A best \in DOMAIN t.layers : Accepted(t, q, best) \in DOMAIN t.layers \cup {None}
  BY DEF Accepted, IsTree
<1>8. \A q : ResolveQuery(t, q) \in DOMAIN t.layers \cup {None}
  BY <1>4, <1>6, <1>7 DEF ResolveQuery
<1>9. \A a \in DOMAIN t.aliases : t.aliases[a] \in DOMAIN t.layers
  BY DEF IsTree
<1> QED BY <1>3, <1>5, <1>8, <1>9 DEF Resolve, ResolvePhrase

\* The same layers, with some names moved to one of them.
Moved(t, u, x) ==
  /\ u.layers = t.layers /\ DOMAIN t.aliases \subseteq DOMAIN u.aliases
  /\ \A a \in DOMAIN u.aliases : u.aliases[a] = x \/ (a \in DOMAIN t.aliases /\ u.aliases[a] = t.aliases[a])

\* Names are moved to the layer that a layer's id leads to.
LEMMA Aliased ==
  ASSUME NEW t, TreeOK(t), NEW names, \A a \in names : IsDrawn(a, Len(t.layers)), NEW i \in DOMAIN t.layers,
         NEW u, u = SetAliases(t, names, LayerId(i))
  PROVE  TreeOK(u) /\ Moved(t, u, t.aliases[LayerId(i)])
<1>1. i \in Nat /\ LayerId(i) # <<>> /\ LayerId(i) \notin LatestRefs \cup FinalRefs
  <2>1. i \in Nat
    BY ListPlaces DEF TreeOK, IsTree
  <2> QED BY <2>1, Ids
<1>2. LayerId(i) \in DOMAIN t.aliases /\ t.aliases[LayerId(i)] \in DOMAIN t.layers
  BY DEF TreeOK, IsTree, CandidateAliases
<1>3. Resolve(t, LayerId(i)) = t.aliases[LayerId(i)]
  BY <1>1, <1>2 DEF Resolve
<1>4. PICK x : x = Resolve(t, LayerId(i))
  OBVIOUS
<1>5. PICK moved : moved = names \ {<<>>}
  OBVIOUS
<1>6. u = [layers  |-> t.layers,
           aliases |-> [a \in DOMAIN t.aliases \cup moved |-> IF a \in moved THEN x ELSE t.aliases[a]]]
  BY <1>4, <1>5 DEF SetAliases
<1>7. /\ u.layers = t.layers /\ DOMAIN u.aliases = DOMAIN t.aliases \cup moved
      /\ u = [layers |-> u.layers, aliases |-> [a \in DOMAIN u.aliases |-> u.aliases[a]]]
      /\ \A a \in DOMAIN u.aliases : u.aliases[a] = x \/ (a \in DOMAIN t.aliases /\ u.aliases[a] = t.aliases[a])
  <2>1. PICK aliases : aliases = [a \in DOMAIN t.aliases \cup moved |-> IF a \in moved THEN x ELSE t.aliases[a]]
    OBVIOUS
  <2>2. u = [layers |-> t.layers, aliases |-> aliases] /\ u.layers = t.layers /\ u.aliases = aliases
    BY <1>6, <2>1
  <2>3. DOMAIN aliases = DOMAIN t.aliases \cup moved /\ aliases = [a \in DOMAIN aliases |-> aliases[a]]
    BY <2>1
  <2>4. \A a \in DOMAIN aliases : aliases[a] = x \/ (a \in DOMAIN t.aliases /\ aliases[a] = t.aliases[a])
    BY <2>1
  <2> QED BY <2>2, <2>3, <2>4
<1>8. \A a \in DOMAIN u.aliases : u.aliases[a] \in DOMAIN u.layers
  BY <1>2, <1>3, <1>4, <1>7 DEF TreeOK, IsTree
<1>9. \A a \in DOMAIN u.aliases : IsDrawn(a, Len(u.layers))
  BY <1>5, <1>7 DEF TreeOK, IdsDrawn
<1>10. IsTree(u) /\ IdsDrawn(u)
  BY <1>7, <1>8, <1>9 DEF TreeOK, IsTree, IdsDrawn
<1>11. \A j \in DOMAIN u.layers : CandidateAliases(u.layers[j], j) \subseteq DOMAIN u.aliases
  BY <1>7 DEF TreeOK
<1>12. Moved(t, u, x)
  BY <1>7 DEF Moved
<1> QED BY <1>3, <1>4, <1>7, <1>10, <1>11, <1>12 DEF TreeOK

\* Slots are lists.
LEMMA SlotList ==
  ASSUME NEW p, ListValues(p.input), NEW s
  PROVE  IsList(Slot(p, s))
BY ListShort DEF ListValues, Slot

\* A repair moves names, if at all, to the layer that the id of its output leads to.
LEMMA RepairedAliases ==
  ASSUME NEW t, TreeOK(t), NEW task, RefsDrawn(task.filled, Len(t.layers)),
         DOMAIN RepairPatch(task) \cap ListSlots = {},
         NEW u, u = AliasRepairedLayers(t, task)
  PROVE  /\ TreeOK(u)
         /\ \/ u = t
            \/ \E slot \in DOMAIN RepairPatch(task) \cap LayerSlots :
               \E i \in DOMAIN t.layers :
                 i = Resolve(t, RepairPatch(task)[slot]) /\ Moved(t, u, t.aliases[LayerId(i)])
<1>1. IsTree(t) /\ IdsDrawn(t)
  BY DEF TreeOK
<1>2. \A ref : Resolve(t, ref) # None => Resolve(t, ref) \in DOMAIN t.layers
  BY <1>1, Resolves
<1>3. PICK slots : slots = DOMAIN RepairPatch(task) \cap LayerSlots
  OBVIOUS
<1>4. CASE slots = {}
  BY <1>3, <1>4 DEF AliasRepairedLayers
<1>5. CASE slots # {}
  <2>1. PICK slot : slot = CHOOSE s \in slots : TRUE
    OBVIOUS
  <2>2. slot \in slots /\ slot \in LayerSlots \ ListSlots
    BY <1>3, <1>5, <2>1
  <2>3. u = AliasSlot(t, task, slot)
    BY <1>3, <1>5, <2>1 DEF AliasRepairedLayers
  <2>4. PICK old : old = IF slot \in DOMAIN task.filled THEN task.filled[slot] ELSE <<>>
    OBVIOUS
  <2>5. PICK original : original = Resolve(t, old)
    OBVIOUS
  <2>6. PICK i : i = Resolve(t, RepairPatch(task)[slot])
    OBVIOUS
  <2>7. u = t \/ (old # <<>> /\ original # None /\ i # None
                   /\ u = SetAliases(t, {old, LayerId(original), t.layers[original].name}, LayerId(i)))
    BY <2>3, <2>4, <2>5, <2>6 DEF AliasSlot, AliasOld
  <2>8. CASE old # <<>> /\ original # None /\ i # None
             /\ u = SetAliases(t, {old, LayerId(original), t.layers[original].name}, LayerId(i))
    <3>1. PICK names : names = {old, LayerId(original), t.layers[original].name}
      OBVIOUS
    <3>2. original \in DOMAIN t.layers /\ i \in DOMAIN t.layers
      BY <1>2, <2>5, <2>6, <2>8
    <3>3. IsDrawn(old, Len(t.layers))
      BY <2>2, <2>4, <2>8 DEF RefsDrawn
    <3>4. Len(t.layers) \in Nat /\ original \in 0..Len(t.layers)
      BY <1>1, <3>2, ListPlaces DEF IsTree
    <3>5. IsDrawn(LayerId(original), Len(t.layers)) /\ IsDrawn(t.layers[original].name, Len(t.layers))
      BY <1>1, <3>2, <3>4, Drawn DEF IdsDrawn
    <3>6. \A a \in names : IsDrawn(a, Len(t.layers))
      BY <3>1, <3>3, <3>5
    <3>7. u = SetAliases(t, names, LayerId(i))
      BY <2>8, <3>1
    <3>8. TreeOK(u) /\ Moved(t, u, t.aliases[LayerId(i)])
      BY <3>2, <3>6, <3>7, Aliased
    <3> QED BY <1>3, <2>2, <2>6, <3>2, <3>8
  <2> QED BY <2>7, <2>8
<1> QED BY <1>4, <1>5

-----------------------------------------------------------------------------
(* What tools make of the tree                                             *)

\* Names made by a tool are names.
LEMMA Longer ==
  ASSUME NEW s, IsList(s), NEW word, word # "#"
  PROVE  IsName(s \o <<word>>) /\ s \o <<word>> # <<>>
<1>1. PICK w : w = <<word>>
  OBVIOUS
<1>2. IsList(w) /\ w # <<>> /\ Len(w) = 1 /\ w[1] = word
  BY <1>1, ListShort
<1>3. IsList(s \o w) /\ s \o w # <<>> /\ (s \o w)[Len(s \o w)] = w[Len(w)]
  BY <1>2, ListConcat, ConcatKeeps
<1> QED BY <1>1, <1>2, <1>3 DEF IsName

LEMMA CleanName ==
  ASSUME NEW s, IsList(s), "#" \notin ToSet(s)
  PROVE  IsName(s)
<1>1. s # <<>> => Len(s) \in DOMAIN s
  BY ListTail, ListPlaces
<1>2. s # <<>> => s[Len(s)] \in ToSet(s)
  BY <1>1 DEF ToSet
<1> QED BY <1>2 DEF IsName

LEMMA OutputNamed ==
  ASSUME NEW p, NEW t, FitSlots(p.input, t)
  PROVE  IsName(OutputName(p))
<1>1. \A s : IsList(Slot(p, s))
  BY SlotList DEF FitSlots
<1>2. Slot(p, "output_name") # <<>> => IsName(Slot(p, "output_name"))
  <2>1. Slot(p, "output_name") # <<>> => "output_name" \in DOMAIN p.input /\ Slot(p, "output_name") = p.input["output_name"]
    BY DEF Slot
  <2> QED BY <2>1 DEF FitSlots, RefsDrawn
<1>3. IsName(DefaultName(p))
  <2>1. PICK s : s = IF Slot(p, "input_ref") = <<>> THEN <<"result">> ELSE Slot(p, "input_ref")
    OBVIOUS
  <2>2. IsList(s)
    BY <1>1, <2>1, ListShort
  <2>3. Suffix(p.action) # "#"
    BY DEF Suffix
  <2>4. IsName(s \o <<Suffix(p.action)>>)
    BY <2>2, <2>3, Longer
  <2>5. IsName(<<"merged_layers">>)
    <3>1. IsList(<<"merged_layers">>) /\ Len(<<"merged_layers">>) = 1 /\ <<"merged_layers">>[1] # "#"
      BY ListShort
    <3> QED BY <3>1 DEF IsName
  <2> QED BY <2>1, <2>4, <2>5 DEF DefaultName
<1> QED BY <1>2, <1>3 DEF OutputName

\* A slot that goes into names holds no part of an id.
LEMMA CleanSlot ==
  ASSUME NEW p, NEW t, FitSlots(p.input, t), NEW s \in PartsOfNames
  PROVE  /\ IsList(Slot(p, s)) /\ "#" \notin ToSet(Slot(p, s))
         /\ \A other : other # "#" => CrsOf(p, s, other) # "#"
<1>1. IsList(Slot(p, s))
  BY SlotList DEF FitSlots
<1>2. "#" \notin ToSet(Slot(p, s))
  <2>1. ToSet(<<>>) = {}
    BY DEF ToSet
  <2> QED BY <2>1 DEF FitSlots, RefsDrawn, Slot
<1>3. Slot(p, s) # <<>> => Slot(p, s)[1] \in ToSet(Slot(p, s))
  <2>1. Slot(p, s) # <<>> => 1 \in DOMAIN Slot(p, s)
    BY <1>1, ListTail
  <2> QED BY <2>1 DEF ToSet
<1> QED BY <1>1, <1>2, <1>3 DEF CrsOf

LEMMA StemNamed ==
  ASSUME NEW path, IsList(path), "#" \notin ToSet(path)
  PROVE  IsName(Stem(path))
BY StemList, CleanName

\* Whole again, and grown.
Better(t, u) == TreeOK(u) /\ Grown(t, u)

LEMMA BatchTree ==
  ASSUME NEW t, TreeOK(t), NEW p, FitSlots(p.input, t), NEW ins, IsList(ins),
         \A k \in DOMAIN ins : ins[k] \in DOMAIN t.layers \cup {None},
         ~BatchRefused(t, ins)
  PROVE  Better(t, BatchLayers(p, t, ins))
<1> DEFINE name(l) == IF Slot(p, "output_name") # <<>> THEN Slot(p, "output_name") ELSE l.name \o Slot(p, "target_crs")
           one(i) == [Layer(name(t.layers[i]), "vector") EXCEPT
                        !.parents = <<i>>, !.act = p.action, !.role = "intermediate"]
<1>1. PICK n \in Nat : DOMAIN ins = 1..n
  BY ListPlaces
<1>2. PICK new : new = [k \in DOMAIN ins |-> one(ins[k])]
  OBVIOUS
<1>3. IsList(new)
  <2> HIDE DEF one
  <2>1. DOMAIN new = 1..n /\ new = [k \in 1..n |-> new[k]]
    BY <1>1, <1>2
  <2> QED BY <2>1, ListOf
<1>4. \A i : one(i).parents = <<i>> /\ one(i).name = name(t.layers[i]) /\ one(i).crs = ""
  <2> HIDE DEF name
  <2> QED BY DEF Layer
<1>5. \A k \in DOMAIN ins : ins[k] \in DOMAIN t.layers
  BY DEF BatchRefused, ToSet
<1>6. \A i \in DOMAIN t.layers : IsName(name(t.layers[i]))
  <2> SUFFICES ASSUME NEW i \in DOMAIN t.layers PROVE IsName(name(t.layers[i]))
    OBVIOUS
  <2>1. PICK l, s : l = t.layers[i] /\ s = Slot(p, "target_crs")
    OBVIOUS
  <2>2. IsName(l.name)
    BY <2>1 DEF TreeOK, IdsDrawn
  <2>3. IsList(s) /\ IsName(s)
    <3>1. "target_crs" \in PartsOfNames
      BY DEF PartsOfNames
    <3> QED BY <2>1, <3>1, CleanSlot, CleanName
  <2>4. IsName(l.name \o s)
    <3>1. IsList(l.name) /\ IsList(l.name \o s)
      BY <2>2, <2>3, ListConcat DEF IsName
    <3>2. CASE s = <<>>
      <4>1. l.name \o s = l.name
        <5>1. l.name \in Seq(ToSet(l.name))
          BY <3>1 DEF IsList
        <5> QED BY <3>2, <5>1
      <4> QED BY <2>2, <4>1
    <3>3. CASE s # <<>>
      <4>1. (l.name \o s)[Len(l.name \o s)] = s[Len(s)]
        BY <2>3, <3>1, <3>3, ConcatKeeps
      <4> QED BY <2>3, <3>1, <3>3, <4>1 DEF IsName
    <3> QED BY <3>2, <3>3
  <2>5. Slot(p, "output_name") # <<>> => IsName(Slot(p, "output_name"))
    <3>1. Slot(p, "output_name") # <<>> => OutputName(p) = Slot(p, "output_name")
      BY DEF OutputName
    <3> QED BY <3>1, OutputNamed
  <2> QED BY <2>1, <2>4, <2>5
<1>7. \A j \in DOMAIN new : NewLayer(new[j], t)
  <2> SUFFICES ASSUME NEW j \in DOMAIN new PROVE NewLayer(new[j], t)
    OBVIOUS
  <2>1. PICK i : i = ins[j]
    OBVIOUS
  <2>2. i \in DOMAIN t.layers /\ new[j] = one(i)
    BY <1>2, <1>5, <2>1
  <2>3. PICK l : l = one(i)
    OBVIOUS
  <2>4. l.parents = <<i>> /\ IsName(l.name) /\ l.crs = ""
    <3>1. l.parents = <<i>> /\ l.name = name(t.layers[i]) /\ l.crs = ""
      BY <1>4, <2>3
    <3> QED BY <1>6, <2>2, <3>1
  <2>5. \A k \in DOMAIN l.parents : l.parents[k] = i
    BY <2>4, ListShort
  <2> QED BY <2>2, <2>3, <2>4, <2>5 DEF NewLayer
<1>8. BatchLayers(p, t, ins) = AddLayers(t, new)
  BY <1>2 DEF BatchLayers
<1> QED BY <1>3, <1>7, <1>8, LayersAdded DEF Better

\* What is registered is one layer more.
LEMMA OneAdded ==
  ASSUME NEW t, TreeOK(t), NEW l, NewLayer(l, t), NEW u, u = AddLayer(t, l), NEW r, r = Len(t.layers) + 1
  PROVE  /\ TreeOK(u) /\ Grown(t, u)
         /\ r \in Nat \ {0} /\ DOMAIN u.layers = 1..r /\ Len(u.layers) = r /\ u.layers[r] = l
         /\ LayerId(r) \in DOMAIN u.aliases /\ u.aliases[LayerId(r)] = r
         /\ l.name \in DOMAIN u.aliases
         /\ \A a \in DOMAIN u.aliases : a \in DOMAIN t.aliases \/ u.aliases[a] = r
<1>1. IsList(<<l>>) /\ DOMAIN <<l>> = {1} /\ <<l>>[1] = l /\ Len(<<l>>) = 1
  BY ListShort
<1>2. u = AddLayers(t, <<l>>)
  BY DEF AddLayer
<1>3. PICK new : new = <<l>>
  OBVIOUS
<1>4. /\ TreeOK(u) /\ Grown(t, u)
      /\ Len(u.layers) = Len(t.layers) + Len(new)
      /\ \A j \in DOMAIN new : u.layers[Len(t.layers) + j] = new[j]
      /\ \A a \in DOMAIN u.aliases \ DOMAIN t.aliases : u.aliases[a] \in (Len(t.layers) + 1)..Len(u.layers)
  <2>1. IsList(new) /\ \A j \in DOMAIN new : NewLayer(new[j], t)
    BY <1>1, <1>3
  <2>2. u = AddLayers(t, new)
    BY <1>2, <1>3
  <2> QED BY <2>1, <2>2, LayersAdded
<1>5. Len(t.layers) \in Nat /\ Len(u.layers) = r /\ r \in Nat \ {0} /\ u.layers[r] = l
  <2>1. Len(t.layers) \in Nat
    BY ListPlaces DEF TreeOK, IsTree
  <2> QED BY <1>1, <1>3, <1>4, <2>1
<1>6. DOMAIN u.layers = 1..r
  BY <1>4, <1>5, ListPlaces DEF TreeOK, IsTree
<1>7. \A a \in DOMAIN u.aliases : a \in DOMAIN t.aliases \/ u.aliases[a] = r
  <2>1. \A x \in (Len(t.layers) + 1)..Len(u.layers) : x = r
    BY <1>5
  <2> QED BY <1>4, <2>1
<1>8. LayerId(r) \in DOMAIN u.aliases /\ l.name \in DOMAIN u.aliases
  <2>1. r \in DOMAIN u.layers
    BY <1>5, <1>6
  <2> QED BY <1>4, <1>5, <2>1 DEF TreeOK, CandidateAliases
<1>9. LayerId(r) \notin DOMAIN t.aliases
  <2>1. ~(r <= Len(t.layers)) /\ r # 0
    BY <1>5
  <2>2. ~IsDrawn(LayerId(r), Len(t.layers))
    BY <1>5, <2>1, Ids
  <2> QED BY <2>2 DEF TreeOK, IdsDrawn
<1> QED BY <1>4, <1>5, <1>6, <1>7, <1>8, <1>9

\* What an action reads is a list.
LEMMA InputsList ==
  ASSUME NEW p, ListValues(p.input), NEW t
  PROVE  IsList(InputRefs(p)) /\ IsList(InputLayers(p, t)) /\ DOMAIN InputLayers(p, t) = DOMAIN InputRefs(p)
<1>1. IsList(ToolContract(p.action).required)
  <2>1. \A a, b, c : IsList(<<a>>) /\ IsList(<<a, b>>) /\ IsList(<<a, b, c>>)
    <3> SUFFICES ASSUME NEW a, NEW b, NEW c PROVE IsList(<<a>>) /\ IsList(<<a, b>>) /\ IsList(<<a, b, c>>)
      OBVIOUS
    <3>1. <<a>> \in Seq({a, b, c}) /\ <<a, b>> \in Seq({a, b, c}) /\ <<a, b, c>> \in Seq({a, b, c})
      OBVIOUS
    <3> QED BY <3>1, ListIn
  <2> QED BY <2>1 DEF ToolContract, Contract
<1>2. PICK slots : slots = ToolContract(p.action).required
  OBVIOUS
<1>3. PICK n \in Nat : DOMAIN slots = 1..n
  BY <1>1, <1>2, ListPlaces
<1>4. PICK found : found = [k \in DOMAIN slots |-> IF slots[k] \in LayerSlots THEN Refs(p, slots[k]) ELSE <<>>]
  OBVIOUS
<1>5. IsList(found)
  <2>1. found = [k \in 1..n |-> found[k]]
    BY <1>3, <1>4
  <2> QED BY <2>1, ListOf
<1>6. \A s : IsList(Refs(p, s))
  <2>1. \A s : IsList(Slot(p, s)) /\ IsList(<<Slot(p, s)>>)
    BY SlotList, ListShort
  <2> QED BY <2>1 DEF Refs
<1>7. \A k \in DOMAIN found : IsList(found[k])
  BY <1>4, <1>6, ListShort
<1>8. IsList(FlattenSeq(found))
  BY <1>5, <1>7, Flattened
<1>9. InputRefs(p) = FlattenSeq(found)
  BY <1>2, <1>4 DEF InputRefs, RefsOf
<1>10. PICK refs : refs = InputRefs(p)
  OBVIOUS
<1>11. PICK m \in Nat : DOMAIN refs = 1..m
  BY <1>8, <1>9, <1>10, ListPlaces
<1>12. PICK ins : ins = [k \in DOMAIN refs |-> Resolve(t, refs[k])]
  OBVIOUS
<1>13. IsList(ins) /\ DOMAIN ins = DOMAIN refs
  <2>1. ins = [k \in 1..m |-> ins[k]]
    BY <1>11, <1>12
  <2> QED BY <1>12, <2>1, ListOf
<1> QED BY <1>8, <1>9, <1>10, <1>12, <1>13 DEF InputLayers, LayersOf

\* What an algorithm makes of layers is a layer made of them.
LEMMA OutputNew ==
  ASSUME NEW t, TreeOK(t), NEW p, FitSlots(p.input, t), NEW ins, IsList(ins), ins # <<>>,
         \A k \in DOMAIN ins : ins[k] \in DOMAIN t.layers
  PROVE  /\ NewLayer(OutputLayer(p, t, ins), t)
         /\ OutputLayer(p, t, ins).name = OutputName(p) /\ OutputLayer(p, t, ins).role = "intermediate"
         /\ OutputLayer(p, t, ins).act = p.action
         /\ p.action = "reproject_layer" =>
              OutputLayer(p, t, ins).crs = CrsOf(p, "target_crs", t.layers[ins[1]].crs)
<1>1. PICK first : first = t.layers[ins[1]]
  OBVIOUS
<1>2. PICK crs : crs = IF p.action \in {"reproject_layer", "reproject_raster"}
                       THEN CrsOf(p, "target_crs", first.crs) ELSE first.crs
  OBVIOUS
<1>3. PICK l : l = OutputLayer(p, t, ins)
  OBVIOUS
<1>4. /\ l.parents = ins /\ l.name = OutputName(p) /\ l.crs = crs
      /\ l.role = "intermediate" /\ l.act = p.action
  BY <1>1, <1>2, <1>3 DEF OutputLayer, Layer
<1>5. first.crs # "#"
  <2>1. 1 \in DOMAIN ins
    BY ListTail
  <2>2. ins[1] \in DOMAIN t.layers
    BY <2>1
  <2> QED BY <1>1, <2>2 DEF TreeOK, IdsDrawn
<1>6. crs # "#"
  <2>1. "target_crs" \in PartsOfNames
    BY DEF PartsOfNames
  <2> QED BY <1>2, <1>5, <2>1, CleanSlot
<1>7. IsName(l.name)
  BY <1>4, OutputNamed
<1> QED BY <1>1, <1>2, <1>3, <1>4, <1>6, <1>7 DEF NewLayer

LEMMA ExportNew ==
  ASSUME NEW t, TreeOK(t), NEW p, FitSlots(p.input, t), NEW i \in DOMAIN t.layers, NEW path,
         path = ExportPath(Slot(p, "output_path"), t.layers[i].kind)
  PROVE  NewLayer([t.layers[i] EXCEPT !.name = Stem(path), !.parents = <<i>>, !.act = "export_result",
                                      !.role = "final", !.dist = <<>>], t)
<1>1. PICK s : s = Slot(p, "output_path")
  OBVIOUS
<1>2. IsList(s) /\ "#" \notin ToSet(s)
  BY <1>1, CleanSlot DEF PartsOfNames
<1>3. PICK w : w = IF t.layers[i].kind = "raster" THEN ".tif" ELSE ".shp"
  OBVIOUS
<1>4. path = s \/ path = s \o <<w>>
  BY <1>1, <1>3 DEF ExportPath
<1>5. IsList(path) /\ "#" \notin ToSet(path)
  <2>1. PICK one : one = <<w>>
    OBVIOUS
  <2>2. IsList(one) /\ DOMAIN one = {1} /\ one[1] = w /\ w # "#"
    BY <1>3, <2>1, ListShort
  <2>3. IsList(s \o one) /\ \A k \in DOMAIN (s \o one) : (\E j \in DOMAIN s : (s \o one)[k] = s[j]) \/ (\E j \in DOMAIN one : (s \o one)[k] = one[j])
    <3>1. PICK all : all = s \o one
      OBVIOUS
    <3>2. IsList(all) /\ \A k \in DOMAIN all : (\E j \in DOMAIN s : all[k] = s[j]) \/ (\E j \in DOMAIN one : all[k] = one[j])
      <4>1. IsList(s) /\ IsList(one)
        BY <1>2, <2>2
      <4> QED BY <3>1, <4>1, ListConcat
    <3> QED BY <3>1, <3>2
  <2>4. "#" \notin ToSet(s \o one)
    BY <1>2, <2>2, <2>3 DEF ToSet
  <2> QED BY <1>2, <1>4, <2>1, <2>3, <2>4
<1>6. IsName(Stem(path))
  BY <1>5, StemNamed
<1>7. PICK old : old = t.layers[i]
  OBVIOUS
<1>8. PICK l : l = [old EXCEPT !.name = Stem(path), !.parents = <<i>>, !.act = "export_result",
                                          !.role = "final", !.dist = <<>>]
  OBVIOUS
<1>9. \A k \in DOMAIN l.parents : l.parents[k] = i
  BY <1>8
<1>10. old.crs # "#"
  BY <1>7 DEF TreeOK, IdsDrawn
<1>11. l.crs = old.crs /\ IsName(l.name)
  BY <1>6, <1>8
<1> QED BY <1>7, <1>8, <1>9, <1>10, <1>11 DEF NewLayer

\* A tool registers layers that come from layers.
LEMMA ExecuteTree ==
  ASSUME NEW t, TreeOK(t), NEW p, FitSlots(p.input, t), NEW F, NEW ins, IsList(ins),
         \A k \in DOMAIN ins : ins[k] \in DOMAIN t.layers \cup {None}
  PROVE  Better(t, Execute(p, t, F, ins).tree)
<1>1. Better(t, t)
  BY DEF Better, Grown
<1>2. \A ok, tt, out, path : Result(ok, tt, F, out, path).tree = tt
  BY DEF Result
<1>3. Better(t, Failed(t, F).tree)
  <2>1. Failed(t, F).tree = t
    BY DEF Failed, Result
  <2> QED BY <1>1, <2>1
<1>4. ASSUME NEW l, NewLayer(l, t), NEW path PROVE Better(t, Registered(t, F, l, path).tree)
  <2>1. Registered(t, F, l, path).tree = AddLayer(t, l)
    BY DEF Registered, Result
  <2> QED BY <1>4, <2>1, OneAdded DEF Better
<1>5. Better(t, LoadLayer(p, t, F).tree)
  <2>1. \A path \in DOMAIN Sources : NewLayer(Sources[path], t)
    BY SourcesAssumption, ListShort DEF NewLayer
  <2> QED BY <1>3, <1>4, <2>1 DEF LoadLayer
<1>6. \A i : Better(t, Summarize(t, F, i).tree)
  BY <1>1, <1>2 DEF Summarize
<1>7. \A ref : Resolve(t, ref) = None \/ Resolve(t, ref) \in DOMAIN t.layers
  BY Resolves DEF TreeOK
<1>8. ASSUME NEW i, i = None \/ i \in DOMAIN t.layers PROVE Better(t, Export(p, t, F, i).tree)
  <2>1. PICK path : path = ExportPath(Slot(p, "output_path"), t.layers[i].kind)
    OBVIOUS
  <2>2. PICK l : l = [t.layers[i] EXCEPT !.name = Stem(path), !.parents = <<i>>, !.act = "export_result",
                                          !.role = "final", !.dist = <<>>]
    OBVIOUS
  <2>3. Export(p, t, F, i) = Failed(t, F) \/ (i # None /\ Export(p, t, F, i) = Registered(t, F, l, path))
    BY <2>1, <2>2 DEF Export
  <2>4. i # None => NewLayer(l, t)
    BY <1>8, <2>1, <2>2, ExportNew
  <2> QED BY <1>3, <1>4, <2>3, <2>4
<1>9. Better(t, RunAlgorithm(p, t, F, ins).tree)
  <2>1. CASE ins = <<>> \/ None \in ToSet(ins)
    BY <1>3, <2>1 DEF RunAlgorithm
  <2>2. CASE ins # <<>> /\ None \notin ToSet(ins)
    <3>1. \A k \in DOMAIN ins : ins[k] \in DOMAIN t.layers
      BY <2>2 DEF ToSet
    <3>2. NewLayer(OutputLayer(p, t, ins), t)
      BY <2>2, <3>1, OutputNew
    <3> QED BY <1>4, <2>2, <3>2 DEF RunAlgorithm
  <2> QED BY <2>1, <2>2
<1>10. ASSUME NEW i, i = None \/ i \in DOMAIN t.layers PROVE Better(t, CsvToPoints(p, t, F, i).tree)
  <2>1. PICK crs : crs = CrsOf(p, "crs", "wgs84")
    OBVIOUS
  <2>2. PICK l : l = [Layer(OutputName(p), "vector") EXCEPT
                        !.crs = crs, !.geom = "point", !.fields = t.layers[i].fields,
                        !.parents = <<i>>, !.act = p.action, !.role = "intermediate"]
    OBVIOUS
  <2>3. CsvToPoints(p, t, F, i) = Failed(t, F) \/ (i # None /\ CsvToPoints(p, t, F, i) = Registered(t, F, l, WrittenPath(p)))
    BY <2>1, <2>2 DEF CsvToPoints
  <2>4. l.parents = <<i>> /\ l.crs = crs /\ l.name = OutputName(p)
    BY <2>2 DEF Layer
  <2>5. \A k \in DOMAIN l.parents : l.parents[k] = i
    BY <2>4
  <2>6. crs # "#"
    BY <2>1, CleanSlot DEF PartsOfNames
  <2>7. i # None => NewLayer(l, t)
    BY <1>10, <2>4, <2>5, <2>6, OutputNamed DEF NewLayer
  <2> QED BY <1>3, <1>4, <2>3, <2>7
<1>11. Better(t, BatchReproject(p, t, F, ins).tree)
  <2>1. BatchRefused(t, ins) => BatchReproject(p, t, F, ins) = Failed(t, F)
    BY DEF BatchReproject
  <2>2. ~BatchRefused(t, ins) => BatchReproject(p, t, F, ins).tree = BatchLayers(p, t, ins)
    BY DEF BatchReproject, Result
  <2> QED BY <1>3, <2>1, <2>2, BatchTree
<1> QED BY <1>3, <1>5, <1>6, <1>8, <1>9, <1>10, <1>11, <1>7 DEF Execute, LayerOf

\* The layers an action reads are in the tree.
LEMMA InputsThere ==
  ASSUME NEW t, TreeOK(t), NEW p
  PROVE  \A k \in DOMAIN InputLayers(p, t) : /\ InputLayers(p, t)[k] \in DOMAIN t.layers \cup {None}
                                             /\ InputLayers(p, t)[k] = Resolve(t, InputRefs(p)[k])
<1>1. \A ref : Resolve(t, ref) \in DOMAIN t.layers \cup {None}
  BY Resolves DEF TreeOK
<1> QED BY <1>1 DEF InputLayers, LayersOf

\* Whatever a tool comes to, the tree it leaves is whole and has lost nothing.
LEMMA OutcomeTree ==
  ASSUME NEW t, TreeOK(t), NEW p, FitSlots(p.input, t), NEW F, NEW res \in Outcomes(p, t, F)
  PROVE  Better(t, res.tree)
<1>1. PICK ins : ins = InputLayers(p, t)
  OBVIOUS
<1>2. IsList(ins) /\ \A k \in DOMAIN ins : ins[k] \in DOMAIN t.layers \cup {None}
  BY <1>1, InputsList, InputsThere DEF FitSlots
<1>3. Better(t, Execute(p, t, F, ins).tree)
  BY <1>2, ExecuteTree
<1>4. \A tt : Failed(tt, F).tree = tt
  BY DEF Failed, Result
<1>5. Better(t, t)
  BY DEF Better, Grown
<1>6. ASSUME ~BatchRefused(t, ins), NEW k \in 0..(Len(ins) - 1)
      PROVE  Better(t, BatchLayers(p, t, SubSeq(ins, 1, k)))
  <2>1. PICK n \in Nat : n = Len(ins) /\ DOMAIN ins = 1..n
    BY <1>2, ListPlaces
  <2>2. PICK some : some = SubSeq(ins, 1, k)
    OBVIOUS
  <2>3. ins \in Seq(ToSet(ins))
    BY <1>2 DEF IsList
  <2>4. some \in Seq(ToSet(ins)) /\ Len(some) = k /\ \A j \in 1..k : some[j] = ins[j]
    BY <2>1, <2>2, <2>3
  <2>5. IsList(some) /\ DOMAIN some = 1..k
    BY <2>4, ListIn
  <2>6. \A j \in DOMAIN some : j \in DOMAIN ins /\ some[j] = ins[j]
    BY <2>1, <2>4, <2>5
  <2>7. ~BatchRefused(t, some)
    BY <1>6, <2>6 DEF BatchRefused, ToSet
  <2>8. \A j \in DOMAIN some : some[j] \in DOMAIN t.layers \cup {None}
    BY <1>2, <2>6
  <2> QED BY <2>2, <2>5, <2>7, <2>8, BatchTree
<1>7. \A r \in Interrupted(p, t, F, ins) : Better(t, r.tree)
  BY <1>4, <1>5, <1>6 DEF Interrupted
<1> QED BY <1>1, <1>3, <1>7 DEF Outcomes, OutcomesOn

-----------------------------------------------------------------------------
(* What is given: slots, choices and patches name no layer that is to come *)

\* A tree that has grown has no fewer layers, and what fitted still fits.
LEMMA FitGrows ==
  ASSUME NEW t, TreeOK(t), NEW u, TreeOK(u), Grown(t, u)
  PROVE  /\ Len(t.layers) \in Nat /\ Len(u.layers) \in Nat /\ Len(t.layers) <= Len(u.layers)
         /\ \A slots : FitSlots(slots, t) => FitSlots(slots, u)
         /\ \A c : FitChoice(c, t) => FitChoice(c, u)
<1>1. PICK m \in Nat, n \in Nat : m = Len(t.layers) /\ DOMAIN t.layers = 1..m /\ n = Len(u.layers) /\ DOMAIN u.layers = 1..n
  BY ListPlaces DEF TreeOK, IsTree
<1>2. m <= n
  <2>1. m # 0 => m \in 1..n
    BY <1>1 DEF Grown
  <2> QED BY <2>1
<1>3. \A ref : IsDrawn(ref, m) => IsDrawn(ref, n)
  <2>1. m \in 0..n
    BY <1>2
  <2> QED BY <2>1, Drawn
<1>4. \A slots : RefsDrawn(slots, m) => RefsDrawn(slots, n)
  BY <1>3 DEF RefsDrawn
<1> QED BY <1>1, <1>2, <1>4 DEF FitSlots, FitChoice

\* So does what fitted a tree of no more layers.
LEMMA FitLonger ==
  ASSUME NEW t, NEW u, Len(t.layers) \in Nat, Len(u.layers) \in Nat, Len(t.layers) <= Len(u.layers)
  PROVE  /\ \A slots : FitSlots(slots, t) => FitSlots(slots, u)
         /\ \A c : FitChoice(c, t) => FitChoice(c, u)
<1>1. PICK m \in Nat, n \in Nat : m = Len(t.layers) /\ n = Len(u.layers) /\ m \in 0..n
  OBVIOUS
<1>2. \A ref : IsDrawn(ref, m) => IsDrawn(ref, n)
  BY <1>1, Drawn
<1>3. \A slots : RefsDrawn(slots, m) => RefsDrawn(slots, n)
  BY <1>2 DEF RefsDrawn
<1> QED BY <1>1, <1>3 DEF FitSlots, FitChoice

\* Slots that fit still fit when some are left out, or set to what fits.
LEMMA SlotsFit ==
  ASSUME NEW t
  PROVE  /\ FitSlots(<<>>, t)
         /\ \A p, missing : FitSlots(p.input, t) => FitSlots(FilledSlots(p, missing), t)
         /\ \A slots, patch : FitSlots(slots, t) /\ FitSlots(patch, t) => FitSlots(Merged(slots, patch), t)
         /\ \A task, patch : FitSlots(patch, t) => FitSlots(ValidatedPatch(task, patch), t)
         /\ \A c : FitChoice(c, t) => FitSlots([s \in {c.slot} |-> c.value], t)
<1>1. FitSlots(<<>>, t)
  BY DEF FitSlots, ListValues, RefsDrawn
<1>2. ASSUME NEW p, NEW missing, FitSlots(p.input, t) PROVE FitSlots(FilledSlots(p, missing), t)
  <2>1. PICK filled : filled = FilledSlots(p, missing)
    OBVIOUS
  <2>2. DOMAIN filled \subseteq DOMAIN p.input /\ \A s \in DOMAIN filled : filled[s] = p.input[s]
    BY <2>1 DEF FilledSlots
  <2> QED BY <1>2, <2>1, <2>2 DEF FitSlots, ListValues, RefsDrawn
<1>3. ASSUME NEW slots, NEW patch, FitSlots(slots, t), FitSlots(patch, t) PROVE FitSlots(Merged(slots, patch), t)
  <2>1. PICK both : both = Merged(slots, patch)
    OBVIOUS
  <2>2. \A s \in DOMAIN both : (s \in DOMAIN patch /\ both[s] = patch[s]) \/ (s \in DOMAIN slots /\ both[s] = slots[s])
    BY <2>1 DEF Merged
  <2> QED BY <1>3, <2>1, <2>2 DEF FitSlots, ListValues, RefsDrawn
<1>4. ASSUME NEW task, NEW patch, FitSlots(patch, t) PROVE FitSlots(ValidatedPatch(task, patch), t)
  <2>1. PICK kept : kept = [s \in DOMAIN patch \cap task.schema.may |-> patch[s]]
    OBVIOUS
  <2>2. DOMAIN kept \subseteq DOMAIN patch /\ \A s \in DOMAIN kept : kept[s] = patch[s]
    BY <2>1
  <2>3. FitSlots(kept, t)
    BY <1>4, <2>2 DEF FitSlots, ListValues, RefsDrawn
  <2> QED BY <1>1, <1>4, <2>1, <2>3 DEF ValidatedPatch
<1>5. ASSUME NEW c, FitChoice(c, t) PROVE FitSlots([s \in {c.slot} |-> c.value], t)
  BY <1>5 DEF FitChoice, FitSlots, ListValues
<1> QED BY <1>1, <1>2, <1>3, <1>4, <1>5

\* The plan an answer makes of a task fits, with the path that is put together for it.
LEMMA PatchedFits ==
  ASSUME NEW t, NEW task, NEW patch, FitSlots(task.filled, t), FitSlots(patch, t)
  PROVE  FitSlots(PlanFromSlotPatch(task, patch).input, t)
<1>1. PICK slots : slots = Merged(task.filled, patch)
  OBVIOUS
<1>2. FitSlots(slots, t)
  BY <1>1, SlotsFit
<1>3. PICK path : path = ComposeExportPath(slots)
  OBVIOUS
<1>4. IsList(path) /\ "#" \notin ToSet(path)
  BY <1>2, <1>3, ComposedPath DEF FitSlots, RefsDrawn
<1>5. FitSlots([output_path |-> path], t)
  BY <1>4 DEF FitSlots, ListValues, RefsDrawn, LayerSlots
<1>6. FitSlots(Merged(slots, [output_path |-> path]), t)
  BY <1>2, <1>5, SlotsFit
<1>7. PICK rest : rest = [s \in DOMAIN patch \ {"output_path"} |-> patch[s]]
  OBVIOUS
<1>8. FitSlots(Merged(task.filled, rest), t)
  <2>1. DOMAIN rest \subseteq DOMAIN patch /\ \A s \in DOMAIN rest : rest[s] = patch[s]
    BY <1>7
  <2>2. FitSlots(rest, t)
    BY <2>1 DEF FitSlots, ListValues, RefsDrawn
  <2> QED BY <2>2, SlotsFit
<1>9. \A action, input : Plan(action, input).input = input
  BY DEF Plan
<1> QED BY <1>1, <1>2, <1>3, <1>6, <1>7, <1>8, <1>9 DEF PlanFromSlotPatch

\* What is offered with a question is an id of a layer there is, where it is a reference.
LEMMA ChoicesFit ==
  ASSUME NEW t, TreeOK(t), NEW p, NEW issue, NEW missing, NEW risk,
         NEW c \in PendingChoices(p, issue, missing, risk, t)
  PROVE  FitChoice(c, t)
<1>1. PICK n \in Nat : n = Len(t.layers) /\ DOMAIN t.layers = 1..n
  BY ListPlaces DEF TreeOK, IsTree
<1>2. IsList(t.layers) /\ IsList(c.value)
  BY ChoicesList DEF TreeOK, IsTree
<1> DEFINE Fine(slot, v) ==
             /\ slot \in PartsOfNames => "#" \notin ToSet(v)
             /\ slot # "output_name"
             /\ slot \in LayerSlots \ ListSlots => IsDrawn(v, n)
<1>3. Fine(c.slot, c.value) => FitChoice(c, t)
  <2>1. PICK one : one = [s \in {c.slot} |-> c.value]
    OBVIOUS
  <2>2. DOMAIN one = {c.slot} /\ one[c.slot] = c.value
    BY <2>1
  <2>3. Fine(c.slot, c.value) => RefsDrawn(one, n)
    BY <2>2 DEF RefsDrawn
  <2> QED BY <1>1, <1>2, <2>1, <2>3 DEF FitChoice
<1>4. \A i \in DOMAIN t.layers : IsDrawn(LayerId(i), n)
  <2>1. \A i \in DOMAIN t.layers : i \in 0..n
    BY <1>1
  <2> QED BY <2>1, Drawn
<1>5. \A slot, v : Choice(slot, v).slot = slot /\ Choice(slot, v).value = v
  BY DEF Choice
<1>6. \A slot \in LayerSlots : slot \notin PartsOfNames /\ slot # "output_name"
  BY DEF LayerSlots, PartsOfNames
<1>7. \A slot \in FieldSlots \cup {"distance", "predicate", "operator"} \cup ListSlots : \A v : Fine(slot, v)
  BY DEF FieldSlots, LayerSlots, ListSlots, PartsOfNames
<1>8. \A l \in SuggestedLayers(risk, t) : \E i \in DOMAIN t.layers : l = LayerId(i)
  BY DEF SuggestedLayers, LayerChoices
<1>9. \A slot : \A l \in LayerSlotChoices(slot, p, t) : \E i \in DOMAIN t.layers : l = LayerId(i)
  BY DEF LayerSlotChoices
<1>10. ASSUME NEW l \in TargetCrsChoices(p, t) PROVE "#" \notin ToSet(l)
  <2>1. \A i \in AliasedLayer(t, Slot(p, "input_ref")) : i \in DOMAIN t.layers
    BY DEF AliasedLayer, TreeOK, IsTree
  <2>2. \A crs \in {t.layers[i].crs : i \in AliasedLayer(t, Slot(p, "input_ref"))} \cup {RecommendedCrs} : crs # "#"
    BY <2>1 DEF TreeOK, IdsDrawn, RecommendedCrs
  <2>3. PICK crs : crs # "#" /\ l = <<crs>>
    BY <2>2 DEF TargetCrsChoices
  <2>4. DOMAIN l = {1} /\ l[1] = crs
    BY <2>3, ListShort
  <2> QED BY <2>3, <2>4 DEF ToSet
<1> HIDE DEF Fine
<1>11. \A slot \in LayerSlots \ ListSlots : \A i \in DOMAIN t.layers : Fine(slot, LayerId(i))
  BY <1>4, <1>6 DEF Fine
<1>12. \A l \in TargetCrsChoices(p, t) : Fine("target_crs", l)
  BY <1>10 DEF Fine, LayerSlots
<1> DEFINE slot == Head(missing)
           values == CASE slot = "distance"   -> {<<"100">>, <<"500">>}
                       [] slot = "target_crs" -> TargetCrsChoices(p, t)
                       [] slot = "predicate"  -> {<<x>> : x \in PredicateChoices(p)}
                       [] slot = "operator"   -> {<<x>> : x \in Comparisons}
                       [] slot \in {"field", "x_field", "y_field"} -> FieldSlotChoices(p, issue, t)
                       [] slot \in ListSlots  -> {<<>> : l \in LayerSlotChoices(slot, p, t)}
                       [] slot \in LayerSlots -> LayerSlotChoices(slot, p, t)
                       [] OTHER               -> {}
<1>13. \A v \in values : Fine(slot, v)
  <2> HIDE DEF slot
  <2> SUFFICES ASSUME NEW v \in values PROVE Fine(slot, v)
    OBVIOUS
  <2>1. CASE slot \in {"distance", "predicate", "operator", "field", "x_field", "y_field"} \cup ListSlots
    BY <2>1, <1>7 DEF FieldSlots
  <2>2. CASE slot = "target_crs"
    BY <2>2, <1>12 DEF ListSlots, LayerSlots
  <2>3. CASE slot \in LayerSlots \ ListSlots
    <3>1. slot \notin {"distance", "predicate", "operator", "field", "x_field", "y_field", "target_crs"} \cup ListSlots
      BY <2>3 DEF LayerSlots
    <3>2. v \in LayerSlotChoices(slot, p, t)
      BY <2>3, <3>1
    <3> QED BY <3>2, <2>3, <1>9, <1>11
  <2>4. CASE slot \notin {"distance", "target_crs", "predicate", "operator", "field", "x_field", "y_field"} \cup ListSlots \cup LayerSlots
    BY <2>4
  <2> QED BY <2>1, <2>2, <2>3, <2>4
<1>14. GeneratedChoices(p, issue, missing, t) = IF missing = <<>> THEN {} ELSE {Choice(slot, v) : v \in values}
  BY DEF GeneratedChoices
<1> HIDE DEF values
<1>15. c \in GeneratedChoices(p, issue, missing, t) => Fine(c.slot, c.value)
  BY <1>5, <1>13, <1>14
<1>16. \A fits : \A s \in ChoiceSlots(missing, fits) : s \in fits
  BY DEF ChoiceSlots
<1>17. CASE HasChoices(risk, t)
  <2>1. \/ \E s \in ChoiceSlots(missing, FieldSlots), f \in SuggestedFields(risk, t) : c = Choice(s, <<f>>)
        \/ \E s \in ChoiceSlots(missing, LayerSlots), l \in SuggestedLayers(risk, t) : c = Choice(s, l)
    BY <1>17 DEF PendingChoices
  <2>2. ASSUME NEW s \in ChoiceSlots(missing, FieldSlots), NEW f \in SuggestedFields(risk, t), c = Choice(s, <<f>>)
        PROVE  FitChoice(c, t)
    <3>1. s \in FieldSlots
      BY <1>16
    <3>2. c.slot \in FieldSlots
      BY <2>2, <3>1, <1>5
    <3> QED BY <3>2, <1>3, <1>7
  <2>3. ASSUME NEW s \in ChoiceSlots(missing, LayerSlots), NEW l \in SuggestedLayers(risk, t), c = Choice(s, l)
        PROVE  FitChoice(c, t)
    <3>1. s \in LayerSlots
      BY <1>16
    <3>2. \E i \in DOMAIN t.layers : l = LayerId(i)
      BY <1>8
    <3>3. Fine(s, l)
      BY <3>1, <3>2, <1>7, <1>11
    <3>4. c.slot = s /\ c.value = l
      BY <2>3, <1>5
    <3> QED BY <3>3, <3>4, <1>3
  <2> QED BY <2>1, <2>2, <2>3
<1>18. CASE ~HasChoices(risk, t)
  BY <1>3, <1>15, <1>18 DEF PendingChoices
<1> QED BY <1>17, <1>18

-----------------------------------------------------------------------------
(* What a repair is for: a buffer whose input is in degrees, a pair of      *)
(* layers of two CRS, or a file that exists.                                *)

\* A name given to the output of a repair.
Given(name) == IsName(name) /\ name # <<>> /\ name \notin LatestRefs \cup FinalRefs

ForDistance(code, p, t, o, crs) ==
  /\ code = "distance_requires_projected_crs" /\ p.action = "buffer_layer"
  /\ o = Resolve(t, Slot(p, "input_ref")) /\ t.layers[o].crs \in GeographicCrs
  /\ crs = CrsOf(p, "target_crs", RecommendedCrs)

ForPair(code, p, t, o, crs) ==
  /\ code = "overlay_crs_mismatch" /\ OverlaySlot(p.action) # ""
  /\ o = Resolve(t, Slot(p, OverlaySlot(p.action)))
  /\ \E i \in DOMAIN t.layers :
       i = Resolve(t, Slot(p, PairInput(p.action))) /\ crs = t.layers[i].crs /\ crs # t.layers[o].crs

ForFile(code, run, patch, p) ==
  code = "output_exists" /\ run = <<>> /\ patch = [overwrite |-> <<"yes">>] /\ Slot(p, "overwrite") = <<>>

Setting(slot, name) == [s \in {slot} |-> name]

ForCrs(code, run, patch, p, t) ==
  \E o, crs, name :
    /\ o \in DOMAIN t.layers
    /\ Given(name) /\ run = <<Reproject(o, crs, name)>>
    /\ \/ ForDistance(code, p, t, o, crs) /\ patch = [input_ref |-> name, target_crs |-> <<>>]
       \/ ForPair(code, p, t, o, crs) /\ patch = Setting(OverlaySlot(p.action), name)

Wanted(code, run, patch, p, t) == ForFile(code, run, patch, p) \/ ForCrs(code, run, patch, p, t)

WantedFor(x, p, t) == Wanted(x.code, x.steps, x.patch, p, t)

Shaped(list, p, t) == IsList(list) /\ \A k \in DOMAIN list : Plain(list[k]) \/ WantedFor(list[k], p, t)

LEMMA PlainShaped ==
  ASSUME NEW p, NEW t
  PROVE  /\ \A list : AllPlain(list) => Shaped(list, p, t)
         /\ \A list : Objects(list) => Shaped(list, p, t)
         /\ \A x : WantedFor(x, p, t) => Shaped(<<x>>, p, t)
         /\ Shaped(<<>>, p, t)
<1>1. \A list : AllPlain(list) => Shaped(list, p, t)
  BY DEF AllPlain, Shaped
<1>2. \A list : Objects(list) => AllPlain(list)
  BY PlainLists
<1>3. \A x : IsList(<<x>>) /\ DOMAIN <<x>> = {1} /\ <<x>>[1] = x
  BY ListShort
<1>4. \A x : WantedFor(x, p, t) => Shaped(<<x>>, p, t)
  BY <1>3 DEF Shaped
<1>5. AllPlain(<<>>)
  BY PlainLists
<1> QED BY <1>1, <1>2, <1>4, <1>5

\* A name that ends like the names of repairs is no other reference.
LEMMA NewName ==
  ASSUME NEW s, IsList(s), NEW word \in {"projected", "crs"}
  PROVE  Given(s \o <<word>>)
<1>1. PICK one : one = <<word>>
  OBVIOUS
<1>2. IsList(one) /\ one # <<>> /\ Len(one) = 1 /\ one[1] = word
  <2>1. IsList(one) /\ DOMAIN one = {1} /\ one[1] = word
    BY <1>1, ListShort
  <2>2. Len(one) = 1
    BY <1>1
  <2> QED BY <2>1, <2>2, ListShort
<1>3. PICK name : name = s \o one
  OBVIOUS
<1>4. name # <<>> /\ name[Len(name)] = word
  BY <1>2, <1>3, ConcatKeeps
<1>5. \A ref \in LatestRefs \cup FinalRefs : ref[Len(ref)] \notin {"projected", "crs"}
  BY DEF LatestRefs, FinalRefs
<1>6. IsName(name)
  <2>1. word # "#"
    OBVIOUS
  <2> QED BY <2>1, <1>1, <1>3, Longer
<1> QED BY <1>1, <1>3, <1>4, <1>5, <1>6 DEF Given

LEMMA RepairNames ==
  ASSUME NEW l, IsName(l.name), NEW m, IsName(m.name)
  PROVE  Given(ProjectedName(l)) /\ Given(AlignedName(l, m))
<1>1. IsList(l.name) /\ IsList(m.name)
  BY DEF IsName
<1>2. Given(ProjectedName(l))
  BY <1>1, NewName DEF ProjectedName
<1>3. PICK to : to = <<"to">>
  OBVIOUS
<1>4. IsList(to)
  BY <1>3, ListShort
<1>5. PICK a : a = l.name \o to
  OBVIOUS
<1>6. IsList(a)
  BY <1>1, <1>4, <1>5, ListConcat
<1>7. PICK b : b = a \o m.name
  OBVIOUS
<1>8. IsList(b)
  BY <1>1, <1>6, <1>7, ListConcat
<1>9. Given(b \o <<"crs">>)
  BY <1>8, NewName
<1> QED BY <1>2, <1>3, <1>5, <1>7, <1>9 DEF AlignedName

LEMMA OverwriteShaped ==
  ASSUME NEW p, NEW t, NEW F
  PROVE  Shaped(OutputOverwrite(p, F), p, t)
<1> DEFINE a == Confirmable(Warning("output_exists", OutputPath(p)), <<>>, [overwrite |-> <<"yes">>])
<1>1. a.code = "output_exists" /\ a.steps = <<>> /\ a.patch = [overwrite |-> <<"yes">>]
  BY DEF Confirmable, Warning, Issue
<1>2. OutputOverwrite(p, F) = <<>> \/ (Slot(p, "overwrite") = <<>> /\ OutputOverwrite(p, F) = <<a>>)
  BY DEF OutputOverwrite, One
<1> HIDE DEF a
<1>3. Slot(p, "overwrite") = <<>> => WantedFor(a, p, t)
  BY <1>1 DEF WantedFor, Wanted, ForFile
<1> QED BY <1>2, <1>3, PlainShaped

LEMMA BufferShaped ==
  ASSUME NEW p, p.action = "buffer_layer", NEW t, TreeOK(t)
  PROVE  Shaped(BufferCrs(p, t, LayerOf(p, "input_ref", t)), p, t)
<1>1. PICK o : o = Resolve(t, Slot(p, "input_ref"))
  OBVIOUS
<1>2. LayerOf(p, "input_ref", t) = o
  BY <1>1 DEF LayerOf
<1>3. PICK name : name = ProjectedName(t.layers[o])
  OBVIOUS
<1>4. PICK crs : crs = CrsOf(p, "target_crs", RecommendedCrs)
  OBVIOUS
<1> DEFINE a == Confirmable(AskUser("distance_requires_projected_crs", t.layers[o].name),
                            <<Reproject(o, crs, name)>>, [input_ref |-> name, target_crs |-> <<>>])
<1>5. /\ a.code = "distance_requires_projected_crs" /\ a.steps = <<Reproject(o, crs, name)>>
      /\ a.patch = [input_ref |-> name, target_crs |-> <<>>]
  <2> HIDE DEF Reproject
  <2> QED BY DEF Confirmable, AskUser, Issue
<1> HIDE DEF a
<1>6. ASSUME o # None, t.layers[o].crs \in GeographicCrs PROVE WantedFor(a, p, t)
  <2>1. o \in DOMAIN t.layers
    BY <1>1, <1>6, Resolves DEF TreeOK
  <2>2. Given(name)
    BY <1>3, <2>1, RepairNames DEF TreeOK, IdsDrawn
  <2>3. ForDistance(a.code, p, t, o, crs)
    BY <1>1, <1>4, <1>5, <1>6 DEF ForDistance
  <2> QED BY <1>5, <2>1, <2>2, <2>3 DEF WantedFor, Wanted, ForCrs
<1>7. \A x : Shaped(<<UnknownCrs(x)>>, p, t) /\ Shaped(<<UnknownLayer(x)>>, p, t) /\ Shaped(<<>>, p, t)
  BY PlainShaped, PlainLists, PlainIssues DEF RepairCodes
<1>8. CASE o # None /\ t.layers[o].crs \in GeographicCrs
  <2>1. t.layers[o].crs # ""
    BY <1>8 DEF GeographicCrs
  <2>2. BufferCrs(p, t, o) = <<a>>
    BY <2>1, <1>3, <1>4, <1>8 DEF BufferCrs, a
  <2> QED BY <1>2, <1>6, <1>8, <2>2, PlainShaped
<1>9. CASE ~(o # None /\ t.layers[o].crs \in GeographicCrs)
  <2>1. o = None => BufferCrs(p, t, o) = <<UnknownLayer(Slot(p, "input_ref"))>>
    BY DEF BufferCrs
  <2>2. o # None /\ t.layers[o].crs = "" => BufferCrs(p, t, o) = <<UnknownCrs(<<t.layers[o]>>)>>
    BY <1>9 DEF BufferCrs
  <2>3. o # None /\ t.layers[o].crs # "" => BufferCrs(p, t, o) = <<>>
    BY <1>9 DEF BufferCrs
  <2> QED BY <1>2, <1>7, <2>1, <2>2, <2>3
<1> QED BY <1>8, <1>9

LEMMA OverlayShaped ==
  ASSUME NEW p, OverlaySlot(p.action) # "", NEW t, TreeOK(t)
  PROVE  Shaped(OverlayPair(p, t, PairInput(p.action), OverlaySlot(p.action)), p, t)
<1>1. PICK over, in : over = OverlaySlot(p.action) /\ in = PairInput(p.action)
  OBVIOUS
<1>2. PICK i, o : i = Resolve(t, Slot(p, in)) /\ o = Resolve(t, Slot(p, over))
  OBVIOUS
<1>3. PICK name, crs : name = AlignedName(t.layers[o], t.layers[i]) /\ crs = t.layers[i].crs
  OBVIOUS
<1> DEFINE a == Confirmable(Warning("overlay_crs_mismatch", t.layers[o].name),
                            <<Reproject(o, crs, name)>>, [s \in {over} |-> name])
<1>4. /\ a.code = "overlay_crs_mismatch" /\ a.steps = <<Reproject(o, crs, name)>> /\ a.patch = [s \in {over} |-> name]
  <2> HIDE DEF Reproject
  <2> QED BY DEF Confirmable, Warning, Issue
<1> HIDE DEF a
<1>5. ASSUME i # None, o # None, t.layers[i].crs # t.layers[o].crs PROVE WantedFor(a, p, t)
  <2>1. o \in DOMAIN t.layers /\ i \in DOMAIN t.layers
    BY <1>2, <1>5, Resolves DEF TreeOK
  <2>2. Given(name)
    BY <1>3, <2>1, RepairNames DEF TreeOK, IdsDrawn
  <2>3. ForPair(a.code, p, t, o, crs)
    BY <1>1, <1>2, <1>3, <1>4, <1>5, <2>1 DEF ForPair
  <2>4. a.patch = Setting(OverlaySlot(p.action), name)
    BY <1>1, <1>4 DEF Setting
  <2> QED BY <1>4, <2>1, <2>2, <2>3, <2>4 DEF WantedFor, Wanted, ForCrs
<1>6. \A x : Shaped(<<UnknownCrs(x)>>, p, t) /\ Shaped(<<UnknownLayer(x)>>, p, t) /\ Shaped(<<>>, p, t)
  BY PlainShaped, PlainLists, PlainIssues DEF RepairCodes
<1>7. PICK pair : pair = OverlayPair(p, t, in, over)
  OBVIOUS
<1>8. \/ \E x : pair \in {<<UnknownCrs(x)>>, <<UnknownLayer(x)>>, <<>>}
      \/ i # None /\ o # None /\ t.layers[i].crs # t.layers[o].crs /\ pair = <<a>>
  BY <1>2, <1>3, <1>7 DEF OverlayPair, AlignedPair, LayerOf, HasLayer, One, a
<1> QED BY <1>1, <1>5, <1>6, <1>7, <1>8, PlainShaped

LEMMA ActionShaped ==
  ASSUME NEW p, ListValues(p.input), NEW t, TreeOK(t)
  PROVE  Shaped(ActionRules(p, t, LayerOf(p, "input_ref", t)), p, t)
<1>1. PICK i : i = LayerOf(p, "input_ref", t)
  OBVIOUS
<1>2. \A list : Objects(list) => Shaped(list, p, t)
  BY PlainShaped
<1> DEFINE over == OverlaySlot(p.action)
           pair == OrIssues(OverlayPair(p, t, PairInput(p.action), over), PairRules(p, t, i, LayerOf(p, over, t)))
<1>3. over # "" => Shaped(pair, p, t)
  <2>1. over # "" => Shaped(OverlayPair(p, t, PairInput(p.action), over), p, t)
    BY OverlayShaped
  <2>2. \A o : Objects(PredicateGeometry(p, t, i, o))
    BY OneObjects DEF RepairCodes, PredicateGeometry
  <2>3. \A o : Objects(JoinIssues(p, t, i, o))
    BY <2>2, FieldsObject, OneObjects, OrObjects DEF JoinIssues
  <2>4. \A o : Objects(PairRules(p, t, i, o))
    BY <2>2, <2>3, OneObjects DEF PairRules
  <2> QED BY <2>1, <2>4, <1>2 DEF OrIssues
<1>4. p.action = "buffer_layer" => Shaped(BufferCrs(p, t, i), p, t)
  BY <1>1, BufferShaped
<1>5. \A fields : Objects(FieldsExist(p, t, i, fields))
  BY FieldsObject, OneObjects DEF FieldsExist
<1>6. Objects(SummarizeExists(p, t))
  BY OneObjects DEF SummarizeExists
<1>7. Objects(CsvCoordinates(p, t, i))
  BY FieldsObject, OneObjects DEF RepairCodes, CsvCoordinates
<1>8. Shaped(RasterInputs(p, t, i), p, t)
  BY RastersPlain, PlainShaped
<1>9. Shaped(<<>>, p, t)
  BY PlainShaped
<1> HIDE DEF pair
<1>10. Shaped(ActionRules(p, t, i), p, t)
  BY <1>2, <1>3, <1>4, <1>5, <1>6, <1>7, <1>8, <1>9 DEF ActionRules, pair
<1> QED BY <1>1, <1>10

LEMMA ValidateShaped ==
  ASSUME NEW p, ListValues(p.input), NEW t, TreeOK(t), NEW F
  PROVE  Shaped(Validate(p, t, F), p, t)
<1> DEFINE rules == ActionRules(p, t, LayerOf(p, "input_ref", t))
           first == OrIssues(LayerKindRequirements(p, t), GeometryRequirements(p, t))
<1>1. \A list : Objects(list) => Shaped(list, p, t)
  BY PlainShaped
<1>2. Shaped(SemanticIssues(p), p, t) /\ Shaped(first, p, t) /\ Shaped(FieldRequirements(p, t), p, t)
  BY <1>1, SemanticObjects, KindsObject, GeometriesObject, FieldsObject, OrObjects
<1>3. Shaped(OutputOverwrite(p, F), p, t) /\ Shaped(rules, p, t)
  BY OverwriteShaped, ActionShaped
<1> HIDE DEF rules, first
<1> QED BY <1>2, <1>3 DEF Validate, PreflightIssues, OrIssues, rules, first

\* Whatever stops an action either offers no repair or one that is wanted.
LEMMA HardShaped ==
  ASSUME NEW p, ListValues(p.input), NEW t, TreeOK(t), NEW F
  PROVE  Shaped(HardIssues(p, t, F), p, t)
<1> DEFINE list == Validate(p, t, F)
<1>1. Shaped(list, p, t)
  BY ValidateShaped
<1>2. HardIssues(p, t, F) = Blocking(list)
  BY DEF HardIssues
<1> HIDE DEF list
<1>3. IsList(Blocking(list)) /\ \A k \in DOMAIN Blocking(list) : \E j \in DOMAIN list : Blocking(list)[k] = list[j]
  BY <1>1, BlockingFound DEF Shaped
<1> QED BY <1>1, <1>2, <1>3 DEF Shaped

\* What a task asks, in the words it was asked in.
Asked(task) == Plan(task.intent, task.filled)

\* The slot a repair sets.
RepairSlot(action) == IF action = "buffer_layer" THEN "input_ref" ELSE OverlaySlot(action)

Patched(task) ==
  \/ RepairPatch(task) = Setting("overwrite", <<"yes">>)
  \/ /\ RepairSlot(task.intent) # ""
     /\ \E name : Given(name) /\ RepairPatch(task) = Setting(RepairSlot(task.intent), name)

TaskDrawn(task, t) ==
  /\ FitSlots(task.filled, t) /\ \A c \in task.choices : FitChoice(c, t)
  /\ HasRepair(task) => Patched(task)

TaskShape(task, t) ==
  HasRepair(task) => Wanted(task.question[1], task.repair.steps, task.repair.patch, Asked(task), t)

Told(task, t) == TaskDrawn(task, t) /\ TaskShape(task, t)

LEMMA WantedSame ==
  ASSUME NEW p, NEW q, q.action = p.action, \A s : Slot(q, s) = Slot(p, s), NEW code, NEW run, NEW patch, NEW t,
         Wanted(code, run, patch, p, t)
  PROVE  Wanted(code, run, patch, q, t)
<1>1. \A s, other : CrsOf(q, s, other) = CrsOf(p, s, other)
  BY DEF CrsOf
<1>2. \A o, crs : ForDistance(code, p, t, o, crs) => ForDistance(code, q, t, o, crs)
  BY <1>1 DEF ForDistance
<1>3. \A o, crs : ForPair(code, p, t, o, crs) => ForPair(code, q, t, o, crs)
  BY DEF ForPair
<1>4. ForFile(code, run, patch, p) => ForFile(code, run, patch, q)
  BY DEF ForFile
<1>5. ForCrs(code, run, patch, p, t) => ForCrs(code, run, patch, q, t)
  BY <1>2, <1>3 DEF ForCrs
<1> QED BY <1>4, <1>5 DEF Wanted

\* The slots that a repair sets: what it empties is left as it was.
LEMMA RepairSet ==
  ASSUME NEW task
  PROVE  /\ task.repair.patch = [overwrite |-> <<"yes">>] => RepairPatch(task) = Setting("overwrite", <<"yes">>)
         /\ \A name : name # <<>> =>
              /\ task.repair.patch = [input_ref |-> name, target_crs |-> <<>>] => RepairPatch(task) = Setting("input_ref", name)
              /\ \A s : task.repair.patch = Setting(s, name) => RepairPatch(task) = Setting(s, name)
<1>1. PICK patch : patch = task.repair.patch
  OBVIOUS
<1>2. RepairPatch(task) = [s \in {x \in DOMAIN patch : patch[x] # <<>>} |-> patch[s]]
  BY <1>1 DEF RepairPatch
<1>3. ASSUME NEW s, NEW name, DOMAIN patch = {s} \/ (s = "input_ref" /\ DOMAIN patch = {"input_ref", "target_crs"} /\ patch["target_crs"] = <<>>),
             patch[s] = name, name # <<>>
      PROVE  RepairPatch(task) = Setting(s, name)
  <2>1. {x \in DOMAIN patch : patch[x] # <<>>} = {s}
    BY <1>3
  <2> QED BY <1>2, <1>3, <2>1 DEF Setting
<1>4. ASSUME patch = [overwrite |-> <<"yes">>] PROVE RepairPatch(task) = Setting("overwrite", <<"yes">>)
  <2>1. <<"yes">> # <<>>
    BY ListShort
  <2>2. DOMAIN patch = {"overwrite"} /\ patch["overwrite"] = <<"yes">>
    BY <1>4
  <2> QED BY <1>3, <2>1, <2>2
<1>5. ASSUME NEW name, name # <<>>, patch = [input_ref |-> name, target_crs |-> <<>>]
      PROVE  RepairPatch(task) = Setting("input_ref", name)
  <2>1. DOMAIN patch = {"input_ref", "target_crs"} /\ patch["input_ref"] = name /\ patch["target_crs"] = <<>>
    BY <1>5
  <2> QED BY <1>3, <1>5, <2>1
<1>6. ASSUME NEW name, name # <<>>, NEW s, patch = Setting(s, name)
      PROVE  RepairPatch(task) = Setting(s, name)
  <2>1. DOMAIN patch = {s} /\ patch[s] = name
    BY <1>6 DEF Setting
  <2> QED BY <1>3, <1>6, <2>1
<1> QED BY <1>1, <1>4, <1>5, <1>6

LEMMA WantedPatch ==
  ASSUME NEW task, NEW code, NEW run, NEW t, Wanted(code, run, task.repair.patch, Asked(task), t)
  PROVE  /\ Patched(task)
         /\ \/ /\ ForFile(code, run, task.repair.patch, Asked(task))
               /\ RepairPatch(task) = Setting("overwrite", <<"yes">>)
            \/ \E o, crs, name :
                 /\ o \in DOMAIN t.layers
                 /\ Given(name) /\ run = <<Reproject(o, crs, name)>>
                 /\ RepairSlot(task.intent) # "" /\ RepairPatch(task) = Setting(RepairSlot(task.intent), name)
                 /\ \/ ForDistance(code, Asked(task), t, o, crs) /\ task.intent = "buffer_layer"
                    \/ ForPair(code, Asked(task), t, o, crs) /\ OverlaySlot(task.intent) # ""
<1>1. Asked(task).action = task.intent
  BY DEF Asked, Plan
<1>2. CASE ForFile(code, run, task.repair.patch, Asked(task))
  <2>1. RepairPatch(task) = Setting("overwrite", <<"yes">>)
    BY <1>2, RepairSet DEF ForFile
  <2> QED BY <1>2, <2>1 DEF Patched
<1>3. CASE ForCrs(code, run, task.repair.patch, Asked(task), t)
  <2>1. PICK o, crs, name :
          /\ o \in DOMAIN t.layers
          /\ Given(name) /\ run = <<Reproject(o, crs, name)>>
          /\ \/ ForDistance(code, Asked(task), t, o, crs) /\ task.repair.patch = [input_ref |-> name, target_crs |-> <<>>]
             \/ ForPair(code, Asked(task), t, o, crs) /\ task.repair.patch = Setting(OverlaySlot(task.intent), name)
    BY <1>1, <1>3 DEF ForCrs
  <2>2. name # <<>>
    BY <2>1 DEF Given
  <2>3. CASE ForDistance(code, Asked(task), t, o, crs) /\ task.repair.patch = [input_ref |-> name, target_crs |-> <<>>]
    <3>1. task.intent = "buffer_layer"
      BY <1>1, <2>3 DEF ForDistance
    <3>2. RepairPatch(task) = Setting("input_ref", name)
      BY <2>2, <2>3, RepairSet
    <3>3. RepairSlot(task.intent) = "input_ref"
      BY <3>1 DEF RepairSlot
    <3>4. RepairSlot(task.intent) # "" /\ RepairPatch(task) = Setting(RepairSlot(task.intent), name)
      BY <3>2, <3>3
    <3> QED BY <2>1, <2>3, <3>1, <3>4 DEF Patched
  <2>4. CASE ForPair(code, Asked(task), t, o, crs) /\ task.repair.patch = Setting(OverlaySlot(task.intent), name)
    <3>1. OverlaySlot(task.intent) # ""
      BY <1>1, <2>4 DEF ForPair
    <3>2. RepairPatch(task) = Setting(OverlaySlot(task.intent), name)
      BY <2>2, <2>4, RepairSet
    <3>3. RepairSlot(task.intent) = OverlaySlot(task.intent)
      BY <3>1 DEF RepairSlot, OverlaySlot
    <3>4. RepairSlot(task.intent) # "" /\ RepairPatch(task) = Setting(RepairSlot(task.intent), name)
      BY <3>1, <3>2, <3>3
    <3> QED BY <2>1, <2>4, <3>1, <3>4 DEF Patched
  <2> QED BY <2>1, <2>3, <2>4
<1> QED BY <1>2, <1>3 DEF Wanted

\* What a repair sets names no layer that is to come, and no list.
LEMMA PatchDrawn ==
  ASSUME NEW task, Patched(task), NEW t, IsTree(t)
  PROVE  FitSlots(RepairPatch(task), t) /\ DOMAIN RepairPatch(task) \cap ListSlots = {}
<1>1. PICK n \in Nat : n = Len(t.layers)
  BY ListPlaces DEF IsTree
<1>2. PICK patch : patch = RepairPatch(task)
  OBVIOUS
<1>3. CASE patch = Setting("overwrite", <<"yes">>)
  <2>1. DOMAIN patch = {"overwrite"} /\ patch["overwrite"] = <<"yes">>
    BY <1>3 DEF Setting
  <2>2. IsList(<<"yes">>)
    BY ListShort
  <2> QED BY <1>2, <2>1, <2>2 DEF FitSlots, ListValues, RefsDrawn, PartsOfNames, LayerSlots, ListSlots
<1>4. ASSUME NEW slot, slot = RepairSlot(task.intent), slot # "", NEW name, Given(name), patch = Setting(slot, name)
      PROVE  FitSlots(patch, t) /\ DOMAIN patch \cap ListSlots = {}
  <2>1. DOMAIN patch = {slot} /\ patch[slot] = name
    BY <1>4 DEF Setting
  <2>2. slot \in {"input_ref", "overlay_ref", "intersect_ref", "join_ref", "point_ref"}
    BY <1>4 DEF RepairSlot, OverlaySlot
  <2>3. slot \notin PartsOfNames \cup {"output_name"} \cup ListSlots
    BY <2>2 DEF PartsOfNames, ListSlots
  <2>4. IsList(name) /\ IsDrawn(name, n)
    BY <1>4, Drawn DEF Given, IsName
  <2> QED BY <1>1, <2>1, <2>3, <2>4 DEF FitSlots, ListValues, RefsDrawn
<1> QED BY <1>2, <1>3, <1>4 DEF Patched

LEMMA PendingTold ==
  ASSUME NEW p, NEW t, TreeOK(t), FitSlots(p.input, t), NEW issue, NEW missing,
         Plain(issue) \/ (WantedFor(issue, p, t) /\ missing = <<>>),
         NEW how, NEW source, NEW risk
  PROVE  Told(PendingTask(p, issue, missing, how, source, risk, t), t)
<1>1. PICK task : task = PendingTask(p, issue, missing, how, source, risk, t)
  OBVIOUS
<1>2. PICK filled : filled = FilledSlots(p, missing)
  OBVIOUS
<1>3. /\ task.intent = p.action /\ task.filled = filled /\ task.choices = PendingChoices(p, issue, missing, risk, t)
      /\ task.question[1] = issue.code /\ task.repair = [steps |-> issue.steps, patch |-> issue.patch]
  BY <1>1, <1>2 DEF PendingTask, Question, RepairOf
<1>4. FitSlots(filled, t)
  BY <1>2, SlotsFit
<1>5. \A c \in task.choices : FitChoice(c, t)
  BY <1>3, ChoicesFit
<1>6. CASE Plain(issue)
  <2>1. ~HasRepair(task)
    BY <1>3, <1>6 DEF Plain, HasRepair, NoRepair
  <2> QED BY <1>1, <1>3, <1>4, <1>5, <2>1 DEF Told, TaskDrawn, TaskShape
<1>7. CASE WantedFor(issue, p, t) /\ missing = <<>>
  <2>1. ToSet(missing) = {}
    BY <1>7 DEF ToSet
  <2>2. \A s : IF s \in DOMAIN filled THEN filled[s] = Slot(p, s) ELSE Slot(p, s) = <<>>
    BY <1>2, <2>1 DEF FilledSlots, Slot
  <2>3. Asked(task).action = p.action /\ Asked(task).input = filled
    BY <1>3 DEF Asked, Plan
  <2>4. \A s : Slot(Asked(task), s) = Slot(p, s)
    BY <2>2, <2>3 DEF Slot
  <2>5. task.repair.steps = issue.steps /\ task.repair.patch = issue.patch
    BY <1>3
  <2>6. Wanted(issue.code, issue.steps, issue.patch, p, t)
    BY <1>7 DEF WantedFor
  <2>7. Wanted(issue.code, issue.steps, issue.patch, Asked(task), t)
    BY <2>3, <2>4, <2>6, WantedSame
  <2>8. Wanted(task.question[1], task.repair.steps, task.repair.patch, Asked(task), t)
    BY <1>3, <2>5, <2>7
  <2>9. Patched(task)
    BY <2>8, WantedPatch
  <2> QED BY <1>1, <1>3, <1>4, <1>5, <2>8, <2>9 DEF Told, TaskDrawn, TaskShape
<1> QED BY <1>6, <1>7

\* A task is told by the issue it asks about.
LEMMA PauseTold ==
  ASSUME NEW p, NEW t, TreeOK(t), FitSlots(p.input, t), NEW F, NEW issues,
         Fits(issues, p, F), Shaped(issues, p, t), issues # <<>>
  PROVE  Told(PauseForIssues(p, issues, t), t) /\ Told(PauseResumedPlan(p, issues, t), t)
<1> DEFINE risk == issues[Evaluate(issues, t).primary]
           Told1(x) == Plain(x) \/ (WantedFor(x, p, t) /\ Repairs(x, p, F))
<1>1. \A x : WantedFor(x, p, t) => ~Plain(x)
  BY DEF WantedFor, Wanted, ForFile, ForCrs, ForDistance, ForPair, Plain, RepairCodes
<1>2. Told1(risk) /\ Told1(issues[1])
  <2>1. \A k \in DOMAIN issues : Told1(issues[k])
    BY <1>1 DEF Fits, Shaped
  <2>2. 1 \in DOMAIN issues /\ Evaluate(issues, t).primary \in DOMAIN issues
    BY PrimaryIssue DEF Fits
  <2> QED BY <2>1, <2>2
<1>3. \A issue : Repairs(issue, p, F) => /\ issue.stage # "semantic"
                                          /\ PreflightMissingSlots(p, issue) = <<>>
                                          /\ PendingMissingSlots(p.action, <<>>) = <<>>
  BY DEF Repairs, PreflightMissingSlots, PendingMissingSlots, ToSet
<1>4. ASSUME NEW issue, Told1(issue), NEW other, NEW missing, NEW source, NEW how,
             Repairs(issue, p, F) => missing = <<>>
      PROVE  Told(PendingTask(p, issue, missing, how, source, other, t), t)
  <2>1. Plain(issue) \/ (WantedFor(issue, p, t) /\ missing = <<>>)
    BY <1>4
  <2> QED BY <2>1, PendingTold
<1>5. ASSUME NEW issue, Told1(issue), NEW other, issue.stage = "semantic"
      PROVE  Told(SemanticPending(p, issue, other, t), t)
  BY <1>3, <1>4, <1>5 DEF SemanticPending
<1>6. ASSUME NEW issue, Told1(issue), NEW how
      PROVE  Told(PauseOnIssue(p, issue, how, t), t)
  BY <1>3, <1>4, <1>5, <1>6 DEF PauseOnIssue, PreflightPending
<1>7. Told(PauseForIssues(p, issues, t), t)
  BY <1>2, <1>6 DEF PauseForIssues, PauseOnDecision
<1>8. ASSUME NEW task, Told(task, t), NEW schema
      PROVE  Told([task EXCEPT !.schema = schema], t)
  <2>1. PICK other : other = [task EXCEPT !.schema = schema]
    OBVIOUS
  <2>2. /\ other.intent = task.intent /\ other.filled = task.filled /\ other.choices = task.choices
        /\ other.question = task.question /\ other.repair = task.repair
    BY <2>1
  <2>3. Asked(other) = Asked(task) /\ RepairPatch(other) = RepairPatch(task) /\ HasRepair(other) = HasRepair(task)
    BY <2>2 DEF Asked, RepairPatch, HasRepair
  <2> QED BY <1>8, <2>1, <2>2, <2>3 DEF Told, TaskDrawn, TaskShape, Patched
<1>9. ASSUME NEW issue, Told1(issue), NEW how
      PROVE  Told(ResumedPending(p, issue, PreflightMissingSlots(p, issue), how, risk, t), t)
  <2>1. PICK missing : missing = PreflightMissingSlots(p, issue)
    OBVIOUS
  <2>2. PICK source : source = IF how = "awaiting_user" /\ missing # <<>> THEN "missing_slot_validation" ELSE ""
    OBVIOUS
  <2>3. PICK task : task = PendingTask(p, issue, missing, how, source, risk, t)
    OBVIOUS
  <2>4. Told(task, t)
    BY <1>3, <1>4, <1>9, <2>1, <2>3
  <2>5. ResumedPending(p, issue, missing, how, risk, t) = [task EXCEPT !.schema = MissingSlotSchema(missing)]
    BY <2>2, <2>3 DEF ResumedPending
  <2> QED BY <1>8, <2>1, <2>4, <2>5
<1>10. Told(PauseResumedPlan(p, issues, t), t)
  <2> HIDE DEF risk
  <2>1. \A decision : issues[decision.primary] = issues[decision.primary]
    OBVIOUS
  <2>2. PICK decision : decision = Evaluate(issues, t)
    OBVIOUS
  <2>3. issues[decision.primary] = risk
    BY <2>2 DEF risk
  <2>4. PauseResumedPlan(p, issues, t) = PauseResumedOnDecision(p, issues[1], issues, decision, t)
    BY <2>2 DEF PauseResumedPlan
  <2> QED BY <1>2, <1>5, <1>9, <2>3, <2>4 DEF PauseResumedOnDecision
<1> QED BY <1>7, <1>10

\* Tasks that offer no repair.
LEMMA OtherTold ==
  ASSUME NEW t, NEW task, TaskDrawn(task, t)
  PROVE  /\ Told(ClarifiedAgain(task), t)
         /\ \A question, allowed : Told(AskedAgain(task, question, allowed), t)
         /\ \A q : FitSlots(q.filled, t) /\ (\A c \in q.choices : FitChoice(c, t)) => Told(ClarificationTask(q), t)
         /\ Told(NoPending, t)
<1>1. FitSlots(<<>>, t)
  BY SlotsFit
<1>2. Told(ClarifiedAgain(task), t)
  BY DEF Told, TaskDrawn, TaskShape, HasRepair, ClarifiedAgain
<1>3. ASSUME NEW question, NEW allowed PROVE Told(AskedAgain(task, question, allowed), t)
  BY DEF Told, TaskDrawn, TaskShape, HasRepair, AskedAgain, NoPending
<1>4. ASSUME NEW q, FitSlots(q.filled, t), \A c \in q.choices : FitChoice(c, t) PROVE Told(ClarificationTask(q), t)
  BY <1>4 DEF Told, TaskDrawn, TaskShape, HasRepair, ClarificationTask, NoPending
<1>5. Told(NoPending, t)
  BY <1>1 DEF Told, TaskDrawn, TaskShape, HasRepair, NoPending
<1> QED BY <1>2, <1>3, <1>4, <1>5

-----------------------------------------------------------------------------
(* What a reference leads to when names were moved, or a layer was added    *)

\* A phrase is answered by the layers alone.
LEMMA PhraseSame ==
  ASSUME NEW t, NEW u, u.layers = t.layers
  PROVE  /\ \A ref : ResolvePhrase(u, ref) = ResolvePhrase(t, ref)
         /\ LatestLayer(u) = LatestLayer(t) /\ LatestFinalLayer(u) = LatestFinalLayer(t)
<1>1. \A i : CandidateText(u, i) = CandidateText(t, i)
  BY DEF CandidateText
<1>2. \A q, i : ScoreRecord(u, q, i) = ScoreRecord(t, q, i)
  <2> SUFFICES ASSUME NEW q, NEW i PROVE ScoreRecord(u, q, i) = ScoreRecord(t, q, i)
    OBVIOUS
  <2>1. u.layers[i] = t.layers[i] /\ CandidateText(u, i) = CandidateText(t, i)
    BY <1>1
  <2> QED BY <2>1 DEF ScoreRecord
<1>3. \A q : BestRecord(u, q) = BestRecord(t, q)
  BY <1>2 DEF BestRecord
<1>4. \A q, best : Accepted(u, q, best) = Accepted(t, q, best)
  BY <1>2 DEF Accepted
<1>5. \A role : LatestRoleRecord(u, role) = LatestRoleRecord(t, role)
  BY DEF LatestRoleRecord
<1>6. \A q : ResolveQuery(u, q) = ResolveQuery(t, q)
  BY <1>3, <1>4, <1>5 DEF ResolveQuery
<1> QED BY <1>6 DEF ResolvePhrase, LatestLayer, LatestFinalLayer

LEMMA ResolvedMoved ==
  ASSUME NEW t, NEW u, NEW x, Moved(t, u, x), NEW ref
  PROVE  /\ Resolve(u, ref) = Resolve(t, ref) \/ Resolve(u, ref) = x
         /\ ref # <<>> /\ ref \notin LatestRefs \cup FinalRefs /\ ref \in DOMAIN t.aliases
              => Resolve(t, ref) = t.aliases[ref] /\ Resolve(u, ref) = u.aliases[ref]
<1>1. u.layers = t.layers
  BY DEF Moved
<1>2. /\ ResolvePhrase(u, ref) = ResolvePhrase(t, ref)
      /\ LatestLayer(u) = LatestLayer(t) /\ LatestFinalLayer(u) = LatestFinalLayer(t)
  BY <1>1, PhraseSame
<1>3. DOMAIN t.aliases \subseteq DOMAIN u.aliases
  BY DEF Moved
<1>4. ref \in DOMAIN u.aliases => u.aliases[ref] = x \/ (ref \in DOMAIN t.aliases /\ u.aliases[ref] = t.aliases[ref])
  BY DEF Moved
<1> QED BY <1>1, <1>2, <1>3, <1>4 DEF Resolve

\* With one more score, the newest of the highest is the new one or what it was.
LEMMA NewestGrown ==
  ASSUME NEW n \in Nat, NEW old \in [1..n -> Int], NEW new \in [1..(n + 1) -> Int],
         \A i \in 1..n : new[i] = old[i]
  PROVE  Newest(new) = n + 1 \/ Newest(new) = Newest(old)
<1> DEFINE S == {i \in 1..n : \A j \in 1..n : old[i] >= old[j]}
           T == {i \in 1..(n + 1) : \A j \in 1..(n + 1) : new[i] >= new[j]}
<1>1. Newest(old) = Max(S) /\ Newest(new) = Max(T)
  BY DEF Newest
<1>2. CASE n + 1 \in T
  <2>1. T \in SUBSET (0..(n + 1)) /\ T # {} /\ n + 1 \in Nat
    BY <1>2
  <2> HIDE DEF T
  <2>2. Max(T) \in T /\ n + 1 <= Max(T)
    BY <1>2, <2>1, GreatestOf
  <2>3. Max(T) \in 0..(n + 1)
    BY <2>1, <2>2
  <2> QED BY <1>1, <2>2, <2>3
<1>3. CASE n + 1 \notin T
  <2>1. PICK k \in 1..(n + 1) : ~(new[n + 1] >= new[k])
    BY <1>3
  <2>2. k # n + 1 /\ k \in 1..n
    <3>1. new[n + 1] \in Int
      OBVIOUS
    <3> QED BY <2>1, <3>1
  <2>3. \A i \in S : i \in T
    <3> SUFFICES ASSUME NEW i \in S, NEW j \in 1..(n + 1) PROVE new[i] >= new[j]
      OBVIOUS
    <3>1. old[i] >= old[k] /\ new[i] = old[i] /\ new[k] = old[k] /\ i \in 1..n
      BY <2>2
    <3>2. j \in 1..n => old[i] >= old[j] /\ new[j] = old[j]
      OBVIOUS
    <3>3. j = n + 1 => new[i] >= new[j]
      <4>1. new[i] \in Int /\ new[k] \in Int /\ new[n + 1] \in Int
        BY <3>1, <2>2
      <4> QED BY <4>1, <2>1, <3>1
    <3>4. j \in 1..n \/ j = n + 1
      OBVIOUS
    <3> QED BY <3>1, <3>2, <3>3, <3>4
  <2>4. \A i \in T : i \in S
    <3> SUFFICES ASSUME NEW i \in T PROVE i \in S
      OBVIOUS
    <3>1. i \in 1..n
      BY <1>3
    <3> QED BY <3>1
  <2>5. S = T
    BY <2>3, <2>4
  <2> QED BY <1>1, <2>5
<1> QED BY <1>2, <1>3

\* A repair's output changes nothing about an older reference, but that it may be
\* what is meant by now; unless the reference means what was before a layer.
LEMMA ResolvedAfter ==
  ASSUME NEW t, TreeOK(t), NEW l, NewLayer(l, t), l.role = "intermediate", l.act = "reproject_layer",
         NEW u, u = AddLayer(t, l), NEW r, r = Len(t.layers) + 1,
         NEW ref, Resolve(t, ref) \in DOMAIN t.layers, ParsePhrase(ref).relation # "predecessor"
  PROVE  Resolve(u, ref) \in {None, r, Resolve(t, ref)}
<1>1. PICK n \in Nat : n = Len(t.layers) /\ DOMAIN t.layers = 1..n /\ r = n + 1
  BY ListPlaces DEF TreeOK, IsTree
<1>2. /\ TreeOK(u) /\ Grown(t, u) /\ DOMAIN u.layers = 1..r /\ Len(u.layers) = r /\ u.layers[r] = l
      /\ \A a \in DOMAIN u.aliases : a \in DOMAIN t.aliases \/ u.aliases[a] = r
  BY OneAdded
<1>3. \A i \in 1..n : u.layers[i] = t.layers[i]
  BY <1>1, <1>2 DEF Grown
<1>4. u.layers # <<>> /\ t.layers # <<>>
  <2>1. Len(<<>>) = 0 /\ DOMAIN <<>> = {}
    OBVIOUS
  <2> QED BY <1>1, <1>2, <2>1
<1>5. LatestLayer(u) = r
  BY <1>2 DEF LatestLayer
<1>6. LatestFinalLayer(u) = LatestFinalLayer(t)
  <2>1. ~IsFinal(u.layers[r])
    BY <1>2 DEF IsFinal
  <2>2. {i \in DOMAIN u.layers : IsFinal(u.layers[i])} = {i \in DOMAIN t.layers : IsFinal(t.layers[i])}
    <3>1. DOMAIN u.layers = DOMAIN t.layers \cup {r}
      BY <1>1, <1>2
    <3> QED BY <1>1, <1>3, <2>1, <3>1
  <2> QED BY <2>2 DEF LatestFinalLayer
<1>7. PICK q : q = ParsePhrase(ref)
  OBVIOUS
<1>8. q.relation = "latest" => q.role = "input"
  <2>1. \A text, op, relation : Query(text, op, relation).relation = relation
    BY DEF Query
  <2>2. \A text, op, relation : [Query(text, op, relation) EXCEPT !.role = "input"].role = "input"
    BY DEF Query
  <2>3. PICK kept : q = PhraseQuery(ref, kept)
    BY <1>7 DEF ParsePhrase
  <2>4. CASE LatestInputHint \in ToSet(ref)
    BY <2>2, <2>3, <2>4 DEF PhraseQuery
  <2>5. CASE LatestInputHint \notin ToSet(ref)
    <3>1. PICK text, op, relation : q = Query(text, op, relation) /\ relation \in {"self", "predecessor"}
      BY <2>3, <2>5 DEF PhraseQuery
    <3> QED BY <2>1, <3>1
  <2> QED BY <2>4, <2>5
<1>9. q.relation = "latest" => LatestRoleRecord(u, q.role) = LatestRoleRecord(t, q.role)
  <2>1. u.layers[r].role # "input"
    BY <1>2
  <2>2. DOMAIN u.layers = DOMAIN t.layers \cup {r}
    BY <1>1, <1>2
  <2>3. {i \in DOMAIN u.layers : u.layers[i].role = "input"} = {i \in DOMAIN t.layers : t.layers[i].role = "input"}
    BY <1>1, <1>3, <2>1, <2>2
  <2> QED BY <1>8, <2>3 DEF LatestRoleRecord
<1>10. ASSUME NEW i \in 1..n PROVE ScoreRecord(u, q, i) = ScoreRecord(t, q, i)
  <2>1. \A k \in ToSet(t.layers[i].parents) : k \in 1..n
    BY <1>1 DEF TreeOK, IsTree, ToSet
  <2>2. u.layers[i] = t.layers[i] /\ \A k \in ToSet(t.layers[i].parents) : u.layers[k] = t.layers[k]
    BY <1>3, <2>1
  <2>3. CandidateText(u, i) = CandidateText(t, i)
    BY <2>2 DEF CandidateText
  <2> QED BY <2>2, <2>3 DEF ScoreRecord
<1>11. BestRecord(u, q) = r \/ BestRecord(u, q) = BestRecord(t, q)
  <2>1. PICK old : old = [i \in 1..n |-> ScoreRecord(t, q, i)]
    OBVIOUS
  <2>2. PICK new : new = [i \in 1..(n + 1) |-> ScoreRecord(u, q, i)]
    OBVIOUS
  <2>3. old \in [1..n -> Int] /\ new \in [1..(n + 1) -> Int]
    <3>1. \A i : ScoreRecord(t, q, i) \in 0..41 /\ ScoreRecord(u, q, i) \in 0..41
      BY Scored
    <3>2. \A x \in 0..41 : x \in Int
      OBVIOUS
    <3>3. old \in [1..n -> Int]
      BY <2>1, <3>1, <3>2, Zenon
    <3>4. new \in [1..(n + 1) -> Int]
      BY <2>2, <3>1, <3>2, Zenon
    <3> QED BY <3>3, <3>4
  <2>4. \A i \in 1..n : new[i] = old[i]
    BY <1>10, <2>1, <2>2
  <2>5. Newest(new) = n + 1 \/ Newest(new) = Newest(old)
    BY <2>3, <2>4, NewestGrown
  <2> QED BY <1>1, <1>2, <2>1, <2>2, <2>5 DEF BestRecord
<1>12. Accepted(u, q, r) \in {None, r}
  BY <1>7 DEF Accepted
<1>13. BestRecord(t, q) \in 1..n => Accepted(u, q, BestRecord(t, q)) = Accepted(t, q, BestRecord(t, q))
  BY <1>3, <1>10 DEF Accepted
<1>14. BestRecord(t, q) \in 1..n
  <2>1. PICK best : best = BestRecord(t, q)
    OBVIOUS
  <2> QED BY <1>1, <1>4, BestThere DEF TreeOK
<1>15. ResolvePhrase(u, ref) \in {None, r, ResolvePhrase(t, ref)}
  BY <1>4, <1>7, <1>9, <1>11, <1>12, <1>13, <1>14 DEF ResolvePhrase, ResolveQuery
<1>16. DOMAIN t.aliases \subseteq DOMAIN u.aliases /\ \A a \in DOMAIN t.aliases : u.aliases[a] = t.aliases[a]
  BY <1>2 DEF Grown
<1> QED BY <1>2, <1>4, <1>5, <1>6, <1>15, <1>16 DEF Resolve

-----------------------------------------------------------------------------
(* The references an action reads                                          *)

\* All that was in one of the lists is in the flattened list.
LEMMA FlattenedAll ==
  ASSUME NEW ss, IsList(ss), \A k \in DOMAIN ss : IsList(ss[k])
  PROVE  \A j \in DOMAIN ss : ToSet(ss[j]) \subseteq ToSet(FlattenSeq(ss))
<1> DEFINE S == UNION {ToSet(ss[j]) : j \in DOMAIN ss}
<1>1. PICK n \in Nat : n = Len(ss) /\ DOMAIN ss = 1..n
  BY ListPlaces
<1>2. \A j \in DOMAIN ss : ss[j] \in Seq(S)
  <2> SUFFICES ASSUME NEW j \in DOMAIN ss PROVE ss[j] \in Seq(S)
    OBVIOUS
  <2>1. Len(ss[j]) \in Nat /\ DOMAIN ss[j] = 1..Len(ss[j]) /\ ss[j] = [i \in 1..Len(ss[j]) |-> ss[j][i]]
    BY DEF IsList
  <2>2. ASSUME NEW i \in 1..Len(ss[j]) PROVE ss[j][i] \in S
    <3>1. ss[j][i] \in ToSet(ss[j])
      BY <2>1 DEF ToSet
    <3> QED BY <3>1
  <2> HIDE DEF S
  <2> QED BY <2>1, <2>2
<1> HIDE DEF S
<1>3. ss \in [1..n -> Seq(S)]
  <2>1. ss = [k \in 1..n |-> ss[k]]
    BY <1>1 DEF IsList
  <2> QED BY <1>1, <1>2, <2>1
<1>4. SUFFICES ASSUME n # 0 PROVE \A j \in 1..n : ToSet(ss[j]) \subseteq ToSet(FlattenSeq(ss))
  BY <1>1
<1>5. PICK f : f = CHOOSE g : Flattens(g, ss, n)
  OBVIOUS
<1>6. Flattens(f, ss, n)
  BY <1>3, <1>5, FlatValues
<1>7. FlattenSeq(ss) = f[n]
  BY <1>1, <1>4, <1>5 DEF FlattenSeq, Flattens
<1>8. \A i \in 1..n : f[i] \in Seq(S)
  BY <1>3, <1>6, FlatAnyway
<1>9. PICK bad : bad = {m \in 1..n : \E j \in 1..m : ~(ToSet(ss[j]) \subseteq ToSet(f[m]))}
  OBVIOUS
<1>10. bad = {}
  <2> SUFFICES ASSUME bad # {} PROVE FALSE
    OBVIOUS
  <2>1. bad \in SUBSET Nat
    BY <1>9
  <2>2. PICK m \in bad : \A j \in bad : m <= j
    BY <2>1, LeastOf
  <2>3. PICK j \in 1..m : ~(ToSet(ss[j]) \subseteq ToSet(f[m]))
    BY <1>9, <2>2
  <2>4. m \in 1..n /\ f[m] = IF m = 1 THEN ss[m] ELSE f[m - 1] \o ss[m]
    BY <1>6, <1>9, <2>2 DEF Flattens
  <2>5. m # 1
    BY <2>3, <2>4
  <2>6. m - 1 \in 1..n /\ ~(m <= m - 1) /\ m - 1 \notin bad
    BY <2>2, <2>4, <2>5
  <2>7. \A i \in 1..(m - 1) : ToSet(ss[i]) \subseteq ToSet(f[m - 1])
    BY <1>9, <2>6
  <2>8. PICK a \in Seq(S) : a = f[m - 1]
    BY <1>8, <2>6
  <2>9. PICK b \in Seq(S) : b = ss[m]
    BY <1>3, <2>4
  <2>10. ToSet(a) \subseteq ToSet(a \o b) /\ ToSet(b) \subseteq ToSet(a \o b)
    <3>1. \A k \in DOMAIN a : k \in DOMAIN (a \o b) /\ (a \o b)[k] = a[k]
      OBVIOUS
    <3>2. \A k \in DOMAIN b : Len(a) + k \in DOMAIN (a \o b) /\ (a \o b)[Len(a) + k] = b[k]
      OBVIOUS
    <3> QED BY <3>1, <3>2 DEF ToSet
  <2>11. f[m] = a \o b
    BY <2>4, <2>5, <2>8, <2>9
  <2>12. j \in 1..(m - 1) \/ j = m
    BY <2>4
  <2> QED BY <2>3, <2>7, <2>8, <2>9, <2>10, <2>11, <2>12
<1>11. \A j \in 1..n : ToSet(ss[j]) \subseteq ToSet(f[n])
  <2>1. n \in 1..n
    BY <1>4
  <2> QED BY <1>9, <1>10, <2>1
<1> QED BY <1>7, <1>11

\* The slots of a contract, and what an action gives for each.
Pieces(p) ==
  LET slots == ToolContract(p.action).required
  IN [k \in DOMAIN slots |-> IF slots[k] \in LayerSlots THEN Refs(p, slots[k]) ELSE <<>>]

LEMMA PiecesList ==
  ASSUME NEW p, ListValues(p.input)
  PROVE  IsList(Pieces(p)) /\ (\A k \in DOMAIN Pieces(p) : IsList(Pieces(p)[k])) /\ InputRefs(p) = FlattenSeq(Pieces(p))
<1>1. IsList(ToolContract(p.action).required)
  <2>1. \A a, b, c : IsList(<<a>>) /\ IsList(<<a, b>>) /\ IsList(<<a, b, c>>)
    <3> SUFFICES ASSUME NEW a, NEW b, NEW c PROVE IsList(<<a>>) /\ IsList(<<a, b>>) /\ IsList(<<a, b, c>>)
      OBVIOUS
    <3>1. <<a>> \in Seq({a, b, c}) /\ <<a, b>> \in Seq({a, b, c}) /\ <<a, b, c>> \in Seq({a, b, c})
      OBVIOUS
    <3> QED BY <3>1, ListIn
  <2> QED BY <2>1 DEF ToolContract, Contract
<1>2. PICK slots : slots = ToolContract(p.action).required
  OBVIOUS
<1>3. PICK n \in Nat : DOMAIN slots = 1..n
  BY <1>1, <1>2, ListPlaces
<1>4. PICK found : found = [k \in DOMAIN slots |-> IF slots[k] \in LayerSlots THEN Refs(p, slots[k]) ELSE <<>>]
  OBVIOUS
<1>5. IsList(found)
  <2>1. found = [k \in 1..n |-> found[k]]
    BY <1>3, <1>4
  <2> QED BY <2>1, ListOf
<1>6. \A s : IsList(Refs(p, s))
  <2>1. \A s : IsList(Slot(p, s)) /\ IsList(<<Slot(p, s)>>)
    BY SlotList, ListShort
  <2> QED BY <2>1 DEF Refs
<1>7. \A k \in DOMAIN found : IsList(found[k])
  BY <1>4, <1>6, ListShort
<1>8. Pieces(p) = found
  BY <1>2, <1>4 DEF Pieces
<1> QED BY <1>5, <1>7, <1>8 DEF InputRefs, RefsOf, Pieces

LEMMA Second ==
  ASSUME NEW a, NEW b
  PROVE  1 \in DOMAIN <<a, b>> /\ <<a, b>>[1] = a /\ 2 \in DOMAIN <<a, b>> /\ <<a, b>>[2] = b
OBVIOUS

LEMMA Third ==
  ASSUME NEW a, NEW b, NEW c
  PROVE  /\ 2 \in DOMAIN <<a, b, c>> /\ <<a, b, c>>[2] = b
         /\ 3 \in DOMAIN <<a, b, c>> /\ <<a, b, c>>[3] = c
OBVIOUS

\* The slot a repair sets is one the action reads.
LEMMA RepairedRead ==
  ASSUME NEW p, ListValues(p.input), RepairSlot(p.action) # ""
  PROVE  Slot(p, RepairSlot(p.action)) \in ToSet(InputRefs(p))
<1>1. PICK slots : slots = ToolContract(p.action).required
  OBVIOUS
<1>2. PICK s : s = RepairSlot(p.action)
  OBVIOUS
<1>3. s \in LayerSlots \ ListSlots
  BY <1>2 DEF RepairSlot, OverlaySlot, LayerSlots, ListSlots
<1>4. \E k \in DOMAIN slots : slots[k] = s
  <2>1. CASE p.action = "buffer_layer"
    <3>1. slots = <<"input_ref", "distance">> /\ s = "input_ref"
      BY <2>1, <1>1, <1>2 DEF RepairSlot, ToolContract, Contract
    <3>2. 1 \in DOMAIN slots /\ slots[1] = s
      BY <3>1, Second
    <3> QED BY <3>2
  <2>2. CASE p.action = "extract_by_location"
    <3>1. slots = <<"input_ref", "predicate", "intersect_ref">> /\ s = "intersect_ref"
      BY <2>2, <1>1, <1>2 DEF RepairSlot, OverlaySlot, ToolContract, Contract
    <3>2. 3 \in DOMAIN slots /\ slots[3] = s
      BY <3>1, Third
    <3> QED BY <3>2
  <2>3. CASE p.action = "join_by_location"
    <3>1. slots = <<"input_ref", "join_ref", "predicate">> /\ s = "join_ref"
      BY <2>3, <1>1, <1>2 DEF RepairSlot, OverlaySlot, ToolContract, Contract
    <3>2. 2 \in DOMAIN slots /\ slots[2] = s
      BY <3>1, Third
    <3> QED BY <3>2
  <2>4. CASE p.action \in {"clip_layer", "intersect_layer", "difference_layer", "join_by_nearest", "count_points_in_polygon"}
    <3>1. PICK first : slots = <<first, s>>
      BY <2>4, <1>1, <1>2 DEF RepairSlot, OverlaySlot, ToolContract, Contract, PairKinds
    <3>2. 2 \in DOMAIN slots /\ slots[2] = s
      BY <3>1, Second
    <3> QED BY <3>2
  <2> QED BY <2>1, <2>2, <2>3, <2>4 DEF RepairSlot, OverlaySlot
<1>5. PICK k \in DOMAIN slots : slots[k] = s
  BY <1>4
<1>6. k \in DOMAIN Pieces(p) /\ Pieces(p)[k] = <<Slot(p, s)>>
  BY <1>1, <1>3, <1>5 DEF Pieces, Refs
<1>7. Slot(p, s) \in ToSet(Pieces(p)[k])
  BY <1>6, ListShort DEF ToSet
<1> QED BY <1>2, <1>6, <1>7, PiecesList, FlattenedAll

\* A repair reads the layer it is for, by its id.
LEMMA ReprojectReads ==
  ASSUME NEW o, NEW crs, NEW name, NEW p, p = Reproject(o, crs, name), ListValues(p.input)
  PROVE  \A k \in DOMAIN InputRefs(p) : InputRefs(p)[k] = LayerId(o)
<1>1. p.action = "reproject_layer" /\ Slot(p, "input_ref") = LayerId(o)
  BY DEF Reproject, Plan, Slot
<1>2. ToolContract(p.action).required = <<"input_ref", "target_crs">>
  BY <1>1 DEF ToolContract, Contract
<1>3. Refs(p, "input_ref") = <<LayerId(o)>>
  BY <1>1 DEF Refs, ListSlots
<1>4. \A j \in DOMAIN Pieces(p) : Pieces(p)[j] \in {<<LayerId(o)>>, <<>>}
  BY <1>2, <1>3 DEF Pieces, LayerSlots
<1>5. \A j \in DOMAIN Pieces(p) : \A i \in DOMAIN Pieces(p)[j] : Pieces(p)[j][i] = LayerId(o)
  BY <1>4, ListShort
<1>6. IsList(Pieces(p)) /\ (\A k \in DOMAIN Pieces(p) : IsList(Pieces(p)[k])) /\ InputRefs(p) = FlattenSeq(Pieces(p))
  BY PiecesList
<1> QED BY <1>5, <1>6, Flattened

\* Actions of one signature read the same references.
LEMMA SameRefs ==
  ASSUME NEW p, NEW q, p.action = q.action, Signature(p) = Signature(q), HasSignature(p)
  PROVE  InputRefs(p) = InputRefs(q)
<1>1. PICK slots : slots = ToolContract(p.action).required
  OBVIOUS
<1>2. PICK named : named = SignatureFields(p.action)
  OBVIOUS
<1>3. /\ DOMAIN Signature(p) = {s \in named : Slot(p, s) # <<>>}
      /\ DOMAIN Signature(q) = {s \in named : Slot(q, s) # <<>>}
      /\ \A s \in DOMAIN Signature(p) : Signature(p)[s] = Slot(p, s)
      /\ \A s \in DOMAIN Signature(q) : Signature(q)[s] = Slot(q, s)
  BY <1>2 DEF Signature
<1>4. \A s \in named : Slot(p, s) = Slot(q, s)
  BY <1>3
<1>5. named # {}
  BY <1>3 DEF HasSignature
<1>6. \A k \in DOMAIN slots : slots[k] \in LayerSlots => slots[k] \in named /\ slots[k] \notin ListSlots
  BY <1>1, <1>2, <1>5 DEF SignatureFields, ToolContract, Contract, LayerSlots, ListSlots
<1>7. \A k \in DOMAIN slots : slots[k] \in LayerSlots => Refs(p, slots[k]) = Refs(q, slots[k])
  BY <1>4, <1>6 DEF Refs
<1> QED BY <1>1, <1>7 DEF InputRefs, RefsOf

-----------------------------------------------------------------------------
(* What the steps of a turn keep.  A reference that led home when a step   *)
(* was taken, and leads home now, leads to the layer the step worked on.   *)

HomeKept(s, t) ==
  s.grounded =>
    /\ s.inputs = [k \in DOMAIN InputRefs(s.plan) |-> s.inputs[k]]
    /\ \A k \in DOMAIN InputRefs(s.plan) :
         /\ InputRefs(s.plan)[k] \in DOMAIN t.aliases \ (LatestRefs \cup FinalRefs)
         /\ LeadsHome(t, InputRefs(s.plan)[k]) => Resolve(t, InputRefs(s.plan)[k]) = s.inputs[k]

\* Of all the steps a skipped one is told with, not of the first alone.
SkipsSame(list) ==
  \A k \in DOMAIN list : list[k].how = "skip" =>
    /\ list[k].ok
    /\ \A j \in 1..k :
         SameWork(list[j], list[k].plan) /\ list[k].grounded /\ list[j].grounded => list[k].inputs = list[j].inputs

CuredAll(list) ==
  \A k \in DOMAIN list : list[k].cured \/ BeyondRepair(list[k].plan) \/ \E j \in 1..k : list[j].reused

Kept(list, t) == IsList(list) /\ (\A k \in DOMAIN list : HomeKept(list[k], t)) /\ SkipsSame(list) /\ CuredAll(list)

\* A step as it is taken.
Taken(e, p, t) ==
  /\ e.plan = p /\ e.inputs = InputLayers(p, t)
  /\ e.grounded => \A ref \in ToSet(InputRefs(p)) : LeadsHome(t, ref)
  /\ e.how = "skip" => e.ok /\ HasSignature(p)

\* Where a reference that leads home leads, while names keep their layers.
LEMMA HomeLeads ==
  ASSUME NEW t, NEW u, IsTree(t), Grown(t, u), NEW ref \in DOMAIN t.aliases \ (LatestRefs \cup FinalRefs)
  PROVE  /\ ref \in DOMAIN u.aliases /\ Resolve(u, ref) = Resolve(t, ref)
         /\ LeadsHome(u, ref) => LeadsHome(t, ref)
<1>1. ref \in DOMAIN u.aliases /\ u.aliases[ref] = t.aliases[ref]
  BY DEF Grown
<1>2. t.aliases[ref] \in DOMAIN t.layers
  BY DEF IsTree
<1>3. u.layers[t.aliases[ref]] = t.layers[t.aliases[ref]]
  BY <1>2 DEF Grown
<1>4. Resolve(u, ref) = Resolve(t, ref)
  BY <1>1 DEF Resolve
<1> QED BY <1>1, <1>3, <1>4 DEF LeadsHome

LEMMA KeptGrows ==
  ASSUME NEW t, NEW u, IsTree(t), Grown(t, u), NEW list, Kept(list, t)
  PROVE  Kept(list, u)
<1>1. ASSUME NEW k \in DOMAIN list PROVE HomeKept(list[k], u)
  <2>1. HomeKept(list[k], t)
    BY DEF Kept
  <2> QED BY <2>1, HomeLeads DEF HomeKept
<1> QED BY <1>1 DEF Kept

\* The step just taken is told with the layers it named.
LEMMA TakenHome ==
  ASSUME NEW t, NEW p, NEW e, Taken(e, p, t)
  PROVE  HomeKept(e, t)
<1>1. PICK refs : refs = InputRefs(p)
  OBVIOUS
<1>2. e.plan = p /\ e.inputs = [k \in DOMAIN refs |-> Resolve(t, refs[k])]
  BY <1>1 DEF Taken, InputLayers, LayersOf
<1>3. e.grounded => \A k \in DOMAIN refs : LeadsHome(t, refs[k])
  BY <1>1 DEF Taken, ToSet
<1>4. e.grounded => \A k \in DOMAIN refs : refs[k] \in DOMAIN t.aliases \ (LatestRefs \cup FinalRefs)
  BY <1>3 DEF LeadsHome
<1>5. e.inputs = [k \in DOMAIN refs |-> e.inputs[k]]
  BY <1>2
<1>6. \A k \in DOMAIN refs : e.inputs[k] = Resolve(t, refs[k])
  BY <1>2
<1> QED BY <1>1, <1>2, <1>4, <1>5, <1>6 DEF HomeKept

\* Two steps that are told by the same signature, each of which named its layers.
LEMMA SameLayers ==
  ASSUME NEW t, NEW p, NEW e, Taken(e, p, t), HasSignature(p), e.grounded,
         NEW s, SameWork(s, p), HomeKept(s, t), s.grounded
  PROVE  e.inputs = s.inputs
<1>1. PICK refs : refs = InputRefs(p)
  OBVIOUS
<1>2. InputRefs(s.plan) = refs
  BY <1>1, SameRefs DEF SameWork
<1>3. e.inputs = [k \in DOMAIN refs |-> Resolve(t, refs[k])]
  BY <1>1 DEF Taken, InputLayers, LayersOf
<1>4. \A k \in DOMAIN refs : LeadsHome(t, refs[k])
  BY <1>1 DEF Taken, ToSet
<1>5. s.inputs = [k \in DOMAIN refs |-> s.inputs[k]] /\ \A k \in DOMAIN refs : Resolve(t, refs[k]) = s.inputs[k]
  BY <1>2, <1>4 DEF HomeKept
<1> QED BY <1>3, <1>5

LEMMA AppendKept ==
  ASSUME NEW list, NEW t, Kept(list, t), NEW p, NEW e, Taken(e, p, t),
         e.cured \/ BeyondRepair(p) \/ \E j \in DOMAIN list : list[j].reused
  PROVE  Kept(Append(list, e), t)
<1>1. IsList(list) /\ (\A k \in DOMAIN list : HomeKept(list[k], t)) /\ SkipsSame(list) /\ CuredAll(list)
  BY DEF Kept
<1>2. PICK n \in Nat : n = Len(list) /\ DOMAIN list = 1..n
  BY <1>1, ListPlaces
<1>3. PICK new : new = Append(list, e)
  OBVIOUS
<1>4. IsList(new) /\ DOMAIN new = 1..(n + 1) /\ new[n + 1] = e /\ \A k \in 1..n : new[k] = list[k]
  <2>1. IsList(new) /\ Len(new) = n + 1
    BY <1>1, <1>2, <1>3, ListAppend
  <2>2. DOMAIN new = 1..(n + 1)
    BY <2>1, ListPlaces
  <2>3. list \in Seq(ToSet(list))
    BY <1>1 DEF IsList
  <2>4. new[n + 1] = e /\ \A k \in 1..n : new[k] = list[k]
    BY <1>2, <1>3, <2>3
  <2> QED BY <2>1, <2>2, <2>4
<1>5. \A k \in 1..(n + 1) : k \in 1..n \/ k = n + 1
  OBVIOUS
<1>6. HomeKept(e, t) /\ e.plan = p
  BY TakenHome DEF Taken
<1>7. \A k \in DOMAIN new : HomeKept(new[k], t)
  BY <1>1, <1>2, <1>4, <1>5, <1>6
<1>8. SkipsSame(new)
  <2> SUFFICES ASSUME NEW k \in 1..(n + 1), new[k].how = "skip"
               PROVE  /\ new[k].ok
                      /\ \A j \in 1..k : SameWork(new[j], new[k].plan) /\ new[k].grounded /\ new[j].grounded
                                           => new[k].inputs = new[j].inputs
    BY <1>4 DEF SkipsSame
  <2>1. CASE k \in 1..n
    <3>1. new[k] = list[k] /\ \A j \in 1..k : new[j] = list[j]
      BY <1>4, <2>1
    <3> QED BY <1>1, <1>2, <2>1, <3>1 DEF SkipsSame
  <2>2. CASE k = n + 1
    <3>1. new[k] = e /\ e.ok /\ HasSignature(p)
      BY <1>4, <2>2 DEF Taken
    <3>2. ASSUME NEW j \in 1..n, SameWork(new[j], p), e.grounded, new[j].grounded
          PROVE  e.inputs = new[j].inputs
      BY <1>4, <1>7, <3>1, <3>2, SameLayers
    <3> QED BY <1>4, <1>5, <1>6, <2>2, <3>1, <3>2
  <2> QED BY <1>5, <2>1, <2>2
<1>9. CuredAll(new)
  <2> SUFFICES ASSUME NEW k \in 1..(n + 1)
               PROVE  new[k].cured \/ BeyondRepair(new[k].plan) \/ \E j \in 1..k : new[j].reused
    BY <1>4 DEF CuredAll
  <2>1. CASE k \in 1..n
    <3>1. new[k] = list[k] /\ \A j \in 1..k : new[j] = list[j]
      BY <1>4, <2>1
    <3> QED BY <1>1, <1>2, <2>1, <3>1 DEF CuredAll
  <2>2. CASE k = n + 1
    <3>1. \A j \in DOMAIN list : j \in 1..k /\ new[j] = list[j]
      BY <1>2, <1>4, <2>2
    <3> QED BY <1>4, <1>6, <2>2, <3>1
  <2> QED BY <1>5, <2>1, <2>2
<1> QED BY <1>3, <1>4, <1>7, <1>8, <1>9 DEF Kept

\* Nothing is kept of a turn without steps.
LEMMA NothingKept ==
  ASSUME NEW t
  PROVE  Kept(<<>>, t)
<1>1. IsList(<<>>) /\ DOMAIN <<>> = {}
  BY ListShort
<1> QED BY <1>1 DEF Kept, SkipsSame, CuredAll

\* What the model records is taken.
LEMMA StepTaken ==
  ASSUME NEW p, NEW how, NEW res, NEW t, how = "skip" => res.ok /\ HasSignature(p)
  PROVE  Taken(Step(p, how, res, t), p, t) /\ Step(p, how, res, t).cured
BY DEF Taken, Step

-----------------------------------------------------------------------------
(* What a confirmed repair has done                                        *)

\* An id that leads home leads to its layer.
LEMMA IdHome ==
  ASSUME NEW t, TreeOK(t), NEW o \in DOMAIN t.layers, LeadsHome(t, LayerId(o))
  PROVE  Resolve(t, LayerId(o)) = o
<1>1. PICK n \in Nat : DOMAIN t.layers = 1..n
  BY ListPlaces DEF TreeOK, IsTree
<1>2. LayerId(o) \in DOMAIN t.aliases /\ LayerId(o) # <<>> /\ LayerId(o) \notin LatestRefs \cup FinalRefs
  BY <1>1, Ids DEF LeadsHome
<1>3. PICK i \in 1..n : i = t.aliases[LayerId(o)]
  BY <1>1, <1>2 DEF TreeOK, IsTree
<1>4. LayerId(o) \in {LayerId(i), t.layers[i].name} /\ IsName(t.layers[i].name)
  BY <1>1, <1>3 DEF LeadsHome, CandidateAliases, TreeOK, IdsDrawn
<1>5. i = o
  BY <1>1, <1>4, Ids
<1> QED BY <1>2, <1>3, <1>5 DEF Resolve

LEMMA ReprojectFits ==
  ASSUME NEW t, TreeOK(t), NEW o \in DOMAIN t.layers, NEW crs, crs # "#", NEW name, Given(name),
         NEW p, p = Reproject(o, crs, name)
  PROVE  /\ FitSlots(p.input, t) /\ p.action = "reproject_layer" /\ OutputName(p) = name
         /\ \A other : CrsOf(p, "target_crs", other) = crs
<1>1. PICK n \in Nat : n = Len(t.layers) /\ DOMAIN t.layers = 1..n
  BY ListPlaces DEF TreeOK, IsTree
<1>2. PICK slots : slots = p.input
  OBVIOUS
<1>3. p.action = "reproject_layer" /\ slots = [input_ref |-> LayerId(o), target_crs |-> <<crs>>, output_name |-> name]
  BY <1>2 DEF Reproject, Plan
<1>4. /\ DOMAIN slots = {"input_ref", "target_crs", "output_name"}
      /\ slots["input_ref"] = LayerId(o) /\ slots["target_crs"] = <<crs>> /\ slots["output_name"] = name
  BY <1>3
<1>5. IsList(LayerId(o)) /\ IsDrawn(LayerId(o), n)
  BY <1>1, Ids, Drawn
<1>6. IsList(name) /\ IsName(name) /\ name # <<>>
  BY DEF Given, IsName
<1>7. IsList(<<crs>>) /\ "#" \notin ToSet(<<crs>>) /\ <<crs>>[1] = crs /\ <<crs>> # <<>>
  <2>1. IsList(<<crs>>) /\ DOMAIN <<crs>> = {1} /\ <<crs>>[1] = crs
    BY ListShort
  <2>2. <<crs>> # <<>>
    OBVIOUS
  <2> QED BY <2>1, <2>2 DEF ToSet
<1>8. ListValues(slots)
  BY <1>4, <1>5, <1>6, <1>7 DEF ListValues
<1>9. RefsDrawn(slots, n)
  BY <1>4, <1>5, <1>6, <1>7 DEF RefsDrawn, PartsOfNames, LayerSlots, ListSlots
<1>10. Slot(p, "output_name") = name /\ Slot(p, "target_crs") = <<crs>>
  BY <1>2, <1>4 DEF Slot
<1> QED BY <1>1, <1>2, <1>3, <1>6, <1>7, <1>8, <1>9, <1>10 DEF FitSlots, OutputName, CrsOf

\* A repair that went well has made one layer, of the CRS and the name it was told.
LEMMA ReprojectRan ==
  ASSUME NEW t, TreeOK(t), NEW o \in DOMAIN t.layers, NEW crs, crs # "#", NEW name, Given(name),
         NEW F, NEW p, p = Reproject(o, crs, name), NEW res \in Outcomes(p, t, F), res.ok
  PROVE  \E l : /\ NewLayer(l, t) /\ res.tree = AddLayer(t, l)
                /\ l.name = name /\ l.crs = crs /\ l.role = "intermediate" /\ l.act = "reproject_layer"
<1>1. /\ FitSlots(p.input, t) /\ p.action = "reproject_layer" /\ OutputName(p) = name
      /\ \A other : CrsOf(p, "target_crs", other) = crs
  BY ReprojectFits
<1>2. PICK ins : ins = InputLayers(p, t)
  OBVIOUS
<1>3. IsList(ins) /\ \A k \in DOMAIN ins : ins[k] \in DOMAIN t.layers \cup {None}
  BY <1>1, <1>2, InputsList, InputsThere DEF FitSlots
<1>4. ~Failed(t, F).ok
  BY DEF Failed, Result
<1>5. res \in {Execute(p, t, F, ins)} \cup Interrupted(p, t, F, ins)
  BY <1>2 DEF Outcomes, OutcomesOn
<1>6. Interrupted(p, t, F, ins) = {Failed(t, F)}
  BY <1>1 DEF Interrupted
<1>7. Execute(p, t, F, ins) = RunAlgorithm(p, t, F, ins)
  BY <1>1 DEF Execute, RegisteredTool, ToolContract, Contract
<1>8. res = RunAlgorithm(p, t, F, ins) /\ ins # <<>> /\ None \notin ToSet(ins)
  BY <1>4, <1>5, <1>6, <1>7 DEF RunAlgorithm
<1>9. \A k \in DOMAIN ins : ins[k] \in DOMAIN t.layers
  BY <1>3, <1>8 DEF ToSet
<1>10. PICK l : l = OutputLayer(p, t, ins)
  OBVIOUS
<1>11. /\ NewLayer(l, t) /\ l.name = name /\ l.role = "intermediate" /\ l.act = "reproject_layer" /\ l.crs = crs
  BY <1>1, <1>3, <1>8, <1>9, <1>10, OutputNew
<1>12. res = Registered(t, F, l, WrittenPath(p))
  BY <1>8, <1>10 DEF RunAlgorithm
<1>13. res.tree = AddLayer(t, l)
  BY <1>12 DEF Registered, Result
<1> QED BY <1>11, <1>13

\* What a repair is called by, and what it is for.
Called(task, name) == RepairSlot(task.intent) # "" /\ RepairPatch(task) = Setting(RepairSlot(task.intent), name)

ForTask(task, t, o, crs) ==
  \/ ForDistance(task.question[1], Asked(task), t, o, crs) /\ task.intent = "buffer_layer"
  \/ ForPair(task.question[1], Asked(task), t, o, crs) /\ OverlaySlot(task.intent) # ""

\* The pair meets in the CRS of layer r.
PairMeets(p, t, r) ==
  \/ BeyondRepair(p) \/ Resolve(t, Slot(p, PairInput(p.action))) = None
  \/ t.layers[Resolve(t, Slot(p, PairInput(p.action)))].crs = t.layers[r].crs

Cures(task, t, r) ==
  \/ /\ task.question[1] = "distance_requires_projected_crs" /\ task.intent = "buffer_layer"
     /\ t.layers[r].crs = CrsOf(Asked(task), "target_crs", RecommendedCrs)
  \/ /\ task.question[1] = "overlay_crs_mismatch" /\ OverlaySlot(task.intent) # ""
     /\ PairMeets(Asked(task), t, r)

\* The output of a repair, and the name the patch calls it by.
Repaired(task, t, s, r, name) ==
  /\ Given(name) /\ Called(task, name)
  /\ t.aliases[LayerId(r)] = r /\ (s.reused \/ (name \in DOMAIN t.aliases /\ t.aliases[name] = r))
  /\ Cures(task, t, r)

\* The step read one layer, by its id.
ReadOf(s, o) ==
  \A k \in DOMAIN InputRefs(s.plan) : InputRefs(s.plan)[k] = LayerId(o) /\ (s.grounded => s.inputs[k] = o)

Done(task, t, list) ==
  /\ DOMAIN list = {1}
  /\ \E o \in DOMAIN t.layers : ReadOf(list[1], o)
  /\ \E r, name : r \in DOMAIN t.layers /\ Repaired(task, t, list[1], r, name)

\* The one step of a repair.
LEMMA RepairHead ==
  ASSUME NEW t, TreeOK(t), NEW task, HasRepair(task), TaskDrawn(task, t), TaskShape(task, t), task.repair.steps # <<>>
  PROVE  /\ Tail(task.repair.steps) = <<>>
         /\ \E o, crs, name :
              /\ o \in DOMAIN t.layers
              /\ Head(task.repair.steps) = Reproject(o, crs, name) /\ Given(name) /\ crs # "#"
              /\ Called(task, name) /\ ForTask(task, t, o, crs)
<1>1. PICK code, run : code = task.question[1] /\ run = task.repair.steps
  OBVIOUS
<1>2. Wanted(code, run, task.repair.patch, Asked(task), t)
  BY <1>1 DEF TaskShape
<1>3. ~ForFile(code, run, task.repair.patch, Asked(task))
  BY <1>1 DEF ForFile
<1>4. PICK o, crs, name :
        /\ o \in DOMAIN t.layers
        /\ Given(name) /\ run = <<Reproject(o, crs, name)>>
        /\ RepairSlot(task.intent) # "" /\ RepairPatch(task) = Setting(RepairSlot(task.intent), name)
        /\ \/ ForDistance(code, Asked(task), t, o, crs) /\ task.intent = "buffer_layer"
           \/ ForPair(code, Asked(task), t, o, crs) /\ OverlaySlot(task.intent) # ""
  BY <1>2, <1>3, WantedPatch
<1>5. crs # "#"
  <2>1. CASE ForDistance(code, Asked(task), t, o, crs)
    <3>1. FitSlots(Asked(task).input, t)
      BY DEF TaskDrawn, Asked, Plan
    <3>2. "target_crs" \in PartsOfNames /\ RecommendedCrs # "#"
      BY DEF PartsOfNames, RecommendedCrs
    <3>3. crs = CrsOf(Asked(task), "target_crs", RecommendedCrs)
      BY <2>1 DEF ForDistance
    <3> QED BY <3>1, <3>2, <3>3, CleanSlot
  <2>2. CASE ForPair(code, Asked(task), t, o, crs)
    <3>1. PICK i \in DOMAIN t.layers : crs = t.layers[i].crs
      BY <2>2 DEF ForPair
    <3> QED BY <3>1 DEF TreeOK, IdsDrawn
  <2> QED BY <1>4, <2>1, <2>2
<1>6. Head(run) = Reproject(o, crs, name) /\ Tail(run) = <<>>
  <2>1. PICK x : x = Reproject(o, crs, name)
    OBVIOUS
  <2>2. Head(<<x>>) = x /\ Tail(<<x>>) = <<>>
    OBVIOUS
  <2> QED BY <1>4, <2>1, <2>2
<1> QED BY <1>1, <1>4, <1>5, <1>6 DEF Called, ForTask

LEMMA RepairCures ==
  ASSUME NEW t, TreeOK(t), NEW task, NEW o \in DOMAIN t.layers, NEW crs,
         ForTask(task, t, o, crs),
         NEW l, NewLayer(l, t), l.role = "intermediate", l.act = "reproject_layer", l.crs = crs,
         NEW u, u = AddLayer(t, l), NEW r, r = Len(t.layers) + 1
  PROVE  Cures(task, u, r)
<1>1. /\ Grown(t, u) /\ u.layers[r] = l
  BY OneAdded
<1>2. PICK p : p = Asked(task)
  OBVIOUS
<1>3. CASE ForDistance(task.question[1], p, t, o, crs) /\ task.intent = "buffer_layer"
  BY <1>1, <1>2, <1>3 DEF Cures, ForDistance
<1>4. CASE ForPair(task.question[1], p, t, o, crs) /\ OverlaySlot(task.intent) # ""
  <2>1. PICK ref : ref = Slot(p, PairInput(p.action))
    OBVIOUS
  <2>2. PICK i \in DOMAIN t.layers : i = Resolve(t, ref) /\ crs = t.layers[i].crs
    BY <1>4, <2>1 DEF ForPair
  <2>3. task.question[1] = "overlay_crs_mismatch" /\ OverlaySlot(p.action) # ""
    BY <1>4 DEF ForPair
  <2>4. ParsePhrase(ref).relation = "predecessor" => BeyondRepair(p)
    BY <2>1, <2>3 DEF BeyondRepair
  <2>5. ParsePhrase(ref).relation # "predecessor" => Resolve(u, ref) \in {None, r, i}
    BY <2>2, ResolvedAfter
  <2>6. u.layers[i] = t.layers[i] /\ u.layers[r].crs = crs
    BY <1>1, <2>2 DEF Grown
  <2>7. PairMeets(p, u, r)
    BY <2>1, <2>2, <2>4, <2>5, <2>6 DEF PairMeets
  <2> QED BY <1>2, <1>4, <2>3, <2>7 DEF Cures
<1> QED BY <1>2, <1>3, <1>4 DEF ForTask

LEMMA RepairDone ==
  ASSUME NEW t, TreeOK(t), NEW task, HasRepair(task), TaskDrawn(task, t), TaskShape(task, t), task.repair.steps # <<>>,
         NEW p, p = Head(task.repair.steps), NEW F, NEW res \in Outcomes(p, t, F), res.ok,
         NEW e, Taken(e, p, t), e.reused \/ OutputName(p) \notin DOMAIN t.aliases
  PROVE  Done(task, res.tree, Append(<<>>, e))
<1>1. PICK o, crs, name :
        /\ o \in DOMAIN t.layers /\ p = Reproject(o, crs, name) /\ Given(name) /\ crs # "#"
        /\ Called(task, name) /\ ForTask(task, t, o, crs)
  BY RepairHead
<1>2. PICK l : /\ NewLayer(l, t) /\ res.tree = AddLayer(t, l)
               /\ l.name = name /\ l.crs = crs /\ l.role = "intermediate" /\ l.act = "reproject_layer"
  BY <1>1, ReprojectRan
<1>3. PICK u, r : u = AddLayer(t, l) /\ r = Len(t.layers) + 1
  OBVIOUS
<1>4. /\ TreeOK(u) /\ Grown(t, u) /\ r \in Nat \ {0} /\ DOMAIN u.layers = 1..r
      /\ u.aliases[LayerId(r)] = r /\ name \in DOMAIN u.aliases
      /\ \A a \in DOMAIN u.aliases : a \in DOMAIN t.aliases \/ u.aliases[a] = r
  BY <1>2, <1>3, OneAdded
<1>5. Cures(task, u, r)
  BY <1>1, <1>2, <1>3, RepairCures
<1>6. OutputName(p) = name /\ FitSlots(p.input, t)
  <2>1. Given(name) /\ crs # "#" /\ o \in DOMAIN t.layers
    BY <1>1
  <2>2. p = Reproject(o, crs, name)
    BY <1>1
  <2>3. FitSlots(p.input, t)
    BY <2>1, <2>2, ReprojectFits
  <2>4. Slot(p, "output_name") = name /\ name # <<>>
    BY <2>1, <2>2 DEF Reproject, Plan, Slot, Given
  <2> QED BY <2>3, <2>4 DEF OutputName
<1>7. r \in DOMAIN u.layers /\ Repaired(task, u, e, r, name)
  <2>1. e.reused \/ name \notin DOMAIN t.aliases
    BY <1>6
  <2>2. e.reused \/ (name \in DOMAIN u.aliases /\ u.aliases[name] = r)
    BY <1>4, <2>1
  <2> QED BY <1>1, <1>4, <1>5, <2>2 DEF Repaired
<1>8. ReadOf(e, o) /\ o \in DOMAIN u.layers
  <2>1. \A k \in DOMAIN InputRefs(p) : InputRefs(p)[k] = LayerId(o)
    BY <1>1, <1>6, ReprojectReads DEF FitSlots
  <2>2. e.plan = p /\ \A k \in DOMAIN InputRefs(p) : e.inputs[k] = Resolve(t, InputRefs(p)[k])
    BY DEF Taken, InputLayers, LayersOf
  <2>3. e.grounded => \A k \in DOMAIN InputRefs(p) : LeadsHome(t, InputRefs(p)[k])
    BY DEF Taken, ToSet
  <2>4. e.grounded => \A k \in DOMAIN InputRefs(p) : e.inputs[k] = o
    BY <1>1, <2>1, <2>2, <2>3, IdHome
  <2> QED BY <1>1, <1>4, <2>1, <2>2, <2>4 DEF ReadOf, Grown
<1>9. PICK list : list = Append(<<>>, e)
  OBVIOUS
<1>10. DOMAIN list = {1} /\ list[1] = e
  BY <1>9
<1> QED BY <1>2, <1>3, <1>7, <1>8, <1>9, <1>10 DEF Done

-----------------------------------------------------------------------------
(* The original action of a confirmed repair, and the names moved for it   *)

\* When it runs: at once, where the user's word is all that was missing, or
\* after the repair.
Ready(task, t, list) ==
  \/ list = <<>> /\ task.repair.steps = <<>> /\ TaskShape(task, t)
  \/ Done(task, t, list)

LEMMA RepairedSlots ==
  ASSUME NEW task, NEW s, NEW v, RepairPatch(task) = Setting(s, v), NEW p, p = RepairedPlan(task)
  PROVE  /\ p.action = task.intent /\ Slot(p, s) = v
         /\ \A other : other # s => Slot(p, other) = Slot(Asked(task), other)
<1>1. DOMAIN RepairPatch(task) = {s} /\ RepairPatch(task)[s] = v
  BY DEF Setting
<1>2. PICK patch : patch = RepairPatch(task)
  OBVIOUS
<1>3. p.input = [x \in DOMAIN task.filled \cup DOMAIN patch |-> IF x \in DOMAIN patch THEN patch[x] ELSE task.filled[x]]
  BY <1>2 DEF RepairedPlan, Plan, Merged
<1>4. p.action = task.intent
  BY DEF RepairedPlan, Plan
<1>5. Asked(task).input = task.filled
  BY DEF Asked, Plan
<1> QED BY <1>1, <1>2, <1>3, <1>4, <1>5 DEF Slot

LEMMA Redirected ==
  ASSUME NEW t, TreeOK(t), NEW task, HasRepair(task), TaskDrawn(task, t),
         NEW u, u = AliasRepairedLayers(t, task), NEW p, p = RepairedPlan(task)
  PROVE  /\ TreeOK(u) /\ FitSlots(p.input, u) /\ u.layers = t.layers
         /\ \/ u = t
            \/ \E name : \E i \in DOMAIN t.layers :
                 Given(name) /\ Called(task, name) /\ i = Resolve(t, name) /\ Moved(t, u, t.aliases[LayerId(i)])
<1>1. Patched(task) /\ FitSlots(task.filled, t)
  BY DEF TaskDrawn
<1>2. FitSlots(RepairPatch(task), t) /\ DOMAIN RepairPatch(task) \cap ListSlots = {}
  BY <1>1, PatchDrawn DEF TreeOK
<1>3. RefsDrawn(task.filled, Len(t.layers))
  BY <1>1 DEF FitSlots
<1>4. /\ TreeOK(u)
      /\ \/ u = t
         \/ \E slot \in DOMAIN RepairPatch(task) \cap LayerSlots :
            \E i \in DOMAIN t.layers :
              i = Resolve(t, RepairPatch(task)[slot]) /\ Moved(t, u, t.aliases[LayerId(i)])
  BY <1>2, <1>3, RepairedAliases
<1>5. u.layers = t.layers
  BY <1>4 DEF Moved
<1>6. FitSlots(p.input, u)
  <2>1. p.input = Merged(task.filled, RepairPatch(task))
    BY DEF RepairedPlan, Plan
  <2>2. FitSlots(p.input, t)
    BY <1>1, <1>2, <2>1, SlotsFit
  <2> QED BY <1>5, <2>2 DEF FitSlots
<1>7. ASSUME NEW slot \in DOMAIN RepairPatch(task) \cap LayerSlots
      PROVE  \E name : Given(name) /\ Called(task, name) /\ RepairPatch(task)[slot] = name
  <2>1. RepairPatch(task) # Setting("overwrite", <<"yes">>)
    <3>1. DOMAIN Setting("overwrite", <<"yes">>) = {"overwrite"}
      BY DEF Setting
    <3> QED BY <3>1 DEF LayerSlots
  <2>2. PICK name : RepairSlot(task.intent) # "" /\ Given(name) /\ RepairPatch(task) = Setting(RepairSlot(task.intent), name)
    BY <1>1, <2>1 DEF Patched
  <2>3. RepairPatch(task)[slot] = name
    BY <2>2 DEF Setting
  <2> QED BY <2>2, <2>3 DEF Called
<1> QED BY <1>4, <1>5, <1>6, <1>7

\* The output of a repair that took a name of its own is where the names go.
LEMMA RedirectedTo ==
  ASSUME NEW t, TreeOK(t), NEW task, HasRepair(task), TaskDrawn(task, t),
         NEW u, u = AliasRepairedLayers(t, task), NEW p, p = RepairedPlan(task),
         NEW s, NEW r \in DOMAIN t.layers, NEW name, Repaired(task, t, s, r, name), ~s.reused
  PROVE  /\ u = t \/ Moved(t, u, r)
         /\ Slot(p, RepairSlot(task.intent)) = name /\ Resolve(u, name) = r
<1>1. Given(name) /\ Called(task, name) /\ name \in DOMAIN t.aliases /\ t.aliases[name] = r /\ t.aliases[LayerId(r)] = r
  BY DEF Repaired
<1>2. RepairPatch(task) = Setting(RepairSlot(task.intent), name)
  BY <1>1 DEF Called
<1>3. Resolve(t, name) = r
  BY <1>1 DEF Resolve, Given
<1>4. ASSUME NEW other, Called(task, other) PROVE other = name
  <2>1. Setting(RepairSlot(task.intent), other) = Setting(RepairSlot(task.intent), name)
    BY <1>2, <1>4 DEF Called
  <2>2. \A v : Setting(RepairSlot(task.intent), v)[RepairSlot(task.intent)] = v
    BY DEF Setting
  <2>3. Setting(RepairSlot(task.intent), other)[RepairSlot(task.intent)] = other
    BY <2>2
  <2>4. Setting(RepairSlot(task.intent), name)[RepairSlot(task.intent)] = name
    BY <2>2
  <2> QED BY <2>1, <2>3, <2>4
<1>5. u = t \/ Moved(t, u, r)
  <2>1. \/ u = t
        \/ \E n : \E i \in DOMAIN t.layers :
             Given(n) /\ Called(task, n) /\ i = Resolve(t, n) /\ Moved(t, u, t.aliases[LayerId(i)])
    BY Redirected
  <2> QED BY <1>1, <1>3, <1>4, <2>1
<1>6. Resolve(u, name) = r
  <2>1. name # <<>> /\ name \notin LatestRefs \cup FinalRefs
    BY <1>1 DEF Given
  <2>2. Moved(t, u, r) => Resolve(u, name) = Resolve(t, name) \/ Resolve(u, name) = r
    BY ResolvedMoved
  <2> QED BY <1>3, <1>5, <2>2
<1> QED BY <1>2, <1>5, <1>6, RepairedSlots

\* The objection that was confirmed is not raised again.
LEMMA NotAgain ==
  ASSUME NEW p, ListValues(p.input), NEW u, TreeOK(u), NEW F, NEW code \in RepairCodes,
         \A run, patch : ~Wanted(code, run, patch, p, u)
  PROVE  \A i \in ToSet(Validate(p, u, F)) : i.code # code
<1>1. Shaped(Validate(p, u, F), p, u)
  BY ValidateShaped
<1>2. SUFFICES ASSUME NEW i \in ToSet(Validate(p, u, F)), i.code = code PROVE FALSE
  OBVIOUS
<1>3. Plain(i) \/ WantedFor(i, p, u)
  BY <1>1 DEF Shaped, ToSet
<1>4. ~Plain(i)
  BY <1>2 DEF Plain
<1> QED BY <1>2, <1>3, <1>4 DEF WantedFor

\* A repair without steps is the user's word to overwrite.
LEMMA WordPatch ==
  ASSUME NEW t, NEW task, HasRepair(task), TaskShape(task, t), task.repair.steps = <<>>
  PROVE  task.question[1] = "output_exists" /\ RepairPatch(task) = Setting("overwrite", <<"yes">>)
<1>1. PICK code : code = task.question[1]
  OBVIOUS
<1>2. Wanted(code, <<>>, task.repair.patch, Asked(task), t)
  BY <1>1 DEF TaskShape
<1>3. \A o, crs, name : <<>> # <<Reproject(o, crs, name)>>
  OBVIOUS
<1>4. code = "output_exists" /\ RepairPatch(task) = Setting("overwrite", <<"yes">>)
  <2>1. PICK run, patch : run = <<>> /\ patch = task.repair.patch
    OBVIOUS
  <2>2. \A o, crs, name : run # <<Reproject(o, crs, name)>>
    BY <1>3, <2>1
  <2>3. ForFile(code, run, patch, Asked(task))
    BY <1>2, <2>1, <2>2 DEF Wanted, ForCrs
  <2>4. code = "output_exists" /\ task.repair.patch = [overwrite |-> <<"yes">>]
    BY <2>1, <2>3 DEF ForFile
  <2> QED BY <2>4, RepairSet
<1> QED BY <1>1, <1>4

LEMMA CuredByWord ==
  ASSUME NEW t, TreeOK(t), NEW task, HasRepair(task), TaskDrawn(task, t), TaskShape(task, t), task.repair.steps = <<>>,
         NEW u, u = AliasRepairedLayers(t, task), NEW p, p = RepairedPlan(task), NEW F
  PROVE  \A i \in ToSet(Validate(p, u, F)) : i.code # task.question[1]
<1>1. PICK code : code = task.question[1]
  OBVIOUS
<1>2. code = "output_exists" /\ RepairPatch(task) = Setting("overwrite", <<"yes">>)
  BY <1>1, WordPatch
<1>3. Slot(p, "overwrite") # <<>>
  <2>1. Slot(p, "overwrite") = <<"yes">>
    BY <1>2, RepairedSlots
  <2> QED BY <2>1
<1>4. \A run, patch : ~Wanted("output_exists", run, patch, p, u)
  BY <1>3 DEF Wanted, ForFile, ForCrs, ForDistance, ForPair
<1>5. TreeOK(u) /\ FitSlots(p.input, u)
  BY Redirected
<1>6. "output_exists" \in RepairCodes
  BY DEF RepairCodes
<1>7. \A i \in ToSet(Validate(p, u, F)) : i.code # "output_exists"
  BY <1>4, <1>5, <1>6, NotAgain DEF FitSlots
<1> QED BY <1>1, <1>2, <1>7

\* What is beyond repair was so as it was asked.
LEMMA BeyondAsked ==
  ASSUME NEW task, NEW v, RepairPatch(task) = Setting(RepairSlot(task.intent), v), NEW p, p = RepairedPlan(task)
  PROVE  /\ p.action = task.intent /\ Asked(task).action = task.intent
         /\ task.intent = "buffer_layer" => Slot(p, "target_crs") = Slot(Asked(task), "target_crs")
         /\ OverlaySlot(task.intent) # "" =>
              /\ RepairSlot(task.intent) = OverlaySlot(task.intent)
              /\ Slot(p, PairInput(task.intent)) = Slot(Asked(task), PairInput(task.intent))
         /\ BeyondRepair(Asked(task)) => BeyondRepair(p)
<1>1. PICK slot : slot = RepairSlot(task.intent) /\ RepairPatch(task) = Setting(slot, v)
  OBVIOUS
<1>2. p.action = task.intent /\ Asked(task).action = task.intent
  BY DEF RepairedPlan, Asked, Plan
<1>3. \A other : other # RepairSlot(task.intent) => Slot(p, other) = Slot(Asked(task), other)
  BY <1>1, RepairedSlots
<1>4. task.intent = "buffer_layer" => "target_crs" # RepairSlot(task.intent)
  BY DEF RepairSlot
<1>5. OverlaySlot(task.intent) # "" => RepairSlot(task.intent) = OverlaySlot(task.intent)
  BY DEF RepairSlot, OverlaySlot
<1>6. OverlaySlot(task.intent) # "" => PairInput(task.intent) # OverlaySlot(task.intent)
  BY DEF PairInput, OverlaySlot
<1>7. /\ task.intent = "buffer_layer" => Slot(p, "target_crs") = Slot(Asked(task), "target_crs")
      /\ OverlaySlot(task.intent) # "" => Slot(p, PairInput(task.intent)) = Slot(Asked(task), PairInput(task.intent))
  BY <1>3, <1>4, <1>5, <1>6
<1> QED BY <1>2, <1>5, <1>7 DEF BeyondRepair, CrsOf

LEMMA CuredByRepair ==
  ASSUME NEW t, TreeOK(t), NEW task, HasRepair(task), TaskDrawn(task, t),
         NEW u, u = AliasRepairedLayers(t, task), NEW p, p = RepairedPlan(task), NEW F,
         NEW s, NEW r \in DOMAIN t.layers, NEW name, Repaired(task, t, s, r, name), ~s.reused, ~BeyondRepair(p)
  PROVE  \A i \in ToSet(Validate(p, u, F)) : i.code # task.question[1]
<1>1. PICK code, slot : code = task.question[1] /\ slot = RepairSlot(task.intent)
  OBVIOUS
<1>2. RepairPatch(task) = Setting(slot, name) /\ Cures(task, t, r)
  BY <1>1 DEF Repaired, Called
<1>3. (u = t \/ Moved(t, u, r)) /\ Slot(p, slot) = name /\ Resolve(u, name) = r
  BY <1>1, RedirectedTo
<1>4. TreeOK(u) /\ FitSlots(p.input, u) /\ u.layers = t.layers
  BY Redirected
<1>5. /\ p.action = task.intent /\ Asked(task).action = task.intent
      /\ task.intent = "buffer_layer" => Slot(p, "target_crs") = Slot(Asked(task), "target_crs")
      /\ OverlaySlot(task.intent) # "" => slot = OverlaySlot(task.intent) /\ Slot(p, PairInput(task.intent)) = Slot(Asked(task), PairInput(task.intent))
      /\ ~BeyondRepair(Asked(task))
  BY <1>1, <1>2, BeyondAsked
<1>6. CASE /\ code = "distance_requires_projected_crs" /\ task.intent = "buffer_layer"
           /\ t.layers[r].crs = CrsOf(Asked(task), "target_crs", RecommendedCrs)
  <2>1. t.layers[r].crs \notin GeographicCrs
    BY <1>5, <1>6 DEF BeyondRepair
  <2>2. slot = "input_ref"
    BY <1>1, <1>6 DEF RepairSlot
  <2>3. Resolve(u, Slot(p, "input_ref")) = r /\ u.layers[r].crs \notin GeographicCrs
    BY <1>3, <1>4, <2>1, <2>2
  <2>4. \A o, crs : ~ForDistance("distance_requires_projected_crs", p, u, o, crs)
    BY <2>3 DEF ForDistance
  <2>5. \A run, patch : ~Wanted("distance_requires_projected_crs", run, patch, p, u)
    BY <2>4 DEF Wanted, ForFile, ForCrs, ForPair
  <2>6. "distance_requires_projected_crs" \in RepairCodes
    BY DEF RepairCodes
  <2> QED BY <1>1, <1>4, <1>6, <2>5, <2>6, NotAgain DEF FitSlots
<1>7. CASE /\ code = "overlay_crs_mismatch" /\ OverlaySlot(task.intent) # "" /\ PairMeets(Asked(task), t, r)
  <2>1. PICK ref : ref = Slot(p, PairInput(p.action))
    OBVIOUS
  <2>2. Resolve(t, ref) = None \/ t.layers[Resolve(t, ref)].crs = t.layers[r].crs
    BY <1>5, <1>7, <2>1 DEF PairMeets
  <2>3. Resolve(u, ref) = Resolve(t, ref) \/ Resolve(u, ref) = r
    BY <1>3, ResolvedMoved
  <2>4. Resolve(u, Slot(p, OverlaySlot(p.action))) = r
    BY <1>3, <1>5, <1>7
  <2>5. None \notin DOMAIN u.layers
    <3>1. PICK n \in Nat : DOMAIN u.layers = 1..n
      BY <1>4, ListPlaces DEF TreeOK, IsTree
    <3> QED BY <3>1 DEF None
  <2>6. \A o, crs : ~ForPair("overlay_crs_mismatch", p, u, o, crs)
    BY <1>4, <2>1, <2>2, <2>3, <2>4, <2>5 DEF ForPair
  <2>7. \A run, patch : ~Wanted("overlay_crs_mismatch", run, patch, p, u)
    BY <2>6 DEF Wanted, ForFile, ForCrs, ForDistance
  <2>8. "overlay_crs_mismatch" \in RepairCodes
    BY DEF RepairCodes
  <2> QED BY <1>1, <1>4, <1>7, <2>7, <2>8, NotAgain DEF FitSlots
<1> QED BY <1>1, <1>2, <1>6, <1>7 DEF Cures

\* Names go to a layer the repaired action reads.
LEMMA NamesRead ==
  ASSUME NEW t, TreeOK(t), NEW task, HasRepair(task), TaskDrawn(task, t),
         NEW u, u = AliasRepairedLayers(t, task), NEW p, p = RepairedPlan(task),
         NEW s, NEW r \in DOMAIN t.layers, NEW name, Repaired(task, t, s, r, name), ~s.reused
  PROVE  \A a \in DOMAIN t.aliases :
           a \in DOMAIN u.aliases /\ (u.aliases[a] # t.aliases[a] => u.aliases[a] \in ToSet(InputLayers(p, u)))
<1>1. (u = t \/ Moved(t, u, r)) /\ Slot(p, RepairSlot(task.intent)) = name /\ Resolve(u, name) = r
  <2>1. u = t \/ Moved(t, u, r)
    BY RedirectedTo
  <2>2. Slot(p, RepairSlot(task.intent)) = name
    BY RedirectedTo
  <2>3. Resolve(u, name) = r
    BY RedirectedTo
  <2> QED BY <2>1, <2>2, <2>3
<1>2. ListValues(p.input)
  BY Redirected DEF FitSlots
<1>3. p.action = task.intent /\ RepairSlot(task.intent) # ""
  BY DEF RepairedPlan, Plan, Repaired, Called
<1>4. name \in ToSet(InputRefs(p))
  BY <1>1, <1>2, <1>3, RepairedRead
<1>5. PICK k \in DOMAIN InputRefs(p) : InputRefs(p)[k] = name
  BY <1>4 DEF ToSet
<1>6. InputLayers(p, u)[k] = r /\ k \in DOMAIN InputLayers(p, u)
  BY <1>1, <1>5 DEF InputLayers, LayersOf
<1>7. r \in ToSet(InputLayers(p, u))
  BY <1>6 DEF ToSet
<1> QED BY <1>1, <1>7 DEF Moved

\* All together.
LEMMA OriginalReady ==
  ASSUME NEW t, TreeOK(t), NEW task, HasRepair(task), TaskDrawn(task, t), NEW list, Ready(task, t, list), Kept(list, t),
         NEW u, u = AliasRepairedLayers(t, task), NEW p, p = RepairedPlan(task), NEW F
  PROVE  /\ TreeOK(u) /\ FitSlots(p.input, u) /\ u.layers = t.layers /\ Kept(list, u)
         /\ \/ \A i \in ToSet(Validate(p, u, F)) : i.code # task.question[1]
            \/ BeyondRepair(p) \/ \E j \in DOMAIN list : list[j].reused
         /\ \A a \in DOMAIN t.aliases : a \in DOMAIN u.aliases
         /\ \/ \A a \in DOMAIN t.aliases : u.aliases[a] # t.aliases[a] => u.aliases[a] \in ToSet(InputLayers(p, u))
            \/ \E j \in DOMAIN list : list[j].reused
<1>1. TreeOK(u) /\ FitSlots(p.input, u) /\ u.layers = t.layers
  <2>1. TreeOK(u) /\ u.layers = t.layers
    BY Redirected
  <2>2. FitSlots(p.input, u)
    BY Redirected
  <2> QED BY <2>1, <2>2
<1>2. CASE list = <<>> /\ task.repair.steps = <<>> /\ TaskShape(task, t)
  <2>1. \A i \in ToSet(Validate(p, u, F)) : i.code # task.question[1]
    BY <1>2, CuredByWord
  <2>2. u = t
    <3>1. RepairPatch(task) = Setting("overwrite", <<"yes">>)
      BY <1>2, WordPatch
    <3>2. DOMAIN RepairPatch(task) \cap LayerSlots = {}
      BY <3>1 DEF Setting, LayerSlots
    <3> QED BY <3>2 DEF AliasRepairedLayers
  <2> QED BY <1>1, <1>2, <2>1, <2>2
<1>3. CASE Done(task, t, list)
  <2>1. PICK r, name : r \in DOMAIN t.layers /\ Repaired(task, t, list[1], r, name)
    BY <1>3 DEF Done
  <2>2. PICK o \in DOMAIN t.layers : ReadOf(list[1], o)
    BY <1>3 DEF Done
  <2>3. DOMAIN list = {1}
    BY <1>3 DEF Done
  <2>4. list[1].reused \/ BeyondRepair(p) \/ \A i \in ToSet(Validate(p, u, F)) : i.code # task.question[1]
    BY <2>1, CuredByRepair
  <2>5. DOMAIN t.aliases \subseteq DOMAIN u.aliases
    BY Redirected DEF Moved
  <2>6. list[1].reused \/ \A a \in DOMAIN t.aliases : u.aliases[a] # t.aliases[a] => u.aliases[a] \in ToSet(InputLayers(p, u))
    BY <2>1, NamesRead
  <2>7. HomeKept(list[1], u)
    <3>1. HomeKept(list[1], t)
      BY <2>3 DEF Kept
    <3>2. LeadsHome(u, LayerId(o)) => Resolve(u, LayerId(o)) = o
      BY <1>1, IdHome
    <3> QED BY <2>2, <2>5, <3>1, <3>2 DEF HomeKept, ReadOf
  <2>8. Kept(list, u)
    BY <2>3, <2>7 DEF Kept
  <2> QED BY <1>1, <2>3, <2>4, <2>5, <2>6, <2>8
<1> QED BY <1>2, <1>3 DEF Ready

-----------------------------------------------------------------------------
(* The second invariant: the tree is whole, what waits is told as it was    *)
(* asked, the steps are kept, and a repair under way has just begun or has  *)
(* made the layer that its original action is for.                          *)

Begun == steps = <<>> /\ todo = pending.repair.steps /\ TaskShape(pending, tree)

Holding ==
  /\ world \in DOMAIN Worlds
  /\ TreeOK(tree) /\ Len(Here.tree.layers) <= Len(tree.layers)
  /\ TaskDrawn(pending, tree)
  /\ Kept(steps, tree)
  /\ IF mode = "repair" THEN Begun \/ (todo = <<>> /\ Done(pending, tree, steps)) ELSE TaskShape(pending, tree)

\* What a step may do to names.
NamesMove ==
  \A a \in DOMAIN tree.aliases :
    /\ a \in DOMAIN tree'.aliases
    /\ tree'.aliases[a] # tree.aliases[a] =>
         /\ Last(steps').how = "confirmed"
         /\ \/ tree'.aliases[a] \in ToSet(Last(steps').inputs)
            \/ \E k \in DOMAIN steps' : steps'[k].reused

\* A tree that is better moves no name, and still holds what the world gave.
LEMMA BetterHolds ==
  ASSUME Holding, world' = world, Better(tree, tree')
  PROVE  /\ world' \in DOMAIN Worlds /\ TreeOK(tree') /\ Len(Here'.tree.layers) <= Len(tree'.layers)
         /\ NamesMove
<1>1. PICK t, u : t = tree /\ u = tree'
  OBVIOUS
<1>2. TreeOK(t) /\ TreeOK(u) /\ Grown(t, u)
  BY <1>1 DEF Holding, Better
<1>3. Len(t.layers) \in Nat /\ Len(u.layers) \in Nat /\ Len(t.layers) <= Len(u.layers)
  BY <1>2, FitGrows
<1>4. Here' = Here
  BY DEF Here
<1>5. IsTree(Here.tree)
  BY WorldsAssumption DEF Holding, Here
<1>6. Len(Here.tree.layers) \in Nat
  BY <1>5, ListPlaces DEF IsTree
<1>7. Len(Here.tree.layers) <= Len(t.layers)
  BY <1>1 DEF Holding
<1>8. Len(Here.tree.layers) <= Len(u.layers)
  BY <1>3, <1>6, <1>7
<1>9. NamesMove
  BY <1>1, <1>2 DEF NamesMove, Grown
<1> QED BY <1>1, <1>2, <1>4, <1>8, <1>9 DEF Holding

\* Whatever does no more than grow the tree, tell a task as it is asked and keep the steps.
LEMMA CalmHolds ==
  ASSUME Holding, world' = world, Better(tree, tree'), Told(pending', tree'), Kept(steps', tree'), mode' # "repair"
  PROVE  Holding' /\ NamesMove
<1>1. /\ world' \in DOMAIN Worlds /\ TreeOK(tree') /\ Len(Here'.tree.layers) <= Len(tree'.layers)
      /\ NamesMove
  BY BetterHolds
<1>2. TaskDrawn(pending', tree') /\ TaskShape(pending', tree')
  BY DEF Told
<1> QED BY <1>1, <1>2 DEF Holding

\* What the world offers fits.
LEMMA HereFit ==
  ASSUME Holding
  PROVE  /\ \A p \in Here.plans : FitSlots(p.input, tree)
         /\ \A patch \in Here.patches : FitSlots(patch, tree)
         /\ \A q \in Here.questions : FitSlots(q.filled, tree) /\ \A c \in q.choices : FitChoice(c, tree)
<1>1. PICK t, u : t = Here.tree /\ u = tree
  OBVIOUS
<1>2. /\ IsTree(t)
      /\ \A p \in Here.plans : FitSlots(p.input, t)
      /\ \A patch \in Here.patches : FitSlots(patch, t)
      /\ \A q \in Here.questions : FitSlots(q.filled, t) /\ \A c \in q.choices : FitChoice(c, t)
  BY <1>1, WorldsAssumption DEF Holding, Here
<1>3. Len(t.layers) \in Nat /\ Len(u.layers) \in Nat /\ Len(t.layers) <= Len(u.layers)
  BY <1>1, <1>2, ListPlaces DEF Holding, TreeOK, IsTree
<1>4. (\A slots : FitSlots(slots, t) => FitSlots(slots, u)) /\ \A c : FitChoice(c, t) => FitChoice(c, u)
  BY <1>3, FitLonger
<1> QED BY <1>1, <1>2, <1>4

\* No task is told anywhere.
LEMMA NothingTold ==
  ASSUME NEW t
  PROVE  Told(NoPending, t)
<1>1. ~HasRepair(NoPending)
  BY NothingWaits
<1>2. NoPending.filled = <<>> /\ NoPending.choices = {}
  BY DEF NoPending
<1>3. FitSlots(NoPending.filled, t)
  BY <1>2, SlotsFit
<1> QED BY <1>1, <1>2, <1>3 DEF Told, TaskDrawn, TaskShape

LEMMA SameBetter ==
  ASSUME Holding
  PROVE  Better(tree, tree) /\ FromDict(tree) = tree /\ Restored = tree /\ IsTree(tree) /\ IsList(tree.layers)
<1>1. TreeOK(tree)
  BY DEF Holding
<1>2. Grown(tree, tree)
  BY DEF Grown
<1> QED BY <1>1, <1>2, TreeSame DEF Better, Restored, TreeOK, IsTree

-----------------------------------------------------------------------------
(* The loop holds it                                                       *)

LEMMA PolledHolds ==
  ASSUME AgentInv, mode = "loop", Polled
  PROVE  world' = world /\ mode' # "repair" /\ \A t : Told(pending', t)
<1>1. pending = NoPending
  BY DEF AgentInv, Turning
<1>2. world' = world /\ (pending' = pending \/ pending' = NoPending) /\ (mode' = mode \/ mode' = "idle")
  BY DEF Polled, EndTurn
<1> QED BY <1>1, <1>2, NothingTold

LEMMA EndsHolds ==
  ASSUME NEW result, NEW task, Ends(result, task)
  PROVE  world' = world /\ mode' # "repair" /\ pending' = task
BY DEF Ends, EndTurn

\* A step that asks no tool.
LEMMA RecordHolds ==
  ASSUME Holding, NEW p, NEW how, NEW ok, NEW out, Record(p, how, ok, out), how = "skip" => ok /\ HasSignature(p),
         world' = world, mode' # "repair", Told(pending', tree)
  PROVE  Holding' /\ NamesMove
<1>1. PICK res : res = Result(ok, tree, files, out, <<>>)
  OBVIOUS
<1>2. PICK e : e = Step(p, how, res, tree)
  OBVIOUS
<1>3. steps' = Append(steps, e) /\ tree' = tree
  BY <1>1, <1>2 DEF Record
<1>4. res.ok = ok
  BY <1>1 DEF Result
<1>5. Taken(e, p, tree) /\ e.cured
  <2>1. how = "skip" => res.ok /\ HasSignature(p)
    BY <1>4
  <2> QED BY <1>2, <2>1, StepTaken
<1>6. Kept(steps, tree)
  BY DEF Holding
<1>7. Kept(Append(steps, e), tree)
  BY <1>5, <1>6, AppendKept
<1> QED BY <1>3, <1>7, SameBetter, CalmHolds

\* A tool's step.
LEMMA RanHolds ==
  ASSUME Holding, NEW p, FitSlots(p.input, tree), NEW how, how # "skip", NEW res \in Outcomes(p, tree, files),
         RunTool(p, how, res)
  PROVE  Better(tree, tree') /\ Kept(steps', tree')
<1>1. PICK t, e : t = tree /\ e = Step(p, how, res, tree)
  OBVIOUS
<1>2. steps' = Append(steps, e) /\ tree' = res.tree
  BY <1>1 DEF RunTool, Takes
<1>3. Taken(e, p, t) /\ e.cured
  BY <1>1, StepTaken
<1>4. TreeOK(t) /\ Kept(steps, t)
  BY <1>1 DEF Holding
<1>5. Better(t, res.tree)
  BY <1>1, <1>4, OutcomeTree
<1>6. Kept(Append(steps, e), t)
  BY <1>3, <1>4, AppendKept
<1>7. Kept(Append(steps, e), res.tree)
  <2>1. IsTree(t) /\ Grown(t, res.tree)
    BY <1>4, <1>5 DEF TreeOK, Better
  <2> QED BY <1>6, <2>1, KeptGrows
<1> QED BY <1>1, <1>2, <1>5, <1>7

LEMMA ToolHolds ==
  ASSUME AgentInv, Holding, mode = "loop", NEW p, FitSlots(p.input, tree), ToolStep(p)
  PROVE  Holding' /\ NamesMove
<1>1. PICK res \in Outcomes(p, tree, files) :
        RunTool(p, "loop", res) /\ IF res.ok \/ request.auto_repair THEN Polled ELSE Ends("failed", NoPending)
  BY DEF ToolStep
<1>2. Better(tree, tree') /\ Kept(steps', tree')
  BY <1>1, RanHolds
<1>3. Polled \/ Ends("failed", NoPending)
  BY <1>1
<1>4. world' = world /\ mode' # "repair" /\ Told(pending', tree')
  BY <1>3, PolledHolds, EndsHolds, NothingTold
<1> QED BY <1>2, <1>4, CalmHolds

\* A pause that is told as it is asked.
LEMMA PausesHolds ==
  ASSUME Holding, NEW task, Told(task, tree), Pauses(task)
  PROVE  Holding' /\ NamesMove
<1>1. Ends(task.state, task) /\ tree' = tree /\ steps' = steps
  BY DEF Pauses
<1>2. world' = world /\ mode' # "repair" /\ pending' = task
  BY <1>1, EndsHolds
<1>3. Kept(steps, tree)
  BY DEF Holding
<1> QED BY <1>1, <1>2, <1>3, SameBetter, CalmHolds

\* What the rules object to is told.
LEMMA HardTold ==
  ASSUME Holding, NEW p, FitSlots(p.input, tree), NEW issues, issues = HardIssues(p, tree, files), issues # <<>>
  PROVE  Told(PauseForIssues(p, issues, tree), tree) /\ Told(PauseResumedPlan(p, issues, tree), tree)
<1>1. PICK t : t = tree
  OBVIOUS
<1>2. TreeOK(t) /\ FitSlots(p.input, t) /\ ListValues(p.input)
  BY <1>1 DEF Holding, FitSlots
<1>3. Fits(issues, p, files)
  BY <1>1, <1>2, HardFits
<1>4. Shaped(issues, p, t)
  BY <1>1, <1>2, HardShaped
<1> QED BY <1>1, <1>2, <1>3, <1>4, PauseTold

LEMMA JudgedHolds ==
  ASSUME AgentInv, Holding, NEW p \in Here.plans, Judged(p)
  PROVE  Holding' /\ NamesMove
<1>1. PICK issues : issues = HardIssues(p, tree, files)
  OBVIOUS
<1>2. mode = "loop" /\ Heeds(p, issues)
  BY <1>1 DEF Judged, Chooses
<1>3. FitSlots(p.input, tree)
  BY HereFit
<1>4. CASE issues # <<>> /\ Pauses(PauseForIssues(p, issues, tree))
  <2>1. PICK task : task = PauseForIssues(p, issues, tree)
    OBVIOUS
  <2>2. Told(task, tree)
    BY <1>1, <1>3, <1>4, <2>1, HardTold
  <2> QED BY <1>4, <2>1, <2>2, PausesHolds
<1>5. CASE QualityBlocks(p)
  <2>1. Record(p, "gate", FALSE, None) /\ Polled
    BY <1>5 DEF QualityBlocks
  <2>2. world' = world /\ mode' # "repair" /\ Told(pending', tree)
    BY <1>2, <2>1, PolledHolds
  <2> QED BY <2>1, <2>2, RecordHolds
<1>6. CASE FinalAnswer(p)
  <2>1. Ends("completed", NoPending) /\ tree' = tree /\ steps' = steps
    BY <1>6 DEF FinalAnswer
  <2>2. world' = world /\ mode' # "repair" /\ pending' = NoPending
    BY <2>1, EndsHolds
  <2>3. Kept(steps', tree') /\ Told(pending', tree')
    BY <2>1, <2>2, NothingTold DEF Holding
  <2> QED BY <2>1, <2>2, <2>3, SameBetter, CalmHolds
<1>7. CASE ToolStep(p)
  BY <1>2, <1>3, <1>7, ToolHolds
<1> QED BY <1>2, <1>4, <1>5, <1>6, <1>7 DEF Heeds

LEMMA LoopHolds ==
  ASSUME AgentInv, Holding, LoopNext
  PROVE  Holding' /\ NamesMove
<1>1. CASE SelectionFails
  <2>1. Ends("failed", NoPending) /\ tree' = tree /\ steps' = steps
    BY <1>1 DEF SelectionFails
  <2>2. world' = world /\ mode' # "repair" /\ pending' = NoPending
    BY <2>1, EndsHolds
  <2>3. Kept(steps', tree') /\ Told(pending', tree')
    BY <2>1, <2>2, NothingTold DEF Holding
  <2> QED BY <2>1, <2>2, <2>3, SameBetter, CalmHolds
<1>2. ASSUME NEW p \in Here.plans, MetaContinues(p) PROVE Holding' /\ NamesMove
  <2>1. Record(p, "meta", TRUE, None) /\ Polled /\ mode = "loop"
    BY <1>2 DEF MetaContinues, Chooses
  <2>2. world' = world /\ mode' # "repair" /\ Told(pending', tree)
    BY <2>1, PolledHolds
  <2> QED BY <2>1, <2>2, RecordHolds
<1>3. ASSUME NEW p \in Here.plans, MetaFailsHard(p) PROVE Holding' /\ NamesMove
  <2>1. Record(p, "meta", FALSE, None) /\ Ends("failed", NoPending)
    BY <1>3 DEF MetaFailsHard
  <2>2. world' = world /\ mode' # "repair" /\ Told(pending', tree)
    BY <2>1, EndsHolds, NothingTold
  <2> QED BY <2>1, <2>2, RecordHolds
<1>4. ASSUME NEW p \in Here.plans, DuplicateSkipped(p) PROVE Holding' /\ NamesMove
  <2>1. PICK out : out = RecordFor(p).out
    OBVIOUS
  <2>2. Record(p, "skip", TRUE, out) /\ Polled /\ mode = "loop" /\ HasSignature(p)
    BY <1>4, <2>1 DEF DuplicateSkipped, Chooses, IsDuplicate, HasCompleted
  <2>3. world' = world /\ mode' # "repair" /\ Told(pending', tree)
    BY <2>2, PolledHolds
  <2> QED BY <2>2, <2>3, RecordHolds
<1>5. ASSUME NEW p \in Here.plans, NEW q \in Here.questions, MetaAsks(p, q) PROVE Holding' /\ NamesMove
  <2>1. PICK task : task = ClarificationTask(q)
    OBVIOUS
  <2>2. Record(p, "meta", TRUE, None) /\ Ends("awaiting_user", task)
    BY <1>5, <2>1 DEF MetaAsks
  <2>3. TaskDrawn(pending, tree)
    BY DEF Holding
  <2>4. FitSlots(q.filled, tree) /\ \A c \in q.choices : FitChoice(c, tree)
    BY HereFit
  <2>5. Told(task, tree)
    BY <2>1, <2>3, <2>4, OtherTold
  <2>6. world' = world /\ mode' # "repair" /\ pending' = task
    BY <2>2, EndsHolds
  <2> QED BY <2>2, <2>5, <2>6, RecordHolds
<1> QED BY <1>1, <1>2, <1>3, <1>4, <1>5, JudgedHolds DEF LoopNext

-----------------------------------------------------------------------------
(* Answers hold it                                                         *)

\* A turn that is an answer.
LEMMA AnsweredHolds ==
  ASSUME Holding, NEW t, NEW list, NEW result, NEW task, Answered(t, list, result, task),
         Better(tree, t), Told(task, t), Kept(list, t)
  PROVE  Holding' /\ NamesMove
<1>1. tree' = t /\ steps' = list /\ pending' = task /\ mode' # "repair" /\ world' = world
  BY DEF Answered, EndTurn
<1> QED BY <1>1, CalmHolds

LEMMA AskHolds ==
  ASSUME Holding, NEW task, Told(task, tree), AskWith(task)
  PROVE  Holding' /\ NamesMove
<1>1. Answered(tree, <<>>, task.state, task)
  BY SameBetter DEF AskWith
<1> QED BY <1>1, SameBetter, NothingKept, AnsweredHolds

LEMMA ExecuteHolds ==
  ASSUME Holding, NEW p, FitSlots(p.input, tree), ExecuteResumed(p, tree)
  PROVE  Holding' /\ NamesMove
<1>1. PICK t : t = tree
  OBVIOUS
<1>2. PICK res \in Outcomes(p, t, files) :
        Answered(res.tree, <<Step(p, "resume", res, t)>>, IF res.ok THEN "completed" ELSE "failed", NoPending)
  BY <1>1 DEF ExecuteResumed
<1>3. PICK e : e = Step(p, "resume", res, t)
  OBVIOUS
<1>4. TreeOK(t) /\ FitSlots(p.input, t)
  BY <1>1 DEF Holding
<1>5. Better(t, res.tree)
  BY <1>4, OutcomeTree
<1>6. Taken(e, p, t) /\ e.cured
  BY <1>3, StepTaken
<1>7. Kept(<<>>, t)
  BY NothingKept
<1>8. Kept(Append(<<>>, e), t)
  BY <1>6, <1>7, AppendKept
<1>9. IsTree(t) /\ Grown(t, res.tree)
  BY <1>4, <1>5 DEF TreeOK, Better
<1>10. PICK list : list = Append(<<>>, e)
  OBVIOUS
<1>11. Kept(list, res.tree)
  BY <1>8, <1>9, <1>10, KeptGrows
<1>12. list = <<e>>
  BY <1>10
<1>13. Told(NoPending, res.tree)
  BY NothingTold
<1> QED BY <1>1, <1>2, <1>3, <1>5, <1>11, <1>12, <1>13, AnsweredHolds

LEMMA ValidateHolds ==
  ASSUME Holding, NEW p, FitSlots(p.input, tree), ValidateOrExecute(p)
  PROVE  Holding' /\ NamesMove
<1>1. PICK issues : issues = HardIssues(p, tree, files)
  OBVIOUS
<1>2. HeedsResumed(p, tree, issues)
  BY <1>1, SameBetter DEF ValidateOrExecute, ValidateOn
<1>3. CASE p.action = "final_answer"
  <2>1. Answered(tree, <<>>, "completed", NoPending)
    BY <1>2, <1>3 DEF HeedsResumed
  <2> QED BY <2>1, SameBetter, NothingKept, NothingTold, AnsweredHolds
<1>4. CASE p.action # "final_answer" /\ issues # <<>>
  <2>1. PICK task : task = PauseResumedPlan(p, issues, tree)
    OBVIOUS
  <2>2. AskWith(task)
    BY <1>2, <1>4, <2>1 DEF HeedsResumed
  <2>3. Told(task, tree)
    BY <1>1, <1>4, <2>1, HardTold
  <2> QED BY <2>2, <2>3, AskHolds
<1>5. CASE p.action # "final_answer" /\ issues = <<>>
  <2>1. ExecuteResumed(p, tree)
    BY <1>2, <1>5 DEF HeedsResumed
  <2> QED BY <2>1, ExecuteHolds
<1> QED BY <1>3, <1>4, <1>5

LEMMA PatchHolds ==
  ASSUME Holding, NEW patch, FitSlots(patch, tree), ResumeWithPatch(patch)
  PROVE  Holding' /\ NamesMove
<1>1. PICK valid : valid = IF IsClarificationPending(pending) THEN ValidatedPatch(pending, patch) ELSE patch
  OBVIOUS
<1>2. IF valid = <<>> THEN AskWith(ClarifiedAgain(pending)) ELSE ValidateOrExecute(PlanFromSlotPatch(pending, valid))
  BY <1>1 DEF ResumeWithPatch
<1>3. FitSlots(valid, tree)
  BY <1>1, SlotsFit
<1>4. TaskDrawn(pending, tree) /\ FitSlots(pending.filled, tree)
  BY DEF Holding, TaskDrawn
<1>5. CASE valid = <<>>
  <2>1. PICK task : task = ClarifiedAgain(pending)
    OBVIOUS
  <2>2. Told(task, tree)
    BY <1>4, <2>1, OtherTold
  <2> QED BY <1>2, <1>5, <2>1, <2>2, AskHolds
<1>6. CASE valid # <<>>
  <2>1. PICK p : p = PlanFromSlotPatch(pending, valid)
    OBVIOUS
  <2>2. FitSlots(p.input, tree)
    BY <1>3, <1>4, <2>1, PatchedFits
  <2> QED BY <1>2, <1>6, <2>1, <2>2, ValidateHolds
<1> QED BY <1>5, <1>6

\* The loop starts over what there is.
LEMMA StartHolds ==
  ASSUME Holding, NEW r, StartLoop(r)
  PROVE  Holding' /\ NamesMove
<1>1. tree' = tree /\ steps' = <<>> /\ pending' = NoPending /\ mode' # "repair" /\ world' = world
  BY SameBetter DEF StartLoop
<1>2. Told(pending', tree') /\ Kept(steps', tree')
  BY <1>1, NothingTold, NothingKept
<1> QED BY <1>1, <1>2, SameBetter, CalmHolds

\* So does the repair that is confirmed, which is told as it was asked.
LEMMA ConfirmHolds ==
  ASSUME Holding, Confirm
  PROVE  Holding' /\ NamesMove
<1>1. /\ mode = "idle" /\ tree' = tree /\ steps' = <<>> /\ pending' = pending /\ todo' = pending.repair.steps
      /\ mode' = "repair" /\ world' = world
  BY SameBetter DEF Confirm, TurnStarts
<1>2. TaskDrawn(pending, tree) /\ TaskShape(pending, tree)
  BY <1>1 DEF Holding
<1>3. Kept(<<>>, tree)
  BY NothingKept
<1>4. /\ world' \in DOMAIN Worlds /\ TreeOK(tree') /\ Len(Here'.tree.layers) <= Len(tree'.layers)
      /\ NamesMove
  BY <1>1, SameBetter, BetterHolds
<1>5. Begun'
  BY <1>1, <1>2 DEF Begun
<1>6. TaskDrawn(pending', tree') /\ Kept(steps', tree')
  BY <1>1, <1>2, <1>3
<1> QED BY <1>1, <1>4, <1>5, <1>6 DEF Holding

LEMMA AnswersHold ==
  ASSUME AgentInv, Holding, AnswerNext
  PROVE  Holding' /\ NamesMove
<1>1. TaskDrawn(pending, tree)
  BY DEF Holding
<1>2. Told(ClarifiedAgain(pending), tree) /\ \A question, allowed : Told(AskedAgain(pending, question, allowed), tree)
  BY <1>1, OtherTold
<1>3. CASE Reject
  <2>1. PICK task : task = AskedAgain(pending, <<"rejected">>, {"cancel", "replan"})
    OBVIOUS
  <2> QED BY <1>2, <1>3, <2>1, AskHolds DEF Reject
<1>4. CASE CancelTask
  <2>1. Answered(tree, <<>>, "cancelled", NoPending)
    BY <1>4, SameBetter DEF CancelTask
  <2> QED BY <2>1, SameBetter, NothingKept, NothingTold, AnsweredHolds
<1>5. CASE ReplyNotUnderstood
  <2>1. PICK task : task = IF IsClarificationPending(pending) THEN ClarifiedAgain(pending)
                           ELSE AskedAgain(pending, pending.question, AllowedResumeActions("awaiting_user"))
    OBVIOUS
  <2>2. Told(task, tree)
    BY <1>2, <2>1
  <2> QED BY <1>5, <2>1, <2>2, AskHolds DEF ReplyNotUnderstood
<1>6. ASSUME NEW patch \in Here.patches \cup ChosenPatches, Patch(patch) \/ ReplyPatches(patch)
      PROVE  Holding' /\ NamesMove
  <2>1. \A c \in pending.choices : FitChoice(c, tree)
    BY <1>1 DEF TaskDrawn
  <2>2. \A c : FitChoice(c, tree) => FitSlots([s \in {c.slot} |-> c.value], tree)
    BY SlotsFit
  <2>3. \A chosen \in ChosenPatches : \E c \in pending.choices : chosen = [s \in {c.slot} |-> c.value]
    BY DEF ChosenPatches
  <2>4. FitSlots(patch, tree)
    BY <1>6, <2>1, <2>2, <2>3, HereFit
  <2>5. ResumeWithPatch(patch)
    BY <1>6 DEF Patch, ReplyPatches
  <2> QED BY <2>4, <2>5, PatchHolds
<1>7. ASSUME NEW p \in Here.plans, ReplyReplans(p) PROVE Holding' /\ NamesMove
  <2>1. FitSlots(p.input, tree) /\ ValidateOrExecute(p)
    BY <1>7, HereFit DEF ReplyReplans
  <2> QED BY <2>1, ValidateHolds
<1>8. ASSUME NEW r, Replan(r) PROVE Holding' /\ NamesMove
  BY <1>8, StartHolds DEF Replan
<1> QED BY <1>3, <1>4, <1>5, <1>6, <1>7, <1>8, ConfirmHolds DEF AnswerNext

-----------------------------------------------------------------------------
(* Confirmed repairs hold it                                               *)

LEMMA RepairHolds ==
  ASSUME AgentInv, Holding, RepairStep
  PROVE  Holding' /\ NamesMove
<1>1. PICK t, task, p : t = tree /\ task = pending /\ p = Head(todo)
  OBVIOUS
<1>2. mode = "repair" /\ todo # <<>> /\ HasRepair(task)
  BY <1>1 DEF RepairStep, AgentInv, Turning
<1>3. /\ TreeOK(t) /\ TaskDrawn(task, t) /\ steps = <<>> /\ todo = task.repair.steps /\ TaskShape(task, t)
      /\ task.repair.steps # <<>>
  BY <1>1, <1>2 DEF Holding, Begun
<1>4. PICK res \in Outcomes(p, t, files) :
        /\ RunTool(p, "repair", res)
        /\ IF res.ok THEN todo' = Tail(todo) /\ UNCHANGED <<status, pending, mode>> ELSE EndTurn("failed", NoPending)
  BY <1>1 DEF RepairStep
<1>5. world' = world
  BY DEF RepairStep
<1>6. Tail(todo) = <<>> /\ FitSlots(p.input, t)
  <2>1. Tail(task.repair.steps) = <<>>
    BY <1>2, <1>3, RepairHead
  <2>2. \E o, crs, name :
          o \in DOMAIN t.layers /\ Head(task.repair.steps) = Reproject(o, crs, name) /\ Given(name) /\ crs # "#"
    BY <1>2, <1>3, RepairHead
  <2>3. PICK o, crs, name : o \in DOMAIN t.layers /\ p = Reproject(o, crs, name) /\ Given(name) /\ crs # "#"
    BY <1>1, <1>3, <2>2
  <2>4. FitSlots(p.input, t)
    BY <1>3, <2>3, ReprojectFits
  <2> QED BY <1>3, <2>1, <2>4
<1>7. Better(tree, tree') /\ Kept(steps', tree')
  BY <1>1, <1>4, <1>6, RanHolds
<1>8. CASE res.ok
  <2>1. PICK e : e = Step(p, "repair", res, t)
    OBVIOUS
  <2>2. tree' = res.tree /\ steps' = Append(<<>>, e)
    BY <1>1, <1>3, <1>4, <2>1 DEF RunTool, Takes
  <2>3. Taken(e, p, t)
    BY <2>1, StepTaken
  <2>4. e.reused \/ OutputName(p) \notin DOMAIN t.aliases
    BY <2>1 DEF Step
  <2>5. p = Head(task.repair.steps)
    BY <1>1, <1>3
  <2>6. Done(task, res.tree, Append(<<>>, e))
    BY <1>2, <1>3, <1>8, <2>3, <2>4, <2>5, RepairDone
  <2>7. todo' = <<>> /\ pending' = task /\ mode' = "repair"
    BY <1>1, <1>2, <1>4, <1>6, <1>8
  <2>8. /\ world' \in DOMAIN Worlds /\ TreeOK(tree') /\ Len(Here'.tree.layers) <= Len(tree'.layers)
        /\ NamesMove
    BY <1>5, <1>7, BetterHolds
  <2>9. PICK u : u = tree'
    OBVIOUS
  <2>10. TaskDrawn(task, u)
    <3>1. TreeOK(u) /\ Grown(t, u)
      BY <1>1, <1>7, <2>9 DEF Better
    <3>2. (\A slots : FitSlots(slots, t) => FitSlots(slots, u)) /\ \A c : FitChoice(c, t) => FitChoice(c, u)
      BY <1>3, <3>1, FitGrows
    <3> QED BY <1>3, <3>2 DEF TaskDrawn
  <2> QED BY <1>7, <2>2, <2>6, <2>7, <2>8, <2>9, <2>10 DEF Holding
<1>9. CASE ~res.ok
  <2>1. mode' # "repair" /\ pending' = NoPending
    BY <1>4, <1>9 DEF EndTurn
  <2> QED BY <1>5, <1>7, <2>1, NothingTold, CalmHolds
<1> QED BY <1>8, <1>9

\* The step of a confirmed action is one as it is taken.
LEMMA ConfirmedTaken ==
  ASSUME NEW p, NEW res, NEW t, NEW e, e = ConfirmedStep(p, res, t)
  PROVE  /\ Taken(e, p, t) /\ e.how = "confirmed" /\ e.inputs = InputLayers(p, t)
         /\ (\A i \in ToSet(Validate(p, t, files)) : i.code # pending.question[1]) => e.cured
<1>1. PICK s : s = Step(p, "confirmed", res, t)
  OBVIOUS
<1>2. PICK cured : cured = \A i \in ToSet(Validate(p, t, files)) : i.code # pending.question[1]
  OBVIOUS
<1>3. Taken(s, p, t)
  BY <1>1, StepTaken
<1>4. e = [s EXCEPT !.cured = cured]
  BY <1>1, <1>2, Zenon DEF ConfirmedStep
<1>5. s.how = "confirmed"
  BY <1>1 DEF Step
<1>6. /\ e.plan = s.plan /\ e.how = s.how /\ e.inputs = s.inputs /\ e.grounded = s.grounded /\ e.ok = s.ok
  BY <1>1, <1>4 DEF Step
<1>7. e.cured = cured
  BY <1>1, <1>4 DEF Step
<1>8. Taken(e, p, t)
  BY <1>3, <1>5, <1>6 DEF Taken
<1> QED BY <1>2, <1>5, <1>6, <1>7, <1>8 DEF Taken

\* What is appended comes last, and the rest stays.
LEMMA ListLast ==
  ASSUME NEW s, IsList(s), NEW e
  PROVE  /\ Last(Append(s, e)) = e
         /\ \A k \in DOMAIN s : k \in DOMAIN Append(s, e) /\ Append(s, e)[k] = s[k]
<1> DEFINE S == ToSet(s) \cup {e}
<1>1. Len(s) \in Nat /\ DOMAIN s = 1..Len(s)
  BY ListPlaces
<1>2. s \in Seq(S) /\ e \in S
  <2>1. s = [k \in 1..Len(s) |-> s[k]] /\ \A k \in 1..Len(s) : s[k] \in ToSet(s)
    BY DEF IsList
  <2> QED BY <1>1, <2>1
<1> HIDE DEF S
<1>3. /\ Len(Append(s, e)) = Len(s) + 1 /\ Append(s, e)[Len(s) + 1] = e
      /\ \A k \in 1..Len(s) : k \in DOMAIN Append(s, e) /\ Append(s, e)[k] = s[k]
  BY <1>2
<1> QED BY <1>1, <1>3 DEF Last

\* The original action runs on the tree that has its names moved.
LEMMA OriginalHolds ==
  ASSUME AgentInv, Holding, Original
  PROVE  Holding' /\ NamesMove
<1>1. PICK t, task, list : t = tree /\ task = pending /\ list = steps
  OBVIOUS
<1>2. PICK u, p : u = AliasRepairedLayers(t, task) /\ p = RepairedPlan(task)
  OBVIOUS
<1>3. mode = "repair" /\ todo = <<>> /\ HasRepair(task) /\ world' = world
  BY <1>1 DEF Original, AgentInv, Turning
<1>4. TreeOK(t) /\ TaskDrawn(task, t) /\ Kept(list, t)
  BY <1>1 DEF Holding
<1>5. Ready(task, t, list)
  BY <1>1, <1>3 DEF Holding, Begun, Ready
<1>6. PICK F : F = files
  OBVIOUS
<1>7. PICK res \in Outcomes(p, u, F) :
        /\ tree' = res.tree /\ Takes(ConfirmedStep(p, res, u))
        /\ pending' = NoPending
        /\ mode' = "loop" \/ \E result : EndTurn(result, NoPending)
  BY <1>1, <1>2, <1>6 DEF Original, RunOriginal, EndTurn
<1>8. TreeOK(u) /\ FitSlots(p.input, u) /\ u.layers = t.layers /\ Kept(list, u)
  BY <1>2, <1>3, <1>4, <1>5, OriginalReady
<1>9. \/ \A i \in ToSet(Validate(p, u, F)) : i.code # task.question[1]
      \/ BeyondRepair(p) \/ \E j \in DOMAIN list : list[j].reused
  BY <1>2, <1>3, <1>4, <1>5, OriginalReady
<1>10. /\ \A a \in DOMAIN t.aliases : a \in DOMAIN u.aliases
       /\ \/ \A a \in DOMAIN t.aliases : u.aliases[a] # t.aliases[a] => u.aliases[a] \in ToSet(InputLayers(p, u))
          \/ \E j \in DOMAIN list : list[j].reused
  BY <1>2, <1>3, <1>4, <1>5, OriginalReady
<1>11. PICK e : e = ConfirmedStep(p, res, u)
  OBVIOUS
<1>12. steps' = Append(list, e)
  BY <1>1, <1>7, <1>11 DEF Takes
<1>13. /\ Taken(e, p, u) /\ e.how = "confirmed" /\ e.inputs = InputLayers(p, u)
       /\ (\A i \in ToSet(Validate(p, u, F)) : i.code # task.question[1]) => e.cured
  BY <1>1, <1>6, <1>11, ConfirmedTaken
<1>14. e.cured \/ BeyondRepair(p) \/ \E j \in DOMAIN list : list[j].reused
  BY <1>9, <1>13
<1>15. Kept(Append(list, e), u)
  BY <1>8, <1>13, <1>14, AppendKept
<1>16. Better(u, res.tree)
  BY <1>8, OutcomeTree
<1>17. IsTree(u) /\ Grown(u, res.tree) /\ TreeOK(res.tree)
  BY <1>8, <1>16 DEF TreeOK, Better
<1>18. Kept(steps', tree')
  BY <1>7, <1>12, <1>15, <1>17, KeptGrows
<1>19. Len(Here'.tree.layers) <= Len(tree'.layers)
  <2>1. Len(u.layers) \in Nat /\ Len(res.tree.layers) \in Nat /\ Len(u.layers) <= Len(res.tree.layers)
    BY <1>8, <1>17, FitGrows
  <2>2. Len(Here.tree.layers) <= Len(u.layers)
    BY <1>1, <1>8 DEF Holding
  <2>3. Len(Here.tree.layers) \in Nat
    BY WorldsAssumption, ListPlaces DEF Holding, Here, IsTree
  <2>4. Here' = Here
    BY <1>3 DEF Here
  <2> QED BY <1>7, <2>1, <2>2, <2>3, <2>4
<1>20. mode' # "repair" /\ Told(pending', tree')
  BY <1>7, NothingTold DEF EndTurn
<1>21. Holding'
  BY <1>3, <1>7, <1>17, <1>18, <1>19, <1>20 DEF Holding, Told
<1>22. NamesMove
  <2>1. IsList(list)
    BY <1>4 DEF Kept
  <2>2. Last(steps') = e /\ \A k \in DOMAIN list : k \in DOMAIN steps' /\ steps'[k] = list[k]
    BY <1>12, <2>1, ListLast
  <2> SUFFICES ASSUME NEW a \in DOMAIN t.aliases
               PROVE  /\ a \in DOMAIN tree'.aliases
                      /\ tree'.aliases[a] # t.aliases[a] =>
                           /\ Last(steps').how = "confirmed"
                           /\ \/ tree'.aliases[a] \in ToSet(Last(steps').inputs)
                              \/ \E k \in DOMAIN steps' : steps'[k].reused
    BY <1>1 DEF NamesMove
  <2>3. a \in DOMAIN u.aliases /\ a \in DOMAIN tree'.aliases /\ tree'.aliases[a] = u.aliases[a]
    BY <1>7, <1>10, <1>17 DEF Grown
  <2>4. CASE \E j \in DOMAIN list : list[j].reused
    BY <1>13, <2>2, <2>3, <2>4
  <2>5. CASE \A x \in DOMAIN t.aliases : u.aliases[x] # t.aliases[x] => u.aliases[x] \in ToSet(InputLayers(p, u))
    BY <1>13, <2>2, <2>3, <2>5
  <2> QED BY <1>10, <2>4, <2>5
<1> QED BY <1>21, <1>22

\* A request to stop changes nothing of it.
LEMMA StopHolds ==
  ASSUME Holding, NEW how, RequestStop(how)
  PROVE  Holding' /\ NamesMove
<1>1. /\ world' = world /\ tree' = tree /\ steps' = steps /\ pending' = pending /\ mode' = mode /\ todo' = todo
  BY DEF RequestStop
<1> QED BY <1>1 DEF Holding, Here, Begun, NamesMove

LEMMA InitHolds ==
  ASSUME AgentInit
  PROVE  Holding
<1>1. /\ world \in DOMAIN Worlds /\ tree = FromDict(Here.tree) /\ steps = <<>> /\ pending = NoPending /\ mode = "idle"
  BY DEF AgentInit
<1>2. PICK t : t = Here.tree
  OBVIOUS
<1>3. IsTree(t) /\ IdsDrawn(t)
  BY <1>1, <1>2, WorldsAssumption DEF Here
<1>4. TreeOK(tree)
  BY <1>1, <1>2, <1>3, TreeRestored
<1>5. tree.layers = t.layers
  BY <1>1, <1>2 DEF FromDict
<1>6. Len(t.layers) \in Nat
  BY <1>3, ListPlaces DEF IsTree
<1>7. Told(NoPending, tree) /\ Kept(<<>>, tree)
  BY NothingTold, NothingKept
<1> QED BY <1>1, <1>2, <1>4, <1>5, <1>6, <1>7 DEF Holding, Told

-----------------------------------------------------------------------------
(* Both invariants, step by step                                           *)

Invariants == AgentInv /\ Holding

LEMMA InvariantsKept ==
  ASSUME Invariants, AgentNext
  PROVE  Invariants' /\ NamesMove
<1>1. AgentInv /\ Holding /\ IsList(tree.layers)
  BY SameBetter DEF Invariants
<1>2. CASE LoopNext
  BY <1>1, <1>2, LoopKeeps, LoopHolds DEF Invariants
<1>3. CASE AnswerNext
  BY <1>1, <1>3, AnswersKeep, AnswersHold DEF Invariants
<1>4. CASE RepairStep
  BY <1>1, <1>4, RepairKeeps, RepairHolds DEF Invariants
<1>5. CASE Original
  BY <1>1, <1>5, OriginalKeeps, OriginalHolds DEF Invariants
<1>6. ASSUME NEW r \in Here.requests, NewTurn(r) PROVE Invariants' /\ NamesMove
  <2>1. StartLoop(r)
    BY <1>6 DEF NewTurn
  <2> QED BY <1>1, <2>1, StartKeeps, StartHolds DEF Invariants
<1>7. ASSUME NEW how \in {"pause", "cancel"}, RequestStop(how) PROVE Invariants' /\ NamesMove
  BY <1>1, <1>7, StopKeeps, StopHolds DEF Invariants
<1> QED BY <1>2, <1>3, <1>4, <1>5, <1>6, <1>7 DEF AgentNext

-----------------------------------------------------------------------------
(* Theorems                                                                *)

\* In every world whose files have names and whose slots are lists of words, what is
\* run, written and asked, and what is known of it, stays in order
\* (orchestration/agent, orchestration/resume).
THEOREM InvariantsAlways == AgentSpec => []Invariants
<1>1. AgentInit => Invariants
  <2> SUFFICES ASSUME AgentInit PROVE Invariants
    OBVIOUS
  <2>1. /\ world \in DOMAIN Worlds /\ files = Here.files /\ steps = <<>> /\ pending = NoPending /\ mode = "idle"
        /\ status # "running" /\ todo = <<>> /\ grace = 0 /\ turn = 0 /\ stop \in {"", "pause", "cancel"}
    BY DEF AgentInit
  <2>2. Here.turns \in Nat /\ <<>> \notin Here.files
    BY <2>1, OffersFit
  <2>3. turn = 0 /\ grace = 0 /\ Left = 0
    BY <2>1 DEF Left, Stopping
  <2>4. turn \in 0..Here.turns
    BY <2>2, <2>3
  <2>5. Turning
    BY <2>1, <2>4 DEF Turning
  <2>6. Polling
    BY <2>3 DEF Polling
  <2>7. Honest(<<>>) /\ QuietSteps(<<>>)
    BY ListShort DEF Honest, QuietSteps
  <2>8. Writing
    BY <2>1, <2>2, <2>7, NothingWaits DEF Writing
  <2> QED BY <2>5, <2>6, <2>8, InitHolds DEF Invariants, AgentInv
<1>2. Invariants /\ [AgentNext]_agentVars => Invariants'
  <2> SUFFICES ASSUME Invariants, [AgentNext]_agentVars PROVE Invariants'
    OBVIOUS
  <2>1. CASE UNCHANGED agentVars
    <3>1. /\ Turning' = Turning
          /\ Polling' = Polling
          /\ Writing' = Writing
      BY <2>1 DEF agentVars, Turning, Polling, Writing, Left, Stopping, Here, Honest, TaskFits, QuietSteps, HasRepair, Waits
    <3>2. Holding'
      BY <2>1 DEF Invariants, agentVars, Holding, Here, Begun
    <3> QED BY <3>1, <3>2 DEF Invariants, AgentInv
  <2> QED BY <2>1, InvariantsKept
<1> QED BY <1>1, <1>2, PTL DEF AgentSpec

\* Its first half alone: who runs, how many tools are left, and what may be written
\* (orchestration/agent, orchestration/resume).
THEOREM AgentInvAlways == AgentSpec => []AgentInv
<1>1. Invariants => AgentInv
  BY DEF Invariants
<1> QED BY <1>1, InvariantsAlways, PTL

\* Names always lead to layers, a turn that waits has its task, and only a running
\* turn has repair steps left (core/state_tree.py, resume/resume_controller.py).
THEOREM AgentTypeOKAlways == AgentSpec => []AgentTypeOK
<1>1. Invariants => AgentTypeOK
  <2> SUFFICES ASSUME Invariants PROVE AgentTypeOK
    OBVIOUS
  <2>1. AgentInv /\ TreeOK(tree)
    BY DEF Invariants, Holding
  <2>2. NoPending.state = ""
    BY DEF NoPending
  <2>3. mode = "idle" => pending = NoPending \/ pending.state = status
    BY <2>1 DEF AgentInv, Turning
  <2>4. mode = "idle" => pending.state = (IF pending = NoPending THEN "" ELSE status)
    BY <2>2, <2>3
  <2>5. \A a \in DOMAIN tree.aliases : tree.aliases[a] \in DOMAIN tree.layers
    BY <2>1 DEF TreeOK, IsTree
  <2> QED BY <2>1, <2>4, <2>5 DEF AgentInv, Turning, AgentTypeOK
<1> QED BY <1>1, InvariantsAlways, PTL

\* Once a turn was asked to stop it runs no more tools than the one it is at, or the
\* rest of a confirmed repair and one tool (agent/run_control.py).
THEOREM StopIsPromptAlways == AgentSpec => []StopIsPrompt
<1>1. AgentInv => StopIsPrompt
  BY LeftCounts DEF AgentInv, Polling, StopIsPrompt
<1> QED BY <1>1, AgentInvAlways, PTL

\* No step writes over a file without the user's word, but for an export whose path
\* was completed after the rule (rules/gis/preflight_rules.py).
THEOREM OverwriteOnlyConfirmedAlways == AgentSpec => []OverwriteOnlyConfirmed
<1>1. AgentInv => OverwriteOnlyConfirmed
  BY DEF AgentInv, Writing, Honest, Confirmed, OverwriteOnlyConfirmed
<1> QED BY <1>1, AgentInvAlways, PTL

\* A name keeps the layer it leads to, whatever the tools register and whoever saves
\* and restores the tree; a confirmed repair moves it to a layer that the repaired
\* action works on, or has taken a name (core/state_tree.py, resume/repair_resume_handler.py).
THEOREM NamesStayAlways == AgentSpec => NamesStay
<1>1. Invariants /\ [AgentNext]_agentVars => [NamesMove]_agentVars
  <2> SUFFICES ASSUME Invariants, AgentNext PROVE NamesMove
    OBVIOUS
  <2> QED BY InvariantsKept
<1> QED BY <1>1, InvariantsAlways, PTL DEF AgentSpec, NamesStay, NamesMove

\* A step is skipped as a duplicate only of work on the same layers, as far as
\* references named their layers (agent/execution_memory.py).
THEOREM DuplicateSkipsSameWorkAlways == AgentSpec => []DuplicateSkipsSameWork
<1>1. Invariants => DuplicateSkipsSameWork
  <2> SUFFICES ASSUME Invariants, NEW k \in DOMAIN steps, steps[k].how = "skip", steps[k].grounded,
                      NEW m, m = Min({j \in 1..k : SameWork(steps[j], steps[k].plan)}), steps[m].grounded
               PROVE  steps[k].inputs = steps[m].inputs
    BY DEF DuplicateSkipsSameWork
  <2>1. SkipsSame(steps) /\ k \in Nat \ {0}
    BY ListPlaces DEF Invariants, Holding, Kept
  <2>2. PICK S : S = {j \in 1..k : SameWork(steps[j], steps[k].plan)}
    OBVIOUS
  <2>3. k \in S
    BY <2>1, <2>2 DEF SkipsSame, SameWork
  <2>4. PICK x \in S : \A y \in S : x <= y
    BY <2>2, <2>3, LeastOf
  <2>5. m \in S
    BY <2>2, <2>4 DEF Min
  <2> QED BY <2>1, <2>2, <2>5 DEF SkipsSame
<1> QED BY <1>1, InvariantsAlways, PTL

\* The objection a repair was confirmed for is gone when its original action runs, but
\* for what no reprojection cures and for a name that was taken
\* (resume/repair_resume_handler.py, rules/gis/preflight_rules.py).
THEOREM ConfirmedIsCuredAlways == AgentSpec => []ConfirmedIsCured
<1>1. Invariants => ConfirmedIsCured
  BY DEF Invariants, Holding, Kept, CuredAll, ConfirmedIsCured
<1> QED BY <1>1, InvariantsAlways, PTL
=============================================================================

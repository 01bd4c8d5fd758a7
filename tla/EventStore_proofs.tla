------------------------- MODULE EventStore_proofs -------------------------
(***************************************************************************)
(* Proofs about the event log for any set of turns, any number of events   *)
(* and any pattern of failing storage calls.                               *)
(***************************************************************************)
EXTENDS EventStore, FiniteSetTheorems, SequenceTheorems, TLAPS

OnceEach(s) == \A i, j \in DOMAIN s : s[i] = s[j] => i = j

\* A sequence without repetitions has as many elements as positions.
LEMMA CardinalityOfSeq ==
  ASSUME NEW S, NEW s \in Seq(S), OnceEach(s)
  PROVE  IsFiniteSet(Elements(s)) /\ Cardinality(Elements(s)) = Len(s)
<1>1. Len(s) \in Nat /\ s \in [1..Len(s) -> S] /\ DOMAIN s = 1..Len(s)
      BY LenProperties
<1>2. s \in Bijection(1..Len(s), Elements(s))
  <2>1. s \in [1..Len(s) -> Elements(s)]
        BY <1>1 DEF Elements
  <2>2. s \in Injection(1..Len(s), Elements(s))
        BY <1>1, <2>1 DEF OnceEach, Injection, IsInjective
  <2>3. s \in Surjection(1..Len(s), Elements(s))
        BY <1>1, <2>1 DEF Surjection, Elements
  <2> QED BY <2>2, <2>3 DEF Bijection
<1>3. IsFiniteSet(1..Len(s)) /\ Cardinality(1..Len(s)) = Len(s)
      BY <1>1, FS_Interval
<1>4. ExistsBijection(1..Len(s), Elements(s))
      BY <1>2 DEF ExistsBijection
<1> QED BY <1>3, <1>4, FS_Bijection

\* The counting argument behind save: a longer list that misses the log by at
\* most one event holds everything the log holds.
LEMMA LongerListHoldsAll ==
  ASSUME NEW S, NEW s \in Seq(S), NEW t \in Seq(S), OnceEach(s), OnceEach(t),
         NEW e, Elements(t) \ Elements(s) \subseteq {e}, Len(t) > Len(s)
  PROVE  Elements(s) \subseteq Elements(t)
<1>1. /\ IsFiniteSet(Elements(s)) /\ Cardinality(Elements(s)) = Len(s)
      /\ IsFiniteSet(Elements(t)) /\ Cardinality(Elements(t)) = Len(t)
      BY CardinalityOfSeq
<1>2. Len(s) \in Nat /\ Len(t) \in Nat
      BY LenProperties
<1>3. /\ IsFiniteSet(Elements(t) \ {e})
      /\ Cardinality(Elements(t) \ {e}) >= Len(t) - 1
  <2>1. /\ IsFiniteSet(Elements(t) \ {e})
        /\ Cardinality(Elements(t) \ {e})
             = IF e \in Elements(t) THEN Cardinality(Elements(t)) - 1 ELSE Cardinality(Elements(t))
        BY <1>1, FS_RemoveElement
  <2> QED BY <1>1, <1>2, <2>1
<1>4. Elements(t) \ {e} \in SUBSET Elements(s)
      OBVIOUS
<1>5. Cardinality(Elements(t) \ {e}) <= Cardinality(Elements(s))
      BY <1>1, <1>4, FS_Subset
<1>6. Cardinality(Elements(t) \ {e}) \in Nat
      BY <1>3, FS_CardinalityType
<1>7. Cardinality(Elements(s)) = Cardinality(Elements(t) \ {e})
      BY <1>1, <1>2, <1>3, <1>5, <1>6
<1>8. Elements(s) = Elements(t) \ {e}
      BY <1>1, <1>4, <1>7, FS_Subset
<1> QED BY <1>8

\* A position past the first list is a position of the second.
LEMMA SecondPart ==
  ASSUME NEW a \in Nat, NEW b \in Nat, NEW i \in 1..(a + b), ~(i <= a)
  PROVE  i - a \in 1..b
  OBVIOUS

\* What a turn would save: first the events it was routed with, then its own.
LEMMA SavedParts ==
  TypeOK => \A r \in Run :
    /\ Saved(r) \in Seq(Event)
    /\ DOMAIN Saved(r) = 1..(Len(base[r]) + Len(own[r]))
    /\ Len(Saved(r)) = Len(base[r]) + Len(own[r])
    /\ Len(base[r]) \in Nat /\ Len(own[r]) \in Nat
    /\ DOMAIN base[r] = 1..Len(base[r]) /\ DOMAIN own[r] = 1..Len(own[r])
    /\ \A i \in 1..(Len(base[r]) + Len(own[r])) :
         Saved(r)[i] = IF i <= Len(base[r]) THEN base[r][i] ELSE own[r][i - Len(base[r])]
<1> SUFFICES ASSUME TypeOK, NEW r \in Run
             PROVE  /\ Saved(r) \in Seq(Event)
                    /\ DOMAIN Saved(r) = 1..(Len(base[r]) + Len(own[r]))
                    /\ Len(Saved(r)) = Len(base[r]) + Len(own[r])
                    /\ Len(base[r]) \in Nat /\ Len(own[r]) \in Nat
                    /\ DOMAIN base[r] = 1..Len(base[r]) /\ DOMAIN own[r] = 1..Len(own[r])
                    /\ \A i \in 1..(Len(base[r]) + Len(own[r])) :
                         Saved(r)[i] = IF i <= Len(base[r]) THEN base[r][i]
                                       ELSE own[r][i - Len(base[r])]
    OBVIOUS
<1>1. base[r] \in Seq(Event) /\ own[r] \in Seq(Event)
      BY DEF TypeOK
<1>2. /\ Saved(r) \in Seq(Event)
      /\ Len(Saved(r)) = Len(base[r]) + Len(own[r])
      /\ \A i \in 1..(Len(base[r]) + Len(own[r])) :
           Saved(r)[i] = IF i <= Len(base[r]) THEN base[r][i] ELSE own[r][i - Len(base[r])]
      BY <1>1, ConcatProperties DEF Saved
<1>3. /\ Len(base[r]) \in Nat /\ DOMAIN base[r] = 1..Len(base[r])
      /\ Len(own[r]) \in Nat /\ DOMAIN own[r] = 1..Len(own[r])
      BY <1>1, LenProperties
<1>4. DOMAIN Saved(r) = 1..Len(Saved(r))
      BY <1>2, LenProperties
<1> QED BY <1>2, <1>3, <1>4

\* It holds no event twice, and nothing the store lacks but the turn's own.
LEMMA SavedOnceEach ==
  ASSUME TypeOK, Provenance, NEW r \in Run
  PROVE  OnceEach(Saved(r)) /\ Elements(Saved(r)) \ Elements(log) \subseteq Missing(r)
<1>1. \A i \in DOMAIN Saved(r) :
        \/ i \in DOMAIN base[r] /\ Saved(r)[i] = base[r][i]
        \/ i - Len(base[r]) \in DOMAIN own[r] /\ Saved(r)[i] = own[r][i - Len(base[r])]
  <2> SUFFICES ASSUME NEW i \in DOMAIN Saved(r)
               PROVE  \/ i \in DOMAIN base[r] /\ Saved(r)[i] = base[r][i]
                      \/ /\ i - Len(base[r]) \in DOMAIN own[r]
                         /\ Saved(r)[i] = own[r][i - Len(base[r])]
      OBVIOUS
  <2>1. /\ i \in 1..(Len(base[r]) + Len(own[r]))
        /\ Len(base[r]) \in Nat /\ Len(own[r]) \in Nat
        /\ DOMAIN base[r] = 1..Len(base[r]) /\ DOMAIN own[r] = 1..Len(own[r])
        BY SavedParts
  <2>2. CASE i <= Len(base[r])
    <3>1. Saved(r)[i] = base[r][i]
          BY <2>1, <2>2, SavedParts
    <3> QED BY <2>1, <2>2, <3>1
  <2>3. CASE ~(i <= Len(base[r]))
    <3>1. Saved(r)[i] = own[r][i - Len(base[r])]
          BY <2>1, <2>3, SavedParts
    <3>2. i - Len(base[r]) \in 1..Len(own[r])
          BY <2>1, <2>3, SecondPart
    <3> QED BY <2>1, <3>1, <3>2
  <2> QED BY <2>2, <2>3
<1>2. \A i \in DOMAIN base[r] : base[r][i] \in Elements(log) /\ base[r][i].run # r
      BY DEF Provenance
<1>3. \A i \in DOMAIN own[r] : own[r][i].run = r /\ own[r][i].n = i
      BY DEF Provenance
<1>4. \A i, j \in DOMAIN base[r] : base[r][i] = base[r][j] => i = j
      BY DEF Provenance
<1>5. OnceEach(Saved(r))
  <2> SUFFICES ASSUME NEW i \in DOMAIN Saved(r), NEW j \in DOMAIN Saved(r),
                      Saved(r)[i] = Saved(r)[j]
               PROVE  i = j
      BY DEF OnceEach
  <2>1. i \in Nat /\ j \in Nat /\ Len(base[r]) \in Nat
        BY SavedParts
  <2>2. CASE i \in DOMAIN base[r] /\ Saved(r)[i] = base[r][i]
    <3>1. CASE j \in DOMAIN base[r] /\ Saved(r)[j] = base[r][j]
          BY <1>4, <2>2, <3>1
    <3>2. CASE j - Len(base[r]) \in DOMAIN own[r] /\ Saved(r)[j] = own[r][j - Len(base[r])]
      <4>1. base[r][i].run # r
            BY <1>2, <2>2
      <4>2. own[r][j - Len(base[r])].run = r
            BY <1>3, <3>2
      <4> QED BY <2>2, <3>2, <4>1, <4>2
    <3> QED BY <1>1, <3>1, <3>2
  <2>3. CASE i - Len(base[r]) \in DOMAIN own[r] /\ Saved(r)[i] = own[r][i - Len(base[r])]
    <3>1. CASE j \in DOMAIN base[r] /\ Saved(r)[j] = base[r][j]
      <4>1. base[r][j].run # r
            BY <1>2, <3>1
      <4>2. own[r][i - Len(base[r])].run = r
            BY <1>3, <2>3
      <4> QED BY <2>3, <3>1, <4>1, <4>2
    <3>2. CASE j - Len(base[r]) \in DOMAIN own[r] /\ Saved(r)[j] = own[r][j - Len(base[r])]
      <4>1. i - Len(base[r]) = j - Len(base[r])
            BY <1>3, <2>3, <3>2
      <4> QED BY <2>1, <4>1
    <3> QED BY <1>1, <3>1, <3>2
  <2> QED BY <1>1, <2>2, <2>3
<1>6. Elements(Saved(r)) \ Elements(log) \subseteq Missing(r)
      BY <1>1, <1>2 DEF Elements, Missing
<1> QED BY <1>5, <1>6

\* The save of a turn that misses at most one event keeps the log as it is or
\* replaces it with a list that holds all of it, in the same order, and adds
\* nothing but the missing event.
LEMMA SaveStep ==
  ASSUME IInv, NEW r \in Run, NEW e, Missing(r) \subseteq {e}, SaveOf(r)
  PROVE  /\ log' = log \/ log' = Saved(r)
         /\ log' \in Seq(Event) /\ OnceEach(log')
         /\ Elements(log) \subseteq Elements(log')
         /\ Elements(log') \subseteq Elements(log) \cup Missing(r)
         /\ \A i, j \in DOMAIN log, k, l \in DOMAIN log' :
              i < j /\ log'[k] = log[i] /\ log'[l] = log[j] => k < l
<1>1. log \in Seq(Event) /\ OnceEach(log) /\ DOMAIN log = 1..Len(log) /\ Len(log) \in Nat
      BY LenProperties DEF IInv, TypeOK, Provenance, OnceEach
<1>2. CASE log' = log
  <2>1. \A i, j \in DOMAIN log, k, l \in DOMAIN log :
           i < j /\ log[k] = log[i] /\ log[l] = log[j] => k < l
        BY <1>1 DEF OnceEach
  <2> QED BY <1>1, <1>2, <2>1
<1>3. CASE Len(Saved(r)) > Len(log) /\ log' = Saved(r)
  <2>1. /\ Saved(r) \in Seq(Event) /\ OnceEach(Saved(r))
        /\ Elements(Saved(r)) \ Elements(log) \subseteq Missing(r)
        BY SavedParts, SavedOnceEach DEF IInv
  <2>2. Elements(log) \subseteq Elements(Saved(r))
        BY <1>1, <1>3, <2>1, LongerListHoldsAll
  <2>3. ASSUME NEW i \in DOMAIN log, NEW j \in DOMAIN log,
               NEW k \in DOMAIN Saved(r), NEW l \in DOMAIN Saved(r),
               i < j, Saved(r)[k] = log[i], Saved(r)[l] = log[j]
        PROVE  k < l
    <3>1. k \in Nat /\ l \in Nat /\ i \in Nat /\ j \in Nat
          BY <1>1, SavedParts DEF IInv
    <3>2. k # l
          BY <1>1, <2>3, <3>1 DEF OnceEach
    <3>3. ~(l < k)
          BY <2>3, <3>1 DEF IInv, SameOrder
    <3> QED BY <3>1, <3>2, <3>3
  <2> QED BY <1>3, <2>1, <2>2, <2>3
<1> QED BY <1>2, <1>3 DEF SaveOf, SaveEvents, logVars

\* A save by any turn keeps what every turn would save in the log's order.
LEMMA SaveKeepsOrder ==
  ASSUME IInv, NEW r \in Run, NEW e, Missing(r) \subseteq {e}, SaveOf(r),
         UNCHANGED <<base, own>>
  PROVE  SameOrder'
<1>0. \A o \in Run : Saved(o)' = Saved(o)
      BY DEF Saved
<1> SUFFICES ASSUME NEW o \in Run, NEW i \in DOMAIN Saved(o), NEW j \in DOMAIN Saved(o),
                    NEW k \in DOMAIN log', NEW l \in DOMAIN log',
                    i < j, log'[k] = Saved(o)[i], log'[l] = Saved(o)[j]
             PROVE  k < l
    BY <1>0 DEF SameOrder
<1>1. CASE log' = log
      BY <1>1 DEF IInv, SameOrder
<1>2. CASE log' = Saved(r) /\ o = r
      BY <1>2, SavedOnceEach DEF IInv, OnceEach
<1>3. CASE log' = Saved(r) /\ o # r
  <2>1. ASSUME NEW m \in DOMAIN Saved(o), NEW n \in DOMAIN log', log'[n] = Saved(o)[m]
        PROVE  Saved(o)[m] \in Elements(log)
    <3>1. Saved(o)[m] \in Elements(log) \cup Missing(r)
          BY <2>1, SaveStep DEF Elements
    <3>2. Saved(o)[m] \in Elements(log) \cup Missing(o)
          BY SavedOnceEach DEF IInv, Elements
    <3>3. Missing(r) \cap Missing(o) = {}
          BY <1>3 DEF IInv, Provenance, Missing, Elements
    <3> QED BY <3>1, <3>2, <3>3
  <2>2. PICK x \in DOMAIN log : log[x] = Saved(o)[i]
        BY <2>1 DEF Elements
  <2>3. PICK y \in DOMAIN log : log[y] = Saved(o)[j]
        BY <2>1 DEF Elements
  <2>4. x < y
        BY <2>2, <2>3 DEF IInv, SameOrder
  <2> QED BY <2>2, <2>3, <2>4, SaveStep
<1> QED BY <1>1, <1>2, <1>3, SaveStep

\* The positions of a sequence with one more element.
LEMMA AppendPositions ==
  ASSUME NEW S, NEW s \in Seq(S), NEW e \in S, NEW i \in DOMAIN Append(s, e)
  PROVE  \/ i \in DOMAIN s /\ Append(s, e)[i] = s[i]
         \/ i = Len(s) + 1 /\ Append(s, e)[i] = e
<1>1. /\ Len(s) \in Nat /\ DOMAIN s = 1..Len(s)
      /\ Append(s, e) \in Seq(S) /\ Len(Append(s, e)) = Len(s) + 1
      /\ \A k \in 1..Len(s) : Append(s, e)[k] = s[k]
      /\ Append(s, e)[Len(s) + 1] = e
      BY AppendProperties, LenProperties
<1>2. i \in 1..(Len(s) + 1)
      BY <1>1, LenProperties
<1> QED BY <1>1, <1>2

\* Appending to the second list appends to the concatenation.
LEMMA ConcatAppend ==
  ASSUME NEW S, NEW s \in Seq(S), NEW t \in Seq(S), NEW e \in S
  PROVE  s \o Append(t, e) = Append(s \o t, e)
<1>1. <<e>> \in Seq(S) /\ s \o t \in Seq(S)
      BY ConcatProperties
<1>2. Append(t, e) = t \o <<e>>
      BY AppendIsConcat
<1>3. Append(s \o t, e) = (s \o t) \o <<e>>
      BY <1>1, AppendIsConcat
<1>4. (s \o t) \o <<e>> = s \o (t \o <<e>>)
      BY <1>1, ConcatAssociative
<1> QED BY <1>2, <1>3, <1>4

\* The next event of a turn is in no list yet.
LEMMA NextEventIsNew ==
  ASSUME IInv, NEW r \in Run
  PROVE  /\ NextEvent(r).run = r /\ NextEvent(r).n = Len(own[r]) + 1
         /\ NextEvent(r) \notin Elements(log)
         /\ \A o \in Run : NextEvent(r) \notin Elements(Saved(o))
<1>1. NextEvent(r).run = r /\ NextEvent(r).n = Len(own[r]) + 1
      BY DEF NextEvent
<1>2. Len(own[r]) \in Nat /\ DOMAIN own[r] = 1..Len(own[r])
      BY SavedParts DEF IInv
<1>3. NextEvent(r) \notin Elements(log)
      BY <1>1, <1>2 DEF IInv, Provenance, Elements
<1>4. ASSUME NEW o \in Run PROVE NextEvent(r) \notin Elements(own[o])
      BY <1>1, <1>2 DEF IInv, Provenance, Elements
<1>5. ASSUME NEW o \in Run PROVE NextEvent(r) \notin Elements(Saved(o))
      BY <1>3, <1>4, SavedOnceEach DEF IInv, Missing
<1> QED BY <1>1, <1>3, <1>5

\* What an emitting turn would save grows by that event, at its end; the lists of
\* the other turns stay as they are.
LEMMA SavedGrows ==
  ASSUME IInv, NEW r \in Run, NextEvent(r) \in Event,
         own' = [own EXCEPT ![r] = Append(own[r], NextEvent(r))], UNCHANGED base
  PROVE  /\ Saved(r)' = Append(Saved(r), NextEvent(r))
         /\ \A o \in Run \ {r} : Saved(o)' = Saved(o)
<1>1. base[r] \in Seq(Event) /\ own[r] \in Seq(Event) /\ own \in [Run -> Seq(Event)]
      BY DEF IInv, TypeOK
<1>2. own'[r] = Append(own[r], NextEvent(r)) /\ \A o \in Run \ {r} : own'[o] = own[o]
      BY <1>1
<1>3. base[r] \o Append(own[r], NextEvent(r)) = Append(base[r] \o own[r], NextEvent(r))
  <2>1. ASSUME NEW s \in Seq(Event), NEW t \in Seq(Event), NEW e \in Event
        PROVE  s \o Append(t, e) = Append(s \o t, e)
        BY ConcatAppend
  <2> QED BY <1>1, <2>1
<1> QED BY <1>2, <1>3 DEF Saved

\* An event that is appended, or lost on its way to the store, comes last in both.
LEMMA EmitKeepsOrder ==
  ASSUME IInv, NEW r \in Run, NextEvent(r) \in Event,
         own' = [own EXCEPT ![r] = Append(own[r], NextEvent(r))], UNCHANGED base,
         log' = Append(log, NextEvent(r)) \/ log' = log
  PROVE  SameOrder'
<1> SUFFICES ASSUME NEW o \in Run, NEW i \in DOMAIN Saved(o)', NEW j \in DOMAIN Saved(o)',
                    NEW k \in DOMAIN log', NEW l \in DOMAIN log',
                    i < j, log'[k] = Saved(o)'[i], log'[l] = Saved(o)'[j]
             PROVE  k < l
    BY DEF SameOrder
<1>1. /\ log \in Seq(Event) /\ Len(log) \in Nat /\ DOMAIN log = 1..Len(log)
      /\ Saved(o) \in Seq(Event) /\ Len(Saved(o)) \in Nat
      /\ DOMAIN Saved(o) = 1..Len(Saved(o))
      BY SavedParts, LenProperties DEF IInv, TypeOK
<1>2. ASSUME NEW x \in DOMAIN log'
      PROVE  \/ x \in DOMAIN log /\ log'[x] = log[x]
             \/ x = Len(log) + 1 /\ log'[x] = NextEvent(r)
  <2>1. CASE log' = log
        BY <2>1
  <2>2. CASE log' = Append(log, NextEvent(r))
        BY <1>1, <2>2, AppendPositions
  <2> QED BY <2>1, <2>2
<1>3. ASSUME NEW x \in DOMAIN Saved(o)'
      PROVE  \/ x \in DOMAIN Saved(o) /\ Saved(o)'[x] = Saved(o)[x]
             \/ x = Len(Saved(o)) + 1 /\ Saved(o)'[x] = NextEvent(r)
  <2>1. CASE o # r
        BY <2>1, SavedGrows
  <2>2. CASE o = r
    <3>1. Saved(o)' = Append(Saved(o), NextEvent(r))
          BY <2>2, SavedGrows
    <3> QED BY <1>1, <3>1, AppendPositions
  <2> QED BY <2>1, <2>2
<1>4. NextEvent(r) \notin Elements(log) /\ NextEvent(r) \notin Elements(Saved(o))
      BY NextEventIsNew
<1>5. i \in DOMAIN Saved(o) /\ Saved(o)'[i] = Saved(o)[i] /\ k \in DOMAIN log /\ log'[k] = log[k]
  <2>1. i \in DOMAIN Saved(o) /\ Saved(o)'[i] = Saved(o)[i]
    <3>1. j \in DOMAIN Saved(o) \/ j = Len(Saved(o)) + 1
          BY <1>3
    <3>2. i # Len(Saved(o)) + 1
          BY <1>1, <3>1
    <3> QED BY <1>3, <3>2
  <2> QED BY <1>2, <1>4, <2>1 DEF Elements
<1>6. CASE j \in DOMAIN Saved(o) /\ Saved(o)'[j] = Saved(o)[j]
  <2>1. l \in DOMAIN log /\ log'[l] = log[l]
        BY <1>2, <1>4, <1>6 DEF Elements
  <2> QED BY <1>5, <1>6, <2>1 DEF IInv, SameOrder
<1>7. CASE j = Len(Saved(o)) + 1 /\ Saved(o)'[j] = NextEvent(r)
  <2>1. l = Len(log) + 1
        BY <1>2, <1>4, <1>7 DEF Elements
  <2> QED BY <1>1, <1>5, <2>1
<1> QED BY <1>3, <1>6, <1>7

\* A save keeps the provenance of the log ...
LEMMA SaveKeepsProvenance ==
  ASSUME IInv, NEW r \in Run, NEW e, Missing(r) \subseteq {e}, SaveOf(r),
         UNCHANGED <<base, own>>
  PROVE  Provenance'
<1>1. /\ OnceEach(log')
      /\ Elements(log) \subseteq Elements(log')
      /\ Elements(log') \subseteq Elements(log) \cup Missing(r)
      BY SaveStep
<1>2. \A x \in Elements(log) : x.n <= Len(own[x.run])
      BY DEF IInv, Provenance, Elements
<1>3. \A x \in Missing(r) : x.n <= Len(own[x.run])
  <2>1. Len(own[r]) \in Nat /\ DOMAIN own[r] = 1..Len(own[r])
        BY SavedParts DEF IInv
  <2> QED BY <2>1 DEF IInv, Provenance, Missing, Elements
<1>4. \A i \in DOMAIN log' : log'[i].n <= Len(own'[log'[i].run])
      BY <1>1, <1>2, <1>3 DEF Elements
<1> QED BY <1>1, <1>4 DEF IInv, Provenance, OnceEach

\* ... and so does an emitted event, stored or not.
LEMMA EmitKeepsProvenance ==
  ASSUME IInv, NEW r \in Run, NextEvent(r) \in Event,
         own' = [own EXCEPT ![r] = Append(own[r], NextEvent(r))], UNCHANGED base,
         log' = Append(log, NextEvent(r)) \/ log' = log
  PROVE  /\ Provenance'
         /\ own' \in [Run -> Seq(Event)] /\ log' \in Seq(Event)
         /\ Len(own'[r]) = Len(own[r]) + 1 /\ Len(own[r]) \in Nat
         /\ Elements(own'[r]) \subseteq Elements(own[r]) \cup {NextEvent(r)}
         /\ Elements(log) \subseteq Elements(log')
         /\ log' = Append(log, NextEvent(r)) => NextEvent(r) \in Elements(log')
<1>1. /\ own \in [Run -> Seq(Event)] /\ log \in Seq(Event)
      /\ Len(log) \in Nat /\ DOMAIN log = 1..Len(log)
      /\ Len(own[r]) \in Nat /\ DOMAIN own[r] = 1..Len(own[r])
      BY LenProperties, SavedParts DEF IInv, TypeOK
<1>2. /\ own'[r] = Append(own[r], NextEvent(r)) /\ own'[r] \in Seq(Event)
      /\ Len(own'[r]) = Len(own[r]) + 1
      /\ \A o \in Run \ {r} : own'[o] = own[o]
      BY <1>1, AppendProperties
<1>3. ASSUME NEW i \in DOMAIN own'[r]
      PROVE  \/ i \in DOMAIN own[r] /\ own'[r][i] = own[r][i]
             \/ i = Len(own[r]) + 1 /\ own'[r][i] = NextEvent(r)
      BY <1>1, <1>2, AppendPositions
<1>4. ASSUME NEW i \in DOMAIN log'
      PROVE  \/ i \in DOMAIN log /\ log'[i] = log[i]
             \/ i = Len(log) + 1 /\ log'[i] = NextEvent(r)
  <2>1. CASE log' = log
        BY <2>1
  <2>2. CASE log' = Append(log, NextEvent(r))
        BY <1>1, <2>2, AppendPositions
  <2> QED BY <2>1, <2>2
<1>5. /\ log' \in Seq(Event)
      /\ \A i \in DOMAIN log : i \in DOMAIN log' /\ log'[i] = log[i]
      /\ log' = Append(log, NextEvent(r)) => NextEvent(r) \in Elements(log')
  <2>1. CASE log' = log
    <3>1. Len(Append(log, NextEvent(r))) = Len(log) + 1
          BY <1>1, AppendProperties
    <3>2. ASSUME log' = Append(log, NextEvent(r)) PROVE FALSE
      <4>1. Len(log') = Len(log) + 1
            BY <3>1, <3>2
      <4>2. Len(log') = Len(log)
            BY <2>1
      <4> QED BY <1>1, <4>1, <4>2
    <3> QED BY <1>1, <2>1, <3>2
  <2>2. CASE log' = Append(log, NextEvent(r))
    <3>1. /\ log' \in Seq(Event) /\ Len(log') = Len(log) + 1
          /\ \A i \in 1..Len(log) : log'[i] = log[i]
          /\ log'[Len(log) + 1] = NextEvent(r)
          BY <1>1, <2>2, AppendProperties
    <3>2. DOMAIN log' = 1..(Len(log) + 1)
          BY <3>1, LenProperties
    <3> QED BY <1>1, <3>1, <3>2 DEF Elements
  <2> QED BY <2>1, <2>2
<1>6. Elements(log) \subseteq Elements(log')
      BY <1>5 DEF Elements
<1>7. \A i, j \in DOMAIN log' : log'[i] = log'[j] => i = j
      BY <1>4, NextEventIsNew DEF IInv, Provenance, Elements
<1>8. \A i \in DOMAIN log' : log'[i].n <= Len(own'[log'[i].run])
  <2> SUFFICES ASSUME NEW i \in DOMAIN log' PROVE log'[i].n <= Len(own'[log'[i].run])
      OBVIOUS
  <2>1. CASE log'[i] = NextEvent(r)
        BY <1>1, <1>2, <2>1, NextEventIsNew
  <2>2. CASE i \in DOMAIN log /\ log'[i] = log[i]
    <3>1. log[i] \in Event /\ log[i].n <= Len(own[log[i].run])
          BY <1>1, <2>2, ElementOfSeq DEF IInv, Provenance
    <3>2. log[i].n \in Nat /\ log[i].run \in Run
          BY <3>1 DEF Event
    <3>3. CASE log[i].run = r
          BY <1>1, <1>2, <2>2, <3>1, <3>2, <3>3
    <3>4. CASE log[i].run # r
          BY <1>2, <2>2, <3>1, <3>2, <3>4
    <3> QED BY <3>3, <3>4
  <2> QED BY <1>4, <2>1, <2>2
<1>9. ASSUME NEW o \in Run, NEW i \in DOMAIN own'[o]
      PROVE  own'[o][i].run = o /\ own'[o][i].n = i
  <2>1. CASE o = r
        BY <1>3, <2>1, NextEventIsNew DEF IInv, Provenance
  <2>2. CASE o # r
        BY <1>2, <2>2 DEF IInv, Provenance
  <2> QED BY <2>1, <2>2
<1>10. Provenance'
      BY <1>6, <1>7, <1>8, <1>9 DEF IInv, Provenance
<1>11. own' \in [Run -> Seq(Event)]
      BY <1>1, <1>2
<1>12. Elements(own'[r]) \subseteq Elements(own[r]) \cup {NextEvent(r)}
      BY <1>3 DEF Elements
<1> QED BY <1>1, <1>2, <1>5, <1>6, <1>10, <1>11, <1>12

\* A function on 1..n is a sequence of length n.
LEMMA SeqOfFunction ==
  ASSUME NEW S, NEW n \in Nat, NEW f \in [1..n -> S]
  PROVE  f \in Seq(S) /\ Len(f) = n
<1>1. f \in Seq(S)
      BY SeqDef
<1>2. Len(f) \in Nat /\ DOMAIN f = 1..Len(f)
      BY <1>1, LenProperties
<1>3. 1..n = 1..Len(f)
      BY <1>2
<1>4. n = Len(f)
      BY <1>2, <1>3
<1> QED BY <1>1, <1>4

\* The nesting saved with a list of events has one entry for each of them.
LEMMA SaveKeepsTypes ==
  ASSUME TypeOK, NEW r \in Run, SaveOf(r)
  PROVE  log' \in Seq(Event) /\ nesting' \in Seq(Nat) /\ Len(nesting') = Len(log')
<1> DEFINE older == [i \in 1..Len(baseNesting[r]) |-> baseNesting[r][i] + 1]
           newer == Zeros(own[r])
<1>1. /\ baseNesting[r] \in Seq(Nat) /\ own[r] \in Seq(Event)
      /\ Len(baseNesting[r]) = Len(base[r])
      /\ Saved(r) \in Seq(Event) /\ Len(Saved(r)) = Len(base[r]) + Len(own[r])
      BY SavedParts DEF TypeOK
<1>2. /\ Len(baseNesting[r]) \in Nat /\ Len(own[r]) \in Nat
      /\ baseNesting[r] \in [1..Len(baseNesting[r]) -> Nat]
      BY <1>1, LenProperties
<1>3. older \in Seq(Nat) /\ Len(older) = Len(baseNesting[r])
  <2>1. older \in [1..Len(baseNesting[r]) -> Nat]
        BY <1>2
  <2> QED BY <1>2, <2>1, SeqOfFunction
<1>4. newer \in Seq(Nat) /\ Len(newer) = Len(own[r])
  <2>1. newer \in [1..Len(own[r]) -> Nat]
        BY <1>2 DEF Zeros
  <2> QED BY <1>2, <2>1, SeqOfFunction
<1>5. older \o newer \in Seq(Nat) /\ Len(older \o newer) = Len(Saved(r))
  <2>1. ASSUME NEW s \in Seq(Nat), NEW t \in Seq(Nat)
        PROVE  s \o t \in Seq(Nat) /\ Len(s \o t) = Len(s) + Len(t)
        BY ConcatProperties
  <2>2. older \o newer \in Seq(Nat) /\ Len(older \o newer) = Len(older) + Len(newer)
        BY <1>3, <1>4, <2>1
  <2> HIDE DEF older, newer
  <2> QED BY <1>1, <1>3, <1>4, <2>2
<1>6. CASE log' = log /\ nesting' = nesting
      BY <1>6 DEF TypeOK
<1>7. CASE log' = Saved(r) /\ nesting' = older \o newer
      BY <1>1, <1>5, <1>7
<1> QED BY <1>6, <1>7 DEF SaveOf, SaveEvents, logVars

\* One more stored event has one more entry.
LEMMA StoreKeepsTypes ==
  ASSUME TypeOK, NEW e \in Event, Store(e)
  PROVE  log' \in Seq(Event) /\ nesting' \in Seq(Nat) /\ Len(nesting') = Len(log')
<1>1. log \in Seq(Event) /\ nesting \in Seq(Nat) /\ 0 \in Nat /\ Len(nesting) = Len(log)
      BY DEF TypeOK
<1>2. Append(log, e) \in Seq(Event) /\ Len(Append(log, e)) = Len(log) + 1
      BY <1>1, AppendProperties
<1>3. Append(nesting, 0) \in Seq(Nat) /\ Len(Append(nesting, 0)) = Len(nesting) + 1
      BY <1>1, AppendProperties
<1> QED BY <1>1, <1>2, <1>3 DEF Store

\* The initial state.
LEMMA InitIInv == Init => IInv
<1> SUFFICES ASSUME Init PROVE IInv
    OBVIOUS
<1>1. /\ <<>> \in Seq(Event) /\ <<>> \in Seq(Nat) /\ Len(<<>>) = 0
      /\ \A r \in Run : own[r] = <<>> /\ base[r] = <<>> /\ baseNesting[r] = <<>>
      BY EmptySeq DEF Init
<1>2. TypeOK
      BY <1>1 DEF Init, TypeOK, Pcs
<1>3. \A r \in Run : Saved(r) = <<>>
      BY <1>1 DEF Saved
<1>4. log = <<>> /\ DOMAIN log = {} /\ \A r \in Run : DOMAIN base[r] = {} /\ DOMAIN own[r] = {}
      BY <1>1 DEF Init
<1>5. Provenance
      BY <1>4 DEF Provenance
<1>6. \A r \in Run : Missing(r) = {} /\ Len(own[r]) <= MaxEvents
      BY <1>1, <1>4, EventAssumption DEF Missing, Elements
<1>7. TurnProgress
      BY <1>1, <1>6 DEF TurnProgress, ProgressOf, Init
<1>8. SameOrder
      BY <1>3 DEF SameOrder
<1> QED BY <1>2, <1>5, <1>7, <1>8 DEF IInv

\* A step of one turn leaves the progress of the others alone.
LEMMA OthersProgress ==
  ASSUME IInv, NEW r \in Run, NEW label \in Pcs, Goto(r, label),
         \A o \in Run \ {r} :
           own'[o] = own[o] /\ base'[o] = base[o] /\ baseNesting'[o] = baseNesting[o],
         Elements(log) \subseteq Elements(log'),
         pc'[r] = label => ProgressOf(r)'
  PROVE  TurnProgress' /\ pc' \in [Run -> Pcs]
<1>1. pc \in [Run -> Pcs] /\ TurnProgress
      BY DEF IInv, TypeOK
<1>2. pc'[r] = label /\ pc' \in [Run -> Pcs] /\ \A o \in Run \ {r} : pc'[o] = pc[o]
      BY <1>1 DEF Goto
<1>3. ASSUME NEW o \in Run \ {r} PROVE ProgressOf(o)'
  <2>1. ProgressOf(o)
        BY <1>1 DEF TurnProgress
  <2>2. Missing(o)' \subseteq Missing(o)
        BY DEF Missing
  <2> QED BY <1>2, <2>1, <2>2 DEF ProgressOf, Event
<1> QED BY <1>2, <1>3 DEF TurnProgress

\* A turn is routed with the events stored by now, or with none.
LEMMA RouteStep == ASSUME IInv, NEW r \in Run, Route(r) PROVE IInv'
<1>1. /\ pc[r] = "idle" /\ Goto(r, "routed") /\ UNCHANGED <<log, nesting, own, cursor, received>>
      /\ own[r] = <<>> /\ base[r] = <<>> /\ baseNesting[r] = <<>> /\ Missing(r) = {}
      BY DEF Route, IInv, TurnProgress, ProgressOf, logVars, clientVars
<1>2. /\ log \in Seq(Event) /\ nesting \in Seq(Nat) /\ Len(nesting) = Len(log)
      /\ base \in [Run -> Seq(Event)] /\ baseNesting \in [Run -> Seq(Nat)]
      /\ \A o \in Run : Len(baseNesting[o]) = Len(base[o])
      BY DEF IInv, TypeOK
<1>3. /\ base' \in [Run -> Seq(Event)] /\ baseNesting' \in [Run -> Seq(Nat)]
      /\ \A o \in Run \ {r} : base'[o] = base[o] /\ baseNesting'[o] = baseNesting[o]
      /\ \/ base'[r] = log /\ baseNesting'[r] = nesting
         \/ base'[r] = <<>> /\ baseNesting'[r] = <<>>
      BY <1>1, <1>2 DEF Route
<1>4. \A o \in Run : Len(baseNesting'[o]) = Len(base'[o])
  <2>1. Len(baseNesting'[r]) = Len(base'[r])
        BY <1>2, <1>3
  <2>2. \A o \in Run \ {r} : Len(baseNesting'[o]) = Len(base'[o])
        BY <1>2, <1>3
  <2> QED BY <2>1, <2>2
<1>5. ProgressOf(r)' /\ TurnProgress' /\ pc' \in [Run -> Pcs]
  <2>1. Missing(r)' = {}
        BY <1>1 DEF Missing
  <2>2. pc'[r] = "routed"
        BY <1>1 DEF Goto, IInv, TypeOK
  <2>3. ProgressOf(r)'
        BY <1>1, <2>1, <2>2 DEF ProgressOf
  <2>4. "routed" \in Pcs
        BY DEF Pcs
  <2> QED BY <1>1, <1>3, <2>3, <2>4, OthersProgress
<1>6. TypeOK'
      BY <1>1, <1>3, <1>4, <1>5 DEF IInv, TypeOK
<1>7. Provenance'
  <2>1. \A i, j \in DOMAIN log : log[i] = log[j] => i = j
        BY DEF IInv, Provenance
  <2>2. \A i \in DOMAIN log : log[i].run # r
    <3>1. \A i \in DOMAIN log : log[i] \in Event
          BY <1>2, LenProperties, ElementOfSeq
    <3>2. \A i \in DOMAIN log : log[i].n \in Nat /\ log[i].n >= 1
          BY <3>1, EventAssumption DEF Event
    <3>3. \A i \in DOMAIN log : log[i].n <= Len(own[log[i].run])
          BY DEF IInv, Provenance
    <3>4. Len(own[r]) = 0
          BY <1>1, EmptySeq
    <3> QED BY <3>2, <3>3, <3>4
  <2>3. \A i, j \in DOMAIN base'[r] : base'[r][i] = base'[r][j] => i = j
        BY <1>3, <2>1
  <2>4. \A i \in DOMAIN base'[r] : base'[r][i] \in Elements(log) /\ base'[r][i].run # r
        BY <1>3, <2>2 DEF Elements
  <2>5. ASSUME NEW o \in Run \ {r}
        PROVE  /\ \A i, j \in DOMAIN base'[o] : base'[o][i] = base'[o][j] => i = j
               /\ \A i \in DOMAIN base'[o] : base'[o][i] \in Elements(log) /\ base'[o][i].run # o
    <3>1. /\ \A i, j \in DOMAIN base[o] : base[o][i] = base[o][j] => i = j
          /\ \A i \in DOMAIN base[o] : base[o][i] \in Elements(log) /\ base[o][i].run # o
          BY DEF IInv, Provenance
    <3>2. base'[o] = base[o]
          BY <1>3
    <3> QED BY <3>1, <3>2
  <2>6. /\ \A i \in DOMAIN log : log[i].n <= Len(own[log[i].run])
        /\ \A o \in Run : \A i \in DOMAIN own[o] : own[o][i].run = o /\ own[o][i].n = i
        BY DEF IInv, Provenance
  <2>7. \A o \in Run :
          /\ \A i, j \in DOMAIN base'[o] : base'[o][i] = base'[o][j] => i = j
          /\ \A i \in DOMAIN base'[o] : base'[o][i] \in Elements(log) /\ base'[o][i].run # o
        BY <2>3, <2>4, <2>5
  <2> QED BY <1>1, <2>1, <2>6, <2>7 DEF Provenance
<1>8. SameOrder'
  <2>1. \A o \in Run \ {r} : Saved(o)' = Saved(o)
        BY <1>1, <1>3 DEF Saved
  <2>2. Saved(r)' = log \/ Saved(r)' = <<>>
    <3>1. \A s \in Seq(Event) : s \o <<>> = s
          BY ConcatEmptySeq
    <3>2. <<>> \in Seq(Event)
          BY EmptySeq
    <3> QED BY <1>1, <1>2, <1>3, <3>1, <3>2 DEF Saved
  <2>3. ASSUME NEW o \in Run, NEW i \in DOMAIN Saved(o)', NEW j \in DOMAIN Saved(o)',
               NEW k \in DOMAIN log, NEW l \in DOMAIN log,
               i < j, log[k] = Saved(o)'[i], log[l] = Saved(o)'[j]
        PROVE  k < l
    <3>1. CASE o # r
          BY <2>1, <2>3, <3>1 DEF IInv, SameOrder
    <3>2. CASE o = r /\ Saved(r)' = log
          BY <2>3, <3>2 DEF IInv, Provenance
    <3>3. CASE o = r /\ Saved(r)' = <<>>
          BY <3>3
    <3> QED BY <2>2, <3>1, <3>2, <3>3
  <2> QED BY <1>1, <2>3 DEF SameOrder
<1> QED BY <1>5, <1>6, <1>7, <1>8 DEF IInv

\* A step that only moves a turn to its next label.
LEMMA MoveStep ==
  ASSUME IInv, NEW r \in Run, NEW label \in Pcs, Goto(r, label),
         UNCHANGED <<logVars, base, baseNesting, own, clientVars>>,
         pc'[r] = label => ProgressOf(r)'
  PROVE  IInv'
<1>1. UNCHANGED <<log, nesting, base, baseNesting, own, cursor, received>>
      BY DEF logVars, clientVars
<1>2. TurnProgress' /\ pc' \in [Run -> Pcs]
      BY <1>1, OthersProgress
<1>3. TypeOK'
      BY <1>1, <1>2 DEF IInv, TypeOK
<1>4. \A o \in Run : Saved(o)' = Saved(o)
      BY <1>1 DEF Saved
<1>5. Provenance'
      BY <1>1 DEF IInv, Provenance, Elements
<1>6. SameOrder'
      BY <1>1, <1>4 DEF IInv, SameOrder
<1> QED BY <1>2, <1>3, <1>5, <1>6 DEF IInv

\* A save of a turn that misses at most one event.
LEMMA SavingStep ==
  ASSUME IInv, NEW r \in Run, NEW e, Missing(r) \subseteq {e}, SaveOf(r),
         NEW label \in Pcs, Goto(r, label),
         UNCHANGED <<base, baseNesting, own, clientVars>>,
         pc'[r] = label => ProgressOf(r)'
  PROVE  IInv'
<1>1. UNCHANGED <<base, baseNesting, own, cursor, received>>
      BY DEF clientVars
<1>2. TurnProgress' /\ pc' \in [Run -> Pcs]
      BY <1>1, OthersProgress, SaveStep
<1>3. TypeOK'
      BY <1>1, <1>2, SaveKeepsTypes DEF IInv, TypeOK
<1>4. Provenance'
      BY <1>1, SaveKeepsProvenance
<1>5. SameOrder'
      BY <1>1, SaveKeepsOrder
<1> QED BY <1>2, <1>3, <1>4, <1>5 DEF IInv

\* An event that is emitted, stored or lost.
LEMMA EmittingStep ==
  ASSUME IInv, NEW r \in Run, NEW label \in Pcs, NextEvent(r) \in Event,
         Emit(r, label) \/ EmitFault(r, label),
         pc'[r] = label => ProgressOf(r)'
  PROVE  IInv'
<1>1. /\ own' = [own EXCEPT ![r] = Append(own[r], NextEvent(r))]
      /\ Goto(r, label) /\ UNCHANGED <<base, baseNesting, cursor, received>>
      /\ Store(NextEvent(r)) \/ UNCHANGED <<log, nesting>>
      BY DEF Emit, EmitFault, clientVars, logVars
<1>2. log' = Append(log, NextEvent(r)) \/ log' = log
      BY <1>1 DEF Store
<1>3. /\ Provenance' /\ own' \in [Run -> Seq(Event)]
      /\ Elements(log) \subseteq Elements(log')
      BY <1>1, <1>2, EmitKeepsProvenance
<1>4. \A o \in Run \ {r} : own'[o] = own[o]
      BY <1>1 DEF IInv, TypeOK
<1>5. TurnProgress' /\ pc' \in [Run -> Pcs]
      BY <1>1, <1>3, <1>4, OthersProgress
<1>6. log' \in Seq(Event) /\ nesting' \in Seq(Nat) /\ Len(nesting') = Len(log')
      BY <1>1, StoreKeepsTypes DEF IInv, TypeOK
<1>7. TypeOK'
      BY <1>1, <1>3, <1>5, <1>6 DEF IInv, TypeOK
<1>8. SameOrder'
      BY <1>1, <1>2, EmitKeepsOrder
<1> QED BY <1>3, <1>5, <1>7, <1>8 DEF IInv

\* What a turn misses after it emitted: a stored event adds nothing, a lost one
\* itself.
LEMMA MissingAfterEmit ==
  ASSUME IInv, NEW r \in Run, NEW label, NextEvent(r) \in Event,
         Emit(r, label) \/ EmitFault(r, label)
  PROVE  /\ Emit(r, label) => Missing(r)' \subseteq Missing(r)
         /\ Missing(r)' \subseteq Missing(r) \cup {NextEvent(r)}
         /\ Len(own'[r]) = Len(own[r]) + 1 /\ Len(own[r]) \in Nat
         /\ pc'[r] = label
<1>1. /\ own' = [own EXCEPT ![r] = Append(own[r], NextEvent(r))]
      /\ Goto(r, label) /\ UNCHANGED base
      /\ log' = Append(log, NextEvent(r)) \/ log' = log
      /\ Emit(r, label) => log' = Append(log, NextEvent(r))
      BY DEF Emit, EmitFault, Store, logVars
<1>2. /\ Len(own'[r]) = Len(own[r]) + 1 /\ Len(own[r]) \in Nat
      /\ Elements(own'[r]) \subseteq Elements(own[r]) \cup {NextEvent(r)}
      /\ Elements(log) \subseteq Elements(log')
      /\ log' = Append(log, NextEvent(r)) => NextEvent(r) \in Elements(log')
      BY <1>1, EmitKeepsProvenance
<1>3. pc'[r] = label
      BY <1>1 DEF Goto, IInv, TypeOK
<1> QED BY <1>1, <1>2, <1>3 DEF Missing

\* The next page of the client.
LEMMA PollStep == ASSUME IInv, Poll PROVE IInv'
<1> DEFINE last == IF cursor + PageSize < Len(log) THEN cursor + PageSize ELSE Len(log)
<1>1. /\ received' = received \o SubSeq(log, cursor + 1, last) /\ cursor' = last
      /\ UNCHANGED <<log, nesting, base, baseNesting, own, pc>>
      BY DEF Poll, logVars
<1>2. /\ log \in Seq(Event) /\ received \in Seq(Event) /\ cursor \in Nat
      /\ Len(log) \in Nat /\ PageSize \in Nat
      BY EventAssumption, LenProperties DEF IInv, TypeOK
<1>3. last \in Nat /\ last <= Len(log)
      BY <1>2
<1>4. SubSeq(log, cursor + 1, last) \in Seq(Event)
  <2>1. \A i \in 1..Len(log) : log[i] \in Event
        BY <1>2, ElementOfSeq
  <2>2. \A i \in (cursor + 1)..last : log[i] \in Event
        BY <1>2, <1>3, <2>1
  <2>3. cursor + 1 \in Int /\ last \in Int
        BY <1>2, <1>3
  <2> QED BY <2>2, <2>3, SubSeqProperties
<1>5. received' \in Seq(Event) /\ cursor' \in Nat
  <2>1. \A s, t \in Seq(Event) : s \o t \in Seq(Event)
        BY ConcatProperties
  <2> QED BY <1>1, <1>2, <1>3, <1>4, <2>1
<1>6. TypeOK'
      BY <1>1, <1>5 DEF IInv, TypeOK
<1>7. \A o \in Run : Saved(o)' = Saved(o) /\ Missing(o)' = Missing(o)
      BY <1>1 DEF Saved, Missing
<1>8. Provenance' /\ SameOrder' /\ TurnProgress'
      BY <1>1, <1>7 DEF IInv, Provenance, SameOrder, TurnProgress, ProgressOf, Elements
<1> QED BY <1>6, <1>8 DEF IInv

\* The numbers an emitting turn gives its events stay within their bound.
LEMMA NextEventInBound ==
  ASSUME IInv, NEW r \in Run, pc[r] \in {"running", "failing", "errored"}
  PROVE  NextEvent(r) \in Event
<1>1. Len(own[r]) \in Nat
      BY SavedParts DEF IInv
<1>2. Len(own[r]) <= MaxEvents + 1
      BY <1>1, EventAssumption DEF IInv, TurnProgress, ProgressOf
<1> QED BY <1>1, <1>2, EventAssumption DEF NextEvent, Event

\* Every step keeps the inductive invariant.
LEMMA NextIInv == IInv /\ [Next]_vars => IInv'
<1> SUFFICES ASSUME IInv, [Next]_vars PROVE IInv'
    OBVIOUS
<1>1. \A r \in Run : ProgressOf(r) /\ Len(own[r]) \in Nat
      BY SavedParts DEF IInv, TurnProgress
<1>2. Pcs = {"idle", "routed", "running", "failing", "closing", "errored", "done"}
      BY DEF Pcs
<1>3. ASSUME NEW r \in Run, NEW label \in Pcs, Goto(r, label)
      PROVE  pc'[r] = label
      BY <1>3 DEF Goto, IInv, TypeOK
<1>4. ASSUME NEW r \in Run,
             UNCHANGED <<logVars, base, baseNesting, own, clientVars>>
      PROVE  Missing(r)' = Missing(r) /\ own'[r] = own[r]
      BY <1>4 DEF Missing, logVars
<1>5. MaxEvents \in Nat
      BY EventAssumption
<1>6. ASSUME NEW r \in Run, Turn(r) PROVE IInv'
  <2>1. CASE Route(r)
        BY <2>1, RouteStep
  <2>2. CASE StageSession(r)
    <3>1. SaveOf(r) /\ Goto(r, "running") /\ UNCHANGED <<base, baseNesting, own, clientVars>>
          BY <2>2 DEF StageSession
    <3>2. Missing(r) = {} /\ own[r] = <<>>
          BY <1>1, <2>2 DEF StageSession, ProgressOf
    <3>3. Missing(r)' = {} /\ Len(own'[r]) = 0
          BY <3>1, <3>2, EmptySeq DEF Missing, Elements
    <3>4. pc'[r] = "running" => ProgressOf(r)'
          BY <1>5, <3>3 DEF ProgressOf
    <3> QED BY <1>2, <3>1, <3>2, <3>4, SavingStep
  <2>3. CASE StageFault(r)
    <3>1. pc'[r] = "done" => ProgressOf(r)'
          BY DEF ProgressOf
    <3> QED BY <1>2, <2>3, <3>1, MoveStep DEF StageFault
  <2>4. CASE EmitProgress(r)
    <3>1. /\ pc[r] = "running" /\ Len(own[r]) < MaxEvents /\ Emit(r, "running")
          /\ Missing(r) = {} /\ NextEvent(r) \in Event
          BY <1>1, <2>4, NextEventInBound DEF EmitProgress, ProgressOf
    <3>2. Missing(r)' = {} /\ Len(own'[r]) <= MaxEvents
          BY <1>1, <1>5, <3>1, MissingAfterEmit
    <3>3. pc'[r] = "running" => ProgressOf(r)'
          BY <3>2 DEF ProgressOf
    <3> QED BY <1>2, <3>1, <3>3, EmittingStep
  <2>5. CASE EmitProgressFault(r)
    <3>1. PICK next \in {"failing", "errored"} : EmitFault(r, next)
          BY <2>5 DEF EmitProgressFault
    <3>2. /\ pc[r] = "running" /\ Len(own[r]) < MaxEvents
          /\ Missing(r) = {} /\ NextEvent(r) \in Event
          BY <1>1, <2>5, NextEventInBound DEF EmitProgressFault, ProgressOf
    <3>3. Missing(r)' \subseteq {NextEvent(r)} /\ Len(own'[r]) <= MaxEvents
          BY <1>1, <1>5, <3>1, <3>2, MissingAfterEmit
    <3>5. pc'[r] = next => ProgressOf(r)'
      <4>1. \E e \in Event : Missing(r)' \subseteq {e}
            BY <3>2, <3>3
      <4>2. Len(own'[r]) <= MaxEvents + 1
            BY <1>5, <3>2, <3>1, <3>3, MissingAfterEmit
      <4> QED BY <3>1, <3>3, <4>1, <4>2 DEF ProgressOf, Event
    <3>6. next \in Pcs
          BY <1>2
    <3> QED BY <3>1, <3>2, <3>5, <3>6, EmittingStep
  <2>6. CASE TurnError(r)
    <3>1. Missing(r) = {} /\ Len(own[r]) <= MaxEvents /\ NextEvent(r) \in Event
          BY <1>1, <2>6, NextEventInBound DEF TurnError, ProgressOf
    <3>2. Missing(r)' = {} /\ Len(own'[r]) <= MaxEvents
          BY <1>4, <2>6, <3>1 DEF TurnError
    <3>3. \E e \in Event : Missing(r)' \subseteq {e}
          BY <3>1, <3>2
    <3>4. pc'[r] = "failing" => ProgressOf(r)'
          BY <3>2, <3>3 DEF ProgressOf, Event
    <3> QED BY <1>2, <2>6, <3>4, MoveStep DEF TurnError
  <2>7. CASE EmitFailed(r)
    <3>1. /\ pc[r] = "failing" /\ Emit(r, "closing") /\ NextEvent(r) \in Event
          BY <2>7, NextEventInBound DEF EmitFailed
    <3>2. (\E e \in Event : Missing(r) \subseteq {e}) /\ Len(own[r]) <= MaxEvents
          BY <1>1, <3>1 DEF ProgressOf
    <3>3. (\E e \in Event : Missing(r)' \subseteq {e}) /\ Len(own'[r]) <= MaxEvents + 1
          BY <1>1, <1>5, <3>1, <3>2, MissingAfterEmit
    <3>4. pc'[r] = "closing" => ProgressOf(r)'
          BY <3>3 DEF ProgressOf, Event
    <3> QED BY <1>2, <3>1, <3>4, EmittingStep
  <2>8. CASE EmitFailedFault(r)
    <3>1. /\ pc[r] = "failing" /\ EmitFault(r, "errored") /\ NextEvent(r) \in Event
          BY <2>8, NextEventInBound DEF EmitFailedFault
    <3>2. Len(own[r]) <= MaxEvents
          BY <1>1, <3>1 DEF ProgressOf
    <3>3. Len(own'[r]) <= MaxEvents + 1
          BY <1>1, <1>5, <3>1, <3>2, MissingAfterEmit
    <3>4. pc'[r] = "errored" => ProgressOf(r)'
          BY <3>3 DEF ProgressOf
    <3> QED BY <1>2, <3>1, <3>4, EmittingStep
  <2>9. CASE Conclude(r)
    <3>1. Missing(r) = {} /\ Len(own[r]) <= MaxEvents /\ NextEvent(r) \in Event
          BY <1>1, <2>9, NextEventInBound DEF Conclude, ProgressOf
    <3>2. Missing(r)' = {} /\ Len(own'[r]) <= MaxEvents + 1
          BY <1>1, <1>4, <1>5, <2>9, <3>1 DEF Conclude
    <3>3. \E e \in Event : Missing(r)' \subseteq {e}
          BY <3>1, <3>2
    <3>4. pc'[r] = "closing" => ProgressOf(r)'
          BY <3>2, <3>3 DEF ProgressOf, Event
    <3> QED BY <1>2, <2>9, <3>4, MoveStep DEF Conclude
  <2>10. CASE SaveSession(r)
    <3>1. PICK e \in Event : Missing(r) \subseteq {e}
          BY <1>1, <2>10 DEF SaveSession, ProgressOf
    <3>2. pc'[r] = "done" => ProgressOf(r)'
          BY DEF ProgressOf
    <3> QED BY <1>2, <2>10, <3>1, <3>2, SavingStep DEF SaveSession
  <2>11. CASE SaveFault(r)
    <3>1. Len(own'[r]) <= MaxEvents + 1
          BY <1>1, <1>4, <2>11 DEF SaveFault, ProgressOf
    <3>2. pc'[r] = "errored" => ProgressOf(r)'
          BY <3>1 DEF ProgressOf
    <3> QED BY <1>2, <2>11, <3>2, MoveStep DEF SaveFault
  <2>12. CASE HandlerEmit(r) \/ HandlerFault(r)
    <3>1. /\ pc[r] = "errored" /\ NextEvent(r) \in Event
          /\ Emit(r, "done") \/ EmitFault(r, "done")
          BY <2>12, NextEventInBound DEF HandlerEmit, HandlerFault
    <3>2. pc'[r] = "done" => ProgressOf(r)'
          BY DEF ProgressOf
    <3> QED BY <1>2, <3>1, <3>2, EmittingStep
  <2> QED BY <1>6, <2>1, <2>2, <2>3, <2>4, <2>5, <2>6, <2>7, <2>8, <2>9, <2>10, <2>11, <2>12
          DEF Turn
<1>7. CASE UNCHANGED vars
  <2>1. UNCHANGED <<log, nesting, base, baseNesting, own, pc, cursor, received>>
        BY <1>7 DEF vars
  <2>2. \A o \in Run : Saved(o)' = Saved(o) /\ Missing(o)' = Missing(o)
        BY <2>1 DEF Saved, Missing
  <2> QED BY <2>1, <2>2 DEF IInv, TypeOK, Provenance, SameOrder, TurnProgress, ProgressOf, Elements
<1> QED BY <1>6, <1>7, PollStep DEF Next

\* The inductive invariant of the event store and its turns holds throughout.
THEOREM IInvAlways == Spec => []IInv
<1> QED BY InitIInv, NextIInv, PTL DEF Spec

\* The stored events, the run snapshots, the turns' copies and the poller's cursor
\* keep their types (run_events rows, RunSnapshot.events, the desktop's cursor).
THEOREM TypeOKAlways == Spec => []TypeOK
<1>1. IInv => TypeOK
      BY DEF IInv
<1> QED BY <1>1, IInvAlways, PTL

\* However turns overlap and whatever append fails, a turn that is about to save
\* its session has at most one event that the store does not hold.
THEOREM OneMissingAtSaveAlways == Spec => []OneMissingAtSave
<1>1. IInv => OneMissingAtSave
  <2> SUFFICES ASSUME IInv, NEW r \in Run, pc[r] = "closing"
               PROVE  Cardinality(Missing(r)) <= 1
      BY DEF OneMissingAtSave
  <2>1. PICK e \in Event : Missing(r) \subseteq {e}
        BY DEF IInv, TurnProgress, ProgressOf
  <2>2. Missing(r) = {} \/ Missing(r) = {e}
        BY <2>1
  <2>3. Cardinality({}) = 0 /\ Cardinality({e}) = 1
        BY FS_EmptySet, FS_Singleton
  <2>4. CASE Missing(r) = {}
        BY <2>3, <2>4
  <2>5. CASE Missing(r) = {e}
        BY <2>3, <2>5
  <2> QED BY <2>2, <2>4, <2>5
<1> QED BY <1>1, IInvAlways, PTL

\* Every event is stored at most once, and the events of a turn in the order it
\* emitted them, whatever is re-inserted.
THEOREM StoredInOrderAlways == Spec => []StoredInOrder
<1>1. IInv => StoredInOrder
  <2> SUFFICES ASSUME IInv, NEW i \in DOMAIN log, NEW j \in DOMAIN log,
                      i < j, log[i].run = log[j].run
               PROVE  log[i].n < log[j].n
      BY DEF StoredInOrder
  <2> DEFINE r == log[i].run
  <2>1. /\ log[i] \in Event /\ log[j] \in Event /\ i \in Nat /\ j \in Nat
        BY LenProperties, ElementOfSeq DEF IInv, TypeOK
  <2>2. r \in Run /\ log[i].n \in Nat \ {0} /\ log[j].n \in Nat \ {0}
        BY <2>1, EventAssumption DEF Event
  <2>3. log[i].n <= Len(own[r]) /\ log[j].n <= Len(own[r])
        BY DEF IInv, Provenance
  <2>4. /\ Len(base[r]) \in Nat /\ Len(own[r]) \in Nat /\ DOMAIN own[r] = 1..Len(own[r])
        /\ DOMAIN Saved(r) = 1..(Len(base[r]) + Len(own[r]))
        BY <2>2, SavedParts DEF IInv
  <2>5. ASSUME NEW k \in DOMAIN log, log[k].run = r, log[k] \in Event, log[k].n \in Nat \ {0},
               log[k].n <= Len(own[r])
        PROVE  /\ Len(base[r]) + log[k].n \in DOMAIN Saved(r)
               /\ Saved(r)[Len(base[r]) + log[k].n] = log[k]
    <3>1. Len(base[r]) + log[k].n \in 1..(Len(base[r]) + Len(own[r]))
      <4>1. ASSUME NEW a \in Nat, NEW b \in Nat, NEW n \in Nat \ {0}, n <= b
            PROVE  a + n \in 1..(a + b)
            BY <4>1
      <4> QED BY <2>4, <2>5, <4>1
    <3>2. ~(Len(base[r]) + log[k].n <= Len(base[r]))
          BY <2>4, <2>5
    <3>3. (Len(base[r]) + log[k].n) - Len(base[r]) = log[k].n
          BY <2>4, <2>5
    <3>4. Saved(r)[Len(base[r]) + log[k].n] = own[r][log[k].n]
          BY <2>2, <3>1, <3>2, <3>3, SavedParts DEF IInv
    <3>5. log[k].n \in DOMAIN own[r]
          BY <2>4, <2>5
    <3>6. own[r][log[k].n] \in Event
          BY <2>2, <2>4, <3>5, ElementOfSeq DEF IInv, TypeOK
    <3>7. own[r][log[k].n].run = r /\ own[r][log[k].n].n = log[k].n
          BY <2>2, <3>5 DEF IInv, Provenance
    <3>8. own[r][log[k].n] = log[k]
      <4>1. ASSUME NEW x \in Event, NEW y \in Event, x.run = y.run, x.n = y.n PROVE x = y
            BY <4>1 DEF Event
      <4> QED BY <2>5, <3>6, <3>7, <4>1
    <3> QED BY <2>4, <3>1, <3>4, <3>8
  <2>6. log[i] # log[j]
        BY <2>1 DEF IInv, Provenance
  <2>7. log[i].n # log[j].n
    <3>1. ASSUME NEW x \in Event, NEW y \in Event, x.run = y.run, x.n = y.n PROVE x = y
          BY <3>1 DEF Event
    <3> QED BY <2>1, <2>6, <3>1
  <2>8. ASSUME log[j].n < log[i].n PROVE FALSE
    <3>1. /\ Len(base[r]) + log[i].n \in DOMAIN Saved(r)
          /\ Len(base[r]) + log[j].n \in DOMAIN Saved(r)
          /\ Saved(r)[Len(base[r]) + log[i].n] = log[i]
          /\ Saved(r)[Len(base[r]) + log[j].n] = log[j]
          BY <2>1, <2>2, <2>3, <2>5
    <3>2. Len(base[r]) + log[j].n < Len(base[r]) + log[i].n
          BY <2>2, <2>4, <2>8
    <3>3. j < i
          BY <2>2, <3>1, <3>2 DEF IInv, SameOrder
    <3> QED BY <2>1, <3>3
  <2> QED BY <2>2, <2>7, <2>8
<1> QED BY <1>1, IInvAlways, PTL

\* No save drops or reorders what is stored, however many turns overlap and
\* whichever appends fail.
THEOREM NoEventLostAlways == Spec => NoEventLost
<1> DEFINE Keeps ==
      /\ Elements(log) \subseteq Elements(log')
      /\ \A i, j \in DOMAIN log, k, l \in DOMAIN log' :
           i < j /\ log'[k] = log[i] /\ log'[l] = log[j] => k < l
<1>1. ASSUME IInv, log' = log PROVE Keeps
      BY <1>1 DEF IInv, Provenance, Elements
<1>2. ASSUME IInv, NEW r \in Run, NEW next, NextEvent(r) \in Event, Emit(r, next) PROVE Keeps
  <2>1. /\ log \in Seq(Event) /\ DOMAIN log = 1..Len(log) /\ Len(log) \in Nat
        /\ log' = Append(log, NextEvent(r))
        BY <1>2, LenProperties DEF IInv, TypeOK, Emit, Store
  <2>2. Elements(log) \subseteq Elements(log') /\ Provenance'
        BY <1>2, <2>1, EmitKeepsProvenance DEF Emit
  <2>3. \A i \in DOMAIN log : i \in DOMAIN log' /\ log'[i] = log[i]
    <3>1. /\ log' \in Seq(Event) /\ Len(log') = Len(log) + 1
          /\ \A i \in 1..Len(log) : log'[i] = log[i]
          BY <1>2, <2>1, AppendProperties
    <3> QED BY <2>1, <3>1, LenProperties
  <2>4. \A i, j \in DOMAIN log' : log'[i] = log'[j] => i = j
        BY <2>2 DEF Provenance
  <2> QED BY <2>2, <2>3, <2>4
<1>3. ASSUME IInv, NEW r \in Run, SaveOf(r), pc[r] \in {"routed", "closing"} PROVE Keeps
  <2>1. \E e : Missing(r) \subseteq {e}
    <3>1. pc[r] = "routed" => Missing(r) = {}
          BY <1>3 DEF IInv, TurnProgress, ProgressOf
    <3>2. pc[r] = "closing" => \E e \in Event : Missing(r) \subseteq {e}
          BY <1>3 DEF IInv, TurnProgress, ProgressOf
    <3> QED BY <1>3, <3>1, <3>2
  <2>2. PICK e : Missing(r) \subseteq {e}
        BY <2>1
  <2> QED BY <1>3, <2>2, SaveStep
<1>4. IInv /\ [Next]_vars => [Keeps]_vars
  <2> SUFFICES ASSUME IInv, Next PROVE Keeps
      OBVIOUS
  <2>1. CASE Poll
        BY <1>1, <2>1 DEF Poll, logVars
  <2>2. ASSUME NEW r \in Run, Turn(r) PROVE Keeps
    <3>1. CASE log' = log
          BY <1>1, <3>1
    <3>2. CASE EmitProgress(r) \/ EmitFailed(r) \/ HandlerEmit(r)
          BY <1>2, <3>2, NextEventInBound DEF EmitProgress, EmitFailed, HandlerEmit
    <3>3. CASE StageSession(r) \/ SaveSession(r)
          BY <1>3, <3>3 DEF StageSession, SaveSession
    <3> QED BY <2>2, <3>1, <3>2, <3>3
            DEF Turn, Route, StageFault, EmitProgressFault, EmitFault, TurnError, EmitFailedFault,
                Conclude, SaveFault, HandlerFault, logVars
  <2> QED BY <2>1, <2>2 DEF Next
<1> QED BY <1>4, IInvAlways, PTL DEF Spec, NoEventLost

-----------------------------------------------------------------------------
(* The client                                                              *)

\* A list that holds another one's elements in that one's order holds none of
\* them at an earlier position.
LEMMA NoneMovesForward ==
  ASSUME NEW S, NEW s \in Seq(S), NEW t \in Seq(S), OnceEach(s), OnceEach(t),
         Elements(s) \subseteq Elements(t),
         \A i, j \in DOMAIN s, k, l \in DOMAIN t : i < j /\ t[k] = s[i] /\ t[l] = s[j] => k < l,
         NEW n \in DOMAIN s, NEW m \in DOMAIN t, t[m] = s[n]
  PROVE  n <= m
<1>1. /\ DOMAIN s = 1..Len(s) /\ DOMAIN t = 1..Len(t)
      /\ Len(s) \in Nat /\ Len(t) \in Nat /\ n \in Nat /\ m \in Nat
      BY LenProperties
<1>2. \A k \in 1..n : k \in DOMAIN s
      BY <1>1
<1> DEFINE f == [k \in 1..n |-> CHOOSE x \in DOMAIN t : t[x] = s[k]]
<1>3. \A k \in 1..n : f[k] \in DOMAIN t /\ t[f[k]] = s[k]
      BY <1>2 DEF Elements
<1> HIDE DEF f
<1>4. \A k \in 1..n : f[k] <= m
  <2> SUFFICES ASSUME NEW k \in 1..n PROVE f[k] <= m
      OBVIOUS
  <2>1. CASE k = n
        BY <1>1, <1>3, <2>1 DEF OnceEach
  <2>2. CASE k # n
    <3>1. k < n /\ k \in DOMAIN s
          BY <1>1, <1>2, <2>2
    <3>2. f[k] < m
          BY <1>3, <3>1
    <3> QED BY <1>1, <1>3, <3>2
  <2> QED BY <2>1, <2>2
<1>5. \A x, y \in 1..n : x # y => f[x] # f[y]
      BY <1>2, <1>3 DEF OnceEach
<1>6. f \in [1..n -> 1..m]
  <2>1. DOMAIN f = 1..n /\ f = [k \in 1..n |-> f[k]]
        BY DEF f
  <2>2. \A k \in 1..n : f[k] \in 1..m
        BY <1>1, <1>3, <1>4
  <2> QED BY <2>1, <2>2
<1>7. /\ IsFiniteSet(1..n) /\ Cardinality(1..n) = n
      /\ IsFiniteSet(1..m) /\ Cardinality(1..m) = m
      BY <1>1, FS_Interval
<1>8. ~(m < n)
  <2> SUFFICES ASSUME m < n PROVE FALSE
      OBVIOUS
  <2> DEFINE A == 1..n
             B == 1..m
  <2>1. IsFiniteSet(A) /\ IsFiniteSet(B) /\ Cardinality(B) < Cardinality(A) /\ f \in [A -> B]
        BY <1>6, <1>7
  <2> HIDE DEF A, B
  <2>2. \E x, y \in A : x # y /\ f[x] = f[y]
        BY <2>1, FS_PigeonHole
  <2> QED BY <1>5, <2>2 DEF A
<1> QED BY <1>1, <1>8

\* The page of a poll ends at a position of the log.
LEMMA PageEnd ==
  ASSUME IInv, Poll
  PROVE  /\ cursor' \in Nat /\ cursor' <= Len(log) /\ cursor < cursor'
         /\ Len(log) \in Nat /\ DOMAIN log = 1..Len(log)
         /\ received' = received \o SubSeq(log, cursor + 1, cursor')
         /\ UNCHANGED <<log, base, own>>
<1>1. cursor \in Nat /\ Len(log) \in Nat /\ DOMAIN log = 1..Len(log) /\ PageSize \in Nat \ {0}
      BY EventAssumption, LenProperties DEF IInv, TypeOK
<1> QED BY <1>1 DEF Poll, logVars

\* What a poll steps over is in its page.
LEMMA PageIsReceived ==
  ASSUME IInv, Poll, NEW i \in DOMAIN log, i > cursor, i <= cursor'
  PROVE  log[i] \in Elements(received')
<1> DEFINE page == SubSeq(log, cursor + 1, cursor')
<1>1. /\ cursor \in Nat /\ cursor' \in Nat /\ Len(log) \in Nat /\ i \in Nat
      /\ cursor' <= Len(log) /\ cursor < cursor' /\ DOMAIN log = 1..Len(log)
      /\ received \in Seq(Event) /\ log \in Seq(Event) /\ received' = received \o page
  <2>1. cursor \in Nat /\ received \in Seq(Event) /\ log \in Seq(Event)
        BY DEF IInv, TypeOK
  <2>2. /\ cursor' \in Nat /\ Len(log) \in Nat /\ cursor' <= Len(log) /\ cursor < cursor'
        /\ DOMAIN log = 1..Len(log) /\ received' = received \o page
        BY PageEnd
  <2> QED BY <2>1, <2>2
<1>2. /\ page \in Seq(Event) /\ Len(page) = cursor' - cursor
      /\ \A k \in 1..(cursor' - cursor) : page[k] = log[cursor + k]
  <2>1. \A k \in (cursor + 1)..cursor' : log[k] \in Event
        BY <1>1, ElementOfSeq
  <2>2. cursor + 1 \in Int /\ cursor' \in Int
        BY <1>1
  <2>3. /\ page \in Seq(Event)
        /\ Len(page) = IF cursor + 1 <= cursor' THEN cursor' - (cursor + 1) + 1 ELSE 0
        /\ \A k \in 1..(cursor' - (cursor + 1) + 1) : page[k] = log[cursor + 1 + k - 1]
        BY <2>1, <2>2, SubSeqProperties
  <2> HIDE DEF page
  <2>4. cursor + 1 <= cursor' /\ cursor' - (cursor + 1) + 1 = cursor' - cursor
        BY <1>1
  <2>5. Len(page) = cursor' - cursor
        BY <2>3, <2>4
  <2>6. ASSUME NEW k \in 1..(cursor' - cursor) PROVE page[k] = log[cursor + k]
    <3>1. cursor + 1 + k - 1 = cursor + k
          BY <1>1
    <3>2. k \in 1..(cursor' - (cursor + 1) + 1)
          BY <2>4
    <3>3. page[k] = log[cursor + 1 + k - 1]
          BY <2>3, <3>2
    <3> QED BY <3>1, <3>3
  <2> QED BY <2>3, <2>5, <2>6
<1> HIDE DEF page
<1>3. /\ received' \in Seq(Event) /\ Len(received') = Len(received) + Len(page)
      /\ Len(received) \in Nat
      /\ \A k \in 1..(Len(received) + Len(page)) :
           received'[k] = IF k <= Len(received) THEN received[k] ELSE page[k - Len(received)]
      BY <1>1, <1>2, ConcatProperties, LenProperties
<1> DEFINE k == Len(received) + (i - cursor)
<1>4. /\ k \in 1..(Len(received) + Len(page)) /\ ~(k <= Len(received))
      /\ k - Len(received) = i - cursor /\ i - cursor \in 1..(cursor' - cursor)
      /\ cursor + (i - cursor) = i
      BY <1>1, <1>2, <1>3
<1>5. received'[k] = log[i]
      BY <1>2, <1>3, <1>4
<1>6. DOMAIN received' = 1..Len(received')
      BY <1>3, LenProperties
<1> QED BY <1>3, <1>4, <1>5, <1>6 DEF Elements

\* No event that is stored and not yet delivered slips behind the cursor of the
\* client's next poll, whatever a save re-inserts and renumbers.
THEOREM NothingSkippedAlways == Spec => NothingSkipped
<1> DEFINE Ahead(i) ==
      \/ log[i] \in Elements(received')
      \/ \E j \in DOMAIN log' : j > cursor' /\ log'[j] = log[i]
<1>1. ASSUME IInv, NEW i \in DOMAIN log, i > cursor, log' = log, cursor' = cursor PROVE Ahead(i)
      BY <1>1
<1>2. ASSUME IInv, NEW i \in DOMAIN log, i > cursor,
             NEW r \in Run, NEW next, NextEvent(r) \in Event, Emit(r, next)
      PROVE  Ahead(i)
  <2>1. /\ log \in Seq(Event) /\ DOMAIN log = 1..Len(log) /\ Len(log) \in Nat
        /\ log' = Append(log, NextEvent(r)) /\ cursor' = cursor
        BY <1>2, LenProperties DEF IInv, TypeOK, Emit, Store, clientVars
  <2>2. /\ log' \in Seq(Event) /\ Len(log') = Len(log) + 1
        /\ \A k \in 1..Len(log) : log'[k] = log[k]
        BY <1>2, <2>1, AppendProperties
  <2>3. i \in DOMAIN log' /\ log'[i] = log[i]
        BY <2>1, <2>2, LenProperties
  <2> QED BY <1>2, <2>1, <2>3
<1>3. ASSUME IInv, NEW i \in DOMAIN log, i > cursor,
             NEW r \in Run, SaveOf(r), pc[r] \in {"routed", "closing"}, cursor' = cursor
      PROVE  Ahead(i)
  <2>1. \E e : Missing(r) \subseteq {e}
        BY <1>3 DEF IInv, TurnProgress, ProgressOf
  <2>2. /\ log' \in Seq(Event) /\ OnceEach(log')
        /\ Elements(log) \subseteq Elements(log')
        /\ \A x, y \in DOMAIN log, k, l \in DOMAIN log' :
             x < y /\ log'[k] = log[x] /\ log'[l] = log[y] => k < l
        BY <1>3, <2>1, SaveStep
  <2>3. PICK j \in DOMAIN log' : log'[j] = log[i]
        BY <2>2 DEF Elements
  <2>4. log \in Seq(Event) /\ OnceEach(log)
        BY <1>3 DEF IInv, TypeOK, Provenance, OnceEach
  <2>5. i <= j
        BY <2>2, <2>3, <2>4, NoneMovesForward
  <2>6. i \in Nat /\ j \in Nat /\ cursor \in Nat
        BY <1>3, <2>2, <2>3, <2>4, LenProperties DEF IInv, TypeOK
  <2> QED BY <1>3, <2>3, <2>5, <2>6
<1>4. ASSUME IInv, NEW i \in DOMAIN log, i > cursor, Poll PROVE Ahead(i)
  <2>1. cursor' \in Nat /\ i \in Nat /\ log' = log
        BY <1>4, PageEnd
  <2>2. CASE i <= cursor'
        BY <1>4, <2>2, PageIsReceived
  <2>3. CASE i > cursor'
        BY <2>1, <2>3
  <2> QED BY <2>1, <2>2, <2>3
<1>5. ASSUME IInv, [Next]_vars, NEW i \in DOMAIN log, i > cursor PROVE Ahead(i)
  <2>1. CASE UNCHANGED vars
        BY <1>1, <1>5, <2>1 DEF vars
  <2>2. CASE Poll
        BY <1>4, <1>5, <2>2
  <2>3. ASSUME NEW r \in Run, Turn(r) PROVE Ahead(i)
    <3>1. CASE log' = log /\ cursor' = cursor
          BY <1>1, <1>5, <3>1
    <3>2. CASE EmitProgress(r) \/ EmitFailed(r) \/ HandlerEmit(r)
          BY <1>2, <1>5, <3>2, NextEventInBound DEF EmitProgress, EmitFailed, HandlerEmit
    <3>3. CASE StageSession(r) \/ SaveSession(r)
          BY <1>3, <1>5, <3>3 DEF StageSession, SaveSession, clientVars
    <3> QED BY <2>3, <3>1, <3>2, <3>3
            DEF Turn, Route, StageFault, EmitProgressFault, EmitFault, TurnError, EmitFailedFault,
                Conclude, SaveFault, HandlerFault, logVars, clientVars
  <2> QED BY <1>5, <2>1, <2>2, <2>3 DEF Next
<1>6. IInv /\ [Next]_vars => [\A i \in DOMAIN log : i > cursor => Ahead(i)]_vars
      BY <1>5
<1> QED BY <1>6, IInvAlways, PTL DEF Spec, NothingSkipped

-----------------------------------------------------------------------------
(* The feed, with storage that does not fail                               *)

\* What the client was given is the log up to its cursor, and no turn has an
\* event that the store lacks.
FeedInv ==
  /\ cursor <= Len(log)
  /\ received = SubSeq(log, 1, cursor)
  /\ \A r \in Run : Missing(r) = {}

\* A turn that misses nothing has no longer list than the log, so that its save
\* leaves the log alone.
LEMMA NothingToSave ==
  ASSUME IInv, NEW r \in Run, Missing(r) = {}, SaveOf(r)
  PROVE  log' = log
<1>1. /\ log \in Seq(Event) /\ OnceEach(log)
      /\ Saved(r) \in Seq(Event) /\ OnceEach(Saved(r))
      /\ Elements(Saved(r)) \in SUBSET Elements(log)
      BY SavedParts, SavedOnceEach DEF IInv, TypeOK, Provenance, OnceEach
<1>2. /\ IsFiniteSet(Elements(log)) /\ Cardinality(Elements(log)) = Len(log)
      /\ Cardinality(Elements(Saved(r))) = Len(Saved(r))
      BY <1>1, CardinalityOfSeq
<1>3. Cardinality(Elements(Saved(r))) <= Cardinality(Elements(log))
      BY <1>1, <1>2, FS_Subset
<1>4. Len(log) \in Nat /\ Len(Saved(r)) \in Nat
      BY <1>1, LenProperties
<1>5. ~(Len(Saved(r)) > Len(log))
      BY <1>2, <1>3, <1>4
<1> QED BY <1>5 DEF SaveOf, SaveEvents, logVars

\* The beginning of a log stays what it is when an event is appended.
LEMMA PrefixStays ==
  ASSUME NEW S, NEW s \in Seq(S), NEW e \in S, NEW n \in Nat, n <= Len(s)
  PROVE  SubSeq(Append(s, e), 1, n) = SubSeq(s, 1, n)
<1>1. CASE n = 0
      BY <1>1, SubSeqEmpty
<1>2. CASE n # 0
  <2>1. Len(s) \in Nat /\ <<e>> \in Seq(S) /\ Append(s, e) = s \o <<e>>
        BY LenProperties, AppendIsConcat
  <2>2. 1 \in 1..Len(s) /\ n \in 1..Len(s)
        BY <1>2, <2>1
  <2>3. SubSeq(s \o <<e>>, 1, n) = SubSeq(s, 1, n)
        BY <2>1, <2>2, SubSeqOfConcat1
  <2> QED BY <2>1, <2>3
<1> QED BY <1>1, <1>2

LEMMA FeedInit == Init => FeedInv /\ Feed!Init
<1> SUFFICES ASSUME Init PROVE FeedInv /\ Feed!Init
    OBVIOUS
<1>1. log = <<>> /\ received = <<>> /\ cursor = 0 /\ \A r \in Run : own[r] = <<>>
      BY DEF Init
<1>2. SubSeq(log, 1, cursor) = <<>> /\ Len(log) = 0
      BY <1>1, SubSeqEmpty, EmptySeq
<1>3. \A r \in Run : Missing(r) = {}
      BY <1>1 DEF Missing, Elements
<1> QED BY <1>1, <1>2, <1>3 DEF FeedInv, Feed!Init

\* A step that touches neither log nor memories nor client.
LEMMA FeedIdle ==
  ASSUME FeedInv, log' = log, cursor' = cursor, received' = received, own' = own
  PROVE  FeedInv' /\ UNCHANGED Feed!vars
<1>1. \A r \in Run : Missing(r)' = Missing(r)
      BY DEF Missing
<1> QED BY <1>1 DEF FeedInv, Feed!vars

LEMMA FeedEmit ==
  ASSUME IInv, FeedInv, NEW r \in Run, NEW next, NextEvent(r) \in Event, Emit(r, next)
  PROVE  FeedInv' /\ Feed!Next
<1>1. /\ log \in Seq(Event) /\ cursor \in Nat /\ log' = Append(log, NextEvent(r))
      /\ own' = [own EXCEPT ![r] = Append(own[r], NextEvent(r))] /\ own \in [Run -> Seq(Event)]
      /\ UNCHANGED <<base, cursor, received>>
      BY DEF IInv, TypeOK, Emit, Store, clientVars
<1>2. Elements(log) \subseteq Elements(log')
      BY <1>1, EmitKeepsProvenance
<1>3. Missing(r)' = {}
      BY MissingAfterEmit DEF FeedInv
<1>4. \A o \in Run \ {r} : Missing(o)' \subseteq Missing(o)
      BY <1>1, <1>2 DEF Missing
<1>5. \A o \in Run : Missing(o)' = {}
      BY <1>3, <1>4 DEF FeedInv
<1>6. Len(log') = Len(log) + 1 /\ Len(log) \in Nat
      BY <1>1, AppendProperties, LenProperties
<1>7. SubSeq(log', 1, cursor') = SubSeq(log, 1, cursor)
      BY <1>1, PrefixStays DEF FeedInv
<1>8. FeedInv'
      BY <1>1, <1>5, <1>6, <1>7 DEF FeedInv
<1>9. \A i \in DOMAIN log : log[i] # NextEvent(r)
      BY NextEventIsNew DEF Elements
<1>10. Feed!Publish(NextEvent(r))
      BY <1>1, <1>9 DEF Feed!Publish
<1> QED BY <1>8, <1>10 DEF Feed!Next

LEMMA FeedPoll ==
  ASSUME IInv, FeedInv, Poll
  PROVE  FeedInv' /\ Feed!Next
<1>1. /\ cursor' \in Nat /\ cursor' <= Len(log) /\ cursor < cursor'
      /\ Len(log) \in Nat /\ received' = received \o SubSeq(log, cursor + 1, cursor')
      /\ UNCHANGED <<log, base, own>>
      BY PageEnd
<1>2. log \in Seq(Event) /\ cursor \in Nat /\ received = SubSeq(log, 1, cursor)
      BY DEF IInv, TypeOK, FeedInv
<1>3. received' = SubSeq(log, 1, cursor')
  <2>1. 1 \in 1..(Len(log) + 1) /\ cursor \in (1 - 1)..Len(log) /\ cursor' \in cursor..Len(log)
        BY <1>1, <1>2
  <2>2. ASSUME NEW s \in Seq(Event), NEW k \in (1 - 1)..Len(s), NEW n \in k..Len(s), 1 \in 1..(Len(s) + 1)
        PROVE  SubSeq(s, 1, k) \o SubSeq(s, k + 1, n) = SubSeq(s, 1, n)
        BY <2>2, ConcatAdjacentSubSeq
  <2> QED BY <1>1, <1>2, <2>1, <2>2
<1>4. \A o \in Run : Missing(o)' = Missing(o)
      BY <1>1 DEF Missing
<1>5. FeedInv'
      BY <1>1, <1>3, <1>4 DEF FeedInv
<1>6. Len(received) = cursor
  <2>1. \A k \in 1..cursor : log[k] \in Event
        BY <1>1, <1>2, ElementOfSeq
  <2>2. Len(SubSeq(log, 1, cursor)) = IF 1 <= cursor THEN cursor - 1 + 1 ELSE 0
        BY <1>2, <2>1, SubSeqProperties
  <2> QED BY <1>2, <2>2
<1>7. cursor' \in (Len(received) + 1)..Len(log)
      BY <1>1, <1>2, <1>6
<1>8. PICK n \in (Len(received) + 1)..Len(log) : received' = SubSeq(log, 1, n)
      BY <1>3, <1>7
<1>9. Feed!Deliver(n)
      BY <1>1, <1>8 DEF Feed!Deliver
<1> QED BY <1>5, <1>8, <1>9 DEF Feed!Next

\* With storage that does not fail, the stored log and what a client has polled
\* form the append-only feed: saves never change the log, and deliveries are its
\* growing prefixes.
THEOREM FeedImplemented ==
  ASSUME StorageFails = FALSE
  PROVE  Spec => ImplementsFeed
<1>1. ASSUME IInv, FeedInv, [Next]_vars PROVE FeedInv' /\ [Feed!Next]_(Feed!vars)
  <2>1. CASE UNCHANGED vars
        BY <1>1, <2>1, FeedIdle DEF vars
  <2>2. CASE Poll
        BY <1>1, <2>2, FeedPoll
  <2>3. ASSUME NEW r \in Run, Turn(r) PROVE FeedInv' /\ [Feed!Next]_(Feed!vars)
    <3>1. CASE EmitProgress(r) \/ EmitFailed(r) \/ HandlerEmit(r)
          BY <1>1, <3>1, FeedEmit, NextEventInBound DEF EmitProgress, EmitFailed, HandlerEmit
    <3>2. CASE StageSession(r) \/ SaveSession(r)
          BY <1>1, <3>2, NothingToSave, FeedIdle DEF FeedInv, StageSession, SaveSession, clientVars
    <3>3. CASE Route(r) \/ TurnError(r) \/ Conclude(r) \/ StageFault(r) \/ SaveFault(r)
          BY <1>1, <3>3, FeedIdle DEF Route, TurnError, Conclude, StageFault, SaveFault, logVars, clientVars
    <3>4. CASE EmitProgressFault(r) \/ EmitFailedFault(r) \/ HandlerFault(r)
          BY <3>4 DEF EmitProgressFault, EmitFailedFault, HandlerFault, EmitFault
    <3> QED BY <2>3, <3>1, <3>2, <3>3, <3>4 DEF Turn
  <2> QED BY <1>1, <2>1, <2>2, <2>3 DEF Next
<1> QED BY <1>1, FeedInit, IInvAlways, PTL DEF Spec, ImplementsFeed, Feed!Spec
=============================================================================

------------------------- MODULE SessionKept_proofs -------------------------
(***************************************************************************)
(* Theorems about what is kept of a session: its memory (SessionMemory)    *)
(* and its conversation (SessionContent), for any turns and any number of  *)
(* saves by the user.                                                      *)
(***************************************************************************)
EXTENDS SessionMemory, SessionContent, FiniteSetTheorems, SequenceTheorems, WellFoundedInduction, TLAPS

-----------------------------------------------------------------------------
(* The memory: a text belongs to the write after which it was read, and    *)
(* what can be said of it does not change when others write.  So the       *)
(* invariant says of the file, of what each turn was shown and of the      *)
(* desktop's draft what the property says of the file alone.               *)

EntrySet == [of : Nat, whole : BOOLEAN]

WriteSet == [since : Nat, cut : BOOLEAN, says : BOOLEAN, saved : BOOLEAN]

\* Every write is made from an earlier one, or from none.
Written(W) == W \in Seq(WriteSet) /\ \A n \in DOMAIN W : W[n].since < n

Closed(W, S) == \A n \in S : W[n].since # 0 => W[n].since \in S

\* The line of the n-th write.
LineOf(W, n) ==
  IF n = 0 THEN {}
  ELSE {m \in DOMAIN W : \A S \in SUBSET DOMAIN W : Closed(W, S) /\ n \in S => m \in S}

\* A text that was read after the n-th write has entries of its line, once each; one
\* that is to be saved may be another session's, if it was never read.
Told(W, n, text, saved) ==
  /\ \A j, k \in DOMAIN text : text[j].of = text[k].of => j = k
  /\ \A k \in DOMAIN text :
       IF text[k].of = 0 THEN (saved /\ n = 0) \/ \E m \in LineOf(W, n) : W[m].saved /\ W[m].since = 0
       ELSE text[k].of \in LineOf(W, n) /\ W[text[k].of].says

\* It tells of all writes of its line but those that were cut.
Whole(W, n, text) ==
  \A m \in LineOf(W, n) : W[m].says =>
    \/ \E k \in DOMAIN text : text[k] = Entry(m)
    \/ \E j \in LineOf(W, n) : j > m /\ W[j].cut

\* What the server reads, and what the desktop has of it.
Served(W, read) ==
  /\ read.text \in Seq(EntrySet) /\ read.since \in 0..Len(W)
  /\ Told(W, read.since, read.text, TRUE) /\ Whole(W, read.since, read.text)

Shown(W, talk) ==
  /\ talk.at \in {"idle", "resumed", "loop", "done"}
  /\ talk.shown \in Seq(EntrySet) /\ talk.since \in 0..Len(W) /\ talk.cut \in BOOLEAN
  /\ Told(W, talk.since, talk.shown, FALSE)
  /\ talk.cut \/ Whole(W, talk.since, talk.shown)

MemoryShape ==
  /\ DOMAIN talks = MemoryTurn
  /\ \A t \in MemoryTurn : DOMAIN talks[t] = DOMAIN NoTalk
  /\ DOMAIN draft = DOMAIN NoDraft
  /\ draft.loads # <<>> => 1 \in DOMAIN draft.loads

MemoryInv ==
  /\ MemoryShape
  /\ Written(writes)
  /\ memory \in Seq(EntrySet)
  /\ Told(writes, Len(writes), memory, FALSE) /\ Whole(writes, Len(writes), memory)
  /\ \A t \in MemoryTurn : Shown(writes, talks[t])
  /\ Served(writes, draft)
  /\ \A k \in DOMAIN draft.loads : Served(writes, draft.loads[k])

-----------------------------------------------------------------------------
(* Lines of writes                                                         *)

\* Writes that come later change nothing in the line of one that is there.
LEMMA LineStays ==
  ASSUME NEW W, Written(W), NEW w \in WriteSet, w.since \in 0..Len(W), NEW n \in 0..Len(W)
  PROVE  LineOf(Append(W, w), n) = LineOf(W, n)
<1> DEFINE V == Append(W, w)
<1>1. /\ DOMAIN W = 1..Len(W) /\ DOMAIN V = 1..(Len(W) + 1) /\ Len(W) \in Nat
      /\ \A m \in DOMAIN W : V[m] = W[m] /\ W[m] \in WriteSet
      /\ V[Len(W) + 1] = w
  BY DEF Written
<1>2. CASE n = 0
  BY <1>2 DEF LineOf
<1>3. CASE n # 0
  <2> HIDE DEF V
  <2>1. ASSUME NEW m \in LineOf(V, n)
        PROVE  m \in LineOf(W, n)
    <3>1. SUFFICES ASSUME NEW S \in SUBSET DOMAIN W, Closed(W, S), n \in S
                   PROVE  m \in S
      <4>1. Closed(W, DOMAIN W)
        BY <1>1 DEF Closed, Written, WriteSet
      <4> QED BY <1>1, <1>3, <4>1, <2>1 DEF LineOf
    <3>2. S \in SUBSET DOMAIN V /\ Closed(V, S)
      BY <1>1, <3>1 DEF Closed
    <3> QED BY <2>1, <1>3, <3>1, <3>2 DEF LineOf
  <2>2. ASSUME NEW m \in LineOf(W, n)
        PROVE  m \in LineOf(V, n)
    <3>1. m \in DOMAIN V
      BY <1>1, <1>3, <2>2 DEF LineOf
    <3>2. SUFFICES ASSUME NEW S \in SUBSET DOMAIN V, Closed(V, S), n \in S
                   PROVE  m \in S
      BY <3>1, <1>3 DEF LineOf
    <3>3. Closed(W, S \cap DOMAIN W)
      BY <1>1, <3>2 DEF Closed, Written, WriteSet
    <3> QED BY <2>2, <1>1, <1>3, <3>2, <3>3 DEF LineOf
  <2> QED BY <2>1, <2>2 DEF V
<1> QED BY <1>2, <1>3

\* The line of a write is the write and the line of the one it was made from.
LEMMA LineOfWrite ==
  ASSUME NEW W, Written(W), NEW n \in DOMAIN W
  PROVE  LineOf(W, n) = {n} \cup LineOf(W, W[n].since)
<1> DEFINE s == W[n].since
<1>0. W[n] \in WriteSet /\ W[n].since < n
  BY DEF Written
<1>1. /\ DOMAIN W = 1..Len(W) /\ Len(W) \in Nat /\ n # 0
      /\ s \in Nat /\ s < n
  BY <1>0 DEF Written, WriteSet
<1>2. n \in LineOf(W, n)
  BY <1>1 DEF LineOf
<1>3. ASSUME NEW m \in LineOf(W, s)
      PROVE  m \in LineOf(W, n)
  BY <1>1, <1>3 DEF LineOf, Closed
<1>4. ASSUME NEW m \in LineOf(W, n), m # n
      PROVE  m \in LineOf(W, s)
  <2>1. s # 0
    <3>1. SUFFICES ASSUME s = 0 PROVE FALSE
      OBVIOUS
    <3>2. Closed(W, {n})
      BY <3>1 DEF Closed
    <3> QED BY <1>4, <1>1, <3>2 DEF LineOf
  <2>2. m \in DOMAIN W
    BY <1>4, <1>1 DEF LineOf
  <2>3. SUFFICES ASSUME NEW S \in SUBSET DOMAIN W, Closed(W, S), s \in S
                 PROVE  m \in S
    BY <2>1, <2>2 DEF LineOf
  <2>4. Closed(W, S \cup {n})
    BY <2>3 DEF Closed
  <2>5. m \in S \cup {n}
    BY <1>4, <1>1, <2>4 DEF LineOf
  <2> QED BY <2>5, <1>4
<1> QED BY <1>2, <1>3, <1>4

\* A line has only writes that are there.
LEMMA LineIsWritten ==
  ASSUME NEW W, Written(W), NEW n \in 0..Len(W)
  PROVE  LineOf(W, n) \subseteq 1..Len(W) /\ (\A m \in LineOf(W, n) : m <= n)
<1>0. DOMAIN W = 1..Len(W) /\ Len(W) \in Nat /\ \A m \in DOMAIN W : W[m] \in WriteSet /\ W[m].since < m
  BY DEF Written
<1>1. \A m \in DOMAIN W : W[m].since \in Nat /\ W[m].since < m
  BY <1>0 DEF WriteSet
<1>2. CASE n = 0
  BY <1>2 DEF LineOf
<1>3. CASE n # 0
  <2>1. Closed(W, 1..n)
    BY <1>0, <1>1 DEF Closed
  <2>2. \A m \in LineOf(W, n) : m \in 1..n
    BY <1>0, <1>3, <2>1 DEF LineOf
  <2> QED BY <1>0, <2>2
<1> QED BY <1>2, <1>3

-----------------------------------------------------------------------------
(* What is said of a text                                                  *)

\* What is said of a text stays so when others write.
LEMMA ToldStays ==
  ASSUME NEW W, Written(W), NEW w \in WriteSet, w.since \in 0..Len(W), NEW n \in 0..Len(W),
         NEW text, NEW saved
  PROVE  /\ Told(W, n, text, saved) => Told(Append(W, w), n, text, saved)
         /\ Whole(W, n, text) => Whole(Append(W, w), n, text)
<1> DEFINE V == Append(W, w)
<1>1. LineOf(V, n) = LineOf(W, n)
  BY LineStays
<1>2. \A m \in LineOf(W, n) : V[m] = W[m]
  BY LineIsWritten DEF Written
<1> HIDE DEF V
<1>3. Told(W, n, text, saved) => Told(V, n, text, saved)
  BY <1>1, <1>2 DEF Told
<1>4. Whole(W, n, text) => Whole(V, n, text)
  BY <1>1, <1>2 DEF Whole
<1> QED BY <1>3, <1>4 DEF V

\* A text drawn from another has entries of it, each at most once, whole or not.
Drawn(text, from) ==
  /\ text \in Seq(EntrySet)
  /\ \E f \in [DOMAIN text -> DOMAIN from] :
       /\ \A j, k \in DOMAIN text : f[j] = f[k] => j = k
       /\ \A k \in DOMAIN text : text[k].of = from[f[k]].of

\* Of what is drawn from a text the same can be said, but that it is whole.
LEMMA ToldOfDrawn ==
  ASSUME NEW W, NEW n, NEW from, NEW saved, Told(W, n, from, saved), NEW text, Drawn(text, from)
  PROVE  Told(W, n, text, saved)
<1>1. PICK f \in [DOMAIN text -> DOMAIN from] :
        /\ \A j, k \in DOMAIN text : f[j] = f[k] => j = k
        /\ \A k \in DOMAIN text : text[k].of = from[f[k]].of
  BY DEF Drawn
<1>2. \A j, k \in DOMAIN text : text[j].of = text[k].of => j = k
  BY <1>1 DEF Told
<1>3. \A k \in DOMAIN text :
        IF text[k].of = 0 THEN (saved /\ n = 0) \/ \E m \in LineOf(W, n) : W[m].saved /\ W[m].since = 0
        ELSE text[k].of \in LineOf(W, n) /\ W[text[k].of].says
  BY <1>1 DEF Told
<1> QED BY <1>2, <1>3 DEF Told

\* A text is drawn from itself.
LEMMA DrawnFromItself ==
  ASSUME NEW text \in Seq(EntrySet)
  PROVE  Drawn(text, text)
<1>1. [k \in DOMAIN text |-> k] \in [DOMAIN text -> DOMAIN text]
  OBVIOUS
<1> QED BY <1>1 DEF Drawn

\* An entry that breaks off is still an entry of the same write.
LEMMA BrokenEntry ==
  ASSUME NEW e \in EntrySet
  PROVE  [e EXCEPT !.whole = FALSE] \in EntrySet /\ [e EXCEPT !.whole = FALSE].of = e.of
BY DEF EntrySet

\* The first entries, of which the last may break off, are drawn.
LEMMA CutsAreDrawn ==
  ASSUME NEW from \in Seq(EntrySet), NEW text \in Cuts(from)
  PROVE  Drawn(text, from)
<1>1. PICK n \in DOMAIN from :
        text \in {SubSeq(from, 1, n), [SubSeq(from, 1, n) EXCEPT ![n].whole = FALSE]}
  BY DEF Cuts
<1> DEFINE cut == SubSeq(from, 1, n)
<1>2. /\ n \in 1..Len(from) /\ Len(from) \in Nat
      /\ cut \in Seq(EntrySet) /\ DOMAIN cut = 1..n /\ Len(cut) = n
      /\ \A k \in 1..n : cut[k] = from[k] /\ from[k] \in EntrySet
  OBVIOUS
<1>a. text \in {cut, [cut EXCEPT ![n].whole = FALSE]}
  BY <1>1
<1> HIDE DEF cut
<1>b. [cut EXCEPT ![n].whole = FALSE] = [k \in 1..n |-> IF k = n THEN [cut[n] EXCEPT !.whole = FALSE] ELSE cut[k]]
  BY <1>2
<1>c. [cut[n] EXCEPT !.whole = FALSE] \in EntrySet /\ [cut[n] EXCEPT !.whole = FALSE].of = cut[n].of
  BY <1>2, BrokenEntry
<1>3. /\ DOMAIN text = 1..n /\ text \in [1..n -> EntrySet]
      /\ \A k \in 1..n : text[k].of = from[k].of
  <2>1. CASE text = cut
    BY <2>1, <1>2
  <2>2. CASE text = [cut EXCEPT ![n].whole = FALSE]
    BY <2>2, <1>b, <1>c, <1>2
  <2> QED BY <2>1, <2>2, <1>a
<1>4. text \in Seq(EntrySet)
  BY <1>2, <1>3
<1>5. [k \in 1..n |-> k] \in [DOMAIN text -> DOMAIN from]
  BY <1>2, <1>3
<1> QED BY <1>3, <1>4, <1>5 DEF Drawn

\* A text drawn from what was drawn from a text is drawn from it.
LEMMA DrawnAgain ==
  ASSUME NEW from \in Seq(EntrySet), NEW between, Drawn(between, from), NEW text, Drawn(text, between)
  PROVE  Drawn(text, from)
<1>1. PICK f \in [DOMAIN between -> DOMAIN from] :
        /\ \A j, k \in DOMAIN between : f[j] = f[k] => j = k
        /\ \A k \in DOMAIN between : between[k].of = from[f[k]].of
  BY DEF Drawn
<1>2. PICK g \in [DOMAIN text -> DOMAIN between] :
        /\ \A j, k \in DOMAIN text : g[j] = g[k] => j = k
        /\ \A k \in DOMAIN text : text[k].of = between[g[k]].of
  BY DEF Drawn
<1> DEFINE h == [k \in DOMAIN text |-> f[g[k]]]
<1>3. /\ h \in [DOMAIN text -> DOMAIN from]
      /\ \A j, k \in DOMAIN text : h[j] = h[k] => j = k
      /\ \A k \in DOMAIN text : text[k].of = from[h[k]].of
  BY <1>1, <1>2
<1> QED BY <1>3 DEF Drawn

\* The entries in another order, or some of them, are drawn.
LEMMA OrdersAreDrawn ==
  ASSUME NEW from \in Seq(EntrySet), NEW order \in SetToAllKPermutations(DOMAIN from)
  PROVE  Drawn([k \in DOMAIN order |-> from[order[k]]], from)
<1> DEFINE text == [k \in DOMAIN order |-> from[order[k]]]
<1>1. PICK S \in SUBSET DOMAIN from : order \in SetToSeqs(S)
  BY DEF SetToAllKPermutations
<1>2. /\ IsFiniteSet(S) /\ Cardinality(S) \in Nat
  <2>1. IsFiniteSet(1..Len(from)) /\ Len(from) \in Nat /\ DOMAIN from = 1..Len(from)
    BY FS_Interval
  <2> QED BY <1>1, <2>1, FS_Subset, FS_CardinalityType
<1> DEFINE n == Cardinality(S)
<1>3. /\ order \in [1..n -> S]
      /\ \A j, k \in 1..n : j # k => order[j] # order[k]
  BY <1>1 DEF SetToSeqs
<1> HIDE DEF n
<1>4. n \in Nat
  BY <1>2 DEF n
<1>5. order \in [1..n -> DOMAIN from] /\ DOMAIN order = 1..n
  BY <1>3, <1>1
<1>6. \A i \in DOMAIN from : from[i] \in EntrySet
  OBVIOUS
<1>7. text \in [1..n -> EntrySet] /\ DOMAIN text = 1..n
  BY <1>5, <1>6
<1>8. text \in Seq(EntrySet)
  BY <1>7, <1>4
<1>9. /\ order \in [DOMAIN text -> DOMAIN from]
      /\ \A j, k \in DOMAIN text : order[j] = order[k] => j = k
      /\ \A k \in DOMAIN text : text[k].of = from[order[k]].of
  BY <1>3, <1>5, <1>7
<1> HIDE DEF text
<1>10. Drawn(text, from)
  BY <1>8, <1>9 DEF Drawn
<1> QED BY <1>10 DEF text

\* What a turn is shown is drawn from what was read.
LEMMA RelevantIsDrawn ==
  ASSUME NEW from \in Seq(EntrySet), NEW shown \in Relevant(from)
  PROVE  Drawn(shown, from)
<1>1. CASE from = <<>>
  <2>1. shown = <<>>
    BY <1>1 DEF Relevant
  <2> QED BY <1>1, <2>1, DrawnFromItself
<1>2. CASE shown \in Cuts(from)
  BY <1>2, CutsAreDrawn
<1>3. CASE shown \in Scored(from)
  <2>1. PICK order \in SetToAllKPermutations(DOMAIN from) :
          shown \in Cuts([k \in DOMAIN order |-> from[order[k]]])
    BY <1>3 DEF Scored
  <2> DEFINE between == [k \in DOMAIN order |-> from[order[k]]]
  <2>2. Drawn(between, from)
    BY OrdersAreDrawn
  <2>3. between \in Seq(EntrySet)
    BY <2>2 DEF Drawn
  <2>4. shown \in Cuts(between)
    BY <2>1
  <2> HIDE DEF between
  <2>5. Drawn(shown, between)
    BY <2>3, <2>4, CutsAreDrawn
  <2> QED BY <2>2, <2>5, DrawnAgain
<1>4. CASE Len(from) > 2 /\ shown = SubSeq(from, Len(from) - 1, Len(from))
  <2> DEFINE n == Len(from)
  <2>1. n \in Nat /\ n > 2 /\ DOMAIN from = 1..n /\ \A k \in 1..n : from[k] \in EntrySet
    BY <1>4
  <2>2. /\ shown \in Seq(EntrySet) /\ DOMAIN shown = 1..2
        /\ \A k \in 1..2 : shown[k] = from[k + n - 2]
    BY <1>4, <2>1
  <2> DEFINE f == [k \in 1..2 |-> k + n - 2]
  <2>3. \A k \in 1..2 : f[k] = k + n - 2 /\ f[k] \in 1..n
    BY <2>1
  <2>4. f \in [1..2 -> DOMAIN from]
    BY <2>1, <2>3
  <2>6. \A j, k \in 1..2 : f[j] = f[k] => j = k
    <3>1. SUFFICES ASSUME NEW j \in 1..2, NEW k \in 1..2, f[j] = f[k] PROVE j = k
      OBVIOUS
    <3>2. j + n - 2 = k + n - 2
      BY <2>3, <3>1
    <3> QED BY <3>2, <2>1
  <2>5. \A k \in 1..2 : shown[k].of = from[f[k]].of
    BY <2>2, <2>3
  <2> HIDE DEF f
  <2> QED BY <2>2, <2>4, <2>5, <2>6 DEF Drawn
<1> QED BY <1>1, <1>2, <1>3, <1>4 DEF Relevant

\* What the user leaves of a text is drawn from it.
LEMMA EditedIsDrawn ==
  ASSUME NEW from \in Seq(EntrySet), NEW kept \in Edited(from)
  PROVE  Drawn(kept, from)
BY OrdersAreDrawn DEF Edited

-----------------------------------------------------------------------------
(* A write                                                                 *)

\* A file after a write of which all that is claimed is true.
WrittenWell(W, file) ==
  /\ Written(W) /\ file \in Seq(EntrySet)
  /\ Told(W, Len(W), file, FALSE) /\ Whole(W, Len(W), file)

\* Who writes what is drawn from what he has, and owns to what he left out, leaves a
\* file of which the same can be said.
LEMMA WriteTells ==
  ASSUME NEW W, Written(W), NEW n \in 0..Len(W), NEW text \in Seq(EntrySet), NEW kept,
         NEW cut \in BOOLEAN, NEW says \in BOOLEAN, NEW saved \in BOOLEAN,
         Told(W, n, text, saved), Drawn(kept, text),
         cut \/ (kept = text /\ Whole(W, n, text))
  PROVE  WrittenWell(Append(W, Write(n, cut, says, saved)),
                     IF says THEN Append(kept, Entry(Len(W) + 1)) ELSE kept)
<1> DEFINE w    == Write(n, cut, says, saved)
           V    == Append(W, w)
           m    == Len(W) + 1
           file == IF says THEN Append(kept, Entry(m)) ELSE kept
<1>1. /\ Len(W) \in Nat /\ DOMAIN W = 1..Len(W) /\ W \in Seq(WriteSet)
      /\ \A i \in DOMAIN W : W[i] \in WriteSet /\ W[i].since < i
  BY DEF Written
<1>2. /\ w \in WriteSet /\ w.since = n /\ w.cut = cut /\ w.says = says /\ w.saved = saved
  BY <1>1 DEF Write, WriteSet
<1> HIDE DEF w
<1>3. /\ V \in Seq(WriteSet) /\ Len(V) = m /\ DOMAIN V = 1..m /\ V[m] = w
      /\ \A i \in DOMAIN W : V[i] = W[i]
  BY <1>1, <1>2
<1>4. Written(V)
  BY <1>1, <1>2, <1>3 DEF Written
<1>5. /\ Told(W, n, kept, saved) /\ kept \in Seq(EntrySet)
  BY ToldOfDrawn DEF Drawn
<1>6. /\ Told(V, n, kept, saved)
      /\ cut \/ (kept = text /\ Whole(V, n, text))
  BY <1>2, <1>5, ToldStays
<1>7. /\ LineOf(V, m) = {m} \cup LineOf(V, n)
      /\ m \notin LineOf(V, n)
  <2>1. LineOf(V, n) = LineOf(W, n) /\ LineOf(W, n) \subseteq 1..Len(W)
    BY <1>2, LineStays, LineIsWritten
  <2> HIDE DEF V
  <2>2. LineOf(V, m) = {m} \cup LineOf(V, n)
    BY <1>1, <1>2, <1>3, <1>4, LineOfWrite
  <2> QED BY <2>1, <2>2, <1>1
<1>a. LineOf(V, n) \subseteq 1..Len(W)
  BY <1>2, LineStays, LineIsWritten
<1>8. /\ DOMAIN kept = 1..Len(kept) /\ Len(kept) \in Nat
      /\ Entry(m) \in EntrySet /\ Entry(m).of = m
      /\ \A k \in DOMAIN kept : kept[k] \in EntrySet /\ kept[k].of \in Nat
  <2>1. Entry(m) \in EntrySet /\ Entry(m).of = m
    BY <1>1 DEF Entry, EntrySet
  <2>2. \A k \in DOMAIN kept : kept[k] \in EntrySet
    BY <1>5
  <2>3. \A e \in EntrySet : e.of \in Nat
    BY DEF EntrySet
  <2> QED BY <1>5, <2>1, <2>2, <2>3
<1> DEFINE last == Len(kept) + 1
<1>9. /\ file \in Seq(EntrySet)
      /\ \A k \in DOMAIN kept : k \in DOMAIN file /\ file[k] = kept[k]
      /\ \A k \in DOMAIN file : k \in DOMAIN kept \/ (says /\ k = last /\ file[k] = Entry(m))
      /\ says => last \in DOMAIN file /\ file[last] = Entry(m)
  BY <1>5, <1>8
<1> HIDE DEF V, file, last
<1>10. \A k \in DOMAIN kept : kept[k].of # m
  BY <1>6, <1>7, <1>1 DEF Told
<1>11. Told(V, m, file, FALSE)
  <2>1. \A j, k \in DOMAIN file : file[j].of = file[k].of => j = k
    BY <1>6, <1>8, <1>9, <1>10 DEF Told
  <2>2. ASSUME NEW k \in DOMAIN kept
        PROVE  IF kept[k].of = 0 THEN \E i \in LineOf(V, m) : V[i].saved /\ V[i].since = 0
               ELSE kept[k].of \in LineOf(V, m) /\ V[kept[k].of].says
    BY <1>6, <1>7, <1>3, <1>2 DEF Told
  <2>3. ASSUME says PROVE m # 0 /\ m \in LineOf(V, m) /\ V[m].says
    <3>1. V[m].says = says
      BY <1>2, <1>3
    <3> QED BY <3>1, <1>1, <1>7, <2>3
  <2> QED BY <2>1, <2>2, <2>3, <1>8, <1>9 DEF Told
<1>12. Whole(V, m, file)
  <2>1. SUFFICES ASSUME NEW i \in LineOf(V, m), V[i].says
                 PROVE  \/ \E k \in DOMAIN file : file[k] = Entry(i)
                        \/ \E j \in LineOf(V, m) : j > i /\ V[j].cut
    BY DEF Whole
  <2>2. CASE i = m
    BY <2>1, <2>2, <1>2, <1>3, <1>9
  <2>3. CASE i # m /\ cut
    <3>1. i \in 1..Len(W)
      BY <2>3, <2>1, <1>7, <1>a
    <3>2. V[m].cut = cut /\ m \in LineOf(V, m) /\ m > i
      BY <3>1, <1>1, <1>2, <1>3, <1>7
    <3> QED BY <3>2, <2>3
  <2>4. CASE i # m /\ ~cut
    BY <2>4, <2>1, <1>6, <1>7, <1>9 DEF Whole
  <2> QED BY <2>2, <2>3, <2>4
<1>13. WrittenWell(V, file)
  BY <1>3, <1>4, <1>9, <1>11, <1>12 DEF WrittenWell
<1> QED BY <1>13 DEF V, file, w

-----------------------------------------------------------------------------
(* The invariant                                                           *)

\* What turns were shown and the desktop has stays what it is when others write.
LEMMA OthersStay ==
  ASSUME NEW W, Written(W), NEW w \in WriteSet, w.since \in 0..Len(W)
  PROVE  /\ \A talk : Shown(W, talk) => Shown(Append(W, w), talk)
         /\ \A read : Served(W, read) => Served(Append(W, w), read)
<1> DEFINE V == Append(W, w)
<1>1. 0..Len(W) \subseteq 0..Len(V)
  BY DEF Written
<1>a. \A n \in 0..Len(W) : \A text, saved :
        /\ Told(W, n, text, saved) => Told(V, n, text, saved)
        /\ Whole(W, n, text) => Whole(V, n, text)
  BY ToldStays
<1> HIDE DEF V
<1>2. ASSUME NEW talk, Shown(W, talk)
      PROVE  Shown(V, talk)
  <2>1. talk.since \in 0..Len(W)
    BY <1>2 DEF Shown
  <2>2. /\ Told(V, talk.since, talk.shown, FALSE)
        /\ talk.cut \/ Whole(V, talk.since, talk.shown)
    BY <1>a, <1>2, <2>1 DEF Shown
  <2> QED BY <1>1, <1>2, <2>1, <2>2 DEF Shown
<1>3. ASSUME NEW read, Served(W, read)
      PROVE  Served(V, read)
  <2>1. read.since \in 0..Len(W)
    BY <1>3 DEF Served
  <2>2. /\ Told(V, read.since, read.text, TRUE)
        /\ Whole(V, read.since, read.text)
    BY <1>a, <1>3, <2>1 DEF Served
  <2> QED BY <1>1, <1>3, <2>1, <2>2 DEF Served
<1> QED BY <1>2, <1>3 DEF V

\* Of an empty line nothing has to be told.
LEMMA NothingTold ==
  ASSUME NEW W, NEW saved
  PROVE  /\ Told(W, 0, <<>>, saved) /\ Whole(W, 0, <<>>)
         /\ Told(W, 0, <<Foreign>>, TRUE) /\ Whole(W, 0, <<Foreign>>)
         /\ <<>> \in Seq(EntrySet) /\ <<Foreign>> \in Seq(EntrySet)
<1>1. Foreign \in EntrySet /\ Foreign.of = 0
  BY DEF Foreign, Entry, EntrySet
<1>2. DOMAIN <<>> = {} /\ LineOf(W, 0) = {} /\ DOMAIN <<Foreign>> = {1} /\ <<Foreign>>[1] = Foreign
  BY DEF LineOf
<1>3. Told(W, 0, <<>>, saved) /\ Whole(W, 0, <<>>)
  BY <1>2 DEF Told, Whole
<1>4. Told(W, 0, <<Foreign>>, TRUE) /\ Whole(W, 0, <<Foreign>>)
  BY <1>1, <1>2 DEF Told, Whole
<1>5. <<>> \in Seq(EntrySet) /\ <<Foreign>> \in Seq(EntrySet)
  BY <1>1
<1> QED BY <1>3, <1>4, <1>5

\* A session begins with an empty file that nobody has read.
LEMMA MemoryInvInit == MemoryInit => MemoryInv
<1> SUFFICES ASSUME MemoryInit PROVE MemoryInv
  OBVIOUS
<1>1. MemoryShape
  BY DEF MemoryInit, MemoryShape, NoTalk, NoDraft
<1>2. Written(writes) /\ Len(writes) = 0 /\ memory = <<>>
  BY DEF MemoryInit, Written
<1>3. Shown(writes, NoTalk)
  <2>1. /\ NoTalk.at = "idle" /\ NoTalk.shown = <<>> /\ NoTalk.since = 0 /\ NoTalk.cut = FALSE
        /\ 0 \in 0..Len(writes)
    BY <1>2 DEF NoTalk
  <2> QED BY <2>1, NothingTold DEF Shown
<1>4. Served(writes, NoDraft) /\ NoDraft.loads = <<>>
  <2>1. /\ NoDraft.text = <<>> /\ NoDraft.since = 0 /\ NoDraft.loads = <<>>
        /\ 0 \in 0..Len(writes)
    BY <1>2 DEF NoDraft
  <2> QED BY <2>1, NothingTold DEF Served
<1>5. memory \in Seq(EntrySet) /\ Told(writes, Len(writes), memory, FALSE) /\ Whole(writes, Len(writes), memory)
  BY <1>2, NothingTold
<1>6. \A t \in MemoryTurn : Shown(writes, talks[t])
  BY <1>3 DEF MemoryInit
<1>7. Served(writes, draft) /\ \A k \in DOMAIN draft.loads : Served(writes, draft.loads[k])
  BY <1>4 DEF MemoryInit
<1> QED BY <1>1, <1>2, <1>5, <1>6, <1>7 DEF MemoryInv

\* What a turn is shown when it reads.
LEMMA ReadsShown ==
  ASSUME MemoryInv, NEW t \in MemoryTurn, Reads(t)
  PROVE  MemoryInv'
<1>1. PICK shown \in Relevant(memory) :
        talks' = [talks EXCEPT ![t] = [at |-> "loop", shown |-> shown, since |-> Len(writes), cut |-> shown # memory]]
  BY DEF Reads, ReadMemory
<1> DEFINE talk == [at |-> "loop", shown |-> shown, since |-> Len(writes), cut |-> shown # memory]
<1>2. UNCHANGED <<memory, draft, writes, habit>>
  BY DEF Reads
<1>3. Drawn(shown, memory)
  BY RelevantIsDrawn DEF MemoryInv
<1>4. shown \in Seq(EntrySet) /\ Told(writes, Len(writes), shown, FALSE) /\ Len(writes) \in Nat
  <2>1. Told(writes, Len(writes), memory, FALSE) /\ Len(writes) \in Nat
    <3>1. Written(writes) /\ Told(writes, Len(writes), memory, FALSE)
      BY DEF MemoryInv
    <3>2. writes \in Seq(WriteSet)
      BY <3>1 DEF Written
    <3>3. Len(writes) \in Nat
      BY <3>2
    <3> QED BY <3>1, <3>3
  <2>2. Told(writes, Len(writes), shown, FALSE)
    BY <1>3, <2>1, ToldOfDrawn
  <2> QED BY <1>3, <2>1, <2>2 DEF Drawn
<1>5. Shown(writes, talk)
  <2>1. shown = memory => Whole(writes, Len(writes), shown)
    BY DEF MemoryInv
  <2>2. /\ talk.at = "loop" /\ talk.shown = shown /\ talk.since = Len(writes)
        /\ talk.cut = (shown # memory)
    OBVIOUS
  <2>3. talk.cut \in BOOLEAN /\ (talk.cut \/ shown = memory)
    BY <2>2
  <2>4. Len(writes) \in 0..Len(writes)
    BY <1>4
  <2> HIDE DEF talk
  <2> QED BY <1>4, <2>1, <2>2, <2>3, <2>4 DEF Shown
<1>6. DOMAIN talk = DOMAIN NoTalk
  BY DEF NoTalk
<1>7. talks' = [talks EXCEPT ![t] = talk]
  BY <1>1
<1> HIDE DEF talk
<1>8. MemoryShape'
  BY <1>2, <1>6, <1>7 DEF MemoryInv, MemoryShape
<1>9. \A u \in MemoryTurn : Shown(writes, talks'[u])
  BY <1>5, <1>7 DEF MemoryInv, MemoryShape
<1> QED BY <1>2, <1>8, <1>9 DEF MemoryInv

\* A turn that goes on to another place has what it had.
LEMMA TurnGoesOn ==
  ASSUME MemoryInv, NEW t \in MemoryTurn, NEW at \in {"resumed", "done"},
         talks' = [talks EXCEPT ![t].at = at]
  PROVE  /\ DOMAIN talks' = MemoryTurn
         /\ \A u \in MemoryTurn : DOMAIN talks'[u] = DOMAIN NoTalk
         /\ \A u \in MemoryTurn : Shown(writes, talks'[u])
<1>1. DOMAIN talks = MemoryTurn /\ \A u \in MemoryTurn : DOMAIN talks[u] = DOMAIN NoTalk /\ Shown(writes, talks[u])
  BY DEF MemoryInv, MemoryShape
<1>2. talks' = [talks EXCEPT ![t] = [talks[t] EXCEPT !.at = at]]
  OBVIOUS
<1> DEFINE talk == [talks[t] EXCEPT !.at = at]
<1>3. /\ DOMAIN talk = DOMAIN NoTalk
      /\ talk.at = at /\ talk.shown = talks[t].shown /\ talk.since = talks[t].since /\ talk.cut = talks[t].cut
  BY <1>1 DEF NoTalk
<1> HIDE DEF talk
<1>4. Shown(writes, talk)
  BY <1>1, <1>3 DEF Shown
<1>5. talks' = [talks EXCEPT ![t] = talk]
  BY <1>2 DEF talk
<1> QED BY <1>1, <1>3, <1>4, <1>5

\* The desktop's steps that do not write.
LEMMA DraftChanges ==
  ASSUME MemoryInv, UNCHANGED <<memory, talks, writes>>, DOMAIN draft' = DOMAIN NoDraft,
         draft'.loads # <<>> => 1 \in DOMAIN draft'.loads, Served(writes, draft'), \A k \in DOMAIN draft'.loads : Served(writes, draft'.loads[k])
  PROVE  MemoryInv'
BY DEF MemoryInv, MemoryShape

\* A write of what was drawn from what its writer has.
LEMMA AfterWrite ==
  ASSUME MemoryInv, NEW n \in 0..Len(writes), NEW text \in Seq(EntrySet), NEW kept,
         NEW cut \in BOOLEAN, NEW says \in BOOLEAN, NEW saved \in BOOLEAN,
         Told(writes, n, text, saved), Drawn(kept, text),
         cut \/ (kept = text /\ Whole(writes, n, text)),
         WriteMemory(kept, n, cut, says, saved)
  PROVE  /\ WrittenWell(writes', memory')
         /\ \A talk : Shown(writes, talk) => Shown(writes', talk)
         /\ \A read : Served(writes, read) => Served(writes', read)
<1>1. /\ memory' = IF says THEN Append(kept, Entry(Len(writes) + 1)) ELSE kept
      /\ writes' = Append(writes, Write(n, cut, says, saved))
  BY DEF WriteMemory
<1>2. Written(writes) /\ Len(writes) \in Nat
  BY DEF MemoryInv, Written
<1>3. Write(n, cut, says, saved) \in WriteSet /\ Write(n, cut, says, saved).since = n
  BY <1>2 DEF Write, WriteSet
<1>4. WrittenWell(writes', memory')
  BY <1>1, <1>2, WriteTells
<1>5. /\ \A talk : Shown(writes, talk) => Shown(writes', talk)
      /\ \A read : Served(writes, read) => Served(writes', read)
  BY <1>1, <1>2, <1>3, OthersStay
<1> QED BY <1>4, <1>5

\* Each step of the file, the turns and the desktop.
LEMMA MemoryInvNext ==
  ASSUME MemoryInv, MemoryNext
  PROVE  MemoryInv'
<1>0. /\ MemoryShape /\ Written(writes) /\ Served(writes, draft)
      /\ \A t \in MemoryTurn : Shown(writes, talks[t])
      /\ \A k \in DOMAIN draft.loads : Served(writes, draft.loads[k])
  BY DEF MemoryInv
<1>a. Len(writes) \in Nat
  BY <1>0 DEF Written
<1>c. 0 \in 0..Len(writes) /\ Len(writes) \in 0..Len(writes)
  BY <1>a
<1>b. DOMAIN draft = DOMAIN NoDraft
  BY <1>0 DEF MemoryShape
<1>1. ASSUME NEW t \in MemoryTurn, LoopStarts(t) \/ LoopGoesOn(t)
      PROVE  MemoryInv'
  BY <1>1, ReadsShown DEF LoopStarts, LoopGoesOn
<1>2. ASSUME NEW t \in MemoryTurn, Resume(t) \/ EndsSilently(t)
      PROVE  MemoryInv'
  <2>1. PICK at \in {"resumed", "done"} : talks' = [talks EXCEPT ![t].at = at]
    BY <1>2 DEF Resume, EndsSilently, Finalized
  <2>2. UNCHANGED <<memory, draft, writes, habit>>
    BY <1>2 DEF Resume, EndsSilently
  <2>3. /\ DOMAIN talks' = MemoryTurn
        /\ \A u \in MemoryTurn : DOMAIN talks'[u] = DOMAIN NoTalk
        /\ \A u \in MemoryTurn : Shown(writes, talks'[u])
    BY <2>1, TurnGoesOn
  <2> QED BY <2>2, <2>3 DEF MemoryInv, MemoryShape
<1>3. ASSUME NEW t \in MemoryTurn, WritesSummary(t)
      PROVE  MemoryInv'
  <2>1. /\ talks' = [talks EXCEPT ![t].at = "done"]
        /\ WriteMemory(talks[t].shown, talks[t].since, talks[t].cut, TRUE, FALSE)
        /\ UNCHANGED draft
    BY <1>3 DEF WritesSummary, Finalized
  <2>2. /\ talks[t].shown \in Seq(EntrySet) /\ talks[t].since \in 0..Len(writes) /\ talks[t].cut \in BOOLEAN
        /\ Told(writes, talks[t].since, talks[t].shown, FALSE)
        /\ talks[t].cut \/ Whole(writes, talks[t].since, talks[t].shown)
    BY <1>0 DEF Shown
  <2>3. Drawn(talks[t].shown, talks[t].shown)
    BY <2>2, DrawnFromItself
  <2>4. /\ WrittenWell(writes', memory')
        /\ \A talk : Shown(writes, talk) => Shown(writes', talk)
        /\ \A read : Served(writes, read) => Served(writes', read)
    BY <2>1, <2>2, <2>3, AfterWrite
  <2>5. /\ DOMAIN talks' = MemoryTurn
        /\ \A u \in MemoryTurn : DOMAIN talks'[u] = DOMAIN NoTalk
        /\ \A u \in MemoryTurn : Shown(writes, talks'[u])
    BY <2>1, TurnGoesOn
  <2> QED BY <1>0, <2>1, <2>4, <2>5 DEF MemoryInv, MemoryShape, WrittenWell
<1>4. CASE OpenSession
  <2>1. /\ draft' = [text |-> <<Foreign>>, since |-> 0, asked |-> TRUE, loads |-> <<>>, opened |-> draft.opened + 1]
        /\ UNCHANGED <<memory, talks, writes>>
    BY <1>4 DEF OpenSession
  <2>2. DOMAIN draft' = DOMAIN NoDraft /\ draft'.loads = <<>> /\ draft'.text = <<Foreign>> /\ draft'.since = 0
    BY <2>1 DEF NoDraft
  <2>3. Served(writes, draft')
    <3>1. Told(writes, 0, <<Foreign>>, TRUE) /\ Whole(writes, 0, <<Foreign>>) /\ <<Foreign>> \in Seq(EntrySet)
      BY NothingTold
    <3> QED BY <1>c, <2>2, <3>1 DEF Served
  <2> QED BY <2>1, <2>2, <2>3, DraftChanges
<1>5. CASE ServesMemory
  <2>1. /\ draft' = [draft EXCEPT !.asked = FALSE, !.loads = <<ReadMemory>>]
        /\ UNCHANGED <<memory, talks, writes>>
    BY <1>5 DEF ServesMemory
  <2>2. /\ DOMAIN draft' = DOMAIN NoDraft /\ draft'.loads = <<ReadMemory>>
        /\ draft'.text = draft.text /\ draft'.since = draft.since
    BY <1>b, <2>1 DEF NoDraft
  <2>3. ReadMemory.text = memory /\ ReadMemory.since = Len(writes)
    BY DEF ReadMemory
  <2>4. Told(writes, Len(writes), memory, TRUE)
    BY DEF MemoryInv, Told
  <2>5. Served(writes, ReadMemory)
    <3>1. memory \in Seq(EntrySet) /\ Whole(writes, Len(writes), memory)
      BY DEF MemoryInv
    <3> QED BY <1>c, <2>3, <2>4, <3>1 DEF Served
  <2>6. Served(writes, draft')
    BY <1>0, <2>2 DEF Served
  <2> QED BY <2>1, <2>2, <2>5, <2>6, DraftChanges
<1>6. CASE LoadMemory
  <2>1. /\ draft' = [draft EXCEPT !.text = draft.loads[1].text, !.since = draft.loads[1].since, !.loads = <<>>]
        /\ draft.loads # <<>>
        /\ UNCHANGED <<memory, talks, writes>>
    BY <1>6 DEF LoadMemory
  <2>2. Served(writes, draft.loads[1])
    BY <1>0, <2>1 DEF MemoryShape
  <2>3. /\ DOMAIN draft' = DOMAIN NoDraft /\ draft'.loads = <<>>
        /\ draft'.text = draft.loads[1].text /\ draft'.since = draft.loads[1].since
    BY <1>b, <2>1 DEF NoDraft
  <2>4. Served(writes, draft')
    BY <2>2, <2>3 DEF Served
  <2> QED BY <2>1, <2>3, <2>4, DraftChanges
<1>7. CASE LoadFails
  <2>1. /\ draft' = [draft EXCEPT !.text = <<>>, !.since = 0, !.asked = FALSE, !.loads = <<>>]
        /\ UNCHANGED <<memory, talks, writes>>
    BY <1>7 DEF LoadFails
  <2>2. DOMAIN draft' = DOMAIN NoDraft /\ draft'.loads = <<>> /\ draft'.text = <<>> /\ draft'.since = 0
    BY <1>b, <2>1 DEF NoDraft
  <2>3. Served(writes, draft')
    <3>1. Told(writes, 0, <<>>, TRUE) /\ Whole(writes, 0, <<>>) /\ <<>> \in Seq(EntrySet)
      BY NothingTold
    <3> QED BY <1>c, <2>2, <3>1 DEF Served
  <2> QED BY <2>1, <2>2, <2>3, DraftChanges
<1>8. ASSUME NEW says \in BOOLEAN, SaveMemory(says)
      PROVE  MemoryInv'
  <2>1. PICK kept \in Edited(draft.text) :
          /\ WriteMemory(kept, draft.since, kept # draft.text, says, TRUE)
          /\ draft' = [draft EXCEPT !.text = memory', !.since = Len(writes')]
    BY <1>8 DEF SaveMemory
  <2>2. UNCHANGED talks
    BY <1>8 DEF SaveMemory
  <2>3. /\ draft.text \in Seq(EntrySet) /\ draft.since \in 0..Len(writes)
        /\ Told(writes, draft.since, draft.text, TRUE) /\ Whole(writes, draft.since, draft.text)
    BY <1>0 DEF Served
  <2>4. Drawn(kept, draft.text)
    BY <2>3, EditedIsDrawn
  <2>5. /\ WrittenWell(writes', memory')
        /\ \A talk : Shown(writes, talk) => Shown(writes', talk)
        /\ \A read : Served(writes, read) => Served(writes', read)
    BY <2>1, <2>3, <2>4, AfterWrite
  <2>6. /\ DOMAIN draft' = DOMAIN NoDraft /\ draft'.loads = draft.loads
        /\ draft'.text = memory' /\ draft'.since = Len(writes')
    BY <1>b, <2>1 DEF NoDraft
  <2>7. Served(writes', draft')
    <3>1. Told(writes', Len(writes'), memory', TRUE)
      BY <2>5 DEF WrittenWell, Told
    <3>2. Len(writes') \in Nat
      BY <2>5 DEF WrittenWell, Written
    <3>3. Len(writes') \in 0..Len(writes')
      BY <3>2
    <3> QED BY <2>5, <2>6, <3>1, <3>3 DEF WrittenWell, Served
  <2> QED BY <1>0, <2>2, <2>5, <2>6, <2>7 DEF MemoryInv, MemoryShape, WrittenWell
<1> QED BY <1>1, <1>2, <1>3, <1>4, <1>5, <1>6, <1>7, <1>8 DEF MemoryNext

-----------------------------------------------------------------------------
(* The theorems                                                            *)

\* The inductive invariant of the memory, whatever turns there are.
THEOREM MemoryInvAlways == MemorySpec => []MemoryInv
<1>1. MemoryInit => MemoryInv
  BY MemoryInvInit
<1>2. MemoryInv /\ [MemoryNext]_memoryVars => MemoryInv'
  <2> SUFFICES ASSUME MemoryInv, [MemoryNext]_memoryVars PROVE MemoryInv'
    OBVIOUS
  <2>1. CASE MemoryNext
    BY <2>1, MemoryInvNext
  <2>2. CASE UNCHANGED memoryVars
    BY <2>2 DEF memoryVars, MemoryInv, MemoryShape
  <2> QED BY <2>1, <2>2
<1> QED BY <1>1, <1>2, PTL DEF MemorySpec

\* What the property says of the file, the invariant says of its text.
LEMMA InvMeansOneLine == MemoryInv => MemoryIsOneLine
<1> SUFFICES ASSUME MemoryInv PROVE MemoryIsOneLine
  OBVIOUS
<1> DEFINE n == Len(writes)
<1>1. /\ Written(writes) /\ memory \in Seq(EntrySet)
      /\ Told(writes, n, memory, FALSE) /\ Whole(writes, n, memory)
  BY DEF MemoryInv
<1>2. n \in Nat /\ DOMAIN writes = 1..n
  BY <1>1 DEF Written
<1>3. Line = LineOf(writes, n)
  BY <1>2 DEF Line, LineOf, ClosedLine, Closed
<1>4. ToSet(memory) = {memory[k] : k \in DOMAIN memory}
  BY DEF ToSet
<1> HIDE DEF n
<1> QED BY <1>1, <1>3, <1>4 DEF MemoryIsOneLine, Told, Whole

\* The session memory is the line of its last write, for any number of turns and saves
\* and in whatever order they read, write, load and open (builtins.py,
\* session_memory.py, useSessionMemory.js).
THEOREM MemoryIsOneLineAlways == MemorySpec => []MemoryIsOneLine
BY MemoryInvAlways, InvMeansOneLine, PTL

-----------------------------------------------------------------------------
(* A hidden session                                                        *)

\* No action of a turn, of the user or of a restart shows a hidden session again.
LEMMA NextKeepsHidden ==
  ASSUME hidden, [ContentNext]_contentVars
  PROVE  hidden'
<1>1. CASE MoveToBucket
  BY <1>1 DEF MoveToBucket
<1>2. CASE ServerRestarts
  BY <1>2 DEF ServerRestarts
<1>3. ASSUME NEW t \in Turn, NEW text, NEW kind, Route(t, kind, text)
      PROVE  hidden'
  BY <1>3 DEF Route
<1>4. ASSUME NEW t \in Turn, Stage(t) \/ Snapshot(t)
      PROVE  hidden'
  BY <1>4 DEF Stage, Snapshot, UpsertSummary
<1>5. ASSUME NEW t \in Turn, NEW how,
             EmitStep(t) \/ EmitNote(t, how) \/ EmitResult(t, how) \/ Breaks(t)
      PROVE  hidden'
  BY <1>5 DEF EmitStep, EmitNote, EmitResult, Breaks, Emits, UpsertSummary
<1>6. ASSUME NEW t \in Turn, SaveSession(t) \/ SaveRunSnapshot(t)
      PROVE  hidden'
  BY <1>6 DEF SaveSession, SaveRunSnapshot, UpsertSummary
<1>7. CASE UNCHANGED contentVars
  BY <1>7 DEF contentVars
<1> QED BY <1>1, <1>2, <1>3, <1>4, <1>5, <1>6, <1>7 DEF ContentNext

\* A session that was archived or deleted stays so, whatever turns still run in it
\* or are started in it: upsert_summary does not touch the columns of the bucket.
THEOREM HiddenStaysHiddenAlways == ContentSpec => HiddenStaysHidden
<1>1. [ContentNext]_contentVars => [hidden => hidden']_contentVars
  BY NextKeepsHidden
<1> QED BY <1>1, PTL DEF ContentSpec, HiddenStaysHidden

-----------------------------------------------------------------------------
(* The conversation: in a session whose turns neither overlap nor fail,    *)
(* each turn reads what the turn before it saved, and adds items that have *)
(* keys of their own, so that nothing it merges replaces anything.         *)
(*                                                                         *)
(* Timelines may have any length.  What a fold or FlattenSeq computes of   *)
(* them is found place by place: its value after the first m items.        *)

\* A timeline of its own items.
Listed(s) == s \in Seq(ToSet(s))

IsList(s, n) == s = [k \in 1..n |-> s[k]]

LEMMA ListedPlaces ==
  ASSUME NEW s, Listed(s)
  PROVE  Len(s) \in Nat /\ DOMAIN s = 1..Len(s) /\ s = [k \in 1..Len(s) |-> s[k]]
BY DEF Listed

LEMMA ListedOf ==
  ASSUME NEW n \in Nat, NEW s, IsList(s, n)
  PROVE  Listed(s) /\ Len(s) = n /\ DOMAIN s = 1..n
<1>0. s = [k \in 1..n |-> s[k]]
  BY DEF IsList
<1>1. s \in [1..n -> ToSet(s)]
  BY <1>0 DEF ToSet
<1>2. s \in Seq(ToSet(s))
  BY <1>1
<1> QED BY <1>0, <1>1, <1>2 DEF Listed

LEMMA ListedIn ==
  ASSUME NEW S, NEW s \in Seq(S)
  PROVE  Listed(s)
<1>1. Len(s) \in Nat /\ IsList(s, Len(s))
  BY DEF IsList
<1> QED BY <1>1, ListedOf

LEMMA ListedBoth ==
  ASSUME NEW s, NEW t, Listed(s), Listed(t)
  PROVE  \E S : s \in Seq(S) /\ t \in Seq(S)
<1> DEFINE S == ToSet(s) \cup ToSet(t)
<1>1. \A k \in 1..Len(s) : s[k] \in S
  BY ListedPlaces DEF ToSet
<1>2. \A k \in 1..Len(t) : t[k] \in S
  BY ListedPlaces DEF ToSet
<1> HIDE DEF S
<1>3. s \in Seq(S)
  <2>1. Len(s) \in Nat /\ s = [k \in 1..Len(s) |-> s[k]]
    BY ListedPlaces
  <2> QED BY <1>1, <2>1
<1>4. t \in Seq(S)
  <2>1. Len(t) \in Nat /\ t = [k \in 1..Len(t) |-> t[k]]
    BY ListedPlaces
  <2> QED BY <1>2, <2>1
<1> QED BY <1>3, <1>4

LEMMA ListedShort ==
  ASSUME NEW x
  PROVE  /\ Listed(<<>>) /\ DOMAIN <<>> = {} /\ Len(<<>>) = 0
         /\ Listed(<<x>>) /\ DOMAIN <<x>> = {1} /\ Len(<<x>>) = 1 /\ <<x>>[1] = x
<1>1. <<>> \in Seq({x}) /\ <<x>> \in Seq({x})
  OBVIOUS
<1>2. Listed(<<>>) /\ Listed(<<x>>)
  BY <1>1, ListedIn
<1> QED BY <1>2

\* One timeline behind another.
LEMMA ListedConcat ==
  ASSUME NEW s, NEW t, Listed(s), Listed(t)
  PROVE  /\ Listed(s \o t) /\ Len(s \o t) = Len(s) + Len(t)
         /\ \A k \in 1..Len(s) : (s \o t)[k] = s[k]
         /\ \A k \in 1..Len(t) : (s \o t)[Len(s) + k] = t[k]
         /\ \A k \in DOMAIN (s \o t) : k \in 1..Len(s) \/ \E j \in 1..Len(t) : k = Len(s) + j
<1>1. PICK S : s \in Seq(S) /\ t \in Seq(S)
  BY ListedBoth
<1>2. s \o t \in Seq(S) /\ Len(s \o t) = Len(s) + Len(t) /\ Len(s) \in Nat /\ Len(t) \in Nat
  BY <1>1
<1>3. Listed(s \o t)
  BY <1>2, ListedIn
<1>4. \A k \in 1..Len(s) + Len(t) : (s \o t)[k] = IF k <= Len(s) THEN s[k] ELSE t[k - Len(s)]
  BY <1>1
<1>5. DOMAIN (s \o t) = 1..Len(s) + Len(t)
  BY <1>2
<1>6. \A k \in 1..Len(s) : (s \o t)[k] = s[k]
  BY <1>2, <1>4
<1>7. ASSUME NEW k \in 1..Len(t) PROVE (s \o t)[Len(s) + k] = t[k]
  <2>1. Len(s) + k \in 1..Len(s) + Len(t) /\ ~(Len(s) + k <= Len(s)) /\ Len(s) + k - Len(s) = k
    BY <1>2
  <2> QED BY <1>4, <2>1
<1>8. ASSUME NEW k \in 1..Len(s) + Len(t) PROVE k \in 1..Len(s) \/ \E j \in 1..Len(t) : k = Len(s) + j
  <2>1. CASE k <= Len(s)
    BY <1>2, <2>1
  <2>2. CASE ~(k <= Len(s))
    <3>1. k - Len(s) \in 1..Len(t) /\ k = Len(s) + (k - Len(s))
      BY <1>2, <2>2
    <3> QED BY <3>1
  <2> QED BY <2>1, <2>2
<1> QED BY <1>2, <1>3, <1>5, <1>6, <1>7, <1>8

LEMMA ListedAppend ==
  ASSUME NEW s, Listed(s), NEW x
  PROVE  /\ Listed(Append(s, x)) /\ Len(Append(s, x)) = Len(s) + 1
         /\ DOMAIN Append(s, x) = 1..Len(s) + 1
         /\ Append(s, x)[Len(s) + 1] = x
         /\ \A k \in 1..Len(s) : Append(s, x)[k] = s[k]
         /\ Append(s, x) = s \o <<x>>
<1>1. PICK S : s \in Seq(S) /\ <<x>> \in Seq(S)
  BY ListedBoth, ListedShort
<1>2. x \in S
  BY <1>1, ListedShort
<1>3. Append(s, x) \in Seq(S) /\ Len(Append(s, x)) = Len(s) + 1 /\ Append(s, x) = s \o <<x>> /\ Len(s) \in Nat
  BY <1>1, <1>2
<1>4. \A k \in 1..Len(s) + 1 : Append(s, x)[k] = IF k = Len(s) + 1 THEN x ELSE s[k]
  BY <1>1, <1>2
<1>5. Listed(Append(s, x)) /\ DOMAIN Append(s, x) = 1..Len(s) + 1
  <2>1. DOMAIN Append(s, x) = 1..Len(Append(s, x))
    BY <1>3
  <2> QED BY <1>3, <2>1, ListedIn
<1>6. \A k \in 1..Len(s) : Append(s, x)[k] = s[k]
  BY <1>3, <1>4
<1>7. Append(s, x)[Len(s) + 1] = x
  BY <1>3, <1>4
<1> QED BY <1>3, <1>5, <1>6, <1>7

\* Append, by its places alone.
With(s, x) == Append(s, x)

LEMMA WithPlaces ==
  ASSUME NEW s, Listed(s), NEW x
  PROVE  /\ Listed(With(s, x)) /\ Len(With(s, x)) = Len(s) + 1 /\ With(s, x)[Len(s) + 1] = x
         /\ \A k \in 1..Len(s) : With(s, x)[k] = s[k]
         /\ \A k \in 1..Len(With(s, x)) : k = Len(s) + 1 \/ k \in 1..Len(s)
<1>1. Listed(With(s, x)) /\ Len(With(s, x)) = Len(s) + 1
  BY ListedAppend DEF With
<1>2. With(s, x)[Len(s) + 1] = x
  BY ListedAppend DEF With
<1>3. \A k \in 1..Len(s) : With(s, x)[k] = s[k]
  BY ListedAppend DEF With
<1>4. \A k \in 1..Len(s) + 1 : k = Len(s) + 1 \/ k \in 1..Len(s)
  BY ListedPlaces
<1> QED BY <1>1, <1>2, <1>3, <1>4

\* Concatenation, by its places alone.
Joined(s, t) == s \o t

IsJoin(z, s, t) ==
  /\ Listed(z) /\ Len(z) = Len(s) + Len(t)
  /\ \A k \in 1..Len(s) : z[k] = s[k]
  /\ \A k \in 1..Len(t) : z[Len(s) + k] = t[k]
  /\ \A k \in 1..Len(z) : k \in 1..Len(s) \/ \E j \in 1..Len(t) : k = Len(s) + j

LEMMA JoinedPlaces ==
  ASSUME NEW s, NEW t, Listed(s), Listed(t)
  PROVE  IsJoin(Joined(s, t), s, t)
<1>1. Listed(Joined(s, t)) /\ Len(Joined(s, t)) = Len(s) + Len(t)
  BY ListedConcat DEF Joined
<1>2. \A k \in 1..Len(s) : Joined(s, t)[k] = s[k]
  BY ListedConcat DEF Joined
<1>3. \A k \in 1..Len(t) : Joined(s, t)[Len(s) + k] = t[k]
  BY ListedConcat DEF Joined
<1>4. \A k \in DOMAIN Joined(s, t) : k \in 1..Len(s) \/ \E j \in 1..Len(t) : k = Len(s) + j
  BY ListedConcat DEF Joined
<1> QED BY <1>1, <1>2, <1>3, <1>4, ListedPlaces DEF IsJoin

\* Counting up to n.
LEMMA Counted ==
  ASSUME NEW n \in Nat, NEW G, 0 \in G, \A m \in 1..n : m - 1 \in G => m \in G
  PROVE  \A m \in 0..n : m \in G
<1> DEFINE R == {ss \in Nat \X Nat : ss[1] < ss[2]}
           bad == {m \in 0..n : m \notin G}
<1>1. IsWellFoundedOn(R, Nat)
  BY NatLessThanWellFounded DEF OpToRel
<1>2. SUFFICES ASSUME bad # {} PROVE FALSE
  OBVIOUS
<1>3. bad \subseteq Nat
  OBVIOUS
<1>4. PICK m \in bad : \A y \in bad : ~(<<y, m>> \in R)
  <2> HIDE DEF R, bad
  <2> QED BY <1>1, <1>2, <1>3, WFMin
<1>5. m \in 1..n /\ m - 1 \in 0..n /\ m - 1 \in Nat /\ m \in Nat /\ m - 1 < m
  BY <1>4
<1>6. m - 1 \notin bad
  BY <1>4, <1>5
<1> QED BY <1>4, <1>5, <1>6

-----------------------------------------------------------------------------
(* FlattenSeq and FoldLeft, place by place                                 *)

Flattening(f, ss, m) == f = [i \in 1..m |-> IF i = 1 THEN ss[i] ELSE f[i - 1] \o ss[i]]

LEMMA FlatteningIs ==
  ASSUME NEW n \in Nat, NEW ss
  PROVE  \E f : Flattening(f, ss, n)
<1> DEFINE G == {m \in 0..n : \E f : Flattening(f, ss, m)}
<1>1. 0 \in G
  <2>1. Flattening([i \in 1..0 |-> <<>>], ss, 0)
    BY DEF Flattening
  <2> QED BY <2>1
<1>2. ASSUME NEW m \in 1..n, m - 1 \in G PROVE m \in G
  <2>1. PICK f : Flattening(f, ss, m - 1)
    BY <1>2
  <2>2. DOMAIN f = 1..m - 1 /\ \A i \in 1..m - 1 : f[i] = IF i = 1 THEN ss[i] ELSE f[i - 1] \o ss[i]
    BY <2>1 DEF Flattening
  <2>3. PICK g : g = [i \in 1..m |-> IF i = m THEN IF m = 1 THEN ss[m] ELSE f[m - 1] \o ss[m] ELSE f[i]]
    OBVIOUS
  <2>4. ASSUME NEW i \in 1..m PROVE g[i] = IF i = 1 THEN ss[i] ELSE g[i - 1] \o ss[i]
    <3>1. i # 1 => i - 1 \in 1..m /\ i - 1 # m /\ g[i - 1] = f[i - 1]
      BY <2>3
    <3>2. CASE i = m
      BY <2>3, <3>1, <3>2
    <3>3. CASE i # m
      <4>1. i \in 1..m - 1 /\ g[i] = f[i]
        BY <2>3, <3>3
      <4>2. f[i] = IF i = 1 THEN ss[i] ELSE f[i - 1] \o ss[i]
        BY <2>2, <4>1
      <4> QED BY <3>1, <4>1, <4>2
    <3> QED BY <3>2, <3>3
  <2>5. g = [i \in 1..m |-> g[i]]
    BY <2>3
  <2>6. Flattening(g, ss, m)
    BY <2>4, <2>5 DEF Flattening
  <2> QED BY <2>6
<1> HIDE DEF G
<1>3. n \in G
  <2>1. \A m \in 0..n : m \in G
    BY <1>1, <1>2, Counted
  <2> QED BY <2>1
<1> QED BY <1>3 DEF G

LEMMA FlattenPlaces ==
  ASSUME NEW ss, Listed(ss), NEW n \in Nat, n = Len(ss), \A k \in 1..n : Listed(ss[k])
  PROVE  \E g : /\ g[0] = <<>> /\ FlattenSeq(ss) = g[n]
                /\ \A m \in 1..n : g[m] = g[m - 1] \o ss[m]
<1>0. Len(ss) = n /\ DOMAIN ss = 1..n
  BY ListedPlaces
<1>1. PICK f : f = CHOOSE h : Flattening(h, ss, n)
  OBVIOUS
<1>2. Flattening(f, ss, n)
  BY <1>1, FlatteningIs
<1>3. PICK g : g = [m \in 0..n |-> IF m = 0 THEN <<>> ELSE f[m]]
  OBVIOUS
<1>4. g[0] = <<>>
  BY <1>3
<1>5. FlattenSeq(ss) = g[n]
  <2>1. CASE n = 0
    <3>1. ss = <<>>
      BY <1>0, <2>1
    <3>2. FlattenSeq(ss) = ss
      BY <1>0, <2>1 DEF FlattenSeq
    <3> QED BY <1>4, <2>1, <3>1, <3>2
  <2>2. CASE n # 0
    <3>1. FlattenSeq(ss) = f[n]
      BY <1>0, <1>1, <2>2 DEF FlattenSeq, Flattening
    <3> QED BY <1>3, <2>2, <3>1
  <2> QED BY <2>1, <2>2
<1>6. ASSUME NEW m \in 1..n PROVE g[m] = g[m - 1] \o ss[m]
  <2>1. f[m] = IF m = 1 THEN ss[m] ELSE f[m - 1] \o ss[m]
    BY <1>2 DEF Flattening
  <2>2. g[m] = f[m] /\ g[m - 1] = IF m = 1 THEN <<>> ELSE f[m - 1]
    BY <1>3
  <2>3. <<>> \o ss[m] = ss[m]
    BY DEF Listed
  <2> QED BY <2>1, <2>2, <2>3
<1> QED BY <1>4, <1>5, <1>6

Deduping(f, s, m) ==
  f = [T \in SUBSET (1..m) |-> IF T = {} THEN <<>> ELSE AddItem(f[T \ {Max(T)}], s[Max(T)])]

LEMMA LastIsMax ==
  ASSUME NEW m \in Nat, NEW T \in SUBSET (1..m), m \in T
  PROVE  Max(T) = m
<1>1. \A y \in T : m >= y
  OBVIOUS
<1>2. \A x \in T : (\A y \in T : x >= y) => x = m
  OBVIOUS
<1> QED BY <1>1, <1>2 DEF Max

LEMMA DedupingIs ==
  ASSUME NEW n \in Nat, NEW s
  PROVE  \E f : Deduping(f, s, n)
<1> DEFINE G == {m \in 0..n : \E f : Deduping(f, s, m)}
<1>1. 0 \in G
  <2>1. SUBSET (1..0) = {{}}
    OBVIOUS
  <2>2. PICK f : f = [T \in SUBSET (1..0) |-> <<>>]
    OBVIOUS
  <2>3. f = [T \in SUBSET (1..0) |-> IF T = {} THEN <<>> ELSE AddItem(f[T \ {Max(T)}], s[Max(T)])]
    BY <2>1, <2>2
  <2>4. Deduping(f, s, 0)
    BY <2>3 DEF Deduping
  <2>5. \E h : Deduping(h, s, 0)
    BY <2>4
  <2> QED BY <2>5
<1>2. ASSUME NEW m \in 1..n, m - 1 \in G PROVE m \in G
  <2>1. PICK f : Deduping(f, s, m - 1)
    BY <1>2
  <2>2. \A T \in SUBSET (1..m - 1) : f[T] = IF T = {} THEN <<>> ELSE AddItem(f[T \ {Max(T)}], s[Max(T)])
    BY <2>1 DEF Deduping
  <2>3. PICK g : g = [T \in SUBSET (1..m) |-> IF m \in T THEN AddItem(f[T \ {m}], s[m]) ELSE f[T]]
    OBVIOUS
  <2>4. ASSUME NEW T \in SUBSET (1..m)
        PROVE  g[T] = IF T = {} THEN <<>> ELSE AddItem(g[T \ {Max(T)}], s[Max(T)])
    <3>1. CASE m \in T
      <4>1. Max(T) = m /\ T # {}
        BY <3>1, LastIsMax
      <4>2. T \ {m} \in SUBSET (1..m) /\ m \notin T \ {m}
        OBVIOUS
      <4>3. g[T \ {m}] = f[T \ {m}]
        BY <2>3, <4>2
      <4> QED BY <2>3, <3>1, <4>1, <4>3
    <3>2. CASE m \notin T
      <4>1. T \in SUBSET (1..m - 1) /\ g[T] = f[T]
        BY <2>3, <3>2
      <4>2. T \ {Max(T)} \in SUBSET (1..m) /\ m \notin T \ {Max(T)}
        BY <3>2
      <4>3. g[T \ {Max(T)}] = f[T \ {Max(T)}]
        BY <2>3, <4>2
      <4>4. f[T] = IF T = {} THEN <<>> ELSE AddItem(f[T \ {Max(T)}], s[Max(T)])
        BY <2>2, <4>1
      <4> QED BY <4>1, <4>3, <4>4
    <3> QED BY <3>1, <3>2
  <2>5. g = [T \in SUBSET (1..m) |-> g[T]]
    BY <2>3
  <2>6. Deduping(g, s, m)
    BY <2>4, <2>5 DEF Deduping
  <2> QED BY <2>6
<1> HIDE DEF G
<1>3. n \in G
  <2>1. \A m \in 0..n : m \in G
    BY <1>1, <1>2, Counted
  <2> QED BY <2>1
<1> QED BY <1>3 DEF G

LEMMA DedupePlaces ==
  ASSUME NEW s, Listed(s), NEW n \in Nat, n = Len(s)
  PROVE  \E g : /\ g[0] = <<>> /\ Dedupe(s) = g[n]
                /\ \A m \in 1..n : g[m] = AddItem(g[m - 1], s[m])
<1>0. DOMAIN s = 1..n
  BY ListedPlaces
<1>1. PICK f : f = CHOOSE h : Deduping(h, s, n)
  OBVIOUS
<1>2. Deduping(f, s, n)
  BY <1>1, DedupingIs
<1>3. Dedupe(s) = f[1..n]
  BY <1>0, <1>1 DEF Dedupe, FoldLeft, MapThenFoldSet, Deduping
<1>4. PICK g : g = [m \in 0..n |-> f[1..m]]
  OBVIOUS
<1>5. \A T \in SUBSET (1..n) : f[T] = IF T = {} THEN <<>> ELSE AddItem(f[T \ {Max(T)}], s[Max(T)])
  BY <1>2 DEF Deduping
<1>6. g[0] = <<>>
  <2>1. 1..0 = {} /\ {} \in SUBSET (1..n) /\ 0 \in 0..n
    OBVIOUS
  <2>2. g[0] = f[{}]
    BY <1>4, <2>1
  <2>3. f[{}] = <<>>
    BY ONLY <1>5, <2>1
  <2> QED BY <2>2, <2>3
<1>7. ASSUME NEW m \in 1..n PROVE g[m] = AddItem(g[m - 1], s[m])
  <2>1. 1..m \in SUBSET (1..n) /\ m \in 1..m /\ 1..m # {} /\ (1..m) \ {m} = 1..m - 1
    OBVIOUS
  <2>2. Max(1..m) = m
    BY <2>1, LastIsMax
  <2>3. g[m] = f[1..m] /\ g[m - 1] = f[1..m - 1]
    BY <1>4
  <2> QED BY <1>5, <2>1, <2>2, <2>3
<1>8. g[n] = f[1..n]
  BY <1>4
<1> QED BY <1>3, <1>6, <1>7, <1>8

Telling(f, s, m) ==
  f = [T \in SUBSET (1..m) |-> IF T = {} THEN <<>> ELSE Tell(f[T \ {Max(T)}], s[Max(T)])]

LEMMA TellingIs ==
  ASSUME NEW n \in Nat, NEW s
  PROVE  \E f : Telling(f, s, n)
<1> DEFINE G == {m \in 0..n : \E f : Telling(f, s, m)}
<1>1. 0 \in G
  <2>1. SUBSET (1..0) = {{}}
    OBVIOUS
  <2>2. PICK f : f = [T \in SUBSET (1..0) |-> <<>>]
    OBVIOUS
  <2>3. f = [T \in SUBSET (1..0) |-> IF T = {} THEN <<>> ELSE Tell(f[T \ {Max(T)}], s[Max(T)])]
    BY <2>1, <2>2
  <2>4. Telling(f, s, 0)
    BY <2>3 DEF Telling
  <2>5. \E h : Telling(h, s, 0)
    BY <2>4
  <2> QED BY <2>5
<1>2. ASSUME NEW m \in 1..n, m - 1 \in G PROVE m \in G
  <2>1. PICK f : Telling(f, s, m - 1)
    BY <1>2
  <2>2. \A T \in SUBSET (1..m - 1) : f[T] = IF T = {} THEN <<>> ELSE Tell(f[T \ {Max(T)}], s[Max(T)])
    BY <2>1 DEF Telling
  <2>3. PICK g : g = [T \in SUBSET (1..m) |-> IF m \in T THEN Tell(f[T \ {m}], s[m]) ELSE f[T]]
    OBVIOUS
  <2>4. ASSUME NEW T \in SUBSET (1..m)
        PROVE  g[T] = IF T = {} THEN <<>> ELSE Tell(g[T \ {Max(T)}], s[Max(T)])
    <3>1. CASE m \in T
      <4>1. Max(T) = m /\ T # {}
        BY <3>1, LastIsMax
      <4>2. T \ {m} \in SUBSET (1..m) /\ m \notin T \ {m}
        OBVIOUS
      <4>3. g[T \ {m}] = f[T \ {m}]
        BY <2>3, <4>2
      <4> QED BY <2>3, <3>1, <4>1, <4>3
    <3>2. CASE m \notin T
      <4>1. T \in SUBSET (1..m - 1) /\ g[T] = f[T]
        BY <2>3, <3>2
      <4>2. T \ {Max(T)} \in SUBSET (1..m) /\ m \notin T \ {Max(T)}
        BY <3>2
      <4>3. g[T \ {Max(T)}] = f[T \ {Max(T)}]
        BY <2>3, <4>2
      <4>4. f[T] = IF T = {} THEN <<>> ELSE Tell(f[T \ {Max(T)}], s[Max(T)])
        BY <2>2, <4>1
      <4> QED BY <4>1, <4>3, <4>4
    <3> QED BY <3>1, <3>2
  <2>5. g = [T \in SUBSET (1..m) |-> g[T]]
    BY <2>3
  <2>6. Telling(g, s, m)
    BY <2>4, <2>5 DEF Telling
  <2> QED BY <2>6
<1> HIDE DEF G
<1>3. n \in G
  <2>1. \A m \in 0..n : m \in G
    BY <1>1, <1>2, Counted
  <2> QED BY <2>1
<1> QED BY <1>3 DEF G

LEMMA ConversationPlaces ==
  ASSUME NEW s, Listed(s), NEW n \in Nat, n = Len(s)
  PROVE  \E g : /\ g[0] = <<>> /\ Conversation(s) = g[n]
                /\ \A m \in 1..n : g[m] = Tell(g[m - 1], s[m])
<1>0. DOMAIN s = 1..n
  BY ListedPlaces
<1>1. PICK f : f = CHOOSE h : Telling(h, s, n)
  OBVIOUS
<1>2. Telling(f, s, n)
  BY <1>1, TellingIs
<1>3. Conversation(s) = f[1..n]
  BY <1>0, <1>1 DEF Conversation, FoldLeft, MapThenFoldSet, Telling
<1>4. PICK g : g = [m \in 0..n |-> f[1..m]]
  OBVIOUS
<1>5. \A T \in SUBSET (1..n) : f[T] = IF T = {} THEN <<>> ELSE Tell(f[T \ {Max(T)}], s[Max(T)])
  BY <1>2 DEF Telling
<1>6. g[0] = <<>>
  <2>1. 1..0 = {} /\ {} \in SUBSET (1..n) /\ 0 \in 0..n
    OBVIOUS
  <2>2. g[0] = f[{}]
    BY <1>4, <2>1
  <2>3. f[{}] = <<>>
    BY ONLY <1>5, <2>1
  <2> QED BY <2>2, <2>3
<1>7. ASSUME NEW m \in 1..n PROVE g[m] = Tell(g[m - 1], s[m])
  <2>1. 1..m \in SUBSET (1..n) /\ m \in 1..m /\ 1..m # {} /\ (1..m) \ {m} = 1..m - 1
    OBVIOUS
  <2>2. Max(1..m) = m
    BY <2>1, LastIsMax
  <2>3. g[m] = f[1..m] /\ g[m - 1] = f[1..m - 1]
    BY <1>4
  <2> QED BY <1>5, <2>1, <2>2, <2>3
<1>8. g[n] = f[1..n]
  BY <1>4
<1> QED BY <1>3, <1>6, <1>7, <1>8

-----------------------------------------------------------------------------
(* Timelines whose items all have keys of their own                        *)

Keyed(s) ==
  /\ Listed(s)
  /\ \A k \in 1..Len(s) : s[k].key # NoKey
  /\ \A j, k \in 1..Len(s) : s[j].key = s[k].key => j = k

\* The first m items.
First(s, m) == [k \in 1..m |-> s[k]]

LEMMA FirstGrows ==
  ASSUME NEW s, Listed(s), NEW m \in 1..Len(s)
  PROVE  /\ Listed(First(s, m - 1)) /\ Len(First(s, m - 1)) = m - 1
         /\ First(s, m) = Append(First(s, m - 1), s[m])
         /\ First(s, 0) = <<>> /\ First(s, Len(s)) = s
<1>1. PICK p : p = First(s, m - 1)
  OBVIOUS
<1>2. m - 1 \in Nat /\ IsList(p, m - 1)
  BY <1>1, ListedPlaces DEF First, IsList
<1>3. Listed(p) /\ Len(p) = m - 1
  BY <1>2, ListedOf
<1>4. PICK q : q = Append(p, s[m])
  OBVIOUS
<1>5. Len(p) + 1 = m
  BY <1>3, ListedPlaces
<1>6. DOMAIN q = 1..m /\ q[m] = s[m] /\ \A k \in 1..m - 1 : q[k] = p[k]
  BY <1>3, <1>4, <1>5, ListedAppend
<1>7. Listed(q)
  BY <1>3, <1>4, ListedAppend
<1>8. q = [k \in 1..m |-> q[k]]
  BY <1>6, <1>7, ListedPlaces
<1>9. ASSUME NEW k \in 1..m PROVE q[k] = s[k]
  <2>1. k = m \/ k \in 1..m - 1
    BY ListedPlaces
  <2>2. k \in 1..m - 1 => p[k] = s[k]
    BY <1>1 DEF First
  <2> QED BY <1>6, <2>1, <2>2
<1>10. q = First(s, m)
  BY <1>8, <1>9 DEF First
<1>11. First(s, 0) = <<>> /\ First(s, Len(s)) = s
  BY ListedPlaces DEF First
<1> QED BY <1>1, <1>3, <1>4, <1>10, <1>11

LEMMA FlattenSingles ==
  ASSUME NEW s, Listed(s), NEW ss, ss = [k \in DOMAIN s |-> <<s[k]>>]
  PROVE  FlattenSeq(ss) = s
<1>0. Len(s) \in Nat /\ DOMAIN s = 1..Len(s)
  BY ListedPlaces
<1>1. ss = [k \in 1..Len(s) |-> ss[k]] /\ \A k \in 1..Len(s) : ss[k] = <<s[k]>>
  BY <1>0
<1>2. \A k \in 1..Len(s) : Listed(ss[k])
  BY <1>1, ListedShort
<1>3. PICK g : /\ g[0] = <<>> /\ FlattenSeq(ss) = g[Len(s)]
               /\ \A m \in 1..Len(s) : g[m] = g[m - 1] \o ss[m]
  <2>0. IsList(ss, Len(s))
    BY <1>1 DEF IsList
  <2>1. Listed(ss) /\ Len(ss) = Len(s)
    BY <1>0, <2>0, ListedOf
  <2>2. \A k \in 1..Len(ss) : Listed(ss[k])
    BY <1>2, <2>1
  <2>3. PICK n \in Nat : n = Len(ss)
    BY <1>0, <2>1
  <2>4. \E h : /\ h[0] = <<>> /\ FlattenSeq(ss) = h[n]
               /\ \A m \in 1..n : h[m] = h[m - 1] \o ss[m]
    BY ONLY n \in Nat, <2>1, <2>2, <2>3, FlattenPlaces
  <2> QED BY ONLY <2>1, <2>3, <2>4
<1> DEFINE G == {m \in 0..Len(s) : g[m] = First(s, m)}
<1>4. First(s, 0) = <<>> /\ First(s, Len(s)) = s
  BY ListedPlaces DEF First
<1>5. 0 \in G
  BY <1>0, <1>3, <1>4
<1>6. ASSUME NEW m \in 1..Len(s), m - 1 \in G PROVE m \in G
  <2>1. g[m - 1] = First(s, m - 1) /\ Listed(First(s, m - 1))
    BY <1>6, FirstGrows
  <2>2. g[m] = First(s, m - 1) \o <<s[m]>>
    BY <1>1, <1>3, <2>1
  <2>3. First(s, m) = Append(First(s, m - 1), s[m])
    BY FirstGrows
  <2>4. g[m] = First(s, m)
    BY <2>1, <2>2, <2>3, ListedAppend
  <2> QED BY <2>4, <1>0
<1> HIDE DEF G
<1>7. Len(s) \in G
  <2>1. \A m \in 0..Len(s) : m \in G
    BY <1>0, <1>5, <1>6, Counted
  <2> QED BY <1>0, <2>1
<1> QED BY <1>3, <1>4, <1>7 DEF G

\* An item with a key of its own is put at the end.
LEMMA AddKeyed ==
  ASSUME NEW s, Listed(s), NEW item, item.key # NoKey, \A k \in 1..Len(s) : s[k].key # item.key
  PROVE  AddItem(s, item) = Append(s, item)
<1>1. AddItem(s, item) = Append(Only(s, LAMBDA e : e.key # item.key), item)
  BY DEF AddItem
<1>2. PICK ss : ss = [k \in DOMAIN s |-> <<s[k]>>]
  OBVIOUS
<1>3. Only(s, LAMBDA e : e.key # item.key) = FlattenSeq(ss)
  BY <1>2, ListedPlaces DEF Only
<1> QED BY <1>1, <1>2, <1>3, FlattenSingles

LEMMA KeyedDedupe ==
  ASSUME NEW s, Keyed(s)
  PROVE  Dedupe(s) = s
<1>0. Listed(s) /\ Len(s) \in Nat /\ s = [k \in 1..Len(s) |-> s[k]]
  BY ListedPlaces DEF Keyed
<1>1. PICK g : /\ g[0] = <<>> /\ Dedupe(s) = g[Len(s)]
               /\ \A m \in 1..Len(s) : g[m] = AddItem(g[m - 1], s[m])
  BY <1>0, DedupePlaces
<1> DEFINE G == {m \in 0..Len(s) : g[m] = First(s, m)}
<1>2. First(s, 0) = <<>> /\ First(s, Len(s)) = s
  BY <1>0 DEF First
<1>3. 0 \in G
  BY <1>0, <1>1, <1>2
<1>4. ASSUME NEW m \in 1..Len(s), m - 1 \in G PROVE m \in G
  <2>1. PICK p : p = First(s, m - 1)
    OBVIOUS
  <2>2. Listed(p) /\ Len(p) = m - 1 /\ g[m - 1] = p
    BY <1>0, <1>4, <2>1, FirstGrows
  <2>3. ASSUME NEW k \in 1..Len(p) PROVE p[k].key # s[m].key
    <3>1. k \in 1..m - 1 /\ k \in 1..Len(s) /\ k # m
      BY <1>0, <2>2
    <3>2. p[k] = s[k]
      BY <2>1, <3>1 DEF First
    <3> QED BY <3>1, <3>2 DEF Keyed
  <2>4. s[m].key # NoKey
    BY DEF Keyed
  <2>5. AddItem(p, s[m]) = Append(p, s[m])
    BY <2>2, <2>3, <2>4, AddKeyed
  <2>6. g[m] = Append(p, s[m])
    BY <1>1, <2>2, <2>5
  <2>7. First(s, m) = Append(p, s[m])
    BY <1>0, <2>1, FirstGrows
  <2>8. g[m] = First(s, m)
    BY <2>6, <2>7
  <2>9. m \in 0..Len(s)
    BY <1>0
  <2> QED BY <2>8, <2>9
<1> HIDE DEF G
<1>5. Len(s) \in G
  <2>1. \A m \in 0..Len(s) : m \in G
    BY <1>0, <1>3, <1>4, Counted
  <2> QED BY <1>0, <2>1
<1> QED BY <1>1, <1>2, <1>5 DEF G

LEMMA NoStepsKept ==
  ASSUME NEW s, Listed(s), \A k \in 1..Len(s) : s[k].type # "workflow_step"
  PROVE  WithoutSteps(s) = s
<1>1. PICK ss : ss = [k \in DOMAIN s |-> <<s[k]>>]
  OBVIOUS
<1>2. WithoutSteps(s) = FlattenSeq(ss)
  BY <1>1, ListedPlaces DEF WithoutSteps, Only
<1> QED BY <1>1, <1>2, FlattenSingles

\* What WithoutSteps leaves of the first m items.
Leaving(g, s, n) ==
  /\ \A m \in 1..n : g[m] = IF s[m].type # "workflow_step" THEN With(g[m - 1], s[m]) ELSE g[m - 1]
  /\ \A m \in 0..n :
       /\ Keyed(g[m])
       /\ \A k \in 1..Len(g[m]) : \E j \in 1..m : g[m][k] = s[j] /\ s[j].type # "workflow_step"

LEMMA WithoutStepsPlaces ==
  ASSUME NEW n \in Nat, NEW s, Keyed(s), n = Len(s)
  PROVE  \E g : WithoutSteps(s) = g[n] /\ Leaving(g, s, n)
<1>0. Listed(s) /\ DOMAIN s = 1..n
  BY ListedPlaces DEF Keyed
<1>1. PICK ss : ss = [k \in 1..n |-> IF s[k].type # "workflow_step" THEN <<s[k]>> ELSE <<>>]
  OBVIOUS
<1>2. IsList(ss, n)
  BY <1>1 DEF IsList
<1>3. Listed(ss) /\ n = Len(ss) /\ \A k \in 1..n : Listed(ss[k])
  BY <1>1, <1>2, ListedShort, ListedOf
<1>4. WithoutSteps(s) = FlattenSeq(ss)
  BY <1>0, <1>1 DEF WithoutSteps, Only
<1>5. PICK g : /\ g[0] = <<>> /\ FlattenSeq(ss) = g[n]
               /\ \A m \in 1..n : g[m] = g[m - 1] \o ss[m]
  BY <1>3, FlattenPlaces
<1> DEFINE Left(m) == /\ Keyed(g[m])
                      /\ \A k \in 1..Len(g[m]) : \E j \in 1..m : g[m][k] = s[j] /\ s[j].type # "workflow_step"
           G == {m \in 0..n : Left(m)}
<1>6. 0 \in G
  <2>1. g[0] = <<>>
    BY <1>5
  <2>2. Listed(<<>>) /\ Len(<<>>) = 0
    BY ListedShort
  <2>3. Left(0)
    BY <2>1, <2>2 DEF Keyed
  <2> QED BY <2>3
<1>7. ASSUME NEW m \in 1..n, Listed(g[m - 1])
      PROVE  g[m] = IF s[m].type # "workflow_step" THEN With(g[m - 1], s[m]) ELSE g[m - 1]
  <2>1. g[m] = g[m - 1] \o ss[m]
    BY <1>5
  <2>2. CASE s[m].type # "workflow_step"
    <3>1. ss[m] = <<s[m]>>
      BY <1>1, <2>2
    <3> QED BY <1>7, <2>1, <2>2, <3>1, ListedAppend DEF With
  <2>3. CASE ~(s[m].type # "workflow_step")
    <3>1. ss[m] = <<>>
      BY <1>1, <2>3
    <3>2. g[m - 1] \o <<>> = g[m - 1]
      BY <1>7 DEF Listed
    <3> QED BY <2>1, <2>3, <3>1, <3>2
  <2> QED BY <2>2, <2>3
<1>8. ASSUME NEW m \in 1..n, m - 1 \in G PROVE m \in G
  <2>1. PICK p : p = g[m - 1]
    OBVIOUS
  <2>2. /\ Keyed(p) /\ Listed(p)
        /\ \A k \in 1..Len(p) : \E j \in 1..m - 1 : p[k] = s[j] /\ s[j].type # "workflow_step"
    BY <1>8, <2>1 DEF Keyed
  <2>3. g[m] = IF s[m].type # "workflow_step" THEN With(p, s[m]) ELSE p
    BY <1>7, <2>1, <2>2
  <2>4. \A j \in 1..m - 1 : j \in 1..m /\ j \in 1..n /\ j # m
    OBVIOUS
  <2>5. CASE s[m].type = "workflow_step"
    <3>1. g[m] = p
      BY <2>3, <2>5
    <3>2. \A k \in 1..Len(g[m]) : \E j \in 1..m : g[m][k] = s[j] /\ s[j].type # "workflow_step"
      BY <2>2, <2>4, <3>1
    <3>3. Left(m)
      BY <2>2, <3>1, <3>2
    <3>4. m \in 0..n
      OBVIOUS
    <3> HIDE DEF Left
    <3> QED BY <3>3, <3>4
  <2>6. CASE s[m].type # "workflow_step"
    <3>1. PICK q : q = g[m]
      OBVIOUS
    <3>2. q = With(p, s[m])
      BY <2>3, <2>6, <3>1
    <3>0. Len(p) \in Nat
      BY <2>2, ListedPlaces
    <3>3. /\ Listed(q) /\ Len(q) = Len(p) + 1 /\ q[Len(p) + 1] = s[m]
          /\ \A k \in 1..Len(p) : q[k] = p[k]
      BY <2>2, <3>2, WithPlaces
    <3>4. \A k \in 1..Len(q) : k = Len(p) + 1 \/ k \in 1..Len(p)
      BY <3>0, <3>3
    <3>5. \A k \in 1..Len(p) : p[k].key # s[m].key
      BY <2>2, <2>4 DEF Keyed
    <3>6. s[m].key # NoKey
      BY DEF Keyed
    <3>7. ASSUME NEW k \in 1..Len(q) PROVE q[k].key # NoKey
      BY <2>2, <3>3, <3>4, <3>6 DEF Keyed
    <3>8. ASSUME NEW j \in 1..Len(q), NEW k \in 1..Len(q), q[j].key = q[k].key PROVE j = k
      BY <2>2, <3>0, <3>3, <3>4, <3>5, <3>8 DEF Keyed
    <3>9. Keyed(q)
      BY <3>3, <3>7, <3>8 DEF Keyed
    <3>10. ASSUME NEW k \in 1..Len(q) PROVE \E j \in 1..m : q[k] = s[j] /\ s[j].type # "workflow_step"
      <4>1. CASE k = Len(p) + 1
        BY <2>6, <3>3, <4>1
      <4>2. CASE k \in 1..Len(p)
        BY <2>2, <2>4, <3>3, <4>2
      <4> QED BY <3>4, <4>1, <4>2
    <3> QED BY <3>1, <3>9, <3>10
  <2> QED BY <2>5, <2>6
<1> HIDE DEF G
<1>9. \A m \in 0..n : m \in G
  BY <1>6, <1>8, Counted
<1>10. \A m \in 0..n : Left(m)
  BY <1>9 DEF G
<1>11. \A m \in 1..n : g[m] = IF s[m].type # "workflow_step" THEN With(g[m - 1], s[m]) ELSE g[m - 1]
  <2>1. \A m \in 1..n : Listed(g[m - 1])
    BY <1>10 DEF Keyed
  <2> QED BY <1>7, <2>1
<1>12. WithoutSteps(s) = g[n]
  BY <1>4, <1>5
<1>13. Leaving(g, s, n)
  BY <1>10, <1>11 DEF Leaving
<1> QED BY <1>12, <1>13

-----------------------------------------------------------------------------
(* What a timeline tells                                                   *)

LEMMA ConversationEmpty == Conversation(<<>>) = <<>>
<1>1. PICK s : s = <<>>
  OBVIOUS
<1>2. Len(s) = 0 /\ Listed(s)
  BY <1>1, ListedShort
<1>3. Conversation(s) = <<>>
  BY <1>2, ConversationPlaces
<1> QED BY <1>1, <1>3

LEMMA ConversationAppend ==
  ASSUME NEW s, Listed(s), NEW x
  PROVE  Conversation(Append(s, x)) = Tell(Conversation(s), x)
<1>0. PICK n \in Nat : n = Len(s)
  BY ListedPlaces
<1>1. PICK q : q = With(s, x)
  OBVIOUS
<1>2. Listed(q) /\ Len(q) = n + 1 /\ q[n + 1] = x /\ \A k \in 1..n : q[k] = s[k]
  <2>1. /\ Listed(q) /\ Len(q) = Len(s) + 1 /\ q[Len(s) + 1] = x
        /\ \A k \in 1..Len(s) : q[k] = s[k]
    BY <1>1, WithPlaces
  <2> QED BY <1>0, <2>1
<1>3. n + 1 \in Nat
  BY <1>0
<1>4. PICK g : g[0] = <<>> /\ Conversation(s) = g[n] /\ \A m \in 1..n : g[m] = Tell(g[m - 1], s[m])
  BY <1>0, ConversationPlaces
<1>5. PICK h : h[0] = <<>> /\ Conversation(q) = h[n + 1] /\ \A m \in 1..n + 1 : h[m] = Tell(h[m - 1], q[m])
  BY <1>2, <1>3, ConversationPlaces
<1> DEFINE G == {m \in 0..n : h[m] = g[m]}
<1>6. 0 \in G
  BY <1>4, <1>5
<1>7. ASSUME NEW m \in 1..n, m - 1 \in G PROVE m \in G
  <2>1. h[m - 1] = g[m - 1]
    BY <1>7
  <2>2. g[m] = Tell(g[m - 1], s[m]) /\ h[m] = Tell(h[m - 1], q[m]) /\ q[m] = s[m]
    BY <1>2, <1>4, <1>5
  <2>3. h[m] = g[m] /\ m \in 0..n
    BY <2>1, <2>2
  <2> QED BY <2>3
<1> HIDE DEF G
<1>8. n \in G
  <2>1. \A m \in 0..n : m \in G
    BY <1>0, <1>6, <1>7, Counted
  <2> QED BY <1>0, <2>1
<1>9. h[n] = g[n]
  BY <1>8 DEF G
<1>10. h[n + 1] = Tell(h[n], x)
  <2>1. n + 1 \in 1..n + 1 /\ (n + 1) - 1 = n
    BY <1>0
  <2> QED BY <1>2, <1>5, <2>1
<1> QED BY <1>1, <1>4, <1>5, <1>9, <1>10 DEF With

Talks(item) == item.type \in {"user_message", "assistant_answer"}

LEMMA TellsNothing ==
  ASSUME NEW said, NEW item, ~Talks(item)
  PROVE  Tell(said, item) = said
BY DEF Tell, Talks

\* Items that do not talk tell nothing.
LEMMA ConversationSilent ==
  ASSUME NEW s, NEW w, Listed(s), Listed(w), \A k \in 1..Len(w) : ~Talks(w[k])
  PROVE  Conversation(s \o w) = Conversation(s)
<1>0. PICK n \in Nat : n = Len(w)
  BY ListedPlaces
<1> DEFINE G == {m \in 0..n : Conversation(s \o First(w, m)) = Conversation(s)}
<1>1. 0 \in G
  <2>1. First(w, 0) = <<>>
    BY DEF First
  <2>2. s \o <<>> = s
    BY DEF Listed
  <2>3. Conversation(s \o First(w, 0)) = Conversation(s)
    BY <2>1, <2>2
  <2> QED BY <1>0, <2>3
<1>2. ASSUME NEW m \in 1..n, m - 1 \in G PROVE m \in G
  <2>1. PICK p : p = First(w, m - 1)
    OBVIOUS
  <2>2. Listed(p) /\ First(w, m) = Append(p, w[m]) /\ Conversation(s \o p) = Conversation(s)
    BY <1>0, <1>2, <2>1, FirstGrows
  <2>3. s \o Append(p, w[m]) = Append(s \o p, w[m])
    <3>1. PICK S : s \in Seq(S) /\ p \in Seq(S)
      BY <2>2, ListedBoth
    <3>2. PICK U : U = S \cup {w[m]}
      OBVIOUS
    <3>3. s \in Seq(U) /\ p \in Seq(U) /\ w[m] \in U
      BY <3>1, <3>2
    <3> QED BY <3>3, AppendIsConcat, ConcatAssociative
  <2>4. Listed(s \o p)
    BY <2>2, ListedConcat
  <2>5. Conversation(Append(s \o p, w[m])) = Tell(Conversation(s \o p), w[m])
    BY <2>4, ConversationAppend
  <2>6. ~Talks(w[m])
    BY <1>0
  <2>7. Conversation(s \o First(w, m)) = Conversation(s)
    BY <2>2, <2>3, <2>5, <2>6, TellsNothing
  <2> QED BY <1>0, <2>7
<1> HIDE DEF G
<1>3. n \in G
  <2>1. \A m \in 0..n : m \in G
    BY <1>0, <1>1, <1>2, Counted
  <2> QED BY <1>0, <2>1
<1>4. First(w, n) = w
  BY <1>0, ListedPlaces DEF First
<1> QED BY <1>3, <1>4 DEF G

-----------------------------------------------------------------------------
(* What each turn has read, and what it tells                              *)

\* A session whose messages are what its transcript tells but for remarks, with the
\* summary for a generic answer: every item has a key of its own, of a turn that is over.
Good(s, over) ==
  /\ s = [messages |-> s.messages, transcript |-> s.transcript]
  /\ s.messages = Conversation(s.transcript)
  /\ Keyed(s.transcript)
  /\ \A k \in 1..Len(s.transcript) :
       s.transcript[k].type # "workflow_step" /\ \E u \in over : BelongsTo(s.transcript[k], u)

\* The n-th item of a turn, and the items of a turn.
OwnItem(item, t, n) == item.key \in {<<"step", t, n>>, <<"seq", t, n>>}

Own(s, t) == Listed(s) /\ \A n \in 1..Len(s) : OwnItem(s[n], t, n)

Early == {"idle", "routed", "staged"}
Writing == {"staged", "running", "ended"}

\* A turn tells what was asked of it, and at its end its answer, if it has one.
TurnFits(r, t) ==
  /\ r = [at |-> r.at, text |-> r.text, kind |-> r.kind, base |-> r.base, items |-> r.items,
          ended |-> r.ended, saved |-> r.saved, blind |-> r.blind, before |-> r.before]
  /\ r.at \in Early \cup Writing \cup {"saved", "done"}
  /\ r.at \in Early => r.items = <<>>
  /\ r.at \in Early \cup {"running"} => r.ended = "none"
  /\ r.at \in {"ended", "saved"} => r.ended \in WithAnswer \cup {"question", "paused"}
  /\ r.at \in {"routed"} \cup Writing /\ r.text = NoText => r.base # Empty
  /\ Own(r.items, t)
  /\ r.at \in {"running", "ended"} =>
       \A n \in 1..Len(r.items) : Talks(r.items[n]) => r.ended \in WithAnswer /\ n = Len(r.items)
  /\ r.at = "ended" /\ r.ended \in WithAnswer =>
       LET n == Len(r.items)
       IN n > 0 /\ r.items[n].type = "assistant_answer" /\ r.items[n].text = FinalText(r.ended)

Over == {t \in Turn : turns[t].at \in {"saved", "done"}}

Done == {t \in Turn : turns[t].at = "done"}

Alone == Faulty = {} /\ ~\E u, v \in Turn : TurnsOverlap(u, v)

\* A turn that writes has read a good session, one that was routed has, or will
\* overlap a turn that began, and what no turn writes is good.
Agreed ==
  /\ \A t \in Turn : turns[t].at \in Writing => Good(turns[t].base, Over)
  /\ \A t \in Turn : turns[t].at = "routed" =>
       Good(turns[t].base, Over) \/ \E u \in Begun \ {t} : u \notin turns[t].before
  /\ (\A t \in Turn : turns[t].at \notin Writing) => Good(snap, Over)

ContentInv ==
  /\ turns = [t \in Turn |-> turns[t]]
  /\ \A t \in Turn : TurnFits(turns[t], t) /\ turns[t].before \subseteq Done
  /\ Alone => Agreed

-----------------------------------------------------------------------------
(* What a turn saves of a good session is good                             *)

LEMMA GoodGrows ==
  ASSUME NEW s, NEW P, NEW Q, P \subseteq Q, Good(s, P)
  PROVE  Good(s, Q)
BY DEF Good

LEMMA GoodEmpty ==
  ASSUME NEW P
  PROVE  Good(Empty, P)
<1>1. Empty.messages = <<>> /\ Empty.transcript = <<>> /\ Empty = [messages |-> <<>>, transcript |-> <<>>]
  BY DEF Empty
<1>2. Listed(<<>>) /\ Len(<<>>) = 0
  BY ListedShort
<1>3. Keyed(<<>>)
  BY <1>2 DEF Keyed
<1> QED BY <1>1, <1>2, <1>3, ConversationEmpty DEF Good

LEMMA KeyedWith ==
  ASSUME NEW s, Keyed(s), NEW x, x.key # NoKey, \A k \in 1..Len(s) : s[k].key # x.key
  PROVE  Keyed(With(s, x))
<1>1. PICK q : q = With(s, x)
  OBVIOUS
<1>0. Listed(s) /\ Len(s) \in Nat
  BY ListedPlaces DEF Keyed
<1>2. /\ Listed(q) /\ Len(q) = Len(s) + 1 /\ q[Len(s) + 1] = x
      /\ \A k \in 1..Len(s) : q[k] = s[k]
  BY <1>0, <1>1, WithPlaces
<1>3. \A k \in 1..Len(q) : k = Len(s) + 1 \/ k \in 1..Len(s)
  BY <1>0, <1>2
<1>4. ASSUME NEW k \in 1..Len(q) PROVE q[k].key # NoKey
  BY <1>2, <1>3 DEF Keyed
<1>5. ASSUME NEW j \in 1..Len(q), NEW k \in 1..Len(q), q[j].key = q[k].key PROVE j = k
  BY <1>2, <1>3, <1>5 DEF Keyed
<1> QED BY <1>1, <1>2, <1>4, <1>5 DEF Keyed

LEMMA KeyedConcat ==
  ASSUME NEW s, NEW w, Keyed(s), Keyed(w),
         \A j \in 1..Len(s), k \in 1..Len(w) : s[j].key # w[k].key
  PROVE  Keyed(Joined(s, w))
<1>1. PICK q : q = Joined(s, w)
  OBVIOUS
<1>0. Listed(s) /\ Len(s) \in Nat /\ Listed(w) /\ Len(w) \in Nat
  BY ListedPlaces DEF Keyed
<1>2. /\ Listed(q)
      /\ \A k \in 1..Len(s) : q[k] = s[k]
      /\ \A k \in 1..Len(w) : q[Len(s) + k] = w[k]
  BY <1>0, <1>1, JoinedPlaces DEF IsJoin
<1>3. \A k \in 1..Len(q) : k \in 1..Len(s) \/ \E j \in 1..Len(w) : k = Len(s) + j
  BY <1>0, <1>1, JoinedPlaces DEF IsJoin
<1>4. ASSUME NEW k \in 1..Len(q) PROVE q[k].key # NoKey
  <2>1. CASE k \in 1..Len(s)
    BY <1>2, <2>1 DEF Keyed
  <2>2. ASSUME NEW j \in 1..Len(w), k = Len(s) + j PROVE q[k].key # NoKey
    <3>1. q[k] = w[j]
      BY <1>2, <2>2
    <3> QED BY <3>1 DEF Keyed
  <2> QED BY <1>3, <2>1, <2>2
<1>5. ASSUME NEW j \in 1..Len(q), NEW k \in 1..Len(q), q[j].key = q[k].key PROVE j = k
  <2>1. CASE j \in 1..Len(s) /\ k \in 1..Len(s)
    BY <1>2, <1>5, <2>1 DEF Keyed
  <2>2. ASSUME j \in 1..Len(s), NEW l \in 1..Len(w), k = Len(s) + l PROVE FALSE
    <3>1. q[j] = s[j] /\ q[k] = w[l]
      BY <1>2, <2>2
    <3> QED BY <1>5, <2>2, <3>1
  <2>3. ASSUME k \in 1..Len(s), NEW l \in 1..Len(w), j = Len(s) + l PROVE FALSE
    <3>1. q[k] = s[k] /\ q[j] = w[l]
      BY <1>2, <2>3
    <3> QED BY <1>5, <2>3, <3>1
  <2>4. ASSUME NEW l \in 1..Len(w), NEW m \in 1..Len(w), j = Len(s) + l, k = Len(s) + m PROVE j = k
    <3>1. q[j] = w[l] /\ q[k] = w[m]
      BY <1>2, <2>4
    <3>2. l = m
      BY <1>5, <3>1 DEF Keyed
    <3> QED BY <2>4, <3>2
  <2> QED BY <1>3, <2>1, <2>2, <2>3, <2>4
<1> QED BY <1>1, <1>2, <1>4, <1>5 DEF Keyed

LEMMA ItemsKeyed ==
  ASSUME NEW t, NEW s, Own(s, t)
  PROVE  /\ Keyed(s)
         /\ \A n \in 1..Len(s) : BelongsTo(s[n], t) /\ s[n].key # <<"message", t>>
<1>1. ASSUME NEW n \in 1..Len(s)
      PROVE  /\ s[n].key[3] = n /\ s[n].key[2] = t /\ Len(s[n].key) = 3
             /\ s[n].key # NoKey /\ s[n].key # <<"message", t>>
  <2>1. s[n].key = <<"step", t, n>> \/ s[n].key = <<"seq", t, n>>
    BY DEF Own, OwnItem
  <2>2. Len(s[n].key) = 3 /\ s[n].key[2] = t /\ s[n].key[3] = n
    <3>1. PICK k : k = s[n].key
      OBVIOUS
    <3>2. Len(k) = 3 /\ k[2] = t /\ k[3] = n
      <4>1. CASE k = <<"step", t, n>>
        BY ONLY <4>1
      <4>2. CASE k = <<"seq", t, n>>
        BY ONLY <4>2
      <4> QED BY <2>1, <3>1, <4>1, <4>2
    <3> QED BY <3>1, <3>2
  <2>3. Len(NoKey) = 0
    BY DEF NoKey
  <2>4. Len(<<"message", t>>) = 2
    OBVIOUS
  <2> QED BY <2>2, <2>3, <2>4
<1>2. \A n \in 1..Len(s) : BelongsTo(s[n], t)
  BY <1>1 DEF BelongsTo
<1>3. \A j, k \in 1..Len(s) : s[j].key = s[k].key => j = k
  BY <1>1
<1> QED BY <1>1, <1>2, <1>3 DEF Keyed, Own

\* The seed of a turn that read a good session is the transcript it read.
LEMMA SeedIsRead ==
  ASSUME NEW t, NEW over, Good(turns[t].base, over), turns[t].text = NoText => turns[t].base # Empty,
         NEW read, read = turns[t].base.transcript
  PROVE  /\ WithoutSteps(read) = read
         /\ read = <<>> => MessageItems(MessagesBefore(SavedMessages(t), turns[t].text)) = <<>>
<1>0. PICK base : base = turns[t].base
  OBVIOUS
<1>1. /\ base = [messages |-> base.messages, transcript |-> read]
      /\ base.messages = Conversation(read) /\ Listed(read)
      /\ \A k \in 1..Len(read) : read[k].type # "workflow_step"
  BY <1>0 DEF Good, Keyed
<1>2. WithoutSteps(read) = read
  BY <1>1, NoStepsKept
<1>3. ASSUME read = <<>> PROVE MessageItems(MessagesBefore(SavedMessages(t), turns[t].text)) = <<>>
  <2>1. base.messages = <<>>
    BY <1>1, <1>3, ConversationEmpty
  <2>2. PICK text : text = turns[t].text
    OBVIOUS
  <2>3. base = Empty
    BY <1>1, <1>3, <2>1 DEF Empty
  <2>4. text # NoText
    BY <1>0, <2>2, <2>3
  <2>5. Says(<<>>, "user", text) = <<<<"user", text>>>>
    BY <2>4 DEF Says
  <2>6. PICK said : said = SavedMessages(t)
    OBVIOUS
  <2>7. said = <<<<"user", text>>>> \/ \E a : said = <<<<"user", text>>, <<"assistant", a>>>>
    <3>1. said = Says(<<<<"user", text>>>>, "assistant", AssistantText(t))
      BY <1>0, <2>1, <2>2, <2>5, <2>6 DEF SavedMessages
    <3>2. PICK one : one = <<<<"user", text>>>>
      OBVIOUS
    <3>3. said = one \/ said = Append(one, <<"assistant", AssistantText(t)>>)
      BY <3>1, <3>2 DEF Says
    <3> QED BY <3>2, <3>3
  <2>8. {k \in DOMAIN said : text # NoText /\ said[k] = <<"user", text>>} = {1}
    <3>1. CASE said = <<<<"user", text>>>>
      BY <2>4, <3>1
    <3>2. ASSUME NEW a, said = <<<<"user", text>>, <<"assistant", a>>>>
          PROVE  {k \in DOMAIN said : text # NoText /\ said[k] = <<"user", text>>} = {1}
      <4>1. <<"assistant", a>> # <<"user", text>>
        OBVIOUS
      <4>2. DOMAIN said = {1, 2} /\ said[1] = <<"user", text>> /\ said[2] = <<"assistant", a>>
        BY <3>2
      <4> QED BY <2>4, <4>1, <4>2
    <3> QED BY <2>7, <3>1, <3>2
  <2>9. Max({1}) = 1
    BY LastIsMax
  <2>10. MessagesBefore(said, text) = SubSeq(said, 1, 0)
    <3>1. PICK S : S = {k \in DOMAIN said : text # NoText /\ said[k] = <<"user", text>>}
      OBVIOUS
    <3>2. MessagesBefore(said, text) = IF S = {} THEN said ELSE SubSeq(said, 1, Max(S) - 1)
      BY ONLY <3>1 DEF MessagesBefore
    <3>3. S # {} /\ Max(S) = 1
      BY <2>8, <2>9, <3>1
    <3>4. 1 - 1 = 0
      OBVIOUS
    <3>5. MessagesBefore(said, text) = SubSeq(said, 1, Max(S) - 1)
      BY ONLY <3>2, <3>3
    <3> QED BY <3>3, <3>4, <3>5
  <2>11. SubSeq(said, 1, 0) = <<>>
    OBVIOUS
  <2>12. MessageItems(<<>>) = <<>>
    BY DEF MessageItems
  <2> QED BY <2>2, <2>6, <2>10, <2>11, <2>12
<1> QED BY <1>2, <1>3

\* With the user's words behind it.
Worded(q, s, t) == \A k \in 1..Len(q) : q[k] = UserMessage(t) \/ \E j \in 1..Len(s) : q[k] = s[j]

LEMMA WordsAdded ==
  ASSUME NEW t, NEW s, Keyed(s), \A k \in 1..Len(s) : s[k].key # <<"message", t>>,
         NEW q, q = WithUserMessage(s, t)
  PROVE  /\ Keyed(q) /\ Conversation(q) = Says(Conversation(s), "user", turns[t].text)
         /\ Worded(q, s, t)
<1>1. PICK x : x = UserMessage(t)
  OBVIOUS
<1>2. x.key = <<"message", t>> /\ x.type = "user_message" /\ x.text = turns[t].text
  BY <1>1 DEF UserMessage, Item
<1>3. CASE turns[t].text = NoText
  <2>1. q = s
    BY <1>3 DEF WithUserMessage
  <2>2. Says(Conversation(s), "user", turns[t].text) = Conversation(s)
    BY <1>3 DEF Says
  <2>3. Worded(q, s, t)
    BY <2>1 DEF Worded
  <2> QED BY <2>1, <2>2, <2>3
<1>4. CASE turns[t].text # NoText
  <2>1. x.key # NoKey
    <3>1. Len(x.key) = 2 /\ Len(NoKey) = 0
      BY <1>2 DEF NoKey
    <3> QED BY <3>1
  <2>2. Keyed(With(s, x))
    BY <1>2, <2>1, KeyedWith
  <2>3. q = Dedupe(With(s, x))
    BY <1>1, <1>4 DEF WithUserMessage, AppendItem, With
  <2>4. q = With(s, x)
    BY <2>2, <2>3, KeyedDedupe
  <2>5. Conversation(q) = Tell(Conversation(s), x)
    BY <2>4, ConversationAppend DEF With, Keyed
  <2>6. Tell(Conversation(s), x) = Says(Conversation(s), "user", turns[t].text)
    BY <1>2 DEF Tell
  <2>7. ASSUME NEW k \in 1..Len(q) PROVE q[k] = x \/ \E j \in 1..Len(s) : q[k] = s[j]
    <3>1. Listed(s)
      BY DEF Keyed
    <3> QED BY <2>4, <3>1, WithPlaces
  <2>8. Worded(q, s, t)
    BY <1>1, <2>7 DEF Worded
  <2> QED BY <2>2, <2>4, <2>5, <2>6, <2>8
<1> QED BY <1>3, <1>4

\* With a turn's items behind it, of which the last may be its answer.
LEMMA AnswerAdded ==
  ASSUME NEW t, TurnFits(turns[t], t), turns[t].at = "ended",
         NEW q, Keyed(q), NEW w, w = WithoutSteps(turns[t].items)
  PROVE  /\ Keyed(w) /\ Conversation(Joined(q, w)) = Says(Conversation(q), "assistant", AssistantText(t))
         /\ \A k \in 1..Len(w) :
              w[k].type # "workflow_step" /\ \E j \in 1..Len(turns[t].items) : w[k] = turns[t].items[j]
<1>1. PICK items : items = turns[t].items
  OBVIOUS
<1>2. /\ Listed(items) /\ Listed(q) /\ Own(items, t)
      /\ \A n \in 1..Len(items) : Talks(items[n]) => turns[t].ended \in WithAnswer /\ n = Len(items)
  BY <1>1 DEF TurnFits, Keyed, Own
<1>3. turns[t].ended \in WithAnswer =>
        /\ Len(items) > 0 /\ items[Len(items)].type = "assistant_answer"
        /\ items[Len(items)].text = FinalText(turns[t].ended)
  BY <1>1 DEF TurnFits
<1>4. Keyed(items)
  BY <1>2, ItemsKeyed
<1>5. PICK n \in Nat : n = Len(items)
  BY <1>2, ListedPlaces
<1>6. PICK g :
        /\ w = g[n]
        /\ \A m \in 1..n : g[m] = IF items[m].type # "workflow_step" THEN With(g[m - 1], items[m]) ELSE g[m - 1]
        /\ \A m \in 0..n :
             /\ Keyed(g[m])
             /\ \A k \in 1..Len(g[m]) : \E j \in 1..m : g[m][k] = items[j] /\ items[j].type # "workflow_step"
  <2>1. PICK g : WithoutSteps(items) = g[n] /\ Leaving(g, items, n)
    BY <1>4, <1>5, WithoutStepsPlaces
  <2> QED BY <1>1, <2>1 DEF Leaving
<1>7. /\ Keyed(w) /\ Listed(w)
      /\ \A k \in 1..Len(w) : \E j \in 1..n : w[k] = items[j] /\ items[j].type # "workflow_step"
  BY <1>5, <1>6 DEF Keyed
<1>8. CASE turns[t].ended \notin WithAnswer
  <2>1. \A k \in 1..Len(w) : ~Talks(w[k])
    BY <1>2, <1>5, <1>7, <1>8
  <2>2. Conversation(Joined(q, w)) = Conversation(q)
    BY <1>2, <1>7, <2>1, ConversationSilent DEF Joined
  <2>3. AssistantText(t) = NoText
    BY <1>8 DEF AssistantText
  <2>4. Says(Conversation(q), "assistant", AssistantText(t)) = Conversation(q)
    BY <2>3 DEF Says
  <2> QED BY <1>1, <1>5, <1>7, <2>2, <2>4
<1>9. CASE turns[t].ended \in WithAnswer
  <2>1. PICK a : a = items[n]
    OBVIOUS
  <2>2. n > 0 /\ n \in 1..n /\ n - 1 \in 0..n /\ a.type = "assistant_answer" /\ a.text = FinalText(turns[t].ended)
    BY <1>3, <1>5, <1>9, <2>1
  <2>3. PICK v : v = g[n - 1]
    OBVIOUS
  <2>4. w = With(v, a)
    BY <1>6, <2>1, <2>2, <2>3
  <2>5. /\ Listed(v)
        /\ \A k \in 1..Len(v) : \E j \in 1..n - 1 : v[k] = items[j] /\ items[j].type # "workflow_step"
    BY <1>6, <2>2, <2>3 DEF Keyed
  <2>6. \A j \in 1..n - 1 : j \in 1..n /\ j # n
    BY <1>5
  <2>7. \A k \in 1..Len(v) : ~Talks(v[k])
    BY <1>2, <1>5, <2>5, <2>6
  <2>8. Joined(q, w) = With(Joined(q, v), a)
    <3>1. PICK S : q \in Seq(S) /\ v \in Seq(S)
      BY <1>2, <2>5, ListedBoth
    <3>2. PICK U : U = S \cup {a}
      OBVIOUS
    <3>3. q \in Seq(U) /\ v \in Seq(U) /\ a \in U
      BY <3>1, <3>2
    <3> QED BY <2>4, <3>3, AppendIsConcat, ConcatAssociative DEF Joined, With
  <2>9. Conversation(Joined(q, v)) = Conversation(q)
    BY <1>2, <2>5, <2>7, ConversationSilent DEF Joined
  <2>10. Conversation(With(Joined(q, v), a)) = Tell(Conversation(Joined(q, v)), a)
    BY <1>2, <2>5, JoinedPlaces, ConversationAppend DEF With, IsJoin
  <2>11. Tell(Conversation(q), a) = Says(Conversation(q), "assistant", Decorated(FinalText(turns[t].ended)))
    BY <2>2 DEF Tell
  <2>12. AssistantText(t) = Decorated(FinalText(turns[t].ended))
    BY <1>9 DEF AssistantText
  <2> QED BY <1>1, <1>5, <1>7, <2>8, <2>9, <2>10, <2>11, <2>12
<1> QED BY <1>8, <1>9

LEMMA SavedGood ==
  ASSUME NEW t, TurnFits(turns[t], t), turns[t].at = "ended",
         NEW over, t \notin over, Good(turns[t].base, over),
         NEW s, s = [messages |-> SavedMessages(t), transcript |-> SavedTranscript(t)]
  PROVE  /\ Good(s, over \cup {t})
         /\ s.transcript = Joined(WithUserMessage(turns[t].base.transcript, t), WithoutSteps(turns[t].items))
<1>1. PICK read : read = turns[t].base.transcript
  OBVIOUS
<1>2. /\ turns[t].base.messages = Conversation(read) /\ Keyed(read)
      /\ \A k \in 1..Len(read) : read[k].type # "workflow_step" /\ \E u \in over : BelongsTo(read[k], u)
  BY <1>1 DEF Good
<1>3. turns[t].text = NoText => turns[t].base # Empty
  BY DEF TurnFits, Writing
<1>4. /\ WithoutSteps(read) = read
      /\ read = <<>> => MessageItems(MessagesBefore(SavedMessages(t), turns[t].text)) = <<>>
  BY <1>1, <1>3, SeedIsRead
<1>5. \A k \in 1..Len(read) : ~BelongsTo(read[k], t)
  BY <1>2 DEF BelongsTo
<1>6. \A k \in 1..Len(read) : read[k].key # <<"message", t>>
  <2>1. Len(<<"message", t>>) > 1 /\ <<"message", t>>[2] = t
    OBVIOUS
  <2> QED BY <1>5, <2>1 DEF BelongsTo
<1>7. PICK q : q = WithUserMessage(read, t)
  OBVIOUS
<1>8. /\ Keyed(q) /\ Conversation(q) = Says(Conversation(read), "user", turns[t].text)
      /\ \A k \in 1..Len(q) : q[k] = UserMessage(t) \/ \E j \in 1..Len(read) : q[k] = read[j]
  <2>1. Keyed(q) /\ Conversation(q) = Says(Conversation(read), "user", turns[t].text)
    BY <1>2, <1>6, <1>7, WordsAdded
  <2>2. Worded(q, read, t)
    BY <1>2, <1>6, <1>7, WordsAdded
  <2> QED BY <2>1, <2>2 DEF Worded
<1>9. PICK items : items = turns[t].items
  OBVIOUS
<1>10. /\ Keyed(items)
       /\ \A n \in 1..Len(items) : BelongsTo(items[n], t) /\ items[n].key # <<"message", t>>
  BY <1>9, ItemsKeyed DEF TurnFits
<1>11. PICK w : w = WithoutSteps(items)
  OBVIOUS
<1>12. /\ Keyed(w) /\ Conversation(Joined(q, w)) = Says(Conversation(q), "assistant", AssistantText(t))
       /\ \A k \in 1..Len(w) : w[k].type # "workflow_step" /\ \E j \in 1..Len(items) : w[k] = items[j]
  BY <1>8, <1>9, <1>11, AnswerAdded
<1>13. UserMessage(t).key = <<"message", t>> /\ UserMessage(t).type = "user_message" /\ BelongsTo(UserMessage(t), t)
  BY DEF UserMessage, Item, BelongsTo
<1>14. ASSUME NEW j \in 1..Len(q), NEW k \in 1..Len(w) PROVE q[j].key # w[k].key
  <2>1. BelongsTo(w[k], t) /\ w[k].key # <<"message", t>>
    BY <1>10, <1>12
  <2>2. CASE q[j] = UserMessage(t)
    BY <1>13, <2>1, <2>2
  <2>3. ASSUME NEW l \in 1..Len(read), q[j] = read[l] PROVE q[j].key # w[k].key
    BY <1>5, <2>1, <2>3 DEF BelongsTo
  <2> QED BY <1>8, <2>2, <2>3
<1>15. PICK z : z = Joined(q, w)
  OBVIOUS
<1>16. Keyed(z)
  BY <1>8, <1>12, <1>14, <1>15, KeyedConcat
<1>17. SavedTranscript(t) = z
  <2>1. PICK seed : seed = IF read # <<>> THEN read ELSE MessageItems(MessagesBefore(SavedMessages(t), turns[t].text))
    OBVIOUS
  <2>2. seed = read
    BY <1>4, <2>1
  <2>3. SavedTranscript(t) = Merge(WithUserMessage(seed, t), WithoutSteps(Dedupe(items)))
    BY <1>1, <1>4, <1>9, <2>1 DEF SavedTranscript
  <2>4. Dedupe(items) = items
    BY <1>10, KeyedDedupe
  <2>5. SavedTranscript(t) = Dedupe(z)
    BY <1>7, <1>11, <1>15, <2>2, <2>3, <2>4 DEF Merge, Joined
  <2> QED BY <1>16, <2>5, KeyedDedupe
<1>18. SavedMessages(t) = Conversation(z)
  BY <1>2, <1>8, <1>12, <1>15 DEF SavedMessages
<1>19. ASSUME NEW k \in 1..Len(z)
       PROVE  z[k].type # "workflow_step" /\ \E u \in over \cup {t} : BelongsTo(z[k], u)
  <2>1. Listed(q) /\ Listed(w)
    BY <1>8, <1>12 DEF Keyed
  <2>2. /\ \A l \in 1..Len(q) : z[l] = q[l]
        /\ \A l \in 1..Len(w) : z[Len(q) + l] = w[l]
        /\ k \in 1..Len(q) \/ \E l \in 1..Len(w) : k = Len(q) + l
    <3>1. IsJoin(z, q, w)
      BY <1>15, <2>1, JoinedPlaces
    <3> QED BY <3>1 DEF IsJoin
  <2>3. CASE k \in 1..Len(q)
    <3>1. z[k] = q[k]
      BY <2>2, <2>3
    <3>2. CASE q[k] = UserMessage(t)
      BY <1>13, <3>1, <3>2
    <3>3. ASSUME NEW l \in 1..Len(read), q[k] = read[l]
          PROVE  z[k].type # "workflow_step" /\ \E u \in over \cup {t} : BelongsTo(z[k], u)
      BY <1>2, <3>1, <3>3
    <3> QED BY <1>8, <2>3, <3>2, <3>3
  <2>4. ASSUME NEW l \in 1..Len(w), k = Len(q) + l
        PROVE  z[k].type # "workflow_step" /\ \E u \in over \cup {t} : BelongsTo(z[k], u)
    <3>1. z[k] = w[l]
      BY <2>2, <2>4
    <3> QED BY <1>10, <1>12, <3>1
  <2> QED BY <2>2, <2>3, <2>4
<1>20. s.messages = Conversation(z) /\ s.transcript = z /\ s = [messages |-> s.messages, transcript |-> s.transcript]
  BY <1>17, <1>18
<1> QED BY <1>1, <1>7, <1>9, <1>11, <1>15, <1>16, <1>19, <1>20 DEF Good

-----------------------------------------------------------------------------
(* A turn takes a step                                                     *)

MovesTo(t, r) == turns' = [u \in Turn |-> IF u = t THEN r ELSE turns[u]]

LEMMA MovedTurns ==
  ASSUME NEW t \in Turn, NEW r, MovesTo(t, r)
  PROVE  /\ turns' = [u \in Turn |-> turns'[u]]
         /\ turns'[t] = r /\ \A u \in Turn \ {t} : turns'[u] = turns[u]
BY DEF MovesTo

LEMMA NotFaulty ==
  ASSUME NEW t \in Turn, TurnFits(turns[t], t), turns[t].at # "done"
  PROVE  t \notin Faulty
BY DEF WithAnswer, TurnFits, Faulty, Early, Writing

\* Turns that overlap or fail have done so for good.
LEMMA StillAlone ==
  ASSUME ContentInv, NEW t \in Turn, \A u \in Turn \ {t} : turns'[u] = turns[u], turns[t].at # "done",
         t \in Begun => turns'[t].at \notin {"idle", "routed"} /\ turns'[t].before = turns[t].before
  PROVE  Begun \subseteq Begun' /\ (Alone' => Alone)
<1>1. Begun \subseteq Begun' /\ \A u \in Begun : u \in Turn /\ turns'[u].before = turns[u].before
  BY DEF Begun
<1>2. Faulty \subseteq Faulty'
  <2>1. t \notin Faulty
    BY NotFaulty DEF ContentInv
  <2> QED BY <2>1 DEF Faulty
<1>3. \A u, v \in Turn : TurnsOverlap(u, v) => TurnsOverlap(u, v)'
  BY <1>1 DEF TurnsOverlap
<1> QED BY <1>1, <1>2, <1>3 DEF Alone

LEMMA TurnMoves ==
  ASSUME ContentInv, NEW t \in Turn, NEW r, MovesTo(t, r), TurnFits(r, t),
         turns[t].at # "done", r.before \subseteq Done,
         t \in Begun => r.at \notin {"idle", "routed"} /\ r.before = turns[t].before
  PROVE  /\ turns' = [u \in Turn |-> turns'[u]]
         /\ \A u \in Turn : TurnFits(turns'[u], u) /\ turns'[u].before \subseteq Done'
         /\ Begun \subseteq Begun' /\ (Alone' => Alone)
<1>1. /\ turns' = [u \in Turn |-> turns'[u]]
      /\ turns'[t] = r /\ \A u \in Turn \ {t} : turns'[u] = turns[u]
  BY MovedTurns
<1>2. \A u \in Turn : TurnFits(turns[u], u) /\ turns[u].before \subseteq Done
  BY DEF ContentInv
<1>3. Done \subseteq Done'
  BY <1>1 DEF Done
<1>4. \A u \in Turn : TurnFits(turns'[u], u) /\ turns'[u].before \subseteq Done'
  BY <1>1, <1>2, <1>3
<1>5. Begun \subseteq Begun' /\ (Alone' => Alone)
  BY <1>1, StillAlone
<1> QED BY <1>1, <1>4, <1>5

\* A turn that writes goes on writing.
LEMMA WriterMoves ==
  ASSUME ContentInv, NEW t \in Turn, NEW r, MovesTo(t, r), TurnFits(r, t),
         turns[t].at \in Writing, r.at \in Writing, r.before = turns[t].before, r.base = turns[t].base
  PROVE  ContentInv'
<1>1. /\ turns[t].at # "done" /\ t \in Begun
      /\ r.at \notin {"idle", "routed", "saved", "done"} /\ turns[t].at \notin {"saved", "done"}
  BY DEF Writing, Begun
<1>2. r.before \subseteq Done
  BY DEF ContentInv
<1>3. /\ turns' = [u \in Turn |-> turns'[u]]
      /\ \A u \in Turn : TurnFits(turns'[u], u) /\ turns'[u].before \subseteq Done'
      /\ Begun \subseteq Begun' /\ (Alone' => Alone)
  BY <1>1, <1>2, TurnMoves
<1>4. turns'[t] = r /\ \A u \in Turn \ {t} : turns'[u] = turns[u]
  BY MovedTurns
<1>5. Over' = Over
  BY <1>1, <1>4 DEF Over
<1>6. ASSUME Agreed PROVE Agreed'
  <2>1. \A u \in Turn : turns'[u].at \in Writing => Good(turns'[u].base, Over')
    BY <1>4, <1>5, <1>6 DEF Agreed
  <2>2. ASSUME NEW u \in Turn, turns'[u].at = "routed"
        PROVE  Good(turns'[u].base, Over') \/ \E v \in Begun' \ {u} : v \notin turns'[u].before
    <3>1. u # t /\ turns'[u] = turns[u]
      BY <1>1, <1>4, <2>2
    <3> QED BY <1>3, <1>5, <1>6, <2>2, <3>1 DEF Agreed
  <2>3. ~\A u \in Turn : turns'[u].at \notin Writing
    BY <1>4
  <2> QED BY <2>1, <2>2, <2>3 DEF Agreed
<1>7. Alone' => Agreed'
  BY <1>3, <1>6 DEF ContentInv
<1> QED BY <1>3, <1>7 DEF ContentInv

LEMMA SnapshotKeepsInv ==
  ASSUME ContentInv, NEW t \in Turn, Snapshot(t)
  PROVE  ContentInv'
<1>1. PICK old : old = turns[t]
  OBVIOUS
<1>2. PICK r : r = [old EXCEPT !.at = "running"]
  OBVIOUS
<1>3. old.at = "staged" /\ TurnFits(old, t) /\ turns = [u \in Turn |-> turns[u]]
  BY <1>1 DEF Snapshot, ContentInv
<1>4. r = [at |-> "running", text |-> old.text, kind |-> old.kind, base |-> old.base, items |-> old.items,
           ended |-> old.ended, saved |-> old.saved, blind |-> old.blind, before |-> old.before]
  BY <1>2, <1>3 DEF TurnFits
<1>5. MovesTo(t, r)
  BY <1>1, <1>2, <1>3 DEF Snapshot, TurnGoes, MovesTo
<1>6. TurnFits(r, t)
  <2>1. old.items = <<>> /\ old.ended = "none" /\ Own(old.items, t) /\ (old.text = NoText => old.base # Empty)
    BY <1>3 DEF TurnFits, Early, Writing
  <2>2. Len(old.items) = 0
    BY <2>1, ListedShort
  <2> QED BY <1>4, <2>1, <2>2 DEF TurnFits, Early, Writing
<1>7. r.at \in Writing /\ turns[t].at \in Writing /\ r.before = turns[t].before /\ r.base = turns[t].base
  BY <1>1, <1>3, <1>4 DEF Writing
<1> QED BY <1>5, <1>6, <1>7, WriterMoves

\* An event of a turn that runs.
Silent(s) == \A n \in 1..Len(s) : ~Talks(s[n])

LEMMA OwnEmpty ==
  ASSUME NEW t
  PROVE  Own(<<>>, t) /\ Len(<<>>) = 0
<1>1. PICK s : s = <<>>
  OBVIOUS
<1>2. Listed(s) /\ Len(s) = 0
  BY <1>1, ListedShort
<1>3. 1..0 = {}
  OBVIOUS
<1>4. Own(s, t)
  BY <1>2, <1>3 DEF Own
<1> QED BY <1>1, <1>2, <1>4

LEMMA OwnGrows ==
  ASSUME NEW t, NEW s, Own(s, t), NEW x, OwnItem(x, t, Len(s) + 1), NEW z, z = With(s, x)
  PROVE  Own(z, t)
<1>0. Listed(s)
  BY DEF Own
<1>1. /\ Listed(z) /\ Len(z) = Len(s) + 1 /\ z[Len(s) + 1] = x
      /\ \A k \in 1..Len(s) : z[k] = s[k]
      /\ \A k \in 1..Len(z) : k = Len(s) + 1 \/ k \in 1..Len(s)
  BY <1>0, WithPlaces
<1>2. ASSUME NEW n \in 1..Len(z) PROVE OwnItem(z[n], t, n)
  <2>1. CASE n = Len(s) + 1
    BY <1>1, <2>1
  <2>2. CASE n \in 1..Len(s)
    BY <1>1, <2>2 DEF Own
  <2> QED BY <1>1, <2>1, <2>2
<1> QED BY <1>1, <1>2 DEF Own

LEMMA ItemsGrow ==
  ASSUME NEW t, NEW s, Own(s, t), Silent(s), NEW x, OwnItem(x, t, Len(s) + 1), NEW z, z = With(s, x)
  PROVE  /\ Own(z, t) /\ Len(z) > 0 /\ z[Len(z)] = x
         /\ ~Talks(x) => Silent(z)
         /\ \A n \in 1..Len(z) : Talks(z[n]) => n = Len(z)
<1>0. Listed(s) /\ Own(z, t)
  BY OwnGrows DEF Own
<1>1. /\ Len(z) = Len(s) + 1 /\ z[Len(s) + 1] = x
      /\ \A k \in 1..Len(s) : z[k] = s[k]
      /\ \A k \in 1..Len(z) : k = Len(s) + 1 \/ k \in 1..Len(s)
  BY <1>0, WithPlaces
<1>2. Len(s) \in Nat
  BY <1>0, ListedPlaces
<1>3. ASSUME NEW n \in 1..Len(z), Talks(z[n]) PROVE n = Len(z) /\ z[n] = x
  BY <1>1, <1>3 DEF Silent
<1>4. ~Talks(x) => Silent(z)
  BY <1>3 DEF Silent
<1> QED BY <1>0, <1>1, <1>2, <1>3, <1>4

LEMMA EventKey ==
  ASSUME NEW t, NEW type, NEW text, NEW x, x = EventItem(t, type, text)
  PROVE  OwnItem(x, t, Len(turns[t].items) + 1) /\ x.type = type /\ x.text = text
BY DEF EventItem, Item, OwnItem

LEMMA EventKeepsInv ==
  ASSUME ContentInv, NEW t \in Turn, turns[t].at = "running",
         NEW type, ~(type \in {"user_message", "assistant_answer"}), NEW text,
         turns' = [turns EXCEPT ![t].items = @ \o <<EventItem(t, type, text)>>]
  PROVE  ContentInv'
<1>1. PICK old : old = turns[t]
  OBVIOUS
<1>2. PICK x : x = EventItem(t, type, text)
  OBVIOUS
<1>3. PICK z : z = With(old.items, x)
  OBVIOUS
<1>4. PICK r : r = [old EXCEPT !.items = z]
  OBVIOUS
<1>5. old.at = "running" /\ TurnFits(old, t) /\ turns = [u \in Turn |-> turns[u]]
  BY <1>1 DEF ContentInv
<1>6. r = [at |-> "running", text |-> old.text, kind |-> old.kind, base |-> old.base, items |-> z,
           ended |-> old.ended, saved |-> old.saved, blind |-> old.blind, before |-> old.before]
  BY <1>4, <1>5 DEF TurnFits
<1>7. turns' = [turns EXCEPT ![t] = r]
  <2>1. Listed(old.items)
    BY <1>5 DEF TurnFits, Own
  <2>2. z = old.items \o <<x>>
    BY <1>3, <2>1, ListedAppend DEF With
  <2> QED BY <1>1, <1>2, <1>4, <1>5, <2>2
<1>8. MovesTo(t, r)
  BY <1>5, <1>7 DEF MovesTo
<1>9. /\ old.ended = "none" /\ (old.text = NoText => old.base # Empty)
      /\ Own(old.items, t) /\ Silent(old.items)
  BY <1>5 DEF WithAnswer, TurnFits, Early, Writing, Silent
<1>10. ~Talks(x) /\ OwnItem(x, t, Len(old.items) + 1)
  BY <1>1, <1>2, EventKey DEF Talks
<1>11. Own(z, t) /\ Silent(z)
  BY <1>3, <1>9, <1>10, ItemsGrow
<1>12. TurnFits(r, t)
  BY <1>6, <1>9, <1>11 DEF TurnFits, Early, Writing, Silent
<1>13. r.at \in Writing /\ turns[t].at \in Writing /\ r.before = turns[t].before /\ r.base = turns[t].base
  BY <1>1, <1>5, <1>6 DEF Writing
<1> QED BY <1>8, <1>12, <1>13, WriterMoves

LEMMA EmitKeepsInv ==
  ASSUME ContentInv, NEW t \in Turn, EmitStep(t) \/ \E type \in NoteType : EmitNote(t, type)
  PROVE  ContentInv'
<1>1. CASE EmitStep(t)
  <2>1. turns[t].at = "running" /\ turns' = [turns EXCEPT ![t].items = @ \o <<EventItem(t, "workflow_step", "buffer")>>]
    BY <1>1 DEF EmitStep
  <2> QED BY <2>1, EventKeepsInv
<1>2. ASSUME NEW type \in NoteType, EmitNote(t, type) PROVE ContentInv'
  <2>1. turns[t].at = "running" /\ turns' = [turns EXCEPT ![t].items = @ \o <<EventItem(t, type, "note")>>]
    BY <1>2 DEF EmitNote
  <2>2. ~(type \in {"user_message", "assistant_answer"})
    BY <1>2 DEF NoteType
  <2> QED BY <2>1, <2>2, EventKeepsInv
<1> QED BY <1>1, <1>2

LEMMA ResultKeepsInv ==
  ASSUME ContentInv, NEW t \in Turn, NEW how \in WithAnswer \cup {"question", "paused"}, EmitResult(t, how)
  PROVE  ContentInv'
<1>1. PICK old : old = turns[t]
  OBVIOUS
<1>2. PICK z : z = old.items \o FinalItem(t, how)
  OBVIOUS
<1>3. PICK r : r = [old EXCEPT !.at = "ended", !.ended = how, !.items = z]
  OBVIOUS
<1>4. old.at = "running" /\ TurnFits(old, t) /\ turns = [u \in Turn |-> turns[u]]
  BY <1>1 DEF ContentInv, EmitResult
<1>5. r = [at |-> "ended", text |-> old.text, kind |-> old.kind, base |-> old.base, items |-> z,
           ended |-> how, saved |-> old.saved, blind |-> old.blind, before |-> old.before]
  BY <1>3, <1>4 DEF TurnFits
<1>6. turns' = [turns EXCEPT ![t] = r]
  BY <1>1, <1>2, <1>3, <1>4 DEF EmitResult
<1>7. MovesTo(t, r)
  BY <1>4, <1>6 DEF MovesTo
<1>8. /\ old.ended = "none" /\ (old.text = NoText => old.base # Empty)
      /\ Own(old.items, t) /\ Silent(old.items) /\ Listed(old.items)
  BY <1>4 DEF WithAnswer, TurnFits, Early, Writing, Silent, Own
<1>9. CASE how = "paused"
  <2>1. FinalItem(t, how) = <<>>
    BY <1>9 DEF FinalItem, WithAnswer
  <2>2. z = old.items
    BY <1>2, <1>8, <2>1 DEF Listed
  <2>3. TurnFits(r, t)
    BY <1>5, <1>8, <1>9, <2>2 DEF WithAnswer, TurnFits, Early, Writing, Silent
  <2> QED BY <2>3, <1>1, <1>4, <1>5, <1>7, WriterMoves DEF Writing
<1>10. CASE how = "question"
  <2>1. PICK x : x = EventItem(t, "question_card", "which")
    OBVIOUS
  <2>2. FinalItem(t, how) = <<x>>
    BY <1>10, <2>1 DEF FinalItem, WithAnswer
  <2>3. z = With(old.items, x)
    BY <1>2, <1>8, <2>2, ListedAppend DEF With
  <2>4. ~Talks(x) /\ OwnItem(x, t, Len(old.items) + 1)
    BY <1>1, <2>1, EventKey DEF Talks
  <2>5. Own(z, t) /\ Silent(z)
    BY <1>8, <2>3, <2>4, ItemsGrow
  <2>6. TurnFits(r, t)
    BY <1>5, <1>8, <1>10, <2>5 DEF WithAnswer, TurnFits, Early, Writing, Silent
  <2> QED BY <2>6, <1>1, <1>4, <1>5, <1>7, WriterMoves DEF Writing
<1>11. CASE how \in WithAnswer
  <2>1. PICK x : x = EventItem(t, "assistant_answer", FinalText(how))
    OBVIOUS
  <2>2. FinalItem(t, how) = <<x>>
    BY <1>11, <2>1 DEF FinalItem, WithAnswer
  <2>3. z = With(old.items, x)
    BY <1>2, <1>8, <2>2, ListedAppend DEF With
  <2>4. x.type = "assistant_answer" /\ x.text = FinalText(how) /\ OwnItem(x, t, Len(old.items) + 1)
    BY <1>1, <2>1, EventKey
  <2>5. /\ Own(z, t) /\ Len(z) > 0 /\ z[Len(z)] = x
        /\ \A n \in 1..Len(z) : Talks(z[n]) => n = Len(z)
    BY <1>8, <2>3, <2>4, ItemsGrow
  <2>6. TurnFits(r, t)
    BY <1>5, <1>8, <1>11, <2>4, <2>5 DEF TurnFits, Early, Writing
  <2> QED BY <2>6, <1>1, <1>4, <1>5, <1>7, WriterMoves DEF Writing
<1> QED BY <1>9, <1>10, <1>11

LEMMA BreaksKeepsInv ==
  ASSUME ContentInv, NEW t \in Turn, Breaks(t)
  PROVE  ContentInv'
<1>1. PICK old : old = turns[t]
  OBVIOUS
<1>2. PICK z : z = old.items \o FinalItem(t, "broken")
  OBVIOUS
<1>3. PICK r : r = [old EXCEPT !.at = "done", !.ended = "broken", !.base = Empty, !.items = z]
  OBVIOUS
<1>4. /\ old.at \in {"running", "ended", "saved"} /\ TurnFits(old, t) /\ old.before \subseteq Done
      /\ turns = [u \in Turn |-> turns[u]]
  BY <1>1 DEF ContentInv, Breaks
<1>5. r = [at |-> "done", text |-> old.text, kind |-> old.kind, base |-> Empty, items |-> z,
           ended |-> "broken", saved |-> old.saved, blind |-> old.blind, before |-> old.before]
  BY <1>3, <1>4 DEF TurnFits
<1>6. turns' = [turns EXCEPT ![t] = r]
  BY <1>1, <1>2, <1>3, <1>4 DEF Breaks
<1>7. MovesTo(t, r)
  BY <1>4, <1>6 DEF MovesTo
<1>8. Own(z, t)
  <2>1. Own(old.items, t) /\ Listed(old.items)
    BY <1>4 DEF TurnFits, Own
  <2>2. PICK x : x = EventItem(t, "assistant_answer", "error")
    OBVIOUS
  <2>3. FinalItem(t, "broken") = <<x>>
    BY <2>2 DEF FinalItem, WithAnswer
  <2>4. z = With(old.items, x)
    BY <1>2, <2>1, <2>3, ListedAppend DEF With
  <2>5. OwnItem(x, t, Len(old.items) + 1)
    BY <1>1, <2>2, EventKey
  <2> QED BY <2>1, <2>4, <2>5, OwnGrows
<1>9. TurnFits(r, t)
  BY <1>5, <1>8 DEF TurnFits, Early, Writing
<1>10. /\ turns' = [u \in Turn |-> turns'[u]]
       /\ \A u \in Turn : TurnFits(turns'[u], u) /\ turns'[u].before \subseteq Done'
  BY <1>1, <1>4, <1>5, <1>7, <1>9, TurnMoves
<1>11. ~Alone'
  <2>1. turns'[t] = r
    BY <1>7, MovedTurns
  <2>2. t \in Faulty'
    BY <1>5, <2>1 DEF Faulty
  <2> QED BY <2>2 DEF Alone
<1> QED BY <1>10, <1>11 DEF ContentInv

LEMMA RouteKeepsInv ==
  ASSUME ContentInv, NEW t \in Turn, NEW kind, NEW text, Route(t, kind, text),
         kind \in {"message", "reset", "resume"}
  PROVE  ContentInv'
<1>1. PICK old : old = turns[t]
  OBVIOUS
<1>0. PICK b, base, before :
        b = Blind(kind) /\ base = (IF Blind(kind) THEN Empty ELSE snap) /\ before = {u \in Turn : turns[u].at = "done"}
  OBVIOUS
<1>14. PICK new : new = NoTurn
  OBVIOUS
<1>15. PICK r : r = [new EXCEPT !.at = "routed", !.text = text, !.kind = kind,
                               !.blind = b, !.base = base, !.before = before]
  OBVIOUS
<1>16. new.items = <<>> /\ new.ended = "none"
  BY <1>14 DEF NoTurn
<1>2. r = [at |-> "routed", text |-> text, kind |-> kind, base |-> base, items |-> new.items,
           ended |-> new.ended, saved |-> new.saved, blind |-> b, before |-> before]
  <2>1. new = [at |-> new.at, text |-> new.text, kind |-> new.kind, base |-> new.base, items |-> new.items,
               ended |-> new.ended, saved |-> new.saved, blind |-> new.blind, before |-> new.before]
    BY <1>14 DEF NoTurn
  <2> QED BY ONLY <1>15, <2>1
<1>3. old.at = "idle" /\ turns = [u \in Turn |-> turns[u]] /\ t \notin Begun /\ snap' = snap
  BY <1>1 DEF ContentInv, Route, Begun
<1>4. turns' = [turns EXCEPT ![t] = r]
  BY <1>0, <1>14, <1>15 DEF Route
<1>5. MovesTo(t, r)
  BY <1>3, <1>4 DEF MovesTo
<1>6. text = NoText => r.base # Empty
  <2>1. text = NoText => kind = "resume" /\ Loads
    BY DEF Route
  <2>2. kind = "resume" /\ Loads => ~Blind(kind) /\ snap # Empty
    BY DEF Blind, Loads
  <2> QED BY <1>0, <1>2, <2>1, <2>2
<1>7. TurnFits(r, t)
  <2>1. Own(<<>>, t) /\ Len(<<>>) = 0
    BY OwnEmpty
  <2> QED BY <1>2, <1>16, <1>6, <2>1 DEF TurnFits, Early, Writing
<1>8. r.before = Done /\ r.at = "routed" /\ r.base \in {Empty, snap}
  BY <1>0, <1>2 DEF Done
<1>9. /\ turns' = [u \in Turn |-> turns'[u]]
      /\ \A u \in Turn : TurnFits(turns'[u], u) /\ turns'[u].before \subseteq Done'
      /\ Begun \subseteq Begun' /\ (Alone' => Alone)
  BY <1>1, <1>3, <1>5, <1>7, <1>8, TurnMoves
<1>10. turns'[t] = r /\ \A u \in Turn \ {t} : turns'[u] = turns[u]
  BY <1>5, MovedTurns
<1>11. Over' = Over
  BY <1>1, <1>3, <1>8, <1>10 DEF Over
<1>12. ASSUME Agreed PROVE Agreed'
  <2>1. \A u \in Turn : turns'[u].at \in Writing => u # t
    BY <1>8, <1>10 DEF Writing
  <2>2. \A u \in Turn : turns'[u].at \in Writing => Good(turns'[u].base, Over')
    BY <1>10, <1>11, <1>12, <2>1 DEF Agreed
  <2>3. ASSUME NEW u \in Turn, turns'[u].at = "routed"
        PROVE  Good(turns'[u].base, Over') \/ \E v \in Begun' \ {u} : v \notin turns'[u].before
    <3>1. CASE u # t
      BY <1>9, <1>10, <1>11, <1>12, <2>3, <3>1 DEF Agreed
    <3>2. CASE u = t /\ r.base = Empty
      BY <1>10, <3>2, GoodEmpty
    <3>3. CASE u = t /\ r.base = snap
      <4>1. CASE \A v \in Turn : turns[v].at \notin Writing
        BY <1>10, <1>11, <1>12, <3>3, <4>1 DEF Agreed
      <4>2. ASSUME NEW v \in Turn, turns[v].at \in Writing PROVE v \in Begun' \ {u} /\ v \notin turns'[u].before
        <5>1. v \in Begun /\ v \notin Done
          BY <4>2 DEF Begun, Done, Writing
        <5> QED BY <1>3, <1>8, <1>9, <1>10, <3>3, <5>1
      <4> QED BY <4>1, <4>2
    <3> QED BY <1>8, <3>1, <3>2, <3>3
  <2>4. ASSUME \A u \in Turn : turns'[u].at \notin Writing PROVE Good(snap', Over')
    <3>1. turns[t].at \notin Writing
      BY <1>1, <1>3 DEF Writing
    <3>2. \A u \in Turn : turns[u].at \notin Writing
      BY <1>10, <2>4, <3>1
    <3> QED BY <1>3, <1>11, <1>12, <3>2 DEF Agreed
  <2> QED BY <2>2, <2>3, <2>4 DEF Agreed
<1>13. Alone' => Agreed'
  BY <1>9, <1>12 DEF ContentInv
<1> QED BY <1>9, <1>13 DEF ContentInv

LEMMA StageKeepsInv ==
  ASSUME ContentInv, NEW t \in Turn, Stage(t)
  PROVE  ContentInv'
<1>1. PICK old : old = turns[t]
  OBVIOUS
<1>2. PICK r : r = [old EXCEPT !.at = "staged"]
  OBVIOUS
<1>3. old.at = "routed" /\ TurnFits(old, t) /\ turns = [u \in Turn |-> turns[u]] /\ old.before \subseteq Done
  BY <1>1 DEF Stage, ContentInv
<1>4. r = [at |-> "staged", text |-> old.text, kind |-> old.kind, base |-> old.base, items |-> old.items,
           ended |-> old.ended, saved |-> old.saved, blind |-> old.blind, before |-> old.before]
  BY <1>2, <1>3 DEF TurnFits
<1>5. MovesTo(t, r)
  BY <1>1, <1>2, <1>3 DEF Stage, TurnGoes, MovesTo
<1>6. TurnFits(r, t)
  BY <1>3, <1>4 DEF TurnFits, Early, Writing
<1>7. r.at = "staged" /\ r.before = old.before /\ r.base = old.base /\ t \notin Begun
  BY <1>1, <1>3, <1>4 DEF Begun
<1>8. /\ turns' = [u \in Turn |-> turns'[u]]
      /\ \A u \in Turn : TurnFits(turns'[u], u) /\ turns'[u].before \subseteq Done'
      /\ Begun \subseteq Begun' /\ (Alone' => Alone)
  BY <1>1, <1>3, <1>5, <1>6, <1>7, TurnMoves
<1>9. turns'[t] = r /\ \A u \in Turn \ {t} : turns'[u] = turns[u]
  BY <1>5, MovedTurns
<1>10. Over' = Over
  BY <1>1, <1>3, <1>7, <1>9 DEF Over
<1>11. ASSUME Agreed, Alone' PROVE Agreed'
  <2>1. Good(old.base, Over)
    <3>1. Good(old.base, Over) \/ \E u \in Begun \ {t} : u \notin old.before
      BY <1>1, <1>3, <1>11 DEF Agreed
    <3>2. ASSUME NEW u \in Begun \ {t}, u \notin old.before PROVE FALSE
      <4>1. u \in Turn /\ u \in Begun' /\ turns'[u] = turns[u]
        BY <1>8, <1>9 DEF Begun
      <4>2. t \in Begun'
        BY <1>7, <1>9 DEF Begun
      <4>3. t \notin Done
        BY <1>1, <1>3 DEF Done
      <4>4. t \notin turns'[u].before
        BY <4>1, <4>3 DEF ContentInv
      <4>5. u \notin turns'[t].before
        BY <1>7, <1>9, <3>2
      <4>6. TurnsOverlap(u, t)'
        BY <4>1, <4>2, <4>4, <4>5 DEF TurnsOverlap
      <4> QED BY <1>11, <4>1, <4>6 DEF Alone
    <3> QED BY <3>1, <3>2
  <2>2. \A u \in Turn : turns'[u].at \in Writing => Good(turns'[u].base, Over')
    BY <1>7, <1>9, <1>10, <1>11, <2>1 DEF Agreed
  <2>3. ASSUME NEW u \in Turn, turns'[u].at = "routed"
        PROVE  Good(turns'[u].base, Over') \/ \E v \in Begun' \ {u} : v \notin turns'[u].before
    <3>1. u # t /\ turns'[u] = turns[u]
      BY <1>7, <1>9, <2>3
    <3> QED BY <1>8, <1>10, <1>11, <2>3, <3>1 DEF Agreed
  <2>4. turns'[t].at \in Writing
    BY <1>7, <1>9 DEF Writing
  <2> QED BY <2>2, <2>3, <2>4 DEF Agreed
<1>12. Alone' => Agreed'
  BY <1>8, <1>11 DEF ContentInv
<1> QED BY <1>8, <1>12 DEF ContentInv

LEMMA SaveSessionKeepsInv ==
  ASSUME ContentInv, NEW t \in Turn, SaveSession(t)
  PROVE  ContentInv'
<1>1. PICK old : old = turns[t]
  OBVIOUS
<1>2. PICK r : r = [old EXCEPT !.at = "saved", !.saved = TRUE]
  OBVIOUS
<1>3. old.at = "ended" /\ TurnFits(old, t) /\ turns = [u \in Turn |-> turns[u]] /\ old.before \subseteq Done
  BY <1>1 DEF SaveSession, ContentInv
<1>4. r = [at |-> "saved", text |-> old.text, kind |-> old.kind, base |-> old.base, items |-> old.items,
           ended |-> old.ended, saved |-> TRUE, blind |-> old.blind, before |-> old.before]
  BY <1>2, <1>3 DEF TurnFits
<1>5. turns' = [turns EXCEPT ![t] = r]
  BY <1>1, <1>2, <1>3 DEF SaveSession
<1>6. MovesTo(t, r)
  BY <1>3, <1>5 DEF MovesTo
<1>7. TurnFits(r, t)
  BY <1>3, <1>4 DEF TurnFits, Early, Writing
<1>8. r.at = "saved" /\ r.before = old.before
  BY <1>4
<1>9. /\ turns' = [u \in Turn |-> turns'[u]]
      /\ \A u \in Turn : TurnFits(turns'[u], u) /\ turns'[u].before \subseteq Done'
      /\ Begun \subseteq Begun' /\ (Alone' => Alone)
  BY <1>1, <1>3, <1>6, <1>7, <1>8, TurnMoves
<1>10. turns'[t] = r /\ \A u \in Turn \ {t} : turns'[u] = turns[u]
  BY <1>6, MovedTurns
<1>11. t \notin Over /\ Over' = Over \cup {t}
  BY <1>1, <1>3, <1>8, <1>10 DEF Over
<1>12. ASSUME Agreed PROVE Agreed'
  <2>1. \A u \in Turn : turns'[u].at \in Writing \cup {"routed"} => u # t /\ turns'[u] = turns[u]
    BY <1>8, <1>10 DEF Writing
  <2>2. \A u \in Turn : turns'[u].at \in Writing => Good(turns'[u].base, Over')
    BY <1>11, <1>12, <2>1, GoodGrows DEF Agreed
  <2>3. ASSUME NEW u \in Turn, turns'[u].at = "routed"
        PROVE  Good(turns'[u].base, Over') \/ \E v \in Begun' \ {u} : v \notin turns'[u].before
    <3>1. turns'[u] = turns[u]
      BY <2>1, <2>3
    <3>2. Good(turns[u].base, Over) => Good(turns[u].base, Over')
      BY <1>11, GoodGrows
    <3> QED BY <1>9, <1>12, <2>3, <3>1, <3>2 DEF Agreed
  <2>4. Good(snap', Over')
    <3>1. PICK s : s = [messages |-> SavedMessages(t), transcript |-> SavedTranscript(t)]
      OBVIOUS
    <3>2. snap' = s
      BY <3>1 DEF SaveSession
    <3>3. Good(turns[t].base, Over)
      BY <1>1, <1>3, <1>12 DEF Agreed, Writing
    <3>4. Good(s, Over \cup {t})
      BY <1>1, <1>3, <1>11, <3>1, <3>3, SavedGood
    <3> QED BY <1>11, <3>2, <3>4
  <2> QED BY <2>2, <2>3, <2>4 DEF Agreed
<1>13. Alone' => Agreed'
  BY <1>9, <1>12 DEF ContentInv
<1> QED BY <1>9, <1>13 DEF ContentInv

LEMMA SaveRunSnapshotKeepsInv ==
  ASSUME ContentInv, NEW t \in Turn, SaveRunSnapshot(t)
  PROVE  ContentInv'
<1>1. PICK old : old = turns[t]
  OBVIOUS
<1>2. PICK r : r = [old EXCEPT !.at = "done", !.base = Empty]
  OBVIOUS
<1>3. /\ old.at = "saved" /\ TurnFits(old, t) /\ turns = [u \in Turn |-> turns[u]] /\ old.before \subseteq Done
      /\ snap' = snap
  BY <1>1 DEF SaveRunSnapshot, ContentInv
<1>4. r = [at |-> "done", text |-> old.text, kind |-> old.kind, base |-> Empty, items |-> old.items,
           ended |-> old.ended, saved |-> old.saved, blind |-> old.blind, before |-> old.before]
  BY <1>2, <1>3 DEF TurnFits
<1>5. turns' = [turns EXCEPT ![t] = r]
  BY <1>1, <1>2, <1>3 DEF SaveRunSnapshot
<1>6. MovesTo(t, r)
  BY <1>3, <1>5 DEF MovesTo
<1>7. TurnFits(r, t)
  BY <1>3, <1>4 DEF TurnFits, Early, Writing
<1>8. r.at = "done" /\ r.before = old.before
  BY <1>4
<1>9. /\ turns' = [u \in Turn |-> turns'[u]]
      /\ \A u \in Turn : TurnFits(turns'[u], u) /\ turns'[u].before \subseteq Done'
      /\ Begun \subseteq Begun' /\ (Alone' => Alone)
  BY <1>1, <1>3, <1>6, <1>7, <1>8, TurnMoves
<1>10. turns'[t] = r /\ \A u \in Turn \ {t} : turns'[u] = turns[u]
  BY <1>6, MovedTurns
<1>11. Over' = Over
  BY <1>1, <1>3, <1>8, <1>10 DEF Over
<1>12. ASSUME Agreed PROVE Agreed'
  <2>1. \A u \in Turn : turns'[u].at \in Writing \cup {"routed"} => u # t /\ turns'[u] = turns[u]
    BY <1>8, <1>10 DEF Writing
  <2>2. \A u \in Turn : turns'[u].at \in Writing => Good(turns'[u].base, Over')
    BY <1>11, <1>12, <2>1 DEF Agreed
  <2>3. \A u \in Turn : turns'[u].at = "routed" =>
          Good(turns'[u].base, Over') \/ \E v \in Begun' \ {u} : v \notin turns'[u].before
    BY <1>9, <1>11, <1>12, <2>1 DEF Agreed
  <2>4. ASSUME \A u \in Turn : turns'[u].at \notin Writing PROVE Good(snap', Over')
    <3>1. \A u \in Turn : turns[u].at \notin Writing
      BY <1>1, <1>3, <1>10, <2>4 DEF Writing
    <3> QED BY <1>3, <1>11, <1>12, <3>1 DEF Agreed
  <2> QED BY <2>2, <2>3, <2>4 DEF Agreed
<1>13. Alone' => Agreed'
  BY <1>9, <1>12 DEF ContentInv
<1> QED BY <1>9, <1>13 DEF ContentInv

LEMMA RestartKeepsInv ==
  ASSUME ContentInv, ServerRestarts
  PROVE  ContentInv'
<1>0. PICK Lost : Lost = {t \in InFlight : turns[t].at # "routed"}
  OBVIOUS
<1>1. /\ snap' = snap /\ turns' = [u \in Turn |-> turns'[u]]
      /\ \A u \in Turn : u \notin InFlight => turns'[u] = turns[u]
      /\ \A u \in InFlight : turns[u].at = "routed" => turns'[u] = NoTurn
      /\ \A u \in Lost : turns'[u] = [turns[u] EXCEPT !.at = "done", !.ended = "lost", !.base = Empty]
  BY <1>0 DEF ServerRestarts, InFlight
<1>2. \A u \in Turn : TurnFits(turns[u], u) /\ turns[u].before \subseteq Done
  BY DEF ContentInv
<1>3. NoTurn.at = "idle" /\ NoTurn.before = {} /\ \A t : TurnFits(NoTurn, t)
  <2>1. \A t : Own(<<>>, t) /\ Len(<<>>) = 0
    BY OwnEmpty
  <2> QED BY <2>1 DEF NoTurn, TurnFits, Early, Writing
<1>4. ASSUME NEW u \in Lost
      PROVE  /\ TurnFits(turns'[u], u) /\ turns'[u].before = turns[u].before
             /\ turns'[u].at = "done" /\ turns'[u].ended = "lost" /\ u \in Turn
  <2>1. u \in Turn /\ TurnFits(turns[u], u)
    BY <1>0, <1>2 DEF InFlight
  <2>2. PICK old : old = turns[u]
    OBVIOUS
  <2>3. PICK r : r = turns'[u]
    OBVIOUS
  <2>4. r = [at |-> "done", text |-> old.text, kind |-> old.kind, base |-> Empty, items |-> old.items,
             ended |-> "lost", saved |-> old.saved, blind |-> old.blind, before |-> old.before]
    BY <1>1, <2>1, <2>2, <2>3 DEF TurnFits
  <2>5. TurnFits(r, u)
    BY <2>1, <2>2, <2>4 DEF TurnFits, Early, Writing
  <2> QED BY <2>1, <2>2, <2>3, <2>4, <2>5
<1>5. \A u \in Turn : u \notin InFlight \/ turns[u].at = "routed" \/ u \in Lost
  BY <1>0 DEF InFlight
<1>6. Done \subseteq Done'
  BY <1>1 DEF Done, InFlight
<1>7. \A u \in Turn : TurnFits(turns'[u], u) /\ turns'[u].before \subseteq Done'
  BY <1>1, <1>2, <1>3, <1>4, <1>5, <1>6 DEF InFlight
<1>8. CASE Lost # {}
  <2>1. Faulty' # {}
    BY <1>4, <1>8 DEF Faulty
  <2> QED BY <1>1, <1>7, <2>1 DEF ContentInv, Alone
<1>9. CASE Lost = {}
  <2>1. \A u \in Turn : turns'[u] = turns[u] \/ (turns[u].at = "routed" /\ turns'[u] = NoTurn)
    BY <1>1, <1>5, <1>9 DEF InFlight
  <2>2. \A u \in Turn : turns[u].at \notin Writing /\ turns'[u].at \notin Writing /\ turns'[u].at # "routed"
    BY <1>0, <1>1, <1>3, <1>9, <2>1 DEF InFlight, Writing
  <2>3. Over' = Over
    BY <1>3, <2>1 DEF Over
  <2>4. Begun' = Begun /\ \A u \in Begun : turns'[u] = turns[u]
    BY <1>3, <2>1 DEF Begun
  <2>5. Faulty \subseteq Faulty'
    <3>1. \A u \in Turn : turns[u].at = "routed" => u \notin Faulty
      BY <1>2, NotFaulty
    <3> QED BY <2>1, <3>1 DEF Faulty
  <2>6. Alone' => Alone
    BY <2>4, <2>5 DEF Alone, TurnsOverlap
  <2>7. Agreed => Agreed'
    BY <1>1, <2>2, <2>3 DEF Agreed
  <2> QED BY <1>1, <1>7, <2>6, <2>7 DEF ContentInv
<1> QED BY <1>8, <1>9

LEMMA SameTurnsKeepInv ==
  ASSUME ContentInv, turns' = turns, snap' = snap
  PROVE  ContentInv'
<1>1. Over' = Over /\ Done' = Done /\ Begun' = Begun /\ Faulty' = Faulty
  BY DEF Over, Done, Begun, Faulty
<1>2. Alone' = Alone
  BY <1>1 DEF Alone, TurnsOverlap
<1>3. Agreed' = Agreed
  BY <1>1 DEF Agreed
<1> QED BY <1>1, <1>2, <1>3 DEF ContentInv

LEMMA ContentInvInit ==
  ASSUME ContentInit
  PROVE  ContentInv
<1>1. snap = Empty /\ turns = [t \in Turn |-> NoTurn]
  BY DEF ContentInit
<1>2. NoTurn.at = "idle" /\ NoTurn.before = {} /\ \A t : TurnFits(NoTurn, t)
  <2>1. \A t : Own(<<>>, t) /\ Len(<<>>) = 0
    BY OwnEmpty
  <2> QED BY <2>1 DEF NoTurn, TurnFits, Early, Writing
<1>3. Agreed
  BY <1>1, <1>2, GoodEmpty DEF Agreed, Writing
<1> QED BY <1>1, <1>2, <1>3 DEF ContentInv

LEMMA ContentInvNext ==
  ASSUME ContentInv, [ContentNext]_contentVars
  PROVE  ContentInv'
<1>1. CASE MoveToBucket
  BY <1>1, SameTurnsKeepInv DEF MoveToBucket
<1>2. CASE ServerRestarts
  BY <1>2, RestartKeepsInv
<1>3. ASSUME NEW t \in Turn, NEW text \in UserText \cup {NoText}, NEW kind \in {"message", "reset", "resume"},
             Route(t, kind, text)
      PROVE  ContentInv'
  BY <1>3, RouteKeepsInv
<1>5. ASSUME NEW t \in Turn, Stage(t) \/ Snapshot(t) \/ EmitStep(t) \/ \E type \in NoteType : EmitNote(t, type)
      PROVE  ContentInv'
  BY <1>5, StageKeepsInv, SnapshotKeepsInv, EmitKeepsInv
<1>6. ASSUME NEW t \in Turn, NEW how \in WithAnswer \cup {"question", "paused"}, EmitResult(t, how)
      PROVE  ContentInv'
  BY <1>6, ResultKeepsInv
<1>7. ASSUME NEW t \in Turn, SaveSession(t) \/ SaveRunSnapshot(t) \/ Breaks(t)
      PROVE  ContentInv'
  BY <1>7, SaveSessionKeepsInv, SaveRunSnapshotKeepsInv, BreaksKeepsInv
<1>8. CASE UNCHANGED contentVars
  BY <1>8, SameTurnsKeepInv DEF contentVars
<1> QED BY <1>1, <1>2, <1>3, <1>5, <1>6, <1>7, <1>8 DEF ContentNext

\* However turns write the session, the invariant holds of it.
THEOREM ContentInvAlways == ContentSpec => []ContentInv
<1>1. ContentInit => ContentInv
  BY ContentInvInit
<1>2. ContentInv /\ [ContentNext]_contentVars => ContentInv'
  BY ContentInvNext
<1> QED BY <1>1, <1>2, PTL DEF ContentSpec

\* When turns that did not overlap are over, the messages of the session are what its
\* transcript tells but for its remarks, with the summary for a generic answer.
THEOREM RecordsAgreeAlways == ContentSpec => []RecordsAgree
<1>1. ContentInv => RecordsAgree
  <2> SUFFICES ASSUME ContentInv, Undisturbed PROVE Conversation(snap.transcript) = snap.messages
    BY DEF RecordsAgree
  <2>1. Alone
    BY DEF Undisturbed, Alone
  <2>2. \A t \in Turn : turns[t].at \notin Writing
    BY DEF Undisturbed, InFlight, Writing
  <2>3. Good(snap, Over)
    BY <2>1, <2>2 DEF ContentInv, Agreed
  <2> QED BY <2>3 DEF Good
<1> QED BY <1>1, ContentInvAlways, PTL

-----------------------------------------------------------------------------
(* The items of a timeline that are in a set                               *)

LEMMA WithSet ==
  ASSUME NEW s, Listed(s), NEW x
  PROVE  ToSet(With(s, x)) = ToSet(s) \cup {x}
<1>1. PICK q : q = With(s, x)
  OBVIOUS
<1>2. /\ Listed(q) /\ Len(q) = Len(s) + 1 /\ q[Len(s) + 1] = x /\ \A k \in 1..Len(s) : q[k] = s[k]
      /\ \A k \in 1..Len(q) : k = Len(s) + 1 \/ k \in 1..Len(s)
  BY <1>1, WithPlaces
<1>3. DOMAIN s = 1..Len(s) /\ DOMAIN q = 1..Len(q) /\ Len(s) \in Nat
  BY <1>2, ListedPlaces
<1>4. ASSUME NEW k \in DOMAIN q PROVE q[k] \in ToSet(s) \cup {x}
  BY <1>2, <1>3 DEF ToSet
<1>5. ASSUME NEW k \in DOMAIN s PROVE s[k] \in ToSet(q)
  <2>1. k \in DOMAIN q /\ q[k] = s[k]
    BY <1>2, <1>3
  <2> QED BY <2>1 DEF ToSet
<1>6. x \in ToSet(q)
  <2>1. Len(s) + 1 \in DOMAIN q
    BY <1>2, <1>3
  <2> QED BY <1>2, <2>1 DEF ToSet
<1> QED BY <1>1, <1>4, <1>5, <1>6 DEF ToSet

LEMMA FlattenWith ==
  ASSUME NEW ss, Listed(ss), \A k \in 1..Len(ss) : Listed(ss[k]), NEW x, Listed(x)
  PROVE  FlattenSeq(With(ss, x)) = Joined(FlattenSeq(ss), x) /\ Listed(FlattenSeq(ss))
<1>0. PICK n \in Nat : n = Len(ss)
  BY ListedPlaces
<1>1. PICK tt : tt = With(ss, x)
  OBVIOUS
<1>2. /\ Listed(tt) /\ Len(tt) = n + 1 /\ tt[n + 1] = x /\ \A k \in 1..n : tt[k] = ss[k]
      /\ \A k \in 1..Len(tt) : k = n + 1 \/ k \in 1..n
  BY <1>0, <1>1, WithPlaces
<1>3. n + 1 \in Nat /\ \A k \in 1..n + 1 : Listed(tt[k])
  BY <1>0, <1>2
<1>4. PICK g : g[0] = <<>> /\ FlattenSeq(ss) = g[n] /\ \A m \in 1..n : g[m] = g[m - 1] \o ss[m]
  BY <1>0, FlattenPlaces
<1>5. PICK h : h[0] = <<>> /\ FlattenSeq(tt) = h[n + 1] /\ \A m \in 1..n + 1 : h[m] = h[m - 1] \o tt[m]
  BY <1>2, <1>3, FlattenPlaces
<1> DEFINE G == {m \in 0..n : h[m] = g[m] /\ Listed(g[m])}
<1>6. 0 \in G
  <2>1. h[0] = g[0] /\ Listed(g[0])
    BY <1>4, <1>5, ListedShort
  <2> QED BY <1>0, <2>1
<1>7. ASSUME NEW m \in 1..n, m - 1 \in G PROVE m \in G
  <2>1. h[m - 1] = g[m - 1] /\ Listed(g[m - 1])
    BY <1>7
  <2>2. PICK p, y : p = g[m - 1] /\ y = ss[m]
    OBVIOUS
  <2>3. m \in 1..n + 1 /\ Listed(y)
    BY <1>0, <2>2
  <2>4. g[m] = Joined(p, y)
    BY <1>4, <2>2 DEF Joined
  <2>5. h[m] = Joined(p, y)
    BY <1>2, <1>5, <2>1, <2>2, <2>3 DEF Joined
  <2>6. Listed(Joined(p, y))
    BY <2>1, <2>2, <2>3, JoinedPlaces DEF IsJoin
  <2> QED BY <1>0, <2>4, <2>5, <2>6
<1> HIDE DEF G
<1>8. n \in G
  <2>1. \A m \in 0..n : m \in G
    BY <1>0, <1>6, <1>7, Counted
  <2> QED BY <1>0, <2>1
<1>9. h[n] = g[n] /\ Listed(g[n])
  BY <1>8 DEF G
<1>10. h[n + 1] = Joined(h[n], x)
  <2>1. n + 1 \in 1..n + 1 /\ (n + 1) - 1 = n
    BY <1>0
  <2> QED BY <1>2, <1>5, <2>1 DEF Joined
<1> QED BY <1>1, <1>4, <1>5, <1>9, <1>10

Picked(s, S) == FlattenSeq([k \in DOMAIN s |-> IF s[k] \in S THEN <<s[k]>> ELSE <<>>])

LEMMA PickedWith ==
  ASSUME NEW s, Listed(s), NEW x, NEW S
  PROVE  /\ Picked(With(s, x), S) = IF x \in S THEN With(Picked(s, S), x) ELSE Picked(s, S)
         /\ Listed(Picked(s, S))
<1>0. PICK n \in Nat : n = Len(s)
  BY ListedPlaces
<1>1. PICK q : q = With(s, x)
  OBVIOUS
<1>2. /\ Listed(q) /\ Len(q) = n + 1 /\ q[n + 1] = x /\ \A k \in 1..n : q[k] = s[k]
      /\ \A k \in 1..Len(q) : k = n + 1 \/ k \in 1..n
  BY <1>0, <1>1, WithPlaces
<1>3. DOMAIN s = 1..n /\ DOMAIN q = 1..n + 1
  BY <1>0, <1>2, ListedPlaces
<1>4. PICK ss : ss = [k \in 1..n |-> IF s[k] \in S THEN <<s[k]>> ELSE <<>>]
  OBVIOUS
<1>5. PICK y : y = IF x \in S THEN <<x>> ELSE <<>>
  OBVIOUS
<1>6. Listed(ss) /\ Len(ss) = n
  <2>1. IsList(ss, n)
    BY <1>4 DEF IsList
  <2> QED BY <1>0, <2>1, ListedOf
<1>7. Listed(y) /\ \A k \in 1..n : Listed(ss[k])
  BY <1>4, <1>5, ListedShort
<1>8. PICK tt : tt = With(ss, y)
  OBVIOUS
<1>9. /\ Listed(tt) /\ Len(tt) = n + 1 /\ tt[n + 1] = y /\ \A k \in 1..n : tt[k] = ss[k]
  BY <1>6, <1>8, WithPlaces
<1>10. tt = [k \in 1..n + 1 |-> IF q[k] \in S THEN <<q[k]>> ELSE <<>>]
  <2>1. tt = [k \in 1..n + 1 |-> tt[k]]
    BY <1>9, ListedPlaces
  <2>2. \A k \in 1..n + 1 : tt[k] = IF q[k] \in S THEN <<q[k]>> ELSE <<>>
    BY <1>2, <1>4, <1>5, <1>9
  <2> QED BY <2>1, <2>2
<1>11. Picked(s, S) = FlattenSeq(ss) /\ Picked(q, S) = FlattenSeq(tt)
  BY <1>3, <1>4, <1>10 DEF Picked
<1>12. FlattenSeq(tt) = Joined(FlattenSeq(ss), y) /\ Listed(FlattenSeq(ss))
  BY <1>6, <1>7, <1>8, FlattenWith
<1>13. PICK p : p = Picked(s, S)
  OBVIOUS
<1>14. Listed(p) /\ Picked(q, S) = Joined(p, y)
  BY <1>11, <1>12, <1>13
<1>15. x \in S => Joined(p, y) = With(p, x)
  BY <1>5, <1>14, ListedAppend DEF Joined, With
<1>16. x \notin S => Joined(p, y) = p
  BY <1>5, <1>14 DEF Joined, Listed
<1> QED BY <1>1, <1>13, <1>14, <1>15, <1>16

LEMMA PickedNothing ==
  ASSUME NEW S
  PROVE  Picked(<<>>, S) = <<>>
<1>1. [k \in DOMAIN <<>> |-> IF <<>>[k] \in S THEN <<<<>>[k]>> ELSE <<>>] = <<>>
  OBVIOUS
<1>2. FlattenSeq(<<>>) = <<>>
  BY DEF FlattenSeq
<1> QED BY <1>1, <1>2 DEF Picked

LEMMA JoinedWith ==
  ASSUME NEW s, Listed(s), NEW t, Listed(t), NEW x
  PROVE  Joined(s, With(t, x)) = With(Joined(s, t), x)
<1>1. PICK S : s \in Seq(S) /\ t \in Seq(S)
  BY ListedBoth
<1>2. PICK U : U = S \cup {x}
  OBVIOUS
<1>3. s \in Seq(U) /\ t \in Seq(U) /\ x \in U
  BY <1>1, <1>2
<1> QED BY <1>3, AppendIsConcat, ConcatAssociative DEF Joined, With

LEMMA JoinedTwice ==
  ASSUME NEW s, Listed(s), NEW t, Listed(t), NEW u, Listed(u)
  PROVE  Joined(Joined(s, t), u) = Joined(s, Joined(t, u))
<1>1. PICK S : s \in Seq(S) /\ t \in Seq(S)
  BY ListedBoth
<1>2. PICK W : W = S \cup ToSet(u)
  OBVIOUS
<1>3. s \in Seq(W) /\ t \in Seq(W) /\ u \in Seq(W)
  <2>1. S \subseteq W /\ ToSet(u) \subseteq W
    BY <1>2
  <2>2. u \in Seq(ToSet(u))
    BY DEF Listed
  <2> QED BY <1>1, <2>1, <2>2, SeqMonotonic
<1> QED BY <1>3, ConcatAssociative DEF Joined

LEMMA JoinedNothing ==
  ASSUME NEW s, Listed(s)
  PROVE  Joined(s, <<>>) = s /\ Joined(<<>>, s) = s
BY DEF Joined, Listed

LEMMA PickedJoined ==
  ASSUME NEW s, Listed(s), NEW t, Listed(t), NEW S
  PROVE  Picked(Joined(s, t), S) = Joined(Picked(s, S), Picked(t, S))
<1>0. PICK n \in Nat : n = Len(t)
  BY ListedPlaces
<1>1. PICK p : p = Picked(s, S)
  OBVIOUS
<1>2. Listed(p)
  BY <1>1, PickedWith
<1> DEFINE G == {m \in 0..n : Picked(Joined(s, First(t, m)), S) = Joined(p, Picked(First(t, m), S))}
<1>3. 0 \in G
  <2>1. First(t, 0) = <<>>
    BY DEF First
  <2>2. Picked(Joined(s, First(t, 0)), S) = p
    BY <1>1, <2>1, JoinedNothing
  <2>3. Joined(p, Picked(First(t, 0), S)) = p
    BY <1>2, <2>1, PickedNothing, JoinedNothing
  <2> QED BY <1>0, <2>2, <2>3
<1>4. ASSUME NEW m \in 1..n, m - 1 \in G PROVE m \in G
  <2>1. PICK f, x : f = First(t, m - 1) /\ x = t[m]
    OBVIOUS
  <2>2. Listed(f) /\ First(t, m) = With(f, x) /\ Picked(Joined(s, f), S) = Joined(p, Picked(f, S))
    BY <1>0, <1>4, <2>1, FirstGrows DEF With
  <2>3. Joined(s, With(f, x)) = With(Joined(s, f), x) /\ Listed(Joined(s, f)) /\ Listed(Picked(f, S))
    <3>1. Listed(f)
      BY <2>2
    <3>2. Joined(s, With(f, x)) = With(Joined(s, f), x)
      BY <3>1, JoinedWith
    <3>3. Listed(Joined(s, f))
      BY <3>1, JoinedPlaces DEF IsJoin
    <3>4. Listed(Picked(f, S))
      BY <3>1, PickedWith
    <3> QED BY <3>2, <3>3, <3>4
  <2>4. CASE x \in S
    <3>1. Picked(With(Joined(s, f), x), S) = With(Picked(Joined(s, f), S), x)
      BY <2>3, <2>4, PickedWith
    <3>2. Picked(With(f, x), S) = With(Picked(f, S), x)
      BY <2>2, <2>4, PickedWith
    <3>3. Joined(p, With(Picked(f, S), x)) = With(Joined(p, Picked(f, S)), x)
      BY <1>2, <2>3, JoinedWith
    <3>4. Picked(Joined(s, First(t, m)), S) = Joined(p, Picked(First(t, m), S))
      BY <2>2, <2>3, <3>1, <3>2, <3>3
    <3> QED BY <1>0, <3>4
  <2>5. CASE x \notin S
    <3>1. Picked(With(Joined(s, f), x), S) = Picked(Joined(s, f), S)
      BY <2>3, <2>5, PickedWith
    <3>2. Picked(With(f, x), S) = Picked(f, S)
      BY <2>2, <2>5, PickedWith
    <3>3. Picked(Joined(s, First(t, m)), S) = Joined(p, Picked(First(t, m), S))
      BY <2>2, <2>3, <3>1, <3>2
    <3> QED BY <1>0, <3>3
  <2> QED BY <2>4, <2>5
<1> HIDE DEF G
<1>5. n \in G
  <2>1. \A m \in 0..n : m \in G
    BY <1>0, <1>3, <1>4, Counted
  <2> QED BY <1>0, <2>1
<1>6. First(t, n) = t
  BY <1>0, ListedPlaces DEF First
<1> QED BY <1>1, <1>5, <1>6 DEF G

LEMMA PickedAll ==
  ASSUME NEW s, Listed(s), NEW S, \A k \in 1..Len(s) : s[k] \in S
  PROVE  Picked(s, S) = s
<1>1. PICK ss : ss = [k \in DOMAIN s |-> <<s[k]>>]
  OBVIOUS
<1>2. Picked(s, S) = FlattenSeq(ss)
  BY <1>1, ListedPlaces DEF Picked
<1> QED BY <1>1, <1>2, FlattenSingles

LEMMA PickedNone ==
  ASSUME NEW s, Listed(s), NEW S, \A k \in 1..Len(s) : s[k] \notin S
  PROVE  Picked(s, S) = <<>>
<1>0. PICK n \in Nat : n = Len(s)
  BY ListedPlaces
<1> DEFINE G == {m \in 0..n : Picked(First(s, m), S) = <<>>}
<1>1. 0 \in G
  <2>1. First(s, 0) = <<>>
    BY DEF First
  <2> QED BY <1>0, <2>1, PickedNothing
<1>2. ASSUME NEW m \in 1..n, m - 1 \in G PROVE m \in G
  <2>1. PICK f, x : f = First(s, m - 1) /\ x = s[m]
    OBVIOUS
  <2>2. Listed(f) /\ First(s, m) = With(f, x) /\ Picked(f, S) = <<>> /\ x \notin S
    BY <1>0, <1>2, <2>1, FirstGrows DEF With
  <2>3. Picked(First(s, m), S) = <<>>
    BY <2>2, PickedWith
  <2> QED BY <1>0, <2>3
<1> HIDE DEF G
<1>3. n \in G
  <2>1. \A m \in 0..n : m \in G
    BY <1>0, <1>1, <1>2, Counted
  <2> QED BY <1>0, <2>1
<1>4. First(s, n) = s
  BY <1>0, ListedPlaces DEF First
<1> QED BY <1>3, <1>4 DEF G

LEMMA PickedIn ==
  ASSUME NEW s, Listed(s), NEW S
  PROVE  \A e \in ToSet(Picked(s, S)) : e \in S /\ e \in ToSet(s)
<1>0. PICK n \in Nat : n = Len(s)
  BY ListedPlaces
<1> DEFINE G == {m \in 0..n : \A e \in ToSet(Picked(First(s, m), S)) : e \in S /\ e \in ToSet(s)}
<1>1. 0 \in G
  <2>1. First(s, 0) = <<>>
    BY DEF First
  <2>2. Picked(First(s, 0), S) = <<>>
    BY <2>1, PickedNothing
  <2>3. ToSet(<<>>) = {}
    BY DEF ToSet
  <2> QED BY <1>0, <2>2, <2>3
<1>2. ASSUME NEW m \in 1..n, m - 1 \in G PROVE m \in G
  <2>1. PICK f, x, p : f = First(s, m - 1) /\ x = s[m] /\ p = Picked(f, S)
    OBVIOUS
  <2>2. Listed(f) /\ First(s, m) = With(f, x) /\ \A e \in ToSet(p) : e \in S /\ e \in ToSet(s)
    BY <1>0, <1>2, <2>1, FirstGrows DEF With
  <2>3. x \in ToSet(s)
    BY <1>0, <2>1, ListedPlaces DEF ToSet
  <2>4. Listed(p) /\ Picked(With(f, x), S) = IF x \in S THEN With(p, x) ELSE p
    BY <2>1, <2>2, PickedWith
  <2>5. \A e \in ToSet(With(p, x)) : e = x \/ e \in ToSet(p)
    BY <2>4, WithSet
  <2>6. \A e \in ToSet(Picked(First(s, m), S)) : e \in S /\ e \in ToSet(s)
    BY <2>2, <2>3, <2>4, <2>5
  <2> QED BY <1>0, <2>6
<1> HIDE DEF G
<1>3. n \in G
  <2>1. \A m \in 0..n : m \in G
    BY <1>0, <1>1, <1>2, Counted
  <2> QED BY <1>0, <2>1
<1>4. First(s, n) = s
  BY <1>0, ListedPlaces DEF First
<1> QED BY <1>3, <1>4 DEF G

LEMMA WithoutStepsIsPicked ==
  ASSUME NEW s, Listed(s), NEW S, \A k \in 1..Len(s) : s[k] \in S <=> s[k].type # "workflow_step"
  PROVE  WithoutSteps(s) = Picked(s, S)
<1>1. PICK ss : ss = [k \in DOMAIN s |-> IF s[k] \in S THEN <<s[k]>> ELSE <<>>]
  OBVIOUS
<1>2. \A k \in DOMAIN s : s[k] \in S <=> s[k].type # "workflow_step"
  BY ListedPlaces
<1>3. ss = [k \in DOMAIN s |-> IF s[k].type # "workflow_step" THEN <<s[k]>> ELSE <<>>]
  BY <1>1, <1>2
<1> QED BY <1>1, <1>3 DEF WithoutSteps, Picked, Only

LEMMA JoinedSet ==
  ASSUME NEW s, Listed(s), NEW t, Listed(t)
  PROVE  /\ \A k \in 1..Len(s) : s[k] \in ToSet(s) \cup ToSet(t)
         /\ \A k \in 1..Len(t) : t[k] \in ToSet(s) \cup ToSet(t)
         /\ \A k \in 1..Len(Joined(s, t)) : Joined(s, t)[k] \in ToSet(s) \cup ToSet(t)
<1>1. PICK z : z = Joined(s, t)
  OBVIOUS
<1>2. DOMAIN s = 1..Len(s) /\ DOMAIN t = 1..Len(t)
  BY ListedPlaces
<1>3. \A k \in 1..Len(s) : s[k] \in ToSet(s)
  BY <1>2 DEF ToSet
<1>4. \A k \in 1..Len(t) : t[k] \in ToSet(t)
  BY <1>2 DEF ToSet
<1>5. ASSUME NEW k \in 1..Len(z) PROVE z[k] \in ToSet(s) \cup ToSet(t)
  <2>1. /\ \A l \in 1..Len(s) : z[l] = s[l]
        /\ \A l \in 1..Len(t) : z[Len(s) + l] = t[l]
        /\ k \in 1..Len(s) \/ \E l \in 1..Len(t) : k = Len(s) + l
    <3>1. IsJoin(z, s, t)
      BY <1>1, JoinedPlaces
    <3> QED BY <3>1 DEF IsJoin
  <2> QED BY <1>3, <1>4, <2>1
<1> QED BY <1>1, <1>3, <1>4, <1>5

LEMMA WithoutStepsJoined ==
  ASSUME NEW s, Listed(s), NEW t, Listed(t)
  PROVE  WithoutSteps(Joined(s, t)) = Joined(WithoutSteps(s), WithoutSteps(t))
<1>1. PICK S : S = {e \in ToSet(s) \cup ToSet(t) : e.type # "workflow_step"}
  OBVIOUS
<1>2. Listed(Joined(s, t))
  BY JoinedPlaces DEF IsJoin
<1>3. WithoutSteps(s) = Picked(s, S)
  BY <1>1, JoinedSet, WithoutStepsIsPicked
<1>4. WithoutSteps(t) = Picked(t, S)
  BY <1>1, JoinedSet, WithoutStepsIsPicked
<1>5. WithoutSteps(Joined(s, t)) = Picked(Joined(s, t), S)
  BY <1>1, <1>2, JoinedSet, WithoutStepsIsPicked
<1> QED BY <1>3, <1>4, <1>5, PickedJoined

LEMMA FirstIsMin ==
  ASSUME NEW n \in Nat, NEW T \in SUBSET Nat, n \in T, \A y \in T : n <= y
  PROVE  Min(T) = n
<1>1. \A x \in T : (\A y \in T : x <= y) => x = n
  OBVIOUS
<1> QED BY <1>1 DEF Min

LEMMA WordsBehind ==
  ASSUME NEW t, NEW s, Keyed(s), \A k \in 1..Len(s) : s[k].key # <<"message", t>>
  PROVE  WithUserMessage(s, t) = IF turns[t].text = NoText THEN s ELSE With(s, UserMessage(t))
<1>1. PICK x : x = UserMessage(t)
  OBVIOUS
<1>2. x.key = <<"message", t>>
  BY <1>1 DEF UserMessage, Item
<1>3. x.key # NoKey
  <2>1. Len(x.key) = 2 /\ Len(NoKey) = 0
    BY <1>2 DEF NoKey
  <2> QED BY <2>1
<1>4. Keyed(With(s, x))
  BY <1>2, <1>3, KeyedWith
<1>5. turns[t].text # NoText => WithUserMessage(s, t) = Dedupe(With(s, x))
  BY <1>1 DEF WithUserMessage, AppendItem, With
<1>6. Dedupe(With(s, x)) = With(s, x)
  BY <1>4, KeyedDedupe
<1>7. turns[t].text = NoText => WithUserMessage(s, t) = s
  BY DEF WithUserMessage
<1> QED BY <1>1, <1>5, <1>6, <1>7

-----------------------------------------------------------------------------
(* What the desktop is given                                               *)

\* The session's transcript ends with what the turn said.
EndsWith(t, read) ==
  /\ Keyed(read) /\ Own(turns[t].items, t)
  /\ \A k \in 1..Len(read) : read[k].type # "workflow_step" /\ ~BelongsTo(read[k], t)
  /\ snap.transcript = Joined(WithUserMessage(read, t), WithoutSteps(turns[t].items))

\* It is read, then a tail that belongs to the turn.
LEMMA TailOfTurn ==
  ASSUME NEW t, NEW read, EndsWith(t, read)
  PROVE  LET w == WithoutSteps(turns[t].items)
         IN \E tail :
              /\ snap.transcript = Joined(read, tail) /\ Listed(tail)
              /\ \A k \in 1..Len(tail) : BelongsTo(tail[k], t) /\ tail[k].type # "workflow_step"
              /\ turns[t].text = NoText => tail = w /\ \A k \in 1..Len(tail) : tail[k].key # <<"message", t>>
              /\ turns[t].text # NoText =>
                   /\ Len(tail) > 0 /\ tail[1].key = <<"message", t>>
                   /\ \A k \in 1..Len(tail) : tail[k].key = <<"message", t>> => k = 1
                   /\ tail = Joined(<<UserMessage(t)>>, w)
<1>1. PICK w, items : w = WithoutSteps(items) /\ items = turns[t].items
  OBVIOUS
<1>2. Listed(read) /\ Keyed(read) /\ Own(items, t)
  BY <1>1 DEF EndsWith, Keyed
<1>3. /\ Keyed(items)
      /\ \A n \in 1..Len(items) : BelongsTo(items[n], t) /\ items[n].key # <<"message", t>>
  BY <1>2, ItemsKeyed
<1>4. /\ Listed(w)
      /\ \A k \in 1..Len(w) : \E j \in 1..Len(items) : w[k] = items[j] /\ items[j].type # "workflow_step"
  <2>1. PICK n \in Nat : n = Len(items)
    BY <1>3, ListedPlaces DEF Keyed
  <2>2. PICK g : w = g[n] /\ Leaving(g, items, n)
    BY <1>1, <1>3, <2>1, WithoutStepsPlaces
  <2> QED BY <2>1, <2>2 DEF Leaving, Keyed
<1>5. \A k \in 1..Len(w) : BelongsTo(w[k], t) /\ w[k].key # <<"message", t>> /\ w[k].type # "workflow_step"
  BY <1>3, <1>4
<1>6. \A k \in 1..Len(read) : read[k].key # <<"message", t>>
  <2>1. Len(<<"message", t>>) > 1 /\ <<"message", t>>[2] = t
    OBVIOUS
  <2> QED BY <2>1 DEF EndsWith, BelongsTo
<1>7. snap.transcript = Joined(IF turns[t].text = NoText THEN read ELSE With(read, UserMessage(t)), w)
  BY <1>1, <1>2, <1>6, WordsBehind DEF EndsWith
<1>8. CASE turns[t].text = NoText
  BY <1>1, <1>4, <1>5, <1>7, <1>8
<1>9. CASE turns[t].text # NoText
  <2>1. PICK x, one : x = UserMessage(t) /\ one = <<x>>
    OBVIOUS
  <2>2. x.key = <<"message", t>> /\ x.type = "user_message" /\ BelongsTo(x, t)
    BY <2>1 DEF UserMessage, Item, BelongsTo
  <2>3. Listed(one) /\ Len(one) = 1 /\ one[1] = x
    BY <2>1, ListedShort
  <2>4. PICK tail : tail = Joined(one, w)
    OBVIOUS
  <2>5. /\ Listed(tail) /\ Len(tail) = 1 + Len(w) /\ tail[1] = x
        /\ \A k \in 1..Len(w) : tail[1 + k] = w[k]
        /\ \A k \in 1..Len(tail) : k = 1 \/ \E j \in 1..Len(w) : k = 1 + j
    <3>1. /\ Listed(tail) /\ Len(tail) = Len(one) + Len(w)
          /\ \A k \in 1..Len(one) : tail[k] = one[k]
          /\ \A k \in 1..Len(w) : tail[Len(one) + k] = w[k]
          /\ \A k \in 1..Len(tail) : k \in 1..Len(one) \/ \E j \in 1..Len(w) : k = Len(one) + j
      <4>1. IsJoin(tail, one, w)
        BY <1>4, <2>3, <2>4, JoinedPlaces
      <4> QED BY <4>1 DEF IsJoin
    <3>2. Len(one) = 1 /\ 1 \in 1..Len(one) /\ one[1] = x
      BY <2>3
    <3>3. tail[1] = x
      BY <3>1, <3>2
    <3>4. \A k \in 1..Len(tail) : k = 1 \/ \E j \in 1..Len(w) : k = 1 + j
      BY <3>1, <3>2
    <3> QED BY <3>1, <3>2, <3>3, <3>4
  <2>6. Len(w) \in Nat
    BY <1>4, ListedPlaces
  <2>7. ASSUME NEW k \in 1..Len(tail)
        PROVE  /\ BelongsTo(tail[k], t) /\ tail[k].type # "workflow_step"
               /\ tail[k].key = <<"message", t>> => k = 1
    <3>1. CASE k = 1
      BY <2>2, <2>5, <3>1
    <3>2. ASSUME NEW j \in 1..Len(w), k = 1 + j
          PROVE  BelongsTo(tail[k], t) /\ tail[k].type # "workflow_step" /\ tail[k].key # <<"message", t>>
      BY <1>5, <2>5, <3>2
    <3> QED BY <2>5, <3>1, <3>2
  <2>8. snap.transcript = Joined(read, tail)
    <3>1. With(read, x) = Joined(read, one)
      BY <1>2, <2>1, ListedAppend DEF With, Joined
    <3>2. Joined(Joined(read, one), w) = Joined(read, Joined(one, w))
      BY <1>2, <1>4, <2>3, JoinedTwice
    <3> QED BY <1>7, <1>9, <2>1, <2>4, <3>1, <3>2
  <2>9. Len(tail) > 0 /\ tail[1].key = <<"message", t>>
    BY <2>2, <2>5, <2>6
  <2> QED BY <1>1, <1>9, <2>1, <2>4, <2>5, <2>7, <2>8, <2>9
<1> QED BY <1>8, <1>9

LEMMA StartsBehind ==
  ASSUME NEW t, NEW read, EndsWith(t, read), runs[t] = turns[t].items, runs[t] # <<>>
  PROVE  RunStart(snap.transcript, t) = Len(read) + 1
<1>1. PICK w, items, s : w = WithoutSteps(items) /\ items = turns[t].items /\ s = snap.transcript
  OBVIOUS
<1>2. PICK tail :
        /\ s = Joined(read, tail) /\ Listed(tail)
        /\ \A k \in 1..Len(tail) : BelongsTo(tail[k], t) /\ tail[k].type # "workflow_step"
        /\ turns[t].text = NoText => tail = w /\ \A k \in 1..Len(tail) : tail[k].key # <<"message", t>>
        /\ turns[t].text # NoText =>
             /\ Len(tail) > 0 /\ tail[1].key = <<"message", t>>
             /\ \A k \in 1..Len(tail) : tail[k].key = <<"message", t>> => k = 1
             /\ tail = Joined(<<UserMessage(t)>>, w)
  BY <1>1, TailOfTurn
<1>3. Listed(read) /\ Own(items, t) /\ \A k \in 1..Len(read) : ~BelongsTo(read[k], t)
  BY <1>1 DEF EndsWith, Keyed
<1>4. IsJoin(s, read, tail)
  BY <1>2, <1>3, JoinedPlaces
<1>5. PICK n, l \in Nat : n = Len(read) /\ l = Len(tail)
  BY <1>2, <1>3, ListedPlaces
<1>6. /\ DOMAIN s = 1..n + l /\ Len(s) = n + l
      /\ \A k \in 1..n : s[k] = read[k]
      /\ \A k \in 1..l : s[n + k] = tail[k]
  BY <1>4, <1>5, ListedPlaces DEF IsJoin
<1>7. PICK A, B, C :
        /\ A = {k \in DOMAIN s : s[k].key = <<"message", t>>}
        /\ B = {k \in DOMAIN s : BelongsTo(s[k], t)}
        /\ C = {k \in DOMAIN s : s[k].key # NoKey /\ s[k].key = runs[t][1].key}
  OBVIOUS
<1>8. RunStart(s, t) = IF A # {} THEN Min(A) ELSE IF B # {} THEN Min(B) ELSE IF C # {} THEN Min(C) ELSE Len(s) + 1
  BY <1>7 DEF RunStart
<1>9. B = (n + 1)..(n + l)
  <2>1. \A k \in 1..n : ~BelongsTo(s[k], t)
    BY <1>3, <1>5, <1>6
  <2>2. ASSUME NEW k \in (n + 1)..(n + l) PROVE BelongsTo(s[k], t)
    <3>1. k - n \in 1..l /\ n + (k - n) = k
      BY <1>5
    <3>2. s[k] = tail[k - n]
      BY <1>6, <3>1
    <3> QED BY <1>2, <1>5, <3>1, <3>2
  <2>3. \A k \in 1..n + l : k \in 1..n \/ k \in (n + 1)..(n + l)
    BY <1>5
  <2>4. (n + 1)..(n + l) \subseteq 1..n + l
    BY <1>5
  <2> QED BY <1>6, <1>7, <2>1, <2>2, <2>3, <2>4
<1>10. A \subseteq B
  <2>1. Len(<<"message", t>>) > 1 /\ <<"message", t>>[2] = t
    OBVIOUS
  <2> QED BY <1>7, <2>1 DEF BelongsTo
<1>11. C \subseteq B
  <2>1. BelongsTo(runs[t][1], t)
    <3>1. 1 \in 1..Len(items)
      <4>1. Listed(items) /\ items # <<>>
        BY <1>1, <1>3 DEF Own
      <4> QED BY <4>1 DEF Listed
    <3> QED BY <1>1, <1>3, <3>1, ItemsKeyed
  <2> QED BY <1>7, <2>1 DEF BelongsTo
<1>12. CASE l = 0
  <2>1. B = {}
    BY <1>5, <1>9, <1>12
  <2> QED BY <1>1, <1>5, <1>6, <1>8, <1>10, <1>11, <1>12, <2>1
<1>13. CASE l # 0
  <2>1. n + 1 \in B /\ B \subseteq Nat /\ (\A k \in B : n + 1 <= k) /\ n + 1 \in Nat
    BY <1>5, <1>9, <1>13
  <2>2. Min(B) = n + 1
    BY <2>1, FirstIsMin
  <2>3. CASE turns[t].text = NoText
    <3>1. ASSUME NEW k \in A PROVE FALSE
      <4>1. k \in (n + 1)..(n + l)
        BY <1>9, <1>10
      <4>2. k - n \in 1..l /\ n + (k - n) = k
        BY <1>5, <4>1
      <4>3. s[k] = tail[k - n]
        BY <1>6, <4>2
      <4> QED BY <1>2, <1>5, <1>7, <2>3, <4>2, <4>3
    <3> QED BY <1>1, <1>5, <1>8, <2>1, <2>2, <3>1
  <2>4. CASE turns[t].text # NoText
    <3>1. n + 1 \in A
      <4>1. 1 \in 1..l
        BY <1>5, <1>13
      <4>2. s[n + 1] = tail[1]
        BY <1>6, <4>1
      <4>3. n + 1 \in DOMAIN s
        BY <1>5, <1>6, <1>13
      <4> QED BY <1>2, <1>7, <2>4, <4>2, <4>3
    <3>2. A \subseteq Nat /\ \A k \in A : n + 1 <= k
      BY <1>10, <2>1
    <3>3. Min(A) = n + 1
      BY <2>1, <3>1, <3>2, FirstIsMin
    <3> QED BY <1>1, <1>5, <1>8, <3>1, <3>3
  <2> QED BY <2>3, <2>4
<1> QED BY <1>12, <1>13

\* The turn's part of what is shown is its items, behind what it read.
LEMMA ShownBehind ==
  ASSUME NEW t, NEW read, EndsWith(t, read), runs[t] = turns[t].items, runs[t] # <<>>
  PROVE  WithoutSteps(DisplayTranscript(t)) = Joined(read, WithoutSteps(turns[t].items))
<1>1. PICK w, items, s : w = WithoutSteps(items) /\ items = turns[t].items /\ s = snap.transcript
  OBVIOUS
<1>2. PICK tail : s = Joined(read, tail) /\ Listed(tail)
  BY <1>1, TailOfTurn
<1>3. /\ Keyed(read) /\ Listed(read) /\ Own(items, t)
      /\ \A k \in 1..Len(read) : read[k].type # "workflow_step" /\ ~BelongsTo(read[k], t)
  BY <1>1 DEF EndsWith, Keyed
<1>4. PICK n \in Nat : n = Len(read)
  BY <1>3, ListedPlaces
<1>5. SubSeq(s, 1, n) = read
  <2>1. Listed(s) /\ n <= Len(s) /\ Len(s) \in Nat /\ \A k \in 1..n : s[k] = read[k]
    <3>1. IsJoin(s, read, tail)
      BY <1>2, <1>3, JoinedPlaces
    <3>2. Len(tail) \in Nat
      BY <1>2, ListedPlaces
    <3> QED BY <1>4, <3>1, <3>2 DEF IsJoin
  <2>2. s \in Seq(ToSet(s))
    BY <2>1 DEF Listed
  <2>3. SubSeq(s, 1, n) = [k \in 1..n |-> s[k]]
    BY <2>1, <2>2
  <2>4. read = [k \in 1..n |-> read[k]]
    BY <1>3, <1>4, ListedPlaces
  <2> QED BY <2>1, <2>3, <2>4
<1>6. /\ Keyed(items) /\ Listed(items)
      /\ \A k \in 1..Len(items) : BelongsTo(items[k], t)
  BY <1>3, ItemsKeyed DEF Keyed
<1>7. \A j \in 1..Len(read), k \in 1..Len(items) : read[j].key # items[k].key
  BY <1>3, <1>6 DEF BelongsTo
<1>8. DisplayTranscript(t) = Joined(read, items)
  <2>1. RunStart(s, t) = n + 1
    BY <1>1, <1>4, StartsBehind
  <2>2. (n + 1) - 1 = n
    BY <1>4
  <2>3. DisplayTranscript(t) = Dedupe(SubSeq(s, 1, n) \o items)
    BY <1>1, <2>1, <2>2 DEF DisplayTranscript
  <2>4. DisplayTranscript(t) = Dedupe(Joined(read, items))
    BY <1>5, <2>3 DEF Joined
  <2>5. Keyed(Joined(read, items))
    BY <1>3, <1>6, <1>7, KeyedConcat
  <2> QED BY <2>4, <2>5, KeyedDedupe
<1>9. WithoutSteps(read) = read
  BY <1>3, NoStepsKept
<1> QED BY <1>1, <1>3, <1>6, <1>8, <1>9, WithoutStepsJoined

LEMMA ShowsSession ==
  ASSUME NEW t, NEW read, EndsWith(t, read), runs[t] = turns[t].items
  PROVE  WithoutSteps(DisplayTranscript(t)) =
           Only(snap.transcript, LAMBDA item : runs[t] # <<>> => item.key # <<"message", t>>)
<1>1. PICK w, items, s : w = WithoutSteps(items) /\ items = turns[t].items /\ s = snap.transcript
  OBVIOUS
<1>2. PICK tail :
        /\ s = Joined(read, tail) /\ Listed(tail)
        /\ \A k \in 1..Len(tail) : BelongsTo(tail[k], t) /\ tail[k].type # "workflow_step"
        /\ turns[t].text = NoText => tail = w /\ \A k \in 1..Len(tail) : tail[k].key # <<"message", t>>
        /\ turns[t].text # NoText =>
             /\ Len(tail) > 0 /\ tail[1].key = <<"message", t>>
             /\ \A k \in 1..Len(tail) : tail[k].key = <<"message", t>> => k = 1
             /\ tail = Joined(<<UserMessage(t)>>, w)
  BY <1>1, TailOfTurn
<1>3. /\ Listed(read) /\ Own(items, t)
      /\ \A k \in 1..Len(read) : read[k].type # "workflow_step" /\ read[k].key # <<"message", t>>
  <2>1. Len(<<"message", t>>) > 1 /\ <<"message", t>>[2] = t
    OBVIOUS
  <2> QED BY <1>1, <2>1 DEF EndsWith, Keyed, BelongsTo
<1>4. Listed(s)
  BY <1>2, <1>3, JoinedPlaces DEF IsJoin
<1>5. PICK U : U = ToSet(s) \cup ToSet(read) \cup ToSet(tail) \cup ToSet(w)
  OBVIOUS
<1>6. PICK S : S = {e \in U : runs[t] # <<>> => e.key # <<"message", t>>}
  OBVIOUS
<1>7. \A z : Listed(z) => \A k \in 1..Len(z) : z[k] \in ToSet(z)
  BY ListedPlaces DEF ToSet
<1>8. Only(s, LAMBDA item : runs[t] # <<>> => item.key # <<"message", t>>) = Picked(s, S)
  <2>1. \A k \in DOMAIN s : s[k] \in S <=> (runs[t] # <<>> => s[k].key # <<"message", t>>)
    BY <1>4, <1>5, <1>6, <1>7, ListedPlaces
  <2>2. PICK ss : ss = [k \in DOMAIN s |-> IF s[k] \in S THEN <<s[k]>> ELSE <<>>]
    OBVIOUS
  <2>3. ss = [k \in DOMAIN s |-> IF runs[t] # <<>> => s[k].key # <<"message", t>> THEN <<s[k]>> ELSE <<>>]
    BY <2>1, <2>2
  <2> QED BY <2>2, <2>3 DEF Only, Picked
<1>9. CASE runs[t] = <<>>
  <2>1. DisplayTranscript(t) = s
    BY <1>1, <1>9 DEF DisplayTranscript
  <2>2. \A k \in 1..Len(s) : s[k].type # "workflow_step"
    <3>1. IsJoin(s, read, tail)
      BY <1>2, <1>3, JoinedPlaces
    <3>2. ASSUME NEW k \in 1..Len(s) PROVE s[k].type # "workflow_step"
      <4>1. CASE k \in 1..Len(read)
        BY <1>3, <3>1, <4>1 DEF IsJoin
      <4>2. ASSUME NEW j \in 1..Len(tail), k = Len(read) + j PROVE s[k].type # "workflow_step"
        <5>1. s[k] = tail[j]
          BY <3>1, <4>2 DEF IsJoin
        <5> QED BY <1>2, <5>1
      <4> QED BY <3>1, <4>1, <4>2 DEF IsJoin
    <3> QED BY <3>2
  <2>3. WithoutSteps(s) = s
    BY <1>4, <2>2, NoStepsKept
  <2>4. \A k \in 1..Len(s) : s[k] \in S
    BY <1>4, <1>5, <1>6, <1>7, <1>9
  <2>5. Picked(s, S) = s
    BY <1>4, <2>4, PickedAll
  <2> QED BY <1>1, <1>8, <2>1, <2>3, <2>5
<1>10. CASE runs[t] # <<>>
  <2>1. WithoutSteps(DisplayTranscript(t)) = Joined(read, w)
    BY <1>1, <1>10, ShownBehind
  <2>2. Picked(s, S) = Joined(Picked(read, S), Picked(tail, S))
    BY <1>2, <1>3, PickedJoined
  <2>3. Picked(read, S) = read
    <3>1. \A k \in 1..Len(read) : read[k] \in S
      BY <1>3, <1>5, <1>6, <1>7
    <3> QED BY <1>3, <3>1, PickedAll
  <2>4. Listed(w) /\ \A k \in 1..Len(w) : w[k].key # <<"message", t>>
    <3>1. Keyed(items) /\ \A k \in 1..Len(items) : items[k].key # <<"message", t>>
      BY <1>3, ItemsKeyed
    <3>2. PICK n \in Nat : n = Len(items)
      BY <3>1, ListedPlaces DEF Keyed
    <3>3. PICK g : w = g[n] /\ Leaving(g, items, n)
      BY <1>1, <3>1, <3>2, WithoutStepsPlaces
    <3>4. n \in 0..n
      BY <3>2
    <3>5. Keyed(w) /\ \A k \in 1..Len(w) : \E j \in 1..n : w[k] = items[j]
      BY <3>3, <3>4 DEF Leaving
    <3> QED BY <3>1, <3>2, <3>5 DEF Keyed
  <2>5. Picked(w, S) = w
    <3>1. \A k \in 1..Len(w) : w[k] \in S
      BY <1>5, <1>6, <1>7, <2>4
    <3> QED BY <2>4, <3>1, PickedAll
  <2>6. CASE turns[t].text = NoText
    BY <1>1, <1>2, <1>8, <2>1, <2>2, <2>3, <2>5, <2>6
  <2>7. CASE turns[t].text # NoText
    <3>1. PICK one : one = <<UserMessage(t)>>
      OBVIOUS
    <3>2. Listed(one) /\ Len(one) = 1 /\ one[1] = UserMessage(t)
      BY <3>1, ListedShort
    <3>3. \A k \in 1..Len(one) : one[k] \notin S
      BY <1>6, <1>10, <3>2 DEF UserMessage, Item
    <3>4. Picked(one, S) = <<>>
      BY <3>2, <3>3, PickedNone
    <3>5. Picked(tail, S) = Joined(Picked(one, S), Picked(w, S))
      BY <1>2, <2>4, <2>7, <3>1, <3>2, PickedJoined
    <3>6. Picked(tail, S) = w
      BY <2>4, <2>5, <3>4, <3>5, JoinedNothing
    <3> QED BY <1>1, <1>8, <2>1, <2>2, <2>3, <3>6
  <2> QED BY <2>6, <2>7
<1> QED BY <1>9, <1>10

-----------------------------------------------------------------------------
(* The session's transcript ends with the turn that is shown               *)

\* Turns begin in their order.
TurnsOrdered ==
  /\ \A t, u \in Turn : u < t /\ turns[t].at # "idle" => u \in Begun
  /\ \A t \in Turn : \A u \in turns[t].before : u < t

\* The last snapshot of a run has the items of its events.
RunsKept ==
  /\ runs = [t \in Turn |-> runs[t]]
  /\ \A t \in Done \ Faulty : runs[t] = turns[t].items

LatestShown ==
  Alone /\ (\A t \in Turn : turns[t].at \notin Writing) =>
    \A t \in Turn : IsLatestRun(t) => \E read : EndsWith(t, read)

ShownInv == TurnsOrdered /\ RunsKept /\ LatestShown

LEMMA ShownInit ==
  ASSUME ContentInit
  PROVE  ShownInv
<1>1. \A t \in Turn : turns[t] = NoTurn
  BY DEF ContentInit
<1>2. NoTurn.at = "idle" /\ NoTurn.before = {}
  BY DEF NoTurn
<1>3. TurnsOrdered
  BY <1>1, <1>2 DEF TurnsOrdered
<1>4. RunsKept
  BY <1>1, <1>2 DEF RunsKept, ContentInit, Done
<1>5. LatestShown
  BY <1>1, <1>2 DEF LatestShown, IsLatestRun, Begun
<1> QED BY <1>3, <1>4, <1>5 DEF ShownInv

\* A turn that was routed goes on.
LEMMA OrderKept ==
  ASSUME TurnsOrdered, RunsKept, NEW t \in Turn, \A u \in Turn \ {t} : turns'[u] = turns[u],
         turns[t].at # "idle", turns'[t].at \notin {"idle", "routed"}, turns'[t].before = turns[t].before,
         runs' = [u \in Turn |-> runs'[u]], \A u \in Turn \ {t} : runs'[u] = runs[u],
         turns'[t].at = "done" /\ t \notin Faulty' => runs'[t] = turns'[t].items
  PROVE  TurnsOrdered' /\ RunsKept'
<1>1. Begun \subseteq Begun'
  BY DEF Begun
<1>2. ASSUME NEW v \in Turn, NEW u \in Turn, u < v, turns'[v].at # "idle" PROVE u \in Begun'
  BY <1>1, <1>2 DEF TurnsOrdered
<1>3. \A v \in Turn : \A u \in turns'[v].before : u < v
  BY DEF TurnsOrdered
<1>4. ASSUME NEW u \in Done' \ Faulty' PROVE runs'[u] = turns'[u].items
  <2>1. CASE u = t
    BY <1>4, <2>1 DEF Done
  <2>2. CASE u # t
    <3>1. u \in Done \ Faulty
      BY <1>4, <2>2 DEF Done, Faulty
    <3> QED BY <1>4, <2>2, <3>1 DEF RunsKept, Done
  <2> QED BY <2>1, <2>2
<1>5. TurnsOrdered'
  BY <1>2, <1>3 DEF TurnsOrdered
<1>6. RunsKept'
  BY <1>4 DEF RunsKept
<1> QED BY <1>5, <1>6

\* Nothing is written, and no turn begins.
LEMMA LatestKept ==
  ASSUME LatestShown, snap' = snap, Begun' = Begun, Alone' => Alone,
         \A u \in Begun : turns'[u].text = turns[u].text /\ turns'[u].items = turns[u].items,
         (\A u \in Turn : turns'[u].at \notin Writing) => \A u \in Turn : turns[u].at \notin Writing
  PROVE  LatestShown'
<1> SUFFICES ASSUME Alone', \A u \in Turn : turns'[u].at \notin Writing, NEW t \in Turn, IsLatestRun(t)'
             PROVE  (\E read : EndsWith(t, read))'
  BY DEF LatestShown
<1>1. IsLatestRun(t) /\ t \in Begun
  BY DEF IsLatestRun
<1>2. PICK read : EndsWith(t, read)
  BY <1>1 DEF LatestShown
<1>3. EndsWith(t, read)'
  <2>1. turns'[t].text = turns[t].text /\ turns'[t].items = turns[t].items
    BY <1>1
  <2>2. WithUserMessage(read, t)' = WithUserMessage(read, t)
    BY <2>1 DEF WithUserMessage, UserMessage
  <2>3. WithoutSteps(turns'[t].items) = WithoutSteps(turns[t].items)
    BY <2>1
  <2> QED BY <1>2, <2>1, <2>2, <2>3 DEF EndsWith
<1> QED BY <1>3

LEMMA RouteKeepsShown ==
  ASSUME ContentInv, ShownInv, NEW t \in Turn, NEW kind, NEW text, Route(t, kind, text)
  PROVE  ShownInv'
<1>1. PICK r : r = [NoTurn EXCEPT
         !.at = "routed", !.text = text, !.kind = kind, !.blind = Blind(kind),
         !.base = IF Blind(kind) THEN Empty ELSE snap,
         !.before = {u \in Turn : turns[u].at = "done"}]
  OBVIOUS
<1>2. r.at = "routed" /\ r.before = Done
  BY <1>1 DEF NoTurn, Done
<1>3. turns[t].at = "idle" /\ turns' = [turns EXCEPT ![t] = r] /\ snap' = snap /\ runs' = runs
  BY <1>1 DEF Route
<1>4. turns'[t] = r /\ \A u \in Turn \ {t} : turns'[u] = turns[u]
  BY <1>3 DEF ContentInv
<1>5. t \notin Begun /\ Begun' = Begun /\ (Alone' => Alone)
  <2>1. t \notin Begun
    BY <1>3 DEF Begun
  <2>2. Begun' = Begun
    BY <1>2, <1>3, <1>4 DEF Begun
  <2>3. Alone' => Alone
    BY <1>3, <1>4, <2>1, StillAlone
  <2> QED BY <2>1, <2>2, <2>3
<1>6. ASSUME NEW v \in Turn, NEW u \in Turn, u < v, turns'[v].at # "idle" PROVE u \in Begun'
  <2>1. CASE v = t
    <3>1. turns[u].at \notin {"idle", "routed"}
      BY <1>6, <2>1 DEF Route
    <3> QED BY <1>5, <3>1 DEF Begun
  <2>2. CASE v # t
    BY <1>4, <1>5, <1>6, <2>2 DEF ShownInv, TurnsOrdered
  <2> QED BY <2>1, <2>2
<1>7. ASSUME NEW v \in Turn, NEW u \in turns'[v].before PROVE u < v
  <2>1. CASE v = t
    <3>1. u \in Turn /\ turns[u].at = "done"
      BY <1>2, <1>4, <1>7, <2>1 DEF Done
    <3>2. ~(t < u)
      BY <1>5, <3>1 DEF ShownInv, TurnsOrdered
    <3>3. u # t /\ u \in Nat /\ t \in Nat
      BY <1>3, <3>1, TurnsAreNumbers
    <3> QED BY <2>1, <3>2, <3>3
  <2>2. CASE v # t
    BY <1>4, <1>7, <2>2 DEF ShownInv, TurnsOrdered
  <2> QED BY <2>1, <2>2
<1>8. TurnsOrdered'
  BY <1>6, <1>7 DEF TurnsOrdered
<1>9. RunsKept'
  <2>1. \A u \in Done' \ Faulty' : u \in Done \ Faulty /\ turns'[u] = turns[u]
    BY <1>2, <1>4 DEF Done, Faulty
  <2> QED BY <1>3, <2>1 DEF ShownInv, RunsKept
<1>10. LatestShown'
  <2>1. \A u \in Begun : turns'[u] = turns[u]
    BY <1>4, <1>5 DEF Begun
  <2>2. (\A u \in Turn : turns'[u].at \notin Writing) => \A u \in Turn : turns[u].at \notin Writing
    BY <1>3, <1>4 DEF Writing
  <2> QED BY <1>3, <1>5, <2>1, <2>2, LatestKept DEF ShownInv
<1> QED BY <1>8, <1>9, <1>10 DEF ShownInv

\* A turn that writes says nothing of what is shown yet.
LEMMA WriterKeepsShown ==
  ASSUME ContentInv, ShownInv, NEW t \in Turn,
         Stage(t) \/ Snapshot(t) \/ EmitStep(t) \/ (\E type \in NoteType : EmitNote(t, type))
           \/ \E how \in WithAnswer \cup {"question", "paused"} : EmitResult(t, how)
  PROVE  ShownInv'
<1>0. TurnFits(turns[t], t) /\ turns = [u \in Turn |-> turns[u]] /\ runs = [u \in Turn |-> runs[u]]
  BY DEF ContentInv, ShownInv, RunsKept
<1>1. /\ \A u \in Turn \ {t} : turns'[u] = turns[u]
      /\ turns[t].at # "idle" /\ turns'[t].at \in Writing /\ turns'[t].before = turns[t].before
      /\ runs' = [u \in Turn |-> runs'[u]] /\ \A u \in Turn \ {t} : runs'[u] = runs[u]
  <2>1. CASE Stage(t)
    BY <1>0, <2>1 DEF Stage, TurnGoes, Writing, TurnFits
  <2>2. CASE Snapshot(t)
    BY <1>0, <2>2 DEF Snapshot, TurnGoes, Writing, TurnFits
  <2>3. CASE EmitStep(t)
    BY <1>0, <2>3 DEF EmitStep, Emits, Writing, TurnFits
  <2>4. ASSUME NEW type, EmitNote(t, type)
        PROVE  /\ \A u \in Turn \ {t} : turns'[u] = turns[u]
               /\ turns[t].at # "idle" /\ turns'[t].at \in Writing /\ turns'[t].before = turns[t].before
               /\ runs' = [u \in Turn |-> runs'[u]] /\ \A u \in Turn \ {t} : runs'[u] = runs[u]
    BY <1>0, <2>4 DEF EmitNote, Emits, Writing, TurnFits
  <2>5. ASSUME NEW how, EmitResult(t, how)
        PROVE  /\ \A u \in Turn \ {t} : turns'[u] = turns[u]
               /\ turns[t].at # "idle" /\ turns'[t].at \in Writing /\ turns'[t].before = turns[t].before
               /\ runs' = [u \in Turn |-> runs'[u]] /\ \A u \in Turn \ {t} : runs'[u] = runs[u]
    BY <1>0, <2>5 DEF EmitResult, Emits, Writing, TurnFits
  <2> QED BY <2>1, <2>2, <2>3, <2>4, <2>5
<1>2. turns'[t].at \notin {"idle", "routed", "done"}
  BY <1>1 DEF Writing
<1>3. TurnsOrdered' /\ RunsKept'
  BY <1>1, <1>2, OrderKept DEF ShownInv
<1>4. LatestShown'
  BY <1>1 DEF LatestShown
<1> QED BY <1>3, <1>4 DEF ShownInv

LEMMA SaveSessionKeepsShown ==
  ASSUME ContentInv, ShownInv, NEW t \in Turn, SaveSession(t)
  PROVE  ShownInv'
<1>0. TurnFits(turns[t], t) /\ turns = [u \in Turn |-> turns[u]] /\ runs = [u \in Turn |-> runs[u]]
  BY DEF ContentInv, ShownInv, RunsKept
<1>1. /\ \A u \in Turn \ {t} : turns'[u] = turns[u]
      /\ turns[t].at = "ended" /\ turns'[t].at = "saved" /\ turns'[t].before = turns[t].before
      /\ turns'[t].text = turns[t].text /\ turns'[t].items = turns[t].items
      /\ runs' = runs
  BY <1>0 DEF SaveSession, TurnFits
<1>2. TurnsOrdered' /\ RunsKept'
  BY <1>0, <1>1, OrderKept DEF ShownInv
<1>3. ASSUME Alone', NEW v \in Turn, IsLatestRun(v)' PROVE v = t
  <2>1. t \in Begun' /\ v \in Begun' /\ t <= v
    BY <1>1, <1>3 DEF Begun, IsLatestRun
  <2>2. SUFFICES ASSUME v # t PROVE FALSE
    OBVIOUS
  <2>3. t < v /\ ~(v < t)
    BY <2>1, <2>2, TurnsAreNumbers
  <2>4. t \in turns'[v].before \/ v \in turns'[t].before
    BY <1>3, <2>1, <2>2 DEF Alone, TurnsOverlap
  <2>5. v \notin turns'[t].before
    BY <1>2, <2>3 DEF TurnsOrdered
  <2>6. turns'[v].before = turns[v].before /\ turns[v].before \subseteq Done
    BY <1>1, <2>2 DEF ContentInv
  <2>7. t \notin Done
    BY <1>1 DEF Done
  <2> QED BY <2>4, <2>5, <2>6, <2>7
<1>4. ASSUME Alone' PROVE (\E read : EndsWith(t, read))'
  <2>1. Alone
    BY <1>1, <1>4, StillAlone
  <2>2. Good(turns[t].base, Over)
    BY <1>1, <2>1 DEF ContentInv, Agreed, Writing
  <2>3. PICK read, items : read = turns[t].base.transcript /\ items = turns[t].items
    OBVIOUS
  <2>4. t \notin Over
    BY <1>1 DEF Over
  <2>5. PICK s : s = [messages |-> SavedMessages(t), transcript |-> SavedTranscript(t)]
    OBVIOUS
  <2>6. s.transcript = Joined(WithUserMessage(read, t), WithoutSteps(items))
    BY <1>0, <1>1, <2>2, <2>3, <2>4, <2>5, SavedGood
  <2>7. snap'.transcript = s.transcript
    BY <2>5 DEF SaveSession
  <2>8. WithUserMessage(read, t)' = WithUserMessage(read, t)
    BY <1>1 DEF WithUserMessage, UserMessage
  <2>9. /\ Keyed(read)
        /\ \A k \in 1..Len(read) : read[k].type # "workflow_step" /\ ~BelongsTo(read[k], t)
    BY <2>2, <2>3, <2>4 DEF Good, BelongsTo
  <2>10. turns'[t].items = items /\ Own(items, t)
    BY <1>0, <1>1, <2>3 DEF TurnFits
  <2>11. EndsWith(t, read)'
    BY <2>6, <2>7, <2>8, <2>9, <2>10 DEF EndsWith
  <2> QED BY <2>11
<1>5. LatestShown'
  BY <1>3, <1>4 DEF LatestShown
<1> QED BY <1>2, <1>5 DEF ShownInv

LEMMA SaveRunSnapshotKeepsShown ==
  ASSUME ContentInv, ShownInv, NEW t \in Turn, SaveRunSnapshot(t)
  PROVE  ShownInv'
<1>0. TurnFits(turns[t], t) /\ turns = [u \in Turn |-> turns[u]] /\ runs = [u \in Turn |-> runs[u]]
  BY DEF ContentInv, ShownInv, RunsKept
<1>1. /\ \A u \in Turn \ {t} : turns'[u] = turns[u]
      /\ turns[t].at = "saved" /\ turns'[t].at = "done" /\ turns'[t].before = turns[t].before
      /\ turns'[t].text = turns[t].text /\ turns'[t].items = turns[t].items /\ snap' = snap
  BY <1>0 DEF SaveRunSnapshot, TurnFits
<1>2. /\ runs' = [u \in Turn |-> runs'[u]] /\ \A u \in Turn \ {t} : runs'[u] = runs[u]
      /\ runs'[t] = Dedupe(turns[t].items)
  BY <1>0 DEF SaveRunSnapshot
<1>3. Dedupe(turns[t].items) = turns[t].items
  BY <1>0, ItemsKeyed, KeyedDedupe DEF TurnFits
<1>4. TurnsOrdered' /\ RunsKept'
  BY <1>1, <1>2, <1>3, OrderKept DEF ShownInv
<1>5. Begun' = Begun /\ (Alone' => Alone)
  BY <1>1, StillAlone DEF Begun
<1>6. \A u \in Begun : turns'[u].text = turns[u].text /\ turns'[u].items = turns[u].items
  BY <1>1 DEF Begun
<1>7. (\A u \in Turn : turns'[u].at \notin Writing) => \A u \in Turn : turns[u].at \notin Writing
  BY <1>1 DEF Writing
<1>8. LatestShown'
  BY <1>1, <1>5, <1>6, <1>7, LatestKept DEF ShownInv
<1> QED BY <1>4, <1>8 DEF ShownInv

LEMMA BreaksKeepsShown ==
  ASSUME ContentInv, ShownInv, NEW t \in Turn, Breaks(t)
  PROVE  ShownInv'
<1>0. TurnFits(turns[t], t) /\ turns = [u \in Turn |-> turns[u]] /\ runs = [u \in Turn |-> runs[u]]
  BY DEF ContentInv, ShownInv, RunsKept
<1>1. /\ \A u \in Turn \ {t} : turns'[u] = turns[u]
      /\ turns[t].at # "idle" /\ turns'[t].at = "done" /\ turns'[t].before = turns[t].before
      /\ turns'[t].ended = "broken"
      /\ runs' = [u \in Turn |-> runs'[u]] /\ \A u \in Turn \ {t} : runs'[u] = runs[u]
  BY <1>0 DEF Breaks, Emits, TurnFits
<1>2. t \in Faulty'
  BY <1>1 DEF Faulty
<1>3. TurnsOrdered' /\ RunsKept'
  BY <1>1, <1>2, OrderKept DEF ShownInv
<1>4. LatestShown'
  BY <1>2 DEF LatestShown, Alone
<1> QED BY <1>3, <1>4 DEF ShownInv

LEMMA RestartKeepsShown ==
  ASSUME ContentInv, ShownInv, ServerRestarts
  PROVE  ShownInv'
<1>0. \A u \in Turn : TurnFits(turns[u], u)
  BY DEF ContentInv
<1>1. snap' = snap /\ runs' = runs
  BY DEF ServerRestarts
<1>2. ASSUME NEW u \in Turn
      PROVE  /\ turns[u].at \in {"idle", "done"} => turns'[u] = turns[u]
             /\ turns[u].at = "routed" => turns'[u].at = "idle" /\ turns'[u].before = {}
             /\ turns[u].at \notin {"idle", "done", "routed"} =>
                  /\ turns'[u].at = "done" /\ turns'[u].ended = "lost"
                  /\ turns'[u].before = turns[u].before
  <2>1. turns'[u] = CASE u \notin InFlight -> turns[u]
                      [] turns[u].at = "routed" -> NoTurn
                      [] OTHER -> [turns[u] EXCEPT !.at = "done", !.ended = "lost", !.base = Empty]
    BY DEF ServerRestarts
  <2>2. u \in InFlight <=> turns[u].at \notin {"idle", "done"}
    BY DEF InFlight
  <2>3. CASE turns[u].at \in {"idle", "done"}
    BY <2>1, <2>2, <2>3
  <2>4. CASE turns[u].at = "routed"
    BY <2>1, <2>2, <2>4 DEF NoTurn
  <2>5. CASE turns[u].at \notin {"idle", "done", "routed"}
    BY <1>0, <2>1, <2>2, <2>5 DEF TurnFits
  <2> QED BY <2>3, <2>4, <2>5
<1>3. Begun' = Begun
  BY <1>2 DEF Begun
<1>4. TurnsOrdered'
  <2>1. ASSUME NEW v \in Turn, NEW u \in Turn, u < v, turns'[v].at # "idle" PROVE u \in Begun'
    <3>1. turns[v].at # "idle"
      BY <1>2, <2>1
    <3> QED BY <1>3, <2>1, <3>1 DEF ShownInv, TurnsOrdered
  <2>2. ASSUME NEW v \in Turn, NEW u \in turns'[v].before PROVE u < v
    <3>1. turns'[v].before = {} \/ turns'[v].before = turns[v].before
      BY <1>2
    <3> QED BY <2>2, <3>1 DEF ShownInv, TurnsOrdered
  <2> QED BY <2>1, <2>2 DEF TurnsOrdered
<1>5. RunsKept'
  <2>1. ASSUME NEW u \in Done' \ Faulty' PROVE u \in Done \ Faulty /\ turns'[u] = turns[u]
    BY <1>2, <2>1 DEF Done, Faulty
  <2> QED BY <1>1, <2>1 DEF ShownInv, RunsKept
<1>6. LatestShown'
  <2>1. CASE \E u \in Turn : turns[u].at \notin {"idle", "done", "routed"}
    <3>1. Faulty' # {}
      BY <1>2, <2>1 DEF Faulty
    <3> QED BY <3>1 DEF LatestShown, Alone
  <2>2. CASE \A u \in Turn : turns[u].at \in {"idle", "done", "routed"}
    <3>1. \A u \in Begun : turns'[u] = turns[u]
      BY <1>2, <2>2 DEF Begun
    <3>2. Faulty \subseteq Faulty'
      <4>1. \A u \in Turn : turns[u].at # "done" => u \notin Faulty
        BY <1>0, NotFaulty
      <4> QED BY <1>2, <4>1 DEF Faulty
    <3>3. Alone' => Alone
      BY <1>3, <3>1, <3>2 DEF Alone, TurnsOverlap
    <3>4. \A u \in Turn : turns[u].at \notin Writing
      BY <2>2 DEF Writing
    <3> QED BY <1>1, <1>3, <3>1, <3>3, <3>4, LatestKept DEF ShownInv
  <2> QED BY <2>1, <2>2
<1> QED BY <1>4, <1>5, <1>6 DEF ShownInv

LEMMA SameTurnsKeepShown ==
  ASSUME ShownInv, turns' = turns, snap' = snap, runs' = runs
  PROVE  ShownInv'
<1>1. Done' = Done /\ Begun' = Begun /\ Faulty' = Faulty
  BY DEF Done, Begun, Faulty
<1>2. Alone' = Alone
  BY <1>1 DEF Alone, TurnsOverlap
<1>3. TurnsOrdered' /\ RunsKept'
  BY <1>1 DEF ShownInv, TurnsOrdered, RunsKept
<1>4. LatestShown'
  BY <1>1, <1>2, LatestKept DEF ShownInv
<1> QED BY <1>3, <1>4 DEF ShownInv

LEMMA ShownNext ==
  ASSUME ContentInv, ShownInv, [ContentNext]_contentVars
  PROVE  ShownInv'
<1>1. CASE MoveToBucket
  BY <1>1, SameTurnsKeepShown DEF MoveToBucket
<1>2. CASE ServerRestarts
  BY <1>2, RestartKeepsShown
<1>3. ASSUME NEW t \in Turn, NEW text, NEW kind, Route(t, kind, text)
      PROVE  ShownInv'
  BY <1>3, RouteKeepsShown
<1>4. ASSUME NEW t \in Turn,
             Stage(t) \/ Snapshot(t) \/ EmitStep(t) \/ (\E type \in NoteType : EmitNote(t, type))
               \/ \E how \in WithAnswer \cup {"question", "paused"} : EmitResult(t, how)
      PROVE  ShownInv'
  BY <1>4, WriterKeepsShown
<1>5. ASSUME NEW t \in Turn, SaveSession(t) \/ SaveRunSnapshot(t) \/ Breaks(t)
      PROVE  ShownInv'
  BY <1>5, SaveSessionKeepsShown, SaveRunSnapshotKeepsShown, BreaksKeepsShown
<1>6. CASE UNCHANGED contentVars
  BY <1>6, SameTurnsKeepShown DEF contentVars
<1> QED BY <1>1, <1>2, <1>3, <1>4, <1>5, <1>6 DEF ContentNext

\* When turns that did not overlap are over, what the desktop is given to show is the
\* session's transcript, but for the words the user said last.
THEOREM DisplayShowsSessionAlways == ContentSpec => []DisplayShowsSession
<1>1. ContentInit => ShownInv
  BY ShownInit
<1>2. ContentInv /\ ShownInv /\ [ContentNext]_contentVars => ShownInv'
  BY ShownNext
<1>3. ContentInv /\ ShownInv => DisplayShowsSession
  <2> SUFFICES ASSUME ContentInv, ShownInv, NEW t \in Turn, Undisturbed, IsLatestRun(t)
               PROVE  WithoutSteps(DisplayTranscript(t)) =
                        Only(snap.transcript, LAMBDA item : runs[t] # <<>> => item.key # <<"message", t>>)
    BY DEF DisplayShowsSession
  <2>1. Alone /\ \A u \in Turn : turns[u].at \notin Writing
    BY DEF Undisturbed, Alone, InFlight, Writing
  <2>2. PICK read : EndsWith(t, read)
    BY <2>1 DEF ShownInv, LatestShown
  <2>3. t \in Done \ Faulty
    BY DEF Undisturbed, IsLatestRun, Begun, InFlight, Done
  <2>4. runs[t] = turns[t].items
    BY <2>3 DEF ShownInv, RunsKept
  <2> QED BY <2>2, <2>4, ShowsSession DEF Only
<1> QED BY <1>1, <1>2, <1>3, ContentInvAlways, PTL DEF ContentSpec


-----------------------------------------------------------------------------
(* Timelines whose keys are not repeated                                   *)

Unrepeated(s) ==
  Listed(s) /\ \A j, k \in 1..Len(s) : s[j].key = s[k].key /\ s[k].key # NoKey => j = k

LEMMA InList ==
  ASSUME NEW s, Listed(s)
  PROVE  /\ \A k \in 1..Len(s) : s[k] \in ToSet(s)
         /\ \A e \in ToSet(s) : \E k \in 1..Len(s) : e = s[k]
BY ListedPlaces DEF ToSet

LEMMA UnrepeatedWith ==
  ASSUME NEW s, Unrepeated(s), NEW x, x.key = NoKey \/ \A k \in 1..Len(s) : s[k].key # x.key
  PROVE  Unrepeated(With(s, x))
<1>1. PICK q : q = With(s, x)
  OBVIOUS
<1>2. Listed(s) /\ Len(s) \in Nat
  BY ListedPlaces DEF Unrepeated
<1>3. /\ Listed(q) /\ q[Len(s) + 1] = x /\ \A k \in 1..Len(s) : q[k] = s[k]
      /\ \A k \in 1..Len(q) : k = Len(s) + 1 \/ k \in 1..Len(s)
  BY <1>1, <1>2, WithPlaces
<1>4. ASSUME NEW j \in 1..Len(q), NEW k \in 1..Len(q), q[j].key = q[k].key, q[k].key # NoKey PROVE j = k
  BY <1>3, <1>4 DEF Unrepeated
<1> QED BY <1>1, <1>3, <1>4 DEF Unrepeated

LEMMA PickedUnrepeated ==
  ASSUME NEW s, Unrepeated(s), NEW S
  PROVE  Unrepeated(Picked(s, S))
<1>0. PICK n \in Nat : n = Len(s)
  BY ListedPlaces DEF Unrepeated
<1>1. Listed(s) /\ \A j, k \in 1..n : s[j].key = s[k].key /\ s[k].key # NoKey => j = k
  BY <1>0 DEF Unrepeated
<1> DEFINE G == {m \in 0..n : Unrepeated(Picked(First(s, m), S))}
<1>2. 0 \in G
  <2>1. First(s, 0) = <<>>
    BY DEF First
  <2>2. PICK p : p = Picked(First(s, 0), S)
    OBVIOUS
  <2>3. Listed(p) /\ Len(p) = 0
    BY <2>1, <2>2, PickedNothing, ListedShort
  <2>4. Unrepeated(p)
    BY <2>3 DEF Unrepeated
  <2> QED BY <1>0, <2>2, <2>4
<1>3. ASSUME NEW m \in 1..n, m - 1 \in G PROVE m \in G
  <2>1. PICK f, x, p : f = First(s, m - 1) /\ x = s[m] /\ p = Picked(f, S)
    OBVIOUS
  <2>2. Listed(f) /\ Len(f) = m - 1 /\ First(s, m) = With(f, x) /\ Unrepeated(p)
    BY <1>0, <1>1, <1>3, <2>1, FirstGrows DEF With
  <2>3. Picked(With(f, x), S) = IF x \in S THEN With(p, x) ELSE p
    BY <2>1, <2>2, PickedWith
  <2>4. ASSUME x.key # NoKey, NEW k \in 1..Len(p) PROVE p[k].key # x.key
    <3>1. Listed(p)
      BY <2>2 DEF Unrepeated
    <3>2. p[k] \in ToSet(p)
      BY <3>1, InList
    <3>3. p[k] \in ToSet(f)
      BY <2>1, <2>2, <3>2, PickedIn
    <3>4. PICK j \in 1..Len(f) : p[k] = f[j]
      BY <2>2, <3>3, InList
    <3>5. j \in 1..m - 1 /\ j \in 1..n /\ j # m
      BY <1>0, <2>2, <3>4
    <3>6. f[j] = s[j]
      BY <2>1, <3>5 DEF First
    <3> QED BY <1>1, <2>1, <2>4, <3>4, <3>5, <3>6
  <2>5. Unrepeated(With(p, x))
    BY <2>2, <2>4, UnrepeatedWith
  <2>6. Unrepeated(Picked(First(s, m), S))
    BY <2>2, <2>3, <2>5
  <2>7. m \in 0..n
    BY <1>0
  <2> QED BY <2>6, <2>7
<1> HIDE DEF G
<1>4. n \in G
  <2>1. \A m \in 0..n : m \in G
    BY <1>0, <1>2, <1>3, Counted
  <2> QED BY <1>0, <2>1
<1>5. First(s, n) = s
  BY <1>0, <1>1, ListedPlaces DEF First
<1> QED BY <1>4, <1>5 DEF G

LEMMA PickedPicked ==
  ASSUME NEW s, Listed(s), NEW R, NEW S, \A e \in ToSet(s) : e \in S => e \in R
  PROVE  Picked(Picked(s, R), S) = Picked(s, S)
<1>0. PICK n \in Nat : n = Len(s)
  BY ListedPlaces
<1> DEFINE G == {m \in 0..n : Picked(Picked(First(s, m), R), S) = Picked(First(s, m), S)}
<1>1. 0 \in G
  <2>1. First(s, 0) = <<>>
    BY DEF First
  <2> QED BY <1>0, <2>1, PickedNothing
<1>2. ASSUME NEW m \in 1..n, m - 1 \in G PROVE m \in G
  <2>1. PICK f, x, p : f = First(s, m - 1) /\ x = s[m] /\ p = Picked(f, R)
    OBVIOUS
  <2>2. Listed(f) /\ First(s, m) = With(f, x) /\ Picked(p, S) = Picked(f, S)
    BY <1>0, <1>2, <2>1, FirstGrows DEF With
  <2>3. x \in S => x \in R
    BY <1>0, <2>1, InList
  <2>4. Listed(p) /\ Picked(With(f, x), R) = IF x \in R THEN With(p, x) ELSE p
    BY <2>1, <2>2, PickedWith
  <2>5. Picked(With(f, x), S) = IF x \in S THEN With(Picked(f, S), x) ELSE Picked(f, S)
    BY <2>2, PickedWith
  <2>6. Picked(With(p, x), S) = IF x \in S THEN With(Picked(p, S), x) ELSE Picked(p, S)
    BY <2>4, PickedWith
  <2>7. Picked(Picked(First(s, m), R), S) = Picked(First(s, m), S)
    BY <2>2, <2>3, <2>4, <2>5, <2>6
  <2>8. m \in 0..n
    BY <1>0
  <2> QED BY <2>7, <2>8
<1> HIDE DEF G
<1>3. n \in G
  <2>1. \A m \in 0..n : m \in G
    BY <1>0, <1>1, <1>2, Counted
  <2> QED BY <1>0, <2>1
<1>4. First(s, n) = s
  BY <1>0, ListedPlaces DEF First
<1> QED BY <1>3, <1>4 DEF G

\* What an item makes of a timeline.
LEMMA AddItemIs ==
  ASSUME NEW s, Listed(s), NEW x, NEW R, R = {e \in ToSet(s) : e.key # x.key}
  PROVE  /\ x.key # NoKey => AddItem(s, x) = With(Picked(s, R), x)
         /\ x.key = NoKey => AddItem(s, x) \in {s, With(s, x)}
<1>1. ASSUME x.key # NoKey PROVE AddItem(s, x) = With(Picked(s, R), x)
  <2>1. AddItem(s, x) = Append(Only(s, LAMBDA e : e.key # x.key), x)
    BY <1>1 DEF AddItem
  <2>2. PICK ss : ss = [k \in DOMAIN s |-> IF s[k] \in R THEN <<s[k]>> ELSE <<>>]
    OBVIOUS
  <2>3. \A k \in DOMAIN s : s[k] \in R <=> s[k].key # x.key
    BY InList, ListedPlaces
  <2>4. ss = [k \in DOMAIN s |-> IF s[k].key # x.key THEN <<s[k]>> ELSE <<>>]
    BY <2>2, <2>3
  <2>5. Only(s, LAMBDA e : e.key # x.key) = Picked(s, R)
    BY <2>2, <2>4 DEF Only, Picked
  <2> QED BY <2>1, <2>5 DEF With
<1>2. ASSUME x.key = NoKey PROVE AddItem(s, x) \in {s, With(s, x)}
  BY <1>2 DEF AddItem, With
<1> QED BY <1>1, <1>2

LEMMA AddUnrepeated ==
  ASSUME NEW s, Unrepeated(s), NEW x, NEW z, z = AddItem(s, x)
  PROVE  Unrepeated(z) /\ \A e \in ToSet(z) : e = x \/ e \in ToSet(s)
<1>0. Listed(s)
  BY DEF Unrepeated
<1>1. PICK R, p : R = {e \in ToSet(s) : e.key # x.key} /\ p = Picked(s, R)
  OBVIOUS
<1>2. CASE x.key = NoKey
  <2>1. z \in {s, With(s, x)}
    BY <1>0, <1>1, <1>2, AddItemIs
  <2>2. Unrepeated(With(s, x)) /\ ToSet(With(s, x)) = ToSet(s) \cup {x}
    BY <1>0, <1>2, UnrepeatedWith, WithSet
  <2> QED BY <2>1, <2>2
<1>3. CASE x.key # NoKey
  <2>1. z = With(p, x)
    BY <1>0, <1>1, <1>3, AddItemIs
  <2>2. Unrepeated(p) /\ Listed(p) /\ \A e \in ToSet(p) : e \in R
    <3>1. Unrepeated(p)
      BY <1>1, PickedUnrepeated
    <3>2. Listed(p)
      BY <3>1 DEF Unrepeated
    <3>3. \A e \in ToSet(p) : e \in R
      BY <1>0, <1>1, PickedIn
    <3> QED BY <3>1, <3>2, <3>3
  <2>3. \A k \in 1..Len(p) : p[k].key # x.key
    BY <1>1, <2>2, InList
  <2>4. Unrepeated(z) /\ ToSet(z) = ToSet(p) \cup {x}
    BY <2>1, <2>2, <2>3, UnrepeatedWith, WithSet
  <2> QED BY <1>1, <2>2, <2>4
<1> QED BY <1>2, <1>3

LEMMA DedupeUnrepeated ==
  ASSUME NEW s, Listed(s), NEW z, z = Dedupe(s)
  PROVE  Unrepeated(z) /\ \A e \in ToSet(z) : e \in ToSet(s)
<1>0. PICK n \in Nat : n = Len(s)
  BY ListedPlaces
<1>1. PICK g : /\ g[0] = <<>> /\ Dedupe(s) = g[n]
               /\ \A m \in 1..n : g[m] = AddItem(g[m - 1], s[m])
  BY <1>0, DedupePlaces
<1> DEFINE G == {m \in 0..n : Unrepeated(g[m]) /\ \A e \in ToSet(g[m]) : e \in ToSet(s)}
<1>2. 0 \in G
  <2>1. PICK p : p = g[0]
    OBVIOUS
  <2>2. Listed(p) /\ Len(p) = 0
    BY <1>1, <2>1, ListedShort
  <2>3. Unrepeated(p) /\ ToSet(p) = {}
    BY <2>2, InList DEF Unrepeated
  <2> QED BY <1>0, <2>1, <2>3
<1>3. ASSUME NEW m \in 1..n, m - 1 \in G PROVE m \in G
  <2>1. PICK p, x, q : p = g[m - 1] /\ x = s[m] /\ q = AddItem(p, x)
    OBVIOUS
  <2>2. Unrepeated(p) /\ \A e \in ToSet(p) : e \in ToSet(s)
    BY <1>3, <2>1
  <2>3. x \in ToSet(s)
    BY <1>0, <2>1, InList
  <2>4. Unrepeated(q) /\ \A e \in ToSet(q) : e = x \/ e \in ToSet(p)
    BY <2>1, <2>2, AddUnrepeated
  <2>5. g[m] = q
    BY <1>1, <2>1
  <2>6. m \in 0..n
    BY <1>0
  <2> QED BY <2>2, <2>3, <2>4, <2>5, <2>6
<1> HIDE DEF G
<1>4. n \in G
  <2>1. \A m \in 0..n : m \in G
    BY <1>0, <1>2, <1>3, Counted
  <2> QED BY <1>0, <2>1
<1> QED BY <1>1, <1>4 DEF G

\* The merging leaves items alone whose keys no other item has.
LEMMA DedupePicked ==
  ASSUME NEW s, Listed(s), NEW S, \A e \in S : e.key # NoKey,
         \A e \in S : \A j, k \in 1..Len(s) : s[j].key = e.key /\ s[k].key = e.key => j = k
  PROVE  Picked(Dedupe(s), S) = Picked(s, S)
<1>0. PICK n \in Nat : n = Len(s)
  BY ListedPlaces
<1>1. PICK g : /\ g[0] = <<>> /\ Dedupe(s) = g[n]
               /\ \A m \in 1..n : g[m] = AddItem(g[m - 1], s[m])
  BY <1>0, DedupePlaces
<1> DEFINE Same(m) ==
      /\ Unrepeated(g[m]) /\ \A e \in ToSet(g[m]) : \E j \in 1..m : e = s[j]
      /\ Picked(g[m], S) = Picked(First(s, m), S)
           G == {m \in 0..n : Same(m)}
<1>2. 0 \in G
  <2>1. PICK p : p = g[0]
    OBVIOUS
  <2>2. Listed(p) /\ Len(p) = 0
    BY <1>1, <2>1, ListedShort
  <2>3. Unrepeated(p) /\ ToSet(p) = {}
    BY <2>2, InList DEF Unrepeated
  <2>4. p = <<>> /\ First(s, 0) = <<>>
    BY <1>1, <2>1 DEF First
  <2>5. Same(0)
    BY <2>1, <2>3, <2>4
  <2> QED BY <1>0, <2>5
<1>3. ASSUME NEW m \in 1..n, m - 1 \in G PROVE m \in G
  <2>1. PICK p, x, f : p = g[m - 1] /\ x = s[m] /\ f = First(s, m - 1)
    OBVIOUS
  <2>2. /\ Unrepeated(p) /\ (\A e \in ToSet(p) : \E j \in 1..m - 1 : e = s[j])
        /\ Picked(p, S) = Picked(f, S)
    BY <1>3, <2>1
  <2>3. PICK q : q = AddItem(p, x)
    OBVIOUS
  <2>4. g[m] = q /\ Unrepeated(q) /\ \A e \in ToSet(q) : e = x \/ e \in ToSet(p)
    BY <1>1, <2>1, <2>2, <2>3, AddUnrepeated
  <2>5. \A j \in 1..m - 1 : j \in 1..m /\ j \in 1..n /\ j # m
    BY <1>0
  <2>6. \A e \in ToSet(g[m]) : \E j \in 1..m : e = s[j]
    <3>1. m \in 1..m
      BY <1>0
    <3> QED BY <2>1, <2>2, <2>4, <2>5, <3>1
  <2>7. Listed(f) /\ First(s, m) = With(f, x) /\ Listed(p)
    BY <1>0, <2>1, <2>2, FirstGrows DEF With, Unrepeated
  <2>8. Picked(With(f, x), S) = IF x \in S THEN With(Picked(f, S), x) ELSE Picked(f, S)
    BY <2>7, PickedWith
  <2>9. Picked(With(p, x), S) = IF x \in S THEN With(Picked(p, S), x) ELSE Picked(p, S)
    BY <2>7, PickedWith
  <2>10. PICK R : R = {e \in ToSet(p) : e.key # x.key}
    OBVIOUS
  <2>11. CASE x.key = NoKey
    <3>1. x \notin S
      BY <2>11
    <3>2. q \in {p, With(p, x)}
      BY <2>3, <2>7, <2>10, <2>11, AddItemIs
    <3>3. Picked(g[m], S) = Picked(First(s, m), S)
      BY <2>2, <2>4, <2>7, <2>8, <2>9, <3>1, <3>2
    <3>4. Same(m)
      BY <2>4, <2>6, <3>3
    <3> QED BY <1>0, <3>4
  <2>12. CASE x.key # NoKey
    <3>1. PICK r : r = Picked(p, R)
      OBVIOUS
    <3>2. q = With(r, x)
      BY <2>3, <2>7, <2>10, <2>12, <3>1, AddItemIs
    <3>3. ASSUME NEW e \in ToSet(p), e \in S PROVE e \in R
      <4>1. PICK j \in 1..m - 1 : e = s[j]
        BY <2>2, <3>3
      <4>2. s[j].key # s[m].key
        BY <1>0, <2>5, <3>3, <4>1
      <4> QED BY <2>1, <2>10, <4>1, <4>2
    <3>4. Picked(r, S) = Picked(p, S)
      BY <2>7, <3>1, <3>3, PickedPicked
    <3>5. Listed(r)
      BY <2>7, <3>1, PickedWith
    <3>6. Picked(With(r, x), S) = IF x \in S THEN With(Picked(r, S), x) ELSE Picked(r, S)
      BY <3>5, PickedWith
    <3>7. Picked(g[m], S) = Picked(First(s, m), S)
      BY <2>2, <2>4, <2>7, <2>8, <3>2, <3>4, <3>6
    <3>8. Same(m)
      BY <2>4, <2>6, <3>7
    <3> QED BY <1>0, <3>8
  <2> QED BY <2>11, <2>12
<1> HIDE DEF G
<1>4. n \in G
  <2>1. \A m \in 0..n : m \in G
    BY <1>0, <1>2, <1>3, Counted
  <2> QED BY <1>0, <2>1
<1>5. First(s, n) = s
  BY <1>0, ListedPlaces DEF First
<1>6. Same(n)
  BY <1>4 DEF G
<1> QED BY <1>1, <1>5, <1>6

LEMMA PickedSame ==
  ASSUME NEW s, Listed(s), NEW R, NEW S, \A e \in ToSet(s) : e \in R <=> e \in S
  PROVE  Picked(s, R) = Picked(s, S)
<1>1. \A k \in DOMAIN s : s[k] \in R <=> s[k] \in S
  BY InList, ListedPlaces
<1>2. [k \in DOMAIN s |-> IF s[k] \in R THEN <<s[k]>> ELSE <<>>]
        = [k \in DOMAIN s |-> IF s[k] \in S THEN <<s[k]>> ELSE <<>>]
  BY <1>1
<1> QED BY <1>2 DEF Picked

\* A timeline has the items of w, and in their order.
Has(s, w) == Picked(s, ToSet(w)) = w

\* No item has the key of one of w.
Apart(x, w) == \A j \in 1..Len(x), k \in 1..Len(w) : x[j].key # w[k].key

LEMMA ApartNone ==
  ASSUME NEW x, Listed(x), NEW w, Listed(w), Apart(x, w)
  PROVE  Picked(x, ToSet(w)) = <<>>
<1>1. ASSUME NEW j \in 1..Len(x) PROVE x[j] \notin ToSet(w)
  <2>1. SUFFICES ASSUME x[j] \in ToSet(w) PROVE FALSE
    OBVIOUS
  <2>2. PICK k \in 1..Len(w) : x[j] = w[k]
    BY <2>1, InList
  <2> QED BY <2>2 DEF Apart
<1> QED BY <1>1, PickedNone

\* The places of a joined timeline.
LEMMA JoinedPlace ==
  ASSUME NEW s, Listed(s), NEW x, Listed(x), NEW z, z = Joined(s, x), NEW j \in 1..Len(z)
  PROVE  \/ j \in 1..Len(s) /\ z[j] = s[j]
         \/ \E i \in 1..Len(x) : j = Len(s) + i /\ z[j] = x[i]
<1>1. IsJoin(z, s, x)
  BY JoinedPlaces
<1> QED BY <1>1 DEF IsJoin

\* What is merged into a timeline leaves the items alone whose keys it does not have.
LEMMA HasMerged ==
  ASSUME NEW s, Unrepeated(s), NEW w, Keyed(w), Has(s, w), NEW x, Listed(x), Apart(x, w)
  PROVE  Has(Dedupe(Joined(s, x)), w)
<1>1. Listed(s) /\ Listed(w)
  BY DEF Unrepeated, Keyed
<1>2. PICK z, S : z = Joined(s, x) /\ S = ToSet(w)
  OBVIOUS
<1>3. Listed(z)
  BY <1>1, <1>2, JoinedPlaces DEF IsJoin
<1>4. ASSUME NEW e \in S PROVE /\ e.key # NoKey
                               /\ \A j, k \in 1..Len(z) : z[j].key = e.key /\ z[k].key = e.key => j = k
  <2>1. PICK i \in 1..Len(w) : e = w[i]
    BY <1>1, <1>2, <1>4, InList
  <2>2. e.key # NoKey
    BY <2>1 DEF Keyed
  <2>3. ASSUME NEW j \in 1..Len(z), z[j].key = e.key PROVE j \in 1..Len(s) /\ z[j] = s[j]
    <3>1. ASSUME NEW l \in 1..Len(x) PROVE z[j] # x[l]
      BY <2>1, <2>3 DEF Apart
    <3> QED BY <1>1, <1>2, <3>1, JoinedPlace
  <2> QED BY <2>2, <2>3 DEF Unrepeated
<1>5. Picked(Dedupe(z), S) = Picked(z, S)
  BY <1>3, <1>4, DedupePicked
<1>6. Picked(z, S) = Joined(Picked(s, S), Picked(x, S))
  BY <1>1, <1>2, PickedJoined
<1>7. Picked(s, S) = w /\ Picked(x, S) = <<>>
  BY <1>1, <1>2, ApartNone DEF Has
<1>8. Joined(w, <<>>) = w
  BY <1>1, JoinedNothing
<1> QED BY <1>2, <1>5, <1>6, <1>7, <1>8 DEF Has

LEMMA HasNothing ==
  ASSUME NEW s, Listed(s)
  PROVE  Has(s, <<>>)
<1>1. PICK w : w = <<>>
  OBVIOUS
<1>2. Listed(w) /\ Len(w) = 0
  BY <1>1, ListedShort
<1>3. ToSet(w) = {}
  BY <1>2, InList
<1>4. Picked(s, ToSet(w)) = <<>>
  BY <1>3, PickedNone
<1> QED BY <1>1, <1>4 DEF Has

\* Leaving out the steps leaves out nothing else.
LEMMA StepsOut ==
  ASSUME NEW s, Unrepeated(s), NEW z, z = WithoutSteps(s)
  PROVE  /\ Unrepeated(z) /\ \A e \in ToSet(z) : e \in ToSet(s) /\ e.type # "workflow_step"
         /\ \A w : Listed(w) /\ Has(s, w) /\ (\A k \in 1..Len(w) : w[k].type # "workflow_step") => Has(z, w)
<1>1. PICK R : R = {e \in ToSet(s) : e.type # "workflow_step"}
  OBVIOUS
<1>2. Listed(s)
  BY DEF Unrepeated
<1>3. \A k \in 1..Len(s) : s[k] \in R <=> s[k].type # "workflow_step"
  BY <1>1, <1>2, InList
<1>4. z = Picked(s, R)
  BY <1>2, <1>3, WithoutStepsIsPicked
<1>5. Unrepeated(z)
  BY <1>4, PickedUnrepeated
<1>6. \A e \in ToSet(z) : e \in R
  BY <1>2, <1>4, PickedIn
<1>7. ASSUME NEW w, Listed(w), Has(s, w), \A k \in 1..Len(w) : w[k].type # "workflow_step" PROVE Has(z, w)
  <2>1. PICK S : S = ToSet(w)
    OBVIOUS
  <2>2. ASSUME NEW e \in ToSet(s), e \in S PROVE e \in R
    <3>1. PICK k \in 1..Len(w) : e = w[k]
      BY <1>7, <2>1, <2>2, InList
    <3> QED BY <1>1, <1>7, <2>2, <3>1
  <2>3. Picked(Picked(s, R), S) = Picked(s, S)
    BY <1>2, <2>2, PickedPicked
  <2> QED BY <1>4, <1>7, <2>1, <2>3 DEF Has
<1> QED BY <1>1, <1>5, <1>6, <1>7

\* A timeline that repeats no key, and whose items of turns have keys of K.
Tidy(s, K) == Unrepeated(s) /\ \A e \in ToSet(s), t \in Turn : BelongsTo(e, t) => e.key \in K

\* Words of a turn.
OfTurn(w, v) == Keyed(w) /\ \A k \in 1..Len(w) : BelongsTo(w[k], v) /\ w[k].type # "workflow_step"

OfOthers(x, v) == \A k \in 1..Len(x) : ~BelongsTo(x[k], v)

LEMMA ForeignApart ==
  ASSUME NEW x, NEW v, OfOthers(x, v), NEW w, OfTurn(w, v)
  PROVE  Apart(x, w)
BY DEF OfOthers, OfTurn, Apart, BelongsTo

LEMMA TidyGrows ==
  ASSUME NEW s, NEW K, NEW L, Tidy(s, K), K \subseteq L
  PROVE  Tidy(s, L)
BY DEF Tidy

LEMMA TidyNothing ==
  ASSUME NEW s, s = <<>>, NEW K
  PROVE  Tidy(s, K)
<1>1. Listed(s) /\ Len(s) = 0
  BY ListedShort
<1>2. ToSet(s) = {}
  BY <1>1, InList
<1> QED BY <1>1, <1>2 DEF Tidy, Unrepeated

LEMMA HasForeign ==
  ASSUME NEW s, Unrepeated(s), NEW v, NEW w, OfTurn(w, v), Has(s, w), NEW x, Listed(x), OfOthers(x, v)
  PROVE  Has(Dedupe(Joined(s, x)), w)
<1>1. Apart(x, w)
  BY ForeignApart
<1>2. Keyed(w)
  BY DEF OfTurn
<1> QED BY <1>1, <1>2, HasMerged

LEMMA TidyMerged ==
  ASSUME NEW K, NEW s, Tidy(s, K), NEW x, Listed(x),
         \A k \in 1..Len(x), t \in Turn : BelongsTo(x[k], t) => x[k].key \in K
  PROVE  Tidy(Dedupe(Joined(s, x)), K)
<1>1. PICK z, q : z = Joined(s, x) /\ q = Dedupe(z)
  OBVIOUS
<1>2. Listed(s) /\ Unrepeated(s)
  BY DEF Tidy, Unrepeated
<1>3. Listed(z)
  BY <1>1, <1>2, JoinedPlaces DEF IsJoin
<1>4. Unrepeated(q) /\ \A e \in ToSet(q) : e \in ToSet(z)
  BY <1>1, <1>3, DedupeUnrepeated
<1>5. ASSUME NEW e \in ToSet(q), NEW t \in Turn, BelongsTo(e, t) PROVE e.key \in K
  <2>1. PICK j \in 1..Len(z) : e = z[j]
    BY <1>3, <1>4, InList
  <2>2. CASE j \in 1..Len(s) /\ z[j] = s[j]
    <3>1. s[j] \in ToSet(s)
      BY <1>2, <2>2, InList
    <3> QED BY <1>5, <2>1, <2>2, <3>1 DEF Tidy
  <2>3. ASSUME NEW i \in 1..Len(x), z[j] = x[i] PROVE e.key \in K
    BY <1>5, <2>1, <2>3
  <2> QED BY <1>1, <1>2, <2>1, <2>2, <2>3, JoinedPlace
<1> QED BY <1>1, <1>4, <1>5 DEF Tidy

\* An item more.
LEMMA OneMore ==
  ASSUME NEW s, Listed(s), NEW x
  PROVE  AppendItem(s, x) = Dedupe(Joined(s, <<x>>))
BY ListedAppend DEF AppendItem, Joined

LEMMA HasOneMore ==
  ASSUME NEW s, Unrepeated(s), NEW v, NEW w, OfTurn(w, v), Has(s, w), NEW x, ~BelongsTo(x, v)
  PROVE  Has(AppendItem(s, x), w)
<1>1. PICK xx : xx = <<x>>
  OBVIOUS
<1>2. Listed(xx) /\ Len(xx) = 1 /\ xx[1] = x
  BY <1>1, ListedShort
<1>3. OfOthers(xx, v)
  BY <1>2 DEF OfOthers
<1>4. Listed(s)
  BY DEF Unrepeated
<1> QED BY <1>1, <1>2, <1>3, <1>4, HasForeign, OneMore

LEMMA TidyOneMore ==
  ASSUME NEW K, NEW s, Tidy(s, K), NEW x, \A t \in Turn : BelongsTo(x, t) => x.key \in K
  PROVE  Tidy(AppendItem(s, x), K)
<1>1. PICK xx : xx = <<x>>
  OBVIOUS
<1>2. Listed(xx) /\ Len(xx) = 1 /\ xx[1] = x
  BY <1>1, ListedShort
<1>3. Listed(s)
  BY DEF Tidy, Unrepeated
<1>4. \A k \in 1..Len(xx), t \in Turn : BelongsTo(xx[k], t) => xx[k].key \in K
  BY <1>2
<1> QED BY <1>1, <1>2, <1>3, <1>4, TidyMerged, OneMore

\* What a turn says when it begins.
LEMMA WordsSpoken ==
  ASSUME NEW K, NEW t, <<"message", t>> \in K, NEW s, Tidy(s, K), NEW z, z = WithUserMessage(s, t)
  PROVE  /\ Tidy(z, K)
         /\ \A v, w : v # t /\ OfTurn(w, v) /\ Has(s, w) => Has(z, w)
<1>1. PICK x : x = UserMessage(t)
  OBVIOUS
<1>2. x.key = <<"message", t>>
  BY <1>1 DEF UserMessage, Item
<1>3. z = s \/ z = AppendItem(s, x)
  BY <1>1 DEF WithUserMessage
<1>4. Tidy(AppendItem(s, x), K)
  BY <1>2, TidyOneMore
<1>5. ASSUME NEW v, NEW w, v # t, OfTurn(w, v), Has(s, w) PROVE Has(AppendItem(s, x), w)
  <2>1. ~BelongsTo(x, v)
    BY <1>2, <1>5 DEF BelongsTo
  <2>2. Unrepeated(s)
    BY DEF Tidy
  <2> QED BY <1>5, <2>1, <2>2, HasOneMore
<1> QED BY <1>3, <1>4, <1>5

LEMMA TransitionSpoken ==
  ASSUME NEW K, NEW t, NEW s, Tidy(s, K), NEW z, z = WithTransition(s, t)
  PROVE  /\ Tidy(z, K)
         /\ \A v, w : OfTurn(w, v) /\ Has(s, w) => Has(z, w)
<1>1. PICK x : x = Item("resume_transition", "resumed", <<"resume">>)
  OBVIOUS
<1>2. x.key = <<"resume">> /\ Len(x.key) = 1
  BY <1>1 DEF Item
<1>3. z = s \/ z = AppendItem(s, x)
  BY <1>1 DEF WithTransition
<1>4. \A v : ~BelongsTo(x, v)
  BY <1>2 DEF BelongsTo
<1>5. Tidy(AppendItem(s, x), K)
  BY <1>4, TidyOneMore
<1>6. ASSUME NEW v, NEW w, OfTurn(w, v), Has(s, w) PROVE Has(AppendItem(s, x), w)
  <2>1. Unrepeated(s)
    BY DEF Tidy
  <2> QED BY <1>4, <1>6, <2>1, HasOneMore
<1> QED BY <1>3, <1>5, <1>6

\* What an event adds.
Unkeyed(x) == Listed(x) /\ \A k \in 1..Len(x) : x[k].key = NoKey

LEMMA UnkeyedForeign ==
  ASSUME NEW x, Unkeyed(x)
  PROVE  \A v : OfOthers(x, v)
BY DEF Unkeyed, OfOthers, BelongsTo, NoKey

LEMMA Emitted ==
  ASSUME NEW K, NEW s, Tidy(s, K), NEW result, Unkeyed(result),
         NEW new, Keyed(new), \A k \in 1..Len(new) : new[k].key \in K,
         NEW z, z = Merge(Merge(s, result), WithoutSteps(new))
  PROVE  /\ Tidy(z, K)
         /\ \A v, w : OfTurn(w, v) /\ OfOthers(new, v) /\ Has(s, w) => Has(z, w)
<1>1. PICK m, n : m = Merge(s, result) /\ n = WithoutSteps(new)
  OBVIOUS
<1>2. m = Dedupe(Joined(s, result)) /\ z = Dedupe(Joined(m, n))
  BY <1>1 DEF Merge, Joined
<1>3. Listed(result) /\ Listed(new) /\ Unrepeated(new) /\ Unrepeated(s)
  BY DEF Unkeyed, Keyed, Unrepeated, Tidy
<1>4. Unrepeated(n) /\ \A e \in ToSet(n) : e \in ToSet(new)
  BY <1>1, <1>3, StepsOut
<1>5. Listed(n)
  BY <1>4 DEF Unrepeated
<1>6. \A k \in 1..Len(n) : \E j \in 1..Len(new) : n[k] = new[j]
  BY <1>3, <1>4, <1>5, InList
<1>7. \A k \in 1..Len(result), t \in Turn : ~BelongsTo(result[k], t)
  BY UnkeyedForeign DEF OfOthers
<1>8. Tidy(m, K)
  BY <1>2, <1>3, <1>7, TidyMerged
<1>9. Tidy(z, K)
  BY <1>2, <1>5, <1>6, <1>8, TidyMerged
<1>10. ASSUME NEW v, NEW w, OfTurn(w, v), OfOthers(new, v), Has(s, w) PROVE Has(z, w)
  <2>1. OfOthers(n, v)
    BY <1>6, <1>10 DEF OfOthers
  <2>2. Has(m, w)
    BY <1>2, <1>3, <1>10, UnkeyedForeign, HasForeign
  <2>3. Unrepeated(m)
    BY <1>8 DEF Tidy
  <2> QED BY <1>2, <1>5, <1>10, <2>1, <2>2, <2>3, HasForeign
<1> QED BY <1>9, <1>10

-----------------------------------------------------------------------------
(* What a turn leaves in the session                                       *)

Spoken(t) == IF turns[t].text = NoText THEN <<>> ELSE <<UserMessage(t)>>

LEMMA SpokenIs ==
  ASSUME NEW t
  PROVE  /\ OfTurn(Spoken(t), t) /\ WithUserMessage(<<>>, t) = Spoken(t)
         /\ \A k \in 1..Len(Spoken(t)) : Spoken(t)[k].key = <<"message", t>>
<1>1. PICK x, s, e : x = UserMessage(t) /\ s = Spoken(t) /\ e = <<>>
  OBVIOUS
<1>2. x.key = <<"message", t>> /\ x.type = "user_message" /\ Len(x.key) = 2 /\ x.key[2] = t
  BY <1>1 DEF UserMessage, Item
<1>3. Listed(e) /\ Len(e) = 0
  BY <1>1, ListedShort
<1>4. Keyed(e) /\ \A k \in 1..Len(e) : e[k].key # <<"message", t>>
  BY <1>3 DEF Keyed
<1>5. WithUserMessage(e, t) = IF turns[t].text = NoText THEN e ELSE With(e, x)
  BY <1>1, <1>4, WordsBehind
<1>6. With(e, x) = <<x>>
  BY <1>1 DEF With
<1>7. WithUserMessage(<<>>, t) = s
  BY <1>1, <1>5, <1>6 DEF Spoken
<1>8. s = e \/ s = <<x>>
  BY <1>1 DEF Spoken
<1>9. Listed(<<x>>) /\ Len(<<x>>) = 1 /\ <<x>>[1] = x
  BY ListedShort
<1>10. Listed(s) /\ \A k \in 1..Len(s) : k = 1 /\ s[k] = x
  BY <1>3, <1>8, <1>9
<1>11. x.key # NoKey
  <2>1. Len(NoKey) = 0
    BY DEF NoKey
  <2> QED BY <1>2, <2>1
<1>12. Keyed(s)
  BY <1>10, <1>11 DEF Keyed
<1>13. \A k \in 1..Len(s) : BelongsTo(s[k], t) /\ s[k].type # "workflow_step"
  BY <1>2, <1>10 DEF BelongsTo
<1> QED BY <1>1, <1>2, <1>7, <1>10, <1>12, <1>13 DEF OfTurn

LEMMA KeyedIs ==
  ASSUME NEW s
  PROVE  Keyed(s) <=> Unrepeated(s) /\ \A k \in 1..Len(s) : s[k].key # NoKey
BY DEF Keyed, Unrepeated

\* The items of a turn but for its steps.
LEMMA ItemsOfTurn ==
  ASSUME NEW t, NEW s, Own(s, t), NEW w, w = WithoutSteps(s)
  PROVE  /\ OfTurn(w, t)
         /\ \A k \in 1..Len(w) : w[k].key # <<"message", t>> /\ \E n \in 1..Len(s) : w[k] = s[n]
<1>1. Keyed(s) /\ \A n \in 1..Len(s) : BelongsTo(s[n], t) /\ s[n].key # <<"message", t>>
  BY ItemsKeyed
<1>2. Unrepeated(s) /\ Listed(s)
  BY <1>1, KeyedIs DEF Keyed
<1>3. Unrepeated(w) /\ \A e \in ToSet(w) : e \in ToSet(s) /\ e.type # "workflow_step"
  BY <1>2, StepsOut
<1>4. Listed(w)
  BY <1>3 DEF Unrepeated
<1>5. ASSUME NEW k \in 1..Len(w)
      PROVE  w[k].type # "workflow_step" /\ \E n \in 1..Len(s) : w[k] = s[n]
  <2>1. w[k] \in ToSet(w)
    BY <1>4, InList
  <2> QED BY <1>2, <1>3, <2>1, InList
<1>6. \A k \in 1..Len(w) : w[k].key # NoKey /\ BelongsTo(w[k], t) /\ w[k].key # <<"message", t>>
  BY <1>1, <1>5 DEF Keyed
<1>7. Keyed(w)
  BY <1>3, <1>6, KeyedIs
<1> QED BY <1>5, <1>6, <1>7 DEF OfTurn

LEMMA TurnItemsAre ==
  ASSUME NEW t, Own(turns[t].items, t), NEW w, w = TurnItems(t)
  PROVE  OfTurn(w, t) /\ w = Joined(Spoken(t), WithoutSteps(turns[t].items))
<1>1. PICK s, n : s = Spoken(t) /\ n = WithoutSteps(turns[t].items)
  OBVIOUS
<1>2. OfTurn(s, t) /\ \A k \in 1..Len(s) : s[k].key = <<"message", t>>
  BY <1>1, SpokenIs
<1>3. OfTurn(n, t) /\ \A k \in 1..Len(n) : n[k].key # <<"message", t>>
  BY <1>1, ItemsOfTurn
<1>4. w = Joined(s, n)
  BY <1>1, SpokenIs DEF TurnItems, Joined
<1>5. Keyed(w)
  BY <1>2, <1>3, <1>4, KeyedConcat DEF OfTurn
<1>6. Listed(s) /\ Listed(n)
  BY <1>2, <1>3 DEF OfTurn, Keyed
<1>7. ASSUME NEW j \in 1..Len(w) PROVE BelongsTo(w[j], t) /\ w[j].type # "workflow_step"
  <2>1. \/ j \in 1..Len(s) /\ w[j] = s[j]
        \/ \E i \in 1..Len(n) : j = Len(s) + i /\ w[j] = n[i]
    <3>1. IsJoin(w, s, n)
      BY <1>4, <1>6, JoinedPlaces
    <3> QED BY <3>1 DEF IsJoin
  <2> QED BY <1>2, <1>3, <2>1 DEF OfTurn
<1> QED BY <1>1, <1>4, <1>5, <1>7 DEF OfTurn

\* The keys of turns.
KeysOf(P) ==
  {<<"message", t>> : t \in P}
    \cup UNION {{<<kind, t, n>> : kind \in {"step", "seq"}, n \in 1..Len(turns[t].items)} : t \in P}

LEMMA KeyIs ==
  ASSUME NEW P, NEW key \in KeysOf(P)
  PROVE  \/ \E t \in P : key = <<"message", t>>
         \/ \E t \in P : \E n \in 1..Len(turns[t].items) : key = <<"step", t, n>> \/ key = <<"seq", t, n>>
BY DEF KeysOf

LEMMA KeyOwner ==
  ASSUME NEW P, NEW e, e.key \in KeysOf(P), NEW v, BelongsTo(e, v)
  PROVE  v \in P
BY KeyIs DEF BelongsTo

LEMMA KeysHere ==
  ASSUME NEW P
  PROVE  /\ \A t \in P : <<"message", t>> \in KeysOf(P)
         /\ \A t \in P : \A n \in 1..Len(turns[t].items) :
              <<"step", t, n>> \in KeysOf(P) /\ <<"seq", t, n>> \in KeysOf(P)
BY DEF KeysOf

LEMMA KeysGrow ==
  ASSUME NEW P, NEW Q, P \subseteq Q,
         \A t \in P : /\ Len(turns[t].items) \in Nat /\ Len(turns'[t].items) \in Nat
                      /\ Len(turns[t].items) <= Len(turns'[t].items)
  PROVE  KeysOf(P) \subseteq KeysOf(Q)'
<1>1. ASSUME NEW key \in KeysOf(P) PROVE key \in KeysOf(Q)'
  <2>1. CASE \E t \in P : key = <<"message", t>>
    BY <2>1 DEF KeysOf
  <2>2. ASSUME NEW t \in P, NEW n \in 1..Len(turns[t].items), key = <<"step", t, n>> \/ key = <<"seq", t, n>>
        PROVE  key \in KeysOf(Q)'
    <3>1. n \in 1..Len(turns'[t].items) /\ t \in Q
      OBVIOUS
    <3> QED BY <2>2, <3>1 DEF KeysOf
  <2> QED BY <2>1, <2>2, KeyIs
<1> QED BY <1>1

LEMMA ResultUnkeyed ==
  ASSUME NEW t, NEW how, Listed(turns[t].items)
  PROVE  Unkeyed(ResultTimeline(t, how))
<1>1. PICK s : s = turns[t].items
  OBVIOUS
<1>2. PICK warned : warned = Only(s, LAMBDA item : item.type = "warning_card")
  OBVIOUS
<1>3. Listed(warned)
  <2>1. PICK R : R = {e \in ToSet(s) : e.type = "warning_card"}
    OBVIOUS
  <2>2. \A k \in DOMAIN s : s[k] \in R <=> s[k].type = "warning_card"
    BY <1>1, <2>1, InList, ListedPlaces
  <2>3. [k \in DOMAIN s |-> IF s[k].type = "warning_card" THEN <<s[k]>> ELSE <<>>]
          = [k \in DOMAIN s |-> IF s[k] \in R THEN <<s[k]>> ELSE <<>>]
    BY <2>2
  <2>4. warned = Picked(s, R)
    BY <1>2, <2>3 DEF Only, Picked
  <2> QED BY <1>1, <2>4, PickedWith
<1>4. PICK a, b, c : /\ a = (IF how = "question" THEN <<Item("question_card", "which", NoKey)>> ELSE <<>>)
                     /\ b = [k \in DOMAIN warned |-> Item(warned[k].type, warned[k].text, NoKey)]
                     /\ c = (IF how \in WithAnswer
                             THEN <<Item("assistant_answer", Decorated(FinalText(how)), NoKey)>> ELSE <<>>)
  OBVIOUS
<1>5. \A type, text : Item(type, text, NoKey).key = NoKey
  BY DEF Item
<1>6. Unkeyed(a) /\ Unkeyed(c)
  BY <1>4, <1>5, ListedShort DEF Unkeyed
<1>7. Unkeyed(b)
  <2>1. PICK n \in Nat : n = Len(warned)
    BY <1>3, ListedPlaces
  <2>2. b = [k \in 1..n |-> Item(warned[k].type, warned[k].text, NoKey)]
    BY <1>3, <1>4, <2>1, ListedPlaces
  <2>3. IsList(b, n) /\ \A k \in 1..n : b[k].key = NoKey
    BY <1>5, <2>2 DEF IsList
  <2> QED BY <2>3, ListedOf DEF Unkeyed
<1>8. ASSUME NEW x, NEW y, Unkeyed(x), Unkeyed(y) PROVE Unkeyed(Joined(x, y))
  <2>1. PICK z : z = Joined(x, y)
    OBVIOUS
  <2>2. Listed(x) /\ Listed(y)
    BY <1>8 DEF Unkeyed
  <2>3. Listed(z)
    BY <2>1, <2>2, JoinedPlaces DEF IsJoin
  <2>4. ASSUME NEW k \in 1..Len(z) PROVE z[k].key = NoKey
    <3>1. \/ k \in 1..Len(x) /\ z[k] = x[k]
          \/ \E i \in 1..Len(y) : k = Len(x) + i /\ z[k] = y[i]
      BY <2>1, <2>2, JoinedPlace
    <3> QED BY <1>8, <3>1 DEF Unkeyed
  <2> QED BY <2>1, <2>3, <2>4 DEF Unkeyed
<1>9. ResultTimeline(t, how) = Joined(Joined(a, b), c)
  BY <1>1, <1>2, <1>4 DEF ResultTimeline, Joined
<1> QED BY <1>6, <1>7, <1>8, <1>9

-----------------------------------------------------------------------------
(* The invariant                                                           *)

Reading == {"routed", "staged", "running", "ended"}

\* Words a later turn did not read, or did not have to.
WordsLost(v) == \E u \in Begun : TurnsOverlap(u, v) \/ (v \in turns[u].before /\ turns[u].blind)

Excused(v) == \E u \in Begun : MayLose(u, v)

Wellformed(s) == s = [messages |-> s.messages, transcript |-> s.transcript] /\ Listed(s.messages)

\* What a turn read has the words of the turns that were over by then.
ReadsWords(u) ==
  /\ Wellformed(turns[u].base)
  /\ Tidy(turns[u].base.transcript, KeysOf(Begun \ {u}))
  /\ \A v \in turns[u].before : turns[v].saved /\ ~turns[u].blind =>
       Has(turns[u].base.transcript, TurnItems(v)) \/ WordsLost(v)

WordsHeld ==
  \A v \in Turn : turns[v].saved =>
    turns[v].at \in {"saved", "done"} /\ (Has(snap.transcript, TurnItems(v)) \/ Excused(v))

\* What is stored repeats no key and has keys of turns that began alone, a turn that
\* has not saved yet has read what it must not lose, and so has what is stored.
WordsInv ==
  /\ Wellformed(snap)
  /\ Tidy(snap.transcript, KeysOf(Begun))
  /\ \A u \in Turn : turns[u].at \in Reading => ReadsWords(u)
  /\ WordsHeld

-----------------------------------------------------------------------------
(* A turn goes on                                                          *)

GoesOn(t) ==
  /\ \A u \in Turn \ {t} : turns'[u] = turns[u]
  /\ turns[t].at \notin {"idle", "done"} /\ turns'[t].at \notin {"idle", "routed"}
  /\ turns'[t].before = turns[t].before /\ turns'[t].blind = turns[t].blind
  /\ turns'[t].text = turns[t].text
  /\ Len(turns[t].items) <= Len(turns'[t].items)
  /\ turns'[t].at \in Reading => turns[t].at \in Reading /\ turns'[t].base = turns[t].base
  /\ hidden' = hidden

LEMMA ItemsListed ==
  ASSUME ContentInv, NEW t \in Turn
  PROVE  Own(turns[t].items, t) /\ Listed(turns[t].items) /\ Len(turns[t].items) \in Nat
BY ListedPlaces DEF ContentInv, TurnFits, Own

LEMMA ItemsListedNext ==
  ASSUME ContentInv', NEW t \in Turn
  PROVE  Own(turns'[t].items, t) /\ Listed(turns'[t].items) /\ Len(turns'[t].items) \in Nat
BY ListedPlaces DEF ContentInv, TurnFits, Own

LEMMA LostStays ==
  ASSUME \A u \in Begun : u \in Begun' /\ turns'[u].before = turns[u].before /\ turns'[u].blind = turns[u].blind,
         NEW v, WordsLost(v)
  PROVE  WordsLost(v)'
<1>1. PICK u \in Begun : TurnsOverlap(u, v) \/ (v \in turns[u].before /\ turns[u].blind)
  BY DEF WordsLost
<1>2. CASE TurnsOverlap(u, v)
  <2>1. TurnsOverlap(u, v)'
    BY <1>2 DEF TurnsOverlap
  <2> QED BY <1>1, <2>1 DEF WordsLost
<1>3. CASE v \in turns[u].before /\ turns[u].blind
  BY <1>1, <1>3 DEF WordsLost
<1> QED BY <1>1, <1>2, <1>3

LEMMA ExcuseStays ==
  ASSUME \A u \in Begun : /\ u \in Begun' /\ turns'[u].before = turns[u].before /\ turns'[u].blind = turns[u].blind
                          /\ turns[u].at \in {"running", "ended"} \/ u \in Faulty =>
                               turns'[u].at \in {"running", "ended"} \/ u \in Faulty',
         hidden => hidden', NEW v, Excused(v)
  PROVE  Excused(v)'
<1>1. PICK u \in Begun : MayLose(u, v)
  BY DEF Excused
<1>2. CASE TurnsOverlap(u, v)
  <2>1. TurnsOverlap(u, v)'
    BY <1>2 DEF TurnsOverlap
  <2> QED BY <1>1, <2>1 DEF Excused, MayLose
<1>3. CASE v \in turns[u].before /\ turns[u].blind
  BY <1>1, <1>3 DEF Excused, MayLose
<1>4. CASE hidden /\ v \in turns[u].before \cup {u} /\ (turns[u].at \in {"running", "ended"} \/ u \in Faulty)
  BY <1>1, <1>4 DEF Excused, MayLose
<1> QED BY <1>1, <1>2, <1>3, <1>4 DEF MayLose

LEMMA BegunGrows ==
  ASSUME NEW t \in Turn, GoesOn(t)
  PROVE  /\ t \in Begun' /\ \A u \in Begun' : u = t \/ u \in Begun
         /\ \A u \in Begun : u \in Begun' /\ turns'[u].before = turns[u].before /\ turns'[u].blind = turns[u].blind
BY DEF GoesOn, Begun

LEMMA ExcusedNow ==
  ASSUME ContentInv, WordsInv, NEW t \in Turn, GoesOn(t), NEW v \in Turn \ {t}, turns[v].saved,
         \/ v \notin turns[t].before
         \/ turns[t].blind
         \/ hidden /\ (turns'[t].at \in {"running", "ended"} \/ t \in Faulty')
         \/ WordsLost(v)
  PROVE  Excused(v)'
<1>1. t \in Begun' /\ v \in Begun'
  BY BegunGrows DEF WordsInv, WordsHeld, Begun
<1>2. CASE v \notin turns[t].before
  <2>1. t \notin turns'[v].before
    <3>1. turns[v].before \subseteq Done
      BY DEF ContentInv
    <3> QED BY <3>1 DEF GoesOn, Done
  <2>2. TurnsOverlap(t, v)'
    BY <1>1, <1>2, <2>1 DEF TurnsOverlap, GoesOn
  <2> QED BY <1>1, <2>2 DEF Excused, MayLose
<1>3. CASE v \in turns[t].before /\ turns[t].blind
  BY <1>1, <1>3 DEF Excused, MayLose, GoesOn
<1>4. CASE v \in turns[t].before /\ hidden /\ (turns'[t].at \in {"running", "ended"} \/ t \in Faulty')
  BY <1>1, <1>4 DEF Excused, MayLose, GoesOn
<1>5. CASE WordsLost(v)
  <2>1. WordsLost(v)'
    BY <1>5, BegunGrows, LostStays
  <2>2. PICK u \in Begun' : TurnsOverlap(u, v)' \/ (v \in turns'[u].before /\ turns'[u].blind)
    BY <2>1 DEF WordsLost
  <2> QED BY <2>2 DEF Excused, MayLose
<1> QED BY <1>2, <1>3, <1>4, <1>5

\* Turns that are over say what they said.
LEMMA SameWords ==
  ASSUME NEW v, turns'[v].text = turns[v].text, turns'[v].items = turns[v].items
  PROVE  TurnItems(v)' = TurnItems(v)
BY DEF TurnItems, WithUserMessage, UserMessage

LEMMA BasesKept ==
  ASSUME ContentInv, ContentInv', WordsInv, NEW t \in Turn, GoesOn(t), NEW u \in Turn, turns'[u].at \in Reading
  PROVE  ReadsWords(u)'
<1>1. /\ turns[u].at \in Reading /\ turns'[u].base = turns[u].base
      /\ turns'[u].before = turns[u].before /\ turns'[u].blind = turns[u].blind
  BY DEF GoesOn
<1>2. PICK b : b = turns[u].base
  OBVIOUS
<1>3. /\ Wellformed(b) /\ Tidy(b.transcript, KeysOf(Begun \ {u}))
      /\ \A v \in turns[u].before : turns[v].saved /\ ~turns[u].blind =>
           Has(b.transcript, TurnItems(v)) \/ WordsLost(v)
  BY <1>1, <1>2 DEF WordsInv, ReadsWords
<1>4. PICK P, Q : P = Begun \ {u} /\ Q = Begun' \ {u}
  OBVIOUS
<1>5. P \subseteq Q /\ P \subseteq Turn
  BY <1>4, BegunGrows DEF Begun
<1>6. \A v \in P : /\ Len(turns[v].items) \in Nat /\ Len(turns'[v].items) \in Nat
                    /\ Len(turns[v].items) <= Len(turns'[v].items)
  <2> SUFFICES ASSUME NEW v \in P
               PROVE  /\ Len(turns[v].items) \in Nat /\ Len(turns'[v].items) \in Nat
                      /\ Len(turns[v].items) <= Len(turns'[v].items)
    OBVIOUS
  <2>1. Len(turns[v].items) \in Nat /\ Len(turns'[v].items) \in Nat
    BY <1>5, ItemsListed, ItemsListedNext
  <2> QED BY <1>5, <2>1 DEF GoesOn
<1>7. KeysOf(P) \subseteq KeysOf(Q)'
  BY <1>5, <1>6, KeysGrow
<1>8. PICK L : L = KeysOf(Q)'
  OBVIOUS
<1>9. Tidy(b.transcript, L)
  BY <1>3, <1>4, <1>7, <1>8, TidyGrows
<1>10. ASSUME NEW v \in turns[u].before, turns'[v].saved, ~turns[u].blind
       PROVE  Has(b.transcript, TurnItems(v)') \/ WordsLost(v)'
  <2>1. turns'[v] = turns[v]
    <3>1. turns[u].before \subseteq Done
      BY DEF ContentInv
    <3> QED BY <1>10, <3>1 DEF GoesOn, Done
  <2>2. TurnItems(v)' = TurnItems(v)
    BY <2>1, SameWords
  <2>3. WordsLost(v) => WordsLost(v)'
    BY BegunGrows, LostStays
  <2> QED BY <1>3, <1>10, <2>1, <2>2, <2>3
<1>11. (KeysOf(Begun \ {u}))' = L
  BY <1>4, <1>8 DEF KeysOf
<1> QED BY <1>1, <1>2, <1>3, <1>9, <1>10, <1>11 DEF ReadsWords

LEMMA KeysLater ==
  ASSUME ContentInv, ContentInv', NEW t \in Turn, GoesOn(t), NEW P, P \subseteq Begun, NEW L, L = KeysOf(Begun)'
  PROVE  KeysOf(P) \subseteq L
<1>1. PICK Q : Q = Begun'
  OBVIOUS
<1>2. P \subseteq Q /\ P \subseteq Turn
  BY <1>1, BegunGrows DEF Begun
<1>3. \A v \in P : /\ Len(turns[v].items) \in Nat /\ Len(turns'[v].items) \in Nat
                    /\ Len(turns[v].items) <= Len(turns'[v].items)
  <2> SUFFICES ASSUME NEW v \in P
               PROVE  /\ Len(turns[v].items) \in Nat /\ Len(turns'[v].items) \in Nat
                      /\ Len(turns[v].items) <= Len(turns'[v].items)
    OBVIOUS
  <2>1. Len(turns[v].items) \in Nat /\ Len(turns'[v].items) \in Nat
    BY <1>2, ItemsListed, ItemsListedNext
  <2> QED BY <1>2, <2>1 DEF GoesOn
<1>4. KeysOf(P) \subseteq KeysOf(Q)'
  BY <1>2, <1>3, KeysGrow
<1>5. L = KeysOf(Q)'
  BY <1>1 DEF KeysOf
<1> QED BY <1>4, <1>5

\* What a turn that goes on makes of the session.
LEMMA TurnWrites ==
  ASSUME ContentInv, ContentInv', WordsInv, NEW t \in Turn, GoesOn(t),
         NEW s, s = snap', Wellformed(s), NEW L, L = KeysOf(Begun)', Tidy(s.transcript, L),
         turns'[t].saved => turns'[t].at \in {"saved", "done"} /\ (Has(s.transcript, TurnItems(t)') \/ Excused(t)'),
         \A v \in Turn \ {t} : turns[v].saved => Has(s.transcript, TurnItems(v)) \/ Excused(v)'
  PROVE  WordsInv'
<1>1. \A u \in Turn : turns'[u].at \in Reading => ReadsWords(u)'
  BY BasesKept
<1>2. ASSUME NEW v \in Turn, turns'[v].saved
      PROVE  turns'[v].at \in {"saved", "done"} /\ (Has(s.transcript, TurnItems(v)') \/ Excused(v)')
  <2>1. CASE v = t
    BY <1>2, <2>1
  <2>2. CASE v # t
    <3>1. turns'[v] = turns[v]
      BY <2>2 DEF GoesOn
    <3>2. TurnItems(v)' = TurnItems(v)
      BY <3>1, SameWords
    <3> QED BY <1>2, <2>2, <3>1, <3>2 DEF WordsInv, WordsHeld
  <2> QED BY <2>1, <2>2
<1>3. WordsHeld'
  BY <1>2 DEF WordsHeld
<1>4. Wellformed(snap)' /\ Tidy(snap.transcript, KeysOf(Begun))'
  BY DEF Wellformed
<1> QED BY <1>1, <1>3, <1>4 DEF WordsInv

\* One that writes nothing.
LEMMA TurnWaits ==
  ASSUME ContentInv, ContentInv', WordsInv, NEW t \in Turn, GoesOn(t), snap' = snap,
         turns'[t].saved = turns[t].saved, turns'[t].items = turns[t].items,
         turns[t].at \notin {"running", "ended"},
         turns[t].saved => turns'[t].at \in {"saved", "done"}
  PROVE  WordsInv'
<1>1. PICK s, L, P : s = snap /\ L = KeysOf(Begun)' /\ P = Begun
  OBVIOUS
<1>2. Wellformed(s) /\ Tidy(s.transcript, KeysOf(P)) /\ WordsHeld
  BY <1>1 DEF WordsInv
<1>3. Tidy(s.transcript, L)
  BY <1>1, <1>2, KeysLater, TidyGrows
<1>4. ASSUME NEW v, Excused(v) PROVE Excused(v)'
  <2>1. TurnFits(turns[t], t) /\ turns[t].at # "done"
    BY DEF ContentInv, GoesOn
  <2>2. t \notin Faulty
    BY <2>1, NotFaulty
  <2>3. ASSUME NEW u \in Begun, turns[u].at \in {"running", "ended"} \/ u \in Faulty
        PROVE  turns'[u].at \in {"running", "ended"} \/ u \in Faulty'
    BY <2>2, <2>3 DEF GoesOn, Begun, Faulty
  <2> QED BY <1>4, <2>3, BegunGrows, ExcuseStays DEF GoesOn
<1>5. TurnItems(t)' = TurnItems(t)
  BY SameWords DEF GoesOn
<1>6. turns'[t].saved => turns'[t].at \in {"saved", "done"} /\ (Has(s.transcript, TurnItems(t)') \/ Excused(t)')
  BY <1>1, <1>2, <1>4, <1>5 DEF WordsHeld
<1>7. \A v \in Turn \ {t} : turns[v].saved => Has(s.transcript, TurnItems(v)) \/ Excused(v)'
  BY <1>1, <1>2, <1>4 DEF WordsHeld
<1> QED BY <1>1, <1>2, <1>3, <1>6, <1>7, TurnWrites

LEMMA SnapshotKeepsWords ==
  ASSUME ContentInv, ContentInv', WordsInv, NEW t \in Turn, Snapshot(t)
  PROVE  WordsInv'
<1>1. PICK old : old = turns[t]
  OBVIOUS
<1>2. PICK r : r = [old EXCEPT !.at = "running"]
  OBVIOUS
<1>3. old.at = "staged" /\ TurnFits(old, t) /\ turns = [u \in Turn |-> turns[u]]
  BY <1>1 DEF Snapshot, ContentInv
<1>4. r = [at |-> "running", text |-> old.text, kind |-> old.kind, base |-> old.base, items |-> old.items,
           ended |-> old.ended, saved |-> old.saved, blind |-> old.blind, before |-> old.before]
  BY <1>2, <1>3 DEF TurnFits
<1>5. turns'[t] = r /\ \A u \in Turn \ {t} : turns'[u] = turns[u]
  BY <1>1, <1>2, <1>3 DEF Snapshot, TurnGoes
<1>6. Len(old.items) \in Nat
  BY <1>1, ItemsListed
<1>7. GoesOn(t)
  BY <1>1, <1>3, <1>4, <1>5, <1>6 DEF GoesOn, Snapshot, Reading
<1>9. turns[t].saved => turns[t].at \in {"saved", "done"}
  BY DEF WordsInv, WordsHeld
<1> QED BY <1>1, <1>3, <1>4, <1>5, <1>7, <1>9, TurnWaits DEF Snapshot

LEMMA SaveRunSnapshotKeepsWords ==
  ASSUME ContentInv, ContentInv', WordsInv, NEW t \in Turn, SaveRunSnapshot(t)
  PROVE  WordsInv'
<1>1. PICK old : old = turns[t]
  OBVIOUS
<1>2. PICK r : r = [old EXCEPT !.at = "done", !.base = Empty]
  OBVIOUS
<1>3. old.at = "saved" /\ TurnFits(old, t) /\ turns = [u \in Turn |-> turns[u]]
  BY <1>1 DEF SaveRunSnapshot, ContentInv
<1>4. r = [at |-> "done", text |-> old.text, kind |-> old.kind, base |-> Empty, items |-> old.items,
           ended |-> old.ended, saved |-> old.saved, blind |-> old.blind, before |-> old.before]
  BY <1>2, <1>3 DEF TurnFits
<1>5. turns'[t] = r /\ \A u \in Turn \ {t} : turns'[u] = turns[u]
  BY <1>1, <1>2, <1>3 DEF SaveRunSnapshot
<1>6. Len(old.items) \in Nat
  BY <1>1, ItemsListed
<1>7. GoesOn(t)
  <2>1. hidden' = hidden
    BY DEF SaveRunSnapshot
  <2>2. r.at = "done" /\ r.text = old.text /\ r.items = old.items /\ r.blind = old.blind /\ r.before = old.before
    BY <1>4
  <2> QED BY <1>1, <1>3, <1>5, <1>6, <2>1, <2>2 DEF GoesOn, Reading
<1> QED BY <1>1, <1>3, <1>4, <1>5, <1>7, TurnWaits DEF SaveRunSnapshot

\* A turn that writes into the session has begun.
LEMMA Holds ==
  ASSUME WordsInv, NEW v \in Turn, turns[v].saved
  PROVE  /\ turns[v].at \in {"saved", "done"}
         /\ Has(snap.transcript, TurnItems(v)) \/ Excused(v)
BY DEF WordsInv, WordsHeld

LEMMA EmitKeepsWords ==
  ASSUME ContentInv, ContentInv', WordsInv, NEW t \in Turn, GoesOn(t),
         turns[t].at \in {"running", "ended", "saved"},
         turns'[t].at \in {"running", "ended"} \/ t \in Faulty',
         NEW L, L = KeysOf(Begun)',
         NEW result, Unkeyed(result),
         NEW new, Keyed(new), \A k \in 1..Len(new) : new[k].key \in L /\ BelongsTo(new[k], t),
         NEW s, s = snap', s = Applied(Loaded, result, new),
         turns'[t].saved => turns'[t].at \in {"saved", "done"} /\ (Has(s.transcript, TurnItems(t)') \/ Excused(t)')
  PROVE  WordsInv'
<1>1. PICK session, P : session = Loaded /\ P = Begun
  OBVIOUS
<1>2. session = snap \/ session = Empty
  BY <1>1 DEF Loaded
<1>3. Wellformed(session) /\ Tidy(session.transcript, L)
  <2>1. CASE session = snap
    <3>1. Wellformed(session) /\ Tidy(session.transcript, KeysOf(P))
      BY <1>1, <2>1 DEF WordsInv
    <3> QED BY <1>1, <3>1, KeysLater, TidyGrows
  <2>2. CASE session = Empty
    <3>1. session = [messages |-> <<>>, transcript |-> <<>>]
      BY <2>2 DEF Empty
    <3>2. session.messages = <<>> /\ session.transcript = <<>>
      BY <3>1
    <3>3. Listed(session.messages)
      BY <3>2, ListedShort
    <3>4. Tidy(session.transcript, L)
      BY <3>2, TidyNothing
    <3> QED BY <3>1, <3>2, <3>3, <3>4 DEF Wellformed
  <2> QED BY <1>2, <2>1, <2>2
<1>4. PICK z : z = Merge(Merge(session.transcript, result), WithoutSteps(new))
  OBVIOUS
<1>5. s = [messages |-> session.messages, transcript |-> z]
  BY <1>1, <1>3, <1>4 DEF Applied, Wellformed
<1>6. Wellformed(s)
  BY <1>3, <1>5 DEF Wellformed
<1>7. /\ Tidy(z, L)
      /\ \A v, w : OfTurn(w, v) /\ OfOthers(new, v) /\ Has(session.transcript, w) => Has(z, w)
  BY <1>3, <1>4, Emitted
<1>8. ASSUME NEW v \in Turn \ {t}, turns[v].saved PROVE Has(s.transcript, TurnItems(v)) \/ Excused(v)'
  <2>1. CASE session = snap
    <3>1. CASE Excused(v)
      <4>1. t \notin Faulty
        BY NotFaulty DEF ContentInv, GoesOn
      <4>2. ASSUME NEW u \in Begun, turns[u].at \in {"running", "ended"} \/ u \in Faulty
            PROVE  turns'[u].at \in {"running", "ended"} \/ u \in Faulty'
        BY <4>2 DEF GoesOn, Begun, Faulty
      <4> QED BY <3>1, <4>2, BegunGrows, ExcuseStays DEF GoesOn
    <3>2. CASE Has(snap.transcript, TurnItems(v))
      <4>1. PICK w : w = TurnItems(v)
        OBVIOUS
      <4>2. OfTurn(w, v)
        BY <4>1, ItemsListed, TurnItemsAre
      <4>3. OfOthers(new, v)
        BY <1>8 DEF OfOthers, BelongsTo
      <4>4. Has(z, w)
        BY <1>7, <2>1, <3>2, <4>1, <4>2, <4>3
      <4> QED BY <1>5, <4>1, <4>4
    <3> QED BY <1>8, <3>1, <3>2, Holds
  <2>2. CASE session # snap
    <3>1. hidden
      BY <1>1, <2>2 DEF Loaded, Loads
    <3> QED BY <1>8, <3>1, ExcusedNow
  <2> QED BY <2>1, <2>2
<1> QED BY <1>5, <1>6, <1>7, <1>8, TurnWrites

-----------------------------------------------------------------------------
(* The steps of a turn                                                     *)

LEMMA EmittedItem ==
  ASSUME ContentInv, ContentInv', NEW t \in Turn, GoesOn(t), NEW x, NEW new, new = <<x>>,
         OwnItem(x, t, Len(turns[t].items) + 1),
         Len(turns'[t].items) = Len(turns[t].items) + 1, NEW L, L = KeysOf(Begun)'
  PROVE  /\ Keyed(new) /\ \A k \in 1..Len(new) : new[k].key \in L /\ BelongsTo(new[k], t)
<1>1. Listed(new) /\ Len(new) = 1 /\ new[1] = x
  BY ListedShort
<1>2. PICK n : n = Len(turns[t].items) + 1
  OBVIOUS
<1>3. n \in 1..Len(turns'[t].items)
  BY <1>2, ItemsListed
<1>4. Len(x.key) = 3 /\ x.key[2] = t /\ (x.key = <<"step", t, n>> \/ x.key = <<"seq", t, n>>)
  BY <1>2 DEF OwnItem
<1>5. x.key # NoKey
  <2>1. Len(NoKey) = 0
    BY DEF NoKey
  <2> QED BY <1>4, <2>1
<1>6. x.key \in L
  <2>1. t \in Begun'
    BY BegunGrows
  <2> QED BY <1>3, <1>4, <2>1 DEF KeysOf
<1>7. BelongsTo(x, t)
  BY <1>4 DEF BelongsTo
<1> QED BY <1>1, <1>5, <1>6, <1>7 DEF Keyed

LEMMA UnkeyedNothing ==
  Unkeyed(<<>>) /\ Keyed(<<>>) /\ Len(<<>>) = 0
<1>1. PICK x : x = <<>>
  OBVIOUS
<1>2. Listed(x) /\ Len(x) = 0
  BY <1>1, ListedShort
<1>3. Unkeyed(x) /\ Keyed(x)
  BY <1>2 DEF Unkeyed, Keyed
<1> QED BY <1>1, <1>2, <1>3

\* A turn that runs has not saved.
LEMMA EventKeepsWords ==
  ASSUME ContentInv, ContentInv', WordsInv, NEW t \in Turn, EmitStep(t) \/ \E type \in NoteType : EmitNote(t, type)
  PROVE  WordsInv'
<1>1. PICK type, text : turns' = [turns EXCEPT ![t].items = @ \o <<EventItem(t, type, text)>>]
                        /\ Emits(t, <<>>, <<EventItem(t, type, text)>>) /\ turns[t].at = "running"
  BY DEF EmitStep, EmitNote
<1>2. PICK x, new : x = EventItem(t, type, text) /\ new = <<x>>
  OBVIOUS
<1>3. OwnItem(x, t, Len(turns[t].items) + 1)
  BY <1>2, EventKey
<1>4. PICK old, items : old = turns[t] /\ items = turns[t].items
  OBVIOUS
<1>5. PICK r : r = [old EXCEPT !.items = items \o new]
  OBVIOUS
<1>6. TurnFits(old, t) /\ turns = [u \in Turn |-> turns[u]] /\ Listed(items) /\ Len(items) \in Nat
  BY <1>4, ItemsListed DEF ContentInv
<1>7. r = [at |-> old.at, text |-> old.text, kind |-> old.kind, base |-> old.base, items |-> items \o new,
           ended |-> old.ended, saved |-> old.saved, blind |-> old.blind, before |-> old.before]
  BY <1>5, <1>6 DEF TurnFits
<1>8. turns'[t] = r /\ \A u \in Turn \ {t} : turns'[u] = turns[u]
  BY <1>1, <1>2, <1>4, <1>5, <1>6
<1>9. Len(turns'[t].items) = Len(items) + 1
  <2>1. Len(With(items, x)) = Len(items) + 1 /\ With(items, x) = items \o new
    BY <1>2, <1>6, ListedAppend DEF With
  <2> QED BY <1>7, <1>8, <2>1
<1>10. GoesOn(t)
  <2>1. hidden' = hidden
    BY <1>1 DEF Emits, UpsertSummary
  <2> QED BY <1>1, <1>4, <1>6, <1>7, <1>8, <1>9, <2>1 DEF GoesOn
<1>11. PICK L, s : L = KeysOf(Begun)' /\ s = snap'
  OBVIOUS
<1>12. Keyed(new) /\ \A k \in 1..Len(new) : new[k].key \in L /\ BelongsTo(new[k], t)
  BY <1>2, <1>3, <1>4, <1>9, <1>10, <1>11, EmittedItem
<1>13. s = Applied(Loaded, <<>>, new)
  BY <1>1, <1>2, <1>11 DEF Emits
<1>14. ~turns'[t].saved
  <2>1. ~turns[t].saved
    BY <1>1, Holds
  <2> QED BY <1>4, <1>7, <1>8, <2>1
<1>15. turns'[t].at = "running"
  BY <1>1, <1>4, <1>7, <1>8
<1> QED BY <1>1, <1>10, <1>11, <1>12, <1>13, <1>14, <1>15, UnkeyedNothing, EmitKeepsWords

LEMMA ResultKeepsWords ==
  ASSUME ContentInv, ContentInv', WordsInv, NEW t \in Turn, NEW how \in WithAnswer \cup {"question", "paused"},
         EmitResult(t, how)
  PROVE  WordsInv'
<1>1. PICK old, items, new : old = turns[t] /\ items = turns[t].items /\ new = FinalItem(t, how)
  OBVIOUS
<1>2. PICK r : r = [old EXCEPT !.at = "ended", !.ended = how, !.items = items \o new]
  OBVIOUS
<1>3. old.at = "running" /\ TurnFits(old, t) /\ turns = [u \in Turn |-> turns[u]] /\ Listed(items) /\ Len(items) \in Nat
  BY <1>1, ItemsListed DEF ContentInv, EmitResult
<1>4. r = [at |-> "ended", text |-> old.text, kind |-> old.kind, base |-> old.base, items |-> items \o new,
           ended |-> how, saved |-> old.saved, blind |-> old.blind, before |-> old.before]
  BY <1>2, <1>3 DEF TurnFits
<1>5. turns'[t] = r /\ \A u \in Turn \ {t} : turns'[u] = turns[u]
  BY <1>1, <1>2, <1>3 DEF EmitResult
<1>6. new = <<>> \/ \E type, text : new = <<EventItem(t, type, text)>>
  BY <1>1 DEF FinalItem
<1>7. \/ new = <<>> /\ Len(turns'[t].items) = Len(items)
      \/ \E x : /\ new = <<x>> /\ OwnItem(x, t, Len(items) + 1)
                /\ Len(turns'[t].items) = Len(items) + 1
  <2>1. CASE new = <<>>
    <3>1. items \o new = items
      BY <1>3, <2>1, JoinedNothing DEF Joined
    <3> QED BY <1>4, <1>5, <2>1, <3>1
  <2>2. ASSUME NEW type, NEW text, new = <<EventItem(t, type, text)>>
        PROVE  \E x : /\ new = <<x>> /\ OwnItem(x, t, Len(items) + 1)
                     /\ Len(turns'[t].items) = Len(items) + 1
    <3>1. PICK x : x = EventItem(t, type, text)
      OBVIOUS
    <3>2. OwnItem(x, t, Len(items) + 1)
      BY <1>1, <3>1, EventKey
    <3>3. Len(With(items, x)) = Len(items) + 1 /\ With(items, x) = items \o new
      BY <1>3, <2>2, <3>1, ListedAppend DEF With
    <3> QED BY <1>4, <1>5, <2>2, <3>1, <3>2, <3>3
  <2> QED BY <1>6, <2>1, <2>2
<1>8. GoesOn(t)
  <2>1. hidden' = hidden
    BY DEF EmitResult, Emits, UpsertSummary
  <2>2. Len(items) <= Len(turns'[t].items)
    BY <1>3, <1>7
  <2> QED BY <1>1, <1>3, <1>4, <1>5, <2>1, <2>2 DEF GoesOn, Reading
<1>9. PICK L, s : L = KeysOf(Begun)' /\ s = snap'
  OBVIOUS
<1>10. Keyed(new) /\ \A k \in 1..Len(new) : new[k].key \in L /\ BelongsTo(new[k], t)
  <2>1. CASE new = <<>>
    BY <2>1, UnkeyedNothing
  <2>2. ASSUME NEW x, new = <<x>>, OwnItem(x, t, Len(items) + 1), Len(turns'[t].items) = Len(items) + 1
        PROVE  Keyed(new) /\ \A k \in 1..Len(new) : new[k].key \in L /\ BelongsTo(new[k], t)
    BY <1>1, <1>8, <1>9, <2>2, EmittedItem
  <2> QED BY <1>7, <2>1, <2>2
<1>11. PICK result : result = ResultTimeline(t, how)
  OBVIOUS
<1>12. Unkeyed(result)
  BY <1>1, <1>3, <1>11, ResultUnkeyed
<1>13. s = Applied(Loaded, result, new)
  BY <1>1, <1>9, <1>11 DEF EmitResult, Emits
<1>14. ~turns'[t].saved
  <2>1. ~turns[t].saved
    BY <1>1, <1>3, Holds
  <2> QED BY <1>1, <1>4, <1>5, <2>1
<1>15. turns'[t].at = "ended"
  BY <1>4, <1>5
<1> QED BY <1>1, <1>3, <1>8, <1>9, <1>10, <1>12, <1>13, <1>14, <1>15, EmitKeepsWords

LEMMA SaysListed ==
  ASSUME NEW s, Listed(s), NEW role, NEW text
  PROVE  Listed(Says(s, role, text))
BY ListedAppend DEF Says

\* What has been read has the words of the turns that were over, or they are lost.
LEMMA ReadHolds ==
  ASSUME ContentInv, WordsInv, NEW t \in Turn, GoesOn(t), turns[t].at \in Reading,
         NEW b, b = turns[t].base.transcript, NEW v \in Turn \ {t}, turns[v].saved
  PROVE  Has(b, TurnItems(v)) \/ Excused(v)'
<1>1. ReadsWords(t)
  BY DEF WordsInv
<1>2. CASE v \in turns[t].before /\ ~turns[t].blind
  <2>1. Has(b, TurnItems(v)) \/ WordsLost(v)
    BY <1>1, <1>2 DEF ReadsWords
  <2> QED BY <2>1, ExcusedNow
<1>3. CASE ~(v \in turns[t].before /\ ~turns[t].blind)
  BY <1>3, ExcusedNow
<1> QED BY <1>2, <1>3

LEMMA ReadTidy ==
  ASSUME ContentInv, ContentInv', WordsInv, NEW t \in Turn, GoesOn(t), turns[t].at \in Reading,
         NEW b, b = turns[t].base, NEW L, L = KeysOf(Begun)', NEW K, K = KeysOf(Begun \ {t})
  PROVE  Wellformed(b) /\ Tidy(b.transcript, K) /\ Tidy(b.transcript, L) /\ <<"message", t>> \in L
<1>1. Wellformed(b) /\ Tidy(b.transcript, K)
  BY DEF WordsInv, ReadsWords
<1>2. PICK P : P = Begun \ {t}
  OBVIOUS
<1>3. KeysOf(P) \subseteq L
  BY <1>2, KeysLater
<1>4. Tidy(b.transcript, L)
  BY <1>1, <1>2, <1>3, TidyGrows
<1>5. <<"message", t>> \in L
  BY BegunGrows DEF KeysOf
<1> QED BY <1>1, <1>4, <1>5

LEMMA StageKeepsWords ==
  ASSUME ContentInv, ContentInv', WordsInv, NEW t \in Turn, Stage(t)
  PROVE  WordsInv'
<1>1. PICK old, b : old = turns[t] /\ b = turns[t].base
  OBVIOUS
<1>2. PICK r : r = [old EXCEPT !.at = "staged"]
  OBVIOUS
<1>3. old.at = "routed" /\ TurnFits(old, t) /\ turns = [u \in Turn |-> turns[u]]
  BY <1>1 DEF Stage, ContentInv
<1>4. r = [at |-> "staged", text |-> old.text, kind |-> old.kind, base |-> old.base, items |-> old.items,
           ended |-> old.ended, saved |-> old.saved, blind |-> old.blind, before |-> old.before]
  BY <1>2, <1>3 DEF TurnFits
<1>5. turns'[t] = r /\ \A u \in Turn \ {t} : turns'[u] = turns[u]
  BY <1>1, <1>2, <1>3 DEF Stage, TurnGoes
<1>6. GoesOn(t)
  <2>1. hidden' = hidden
    BY DEF Stage, UpsertSummary
  <2>2. Len(old.items) \in Nat
    BY <1>1, ItemsListed
  <2> QED BY <1>1, <1>3, <1>4, <1>5, <2>1, <2>2 DEF GoesOn, Reading
<1>7. PICK s, L, K, q, z : /\ s = snap' /\ L = KeysOf(Begun)' /\ K = KeysOf(Begun \ {t})
                           /\ q = WithUserMessage(b.transcript, t) /\ z = WithTransition(q, t)
  OBVIOUS
<1>8. s = [messages |-> Says(b.messages, "user", turns[t].text), transcript |-> z]
  BY <1>1, <1>7 DEF Stage
<1>9. turns[t].at \in Reading
  BY <1>1, <1>3 DEF Reading
<1>10. Wellformed(b) /\ Tidy(b.transcript, L) /\ <<"message", t>> \in L
  BY <1>1, <1>6, <1>7, <1>9, ReadTidy
<1>11. /\ Tidy(q, L)
       /\ \A v, w : v # t /\ OfTurn(w, v) /\ Has(b.transcript, w) => Has(q, w)
  BY <1>7, <1>10, WordsSpoken
<1>12. /\ Tidy(z, L)
       /\ \A v, w : OfTurn(w, v) /\ Has(q, w) => Has(z, w)
  BY <1>7, <1>11, TransitionSpoken
<1>13. Wellformed(s)
  <2>1. Listed(Says(b.messages, "user", turns[t].text))
    BY <1>10, SaysListed DEF Wellformed
  <2> QED BY <1>8, <2>1 DEF Wellformed
<1>14. ASSUME NEW v \in Turn \ {t}, turns[v].saved PROVE Has(s.transcript, TurnItems(v)) \/ Excused(v)'
  <2>1. PICK w : w = TurnItems(v)
    OBVIOUS
  <2>2. OfTurn(w, v)
    BY <2>1, ItemsListed, TurnItemsAre
  <2>3. Has(b.transcript, w) \/ Excused(v)'
    BY <1>1, <1>6, <1>9, <1>14, <2>1, ReadHolds
  <2> QED BY <1>8, <1>11, <1>12, <2>1, <2>2, <2>3
<1>15. ~turns'[t].saved
  <2>1. ~turns[t].saved
    BY <1>1, <1>3, Holds
  <2> QED BY <1>1, <1>4, <1>5, <2>1
<1> QED BY <1>6, <1>7, <1>8, <1>12, <1>13, <1>14, <1>15, TurnWrites

LEMMA GreatestOf ==
  ASSUME NEW n \in Nat, NEW T, T \subseteq 1..n, T # {}
  PROVE  Max(T) \in T
<1> DEFINE G == {m \in 0..n : \A U : U \subseteq 1..m /\ U # {} => \E x \in U : \A y \in U : y <= x}
<1>1. 0 \in G
  OBVIOUS
<1>2. ASSUME NEW m \in 1..n, m - 1 \in G PROVE m \in G
  <2>1. ASSUME NEW U, U \subseteq 1..m, U # {} PROVE \E x \in U : \A y \in U : y <= x
    <3>1. CASE m \in U
      BY <2>1, <3>1
    <3>2. CASE m \notin U
      <4>1. \A x \in U : x \in 1..m - 1
        BY <2>1, <3>2
      <4> QED BY <1>2, <2>1, <4>1
    <3> QED BY <3>1, <3>2
  <2> QED BY <2>1
<1> HIDE DEF G
<1>3. n \in G
  <2>1. \A m \in 0..n : m \in G
    BY <1>1, <1>2, Counted
  <2> QED BY <2>1
<1>4. \E x \in T : \A y \in T : x >= y
  BY <1>3 DEF G
<1> QED BY <1>4 DEF Max

LEMMA SeedListed ==
  ASSUME NEW messages, Listed(messages), NEW text, NEW z, z = MessageItems(MessagesBefore(messages, text)), NEW K
  PROVE  Tidy(z, K)
<1>1. PICK m, said : /\ m = MessagesBefore(messages, text)
                     /\ said = {k \in DOMAIN messages : text # NoText /\ messages[k] = <<"user", text>>}
  OBVIOUS
<1>2. Listed(m)
  <2>1. CASE said = {}
    <3>1. m = messages
      BY <1>1, <2>1 DEF MessagesBefore
    <3> QED BY <3>1
  <2>2. CASE said # {}
    <3>1. PICK n \in Nat : n = Len(messages)
      BY ListedPlaces
    <3>2. said \subseteq 1..n
      BY <1>1, <3>1, ListedPlaces
    <3>0. PICK i : i = Max(said)
      OBVIOUS
    <3>3. PICK j : j = i - 1
      OBVIOUS
    <3>4. j \in 0..n
      <4>1. i \in said
        BY <2>2, <3>0, <3>1, <3>2, GreatestOf
      <4>2. i \in 1..n
        BY <3>2, <4>1
      <4> QED BY <3>1, <3>3, <4>2
    <3>5. m = SubSeq(messages, 1, j)
      BY <1>1, <2>2, <3>0, <3>3 DEF MessagesBefore
    <3>6. messages \in Seq(ToSet(messages))
      BY DEF Listed
    <3>7. m \in Seq(ToSet(messages))
      BY <3>1, <3>4, <3>5, <3>6
    <3> QED BY <3>7, ListedIn
  <2> QED BY <2>1, <2>2
<1>3. PICK n \in Nat : n = Len(m)
  BY <1>2, ListedPlaces
<1>4. /\ z = [k \in 1..n |-> z[k]]
      /\ \A k \in 1..n : z[k].key = <<"message", 0, k>>
  <2>1. PICK a, b : a = [k \in 1..n |-> IF m[k][1] = "user" THEN "user_message" ELSE "assistant_answer"]
                    /\ b = [k \in 1..n |-> m[k][2]]
    OBVIOUS
  <2>2. z = [k \in 1..n |-> Item(a[k], b[k], <<"message", 0, k>>)]
    BY <1>1, <1>2, <1>3, <2>1, ListedPlaces DEF MessageItems
  <2>3. \A k \in 1..n : z[k] = Item(a[k], b[k], <<"message", 0, k>>)
    BY <2>2
  <2> QED BY <2>2, <2>3 DEF Item
<1>5. IsList(z, n)
  BY <1>4 DEF IsList
<1>6. Listed(z) /\ Len(z) = n
  BY <1>5, ListedOf
<1>7. \A k \in 1..n : z[k].key[2] = 0 /\ z[k].key[3] = k
  BY <1>4
<1>8. Unrepeated(z)
  BY <1>6, <1>7 DEF Unrepeated
<1>9. ASSUME NEW e \in ToSet(z), NEW t \in Turn PROVE ~BelongsTo(e, t)
  <2>1. PICK k \in 1..n : e = z[k]
    BY <1>6, InList
  <2>2. e.key[2] = 0 /\ t # 0
    BY <1>7, <2>1, TurnsAreNumbers
  <2> QED BY <2>2 DEF BelongsTo
<1> QED BY <1>8, <1>9 DEF Tidy

\* A turn saves what it has read, and its own words behind it.
LEMMA UnrepeatedJoined ==
  ASSUME NEW s, Unrepeated(s), NEW x, Unrepeated(x), Apart(s, x)
  PROVE  Unrepeated(Joined(s, x))
<1>1. PICK z : z = Joined(s, x)
  OBVIOUS
<1>2. Listed(s) /\ Listed(x) /\ Len(s) \in Nat /\ Len(x) \in Nat
  BY ListedPlaces DEF Unrepeated
<1>3. Listed(z)
  BY <1>1, <1>2, JoinedPlaces DEF IsJoin
<1>4. ASSUME NEW j \in 1..Len(z), NEW k \in 1..Len(z), z[j].key = z[k].key, z[k].key # NoKey PROVE j = k
  <2>1. \/ j \in 1..Len(s) /\ z[j] = s[j]
        \/ \E i \in 1..Len(x) : j = Len(s) + i /\ z[j] = x[i]
    BY <1>1, <1>2, JoinedPlace
  <2>2. \/ k \in 1..Len(s) /\ z[k] = s[k]
        \/ \E i \in 1..Len(x) : k = Len(s) + i /\ z[k] = x[i]
    BY <1>1, <1>2, JoinedPlace
  <2>3. ASSUME NEW l \in 1..Len(s), NEW i \in 1..Len(x) PROVE s[l].key # x[i].key
    BY DEF Apart
  <2>4. CASE j \in 1..Len(s) /\ z[j] = s[j]
    <3>1. k \in 1..Len(s) /\ z[k] = s[k]
      BY <1>4, <2>2, <2>3, <2>4
    <3> QED BY <1>4, <2>4, <3>1 DEF Unrepeated
  <2>5. ASSUME NEW i \in 1..Len(x), j = Len(s) + i, z[j] = x[i] PROVE j = k
    <3>1. PICK l \in 1..Len(x) : k = Len(s) + l /\ z[k] = x[l]
      BY <1>4, <2>2, <2>3, <2>5
    <3>2. x[i].key = x[l].key /\ x[l].key # NoKey
      BY <1>4, <2>5, <3>1
    <3>3. i = l
      BY <3>2 DEF Unrepeated
    <3> QED BY <2>5, <3>1, <3>3
  <2> QED BY <2>1, <2>4, <2>5
<1> QED BY <1>1, <1>3, <1>4 DEF Unrepeated

LEMMA SavesOwn ==
  ASSUME NEW t \in Turn, NEW items, items = turns[t].items, Own(items, t),
         NEW K, NEW seed, Tidy(seed, K), OfOthers(seed, t),
         NEW z, z = Merge(WithUserMessage(seed, t), WithoutSteps(Dedupe(items)))
  PROVE  Has(z, TurnItems(t))
<1>1. PICK w, n, p, q : /\ w = TurnItems(t) /\ n = WithoutSteps(items) /\ p = Spoken(t)
                        /\ q = WithUserMessage(seed, t)
  OBVIOUS
<1>2. PICK S : S = ToSet(w)
  OBVIOUS
<1>3. OfTurn(w, t) /\ w = Joined(p, n)
  BY <1>1, TurnItemsAre
<1>4. OfTurn(n, t) /\ \A k \in 1..Len(n) : n[k].key # <<"message", t>>
  BY <1>1, ItemsOfTurn
<1>5. OfTurn(p, t) /\ \A k \in 1..Len(p) : p[k].key = <<"message", t>>
  BY <1>1, SpokenIs
<1>6. Listed(w) /\ Listed(n) /\ Listed(p) /\ Unrepeated(n) /\ Unrepeated(seed) /\ Listed(seed)
  BY <1>3, <1>4, <1>5, KeyedIs DEF OfTurn, Keyed, Tidy, Unrepeated
<1>7. \A e \in S : e.key # NoKey
  BY <1>2, <1>3, <1>6, InList DEF OfTurn, Keyed
<1>8. Picked(seed, S) = <<>>
  BY <1>2, <1>3, <1>6, ForeignApart, ApartNone
<1>9. Dedupe(items) = items
  BY ItemsKeyed, KeyedDedupe
<1>10. /\ Unrepeated(q) /\ Picked(q, S) = p
       /\ \A k \in 1..Len(q) : q[k].key = <<"message", t>> \/ ~BelongsTo(q[k], t)
  <2>1. CASE turns[t].text = NoText
    <3>1. q = seed /\ p = <<>>
      BY <1>1, <2>1 DEF WithUserMessage, Spoken
    <3> QED BY <1>6, <1>8, <3>1 DEF OfOthers
  <2>2. CASE turns[t].text # NoText
    <3>1. PICK x : x = UserMessage(t)
      OBVIOUS
    <3>2. x.key = <<"message", t>> /\ Len(x.key) = 2 /\ x.key[2] = t
      BY <3>1 DEF UserMessage, Item
    <3>3. p = <<x>>
      BY <1>1, <2>2, <3>1 DEF Spoken
    <3>4. PICK m : m = With(seed, x)
      OBVIOUS
    <3>5. q = Dedupe(m)
      BY <1>1, <2>2, <3>1, <3>4 DEF WithUserMessage, AppendItem, With
    <3>6. ASSUME NEW k \in 1..Len(seed) PROVE seed[k].key # x.key
      <4>1. ~BelongsTo(seed[k], t)
        BY DEF OfOthers
      <4>2. BelongsTo(x, t)
        BY <3>2 DEF BelongsTo
      <4> QED BY <4>1, <4>2 DEF BelongsTo
    <3>7. Unrepeated(m)
      BY <1>6, <3>4, <3>6, UnrepeatedWith
    <3>8. Listed(m)
      BY <3>7 DEF Unrepeated
    <3>9. x \in S
      <4>1. Len(p) = 1 /\ p[1] = x
        BY <3>3, ListedShort
      <4>2. IsJoin(w, p, n)
        BY <1>3, <1>6, JoinedPlaces
      <4>3. w[1] = x /\ 1 \in 1..Len(w)
        BY <1>6, <4>1, <4>2, ListedPlaces DEF IsJoin
      <4> QED BY <1>2, <1>6, <4>3, InList
    <3>10. Picked(m, S) = With(<<>>, x)
      BY <1>6, <1>8, <3>4, <3>9, PickedWith
    <3>11. With(<<>>, x) = <<x>>
      BY DEF With
    <3>12. Picked(q, S) = Picked(m, S)
      BY <1>7, <3>5, <3>7, <3>8, DedupePicked DEF Unrepeated
    <3>13. Unrepeated(q) /\ \A e \in ToSet(q) : e \in ToSet(m)
      BY <3>5, <3>8, DedupeUnrepeated
    <3>14. ToSet(m) = ToSet(seed) \cup {x}
      BY <1>6, <3>4, WithSet
    <3>15. ASSUME NEW k \in 1..Len(q) PROVE q[k].key = <<"message", t>> \/ ~BelongsTo(q[k], t)
      <4>1. Listed(q)
        BY <3>13 DEF Unrepeated
      <4>2. q[k] = x \/ q[k] \in ToSet(seed)
        BY <3>13, <3>14, <4>1, InList
      <4>3. q[k] = x \/ \E j \in 1..Len(seed) : q[k] = seed[j]
        BY <1>6, <4>2, InList
      <4> QED BY <3>2, <4>3 DEF OfOthers
    <3> QED BY <3>3, <3>10, <3>11, <3>12, <3>13, <3>15
  <2> QED BY <2>1, <2>2
<1>11. PICK m : m = Joined(q, n)
  OBVIOUS
<1>12. z = Dedupe(m)
  BY <1>1, <1>9, <1>11 DEF Merge, Joined
<1>13. Apart(q, n)
  BY <1>4, <1>10 DEF Apart, OfTurn, BelongsTo
<1>14. Unrepeated(m)
  BY <1>6, <1>10, <1>11, <1>13, UnrepeatedJoined
<1>15. Listed(m) /\ Listed(q)
  BY <1>10, <1>14 DEF Unrepeated
<1>16. Picked(z, S) = Picked(m, S)
  BY <1>7, <1>12, <1>14, <1>15, DedupePicked DEF Unrepeated
<1>17. Picked(m, S) = Joined(p, Picked(n, S))
  BY <1>6, <1>10, <1>11, <1>15, PickedJoined
<1>18. Picked(n, S) = n
  <2>1. IsJoin(w, p, n)
    BY <1>3, <1>6, JoinedPlaces
  <2>2. ASSUME NEW k \in 1..Len(n) PROVE n[k] \in S
    <3>1. PICK j : j = Len(p) + k
      OBVIOUS
    <3>2. w[j] = n[k] /\ j \in 1..Len(w)
      BY <1>6, <2>1, <3>1, ListedPlaces DEF IsJoin
    <3> QED BY <1>2, <1>6, <3>2, InList
  <2> QED BY <1>6, <2>2, PickedAll
<1> QED BY <1>1, <1>2, <1>3, <1>16, <1>17, <1>18 DEF Has

LEMMA SaveSessionKeepsWords ==
  ASSUME ContentInv, ContentInv', WordsInv, NEW t \in Turn, SaveSession(t)
  PROVE  WordsInv'
<1>1. PICK old, b, items : old = turns[t] /\ b = turns[t].base /\ items = turns[t].items
  OBVIOUS
<1>2. PICK r : r = [old EXCEPT !.at = "saved", !.saved = TRUE]
  OBVIOUS
<1>3. old.at = "ended" /\ TurnFits(old, t) /\ turns = [u \in Turn |-> turns[u]] /\ Own(items, t)
  BY <1>1, ItemsListed DEF SaveSession, ContentInv
<1>4. r = [at |-> "saved", text |-> old.text, kind |-> old.kind, base |-> old.base, items |-> old.items,
           ended |-> old.ended, saved |-> TRUE, blind |-> old.blind, before |-> old.before]
  BY <1>2, <1>3 DEF TurnFits
<1>5. turns'[t] = r /\ \A u \in Turn \ {t} : turns'[u] = turns[u]
  BY <1>1, <1>2, <1>3 DEF SaveSession
<1>6. GoesOn(t)
  <2>1. hidden' = hidden
    BY DEF SaveSession, UpsertSummary
  <2>2. Len(items) \in Nat
    BY <1>1, ItemsListed
  <2> QED BY <1>1, <1>3, <1>4, <1>5, <2>1, <2>2 DEF GoesOn, Reading
<1>7. PICK s, L, K : s = snap' /\ L = KeysOf(Begun)' /\ K = KeysOf(Begun \ {t})
  OBVIOUS
<1>8. PICK m, c, read : m = SavedMessages(t) /\ c = WithoutSteps(Dedupe(items)) /\ read = WithoutSteps(b.transcript)
  OBVIOUS
<1>9. PICK seed : seed = IF read # <<>> THEN read ELSE MessageItems(MessagesBefore(m, turns[t].text))
  OBVIOUS
<1>10. PICK q, z : q = WithUserMessage(seed, t) /\ z = Merge(q, c)
  OBVIOUS
<1>11. s = [messages |-> m, transcript |-> z]
  <2>1. SavedTranscript(t) = z
    BY <1>1, <1>8, <1>9, <1>10 DEF SavedTranscript
  <2> QED BY <1>7, <1>8, <2>1 DEF SaveSession
<1>12. turns[t].at \in Reading
  BY <1>1, <1>3 DEF Reading
<1>13. Wellformed(b) /\ Tidy(b.transcript, K) /\ <<"message", t>> \in L
  BY <1>1, <1>6, <1>7, <1>12, ReadTidy
<1>14. Listed(m) /\ Wellformed(s)
  <2>1. PICK said : said = Says(b.messages, "user", turns[t].text)
    OBVIOUS
  <2>2. Listed(said)
    BY <1>13, <2>1, SaysListed DEF Wellformed
  <2>3. m = Says(said, "assistant", AssistantText(t))
    BY <1>1, <1>8, <2>1 DEF SavedMessages
  <2>4. Listed(m)
    BY <2>2, <2>3, SaysListed
  <2> QED BY <1>11, <2>4 DEF Wellformed
<1>15. /\ Unrepeated(read) /\ \A e \in ToSet(read) : e \in ToSet(b.transcript)
       /\ \A w : /\ Listed(w) /\ Has(b.transcript, w) /\ \A k \in 1..Len(w) : w[k].type # "workflow_step"
               => Has(read, w)
  <2>1. Unrepeated(b.transcript)
    BY <1>13 DEF Tidy
  <2> QED BY <1>8, <2>1, StepsOut
<1>16. Tidy(seed, K)
  <2>1. CASE read # <<>>
    BY <1>9, <1>13, <1>15, <2>1 DEF Tidy
  <2>2. CASE read = <<>>
    BY <1>9, <1>14, <2>2, SeedListed
  <2> QED BY <2>1, <2>2
<1>17. OfOthers(seed, t)
  <2>1. ASSUME NEW k \in 1..Len(seed), BelongsTo(seed[k], t) PROVE FALSE
    <3>1. seed[k] \in ToSet(seed)
      BY <1>16, InList DEF Tidy, Unrepeated
    <3>2. seed[k].key \in K
      BY <1>16, <2>1, <3>1 DEF Tidy
    <3>3. PICK P : P = Begun \ {t}
      OBVIOUS
    <3>4. seed[k].key \in KeysOf(P)
      BY <1>7, <3>2, <3>3
    <3>5. t \in P
      BY <2>1, <3>4, KeyOwner
    <3> QED BY <3>3, <3>5
  <2> QED BY <2>1 DEF OfOthers
<1>18. ASSUME NEW v, NEW w, OfTurn(w, v), Has(b.transcript, w) PROVE Has(seed, w)
  <2>1. Listed(w) /\ \A k \in 1..Len(w) : w[k].type # "workflow_step"
    BY <1>18 DEF OfTurn, Keyed
  <2>2. Has(read, w)
    BY <1>15, <1>18, <2>1
  <2>3. CASE read # <<>>
    BY <1>9, <2>2, <2>3
  <2>4. CASE read = <<>>
    <3>1. w = <<>>
      BY <2>2, <2>4, PickedNothing DEF Has
    <3>2. Listed(seed)
      BY <1>16 DEF Tidy, Unrepeated
    <3> QED BY <3>1, <3>2, HasNothing
  <2> QED BY <2>3, <2>4
<1>19. Tidy(seed, L)
  <2>1. PICK P : P = Begun \ {t}
    OBVIOUS
  <2>2. KeysOf(P) \subseteq L
    BY <1>6, <1>7, <2>1, KeysLater
  <2> QED BY <1>7, <1>16, <2>1, <2>2, TidyGrows
<1>20. /\ Tidy(q, L)
       /\ \A v, w : v # t /\ OfTurn(w, v) /\ Has(seed, w) => Has(q, w)
  BY <1>10, <1>13, <1>19, WordsSpoken
<1>21. Dedupe(items) = items
  BY <1>3, ItemsKeyed, KeyedDedupe
<1>22. /\ OfTurn(c, t)
       /\ \A k \in 1..Len(c) : \E n \in 1..Len(items) : c[k] = items[n]
  BY <1>3, <1>8, <1>21, ItemsOfTurn
<1>23. Listed(c)
  BY <1>22 DEF OfTurn, Keyed
<1>24. ASSUME NEW k \in 1..Len(c) PROVE c[k].key \in L
  <2>1. PICK n \in 1..Len(items) : c[k] = items[n]
    BY <1>22
  <2>2. c[k].key \in {<<"step", t, n>>, <<"seq", t, n>>}
    BY <1>3, <2>1 DEF Own, OwnItem
  <2>3. t \in Begun' /\ turns'[t].items = items
    BY <1>1, <1>4, <1>5, <1>6, BegunGrows
  <2> QED BY <1>7, <2>2, <2>3 DEF KeysOf
<1>25. z = Dedupe(Joined(q, c))
  BY <1>10 DEF Merge, Joined
<1>26. Tidy(z, L)
  BY <1>20, <1>23, <1>24, <1>25, TidyMerged
<1>27. ASSUME NEW v \in Turn \ {t}, turns[v].saved PROVE Has(s.transcript, TurnItems(v)) \/ Excused(v)'
  <2>1. PICK w : w = TurnItems(v)
    OBVIOUS
  <2>2. OfTurn(w, v)
    BY <2>1, ItemsListed, TurnItemsAre
  <2>3. PICK bt : bt = b.transcript
    OBVIOUS
  <2>4. Has(bt, w) \/ Excused(v)'
    BY <1>1, <1>6, <1>12, <1>27, <2>1, <2>3, ReadHolds
  <2>5. ASSUME Has(bt, w) PROVE Has(z, w)
    <3>1. Has(q, w)
      BY <1>18, <1>20, <2>2, <2>3, <2>5
    <3>2. OfOthers(c, v)
      BY <1>22 DEF OfTurn, OfOthers, BelongsTo
    <3>3. Unrepeated(q)
      BY <1>20 DEF Tidy
    <3> QED BY <1>23, <1>25, <2>2, <3>1, <3>2, <3>3, HasForeign
  <2> QED BY <1>11, <2>1, <2>4, <2>5
<1>28. Has(s.transcript, TurnItems(t)')
  <2>1. Has(z, TurnItems(t))
    BY <1>1, <1>3, <1>8, <1>10, <1>16, <1>17, SavesOwn
  <2>2. TurnItems(t)' = TurnItems(t)
    <3>1. turns'[t].text = turns[t].text /\ turns'[t].items = turns[t].items
      BY <1>1, <1>4, <1>5
    <3> QED BY <3>1, SameWords
  <2> QED BY <1>11, <2>1, <2>2
<1>29. turns'[t].at = "saved"
  BY <1>4, <1>5
<1> QED BY <1>6, <1>7, <1>11, <1>14, <1>26, <1>27, <1>28, <1>29, TurnWrites

\* A saved turn whose run fails says one thing more.
LEMMA HasLonger ==
  ASSUME NEW s, Unrepeated(s), NEW w, Keyed(w), Has(s, w), NEW x, x.key # NoKey,
         \A k \in 1..Len(s) : s[k].key # x.key, \A k \in 1..Len(w) : w[k].key # x.key
  PROVE  Has(Dedupe(With(s, x)), With(w, x))
<1>1. PICK z, y, S, R : z = With(s, x) /\ y = With(w, x) /\ S = ToSet(w) \cup {x} /\ R = ToSet(w)
  OBVIOUS
<1>2. Unrepeated(z)
  BY <1>1, UnrepeatedWith
<1>3. Listed(s) /\ Listed(w) /\ Listed(z)
  BY <1>2 DEF Unrepeated, Keyed
<1>4. ToSet(y) = S
  BY <1>1, <1>3, WithSet
<1>5. \A e \in S : e.key # NoKey
  BY <1>1, <1>3, InList DEF Keyed
<1>6. Picked(Dedupe(z), S) = Picked(z, S)
  BY <1>2, <1>3, <1>5, DedupePicked DEF Unrepeated
<1>7. x \in S
  BY <1>1
<1>8. Picked(z, S) = With(Picked(s, S), x)
  BY <1>1, <1>3, <1>7, PickedWith
<1>9. \A e \in ToSet(s) : e \in S <=> e \in R
  <2>1. x \notin ToSet(s)
    BY <1>3, InList
  <2> QED BY <1>1, <2>1
<1>10. Picked(s, S) = Picked(s, R)
  BY <1>3, <1>9, PickedSame
<1>11. Picked(s, R) = w
  BY <1>1 DEF Has
<1> QED BY <1>1, <1>4, <1>6, <1>8, <1>10, <1>11 DEF Has

LEMMA LastWord ==
  ASSUME ContentInv, WordsInv, NEW t \in Turn, turns'[t].text = turns[t].text,
         NEW x, x = EventItem(t, "assistant_answer", "error"), NEW new, new = <<x>>,
         turns'[t].items = turns[t].items \o new, Has(snap.transcript, TurnItems(t)),
         NEW z, z = Merge(Merge(snap.transcript, <<>>), WithoutSteps(new))
  PROVE  Has(z, TurnItems(t)')
<1>1. PICK w, items, p, n : /\ w = TurnItems(t) /\ items = turns[t].items /\ p = Spoken(t)
                            /\ n = WithoutSteps(items)
  OBVIOUS
<1>2. OfTurn(w, t) /\ w = Joined(p, n) /\ Own(items, t) /\ Listed(items) /\ Len(items) \in Nat
  BY <1>1, ItemsListed, TurnItemsAre
<1>3. OwnItem(x, t, Len(items) + 1) /\ x.type = "assistant_answer"
  BY <1>1, EventKey
<1>4. Len(x.key) = 3 /\ x.key[2] = t /\ x.key[3] = Len(items) + 1 /\ x.key # NoKey
  <2>1. Len(NoKey) = 0
    BY DEF NoKey
  <2> QED BY <1>3, <2>1 DEF OwnItem
<1>5. Listed(new) /\ Len(new) = 1 /\ new[1] = x
  BY ListedShort
<1>6. WithoutSteps(new) = new
  <2>1. new[1].type # "workflow_step"
    BY <1>3, <1>5
  <2> QED BY <1>5, <2>1, NoStepsKept
<1>7. OfTurn(n, t) /\ OfTurn(p, t) /\ \A k \in 1..Len(n) : \E j \in 1..Len(items) : n[k] = items[j]
  BY <1>1, <1>2, ItemsOfTurn, SpokenIs
<1>8. Listed(n) /\ Listed(p) /\ Listed(w) /\ Keyed(w)
  BY <1>2, <1>7 DEF OfTurn, Keyed
<1>9. TurnItems(t)' = With(w, x)
  <2>1. WithUserMessage(<<>>, t)' = p
    <3>1. WithUserMessage(<<>>, t)' = WithUserMessage(<<>>, t)
      BY DEF WithUserMessage, UserMessage
    <3> QED BY <1>1, <3>1, SpokenIs
  <2>2. WithoutSteps(Joined(items, new)) = Joined(n, new)
    BY <1>1, <1>2, <1>5, <1>6, WithoutStepsJoined
  <2>3. TurnItems(t)' = Joined(p, Joined(n, new))
    BY <1>1, <2>1, <2>2 DEF TurnItems, Joined
  <2>4. Joined(p, Joined(n, new)) = Joined(w, new)
    BY <1>2, <1>5, <1>8, JoinedTwice
  <2>5. Joined(w, new) = With(w, x)
    BY <1>8, ListedAppend DEF Joined, With
  <2> QED BY <2>3, <2>4, <2>5
<1>10. PICK s, K, e, P, m : /\ s = snap.transcript /\ P = Begun /\ K = KeysOf(P) /\ e = <<>>
                            /\ m = Dedupe(Joined(s, e))
  OBVIOUS
<1>11. Tidy(s, K) /\ Has(s, w) /\ Unrepeated(s)
  BY <1>1, <1>10 DEF WordsInv, Tidy
<1>12. Listed(e) /\ Len(e) = 0
  BY <1>10, ListedShort
<1>13. Tidy(m, K)
  BY <1>10, <1>11, <1>12, TidyMerged
<1>14. Has(m, w)
  <2>1. OfOthers(e, t)
    BY <1>12 DEF OfOthers
  <2> QED BY <1>2, <1>10, <1>11, <1>12, <2>1, HasForeign
<1>15. ASSUME NEW k \in 1..Len(m) PROVE m[k].key # x.key
  <2>1. SUFFICES ASSUME m[k].key = x.key PROVE FALSE
    OBVIOUS
  <2>2. m[k] \in ToSet(m)
    BY <1>13, InList DEF Tidy, Unrepeated
  <2>3. x.key \in KeysOf(P)
    <3>1. BelongsTo(m[k], t)
      BY <1>4, <2>1 DEF BelongsTo
    <3> QED BY <1>10, <1>13, <2>1, <2>2, <3>1 DEF Tidy
  <2>4. PICK u \in P : \/ x.key = <<"message", u>>
                       \/ \E l \in 1..Len(turns[u].items) : x.key = <<"step", u, l>> \/ x.key = <<"seq", u, l>>
    BY <2>3, KeyIs
  <2>5. x.key # <<"message", u>>
    BY <1>4
  <2>6. PICK l \in 1..Len(turns[u].items) : x.key = <<"step", u, l>> \/ x.key = <<"seq", u, l>>
    BY <2>4, <2>5
  <2>7. u = t /\ l = Len(items) + 1
    BY <1>4, <2>6
  <2> QED BY <1>1, <1>2, <2>6, <2>7
<1>16. ASSUME NEW k \in 1..Len(w) PROVE w[k].key # x.key
  <2>1. \/ k \in 1..Len(p) /\ w[k] = p[k]
        \/ \E i \in 1..Len(n) : k = Len(p) + i /\ w[k] = n[i]
    BY <1>2, <1>8, JoinedPlace
  <2>2. ASSUME NEW i \in 1..Len(p), w[k] = p[i] PROVE w[k].key # x.key
    <3>1. w[k].key = <<"message", t>>
      BY <1>1, <2>2, SpokenIs
    <3>2. Len(<<"message", t>>) = 2
      OBVIOUS
    <3> QED BY <1>4, <3>1, <3>2
  <2>3. ASSUME NEW i \in 1..Len(n), w[k] = n[i] PROVE w[k].key # x.key
    <3>1. PICK j \in 1..Len(items) : n[i] = items[j]
      BY <1>7
    <3>2. OwnItem(items[j], t, j)
      BY <1>2 DEF Own
    <3>3. w[k].key[3] = j
      BY <2>3, <3>1, <3>2 DEF OwnItem
    <3> QED BY <1>2, <1>4, <3>3
  <2> QED BY <2>1, <2>2, <2>3
<1>17. Has(Dedupe(With(m, x)), With(w, x))
  <2>1. Unrepeated(m)
    BY <1>13 DEF Tidy
  <2> QED BY <1>4, <1>8, <1>14, <1>15, <1>16, <2>1, HasLonger
<1>18. z = Dedupe(With(m, x))
  <2>1. Listed(m)
    BY <1>13 DEF Tidy, Unrepeated
  <2>2. Joined(m, new) = With(m, x)
    BY <2>1, ListedAppend DEF Joined, With
  <2>3. z = Dedupe(Joined(m, new))
    BY <1>6, <1>10 DEF Merge, Joined
  <2> QED BY <2>2, <2>3
<1> QED BY <1>9, <1>17, <1>18

LEMMA BreaksKeepsWords ==
  ASSUME ContentInv, ContentInv', WordsInv, NEW t \in Turn, Breaks(t)
  PROVE  WordsInv'
<1>1. PICK old, items, x, new : /\ old = turns[t] /\ items = turns[t].items
                                /\ x = EventItem(t, "assistant_answer", "error") /\ new = <<x>>
  OBVIOUS
<1>2. PICK r : r = [old EXCEPT !.at = "done", !.ended = "broken", !.base = Empty, !.items = items \o new]
  OBVIOUS
<1>3. FinalItem(t, "broken") = new
  BY <1>1 DEF FinalItem, WithAnswer
<1>4. /\ old.at \in {"running", "ended", "saved"} /\ TurnFits(old, t) /\ turns = [u \in Turn |-> turns[u]]
      /\ Listed(items) /\ Len(items) \in Nat
  BY <1>1, ItemsListed DEF ContentInv, Breaks
<1>5. r = [at |-> "done", text |-> old.text, kind |-> old.kind, base |-> Empty, items |-> items \o new,
           ended |-> "broken", saved |-> old.saved, blind |-> old.blind, before |-> old.before]
  BY <1>2, <1>4 DEF TurnFits
<1>6. turns'[t] = r /\ \A u \in Turn \ {t} : turns'[u] = turns[u]
  BY <1>1, <1>2, <1>3, <1>4 DEF Breaks
<1>7. OwnItem(x, t, Len(items) + 1)
  BY <1>1, EventKey
<1>8. Len(turns'[t].items) = Len(items) + 1
  <2>1. Len(With(items, x)) = Len(items) + 1 /\ With(items, x) = items \o new
    BY <1>1, <1>4, ListedAppend DEF With
  <2> QED BY <1>5, <1>6, <2>1
<1>9. GoesOn(t)
  <2>1. hidden' = hidden
    BY DEF Breaks, Emits, UpsertSummary
  <2>2. r.at = "done" /\ r.text = old.text /\ r.blind = old.blind /\ r.before = old.before
    BY <1>5
  <2> QED BY <1>1, <1>4, <1>6, <1>8, <2>1, <2>2 DEF GoesOn, Reading
<1>10. PICK L, s : L = KeysOf(Begun)' /\ s = snap'
  OBVIOUS
<1>11. Keyed(new) /\ \A k \in 1..Len(new) : new[k].key \in L /\ BelongsTo(new[k], t)
  BY <1>1, <1>7, <1>8, <1>9, <1>10, EmittedItem
<1>12. s = Applied(Loaded, <<>>, new)
  BY <1>3, <1>10 DEF Breaks, Emits
<1>13. t \in Faulty' /\ turns'[t].at = "done"
  BY <1>5, <1>6 DEF Faulty
<1>14. ASSUME turns'[t].saved PROVE Has(s.transcript, TurnItems(t)') \/ Excused(t)'
  <2>1. turns[t].saved
    BY <1>1, <1>5, <1>6, <1>14
  <2>2. CASE hidden
    <3>1. t \in Begun' /\ hidden'
      BY <1>9, <2>2, BegunGrows DEF GoesOn
    <3> QED BY <1>13, <3>1 DEF Excused, MayLose
  <2>3. CASE Excused(t)
    <3>1. ASSUME NEW u \in Begun, turns[u].at \in {"running", "ended"} \/ u \in Faulty
          PROVE  turns'[u].at \in {"running", "ended"} \/ u \in Faulty'
      BY <1>6, <1>13, <3>1 DEF Begun, Faulty
    <3> QED BY <1>9, <2>3, <3>1, BegunGrows, ExcuseStays DEF GoesOn
  <2>4. CASE ~hidden /\ Has(snap.transcript, TurnItems(t))
    <3>1. Loaded = snap
      BY <2>4 DEF Loaded, Loads
    <3>2. s.transcript = Merge(Merge(snap.transcript, <<>>), WithoutSteps(new))
      BY <1>12, <3>1 DEF Applied, WordsInv, Wellformed
    <3>3. turns'[t].text = turns[t].text /\ turns'[t].items = turns[t].items \o new
      BY <1>1, <1>5, <1>6
    <3> QED BY <1>1, <2>4, <3>2, <3>3, LastWord
  <2> QED BY <2>1, <2>2, <2>3, <2>4, Holds
<1> QED BY <1>1, <1>4, <1>9, <1>10, <1>11, <1>12, <1>13, <1>14, UnkeyedNothing, EmitKeepsWords

-----------------------------------------------------------------------------
(* Steps that write nothing                                                *)

\* The turns that began stay what they are, but for where they are.
BegunStay ==
  /\ Begun' = Begun
  /\ \A u \in Begun :
       /\ turns'[u].text = turns[u].text /\ turns'[u].items = turns[u].items
       /\ turns'[u].saved = turns[u].saved
       /\ turns'[u].before = turns[u].before /\ turns'[u].blind = turns[u].blind
       /\ turns[u].at \in {"saved", "done"} => turns'[u].at \in {"saved", "done"}
       /\ turns[u].at \in {"running", "ended"} \/ u \in Faulty =>
            turns'[u].at \in {"running", "ended"} \/ u \in Faulty'

LEMMA KeysStay ==
  ASSUME ContentInv, BegunStay, NEW P, P \subseteq Begun
  PROVE  KeysOf(P) \subseteq KeysOf(P)'
<1>1. \A v \in P : /\ Len(turns[v].items) \in Nat /\ Len(turns'[v].items) \in Nat
                    /\ Len(turns[v].items) <= Len(turns'[v].items)
  <2> SUFFICES ASSUME NEW v \in P
               PROVE  /\ Len(turns[v].items) \in Nat /\ Len(turns'[v].items) \in Nat
                      /\ Len(turns[v].items) <= Len(turns'[v].items)
    OBVIOUS
  <2>1. v \in Turn
    BY DEF Begun
  <2>2. Len(turns[v].items) \in Nat
    BY <2>1, ItemsListed
  <2> QED BY <2>2 DEF BegunStay
<1> QED BY <1>1, KeysGrow

LEMMA ReadsOn ==
  ASSUME ContentInv, WordsInv, BegunStay, NEW u \in Turn, turns'[u] = turns[u], turns[u].at \in Reading
  PROVE  ReadsWords(u)'
<1>1. PICK b, P : b = turns[u].base /\ P = Begun \ {u}
  OBVIOUS
<1>2. /\ Wellformed(b) /\ Tidy(b.transcript, KeysOf(P))
      /\ \A v \in turns[u].before : turns[v].saved /\ ~turns[u].blind =>
           Has(b.transcript, TurnItems(v)) \/ WordsLost(v)
  BY <1>1 DEF WordsInv, ReadsWords
<1>3. PICK L : L = KeysOf(P)'
  OBVIOUS
<1>4. KeysOf(P) \subseteq L
  BY <1>1, <1>3, KeysStay
<1>5. Tidy(b.transcript, L)
  BY <1>2, <1>4, TidyGrows
<1>6. L = KeysOf(Begun \ {u})'
  BY <1>1, <1>3 DEF KeysOf, BegunStay
<1>7. ASSUME NEW v \in turns[u].before, turns'[v].saved, ~turns[u].blind
      PROVE  Has(b.transcript, TurnItems(v)') \/ WordsLost(v)'
  <2>1. v \in Begun
    <3>1. turns[u].before \subseteq Done
      BY DEF ContentInv
    <3> QED BY <3>1 DEF Done, Begun
  <2>2. TurnItems(v)' = TurnItems(v)
    BY <2>1, SameWords DEF BegunStay
  <2>3. WordsLost(v) => WordsLost(v)'
    BY LostStays DEF BegunStay
  <2>4. turns[v].saved
    BY <1>7, <2>1 DEF BegunStay
  <2> QED BY <1>2, <1>7, <2>2, <2>3, <2>4
<1> QED BY <1>1, <1>2, <1>5, <1>6, <1>7 DEF ReadsWords

LEMMA QuietKeepsWords ==
  ASSUME ContentInv, WordsInv, BegunStay, snap' = snap, hidden => hidden',
         \A u \in Turn \ Begun : ~turns'[u].saved,
         \A u \in Turn : turns'[u].at \in Reading => ReadsWords(u)'
  PROVE  WordsInv'
<1>1. PICK s, P, L : s = snap /\ P = Begun /\ L = KeysOf(P)'
  OBVIOUS
<1>2. Wellformed(s) /\ Tidy(s.transcript, KeysOf(P))
  BY <1>1 DEF WordsInv
<1>3. KeysOf(P) \subseteq L
  BY <1>1, KeysStay
<1>4. Tidy(s.transcript, L)
  BY <1>2, <1>3, TidyGrows
<1>5. L = KeysOf(Begun)'
  BY <1>1 DEF KeysOf, BegunStay
<1>6. Wellformed(snap)' /\ Tidy(snap.transcript, KeysOf(Begun))'
  BY <1>1, <1>2, <1>4, <1>5 DEF Wellformed
<1>7. ASSUME NEW v \in Turn, turns'[v].saved
      PROVE  turns'[v].at \in {"saved", "done"} /\ (Has(s.transcript, TurnItems(v)') \/ Excused(v)')
  <2>1. v \in Begun /\ turns[v].saved
    BY <1>7 DEF BegunStay
  <2>2. turns[v].at \in {"saved", "done"} /\ (Has(snap.transcript, TurnItems(v)) \/ Excused(v))
    BY <2>1, Holds
  <2>3. TurnItems(v)' = TurnItems(v)
    BY <2>1, SameWords DEF BegunStay
  <2>4. Excused(v) => Excused(v)'
    BY ExcuseStays DEF BegunStay
  <2>5. turns'[v].at \in {"saved", "done"}
    BY <2>1, <2>2 DEF BegunStay
  <2> QED BY <1>1, <2>2, <2>3, <2>4, <2>5
<1>8. WordsHeld'
  BY <1>1, <1>7 DEF WordsHeld
<1> QED BY <1>6, <1>8 DEF WordsInv

LEMMA SameTurnsKeepWords ==
  ASSUME ContentInv, WordsInv, turns' = turns, snap' = snap, hidden => hidden'
  PROVE  WordsInv'
<1>1. BegunStay
  BY DEF BegunStay, Begun, Faulty
<1>2. \A u \in Turn \ Begun : ~turns'[u].saved
  BY Holds DEF Begun
<1>3. \A u \in Turn : turns'[u].at \in Reading => ReadsWords(u)'
  BY <1>1, ReadsOn
<1> QED BY <1>1, <1>2, <1>3, QuietKeepsWords

LEMMA RestartKeepsWords ==
  ASSUME ContentInv, WordsInv, ServerRestarts
  PROVE  WordsInv'
<1>0. \A u \in Turn : TurnFits(turns[u], u)
  BY DEF ContentInv
<1>1. snap' = snap /\ hidden' = hidden
  BY DEF ServerRestarts
<1>2. ASSUME NEW u \in Turn
      PROVE  /\ turns[u].at \in {"idle", "done"} => turns'[u] = turns[u]
             /\ turns[u].at = "routed" => turns'[u].at = "idle" /\ turns'[u].saved = FALSE
             /\ turns[u].at \notin {"idle", "done", "routed"} =>
                  /\ turns'[u].at = "done" /\ turns'[u].ended = "lost"
                  /\ turns'[u].text = turns[u].text /\ turns'[u].items = turns[u].items
                  /\ turns'[u].saved = turns[u].saved
                  /\ turns'[u].before = turns[u].before /\ turns'[u].blind = turns[u].blind
  <2>1. turns'[u] = CASE u \notin InFlight -> turns[u]
                      [] turns[u].at = "routed" -> NoTurn
                      [] OTHER -> [turns[u] EXCEPT !.at = "done", !.ended = "lost", !.base = Empty]
    BY DEF ServerRestarts
  <2>2. u \in InFlight <=> turns[u].at \notin {"idle", "done"}
    BY DEF InFlight
  <2>3. CASE turns[u].at \in {"idle", "done"}
    BY <2>1, <2>2, <2>3
  <2>4. CASE turns[u].at = "routed"
    BY <2>1, <2>2, <2>4 DEF NoTurn
  <2>5. CASE turns[u].at \notin {"idle", "done", "routed"}
    <3>1. PICK old : old = turns[u]
      OBVIOUS
    <3>2. turns'[u] = [old EXCEPT !.at = "done", !.ended = "lost", !.base = Empty]
      BY <2>1, <2>2, <2>5, <3>1
    <3>3. turns'[u] = [at |-> "done", text |-> old.text, kind |-> old.kind, base |-> Empty, items |-> old.items,
                       ended |-> "lost", saved |-> old.saved, blind |-> old.blind, before |-> old.before]
      BY <1>0, <3>1, <3>2 DEF TurnFits
    <3> QED BY <2>5, <3>1, <3>3
  <2> QED BY <2>3, <2>4, <2>5
<1>3. Begun' = Begun
  BY <1>2 DEF Begun
<1>4. ASSUME NEW u \in Begun
      PROVE  /\ turns'[u].text = turns[u].text /\ turns'[u].items = turns[u].items
             /\ turns'[u].saved = turns[u].saved
             /\ turns'[u].before = turns[u].before /\ turns'[u].blind = turns[u].blind
             /\ turns'[u].at = "done" /\ (turns[u].at # "done" => turns'[u].ended = "lost")
             /\ (turns[u].at = "done" => turns'[u] = turns[u])
  BY <1>2 DEF Begun
<1>5. ASSUME NEW u \in Begun, turns[u].at \in {"running", "ended"} \/ u \in Faulty PROVE u \in Faulty'
  BY <1>4, <1>5 DEF Faulty, Begun
<1>6. BegunStay
  BY <1>3, <1>4, <1>5 DEF BegunStay
<1>7. \A u \in Turn \ Begun : ~turns'[u].saved
  <2>1. ASSUME NEW u \in Turn \ Begun PROVE ~turns'[u].saved
    <3>1. turns[u].at \in {"idle", "routed"}
      BY DEF Begun
    <3>2. ~turns[u].saved
      BY <3>1, Holds
    <3> QED BY <1>2, <3>1, <3>2
  <2> QED BY <2>1
<1>8. \A u \in Turn : turns'[u].at \notin Reading
  <2>1. ASSUME NEW u \in Turn PROVE turns'[u].at \in {"idle", "done"}
    BY <1>2
  <2> QED BY <2>1 DEF Reading
<1> QED BY <1>1, <1>6, <1>7, <1>8, QuietKeepsWords

LEMMA RouteKeepsWords ==
  ASSUME ContentInv, WordsInv, NEW t \in Turn, NEW kind, NEW text, Route(t, kind, text)
  PROVE  WordsInv'
<1>1. PICK b, base, before :
        b = Blind(kind) /\ base = (IF Blind(kind) THEN Empty ELSE snap) /\ before = {u \in Turn : turns[u].at = "done"}
  OBVIOUS
<1>2. PICK new : new = NoTurn
  OBVIOUS
<1>3. PICK r : r = [new EXCEPT !.at = "routed", !.text = text, !.kind = kind,
                               !.blind = b, !.base = base, !.before = before]
  OBVIOUS
<1>4. r = [at |-> "routed", text |-> text, kind |-> kind, base |-> base, items |-> new.items,
           ended |-> new.ended, saved |-> new.saved, blind |-> b, before |-> before]
  <2>1. new = [at |-> new.at, text |-> new.text, kind |-> new.kind, base |-> new.base, items |-> new.items,
               ended |-> new.ended, saved |-> new.saved, blind |-> new.blind, before |-> new.before]
    BY <1>2 DEF NoTurn
  <2> QED BY ONLY <1>3, <2>1
<1>5. turns[t].at = "idle" /\ turns = [u \in Turn |-> turns[u]] /\ t \notin Begun /\ snap' = snap /\ hidden' = hidden
  BY DEF ContentInv, Route, Begun
<1>6. turns' = [turns EXCEPT ![t] = r]
  BY <1>1, <1>2, <1>3 DEF Route
<1>7. turns'[t] = r /\ \A u \in Turn \ {t} : turns'[u] = turns[u]
  BY <1>5, <1>6
<1>8. Begun' = Begun
  BY <1>4, <1>5, <1>7 DEF Begun
<1>9. \A u \in Begun : u # t /\ u \in Turn /\ turns'[u] = turns[u]
  BY <1>5, <1>7 DEF Begun
<1>10. BegunStay
  BY <1>8, <1>9 DEF BegunStay, Faulty
<1>11. \A u \in Turn \ Begun : ~turns'[u].saved
  <2>1. ASSUME NEW u \in Turn \ Begun PROVE ~turns'[u].saved
    <3>1. CASE u = t
      <4>1. r.saved = FALSE
        BY <1>2, <1>4 DEF NoTurn
      <4> QED BY <1>7, <3>1, <4>1
    <3>2. CASE u # t
      <4>1. ~turns[u].saved
        BY Holds DEF Begun
      <4> QED BY <1>7, <3>2, <4>1
    <3> QED BY <3>1, <3>2
  <2> QED BY <2>1
<1>12. ReadsWords(t)'
  <2>1. PICK P, K, L : P = Begun /\ K = KeysOf(P) /\ L = KeysOf(P)'
    OBVIOUS
  <2>2. K \subseteq L
    BY <1>10, <2>1, KeysStay
  <2>3. L = KeysOf(Begun \ {t})'
    BY <1>5, <1>8, <2>1 DEF KeysOf
  <2>4. Wellformed(base) /\ Tidy(base.transcript, L)
    <3>1. CASE base = snap
      <4>1. Wellformed(base) /\ Tidy(base.transcript, K)
        BY <2>1, <3>1 DEF WordsInv
      <4> QED BY <2>2, <4>1, TidyGrows
    <3>2. CASE base = Empty
      <4>1. base = [messages |-> <<>>, transcript |-> <<>>]
        BY <3>2 DEF Empty
      <4>2. base.messages = <<>> /\ base.transcript = <<>>
        BY <4>1
      <4>3. Listed(base.messages)
        BY <4>2, ListedShort
      <4>4. Tidy(base.transcript, L)
        BY <4>2, TidyNothing
      <4> QED BY <4>1, <4>2, <4>3, <4>4 DEF Wellformed
    <3> QED BY <1>1, <3>1, <3>2
  <2>5. ASSUME NEW v \in before, turns'[v].saved, ~b PROVE Has(base.transcript, TurnItems(v)') \/ WordsLost(v)'
    <3>1. v \in Begun
      BY <1>1 DEF Begun
    <3>2. TurnItems(v)' = TurnItems(v) /\ turns[v].saved
      BY <1>9, <2>5, <3>1, SameWords
    <3>3. ~hidden /\ base = snap
      BY <1>1, <2>5 DEF Blind, Loads
    <3>4. Has(snap.transcript, TurnItems(v)) \/ Excused(v)
      BY <1>9, <3>1, <3>2, Holds
    <3>5. Excused(v) => WordsLost(v)
      BY <3>3 DEF Excused, MayLose, WordsLost
    <3>6. WordsLost(v) => WordsLost(v)'
      BY <1>10, LostStays DEF BegunStay
    <3> QED BY <3>2, <3>3, <3>4, <3>5, <3>6
  <2>6. r.base = base /\ r.blind = b /\ r.before = before
    BY <1>4
  <2> QED BY <1>7, <2>3, <2>4, <2>5, <2>6 DEF ReadsWords
<1>13. \A u \in Turn : turns'[u].at \in Reading => ReadsWords(u)'
  <2>1. ASSUME NEW u \in Turn, u # t, turns'[u].at \in Reading PROVE ReadsWords(u)'
    BY <1>7, <1>10, <2>1, ReadsOn
  <2> QED BY <1>12, <2>1
<1> QED BY <1>5, <1>10, <1>11, <1>13, QuietKeepsWords

LEMMA WordsInit ==
  ASSUME ContentInit
  PROVE  WordsInv
<1>1. PICK s : s = snap
  OBVIOUS
<1>2. s = [messages |-> <<>>, transcript |-> <<>>] /\ \A u \in Turn : turns[u] = NoTurn
  BY <1>1 DEF ContentInit, Empty
<1>3. s.messages = <<>> /\ s.transcript = <<>>
  BY <1>2
<1>4. Listed(s.messages)
  BY <1>3, ListedShort
<1>5. PICK K : K = KeysOf(Begun)
  OBVIOUS
<1>6. Tidy(s.transcript, K)
  BY <1>3, TidyNothing
<1>7. NoTurn.at = "idle" /\ NoTurn.saved = FALSE
  BY DEF NoTurn
<1>8. \A u \in Turn : turns[u].at \notin Reading /\ ~turns[u].saved
  BY <1>2, <1>7 DEF Reading
<1> QED BY <1>1, <1>2, <1>3, <1>4, <1>5, <1>6, <1>8 DEF WordsInv, WordsHeld, Wellformed

LEMMA WordsNext ==
  ASSUME ContentInv, WordsInv, [ContentNext]_contentVars
  PROVE  WordsInv'
<1>0. ContentInv'
  BY ContentInvNext
<1>1. CASE MoveToBucket
  BY <1>1, SameTurnsKeepWords DEF MoveToBucket
<1>2. CASE ServerRestarts
  BY <1>2, RestartKeepsWords
<1>3. ASSUME NEW t \in Turn, NEW text, NEW kind, Route(t, kind, text)
      PROVE  WordsInv'
  BY <1>3, RouteKeepsWords
<1>4. ASSUME NEW t \in Turn, Stage(t) \/ Snapshot(t) \/ EmitStep(t) \/ \E type \in NoteType : EmitNote(t, type)
      PROVE  WordsInv'
  BY <1>0, <1>4, StageKeepsWords, SnapshotKeepsWords, EventKeepsWords
<1>5. ASSUME NEW t \in Turn, NEW how \in WithAnswer \cup {"question", "paused"}, EmitResult(t, how)
      PROVE  WordsInv'
  BY <1>0, <1>5, ResultKeepsWords
<1>6. ASSUME NEW t \in Turn, SaveSession(t) \/ SaveRunSnapshot(t) \/ Breaks(t)
      PROVE  WordsInv'
  BY <1>0, <1>6, SaveSessionKeepsWords, SaveRunSnapshotKeepsWords, BreaksKeepsWords
<1>7. CASE UNCHANGED contentVars
  BY <1>7, SameTurnsKeepWords DEF contentVars
<1> QED BY <1>1, <1>2, <1>3, <1>4, <1>5, <1>6, <1>7 DEF ContentNext

\* What a turn has saved stays in the session's transcript, or was lost to a turn that
\* overlapped it, to one that began with nothing, or to a move of the session.
THEOREM ConversationKeptAlways == ContentSpec => []ConversationKept
<1>1. ContentInit => WordsInv
  BY WordsInit
<1>2. ContentInv /\ WordsInv /\ [ContentNext]_contentVars => WordsInv'
  BY WordsNext
<1>3. ContentInv /\ WordsInv => ConversationKept
  <2> SUFFICES ASSUME ContentInv, WordsInv, NEW v \in Turn, turns[v].saved, ~Kept(v)
               PROVE  \E u \in Begun : MayLose(u, v)
    BY DEF ConversationKept
  <2>1. PICK s, w, S : s = snap.transcript /\ w = TurnItems(v) /\ S = ToSet(w)
    OBVIOUS
  <2>2. Kept(v) <=> Picked(s, S) = w
    <3>1. Kept(v) <=> FlattenSeq([k \in DOMAIN s |-> IF s[k] \in S THEN <<s[k]>> ELSE <<>>]) = w
      BY <2>1 DEF Kept, Only
    <3> QED BY <3>1 DEF Picked
  <2>3. Has(s, w) \/ Excused(v)
    BY <2>1, Holds
  <2> QED BY <2>1, <2>2, <2>3 DEF Has, Excused
<1> QED BY <1>1, <1>2, <1>3, ContentInvAlways, PTL DEF ContentSpec

=============================================================================

------------------------ MODULE RuntimeProxy_proofs ------------------------
(***************************************************************************)
(* Theorems about RuntimeProxy: the inductive invariant, whose answer a    *)
(* call returns, and the refinement of RuntimeCalls.                       *)
(***************************************************************************)
EXTENDS RuntimeProxy, TLAPS

USE LinesAssumption, BoundAssumption
-----------------------------------------------------------------------------
LEMMA InitIInv == Init => IInv
  BY DEF Init, IInv, TypeOK, OneHolder, MineIsNewest, Pipeline, Closing, Reading,
     Settled, Answered, IsAnswer, Running, Alive, Pcs, LockedPcs, ClosingPcs, Line, Failed

\* A step outside the lock leaves everything but one caller's place alone.
LEMMA OutsideTyped ==
  ASSUME IInv, NEW c \in Caller, Call(c) \/ Shutdown(c)
  PROVE IInv'
<1>1. /\ pc[c] = "idle"
      /\ pc' \in [Caller -> Pcs]
      /\ \E l \in {"waiting", "stopping"} : pc' = [pc EXCEPT ![c] = l]
      /\ UNCHANGED <<seen, callVars, workerVars, printed, crashes>>
  BY DEF Call, Shutdown, Goto, IInv, TypeOK, Pcs
<1>2. /\ \A d \in Caller : pc'[d] \in LockedPcs <=> pc[d] \in LockedPcs
      /\ \A d \in Caller : pc'[d] \in ClosingPcs <=> pc[d] \in ClosingPcs
      /\ \A d \in Caller : pc'[d] = "reading" <=> pc[d] = "reading"
      /\ \A d \in Caller : pc'[d] \in {"writing", "reading"} <=> pc[d] \in {"writing", "reading"}
  BY <1>1 DEF IInv, TypeOK, LockedPcs, ClosingPcs
<1>3. TypeOK'
  BY <1>1 DEF IInv, TypeOK, callVars, workerVars
<1>4. OneHolder' /\ MineIsNewest'
  BY <1>1, <1>2 DEF IInv, OneHolder, MineIsNewest, callVars, workerVars
<1>5. Closing' = Closing /\ Reading' = Reading
  BY <1>2 DEF Closing, Reading
<1>6. (~Closing => Pipeline)'
  BY <1>1, <1>5 DEF IInv, Pipeline, Settled, Answered, IsAnswer, Running, callVars, workerVars
<1>7. QED
  BY <1>1, <1>2, <1>3, <1>4, <1>5, <1>6 DEF IInv, callVars, workerVars

\* A step of the thread that holds, or takes, the lock: it alone decides whether
\* somebody reads or closes.
LEMMA Moves ==
  ASSUME IInv, NEW c \in Caller, NEW label \in Pcs,
         pc' = [pc EXCEPT ![c] = label],
         pc[c] \in LockedPcs \/ ~Locked
  PROVE  /\ pc' \in [Caller -> Pcs] /\ OneHolder'
         /\ \A d \in Caller : d # c => pc[d] \notin LockedPcs /\ pc'[d] = pc[d]
         /\ Closing <=> pc[c] \in ClosingPcs
         /\ Closing' <=> label \in ClosingPcs
         /\ Reading <=> pc[c] = "reading"
         /\ Reading' <=> label = "reading"
<1>1. /\ pc \in [Caller -> Pcs] /\ pc' \in [Caller -> Pcs]
      /\ pc'[c] = label
      /\ \A d \in Caller : d # c => pc[d] \notin LockedPcs /\ pc'[d] = pc[d]
  BY DEF IInv, TypeOK, OneHolder, Locked
<1>2. OneHolder'
  BY <1>1 DEF OneHolder
<1>3. /\ Closing <=> pc[c] \in ClosingPcs
      /\ Closing' <=> label \in ClosingPcs
  BY <1>1 DEF Closing, LockedPcs
<1>4. /\ Reading <=> pc[c] = "reading"
      /\ Reading' <=> label = "reading"
  BY <1>1 DEF Reading, LockedPcs
<1>5. QED
  BY <1>1, <1>2, <1>3, <1>4

LEMMA AcquireKeeps ==
  ASSUME IInv, NEW c \in Caller, Acquire(c)
  PROVE  IInv'
<1>1. PICK label \in {"ensuring", "closing"} :
        /\ pc[c] \in {"waiting", "stopping"} /\ ~Locked
        /\ pc' = [pc EXCEPT ![c] = label]
        /\ UNCHANGED <<seen, callVars, workerVars, printed, crashes>>
  BY DEF Acquire, Enter, Goto
<1>2. label \in Pcs
  BY DEF Pcs, LockedPcs, ClosingPcs
<1>3. /\ pc' \in [Caller -> Pcs] /\ OneHolder'
      /\ \A d \in Caller : d # c => pc[d] \notin LockedPcs /\ pc'[d] = pc[d]
      /\ ~Closing /\ ~Reading /\ ~Reading'
      /\ pc'[c] = label
  BY <1>1, <1>2, Moves DEF LockedPcs, ClosingPcs, IInv, TypeOK
<1>4. TypeOK'
  BY <1>1, <1>3 DEF IInv, TypeOK, callVars, workerVars
<1>5. MineIsNewest'
  BY <1>1, <1>3 DEF IInv, MineIsNewest, callVars
<1>6. Pipeline'
  BY <1>1, <1>3 DEF IInv, Pipeline, Settled, Answered, IsAnswer, Running, callVars, workerVars
<1>7. (worker = "leaving" => Closing)'
  BY <1>1, <1>3 DEF IInv, workerVars
<1>8. (worker = "none" =>
         stdin = <<>> /\ stdout = <<>> /\ dropped = 0
           /\ \A d \in Caller : pc[d] \notin {"writing", "reading"})'
  BY <1>1, <1>3 DEF IInv, callVars, workerVars
<1>9. QED
  BY <1>1, <1>3, <1>4, <1>5, <1>6, <1>7, <1>8 DEF IInv, callVars

LEMMA EnsureKeeps ==
  ASSUME IInv, NEW c \in Caller, EnsureWorker(c)
  PROVE  IInv'
<1>1. /\ pc[c] = "ensuring" /\ pc' = [pc EXCEPT ![c] = "writing"]
      /\ UNCHANGED <<seen, mine, got, asked, last, printed, crashes>>
  BY DEF EnsureWorker, Goto
<1>2. /\ pc' \in [Caller -> Pcs] /\ OneHolder' /\ pc'[c] = "writing"
      /\ \A d \in Caller : d # c => pc[d] \notin LockedPcs /\ pc'[d] = pc[d]
      /\ ~Closing /\ ~Closing' /\ ~Reading /\ ~Reading'
  BY <1>1, Moves DEF LockedPcs, ClosingPcs, Pcs, IInv, TypeOK
<1>3. MineIsNewest'
  BY <1>1, <1>2 DEF IInv, MineIsNewest
<1>4. CASE worker \in Alive
  <2>1. UNCHANGED <<workerVars, dropped>>
    BY <1>4 DEF EnsureWorker
  <2>2. TypeOK'
    BY <1>1, <1>2, <2>1 DEF IInv, TypeOK, workerVars
  <2>3. Pipeline'
    BY <1>1, <1>2, <2>1 DEF IInv, Pipeline, Settled, Answered, IsAnswer, Running, workerVars
  <2>4. QED
    BY <1>1, <1>2, <1>3, <1>4, <2>1, <2>2, <2>3 DEF IInv, workerVars, Alive
<1>5. CASE worker \notin Alive
  <2>1. worker' = "starting" /\ doing' = 0 /\ stdin' = <<>> /\ stdout' = <<>> /\ dropped' = 0
    BY <1>5 DEF EnsureWorker
  <2>2. TypeOK'
    BY <1>1, <1>2, <2>1 DEF IInv, TypeOK, Alive
  <2>3. last <= asked
    BY <1>2 DEF IInv, Pipeline, Settled, TypeOK
  <2>4. Pipeline'
    BY <1>1, <1>2, <2>1, <2>3 DEF IInv, TypeOK, Pipeline, Settled, Answered, IsAnswer, Running
  <2>5. QED
    BY <1>1, <1>2, <1>3, <2>1, <2>2, <2>4 DEF IInv
<1>6. QED
  BY <1>4, <1>5

LEMMA WriteKeeps ==
  ASSUME IInv, NEW c \in Caller, WriteRequest(c)
  PROVE  IInv'
<1>1. /\ pc[c] = "writing" /\ pc' = [pc EXCEPT ![c] = "reading"]
      /\ worker # "exited" /\ asked' = asked + 1
      /\ mine' = [mine EXCEPT ![c] = asked + 1]
      /\ stdin' = Append(stdin, asked + 1) /\ seen' = 0
      /\ UNCHANGED <<got, last, dropped, worker, doing, stdout, printed, crashes>>
  BY DEF WriteRequest, Goto
<1>2. /\ pc' \in [Caller -> Pcs] /\ OneHolder' /\ pc'[c] = "reading"
      /\ \A d \in Caller : d # c => pc[d] \notin LockedPcs /\ pc'[d] = pc[d]
      /\ ~Closing /\ ~Closing' /\ ~Reading /\ Reading'
  BY <1>1, Moves DEF LockedPcs, ClosingPcs, Pcs, IInv, TypeOK
<1>3. TypeOK'
  BY <1>1, <1>2 DEF IInv, TypeOK
<1>4. MineIsNewest'
  BY <1>1, <1>2 DEF IInv, MineIsNewest, TypeOK, LockedPcs
<1>5. /\ Settled' = Settled /\ Len(stdin') = Len(stdin) + 1 /\ Answered' = Answered
      /\ Running' = Running
      /\ \A i \in 1..Len(stdin) : stdin'[i] = stdin[i]
      /\ stdin'[Len(stdin) + 1] = asked + 1
  BY <1>1, <1>2 DEF IInv, TypeOK, Settled, Answered, Running
<1>6. Pipeline
  BY <1>2 DEF IInv
<1>7. Running => \A i \in DOMAIN stdin' : stdin'[i] # Exit /\ stdin'[i] = asked' - Len(stdin') + i
  <2>1. SUFFICES ASSUME Running, NEW i \in DOMAIN stdin'
                 PROVE  stdin'[i] # Exit /\ stdin'[i] = asked' - Len(stdin') + i
    OBVIOUS
  <2>2. /\ asked \in Nat /\ Len(stdin) \in Nat /\ DOMAIN stdin' = 1..(Len(stdin) + 1)
        /\ asked' - Len(stdin') = asked - Len(stdin)
    BY <1>1, <1>5 DEF IInv, TypeOK
  <2>3. CASE i = Len(stdin) + 1
    BY <1>1, <1>5, <2>2, <2>3 DEF Exit
  <2>4. CASE i # Len(stdin) + 1
    <3>1. i \in 1..Len(stdin) /\ stdin'[i] = stdin[i]
      BY <1>5, <2>2, <2>4
    <3>2. stdin[i] # Exit /\ stdin[i] = asked - Len(stdin) + i
      BY <1>6, <2>1, <3>1 DEF Pipeline
    <3>3. QED
      BY <2>2, <3>1, <3>2
  <2>5. QED
    BY <2>3, <2>4
<1>8. Pipeline'
  BY <1>1, <1>5, <1>6, <1>7 DEF Pipeline, IsAnswer
<1>9. worker # "none" /\ worker # "leaving" /\ last' <= asked'
  BY <1>1, <1>2 DEF IInv, TypeOK
<1>10. QED
  BY <1>1, <1>2, <1>3, <1>4, <1>8, <1>9 DEF IInv

\* A call that raises without having read anything.
LEMMA RaiseKeeps ==
  ASSUME IInv, NEW c \in Caller, WriteBroken(c) \/ ReadEnd(c)
  PROVE  IInv'
<1>1. /\ pc[c] \in {"writing", "reading"} /\ pc' = [pc EXCEPT ![c] = "closing"]
      /\ worker = "exited"
      /\ got' = [got EXCEPT ![c] = Failed] /\ mine' = [mine EXCEPT ![c] = 0]
      /\ UNCHANGED <<asked, last, seen, dropped, workerVars, printed, crashes>>
  BY DEF WriteBroken, ReadEnd, Raise, Goto
<1>2. /\ pc' \in [Caller -> Pcs] /\ OneHolder' /\ pc'[c] = "closing" /\ Closing'
      /\ \A d \in Caller : d # c => pc[d] \notin LockedPcs /\ pc'[d] = pc[d]
  BY <1>1, Moves DEF LockedPcs, ClosingPcs, Pcs, IInv, TypeOK
<1>3. TypeOK'
  BY <1>1, <1>2 DEF IInv, TypeOK, workerVars, Failed
<1>4. MineIsNewest'
  BY <1>1, <1>2 DEF IInv, MineIsNewest, TypeOK, LockedPcs
<1>5. QED
  BY <1>1, <1>2, <1>3, <1>4 DEF IInv, workerVars

\* What taking the first line away does to the answers on the worker's stdout.
LEMMA TailOfStdout ==
  ASSUME IInv, stdout # <<>>, stdout' = Tail(stdout)
  PROVE  /\ stdout' \in Seq(Line) /\ Len(stdout') = Len(stdout) - 1
         /\ \A i \in 1..Len(stdout') : stdout'[i] = stdout[i + 1]
         /\ Head(stdout) = stdout[1] /\ 1 \in 1..Len(stdout)
         /\ DOMAIN stdout = 1..Len(stdout) /\ DOMAIN stdout' = 1..Len(stdout')
  BY DEF IInv, TypeOK

LEMMA ReadAnswerKeeps ==
  ASSUME IInv, NEW c \in Caller, ReadAnswer(c)
  PROVE  IInv' /\ got'[c] = asked - dropped /\ mine[c] = asked /\ last < got'[c]
<1>1. /\ pc[c] = "reading" /\ pc' = [pc EXCEPT ![c] = "idle"]
      /\ stdout # <<>> /\ Head(stdout).kind = "answer" /\ stdout' = Tail(stdout)
      /\ got' = [got EXCEPT ![c] = Head(stdout).of] /\ last' = Head(stdout).of
      /\ mine' = [mine EXCEPT ![c] = 0]
      /\ UNCHANGED <<worker, doing, stdin, printed, crashes, seen, asked, dropped>>
  BY DEF ReadAnswer, Reads, Goto
<1>2. /\ pc' \in [Caller -> Pcs] /\ OneHolder' /\ pc'[c] = "idle"
      /\ \A d \in Caller : d # c => pc[d] \notin LockedPcs /\ pc'[d] = pc[d]
      /\ ~Closing /\ ~Closing' /\ Reading /\ ~Reading'
  BY <1>1, Moves DEF LockedPcs, ClosingPcs, Pcs, IInv, TypeOK
<1>3. /\ stdout' \in Seq(Line) /\ Len(stdout') = Len(stdout) - 1
      /\ \A i \in 1..Len(stdout') : stdout'[i] = stdout[i + 1]
      /\ Head(stdout) = stdout[1] /\ 1 \in 1..Len(stdout)
      /\ DOMAIN stdout = 1..Len(stdout) /\ DOMAIN stdout' = 1..Len(stdout')
  BY <1>1, TailOfStdout
<1>4. Head(stdout).of \in Nat
  <2>1. stdout[1] \in Line
    BY <1>3 DEF IInv, TypeOK
  <2>2. QED
    BY <1>3, <2>1 DEF Line
<1>5. TypeOK'
  BY <1>1, <1>2, <1>3, <1>4 DEF IInv, TypeOK
<1>6. MineIsNewest'
  BY <1>1, <1>2 DEF IInv, MineIsNewest, TypeOK, LockedPcs
<1>7. Pipeline
  BY <1>2 DEF IInv
<1>8. IsAnswer(1) /\ stdout[1].of = Settled + 1
  BY <1>1, <1>3, <1>7 DEF Pipeline, IsAnswer
<1>9. /\ Settled' = Settled + 1 /\ Answered' = Answered /\ Running' = Running
      /\ Settled = asked - dropped - 1
  BY <1>1, <1>2 DEF Settled, Answered, Running, IInv, TypeOK
<1>10. \A i \in 1..Len(stdout') : IsAnswer(i)' <=> IsAnswer(i + 1)
  BY <1>3 DEF IsAnswer, IInv, TypeOK
<1>11. ASSUME NEW i \in DOMAIN stdout', IsAnswer(i)'
       PROVE  /\ (\A j \in 1..(i - 1) : ~IsAnswer(j)') => stdout'[i].of = Settled' + 1
              /\ \A j \in 1..(i - 1) :
                   IsAnswer(j)' /\ (\A k \in (j + 1)..(i - 1) : ~IsAnswer(k)')
                     => stdout'[i].of = stdout'[j].of + 1
  <2>1. IsAnswer(i + 1) /\ i + 1 \in DOMAIN stdout
    BY <1>3, <1>10, <1>11 DEF IInv, TypeOK
  <2>2. ASSUME \A j \in 1..(i - 1) : ~IsAnswer(j)'
        PROVE  stdout'[i].of = Settled' + 1
    <3>1. \A k \in 2..i : ~IsAnswer(k)
      <4>1. TAKE k \in 2..i
      <4>2. k - 1 \in 1..(i - 1) /\ k - 1 \in 1..Len(stdout')
        BY <1>3, <1>11 DEF IInv, TypeOK
      <4>3. QED
        BY <4>2, <2>2, <1>10
    <3>2. 1 \in 1..((i + 1) - 1) /\ (1 + 1)..((i + 1) - 1) = 2..i
      BY <1>3
    <3>3. stdout[i + 1].of = stdout[1].of + 1
      BY <1>7, <1>8, <2>1, <3>1, <3>2 DEF Pipeline
    <3>4. QED
      BY <1>3, <1>8, <1>9, <3>3
  <2>3. ASSUME NEW j \in 1..(i - 1), IsAnswer(j)',
               \A k \in (j + 1)..(i - 1) : ~IsAnswer(k)'
        PROVE  stdout'[i].of = stdout'[j].of + 1
    <3>1. j \in 1..Len(stdout') /\ j + 1 \in 1..((i + 1) - 1) /\ IsAnswer(j + 1)
      BY <1>3, <1>10, <1>11, <2>3 DEF IInv, TypeOK
    <3>2. \A k \in ((j + 1) + 1)..((i + 1) - 1) : ~IsAnswer(k)
      <4>1. TAKE k \in ((j + 1) + 1)..((i + 1) - 1)
      <4>2. k - 1 \in (j + 1)..(i - 1) /\ k - 1 \in 1..Len(stdout')
        BY <1>3, <1>11 DEF IInv, TypeOK
      <4>3. QED
        BY <4>2, <2>3, <1>10
    <3>3. stdout[i + 1].of = stdout[j + 1].of + 1
      BY <1>7, <2>1, <3>1, <3>2 DEF Pipeline
    <3>4. QED
      BY <1>3, <3>1, <3>3
  <2>4. QED
    BY <2>2, <2>3
<1>12. ASSUME Running
       PROVE  /\ (\A i \in DOMAIN stdout' : ~IsAnswer(i)') => Answered' = Settled'
              /\ \A i \in DOMAIN stdout' :
                   IsAnswer(i)' /\ (\A j \in (i + 1)..Len(stdout') : ~IsAnswer(j)')
                     => stdout'[i].of = Answered'
  <2>1. ASSUME \A i \in DOMAIN stdout' : ~IsAnswer(i)'
        PROVE  Answered' = Settled'
    <3>1. \A k \in (1 + 1)..Len(stdout) : ~IsAnswer(k)
      <4>1. TAKE k \in (1 + 1)..Len(stdout)
      <4>2. k - 1 \in 1..Len(stdout') /\ (k - 1) + 1 = k
        BY <1>3 DEF IInv, TypeOK
      <4>3. ~IsAnswer(k - 1)'
        BY <4>2, <2>1, <1>3
      <4>4. QED
        BY <4>2, <4>3, <1>10
    <3>2. stdout[1].of = Answered
      BY <1>3, <1>7, <1>8, <1>12, <3>1 DEF Pipeline
    <3>3. QED
      BY <1>8, <1>9, <3>2
  <2>2. ASSUME NEW i \in DOMAIN stdout', IsAnswer(i)',
               \A j \in (i + 1)..Len(stdout') : ~IsAnswer(j)'
        PROVE  stdout'[i].of = Answered'
    <3>1. i + 1 \in DOMAIN stdout /\ IsAnswer(i + 1)
      BY <1>3, <1>10, <2>2 DEF IInv, TypeOK
    <3>2. \A k \in ((i + 1) + 1)..Len(stdout) : ~IsAnswer(k)
      <4>1. TAKE k \in ((i + 1) + 1)..Len(stdout)
      <4>2. k - 1 \in (i + 1)..Len(stdout') /\ k - 1 \in 1..Len(stdout')
        BY <1>3, <2>2 DEF IInv, TypeOK
      <4>3. QED
        BY <4>2, <2>2, <1>10
    <3>3. stdout[i + 1].of = Answered
      BY <1>7, <1>12, <3>1, <3>2 DEF Pipeline
    <3>4. QED
      BY <1>3, <1>9, <3>3
  <2>3. QED
    BY <2>1, <2>2
<1>13. Pipeline'
  <2>1. last' <= Settled'
    BY <1>1, <1>3, <1>8, <1>9
  <2>2. Running => /\ \A i \in DOMAIN stdin' : stdin'[i] # Exit /\ stdin'[i] = asked' - Len(stdin') + i
                   /\ worker' = "busy" => doing' = Answered' + 1
    BY <1>1, <1>7, <1>9 DEF Pipeline
  <2>3. QED
    BY <2>1, <2>2, <1>9, <1>11, <1>12 DEF Pipeline
<1>14. worker # "none"
  BY <1>1, <1>2 DEF IInv
<1>15. QED
  <2>1. IInv'
    BY <1>1, <1>2, <1>3, <1>5, <1>6, <1>8, <1>9, <1>13, <1>14 DEF IInv, TypeOK
  <2>2. got'[c] = asked - dropped /\ mine[c] = asked
    BY <1>1, <1>3, <1>8, <1>9 DEF IInv, TypeOK, MineIsNewest
  <2>3. last < got'[c]
    BY <1>1, <1>3, <1>7, <1>8 DEF Pipeline, IInv, TypeOK, Settled
  <2>4. QED
    BY <2>1, <2>2, <2>3

\* Taking a line away that is no answer leaves the pipeline as it is.
LEMMA SkipNoise ==
  ASSUME IInv, Pipeline, stdout # <<>>, Head(stdout).kind # "answer",
         stdout' = Tail(stdout), Settled' = Settled,
         UNCHANGED <<asked, last, worker, doing, stdin>>
  PROVE  Pipeline'
<1>1. /\ stdout' \in Seq(Line) /\ Len(stdout') = Len(stdout) - 1
      /\ \A i \in 1..Len(stdout') : stdout'[i] = stdout[i + 1]
      /\ Head(stdout) = stdout[1] /\ 1 \in 1..Len(stdout)
      /\ DOMAIN stdout = 1..Len(stdout) /\ DOMAIN stdout' = 1..Len(stdout')
  BY TailOfStdout
<1>2. \A i \in 1..Len(stdout') : IsAnswer(i)' <=> IsAnswer(i + 1)
  BY <1>1 DEF IsAnswer, IInv, TypeOK
<1>3. ~IsAnswer(1)
  BY <1>1 DEF IsAnswer
<1>4. Answered' = Answered /\ Running' = Running /\ Len(stdout) \in Nat
  BY DEF Answered, Running, IInv, TypeOK
<1>5. ASSUME NEW i \in DOMAIN stdout', IsAnswer(i)'
      PROVE  /\ (\A j \in 1..(i - 1) : ~IsAnswer(j)') => stdout'[i].of = Settled' + 1
             /\ \A j \in 1..(i - 1) :
                  IsAnswer(j)' /\ (\A k \in (j + 1)..(i - 1) : ~IsAnswer(k)')
                    => stdout'[i].of = stdout'[j].of + 1
  <2>1. IsAnswer(i + 1) /\ i + 1 \in DOMAIN stdout
    BY <1>1, <1>2, <1>4, <1>5
  <2>2. ASSUME \A j \in 1..(i - 1) : ~IsAnswer(j)'
        PROVE  stdout'[i].of = Settled' + 1
    <3>1. \A k \in 1..((i + 1) - 1) : ~IsAnswer(k)
      <4>1. TAKE k \in 1..((i + 1) - 1)
      <4>2. CASE k = 1
        BY <4>2, <1>3
      <4>3. CASE k # 1
        <5>1. k - 1 \in 1..(i - 1) /\ k - 1 \in 1..Len(stdout') /\ (k - 1) + 1 = k
          BY <4>3, <1>1, <1>4, <1>5
        <5>2. QED
          BY <5>1, <2>2, <1>2
      <4>4. QED
        BY <4>2, <4>3
    <3>2. QED
      BY <2>1, <3>1, <1>1, <1>5 DEF Pipeline
  <2>3. ASSUME NEW j \in 1..(i - 1), IsAnswer(j)',
               \A k \in (j + 1)..(i - 1) : ~IsAnswer(k)'
        PROVE  stdout'[i].of = stdout'[j].of + 1
    <3>1. j \in 1..Len(stdout') /\ j + 1 \in 1..((i + 1) - 1) /\ IsAnswer(j + 1)
      BY <1>1, <1>2, <1>4, <1>5, <2>3
    <3>2. \A k \in ((j + 1) + 1)..((i + 1) - 1) : ~IsAnswer(k)
      <4>1. TAKE k \in ((j + 1) + 1)..((i + 1) - 1)
      <4>2. k - 1 \in (j + 1)..(i - 1) /\ k - 1 \in 1..Len(stdout') /\ (k - 1) + 1 = k
        BY <1>1, <1>4, <1>5
      <4>3. QED
        BY <4>2, <2>3, <1>2
    <3>3. stdout[i + 1].of = stdout[j + 1].of + 1
      BY <2>1, <3>1, <3>2 DEF Pipeline
    <3>4. QED
      BY <1>1, <1>5, <3>1, <3>3
  <2>4. QED
    BY <2>2, <2>3
<1>6. ASSUME Running
      PROVE  /\ (\A i \in DOMAIN stdout' : ~IsAnswer(i)') => Answered' = Settled'
             /\ \A i \in DOMAIN stdout' :
                  IsAnswer(i)' /\ (\A j \in (i + 1)..Len(stdout') : ~IsAnswer(j)')
                    => stdout'[i].of = Answered'
  <2>1. ASSUME \A i \in DOMAIN stdout' : ~IsAnswer(i)'
        PROVE  Answered' = Settled'
    <3>1. \A k \in DOMAIN stdout : ~IsAnswer(k)
      <4>1. TAKE k \in DOMAIN stdout
      <4>2. CASE k = 1
        BY <4>2, <1>3
      <4>3. CASE k # 1
        <5>1. k - 1 \in 1..Len(stdout') /\ (k - 1) + 1 = k
          BY <4>3, <1>1, <1>4
        <5>2. ~IsAnswer(k - 1)'
          BY <5>1, <2>1, <1>1
        <5>3. QED
          BY <5>1, <5>2, <1>2
      <4>4. QED
        BY <4>2, <4>3
    <3>2. QED
      BY <3>1, <1>4, <1>6 DEF Pipeline
  <2>2. ASSUME NEW i \in DOMAIN stdout', IsAnswer(i)',
               \A j \in (i + 1)..Len(stdout') : ~IsAnswer(j)'
        PROVE  stdout'[i].of = Answered'
    <3>1. i + 1 \in DOMAIN stdout /\ IsAnswer(i + 1)
      BY <1>1, <1>2, <1>4, <2>2
    <3>2. \A k \in ((i + 1) + 1)..Len(stdout) : ~IsAnswer(k)
      <4>1. TAKE k \in ((i + 1) + 1)..Len(stdout)
      <4>2. k - 1 \in (i + 1)..Len(stdout') /\ k - 1 \in 1..Len(stdout') /\ (k - 1) + 1 = k
        BY <1>1, <1>4, <2>2
      <4>3. QED
        BY <4>2, <2>2, <1>2
    <3>3. stdout[i + 1].of = Answered
      BY <1>6, <3>1, <3>2 DEF Pipeline
    <3>4. QED
      BY <1>1, <1>4, <2>2, <3>3
  <2>3. QED
    BY <2>1, <2>2
<1>7. QED
  BY <1>4, <1>5, <1>6 DEF Pipeline

\* A call that raises after a line that is no answer and leaves the worker running:
\* the answer it does not wait for is counted as dropped.
LEMMA GiveUpKeeps ==
  ASSUME IInv, NEW c \in Caller, pc[c] = "reading", stdout # <<>>,
         Head(stdout).kind # "answer", stdout' = Tail(stdout),
         Raise(c, "idle"), dropped' = dropped + 1,
         UNCHANGED <<worker, doing, stdin, printed, crashes, seen>>
  PROVE  IInv'
<1>1. /\ pc' = [pc EXCEPT ![c] = "idle"]
      /\ got' = [got EXCEPT ![c] = Failed] /\ mine' = [mine EXCEPT ![c] = 0]
      /\ UNCHANGED <<asked, last>>
  BY DEF Raise, Goto
<1>2. /\ pc' \in [Caller -> Pcs] /\ OneHolder' /\ pc'[c] = "idle"
      /\ \A d \in Caller : d # c => pc[d] \notin LockedPcs /\ pc'[d] = pc[d]
      /\ ~Closing /\ ~Closing' /\ Reading /\ ~Reading'
  BY <1>1, Moves DEF LockedPcs, ClosingPcs, Pcs, IInv, TypeOK
<1>3. TypeOK'
  BY <1>1, <1>2, TailOfStdout DEF IInv, TypeOK, Failed
<1>4. MineIsNewest'
  BY <1>1, <1>2 DEF IInv, MineIsNewest, TypeOK, LockedPcs
<1>5. Settled' = Settled
  BY <1>1, <1>2 DEF Settled, IInv, TypeOK
<1>6. Pipeline'
  BY <1>1, <1>2, <1>5, SkipNoise DEF IInv
<1>7. QED
  BY <1>1, <1>2, <1>3, <1>4, <1>6 DEF IInv

LEMMA ReadTextKeeps ==
  ASSUME IInv, NEW c \in Caller, ReadText(c)
  PROVE  IInv'
<1>1. /\ pc[c] = "reading" /\ stdout # <<>> /\ Head(stdout).kind # "answer"
      /\ stdout' = Tail(stdout) /\ UNCHANGED <<worker, doing, stdin, printed, crashes>>
  BY DEF ReadText, Reads
<1>2. CASE seen + 1 < MaxLines
  <2>1. seen' = seen + 1 /\ UNCHANGED <<pc, callVars>>
    BY <1>2 DEF ReadText
  <2>2. TypeOK'
    BY <1>1, <1>2, <2>1, TailOfStdout DEF IInv, TypeOK, callVars
  <2>3. Settled' = Settled /\ Closing' = Closing
    BY <2>1 DEF Settled, Reading, Closing, callVars
  <2>4. (~Closing => Pipeline)'
    BY <1>1, <2>1, <2>3, SkipNoise DEF IInv, callVars
  <2>5. QED
    BY <1>1, <2>1, <2>2, <2>3, <2>4
    DEF IInv, OneHolder, MineIsNewest, callVars
<1>3. CASE ~(seen + 1 < MaxLines)
  <2>1. Raise(c, "idle") /\ dropped' = dropped + 1 /\ UNCHANGED seen
    BY <1>3 DEF ReadText
  <2>2. QED
    BY <1>1, <2>1, GiveUpKeeps
<1>4. QED
  BY <1>2, <1>3

LEMMA ReadScalarKeeps ==
  ASSUME IInv, NEW c \in Caller, ReadScalar(c)
  PROVE  IInv'
  BY GiveUpKeeps DEF ReadScalar, Reads

\* The steps of a worker that is being stopped.
LEMMA ReadBlankKeeps ==
  ASSUME IInv, NEW c \in Caller, ReadBlank(c)
  PROVE  IInv'
<1>1. /\ pc[c] = "reading" /\ pc' = [pc EXCEPT ![c] = "closing"]
      /\ stdout # <<>> /\ stdout' = Tail(stdout)
      /\ got' = [got EXCEPT ![c] = Failed] /\ mine' = [mine EXCEPT ![c] = 0]
      /\ UNCHANGED <<asked, last, seen, dropped, worker, doing, stdin, printed, crashes>>
  BY DEF ReadBlank, Reads, Raise, Goto
<1>2. /\ pc' \in [Caller -> Pcs] /\ OneHolder' /\ pc'[c] = "closing" /\ Closing'
      /\ \A d \in Caller : d # c => pc[d] \notin LockedPcs /\ pc'[d] = pc[d]
  BY <1>1, Moves DEF LockedPcs, ClosingPcs, Pcs, IInv, TypeOK
<1>3. TypeOK'
  BY <1>1, <1>2, TailOfStdout DEF IInv, TypeOK, Failed
<1>4. MineIsNewest'
  BY <1>1, <1>2 DEF IInv, MineIsNewest, TypeOK, LockedPcs
<1>5. worker # "none"
  BY <1>1 DEF IInv
<1>6. QED
  BY <1>1, <1>2, <1>3, <1>4, <1>5 DEF IInv

LEMMA StopKeeps ==
  ASSUME IInv, NEW c \in Caller, AskExit(c) \/ Drain(c)
  PROVE  IInv'
<1>1. /\ pc[c] \in {"closing", "draining"}
      /\ \E l \in {"draining", "joining"} : pc' = [pc EXCEPT ![c] = l]
      /\ UNCHANGED <<seen, callVars, worker, doing, printed, crashes>>
  BY DEF AskExit, Drain, Goto
<1>2. stdin' \in Seq(Nat) /\ stdout' \in Seq(Line)
  <2>1. stdin \in Seq(Nat) /\ stdout \in Seq(Line) /\ Append(stdin, Exit) \in Seq(Nat)
    BY DEF IInv, TypeOK, Exit
  <2>2. CASE AskExit(c)
    BY <2>1, <2>2 DEF AskExit
  <2>3. CASE Drain(c)
    BY <2>1, <2>3, TailOfStdout DEF Drain
  <2>4. QED
    BY <2>2, <2>3
<1>3. /\ pc' \in [Caller -> Pcs] /\ OneHolder' /\ Closing'
      /\ pc'[c] \in {"draining", "joining"}
      /\ \A d \in Caller : d # c => pc[d] \notin LockedPcs /\ pc'[d] = pc[d]
  <2>1. PICK l \in {"draining", "joining"} : pc' = [pc EXCEPT ![c] = l]
    BY <1>1
  <2>2. l \in Pcs /\ l \in ClosingPcs /\ pc[c] \in LockedPcs
    BY <1>1 DEF Pcs, LockedPcs, ClosingPcs
  <2>3. QED
    BY <2>1, <2>2, Moves DEF IInv, TypeOK
<1>4. TypeOK'
  BY <1>1, <1>2, <1>3 DEF IInv, TypeOK, callVars
<1>5. MineIsNewest'
  BY <1>1, <1>3 DEF IInv, MineIsNewest, TypeOK, callVars
<1>6. worker = "none" => stdin' = <<>> /\ stdout' = <<>>
  BY DEF AskExit, Drain, Alive, IInv
<1>7. QED
  BY <1>1, <1>3, <1>4, <1>5, <1>6 DEF IInv, callVars

LEMMA JoinKeeps ==
  ASSUME IInv, NEW c \in Caller, Join(c)
  PROVE  IInv'
<1>1. /\ pc[c] = "joining" /\ pc' = [pc EXCEPT ![c] = "idle"]
      /\ worker' = "none" /\ doing' = 0 /\ stdin' = <<>> /\ stdout' = <<>> /\ dropped' = 0
      /\ UNCHANGED <<seen, mine, got, asked, last, printed, crashes>>
  BY DEF Join, Goto
<1>2. /\ pc' \in [Caller -> Pcs] /\ OneHolder' /\ pc'[c] = "idle"
      /\ \A d \in Caller : d # c => pc[d] \notin LockedPcs /\ pc'[d] = pc[d]
      /\ ~Closing' /\ ~Reading'
  BY <1>1, Moves DEF LockedPcs, ClosingPcs, Pcs, IInv, TypeOK
<1>3. TypeOK'
  BY <1>1, <1>2 DEF IInv, TypeOK
<1>4. MineIsNewest'
  BY <1>1, <1>2 DEF IInv, MineIsNewest, TypeOK, LockedPcs
<1>5. QED
  BY <1>1, <1>2, <1>3, <1>4 DEF IInv, Pipeline, Settled, Running, Alive, IsAnswer, LockedPcs, TypeOK

-----------------------------------------------------------------------------
(* The steps of the worker. *)

\* What a line appended to stdout does to the answers that were there.
LEMMA AppendToStdout ==
  ASSUME IInv, NEW l \in Line, stdout' = Append(stdout, l),
         NEW n \in Nat, n = Len(stdout)
  PROVE  /\ stdout' \in Seq(Line) /\ Len(stdout') = n + 1
         /\ \A i \in 1..n : stdout'[i] = stdout[i] /\ (IsAnswer(i)' <=> IsAnswer(i))
         /\ stdout'[n + 1] = l
         /\ IsAnswer(n + 1)' <=> l.kind = "answer"
         /\ DOMAIN stdout = 1..n /\ DOMAIN stdout' = 1..(n + 1)
<1>1. /\ stdout' \in Seq(Line) /\ Len(stdout') = n + 1
      /\ \A i \in 1..n : stdout'[i] = stdout[i]
      /\ stdout'[n + 1] = l
      /\ DOMAIN stdout = 1..n /\ DOMAIN stdout' = 1..(n + 1)
  BY DEF IInv, TypeOK
<1>2. QED
  BY <1>1 DEF IsAnswer

LEMMA PrintKeeps ==
  ASSUME IInv, PrintNoise
  PROVE  IInv'
<1>0. PICK n \in Nat : n = Len(stdout)
  BY DEF IInv, TypeOK
<1>1. PICK k \in Noise : stdout' = Append(stdout, NoiseLine(k))
  BY DEF PrintNoise
<1>2. /\ NoiseLine(k) \in Line /\ NoiseLine(k).kind # "answer"
  BY DEF NoiseLine, Line, Noise, Exit
<1>3. /\ worker # "none" /\ printed' \in 0..MaxPrinted
      /\ UNCHANGED <<pc, seen, callVars, worker, doing, stdin, crashes>>
  BY DEF PrintNoise, IInv, TypeOK
<1>4. /\ stdout' \in Seq(Line) /\ Len(stdout') = n + 1
      /\ \A i \in 1..n : stdout'[i] = stdout[i] /\ (IsAnswer(i)' <=> IsAnswer(i))
      /\ ~IsAnswer(n + 1)'
      /\ DOMAIN stdout = 1..n /\ DOMAIN stdout' = 1..(n + 1)
  BY <1>0, <1>1, <1>2, AppendToStdout
<1>5. /\ Settled' = Settled /\ Answered' = Answered /\ Running' = Running
      /\ Closing' = Closing
  BY <1>3 DEF Settled, Answered, Running, Reading, Closing, callVars
<1>6. Pipeline => Pipeline'
  <2> HAVE Pipeline
  <2>1. ASSUME NEW i \in DOMAIN stdout', IsAnswer(i)'
        PROVE  /\ i \in DOMAIN stdout /\ IsAnswer(i)
               /\ \A j \in 1..(i - 1) : j \in 1..n
    BY <1>4, <2>1
  <2>2. ASSUME NEW i \in DOMAIN stdout', IsAnswer(i)'
        PROVE  /\ (\A j \in 1..(i - 1) : ~IsAnswer(j)') => stdout'[i].of = Settled' + 1
               /\ \A j \in 1..(i - 1) :
                    IsAnswer(j)' /\ (\A k2 \in (j + 1)..(i - 1) : ~IsAnswer(k2)')
                      => stdout'[i].of = stdout'[j].of + 1
    <3>1. /\ i \in DOMAIN stdout /\ IsAnswer(i)
          /\ \A j \in 1..(i - 1) : j \in 1..n
      BY <2>1, <2>2
    <3>2. \A j \in 1..(i - 1) : \A k2 \in (j + 1)..(i - 1) : k2 \in 1..(i - 1)
      BY <1>4, <3>1
    <3>3. QED
      BY <1>4, <1>5, <3>1, <3>2 DEF Pipeline
  <2>3. (\A i \in DOMAIN stdout' : ~IsAnswer(i)') => (\A i \in DOMAIN stdout : ~IsAnswer(i))
    BY <1>4
  <2>4. ASSUME NEW i \in DOMAIN stdout', IsAnswer(i)', Running,
               \A j \in (i + 1)..Len(stdout') : ~IsAnswer(j)'
        PROVE  stdout'[i].of = Answered'
    <3>1. /\ i \in DOMAIN stdout /\ IsAnswer(i)
      BY <2>1, <2>4
    <3>2. \A j \in (i + 1)..n : ~IsAnswer(j)
      BY <1>4, <2>4, <3>1
    <3>3. stdout[i].of = Answered
      BY <1>0, <2>4, <3>1, <3>2 DEF Pipeline
    <3>4. QED
      BY <1>4, <1>5, <3>1, <3>3
  <2>5. last' <= Settled'
    BY <1>3, <1>5 DEF Pipeline, callVars
  <2>6. Running' => /\ \A i \in DOMAIN stdin' : stdin'[i] # Exit /\ stdin'[i] = asked' - Len(stdin') + i
                    /\ worker' = "busy" => doing' = Answered' + 1
    BY <1>3, <1>5 DEF Pipeline, callVars
  <2>7. Running' => ((\A i \in DOMAIN stdout' : ~IsAnswer(i)') => Answered' = Settled')
    BY <2>3, <1>5 DEF Pipeline
  <2>8. QED
    BY <2>2, <2>4, <2>5, <2>6, <2>7, <1>5 DEF Pipeline
<1>7. TypeOK'
  BY <1>3, <1>4 DEF IInv, TypeOK, callVars
<1>8. QED
  BY <1>3, <1>5, <1>6, <1>7 DEF IInv, OneHolder, MineIsNewest, callVars

LEMMA AnswerKeeps ==
  ASSUME IInv, WriteAnswer
  PROVE  IInv'
<1>0. PICK n \in Nat : n = Len(stdout)
  BY DEF IInv, TypeOK
<1>1. /\ worker = "busy" /\ stdout' = Append(stdout, AnswerLine(doing))
      /\ worker' = "ready" /\ doing' = 0
      /\ UNCHANGED <<pc, seen, callVars, stdin, printed, crashes>>
  BY DEF WriteAnswer
<1>2. /\ AnswerLine(doing) \in Line /\ AnswerLine(doing).kind = "answer"
      /\ AnswerLine(doing).of = doing
  BY DEF AnswerLine, Line, IInv, TypeOK
<1>3. /\ stdout' \in Seq(Line) /\ Len(stdout') = n + 1
      /\ \A i \in 1..n : stdout'[i] = stdout[i] /\ (IsAnswer(i)' <=> IsAnswer(i))
      /\ stdout'[n + 1] = AnswerLine(doing)
      /\ IsAnswer(n + 1)'
      /\ DOMAIN stdout = 1..n /\ DOMAIN stdout' = 1..(n + 1)
  BY <1>0, <1>1, <1>2, AppendToStdout
<1>4. /\ Settled' = Settled /\ Answered' = Answered + 1 /\ Running /\ Running'
      /\ Closing' = Closing
  BY <1>1 DEF Settled, Answered, Running, Alive, Reading, Closing, callVars, IInv, TypeOK
<1>5. Pipeline => Pipeline'
  <2> HAVE Pipeline
  <2>1. doing = Answered + 1
    BY <1>1, <1>4 DEF Pipeline
  <2>2. ASSUME NEW i \in DOMAIN stdout', IsAnswer(i)', i # n + 1
        PROVE  /\ (\A j \in 1..(i - 1) : ~IsAnswer(j)') => stdout'[i].of = Settled' + 1
               /\ \A j \in 1..(i - 1) :
                    IsAnswer(j)' /\ (\A k2 \in (j + 1)..(i - 1) : ~IsAnswer(k2)')
                      => stdout'[i].of = stdout'[j].of + 1
    <3>1. /\ i \in DOMAIN stdout /\ IsAnswer(i)
          /\ \A j \in 1..(i - 1) : j \in 1..n
      BY <1>3, <2>2
    <3>2. \A j \in 1..(i - 1) : \A k2 \in (j + 1)..(i - 1) : k2 \in 1..(i - 1)
      BY <1>3, <3>1
    <3>3. QED
      BY <1>3, <1>4, <3>1, <3>2 DEF Pipeline
  <2>3. ASSUME \A j \in 1..n : ~IsAnswer(j)'
        PROVE  stdout'[n + 1].of = Settled' + 1
    <3>1. \A j \in DOMAIN stdout : ~IsAnswer(j)
      BY <1>3, <2>3
    <3>2. Answered = Settled
      BY <1>4, <3>1 DEF Pipeline
    <3>3. QED
      BY <1>2, <1>3, <1>4, <2>1, <3>2
  <2>4. ASSUME NEW j \in 1..n, IsAnswer(j)',
               \A k2 \in (j + 1)..n : ~IsAnswer(k2)'
        PROVE  stdout'[n + 1].of = stdout'[j].of + 1
    <3>1. IsAnswer(j) /\ j \in DOMAIN stdout
      BY <1>3, <2>4
    <3>2. \A k2 \in (j + 1)..n : ~IsAnswer(k2)
      <4>1. TAKE k2 \in (j + 1)..n
      <4>2. k2 \in 1..n
        BY <1>3
      <4>3. QED
        BY <1>3, <2>4, <4>2
    <3>3. stdout[j].of = Answered
      BY <1>0, <1>4, <3>1, <3>2 DEF Pipeline
    <3>4. QED
      BY <1>2, <1>3, <2>1, <3>3
  <2>5. ASSUME NEW i \in DOMAIN stdout', IsAnswer(i)'
        PROVE  /\ (\A j \in 1..(i - 1) : ~IsAnswer(j)') => stdout'[i].of = Settled' + 1
               /\ \A j \in 1..(i - 1) :
                    IsAnswer(j)' /\ (\A k2 \in (j + 1)..(i - 1) : ~IsAnswer(k2)')
                      => stdout'[i].of = stdout'[j].of + 1
    <3>1. CASE i # n + 1
      BY <2>2, <2>5, <3>1
    <3>2. CASE i = n + 1
      <4>1. i - 1 = n
        BY <1>3, <3>2
      <4>2. QED
        BY <2>3, <2>4, <3>2, <4>1
    <3>3. QED
      BY <3>1, <3>2
  <2>6. ASSUME NEW i \in DOMAIN stdout', IsAnswer(i)',
               \A j \in (i + 1)..Len(stdout') : ~IsAnswer(j)'
        PROVE  stdout'[i].of = Answered'
    <3>1. i = n + 1
        <4>1. i \in 1..(n + 1) /\ (i # n + 1 => n + 1 \in (i + 1)..Len(stdout'))
        BY <1>3, <2>6
      <4>2. QED
        BY <1>3, <2>6, <4>1
    <3>2. QED
      BY <1>2, <1>3, <1>4, <2>1, <3>1
  <2>7. ~(\A i \in DOMAIN stdout' : ~IsAnswer(i)')
    BY <1>3
  <2>8. last' <= Settled' /\ \A i \in DOMAIN stdin' : stdin'[i] # Exit /\ stdin'[i] = asked' - Len(stdin') + i
    BY <1>1, <1>4 DEF Pipeline, callVars
  <2>9. QED
    BY <1>1, <2>5, <2>6, <2>7, <2>8 DEF Pipeline
<1>6. TypeOK'
  BY <1>1, <1>3 DEF IInv, TypeOK, callVars, Alive
<1>7. QED
  BY <1>1, <1>4, <1>5, <1>6 DEF IInv, OneHolder, MineIsNewest, callVars

LEMMA TakeKeeps ==
  ASSUME IInv, TakeRequest
  PROVE  IInv'
<1>1. /\ worker = "ready" /\ stdin # <<>> /\ stdin' = Tail(stdin)
      /\ UNCHANGED <<pc, seen, callVars, printed, crashes>>
  BY DEF TakeRequest
<1>2. /\ stdin' \in Seq(Nat) /\ Len(stdin') = Len(stdin) - 1 /\ Len(stdin) \in Nat \ {0}
      /\ \A i \in 1..Len(stdin') : stdin'[i] = stdin[i + 1]
      /\ Head(stdin) = stdin[1] /\ Head(stdin) \in Nat
      /\ DOMAIN stdin = 1..Len(stdin) /\ DOMAIN stdin' = 1..Len(stdin')
  BY <1>1 DEF IInv, TypeOK
<1>3. Closing' = Closing /\ Settled' = Settled
  BY <1>1 DEF Closing, Settled, Reading, callVars
<1>4. CASE Head(stdin) = Exit
  <2>1. /\ stdout' = Append(stdout, AnswerLine(Exit)) /\ worker' = "leaving" /\ doing' = doing
    BY <1>4 DEF TakeRequest
  <2>2. Closing
    <3>1. SUFFICES ASSUME ~Closing PROVE FALSE
      OBVIOUS
    <3>2. 1 \in DOMAIN stdin /\ Running
      BY <1>1, <1>2 DEF Running, Alive
    <3>3. QED
      BY <1>2, <1>4, <3>1, <3>2 DEF IInv, Pipeline
  <2>3. AnswerLine(Exit) \in Line
    BY DEF AnswerLine, Line, Exit
  <2>4. stdout' \in Seq(Line)
    BY <2>1, <2>3 DEF IInv, TypeOK
  <2>5. TypeOK'
    BY <1>1, <1>2, <2>1, <2>4 DEF IInv, TypeOK, callVars, Alive
  <2>6. QED
    BY <1>1, <1>3, <2>1, <2>2, <2>5 DEF IInv, OneHolder, MineIsNewest, callVars
<1>5. CASE Head(stdin) # Exit
  <2>1. /\ worker' = "busy" /\ doing' = Head(stdin) /\ stdout' = stdout
    BY <1>5 DEF TakeRequest
  <2>2. Answered' = Answered /\ Answered = asked - Len(stdin)
    BY <1>1, <1>2, <2>1 DEF Answered, callVars, IInv, TypeOK
  <2>3. Pipeline => Pipeline'
    <3> HAVE Pipeline
    <3>1. Running /\ Running' /\ asked' = asked /\ asked \in Nat /\ last' = last
      BY <1>1, <2>1 DEF Running, Alive, callVars, IInv, TypeOK
    <3>2. doing' = Answered' + 1
      BY <1>2, <2>1, <2>2, <3>1 DEF Pipeline
    <3>3. \A i \in DOMAIN stdin' : stdin'[i] # Exit /\ stdin'[i] = asked' - Len(stdin') + i
      <4>1. TAKE i \in DOMAIN stdin'
      <4>2. i + 1 \in DOMAIN stdin /\ stdin'[i] = stdin[i + 1] /\ i \in Nat
        BY <1>2
      <4>3. stdin[i + 1] # Exit /\ stdin[i + 1] = asked - Len(stdin) + (i + 1)
        BY <3>1, <4>2 DEF Pipeline
      <4>4. QED
        BY <1>2, <3>1, <4>2, <4>3
    <3>4. QED
      BY <1>3, <2>1, <2>2, <3>1, <3>2, <3>3 DEF Pipeline, IsAnswer
  <2>4. TypeOK'
    BY <1>1, <1>2, <2>1 DEF IInv, TypeOK, callVars, Alive
  <2>5. QED
    BY <1>1, <1>3, <2>1, <2>3, <2>4 DEF IInv, OneHolder, MineIsNewest, callVars
<1>6. QED
  BY <1>4, <1>5

\* A worker that starts, leaves or dies.
LEMMA WorkerKeeps ==
  ASSUME IInv, Boot \/ Leave \/ Crash
  PROVE  IInv'
<1>1. /\ UNCHANGED <<pc, seen, callVars, stdin, stdout, printed>>
      /\ crashes' \in 0..MaxCrashes /\ doing' \in Nat
      /\ worker # "none" /\ worker' \in {"ready", "exited"}
  BY DEF Boot, Leave, Crash, IInv, TypeOK
<1>2. Closing' = Closing /\ Settled' = Settled
  BY <1>1 DEF Closing, Settled, Reading, callVars
<1>3. TypeOK'
  BY <1>1 DEF IInv, TypeOK, callVars, Alive
<1>4. Pipeline => Pipeline'
  <2>1. CASE Boot
    BY <1>1, <1>2, <2>1 DEF Boot, Pipeline, IsAnswer, Running, Alive, Answered, callVars
  <2>2. CASE Leave \/ Crash
    BY <1>1, <1>2, <2>2 DEF Leave, Crash, Pipeline, IsAnswer, Running, Alive, callVars
  <2>3. QED
    BY <2>1, <2>2
<1>5. QED
  BY <1>1, <1>2, <1>3, <1>4 DEF IInv, OneHolder, MineIsNewest, callVars

LEMMA StutterKeeps ==
  ASSUME IInv, UNCHANGED vars
  PROVE  IInv'
  BY DEF vars, callVars, workerVars, IInv, TypeOK, OneHolder, MineIsNewest, Closing,
     Pipeline, Settled, Answered, Reading, Running, IsAnswer
-----------------------------------------------------------------------------
(* The theorems. *)

\* IInv: the lock is held by one thread, and the answers that can still arrive are
\* those of the unsettled requests in order.
THEOREM ProxyInvariant == Spec => []IInv
<1>1. IInv /\ [Next]_vars => IInv'
  <2> SUFFICES ASSUME IInv, [Next]_vars PROVE IInv'
    OBVIOUS
  <2>1. CASE \E c \in Caller : Call(c) \/ Shutdown(c)
    BY <2>1, OutsideTyped
  <2>2. CASE \E c \in Caller : Acquire(c)
    BY <2>2, AcquireKeeps
  <2>3. ASSUME NEW c \in Caller, CallStep(c) PROVE IInv'
    BY <2>3, EnsureKeeps, WriteKeeps, RaiseKeeps, ReadAnswerKeeps, ReadTextKeeps,
       ReadScalarKeeps, ReadBlankKeeps, StopKeeps, JoinKeeps DEF CallStep
  <2>4. CASE WorkerStep \/ PrintNoise \/ Crash
    BY <2>4, WorkerKeeps, TakeKeeps, AnswerKeeps, PrintKeeps DEF WorkerStep
  <2>5. CASE UNCHANGED vars
    BY <2>5, StutterKeeps
  <2>6. QED
    BY <2>1, <2>2, <2>3, <2>4, <2>5 DEF Next
<1>2. QED
  BY InitIInv, <1>1, PTL DEF Spec

\* Which steps end a call's reading with an answer.
LEMMA OnlyReadAnswerReturns ==
  ASSUME IInv, [Next]_vars, NEW c \in Caller,
         pc[c] = "reading", pc'[c] = "idle", got'[c] # Failed
  PROVE  ReadAnswer(c)
<1>1. pc \in [Caller -> Pcs] /\ got \in [Caller -> Nat]
  BY DEF IInv, TypeOK
<1>2. ASSUME NEW d \in Caller, Call(d) \/ Shutdown(d) \/ Acquire(d) PROVE FALSE
  BY <1>1, <1>2 DEF Call, Shutdown, Acquire, Enter, Goto
<1>3. ASSUME NEW d \in Caller, CallStep(d), d # c PROVE FALSE
  BY <1>1, <1>3 DEF CallStep, EnsureWorker, WriteRequest, WriteBroken, ReadAnswer, ReadText,
     ReadScalar, ReadBlank, ReadEnd, AskExit, Drain, Join, Raise, Goto
<1>4. ASSUME CallStep(c) PROVE ReadAnswer(c)
  BY <1>1, <1>4 DEF CallStep, EnsureWorker, WriteRequest, WriteBroken, ReadText, Reads,
     ReadScalar, ReadBlank, ReadEnd, AskExit, Drain, Join, Raise, Goto
<1>5. ASSUME WorkerStep \/ PrintNoise \/ Crash \/ UNCHANGED vars PROVE FALSE
  BY <1>5 DEF WorkerStep, Boot, TakeRequest, WriteAnswer, Leave, PrintNoise, Crash, vars
<1>6. QED
  BY <1>2, <1>3, <1>4, <1>5 DEF Next

\* AnswerLag: a returned answer is that to the request as many requests before the
\* call's own as were given up on the worker (_read_json_response).
THEOREM AnswersLagByDropped == Spec => AnswerLag
<1>1. ASSUME IInv, [Next]_vars, NEW c \in Caller,
             pc[c] = "reading", pc'[c] = "idle", got'[c] # Failed
      PROVE  got'[c] = mine[c] - dropped
  BY <1>1, OnlyReadAnswerReturns, ReadAnswerKeeps
<1>2. IInv /\ [Next]_vars =>
        [\A c \in Caller : pc[c] = "reading" /\ pc'[c] = "idle" /\ got'[c] # Failed
            => got'[c] = mine[c] - dropped]_vars
  BY <1>1
<1>3. QED
  BY ProxyInvariant, <1>2, PTL DEF Spec, AnswerLag
-----------------------------------------------------------------------------
(* The refinement of RuntimeCalls. *)

LEMMA StepRefines ==
  ASSUME IInv, [Next]_vars
  PROVE  [Calls!Next]_Calls!vars
<1>1. pc \in [Caller -> Pcs] /\ mine \in [Caller -> Nat] /\ got \in [Caller -> Nat]
  BY DEF IInv, TypeOK
<1>2. CASE UNCHANGED <<asked, mine, got, last>>
  BY <1>2 DEF Calls!vars
<1>3. ASSUME NEW c \in Caller, WriteRequest(c) PROVE Calls!Next
  <2>1. mine[c] = 0
    BY <1>3 DEF WriteRequest, IInv, MineIsNewest
  <2>2. Calls!Ask(c)
    BY <1>3, <2>1 DEF WriteRequest, Calls!Ask
  <2>3. QED
    BY <2>2 DEF Calls!Next
<1>4. ASSUME NEW c \in Caller, ReadAnswer(c) PROVE Calls!Next
  <2>1. /\ got'[c] = asked - dropped /\ mine[c] = asked /\ last < got'[c]
    BY <1>4, ReadAnswerKeeps
  <2>2. /\ got' = [got EXCEPT ![c] = got'[c]] /\ last' = got'[c]
        /\ mine' = [mine EXCEPT ![c] = 0] /\ UNCHANGED asked
    BY <1>1, <1>4 DEF ReadAnswer
  <2>3. got'[c] \in 1..asked /\ got'[c] <= mine[c]
    BY <2>1 DEF IInv, TypeOK
  <2>4. Calls!Answer(c, got'[c])
    BY <2>1, <2>2, <2>3 DEF Calls!Answer
  <2>5. QED
    BY <2>3, <2>4 DEF Calls!Next
<1>5. ASSUME NEW c \in Caller, Raise(c, "idle") \/ Raise(c, "closing") PROVE Calls!Next
  <2>1. Calls!Fail(c)
    BY <1>5 DEF Raise, Calls!Fail, Failed, Calls!Failed
  <2>2. QED
    BY <2>1 DEF Calls!Next
<1>6. ASSUME NEW c \in Caller, Call(c) \/ Shutdown(c) \/ Acquire(c) \/ EnsureWorker(c)
                                 \/ AskExit(c) \/ Drain(c) \/ Join(c)
      PROVE  UNCHANGED <<asked, mine, got, last>>
  BY <1>6 DEF Call, Shutdown, Acquire, Enter, EnsureWorker, AskExit, Drain, Join, callVars
<1>7. ASSUME NEW c \in Caller, ReadText(c)
      PROVE  Raise(c, "idle") \/ UNCHANGED <<asked, mine, got, last>>
  BY <1>7 DEF ReadText, callVars
<1>8. ASSUME NEW c \in Caller, WriteBroken(c) \/ ReadScalar(c) \/ ReadBlank(c) \/ ReadEnd(c)
      PROVE  Raise(c, "idle") \/ Raise(c, "closing")
  BY <1>8 DEF WriteBroken, ReadScalar, ReadBlank, ReadEnd
<1>9. ASSUME WorkerStep \/ PrintNoise \/ Crash \/ UNCHANGED vars
      PROVE  UNCHANGED <<asked, mine, got, last>>
  BY <1>9 DEF WorkerStep, Boot, TakeRequest, WriteAnswer, Leave, PrintNoise, Crash, vars, callVars
<1>10. QED
  BY <1>2, <1>3, <1>4, <1>5, <1>6, <1>7, <1>8, <1>9 DEF Next, CallStep

\* ImplementsCalls: no answer is given twice, to an earlier call or out of order
\* (_call_locked under the lock, the worker's _run_loop at the other end).
THEOREM ProxyImplementsCalls == Spec => ImplementsCalls
<1>1. Init => Calls!Init
  BY DEF Init, Calls!Init, Failed, Calls!Failed
<1>2. QED
  BY <1>1, StepRefines, ProxyInvariant, PTL DEF Spec, ImplementsCalls, Calls!Spec
=============================================================================

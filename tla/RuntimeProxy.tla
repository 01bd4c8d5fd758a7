---------------------------- MODULE RuntimeProxy ----------------------------
(***************************************************************************)
(* SubprocessQGISRuntime and the worker process that executes its          *)
(* operations: requests and answers are lines on the worker's stdin and    *)
(* stdout, and one lock is held for the whole of a call.                   *)
(*                                                                         *)
(*   caller   idle -> waiting -> ensuring -> writing -> reading -> idle    *)
(*            writing, reading -> closing -> draining -> joining -> idle   *)
(*            idle -> stopping -> closing                                  *)
(*   worker   none -> starting -> ready <-> busy -> ... -> exited          *)
(*                                ready -> leaving -> exited               *)
(*                                                                         *)
(* Requests are numbered in the order in which they are written.  The pipe *)
(* carries no number: an answer is told from another by its place only.    *)
(***************************************************************************)
EXTENDS Naturals, Sequences, FiniteSets

CONSTANTS Caller,      \* threads that use one proxy
          MaxLines,    \* how many lines of stdout one call reads (50)
          MaxAsked,    \* bound on requests
          MaxPrinted,  \* bound on lines that are not answers
          MaxCrashes   \* bound on workers that die by themselves

ASSUME LinesAssumption == MaxLines \in Nat \ {0}
ASSUME BoundAssumption == MaxAsked \in Nat /\ MaxPrinted \in Nat /\ MaxCrashes \in Nat

VARIABLES
  pc,       \* pc[c]: where caller c is
  mine,     \* mine[c]: the request c reads an answer for, 0 when none
  got,      \* got[c]: the request whose answer c's last call returned, or Failed
  asked,    \* requests written so far
  last,     \* the request whose answer was returned last
  seen,     \* lines the call that holds the lock has read without an answer
  dropped,  \* requests to this worker that were given up while it lived
  worker,   \* the worker process
  doing,    \* the request the worker executes
  stdin, stdout,   \* the pipes
  printed, crashes

callVars == <<mine, got, asked, last, dropped>>
workerVars == <<worker, doing, stdin, stdout>>
vars == <<pc, seen, callVars, workerVars, printed, crashes>>

Failed == 0
Exit == 0          \* the shutdown request, and its answer
Noise == {"text", "blank", "scalar"}
Line == [kind : Noise \cup {"answer"}, of : Nat]
NoiseLine(kind) == [kind |-> kind, of |-> Exit]
AnswerLine(q) == [kind |-> "answer", of |-> q]

ClosingPcs == {"closing", "draining", "joining"}
LockedPcs == {"ensuring", "writing", "reading"} \cup ClosingPcs
Pcs == {"idle", "waiting", "stopping"} \cup LockedPcs
Alive == {"starting", "ready", "busy", "leaving"}

Init ==
  /\ pc = [c \in Caller |-> "idle"]
  /\ mine = [c \in Caller |-> 0]
  /\ got = [c \in Caller |-> Failed]
  /\ asked = 0 /\ last = 0 /\ seen = 0 /\ dropped = 0
  /\ worker = "none" /\ doing = 0
  /\ stdin = <<>> /\ stdout = <<>>
  /\ printed = 0 /\ crashes = 0

Goto(c, label) == pc' = [pc EXCEPT ![c] = label]
Locked == \E c \in Caller : pc[c] \in LockedPcs
-----------------------------------------------------------------------------
(* A call: SubprocessQGISRuntime._call. *)

\* An operation is called; the guard keeps the numbers of requests bounded.
Call(c) ==
  /\ pc[c] = "idle"
  /\ asked + Cardinality({ d \in Caller : pc[d] \in {"waiting", "ensuring", "writing"} }) < MaxAsked
  /\ Goto(c, "waiting")
  /\ UNCHANGED <<seen, callVars, workerVars, printed, crashes>>

\* shutdown() is called.
Shutdown(c) ==
  /\ pc[c] = "idle"
  /\ Goto(c, "stopping")
  /\ UNCHANGED <<seen, callVars, workerVars, printed, crashes>>

Enter(c) ==
  /\ \/ pc[c] = "waiting" /\ Goto(c, "ensuring")
     \/ pc[c] = "stopping" /\ Goto(c, "closing")
  /\ UNCHANGED <<seen, callVars, workerVars, printed, crashes>>

\* Mutant: the lock is not taken.
AcquireUnlocked(c) == Enter(c)

\* The lock is taken for the whole of a call or of shutdown().
Acquire(c) == ~Locked /\ Enter(c)

\* _ensure_process_locked: a worker that has exited is replaced, with new pipes.
EnsureWorker(c) ==
  /\ pc[c] = "ensuring"
  /\ IF worker \in Alive
       THEN UNCHANGED <<workerVars, dropped>>
       ELSE /\ worker' = "starting" /\ doing' = 0
            /\ stdin' = <<>> /\ stdout' = <<>>
            /\ dropped' = 0
  /\ Goto(c, "writing")
  /\ UNCHANGED <<seen, mine, got, asked, last, printed, crashes>>

\* The request is written and flushed.
WriteRequest(c) ==
  /\ pc[c] = "writing" /\ worker # "exited"
  /\ asked' = asked + 1
  /\ mine' = [mine EXCEPT ![c] = asked + 1]
  /\ stdin' = Append(stdin, asked + 1)
  /\ seen' = 0
  /\ Goto(c, "reading")
  /\ UNCHANGED <<got, last, dropped, worker, doing, stdout, printed, crashes>>

\* The call's outcome is an exception; label says whether it still closes the worker.
Raise(c, label) ==
  /\ got' = [got EXCEPT ![c] = Failed]
  /\ mine' = [mine EXCEPT ![c] = 0]
  /\ Goto(c, label)
  /\ UNCHANGED <<asked, last>>

\* BrokenPipeError: the worker is gone.
WriteBroken(c) ==
  /\ pc[c] = "writing" /\ worker = "exited"
  /\ Raise(c, "closing")
  /\ UNCHANGED <<seen, dropped, workerVars, printed, crashes>>

Reads(c, kind) ==
  /\ pc[c] = "reading" /\ stdout # <<>>
  /\ Head(stdout).kind = kind
  /\ stdout' = Tail(stdout)
  /\ UNCHANGED <<worker, doing, stdin, printed, crashes>>

\* A JSON object: the call returns it, or raises the error it names.
ReadAnswer(c) ==
  /\ Reads(c, "answer")
  /\ got' = [got EXCEPT ![c] = Head(stdout).of]
  /\ last' = Head(stdout).of
  /\ mine' = [mine EXCEPT ![c] = 0]
  /\ Goto(c, "idle")
  /\ UNCHANGED <<seen, asked, dropped>>

\* A line that is not JSON is taken for a diagnostic; after MaxLines of them the
\* call raises and leaves the worker as it is.
ReadText(c) ==
  /\ Reads(c, "text")
  /\ IF seen + 1 < MaxLines
       THEN seen' = seen + 1 /\ UNCHANGED <<pc, callVars>>
       ELSE /\ Raise(c, "idle")
            /\ dropped' = dropped + 1
            /\ UNCHANGED seen

\* JSON that is no object (a progress number, say) ends the call: it raises and
\* leaves the worker as it is.
ReadScalar(c) ==
  /\ Reads(c, "scalar")
  /\ Raise(c, "idle")
  /\ dropped' = dropped + 1
  /\ UNCHANGED seen

\* Mutant: a blank line raises, too, but does not stop the worker.
ReadBlankKeepsWorker(c) ==
  /\ Reads(c, "blank")
  /\ Raise(c, "idle")
  /\ UNCHANGED <<seen, dropped>>

\* A blank line cannot be told from the end of the stream: the worker is stopped.
ReadBlank(c) ==
  /\ Reads(c, "blank")
  /\ Raise(c, "closing")
  /\ UNCHANGED <<seen, dropped>>

\* Mutant: reading is tried again at the end of the stream.
ReadEndAgain(c) ==
  /\ pc[c] = "reading" /\ stdout = <<>> /\ worker = "exited"
  /\ UNCHANGED vars

\* The end of the stream.
ReadEnd(c) ==
  /\ pc[c] = "reading" /\ stdout = <<>> /\ worker = "exited"
  /\ Raise(c, "closing")
  /\ UNCHANGED <<seen, dropped, workerVars, printed, crashes>>
-----------------------------------------------------------------------------
(* _shutdown_locked, after an error or from shutdown(). *)

\* The worker is forgotten and, when it still runs, asked to exit.
AskExit(c) ==
  /\ pc[c] = "closing"
  /\ IF worker \in Alive
       THEN stdin' = Append(stdin, Exit) /\ Goto(c, "draining")
       ELSE UNCHANGED stdin /\ Goto(c, "joining")
  /\ UNCHANGED <<seen, callVars, worker, doing, stdout, printed, crashes>>

\* One line is read without a timeout, whatever it is.
Drain(c) ==
  /\ pc[c] = "draining"
  /\ \/ stdout # <<>> /\ stdout' = Tail(stdout)
     \/ stdout = <<>> /\ worker = "exited" /\ UNCHANGED stdout
  /\ Goto(c, "joining")
  /\ UNCHANGED <<seen, callVars, worker, doing, stdin, printed, crashes>>

\* The process has exited, or it has not within five seconds and is killed.
Join(c) ==
  /\ pc[c] = "joining"
  /\ worker' = "none" /\ doing' = 0
  /\ stdin' = <<>> /\ stdout' = <<>>
  /\ dropped' = 0
  /\ Goto(c, "idle")
  /\ UNCHANGED <<seen, mine, got, asked, last, printed, crashes>>
-----------------------------------------------------------------------------
(* The worker: entrypoints/worker.py, _run_loop. *)

\* The runtime is constructed; when that raises, the process ends.
Boot ==
  /\ worker = "starting"
  /\ worker' = "ready"
  /\ UNCHANGED <<pc, seen, callVars, doing, stdin, stdout, printed, crashes>>

\* The next line of stdin: an operation, or the request to shut down.
TakeRequest ==
  /\ worker = "ready" /\ stdin # <<>>
  /\ stdin' = Tail(stdin)
  /\ IF Head(stdin) = Exit
       THEN /\ stdout' = Append(stdout, AnswerLine(Exit))
            /\ worker' = "leaving"
            /\ UNCHANGED doing
       ELSE /\ worker' = "busy" /\ doing' = Head(stdin)
            /\ UNCHANGED stdout
  /\ UNCHANGED <<pc, seen, callVars, printed, crashes>>

\* Mutant: the error of an operation is written after its result.
WriteAnswerTwice ==
  /\ worker = "busy"
  /\ stdout' = stdout \o <<AnswerLine(doing), AnswerLine(doing)>>
  /\ worker' = "ready" /\ doing' = 0
  /\ UNCHANGED <<pc, seen, callVars, stdin, printed, crashes>>

\* Every operation, unknown ones and those that raise included, is answered by one
\* JSON object on a line of its own.
WriteAnswer ==
  /\ worker = "busy"
  /\ stdout' = Append(stdout, AnswerLine(doing))
  /\ worker' = "ready" /\ doing' = 0
  /\ UNCHANGED <<pc, seen, callVars, stdin, printed, crashes>>

\* QGIS and its providers write to stdout past Python's redirect_stdout.
PrintNoise ==
  /\ worker \in {"starting", "busy", "leaving"}
  /\ printed < MaxPrinted
  /\ printed' = printed + 1
  /\ \E kind \in Noise : stdout' = Append(stdout, NoiseLine(kind))
  /\ UNCHANGED <<pc, seen, callVars, worker, doing, stdin, crashes>>

Leave ==
  /\ worker = "leaving"
  /\ worker' = "exited"
  /\ UNCHANGED <<pc, seen, callVars, doing, stdin, stdout, printed, crashes>>

\* The runtime cannot be constructed, or the process dies in native code.
Crash ==
  /\ worker \in {"starting", "ready", "busy"}
  /\ crashes < MaxCrashes
  /\ crashes' = crashes + 1
  /\ worker' = "exited" /\ doing' = 0
  /\ UNCHANGED <<pc, seen, callVars, stdin, stdout, printed>>
-----------------------------------------------------------------------------
CallStep(c) ==
  \/ EnsureWorker(c) \/ WriteRequest(c) \/ WriteBroken(c)
  \/ ReadAnswer(c) \/ ReadText(c) \/ ReadScalar(c) \/ ReadBlank(c) \/ ReadEnd(c)
  \/ AskExit(c) \/ Drain(c) \/ Join(c)
WorkerStep == Boot \/ TakeRequest \/ WriteAnswer \/ Leave

Next ==
  \/ \E c \in Caller :
       Call(c) \/ Shutdown(c) \/ Acquire(c) \/ CallStep(c)
  \/ WorkerStep \/ PrintNoise \/ Crash

Spec == Init /\ [][Next]_vars

\* A thread that holds the lock goes on, and so does a worker: an operation ends.
FairSpec ==
  /\ Spec
  /\ \A c \in Caller : WF_vars(CallStep(c))
  /\ WF_vars(WorkerStep)
-----------------------------------------------------------------------------
(* Properties. *)

TypeOK ==
  /\ pc \in [Caller -> Pcs]
  /\ mine \in [Caller -> Nat] /\ got \in [Caller -> Nat]
  /\ asked \in Nat /\ last \in Nat /\ dropped \in Nat
  /\ seen \in 0..MaxLines
  /\ worker \in {"none", "exited"} \cup Alive /\ doing \in Nat
  /\ stdin \in Seq(Nat) /\ stdout \in Seq(Line)
  /\ printed \in 0..MaxPrinted /\ crashes \in 0..MaxCrashes

Running == worker \in Alive \ {"leaving"}
Closing == \E c \in Caller : pc[c] \in ClosingPcs
Reading == \E c \in Caller : pc[c] = "reading"
IsAnswer(i) == i \in 1..Len(stdout) /\ stdout[i].kind = "answer"

\* The last request that this worker, or one before it, has nothing more to say to.
Settled == asked - dropped - (IF Reading THEN 1 ELSE 0)

\* The last request the worker has answered.
Answered == asked - Len(stdin) - (IF worker = "busy" THEN 1 ELSE 0)

OneHolder ==
  \A c, d \in Caller : pc[c] \in LockedPcs /\ pc[d] \in LockedPcs => c = d

\* Only the call that reads waits for an answer, and no request follows its own.
MineIsNewest ==
  \A c \in Caller : mine[c] = IF pc[c] = "reading" THEN asked ELSE 0

\* What is on its way through a worker that is not being stopped: the requests
\* after Settled, in order and without gaps, answered ones first.
Pipeline ==
  /\ last <= Settled
  /\ \A i \in DOMAIN stdout : IsAnswer(i) =>
       /\ (\A j \in 1..(i - 1) : ~IsAnswer(j)) => stdout[i].of = Settled + 1
       /\ \A j \in 1..(i - 1) :
            IsAnswer(j) /\ (\A k \in (j + 1)..(i - 1) : ~IsAnswer(k))
              => stdout[i].of = stdout[j].of + 1
  /\ Running =>
       /\ \A i \in DOMAIN stdin : stdin[i] # Exit /\ stdin[i] = asked - Len(stdin) + i
       /\ worker = "busy" => doing = Answered + 1
       /\ (\A i \in DOMAIN stdout : ~IsAnswer(i)) => Answered = Settled
       /\ \A i \in DOMAIN stdout :
            IsAnswer(i) /\ (\A j \in (i + 1)..Len(stdout) : ~IsAnswer(j))
              => stdout[i].of = Answered

\* The inductive invariant: one thread at a time talks to the worker, and the
\* answers it can still be given are those of the unsettled requests, in order.
IInv ==
  /\ TypeOK
  /\ OneHolder
  /\ MineIsNewest
  /\ last <= asked
  /\ worker = "leaving" => Closing
  /\ worker = "none" =>
       stdin = <<>> /\ stdout = <<>> /\ dropped = 0
         /\ \A c \in Caller : pc[c] \notin {"writing", "reading"}
  /\ ~Closing => Pipeline

\* A call that returns an answer returns that to the request written as many
\* requests before its own as were given up on this worker: its own answer when
\* none was, and otherwise, for the rest of the worker's life, an earlier one.
AnswerLag ==
  [][\A c \in Caller :
       pc[c] = "reading" /\ pc'[c] = "idle" /\ got'[c] # Failed
         => got'[c] = mine[c] - dropped]_vars

\* Answers are never given twice, to two calls or in another order than that of
\* the requests, whatever is printed and whenever the worker dies.
Calls == INSTANCE RuntimeCalls
ImplementsCalls == Calls!Spec

\* A call that has the lock comes back, with an answer or an error, and so does
\* shutdown(), provided the operations of the worker end.
HolderReturns == \A c \in Caller : pc[c] \in LockedPcs ~> pc[c] = "idle"
=============================================================================

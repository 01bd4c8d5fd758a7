---------------------------- MODULE EventStore ----------------------------
(***************************************************************************)
(* The event log of one session (session_events) and the turns that write  *)
(* it.  A turn reads the log when it is routed, appends its own events one *)
(* by one while it keeps a copy of them in memory, and at its end saves    *)
(* the whole session: the events it read plus its own copies.  The save    *)
(* keeps the stored log when that is at least as long and otherwise        *)
(* deletes it and inserts the longer list with new sequence numbers.       *)
(* Turns of one session overlap, and any append may fail.                  *)
(*                                                                         *)
(* The stored log is a sequence: seq is MAX(seq) + 1 on insert and 1..n    *)
(* after a replacement, so an event's seq is its position.                 *)
(***************************************************************************)
EXTENDS Naturals, Sequences, FiniteSets

CONSTANTS Run,          \* the turns, by run id
          MaxEvents,    \* bound on the progress events of a turn
          PageSize,     \* limit of one poll
          StorageFails  \* whether storage calls may fail

ASSUME EventAssumption ==
  /\ MaxEvents \in Nat \ {0} /\ PageSize \in Nat \ {0} /\ StorageFails \in BOOLEAN

VARIABLES
  log,          \* ids of the stored events, in seq order
  nesting,      \* nesting[i]: how often the payload at seq i is wrapped
  base,         \* base[r]: the events in the session state r was routed with
  baseNesting,  \* baseNesting[r]: the nesting of their payloads
  own,          \* own[r]: RunContext.events
  pc,           \* pc[r]: where r's turn is
  cursor,       \* after_seq of the client's next poll
  received      \* the events the client was given, in order

logVars == <<log, nesting>>
clientVars == <<cursor, received>>
vars == <<log, nesting, base, baseNesting, own, pc, cursor, received>>

\* Progress events, the "failed" event of the turn, that of the error handler.
Event == [run : Run, n : 1..MaxEvents + 2]
Elements(s) == { s[i] : i \in DOMAIN s }
\* Mutant: events are numbered through the session instead of through the turn.
NextEventOfSession(r) == [run |-> r, n |-> Len(log) + 1]

NextEvent(r) == [run |-> r, n |-> Len(own[r]) + 1]
Zeros(s) == [i \in 1..Len(s) |-> 0]
Pcs == {"idle", "routed", "running", "failing", "closing", "errored", "done"}

Init ==
  /\ log = <<>> /\ nesting = <<>>
  /\ base = [r \in Run |-> <<>>]
  /\ baseNesting = [r \in Run |-> <<>>]
  /\ own = [r \in Run |-> <<>>]
  /\ pc = [r \in Run |-> "idle"]
  /\ cursor = 0 /\ received = <<>>

Goto(r, label) == pc' = [pc EXCEPT ![r] = label]
-----------------------------------------------------------------------------
(* The store. *)

\* SessionStore.append_event: one more row.
Store(e) ==
  /\ log' = Append(log, e)
  /\ nesting' = Append(nesting, 0)

\* Mutant: the stored log is not merged in, only the lengths are compared.
SaveEventsUnmerged(events, depth) ==
  IF Len(events) # Len(log)
    THEN log' = events /\ nesting' = depth
    ELSE UNCHANGED logVars

\* Mutant: at equal lengths the saved list wins.
SaveEventsAtTie(events, depth) ==
  IF Len(events) >= Len(log)
    THEN log' = events /\ nesting' = depth
    ELSE UNCHANGED logVars

\* SessionStore.save: the stored log wins unless the saved one is longer.  An
\* event that was read back from the store is a record around its payload, and
\* the replacement stores the record as the payload.
SaveEvents(events, depth) ==
  IF Len(events) > Len(log)
    THEN log' = events /\ nesting' = depth
    ELSE UNCHANGED logVars

\* What the turn would save: the events it was routed with and its own copies.
Saved(r) == base[r] \o own[r]

\* Mutant: the turn's events are added to what is stored by now.
SaveOfAppends(r) == SaveEvents(log \o own[r], nesting \o Zeros(own[r]))

SaveOf(r) ==
  SaveEvents(Saved(r),
             [i \in 1..Len(baseNesting[r]) |-> baseNesting[r][i] + 1] \o Zeros(own[r]))
-----------------------------------------------------------------------------
(* The turn. *)

\* SessionRouter.route reads the session; a reset, or a session that has been
\* archived or deleted, is routed without its events.
Route(r) ==
  /\ pc[r] = "idle"
  /\ \/ base' = [base EXCEPT ![r] = log] /\ baseNesting' = [baseNesting EXCEPT ![r] = nesting]
     \/ UNCHANGED <<base, baseNesting>>
  /\ Goto(r, "routed")
  /\ UNCHANGED <<logVars, own, clientVars>>

\* bootstrap_prepared_run saves the session as it was routed.
StageSession(r) ==
  /\ pc[r] = "routed"
  /\ SaveOf(r)
  /\ Goto(r, "running")
  /\ UNCHANGED <<base, baseNesting, own, clientVars>>

StageFault(r) ==
  /\ pc[r] = "routed" /\ StorageFails
  /\ Goto(r, "done")
  /\ UNCHANGED <<logVars, base, baseNesting, own, clientVars>>

\* RunService.emit: the copy in memory is made before the row is stored, so it
\* stays behind when the append fails.
Emit(r, next) ==
  /\ own' = [own EXCEPT ![r] = Append(own[r], NextEvent(r))]
  /\ Store(NextEvent(r))
  /\ Goto(r, next)
  /\ UNCHANGED <<base, baseNesting, clientVars>>

EmitFault(r, next) ==
  /\ StorageFails
  /\ own' = [own EXCEPT ![r] = Append(own[r], NextEvent(r))]
  /\ Goto(r, next)
  /\ UNCHANGED <<logVars, base, baseNesting, clientVars>>

EmitProgress(r) ==
  pc[r] = "running" /\ Len(own[r]) < MaxEvents /\ Emit(r, "running")

\* A failed append raises through the agent: TurnRunner.run turns it into a
\* failed result, an intent response has nobody to catch it.
EmitProgressFault(r) ==
  /\ pc[r] = "running" /\ Len(own[r]) < MaxEvents
  /\ \E next \in {"failing", "errored"} : EmitFault(r, next)

\* Any other exception of the agent, a tool or the model.
TurnError(r) ==
  /\ pc[r] = "running"
  /\ Goto(r, "failing")
  /\ UNCHANGED <<logVars, base, baseNesting, own, clientVars>>

\* TurnRunner.run reports the failed result with one more event ...
EmitFailed(r) == pc[r] = "failing" /\ Emit(r, "closing")

\* Mutant: the second failure is swallowed, too.
EmitFailedFaultSwallowed(r) == pc[r] = "failing" /\ EmitFault(r, "closing")

\* ... and lets a second failure through.
EmitFailedFault(r) == pc[r] = "failing" /\ EmitFault(r, "errored")

Conclude(r) ==
  /\ pc[r] = "running"
  /\ Goto(r, "closing")
  /\ UNCHANGED <<logVars, base, baseNesting, own, clientVars>>

SaveSession(r) ==
  /\ pc[r] = "closing"
  /\ SaveOf(r)
  /\ Goto(r, "done")
  /\ UNCHANGED <<base, baseNesting, own, clientVars>>

SaveFault(r) ==
  /\ pc[r] = "closing" /\ StorageFails
  /\ Goto(r, "errored")
  /\ UNCHANGED <<logVars, base, baseNesting, own, clientVars>>

\* handle_background_error emits one more event and saves nothing.
HandlerEmit(r) == pc[r] = "errored" /\ Emit(r, "done")
HandlerFault(r) == pc[r] = "errored" /\ EmitFault(r, "done")
-----------------------------------------------------------------------------
(* The client: list_events with after_seq and limit, next_seq from the last row. *)
\* Mutant: next_seq is the session's event count.
PollToEnd ==
  LET last == IF cursor + PageSize < Len(log) THEN cursor + PageSize ELSE Len(log) IN
  /\ cursor < Len(log)
  /\ received' = received \o SubSeq(log, cursor + 1, last)
  /\ cursor' = Len(log)
  /\ UNCHANGED <<logVars, base, baseNesting, own, pc>>

Poll ==
  LET last == IF cursor + PageSize < Len(log) THEN cursor + PageSize ELSE Len(log) IN
  /\ cursor < Len(log)
  /\ received' = received \o SubSeq(log, cursor + 1, last)
  /\ cursor' = last
  /\ UNCHANGED <<logVars, base, baseNesting, own, pc>>

Turn(r) ==
  \/ Route(r) \/ StageSession(r) \/ StageFault(r)
  \/ EmitProgress(r) \/ EmitProgressFault(r) \/ TurnError(r)
  \/ EmitFailed(r) \/ EmitFailedFault(r) \/ Conclude(r)
  \/ SaveSession(r) \/ SaveFault(r)
  \/ HandlerEmit(r) \/ HandlerFault(r)

Next == (\E r \in Run : Turn(r)) \/ Poll

Spec == Init /\ [][Next]_vars
-----------------------------------------------------------------------------
(* Properties. *)

TypeOK ==
  /\ log \in Seq(Event) /\ received \in Seq(Event)
  /\ nesting \in Seq(Nat) /\ Len(nesting) = Len(log)
  /\ base \in [Run -> Seq(Event)] /\ own \in [Run -> Seq(Event)]
  /\ baseNesting \in [Run -> Seq(Nat)]
  /\ \A r \in Run : Len(baseNesting[r]) = Len(base[r])
  /\ pc \in [Run -> Pcs]
  /\ cursor \in Nat

\* Events of a turn that are in its memory and not in the store.
Missing(r) == Elements(own[r]) \ Elements(log)

\* The control flow above, not the storage, bounds what a save can bring along:
\* a turn that still saves has at most one event the store does not hold, since
\* a second failed append takes it to the error handler, which saves nothing.
OneMissingAtSave ==
  \A r \in Run : pc[r] = "closing" => Cardinality(Missing(r)) <= 1

\* Whatever fails and however turns overlap, every event is stored at most once
\* and the events of a turn stay in the order it emitted them.
StoredInOrder ==
  \A i, j \in DOMAIN log : i < j /\ log[i].run = log[j].run => log[i].n < log[j].n

\* No save of a turn drops or reorders events that another turn has stored, even
\* when it deletes and re-inserts the whole log.
NoEventLost ==
  [][ /\ Elements(log) \subseteq Elements(log')
      /\ \A i, j \in DOMAIN log, k, l \in DOMAIN log' :
           i < j /\ log'[k] = log[i] /\ log'[l] = log[j] => k < l ]_vars

\* Re-inserting renumbers rows behind the client's back, but an event that is
\* stored and that the client was not given yet never slips behind the after_seq
\* of its next poll.
NothingSkipped ==
  [][ \A i \in DOMAIN log : i > cursor =>
        \/ log[i] \in Elements(received')
        \/ \E j \in DOMAIN log' : j > cursor' /\ log'[j] = log[i] ]_vars

\* What makes StoredInOrder and NoEventLost inductive: the log holds emitted
\* events, each once; a turn's own copies are numbered and its base was stored; ...
Provenance ==
  /\ \A i, j \in DOMAIN log : log[i] = log[j] => i = j
  /\ \A i \in DOMAIN log : log[i].n <= Len(own[log[i].run])
  /\ \A r \in Run :
       /\ \A i \in DOMAIN own[r] : own[r][i].run = r /\ own[r][i].n = i
       /\ \A i, j \in DOMAIN base[r] : base[r][i] = base[r][j] => i = j
       /\ \A i \in DOMAIN base[r] : base[r][i] \in Elements(log) /\ base[r][i].run # r

\* ... a turn emits nothing before it runs, and one that still saves misses at
\* most one event; ...
ProgressOf(r) ==
  /\ pc[r] = "idle" => base[r] = <<>> /\ baseNesting[r] = <<>>
  /\ pc[r] \in {"idle", "routed"} => own[r] = <<>>
  /\ pc[r] \in {"running", "failing"} => Len(own[r]) <= MaxEvents
  /\ pc[r] \in {"closing", "errored"} => Len(own[r]) <= MaxEvents + 1
  /\ pc[r] \in {"idle", "routed", "running"} => Missing(r) = {}
  /\ pc[r] \in {"failing", "closing"} => \E e \in Event : Missing(r) \subseteq {e}

TurnProgress == \A r \in Run : ProgressOf(r)

\* ... and what a turn would save agrees with the log on the order of the events
\* they share.
SameOrder ==
  \A r \in Run : \A i, j \in DOMAIN Saved(r), k, l \in DOMAIN log :
    i < j /\ log[k] = Saved(r)[i] /\ log[l] = Saved(r)[j] => k < l

IInv == TypeOK /\ Provenance /\ TurnProgress /\ SameOrder

\* With storage that does not fail, the stored log and what a client has polled
\* form the append-only feed.
Feed == INSTANCE EventFeed
ImplementsFeed == Feed!Spec

\* run_events.py: "The legacy event shape is intentionally preserved."  What is
\* read from the store is the event as it was emitted.
LegacyShapePreserved == \A i \in DOMAIN nesting : nesting[i] = 0
=============================================================================

---------------------------- MODULE SessionMemory ----------------------------
(***************************************************************************)
(* session_memory.md, what a session remembers of its turns.  A turn is    *)
(* shown a part of the file when its loop starts (session_memory.py) and   *)
(* writes the file when it is finished (hooks/builtins.py).  The user      *)
(* edits a draft of it in the desktop (useSessionMemory.js).               *)
(*                                                                         *)
(* The file is a sequence of entries, the blocks between its separators.   *)
(* Which of them a request is about, and how many the budget of characters *)
(* leaves, depends on words: any choice may happen.  What stands before    *)
(* the first separator is nothing.                                         *)
(***************************************************************************)
EXTENDS Integers, FiniteSets, SequencesExt

CONSTANTS
  MemoryTurn,    \* the turns: numbers, in the order they begin
  Habits         \* by name, how much may happen: turns, turns in flight at a time
                 \* (overlap), saves of the user, and how often he opens the session

VARIABLES
  memory,    \* the entries of session_memory.md
  talks,     \* by turn: where it is, and what it was shown (since which write)
  draft,     \* the desktop's text, since which write it has it, and its load
  writes,    \* who wrote the file: a record of what it was made from
  habit      \* the habits of this session

memoryVars == <<memory, talks, draft, writes, habit>>

Held == Habits[habit]

\* What the of-th write said.  An entry of another session is no write's.
Entry(of) == [of |-> of, whole |-> TRUE]
Foreign == Entry(0)

\* A write from what was there after the since-th one; cut if that was not taken
\* over whole; says if it adds an entry; saved by the user or by a turn.
Write(since, cut, says, saved) == [since |-> since, cut |-> cut, says |-> says, saved |-> saved]

NoTalk == [at |-> "idle", shown |-> <<>>, since |-> 0, cut |-> FALSE]

\* The desktop asks for the text once, when a session is opened; loads are the texts
\* that are on their way to it.
NoDraft == [text |-> <<>>, since |-> 0, asked |-> TRUE, loads |-> <<>>, opened |-> 0]

MemoryInit ==
  /\ memory = <<>> /\ writes = <<>>
  /\ talks = [t \in MemoryTurn |-> NoTalk]
  /\ draft = NoDraft
  /\ habit \in DOMAIN Habits

-----------------------------------------------------------------------------
(* The file (core/workspace_state.py): read and written as a whole         *)

ReadMemory == [text |-> memory, since |-> Len(writes)]

\* What is kept, and what the writer has to say; cut if not all that he read is kept.
WriteMemory(kept, since, cut, says, saved) ==
  /\ memory' = IF says THEN Append(kept, Entry(Len(writes) + 1)) ELSE kept
  /\ writes' = Append(writes, Write(since, cut, says, saved))

-----------------------------------------------------------------------------
(* What a turn is shown                                                    *)

\* Up to max_chars: the first entries, of which the last may break off.
Cuts(entries) ==
  UNION {{SubSeq(entries, 1, n), [SubSeq(entries, 1, n) EXCEPT ![n].whole = FALSE]} : n \in DOMAIN entries}

\* Scored by the words of the request, the best first.
Scored(entries) ==
  UNION {Cuts([k \in DOMAIN order |-> entries[order[k]]]) :
           order \in SetToAllKPermutations(DOMAIN entries) \ {<<>>}}

\* Mutant: the last entries are shown in any case, after those that are relevant.
RelevantAndLast(entries) ==
  IF entries = <<>> THEN {<<>>} ELSE {Append(shown, Last(entries)) : shown \in Scored(entries)}

\* Without a word that counts it is the last two, or what there is.
Relevant(entries) ==
  CASE entries = <<>> -> {<<>>}
    [] entries # <<>> /\ Len(entries) > 2 -> Scored(entries) \cup Cuts(entries) \cup {SubSeq(entries, Len(entries) - 1, Len(entries))}
    [] OTHER -> Scored(entries) \cup Cuts(entries)

-----------------------------------------------------------------------------
(* Turns                                                                   *)

Talking == {t \in MemoryTurn : talks[t].at \in {"resumed", "loop"}}

Reads(t) ==
  /\ \E shown \in Relevant(ReadMemory.text) :
       talks' = [talks EXCEPT ![t] = [at |-> "loop", shown |-> shown, since |-> ReadMemory.since, cut |-> shown # memory]]
  /\ UNCHANGED <<memory, draft, writes, habit>>

TurnBegins(t) ==
  /\ talks[t].at = "idle" /\ \A u \in MemoryTurn : u < t => talks[u].at # "idle"
  /\ t <= Held.turns /\ Cardinality(Talking) < Held.overlap

LoopStarts(t) == TurnBegins(t) /\ Reads(t)

\* A resumed task is finalized with an empty memory,
Resume(t) ==
  /\ TurnBegins(t)
  /\ talks' = [talks EXCEPT ![t].at = "resumed"]
  /\ UNCHANGED <<memory, draft, writes, habit>>

\* but after a confirmed repair the loop goes on, and reads it.
LoopGoesOn(t) == talks[t].at = "resumed" /\ Reads(t)

Finalized(t) == talks[t].at \in {"resumed", "loop"} /\ talks' = [talks EXCEPT ![t].at = "done"]

\* The hook of a turn that waits for the user writes nothing, nor does one that
\* fails, and a turn that breaks off has none.
EndsSilently(t) == Finalized(t) /\ UNCHANGED <<memory, draft, writes, habit>>

WritesSummary(t) ==
  /\ Finalized(t)
  /\ WriteMemory(talks[t].shown, talks[t].since, talks[t].cut, TRUE, FALSE)
  /\ UNCHANGED <<draft, habit>>

-----------------------------------------------------------------------------
(* The desktop                                                             *)

Saves == Cardinality({n \in DOMAIN writes : writes[n].saved})

\* The session is opened while the text is still that of another one.
OpenSession ==
  /\ draft.opened < Held.opened
  /\ draft' = [text |-> <<Foreign>>, since |-> 0, asked |-> TRUE, loads |-> <<>>, opened |-> draft.opened + 1]
  /\ UNCHANGED <<memory, talks, writes, habit>>

\* The answer shows the file as it was when the server read it,
ServesMemory ==
  /\ draft.asked
  /\ draft' = [draft EXCEPT !.asked = FALSE, !.loads = <<ReadMemory>>]
  /\ UNCHANGED <<memory, talks, writes, habit>>

\* and takes the place of whatever the user has written since.
LoadMemory ==
  /\ draft.loads # <<>>
  /\ draft' = [draft EXCEPT !.text = draft.loads[1].text, !.since = draft.loads[1].since, !.loads = <<>>]
  /\ UNCHANGED <<memory, talks, writes, habit>>

LoadFails ==
  /\ draft.asked \/ draft.loads # <<>>
  /\ draft' = [draft EXCEPT !.text = <<>>, !.since = 0, !.asked = FALSE, !.loads = <<>>]
  /\ UNCHANGED <<memory, talks, writes, habit>>

\* The user takes entries out and may put one in.
Edited(text) ==
  {[k \in DOMAIN order |-> text[order[k]]] :
     order \in {o \in SetToAllKPermutations(DOMAIN text) : \A j, k \in DOMAIN o : j < k => o[j] < o[k]}}

SaveMemory(says) ==
  /\ Saves < Held.saves
  /\ \E kept \in Edited(draft.text) :
       /\ WriteMemory(kept, draft.since, kept # draft.text, says, TRUE)
       /\ draft' = [draft EXCEPT !.text = memory', !.since = Len(writes')]
  /\ UNCHANGED <<talks, habit>>

-----------------------------------------------------------------------------
MemoryNext ==
  \/ \E t \in MemoryTurn :
       LoopStarts(t) \/ Resume(t) \/ LoopGoesOn(t) \/ EndsSilently(t) \/ WritesSummary(t)
  \/ OpenSession \/ ServesMemory \/ LoadMemory \/ LoadFails
  \/ \E says \in BOOLEAN : SaveMemory(says)

MemorySpec == MemoryInit /\ [][MemoryNext]_memoryVars
-----------------------------------------------------------------------------
(* Properties                                                              *)

\* The writes the file was made from: the last one, and for each the one after
\* which its writer had read.
ClosedLine(S) ==
  \A n \in S : writes[n].since # 0 => writes[n].since \in S

Line ==
  {m \in DOMAIN writes : \A S \in SUBSET DOMAIN writes : ClosedLine(S) /\ Len(writes) \in S => m \in S}

\* The file is not the log of the turns it is taken for (builtins.py: "Append a run
\* summary").  It tells, once each, of the writes in the line of the last one, and of
\* each of them unless a later one of the line was shown less, or cut it.  So
\* what was written meanwhile, by a turn or by the user, is forgotten; what was
\* forgotten does not come back but by one who read it before; and another session's
\* text gets in only by a draft that was saved before it was loaded.
MemoryIsOneLine ==
  /\ \A j, k \in DOMAIN memory : memory[j].of = memory[k].of => j = k
  /\ \A k \in DOMAIN memory :
       IF memory[k].of = 0 THEN \E n \in Line : writes[n].saved /\ writes[n].since = 0
       ELSE memory[k].of \in Line /\ writes[memory[k].of].says
  /\ \A n \in Line : writes[n].says =>
       \/ Entry(n) \in ToSet(memory)
       \/ \E m \in Line : m > n /\ writes[m].cut
=============================================================================

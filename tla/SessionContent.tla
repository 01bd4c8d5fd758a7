--------------------------- MODULE SessionContent ---------------------------
(***************************************************************************)
(* What a session says: its messages and its transcript, written by the    *)
(* turns of the session (application/turn_execution.py), by every event    *)
(* they emit (persistence/sessions.py, session_projector.py), and read     *)
(* back by the next turn and by the desktop (session_read_model.py).       *)
(*                                                                         *)
(* One action is one transaction on the session, so turns that overlap     *)
(* interleave between them.  Texts and artifacts are abstract; events that *)
(* put nothing into a transcript are left out.  What a turn says before it *)
(* ends is an assistant_answer in the code as its answer is; it has a type *)
(* of its own here, assistant_remark, which no code reads.                 *)
(***************************************************************************)
EXTENDS Naturals, FiniteSets, FiniteSetsExt, SequencesExt

CONSTANTS
  Turn,        \* the turns: numbers, in the order their runs begin
  UserText,    \* what a user may say
  Limits       \* by name, how much may happen: turns, turns in flight at a time
               \* (overlap), warnings and remarks of a turn (notes), runs that fail or are lost (faults)

\* What is of no turn may have 0 in its place.
ASSUME TurnsAreNumbers == Turn \subseteq Nat \ {0}

VARIABLES
  snap,     \* the session snapshot: messages and transcript
  hidden,   \* archived_at or deleted_at is set
  runs,     \* by turn: the transcript in its run snapshot
  turns,    \* by turn: where it is, and what it works with
  limit     \* the limits of this session

contentVars == <<snap, hidden, runs, turns, limit>>

Bound == Limits[limit]

NoKey == <<>>
NoText == ""
Empty == [messages |-> <<>>, transcript |-> <<>>]

\* A turn reads base when it is routed, unless it is blind; before are the turns
\* that were done by then.
NoTurn == [at |-> "idle", text |-> NoText, kind |-> "none", base |-> Empty, items |-> <<>>,
           ended |-> "none", saved |-> FALSE, blind |-> FALSE, before |-> {}]

ContentInit ==
  /\ snap = Empty /\ hidden = FALSE
  /\ runs = [t \in Turn |-> <<>>]
  /\ turns = [t \in Turn |-> NoTurn]
  /\ limit \in DOMAIN Limits

-----------------------------------------------------------------------------
(* Timelines (contracts/transcript_projection.py)                          *)

Item(type, text, key) == [type |-> type, text |-> text, key |-> key]

\* The items that pass a test, in their order.
Only(timeline, Test(_)) ==
  FlattenSeq([k \in DOMAIN timeline |-> IF Test(timeline[k]) THEN <<timeline[k]>> ELSE <<>>])

\* An item with a key replaces the one that had it, at the end; one without is
\* dropped if the last item says the same.
AddItem(compact, item) ==
  CASE item.key # NoKey -> Append(Only(compact, LAMBDA e : e.key # item.key), item)
    [] item.key = NoKey /\ compact # <<>> /\ Last(compact).type = item.type /\ Last(compact).text = item.text
         -> compact
    [] OTHER -> Append(compact, item)

Dedupe(timeline) == FoldLeft(AddItem, <<>>, timeline)

Merge(current, incoming) == Dedupe(current \o incoming)

AppendItem(timeline, item) == Dedupe(Append(timeline, item))

\* Mutant: all turns have one key for the words of the user.
UserMessageUnscoped(t) == Item("user_message", turns[t].text, <<"message", "user">>)

UserMessage(t) == Item("user_message", turns[t].text, <<"message", t>>)

\* A turn started by a button may say nothing.
WithUserMessage(timeline, t) == IF turns[t].text = NoText THEN timeline ELSE AppendItem(timeline, UserMessage(t))

WithTransition(timeline, t) ==
  IF turns[t].kind # "resume" THEN timeline
  ELSE AppendItem(timeline, Item("resume_transition", "resumed", <<"resume">>))

WithoutSteps(timeline) == Only(timeline, LAMBDA item : item.type # "workflow_step")

\* The item of a turn's n-th event: a step is known by its number, any other item
\* by the event's seq.
EventItem(t, type, text) ==
  Item(type, text, <<IF type = "workflow_step" THEN "step" ELSE "seq", t, Len(turns[t].items) + 1>>)

\* The ends of a turn that has an answer.
WithAnswer == {"answer", "generic"}

\* What a run that answers has to say: a sentence of its own, or a generic one.
FinalText(how) == IF how = "answer" THEN "ok" ELSE "done"

\* apply_completion_summary puts a summary of the outputs in the place of a generic
\* text.
Decorated(text) == IF text = "done" THEN "summary" ELSE text

\* A result that has no transcript is given one: its cards, then its answer.
ResultTimeline(t, how) ==
  LET warned == Only(turns[t].items, LAMBDA item : item.type = "warning_card")
  IN (IF how = "question" THEN <<Item("question_card", "which", NoKey)>> ELSE <<>>)
     \o [k \in DOMAIN warned |-> Item(warned[k].type, warned[k].text, NoKey)]
     \o (IF how \in WithAnswer THEN <<Item("assistant_answer", Decorated(FinalText(how)), NoKey)>> ELSE <<>>)

-----------------------------------------------------------------------------
(* The session row and its snapshot                                        *)

\* load_session gives nothing for a session that was moved to a bucket.
Loads == ~hidden /\ snap # Empty

InFlight == {t \in Turn : turns[t].at \notin {"idle", "done"}}

TurnGoes(t, at) == turns' = [turns EXCEPT ![t].at = at]

Begun == {t \in Turn : turns[t].at \notin {"idle", "routed"}}

IsLatestRun(t) == t \in Begun /\ \A u \in Begun : u <= t

Awaiting == \E t \in Turn : IsLatestRun(t) /\ turns[t].at = "done" /\ turns[t].ended = "question"

\* Mutant: a write brings a hidden session back.
UpsertResets == hidden' = FALSE

\* upsert_summary leaves archived_at and deleted_at alone.
UpsertSummary == UNCHANGED hidden

\* A reset starts from nothing, and so does a turn of a session that is not found.
Blind(kind) == kind = "reset" \/ ~Loads

\* SessionRouter.route; a button may come without words, a message may not.
Route(t, kind, text) ==
  /\ turns[t].at = "idle" /\ \A u \in Turn : u < t => turns[u].at \notin {"idle", "routed"}
  /\ t <= Bound.turns /\ Cardinality(InFlight) < Bound.overlap
  /\ kind = "resume" => Loads /\ Awaiting
  /\ text = NoText => kind = "resume"
  /\ turns' = [turns EXCEPT ![t] = [NoTurn EXCEPT
       !.at = "routed", !.text = text, !.kind = kind, !.blind = Blind(kind),
       !.base = IF Blind(kind) THEN Empty ELSE snap,
       !.before = {u \in Turn : turns[u].at = "done"}]]
  /\ UNCHANGED <<snap, hidden, runs, limit>>

Says(messages, role, text) ==
  IF text = NoText \/ (messages # <<>> /\ Last(messages) = <<role, text>>) THEN messages
  ELSE Append(messages, <<role, text>>)

\* bootstrap_prepared_run, first half: the staged session.
Stage(t) ==
  /\ turns[t].at = "routed"
  /\ snap' = [messages   |-> Says(turns[t].base.messages, "user", turns[t].text),
              transcript |-> WithTransition(WithUserMessage(turns[t].base.transcript, t), t)]
  /\ TurnGoes(t, "staged")
  /\ UpsertSummary /\ UNCHANGED <<runs, limit>>

\* Second half: the run snapshot starts from the session's transcript.
Snapshot(t) ==
  /\ turns[t].at = "staged"
  /\ runs' = [runs EXCEPT ![t] = WithTransition(WithUserMessage(turns[t].base.transcript, t), t)]
  /\ TurnGoes(t, "running")
  /\ UNCHANGED <<snap, hidden, limit>>

\* apply_event_to_session, on what is loaded; a hidden session is rebuilt from nothing.
Loaded == IF Loads THEN snap ELSE Empty

Applied(session, result, new) ==
  [session EXCEPT !.transcript = Merge(Merge(@, result), WithoutSteps(new))]

\* A snapshot is stored with an event that has a result or an item (new); the run
\* snapshot takes both, and the user's message again.
Emits(t, result, new) ==
  /\ snap' = Applied(Loaded, result, new)
  /\ runs' = [runs EXCEPT ![t] = WithUserMessage(Merge(Merge(@, result), new), t)]
  /\ UpsertSummary /\ UNCHANGED limit

-----------------------------------------------------------------------------
(* A turn's run                                                            *)

EmitStep(t) ==
  /\ turns[t].at = "running" /\ turns[t].items = <<>>
  /\ LET new == <<EventItem(t, "workflow_step", "buffer")>>
     IN Emits(t, <<>>, new) /\ turns' = [turns EXCEPT ![t].items = @ \o new]

NoteType == {"warning_card", "assistant_remark"}

\* A warning, or a remark: before an export, after a repair, on an answer that was
\* clarified.
EmitNote(t, type) ==
  /\ turns[t].at = "running" /\ Len(Only(turns[t].items, LAMBDA i : i.type \in NoteType)) < Bound.notes
  /\ LET new == <<EventItem(t, type, "note")>>
     IN Emits(t, <<>>, new) /\ turns' = [turns EXCEPT ![t].items = @ \o new]

\* The item of the event a turn ends with, made before the result is decorated; none
\* of a pause.
FinalItem(t, how) ==
  CASE how \in WithAnswer   -> <<EventItem(t, "assistant_answer", FinalText(how))>>
    [] how = "question" -> <<EventItem(t, "question_card", "which")>>
    [] how = "paused"   -> <<>>
    [] how = "broken"   -> <<EventItem(t, "assistant_answer", "error")>>

EmitResult(t, how) ==
  /\ turns[t].at = "running"
  /\ Emits(t, ResultTimeline(t, how), FinalItem(t, how))
  /\ turns' = [turns EXCEPT ![t].at = "ended", ![t].ended = how, ![t].items = @ \o FinalItem(t, how)]

\* _assistant_message_from_result, of the decorated result.
AssistantText(t) ==
  IF turns[t].ended \in WithAnswer THEN Decorated(FinalText(turns[t].ended)) ELSE NoText

\* Mutant: the save builds on what is stored by now.
SaveSessionOnCurrent(t) ==
  /\ turns[t].at = "ended"
  /\ snap' = [messages   |-> Says(Says(Loaded.messages, "user", turns[t].text), "assistant", AssistantText(t)),
              transcript |-> Merge(WithUserMessage(WithoutSteps(Loaded.transcript), t),
                                   WithoutSteps(Dedupe(turns[t].items)))]
  /\ turns' = [turns EXCEPT ![t].at = "saved", ![t].saved = TRUE]
  /\ UpsertSummary /\ UNCHANGED <<runs, limit>>

\* What the turn had read when it was routed, and what it says itself.
SavedMessages(t) == Says(Says(turns[t].base.messages, "user", turns[t].text), "assistant", AssistantText(t))

\* The messages before the last in which the user says the turn's words.
MessagesBefore(messages, text) ==
  LET said == {k \in DOMAIN messages : text # NoText /\ messages[k] = <<"user", text>>}
  IN IF said = {} THEN messages ELSE SubSeq(messages, 1, Max(said) - 1)

\* Messages as a timeline; their items have an index and no turn.
MessageItems(messages) ==
  [k \in DOMAIN messages |->
    Item(IF messages[k][1] = "user" THEN "user_message" ELSE "assistant_answer", messages[k][2], <<"message", 0, k>>)]

\* A session without a transcript is given one of its messages.
SavedTranscript(t) ==
  LET read == WithoutSteps(turns[t].base.transcript)
      seed == IF read # <<>> THEN read ELSE MessageItems(MessagesBefore(SavedMessages(t), turns[t].text))
  IN Merge(WithUserMessage(seed, t), WithoutSteps(Dedupe(turns[t].items)))

\* SessionState.saved_session
SaveSession(t) ==
  /\ turns[t].at = "ended"
  /\ snap' = [messages |-> SavedMessages(t), transcript |-> SavedTranscript(t)]
  /\ turns' = [turns EXCEPT ![t].at = "saved", ![t].saved = TRUE]
  /\ UpsertSummary /\ UNCHANGED <<runs, limit>>

\* The last run snapshot is made from the run's events alone; then the run ends.
SaveRunSnapshot(t) ==
  /\ turns[t].at = "saved"
  /\ runs' = [runs EXCEPT ![t] = Dedupe(turns[t].items)]
  /\ turns' = [turns EXCEPT ![t].at = "done", ![t].base = Empty]
  /\ UNCHANGED <<snap, hidden, limit>>

Faulty == {t \in Turn : turns[t].ended \in {"broken", "lost"}}

\* handle_background_error: an event without a result, and nothing is saved.
Breaks(t) ==
  /\ turns[t].at \in {"running", "ended", "saved"} /\ Cardinality(Faulty) < Bound.faults
  /\ Emits(t, <<>>, FinalItem(t, "broken"))
  /\ turns' = [turns EXCEPT ![t].at = "done", ![t].ended = "broken", ![t].base = Empty,
                            ![t].items = @ \o FinalItem(t, "broken")]

\* The backend restarts: nothing goes on with the runs it had.
ServerRestarts ==
  /\ InFlight # {} /\ Cardinality(Faulty) < Bound.faults
  /\ turns' = [t \in Turn |->
       CASE t \notin InFlight -> turns[t]
         [] turns[t].at = "routed" -> NoTurn
         [] OTHER -> [turns[t] EXCEPT !.at = "done", !.ended = "lost", !.base = Empty]]
  /\ UNCHANGED <<snap, hidden, runs, limit>>

\* archive_session, delete_session: the session's runs are not looked at.
MoveToBucket == Loads /\ hidden' = TRUE /\ UNCHANGED <<snap, runs, turns, limit>>

ContentNext ==
  \/ MoveToBucket \/ ServerRestarts
  \/ \E t \in Turn :
       \/ \E text \in UserText \cup {NoText}, kind \in {"message", "reset", "resume"} : Route(t, kind, text)
       \/ Stage(t) \/ Snapshot(t) \/ EmitStep(t)
       \/ \E type \in NoteType : EmitNote(t, type)
       \/ \E how \in WithAnswer \cup {"question", "paused"} : EmitResult(t, how)
       \/ SaveSession(t) \/ SaveRunSnapshot(t) \/ Breaks(t)

ContentSpec == ContentInit /\ [][ContentNext]_contentVars
-----------------------------------------------------------------------------
(* What the desktop is given to show (session_projector.py)                *)

BelongsTo(item, t) == Len(item.key) > 1 /\ item.key[2] = t

\* Mutant: the display finds no place where the run starts.
RunStartNowhere(timeline, t) == Len(timeline) + 1

\* Where the run's part of the session begins: at its user message, or at the
\* first item of the run, or at the run's first item.
RunStart(timeline, t) ==
  LET places(Test(_)) == {k \in DOMAIN timeline : Test(timeline[k])}
      first(a, b, c) == IF a # {} THEN Min(a) ELSE IF b # {} THEN Min(b) ELSE IF c # {} THEN Min(c)
                        ELSE Len(timeline) + 1
  IN first(places(LAMBDA i : i.key = <<"message", t>>), places(LAMBDA i : BelongsTo(i, t)),
           places(LAMBDA i : i.key # NoKey /\ i.key = runs[t][1].key))

DisplayTranscript(t) ==
  IF runs[t] = <<>> THEN snap.transcript
  ELSE Dedupe(SubSeq(snap.transcript, 1, RunStart(snap.transcript, t) - 1) \o runs[t])

-----------------------------------------------------------------------------
(* Properties                                                              *)

\* Turns that were in flight together.
TurnsOverlap(u, v) ==
  u # v /\ {u, v} \subseteq Begun /\ u \notin turns[v].before /\ v \notin turns[u].before

\* What a saved turn leaves in the session's transcript.
TurnItems(t) == WithUserMessage(<<>>, t) \o WithoutSteps(turns[t].items)

Kept(t) == Only(snap.transcript, LAMBDA item : item \in ToSet(TurnItems(t))) = TurnItems(t)

\* A write of u may lose what v had saved: u began with what was there while v was
\* in flight, or with nothing, or emits into a hidden session and has not saved, or will not.
MayLose(u, v) ==
  \/ TurnsOverlap(u, v)
  \/ v \in turns[u].before /\ turns[u].blind
  \/ /\ hidden /\ v \in turns[u].before \cup {u}
     /\ turns[u].at \in {"running", "ended"} \/ u \in Faulty

\* The words of a saved turn stay in the session's transcript, whole and in order.
\* They get lost only to a turn that overlapped it, a reset, a session that was
\* moved away when a turn began, or one whose run ended unsaved after the move.
ConversationKept ==
  \A v \in Turn : turns[v].saved /\ ~Kept(v) => \E u \in Begun : MayLose(u, v)

Undisturbed == InFlight = {} /\ Faulty = {} /\ ~\E u, v \in Turn : TurnsOverlap(u, v)

\* What an item adds to the messages: a remark nothing, a generic answer the summary
\* that the messages have for it.
Tell(said, item) ==
  CASE item.type = "user_message"     -> Says(said, "user", item.text)
    [] item.type = "assistant_answer" -> Says(said, "assistant", Decorated(item.text))
    [] OTHER                          -> said

Conversation(timeline) == FoldLeft(Tell, <<>>, timeline)

\* messages and transcript are put together by different code, and once the turns,
\* none of which overlapped or failed, are over, the messages are what the transcript
\* tells but for its remarks, with the summary for a generic answer: every word of the
\* user and every answer is in both, in one order, and no answer is told twice,
\* though the event of a result puts two into the transcript.
RecordsAgree == Undisturbed => Conversation(snap.transcript) = snap.messages

\* display_transcript, spliced of the session's transcript and the last run's
\* snapshot, then shows the session's words in their order, but not the user's
\* last message, which the last snapshot of a run does not hold.
DisplayShowsSession ==
  \A t \in Turn : Undisturbed /\ IsLatestRun(t) =>
    WithoutSteps(DisplayTranscript(t)) =
      Only(snap.transcript, LAMBDA item : runs[t] # <<>> => item.key # <<"message", t>>)

\* A session that was archived or deleted is not brought back by what its turns
\* still write, or by a message to it.
HiddenStaysHidden == [][hidden => hidden']_contentVars
=============================================================================

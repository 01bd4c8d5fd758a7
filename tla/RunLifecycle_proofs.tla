------------------------ MODULE RunLifecycle_proofs ------------------------
(* Proofs about the abstract run lifecycle, for any set of run ids. *)
EXTENDS RunLifecycle, TLAPS

Inv == TypeOK /\ MarkAgrees

\* Every table of run_lifecycle.py lists statuses only, and no status is NoRow.
LEMMA StatusTables ==
  /\ PAUSABLE_RUN_STATUSES \subseteq ACTIVE_RUN_STATUSES
  /\ ACTIVE_RUN_STATUSES \subseteq CANCELLABLE_RUN_STATUSES
  /\ CANCELLABLE_RUN_STATUSES \cap COMPLETED_AT_STATUSES = AWAITING_STATUSES
  /\ RESULT_STATUSES \subseteq COMPLETED_AT_STATUSES
  /\ COMPLETED_AT_STATUSES \subseteq ALL_RUN_STATUSES
  /\ RESUMABLE_RUN_STATUSES \subseteq COMPLETED_AT_STATUSES
  /\ FINAL_STATUSES \cap (CANCELLABLE_RUN_STATUSES \cup RESUMABLE_RUN_STATUSES) = {}
  /\ NoRow \notin CANCELLABLE_RUN_STATUSES \cup COMPLETED_AT_STATUSES
  BY DEF PAUSABLE_RUN_STATUSES, ACTIVE_RUN_STATUSES, CANCELLABLE_RUN_STATUSES,
         COMPLETED_AT_STATUSES, AWAITING_STATUSES, RESULT_STATUSES, ALL_RUN_STATUSES,
         RESUMABLE_RUN_STATUSES, FINAL_STATUSES, NoRow

\* A request is granted to an active run, or it is the cancellation of a run
\* that waits for its user.
LEMMA RequestGuard ==
  ASSUME NEW current, NEW requested \in REQUESTS, CanRequestStatus(current, requested)
  PROVE  /\ current \in CANCELLABLE_RUN_STATUSES
         /\ current \in COMPLETED_AT_STATUSES => requested = "cancel_requested"
         /\ current = "cancel_requested" => requested = "cancel_requested"
  BY DEF CanRequestStatus, REQUESTS, PAUSABLE_RUN_STATUSES, CANCELLABLE_RUN_STATUSES,
         ACTIVE_RUN_STATUSES, COMPLETED_AT_STATUSES

\* The initial states satisfy the invariant.
LEMMA InitInv == Init => Inv
  BY DEF Init, Inv, TypeOK, MarkAgrees

\* Every step keeps it: one case per action.
LEMMA NextInv == Inv /\ [Next]_vars => Inv'
<1> SUFFICES ASSUME Inv, [Next]_vars PROVE Inv'
    OBVIOUS
<1> USE DEF Inv, TypeOK, MarkAgrees
<1>1. CASE UNCHANGED vars
      BY <1>1 DEF vars
<1>2. ASSUME NEW r \in Run, Begin(r) PROVE Inv'
      BY <1>2 DEF Begin, ALL_RUN_STATUSES, COMPLETED_AT_STATUSES, NoRow
<1>3. ASSUME NEW r \in Run, NEW requested \in REQUESTS, Request(r, requested) PROVE Inv'
  <2>1. /\ status[r] \in CANCELLABLE_RUN_STATUSES
        /\ status[r] \in COMPLETED_AT_STATUSES => requested = "cancel_requested"
        /\ status[r] = "cancel_requested" => requested = "cancel_requested"
        BY <1>3, RequestGuard DEF Request
  <2>2. TypeOK'
        BY <1>3 DEF Request, REQUESTS, ALL_RUN_STATUSES
  <2>3. MarkAgrees'
        BY <1>3, <2>1 DEF Request, REQUESTS
  <2> QED BY <2>2, <2>3
<1>4. ASSUME NEW r \in Run, NEW result \in RESULT_STATUSES, Stop(r, result) PROVE Inv'
      BY <1>4, StatusTables DEF Stop
<1>5. ASSUME NEW r \in Run, HandOver(r) PROVE Inv'
      BY <1>5 DEF HandOver, COMPLETED_AT_STATUSES, ALL_RUN_STATUSES
<1> QED BY <1>1, <1>2, <1>3, <1>4, <1>5 DEF Next

\* A run that has not stopped is active, and a stopped one is active again only
\* as the cancellation of a run that waits for its user.
THEOREM MarkAgreesAlways == Spec => [](TypeOK /\ MarkAgrees)
<1>1. Spec => []Inv
      BY InitInv, NextInv, PTL DEF Spec
<1> QED BY <1>1, PTL DEF Inv

\* Completed, failed, cancelled and resumed runs never change status again: no
\* request is granted, no worker stops and no successor takes them over.
THEOREM FinalStatusStays == Spec => FinalIsFinal
<1> DEFINE Kept == \A r \in Run : /\ status[r] \in FINAL_STATUSES => status'[r] = status[r]
                                  /\ over[r] => over'[r]
<1>1. ASSUME Inv, [Next]_vars PROVE [Kept]_vars
  <2> USE <1>1 DEF Inv, TypeOK
  <2> SUFFICES ASSUME Next PROVE Kept
      OBVIOUS
  <2>1. ASSUME NEW r \in Run, Begin(r) PROVE Kept
        BY <2>1 DEF Begin, NoRow, FINAL_STATUSES
  <2>2. ASSUME NEW r \in Run, NEW requested \in REQUESTS, Request(r, requested) PROVE Kept
    <3>1. status[r] \notin FINAL_STATUSES
          BY <2>2, RequestGuard, StatusTables DEF Request
    <3> QED BY <2>2, <3>1 DEF Request
  <2>3. ASSUME NEW r \in Run, NEW result \in RESULT_STATUSES, Stop(r, result) PROVE Kept
    <3>1. status[r] \notin FINAL_STATUSES
          BY <2>3, StatusTables DEF Stop
    <3> QED BY <2>3, <3>1 DEF Stop
  <2>4. ASSUME NEW r \in Run, HandOver(r) PROVE Kept
    <3>1. status[r] \notin FINAL_STATUSES
          BY <2>4, StatusTables DEF HandOver, CanMarkResumed
    <3> QED BY <2>4, <3>1 DEF HandOver
  <2> QED BY <2>1, <2>2, <2>3, <2>4 DEF Next
<1>2. Spec => []Inv
      BY InitInv, NextInv, PTL DEF Spec
<1> QED BY <1>1, <1>2, PTL DEF Spec, FinalIsFinal

\* No step returns a run to "running", and a cancellation that was asked for is
\* never downgraded to a pause.
THEOREM NoStepBackAlways == Spec => NoStepBack
<1> DEFINE Kept == \A r \in Run :
             /\ status[r] # NoRow /\ status'[r] = "running" => status[r] = "running"
             /\ status[r] = "cancel_requested" => status'[r] # "pause_requested"
<1>1. ASSUME Inv, [Next]_vars PROVE [Kept]_vars
  <2> USE <1>1 DEF Inv, TypeOK
  <2> SUFFICES ASSUME Next PROVE Kept
      OBVIOUS
  <2>1. ASSUME NEW r \in Run, Begin(r) PROVE Kept
        BY <2>1 DEF Begin, NoRow
  <2>2. ASSUME NEW r \in Run, NEW requested \in REQUESTS, Request(r, requested) PROVE Kept
    <3>1. status[r] = "cancel_requested" => requested = "cancel_requested"
          BY <2>2, RequestGuard DEF Request
    <3> QED BY <2>2, <3>1 DEF Request, REQUESTS
  <2>3. ASSUME NEW r \in Run, NEW result \in RESULT_STATUSES, Stop(r, result) PROVE Kept
        BY <2>3 DEF Stop, RESULT_STATUSES, COMPLETED_AT_STATUSES
  <2>4. ASSUME NEW r \in Run, HandOver(r) PROVE Kept
        BY <2>4 DEF HandOver
  <2> QED BY <2>1, <2>2, <2>3, <2>4 DEF Next
<1>2. Spec => []Inv
      BY InitInv, NextInv, PTL DEF Spec
<1> QED BY <1>1, <1>2, PTL DEF Spec, NoStepBack
=============================================================================

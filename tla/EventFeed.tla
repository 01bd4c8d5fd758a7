---------------------------- MODULE EventFeed ----------------------------
(***************************************************************************)
(* What the event stream of a session promises to a client that polls it:  *)
(* one append-only log of distinct events, delivered as a growing prefix.  *)
(* Nothing that was delivered changes, is delivered again or is skipped.   *)
(***************************************************************************)
EXTENDS Sequences, Naturals

CONSTANT Event          \* everything that can ever be emitted

VARIABLES log,          \* the stored events
          received      \* the events the client has been given, in order

vars == <<log, received>>

Init == log = <<>> /\ received = <<>>

Publish(e) ==
  /\ \A i \in DOMAIN log : log[i] # e
  /\ log' = Append(log, e)
  /\ UNCHANGED received

Deliver(n) ==
  /\ received' = SubSeq(log, 1, n)
  /\ UNCHANGED log

Next ==
  \/ \E e \in Event : Publish(e)
  \/ \E n \in (Len(received) + 1)..Len(log) : Deliver(n)

Spec == Init /\ [][Next]_vars
=============================================================================

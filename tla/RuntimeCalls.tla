---------------------------- MODULE RuntimeCalls ----------------------------
(***************************************************************************)
(* What callers of SubprocessQGISRuntime may rely on whatever the worker   *)
(* process does: an answer is given to at most one call, a call is never   *)
(* given the answer to a request that comes after its own, and answers are *)
(* handed out in the order in which the requests were written.             *)
(***************************************************************************)
EXTENDS Naturals

CONSTANT Caller

Failed == 0   \* the outcome of a call that raised instead of returning

VARIABLES asked,   \* how many requests were written
          mine,    \* mine[c]: the request c waits for, 0 when it waits for none
          got,     \* got[c]: the request whose answer c's last call returned
          last     \* the request whose answer was returned last

vars == <<asked, mine, got, last>>

Init ==
  /\ asked = 0
  /\ mine = [c \in Caller |-> 0]
  /\ got = [c \in Caller |-> Failed]
  /\ last = 0

Ask(c) ==
  /\ mine[c] = 0
  /\ asked' = asked + 1
  /\ mine' = [mine EXCEPT ![c] = asked + 1]
  /\ UNCHANGED <<got, last>>

Answer(c, q) ==
  /\ last < q /\ q <= mine[c]
  /\ got' = [got EXCEPT ![c] = q]
  /\ last' = q
  /\ mine' = [mine EXCEPT ![c] = 0]
  /\ UNCHANGED asked

Fail(c) ==
  /\ got' = [got EXCEPT ![c] = Failed]
  /\ mine' = [mine EXCEPT ![c] = 0]
  /\ UNCHANGED <<asked, last>>

Next == \E c \in Caller : Ask(c) \/ Fail(c) \/ \E q \in 1..asked : Answer(c, q)

Spec == Init /\ [][Next]_vars
=============================================================================

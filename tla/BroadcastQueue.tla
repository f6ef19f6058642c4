--------------------------- MODULE BroadcastQueue ---------------------------
(***************************************************************************)
(* What the shared-memory ring promises: one writer publishes messages in  *)
(* order, every reader takes every message once and in order, and the      *)
(* writer is never more than Capacity messages ahead of a reader.          *)
(***************************************************************************)
EXTENDS Integers

CONSTANTS Readers, Capacity

VARIABLES
  sent,   \* number of messages published
  taken   \* taken[r]: number of messages reader r has released

vars == <<sent, taken>>

Init ==
  /\ sent = 0
  /\ taken = [r \in Readers |-> 0]

Publish ==
  /\ \A r \in Readers : sent - taken[r] < Capacity
  /\ sent' = sent + 1
  /\ UNCHANGED taken

Take(r) ==
  /\ taken[r] < sent
  /\ taken' = [taken EXCEPT ![r] = @ + 1]
  /\ UNCHANGED sent

Next == Publish \/ \E r \in Readers : Take(r)

Spec == Init /\ [][Next]_vars
=============================================================================

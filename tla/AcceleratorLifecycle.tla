----------------------- MODULE AcceleratorLifecycle ------------------------
(***************************************************************************)
(* What the Global Accelerator controller promises about the accelerators  *)
(* of its objects, without workers, queues, calls or failures: an object   *)
(* has at most one; it is created enabled and bare, gets a listener, then  *)
(* an endpoint group, loses them in the opposite order, and goes once it   *)
(* is disabled and bare; one object's accelerator changes at a time.       *)
(***************************************************************************)
CONSTANTS Keys, Arns

VARIABLE slot   \* for each object, its accelerators and the stage of each

Stage == [enabled : BOOLEAN, listener : BOOLEAN, group : BOOLEAN]

Bare == [enabled |-> TRUE, listener |-> FALSE, group |-> FALSE]

Init == slot = [k \in Keys |-> [a \in {} |-> Bare]]

\* Only an object without an accelerator gets one.
Create(k, a) ==
  /\ DOMAIN slot[k] = {}
  /\ slot' = [slot EXCEPT ![k] = [b \in {a} |-> Bare]]

\* The stages one call can lead to.
Moves(s, t) ==
  \/ \E e \in BOOLEAN : t = [s EXCEPT !.enabled = e]
  \/ ~s.listener /\ t = [s EXCEPT !.listener = TRUE]
  \/ s.listener /\ \E g \in BOOLEAN : t = [s EXCEPT !.group = g]
  \/ ~s.group /\ t = [s EXCEPT !.listener = FALSE]

Move(k, a) ==
  /\ a \in DOMAIN slot[k]
  /\ \E t \in Stage : Moves(slot[k][a], t) /\ slot' = [slot EXCEPT ![k][a] = t]

Delete(k, a) ==
  /\ a \in DOMAIN slot[k]
  /\ ~slot[k][a].enabled /\ ~slot[k][a].listener /\ ~slot[k][a].group
  /\ slot' = [slot EXCEPT ![k] = [b \in {} |-> Bare]]

Next == \E k \in Keys, a \in Arns : Create(k, a) \/ Move(k, a) \/ Delete(k, a)

Spec == Init /\ [][Next]_slot
=============================================================================

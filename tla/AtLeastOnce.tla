---------------------------- MODULE AtLeastOnce ----------------------------
(***************************************************************************)
(* What the broker promises to a consumer group: it is given the published *)
(* messages from its position on, and its position moves forward only over *)
(* messages it has been given ("at-least-once", mq/README.md:26).          *)
(***************************************************************************)
EXTENDS Integers

CONSTANT Group

VARIABLES
  published,    \* number of messages published; message n is the n-th
  delivered,    \* group -> messages given to a member of the group
  position      \* group -> number of messages the group has acknowledged

Init ==
  /\ published = 0
  /\ delivered = [g \in Group |-> {}]
  /\ position = [g \in Group |-> 0]

Publish ==
  /\ published' = published + 1
  /\ UNCHANGED <<delivered, position>>

Deliver(g) ==
  \E last \in position[g]..published :
    /\ delivered' = [delivered EXCEPT ![g] = @ \cup ((position[g] + 1)..last)]
    /\ UNCHANGED <<published, position>>

Acknowledge(g) ==
  \E n \in position[g]..published :
    /\ 1..n \subseteq delivered[g]
    /\ position' = [position EXCEPT ![g] = n]
    /\ UNCHANGED <<published, delivered>>

Next == Publish \/ \E g \in Group : Deliver(g) \/ Acknowledge(g)

Spec == Init /\ [][Next]_<<published, delivered, position>>
=============================================================================

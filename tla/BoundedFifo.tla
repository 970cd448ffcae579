---------------------------- MODULE BoundedFifo ----------------------------
(***************************************************************************)
(* What lib.MemoryQueue promises its callers: items leave in the order     *)
(* they came, each of them once, and none is refused while there is room.  *)
(* How much room there is may change, but never below what is queued.      *)
(***************************************************************************)
EXTENDS Integers, Sequences

CONSTANTS Items,  \* what can be queued
          Empty   \* what a caller gets who gets no item

VARIABLES items,  \* the queued items, oldest first
          room,   \* how many fit
          answer  \* the last call and what it returned

vars == <<items, room, answer>>

Done(call, item) == [call |-> call, ok |-> TRUE, item |-> item]
Refused(call)    == [call |-> call, ok |-> FALSE, item |-> Empty]

Init == items = <<>> /\ room \in Nat \ {0} /\ answer = Done("none", Empty)

Put(x) == /\ items' = Append(items, x)
          /\ room' \in Nat /\ room' >= room /\ Len(items) < room'
          /\ answer' = Done("add", Empty)

Refuse == /\ Len(items) = room
          /\ answer' = Refused("add")
          /\ UNCHANGED <<items, room>>

Take == IF items = <<>>
        THEN answer' = Refused("get") /\ UNCHANGED <<items, room>>
        ELSE /\ answer' = Done("get", Head(items))
             /\ items' = Tail(items)
             /\ UNCHANGED room

Clear == items' = <<>> /\ answer' = Done("reset", Empty) /\ UNCHANGED room

\* Settings change only while nothing is queued.
Tune == \/ /\ items = <<>> /\ room' \in Nat \ {0}
           /\ answer' = Done("set", Empty) /\ UNCHANGED items
        \/ answer' = Refused("set") /\ UNCHANGED <<items, room>>

Next == (\E x \in Items : Put(x)) \/ Refuse \/ Take \/ Clear \/ Tune

Spec == Init /\ [][Next]_vars
=============================================================================

---------------------------- MODULE MemoryQueue ----------------------------
(***************************************************************************)
(* lib.MemoryQueue: a ring of slots that doubles when it is full.  Every   *)
(* method holds the mutex from its first to its last line, hence is one    *)
(* step whoever calls it.  int has the values MinInt..MaxInt.              *)
(***************************************************************************)
EXTENDS Integers, Sequences

CONSTANTS
  Items,         \* the strings that callers queue
  Empty,         \* "", the zero value of a slot
  DefaultSize,   \* defaultSize of NewMemoryQueue
  Capacities,    \* what memory may allow, and what callers pass as sizes
  MaxInt         \* the largest int

MinInt == -MaxInt - 1

ASSUME QueueAssumption ==
  /\ Empty \in Items
  /\ MaxInt \in Nat \ {0} /\ DefaultSize \in 1..MaxInt
  /\ Capacities \subseteq MinInt..MaxInt

\* int arithmetic wraps.
Wrap(n) == IF n > MaxInt THEN n - 2 * (MaxInt + 1) ELSE n

VARIABLES
  data,         \* the slots
  head, tail, size, count, maxCapacity,
  answer        \* the last call and what it returned

cursors == <<head, tail, count>>
vars == <<data, head, tail, size, count, maxCapacity, answer>>

Done(call, item) == [call |-> call, ok |-> TRUE, item |-> item]
Refused(call)    == [call |-> call, ok |-> FALSE, item |-> Empty]

Slots(n) == [i \in 0..(n - 1) |-> Empty]

\* The slot of the i-th queued item, from 0.
At(i) == (head + i) % size

\* NewMemoryQueue
Init ==
  /\ size = DefaultSize /\ data = Slots(DefaultSize)
  /\ head = 0 /\ tail = 0 /\ count = 0
  /\ maxCapacity \in Capacities
  /\ answer = Done("none", Empty)

-----------------------------------------------------------------------------
Refuse(call) == answer' = Refused(call) /\ UNCHANGED <<data, cursors, size, maxCapacity>>

\* (mutant: whenever nothing is queued)
FreshIfEmpty == count = 0
\* Nothing queued, and the ring at its start.
Fresh == head = 0 /\ tail = 0 /\ count = 0

SetSize(n) ==
  IF n < 1 \/ ~Fresh THEN Refuse("set")
  ELSE /\ size' = n /\ data' = Slots(n)
       /\ answer' = Done("set", Empty)
       /\ UNCHANGED <<cursors, maxCapacity>>

SetMaxCapacity(n) ==
  IF n < size \/ ~Fresh THEN Refuse("set")
  ELSE /\ maxCapacity' = n
       /\ answer' = Done("set", Empty)
       /\ UNCHANGED <<data, cursors, size>>

\* An int overflow shows as a negative size.
CanGrow == Wrap(2 * size) >= size /\ Wrap(2 * size) < maxCapacity

\* (mutant: slots are copied as they lie)
GrownInPlace == [i \in 0..(Wrap(2 * size) - 1) |-> IF i < count THEN data[i] ELSE Empty]

\* The slots after resize: the queued items from 0 on.
Grown == [i \in 0..(Wrap(2 * size) - 1) |-> IF i < count THEN data[At(i)] ELSE Empty]

Add(x) ==
  IF count < size
  THEN /\ data' = [data EXCEPT ![tail] = x]
       /\ tail' = (tail + 1) % size
       /\ count' = count + 1
       /\ answer' = Done("add", Empty)
       /\ UNCHANGED <<head, size, maxCapacity>>
  ELSE IF ~CanGrow THEN Refuse("add")
  ELSE /\ size' = Wrap(2 * size)
       /\ data' = [Grown EXCEPT ![count] = x]
       /\ head' = 0
       /\ tail' = (count + 1) % size'
       /\ count' = count + 1
       /\ answer' = Done("add", Empty)
       /\ UNCHANGED maxCapacity

Get ==
  IF count = 0 THEN Refuse("get")
  ELSE /\ answer' = Done("get", data[head])
       /\ data' = [data EXCEPT ![head] = Empty]
       /\ head' = (head + 1) % size
       /\ count' = count - 1
       /\ UNCHANGED <<tail, size, maxCapacity>>

\* Reset empties the slots in use.
Cleared == [i \in 0..(size - 1) |->
              IF \E k \in 0..(count - 1) : i = At(k) THEN Empty ELSE data[i]]

Reset ==
  /\ data' = Cleared
  /\ head' = 0 /\ tail' = 0 /\ count' = 0
  /\ answer' = Done("reset", Empty)
  /\ UNCHANGED <<size, maxCapacity>>

Next ==
  \/ \E n \in Capacities : SetSize(n) \/ SetMaxCapacity(n)
  \/ \E x \in Items : Add(x)
  \/ Get
  \/ Reset

Spec == Init /\ [][Next]_vars

-----------------------------------------------------------------------------
TypeOK ==
  /\ size \in 1..MaxInt /\ data \in [0..(size - 1) -> Items]
  /\ head \in 0..(size - 1) /\ tail \in 0..(size - 1) /\ count \in 0..size
  /\ maxCapacity \in Capacities
  /\ answer \in [call : {"none", "set", "add", "get", "reset"}, ok : BOOLEAN, item : Items]

\* Slots outside the queued stretch hold no item, so that none is kept alive
\* after it was taken or reset, and none comes back.
NothingRetained ==
  \A i \in 0..(size - 1) : (\A k \in 0..(count - 1) : i # At(k)) => data[i] = Empty

\* The queued items, oldest first.
Queued == [k \in 1..count |-> data[At(k - 1)]]

\* The ring that wraps and grows is a first-in-first-out queue that refuses an
\* item only when it is full.
Fifo == INSTANCE BoundedFifo WITH items <- Queued, room <- size
ImplementsFifo == Fifo!Spec
=============================================================================

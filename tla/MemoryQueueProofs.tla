------------------------- MODULE MemoryQueueProofs -------------------------
(***************************************************************************)
(* For any items, sizes, capacities and width of int, the ring implements  *)
(* the bounded first-in-first-out queue.  All the arithmetic is in the     *)
(* lemmas about the slots of the queued items; the steps rest on those and *)
(* on tail being the slot behind the last of them.                         *)
(***************************************************************************)
EXTENDS MemoryQueue, SequenceTheorems, TLAPS

IInv == TypeOK /\ tail = At(count) /\ NothingRetained

\* The slot i places behind slot h in a ring of n.
Slot(h, i, n) == (h + i) % n

LEMMA ModSum ==
  ASSUME NEW n \in Nat \ {0}, NEW h \in 0..(n - 1), NEW i \in 0..n
  PROVE  Slot(h, i, n) = IF h + i < n THEN h + i ELSE h + i - n
<1>1. CASE h + i < n BY <1>1 DEF Slot
<1>2. CASE ~(h + i < n) BY <1>2 DEF Slot
<1>. QED BY <1>1, <1>2

LEMMA AtSlot == \A i : At(i) = Slot(head, i, size)
BY DEF At, Slot

\* The queued items lie in slots of their own.
LEMMA SlotsApart ==
  ASSUME TypeOK
  PROVE  /\ \A i \in 0..size : At(i) \in 0..(size - 1)
         /\ \A i, k \in 0..(size - 1) : At(i) = At(k) => i = k
         /\ At(0) = head
<1>1. size \in Nat \ {0} /\ head \in 0..(size - 1)
  BY QueueAssumption DEF TypeOK
<1>2. \A i \in 0..size : At(i) = IF head + i < size THEN head + i ELSE head + i - size
  BY <1>1, ModSum, AtSlot
<1>. QED BY <1>1, <1>2

\* Taking the head item moves every other item one place ahead.
LEMMA SlotsAfterGet ==
  ASSUME TypeOK, NEW i \in 0..(size - 1)
  PROVE  /\ Slot(head, 1, size) \in 0..(size - 1)
         /\ Slot(Slot(head, 1, size), i, size) = At(i + 1)
<1>1. size \in Nat \ {0} /\ head \in 0..(size - 1)
  BY QueueAssumption DEF TypeOK
<1>. DEFINE h == Slot(head, 1, size)
<1>2. h = IF head + 1 < size THEN head + 1 ELSE head + 1 - size
  BY <1>1, ModSum
<1>3. h \in 0..(size - 1) BY <1>1, <1>2
<1>4. At(i + 1) = IF head + (i + 1) < size THEN head + (i + 1) ELSE head + (i + 1) - size
  BY <1>1, ModSum, AtSlot
<1>. HIDE DEF h
<1>5. Slot(h, i, size) = IF h + i < size THEN h + i ELSE h + i - size
  BY <1>1, <1>3, ModSum
<1>6. Slot(h, i, size) = At(i + 1) BY <1>1, <1>2, <1>4, <1>5
<1>. QED BY <1>3, <1>6 DEF h

LEMMA TailAfterAdd ==
  ASSUME TypeOK, tail = At(count), count < size
  PROVE  Slot(tail, 1, size) = At(count + 1) /\ At(count + 1) \in 0..(size - 1)
<1>1. /\ size \in Nat \ {0} /\ head \in 0..(size - 1) /\ count \in Nat
      /\ tail \in 0..(size - 1)
  BY QueueAssumption DEF TypeOK
<1>2. tail = IF head + count < size THEN head + count ELSE head + count - size
  BY <1>1, ModSum, AtSlot
<1>3. At(count + 1) = IF head + (count + 1) < size THEN head + (count + 1)
                      ELSE head + (count + 1) - size
  BY <1>1, ModSum, AtSlot
<1>4. Slot(tail, 1, size) = IF tail + 1 < size THEN tail + 1 ELSE tail + 1 - size
  BY <1>1, ModSum
<1>. QED BY <1>1, <1>2, <1>3, <1>4

\* A ring that starts at 0 holds its items in the first slots.
LEMMA SlotsFromZero ==
  ASSUME NEW n \in Nat \ {0}, NEW i \in 0..(n - 1)
  PROVE  Slot(0, i, n) = i
BY ModSum

LEMMA GrownSize ==
  ASSUME TypeOK, CanGrow
  PROVE  Wrap(2 * size) = 2 * size /\ 2 * size \in 1..MaxInt
BY QueueAssumption DEF TypeOK, CanGrow, Wrap

-----------------------------------------------------------------------------
LEMMA IInvInit == Init => IInv
<1>. SUFFICES ASSUME Init PROVE IInv
  OBVIOUS
<1>1. size \in Nat \ {0} /\ Slots(size) \in [0..(size - 1) -> Items]
  BY QueueAssumption DEF Init, Slots
<1>2. TypeOK
  <2>1. 0 \in 0..(size - 1) /\ 0 \in 0..size BY <1>1
  <2>. QED BY <1>1, <2>1, QueueAssumption DEF Init, TypeOK, Done
<1>3. tail = At(count) BY <1>2, SlotsApart DEF Init
<1>4. NothingRetained BY DEF Init, NothingRetained, Slots
<1>. QED BY <1>2, <1>3, <1>4 DEF IInv

LEMMA QueuedSeq ==
  ASSUME TypeOK
  PROVE  /\ Queued \in Seq(Items) /\ Len(Queued) = count
         /\ \A k \in 1..count : Queued[k] = data[At(k - 1)]
<1>1. count \in Nat /\ size \in Nat /\ count <= size BY QueueAssumption DEF TypeOK
<1>2. \A k \in 1..count : At(k - 1) \in 0..(size - 1)
  BY <1>1, SlotsApart
<1>3. \A k \in 1..count : data[At(k - 1)] \in Items BY <1>2 DEF TypeOK
<1>. QED BY <1>1, <1>3 DEF Queued

LEMMA NothingQueued ==
  ASSUME TypeOK
  PROVE  Queued = <<>> <=> count = 0
<1>1. Queued \in Seq(Items) /\ Len(Queued) = count BY QueuedSeq
<1>. QED BY <1>1

\* A call that only returns something.
LEMMA Quiet ==
  ASSUME IInv, UNCHANGED <<data, cursors, size, maxCapacity>>,
         answer' \in [call : {"none", "set", "add", "get", "reset"}, ok : BOOLEAN, item : Items]
  PROVE  IInv' /\ Queued' = Queued
<1>. USE DEF cursors
<1>1. TypeOK' BY DEF IInv, TypeOK
<1>2. \A i : At(i)' = At(i) BY DEF At
<1>3. (tail = At(count))' BY <1>2 DEF IInv, At
<1>4. NothingRetained' BY <1>2 DEF IInv, NothingRetained, At
<1>5. Queued' = Queued BY DEF Queued, At
<1>. QED BY <1>1, <1>3, <1>4, <1>5 DEF IInv

LEMMA RefuseStep ==
  ASSUME IInv, NEW call \in {"set", "add", "get"}, Refuse(call)
  PROVE  IInv' /\ Queued' = Queued /\ size' = size /\ answer' = Fifo!Refused(call)
<1>1. Refused(call) \in [call : {"none", "set", "add", "get", "reset"}, ok : BOOLEAN, item : Items]
  BY QueueAssumption DEF Refused
<1>2. answer' = Refused(call) /\ UNCHANGED <<data, cursors, size, maxCapacity>>
  BY DEF Refuse
<1>. QED BY <1>1, <1>2, Quiet DEF Refused, Fifo!Refused

\* A ring without items that starts at 0.
LEMMA Emptied ==
  ASSUME TypeOK', head' = 0, tail' = 0, count' = 0, data' = Slots(size')
  PROVE  IInv' /\ Queued' = <<>>
<1>1. size' \in Nat \ {0} BY QueueAssumption DEF TypeOK
<1>2. At(0)' = 0
  <2>1. Slot(0, 0, size') = 0 BY <1>1, SlotsFromZero
  <2>. QED BY <2>1 DEF At, Slot
<1>3. (tail = At(count))' BY <1>2 DEF At
<1>4. NothingRetained' BY DEF NothingRetained, Slots
<1>5. Queued' = <<>> BY DEF Queued
<1>. QED BY <1>3, <1>4, <1>5 DEF IInv

FifoStep == Fifo!Next \/ UNCHANGED Fifo!vars

LEMMA SetSizeStep ==
  ASSUME IInv, NEW n \in Capacities, SetSize(n)
  PROVE  IInv' /\ FifoStep
<1>1. CASE Refuse("set")
  BY <1>1, RefuseStep DEF FifoStep, Fifo!Next, Fifo!Tune
<1>2. CASE n >= 1 /\ Fresh
  <2>1. /\ size' = n /\ data' = Slots(n) /\ answer' = Done("set", Empty)
        /\ UNCHANGED <<cursors, maxCapacity>> /\ head = 0 /\ tail = 0 /\ count = 0
    BY <1>2, QueueAssumption DEF SetSize, Fresh
  <2>2. n \in 1..MaxInt BY <1>2, QueueAssumption DEF MinInt
  <2>3. TypeOK'
    <3>1. Slots(n) \in [0..(n - 1) -> Items] BY QueueAssumption DEF Slots
    <3>2. 0 \in 0..(n - 1) /\ 0 \in 0..n BY <2>2
    <3>. QED BY <2>1, <2>2, <3>1, <3>2, QueueAssumption DEF IInv, TypeOK, cursors, Done
  <2>4. IInv' /\ Queued' = <<>> BY <2>1, <2>3, Emptied DEF cursors
  <2>5. Queued = <<>> BY <2>1, NothingQueued DEF IInv
  <2>6. Fifo!Tune BY <2>1, <2>2, <2>4, <2>5 DEF Fifo!Tune, Fifo!Done, Done
  <2>. QED BY <2>4, <2>6 DEF FifoStep, Fifo!Next
<1>. QED BY <1>1, <1>2, QueueAssumption DEF SetSize, MinInt

LEMMA SetMaxCapacityStep ==
  ASSUME IInv, NEW n \in Capacities, SetMaxCapacity(n)
  PROVE  IInv' /\ FifoStep
<1>1. CASE Refuse("set")
  BY <1>1, RefuseStep DEF FifoStep, Fifo!Next, Fifo!Tune
<1>2. CASE ~(n < size \/ ~Fresh)
  <2>1. /\ maxCapacity' = n /\ answer' = Done("set", Empty)
        /\ UNCHANGED <<data, cursors, size>> /\ count = 0
    BY <1>2 DEF SetMaxCapacity, Fresh
  <2>2. TypeOK' BY <2>1, QueueAssumption DEF IInv, TypeOK, cursors, Done
  <2>3. /\ Queued' = Queued
        /\ (tail = At(count))' /\ NothingRetained'
    BY <2>1 DEF Queued, At, cursors, IInv, NothingRetained
  <2>4. Queued = <<>> /\ size \in Nat \ {0}
    BY <2>1, NothingQueued, QueueAssumption DEF IInv, TypeOK
  <2>5. Fifo!Tune BY <2>1, <2>3, <2>4 DEF Fifo!Tune, Fifo!Done, Done
  <2>. QED BY <2>2, <2>3, <2>5 DEF IInv, FifoStep, Fifo!Next
<1>. QED BY <1>1, <1>2 DEF SetMaxCapacity

LEMMA ResetStep ==
  ASSUME IInv, Reset
  PROVE  IInv' /\ FifoStep
<1>1. Cleared = Slots(size)
  BY DEF IInv, NothingRetained, Cleared, Slots
<1>2. /\ data' = Slots(size') /\ head' = 0 /\ tail' = 0 /\ count' = 0
      /\ answer' = Done("reset", Empty) /\ UNCHANGED <<size, maxCapacity>>
  BY <1>1 DEF Reset
<1>3. TypeOK'
  <2>1. Slots(size) \in [0..(size - 1) -> Items] BY QueueAssumption DEF Slots
  <2>2. 0 \in 0..(size - 1) /\ 0 \in 0..size BY QueueAssumption DEF IInv, TypeOK
  <2>. QED BY <1>2, <2>1, <2>2, QueueAssumption DEF IInv, TypeOK, Done
<1>4. IInv' /\ Queued' = <<>> BY <1>2, <1>3, Emptied
<1>5. Fifo!Clear BY <1>2, <1>4 DEF Fifo!Clear, Fifo!Done, Done
<1>. QED BY <1>4, <1>5 DEF FifoStep, Fifo!Next

LEMMA GetStep ==
  ASSUME IInv, Get
  PROVE  IInv' /\ FifoStep
<1>0. TypeOK /\ Queued \in Seq(Items) /\ Len(Queued) = count
  BY QueuedSeq DEF IInv
<1>1. CASE count = 0
  <2>1. Refuse("get") BY <1>1 DEF Get
  <2>2. Queued = <<>> BY <1>0, <1>1, NothingQueued
  <2>3. Fifo!Take BY <2>1, <2>2, RefuseStep DEF Fifo!Take
  <2>. QED BY <2>1, <2>3, RefuseStep DEF FifoStep, Fifo!Next
<1>2. CASE count # 0
  <2>1. /\ answer' = Done("get", data[head])
        /\ data' = [data EXCEPT ![head] = Empty]
        /\ head' = Slot(head, 1, size) /\ count' = count - 1
        /\ UNCHANGED <<tail, size, maxCapacity>>
    BY <1>2 DEF Get, Slot
  <2>2. /\ count \in 1..size /\ size \in Nat \ {0} /\ head \in 0..(size - 1)
        /\ data \in [0..(size - 1) -> Items]
    BY <1>0, <1>2, QueueAssumption DEF TypeOK
  <2>3. TypeOK'
    <3>1. head' \in 0..(size - 1) BY <1>0, <2>1, <2>2, SlotsAfterGet
    <3>2. data[head] \in Items /\ data' \in [0..(size - 1) -> Items]
      BY <2>1, <2>2, QueueAssumption
    <3>3. count' \in 0..size BY <2>1, <2>2
    <3>. QED BY <1>0, <2>1, <3>1, <3>2, <3>3 DEF TypeOK, Done
  <2>4. \A i \in 0..(size - 1) : Slot(head', i, size) = At(i + 1)
    BY <1>0, <2>1, SlotsAfterGet
  <2>5. \A i \in 0..(size - 1) : At(i)' = At(i + 1)
    BY <2>1, <2>4 DEF At, Slot
  <2>6. (tail = At(count))'
    <3>1. count - 1 \in 0..(size - 1) /\ (count - 1) + 1 = count BY <2>2
    <3>2. Slot(head', count - 1, size) = At((count - 1) + 1) BY <2>4, <3>1
    <3>3. Slot(head', count', size') = At(count) BY <2>1, <3>1, <3>2
    <3>4. At(count)' = Slot(head', count', size') BY DEF At, Slot
    <3>. QED BY <2>1, <3>3, <3>4 DEF IInv
  <2>7. NothingRetained'
    <3>. SUFFICES ASSUME NEW i \in 0..(size - 1), \A k \in 0..(count - 1 - 1) : i # At(k)'
         PROVE data'[i] = Empty
      BY <2>1 DEF NothingRetained
    <3>1. CASE i = head BY <3>1, <2>1, <2>2
    <3>2. CASE i # head
      <4>1. ASSUME NEW k \in 0..(count - 1) PROVE i # At(k)
        <5>1. CASE k = 0 BY <5>1, <3>2, <1>0, SlotsApart
        <5>2. CASE k # 0
          <6>1. k - 1 \in 0..(count - 1 - 1) /\ k - 1 \in 0..(size - 1) /\ (k - 1) + 1 = k
            BY <5>2, <2>2
          <6>2. At(k - 1)' = At(k) BY <2>5, <6>1
          <6>. QED BY <6>1, <6>2
        <5>. QED BY <5>1, <5>2
      <4>2. data[i] = Empty BY <4>1 DEF IInv, NothingRetained
      <4>. QED BY <4>2, <3>2, <2>1, <2>2
    <3>. QED BY <3>1, <3>2
  <2>8. Queued' = Tail(Queued)
    <3>1. Queued' = [k \in 1..(count - 1) |-> data'[At(k - 1)']]
      BY <2>1 DEF Queued
    <3>2. Tail(Queued) = [k \in 1..(count - 1) |-> Queued[k + 1]]
      BY <1>0, <2>2
    <3>3. ASSUME NEW k \in 1..(count - 1) PROVE data'[At(k - 1)'] = Queued[k + 1]
      <4>1. /\ k - 1 \in 0..(size - 1) /\ (k - 1) + 1 = k /\ k \in 0..(size - 1) /\ k # 0
            /\ k + 1 \in 1..count /\ (k + 1) - 1 = k /\ 0 \in 0..(size - 1) /\ k \in 0..size
        BY <2>2
      <4>2. At(k - 1)' = At(k) BY <2>5, <4>1
      <4>3. At(k) # head /\ At(k) \in 0..(size - 1) BY <1>0, <4>1, SlotsApart
      <4>4. data'[At(k)] = data[At(k)] BY <2>1, <2>2, <4>3
      <4>5. Queued[k + 1] = data[At(k)] BY <1>0, <4>1, QueuedSeq
      <4>. QED BY <4>2, <4>4, <4>5
    <3>. QED BY <3>1, <3>2, <3>3
  <2>9. Fifo!Take
    <3>1. Head(Queued) = data[head]
      <4>1. 1 \in 1..count /\ 1 - 1 = 0 BY <2>2
      <4>2. Queued[1] = data[At(0)] BY <1>0, <4>1, QueuedSeq
      <4>. QED BY <1>0, <2>2, <4>2, SlotsApart
    <3>2. Queued # <<>> BY <1>0, <1>2, NothingQueued
    <3>. QED BY <2>1, <2>8, <3>1, <3>2 DEF Fifo!Take, Fifo!Done, Done
  <2>. QED BY <2>3, <2>6, <2>7, <2>9 DEF IInv, FifoStep, Fifo!Next
<1>. QED BY <1>1, <1>2

LEMMA AppendIs ==
  ASSUME NEW s \in Seq(Items), NEW x \in Items, NEW t \in [1..(Len(s) + 1) -> Items],
         t[Len(s) + 1] = x, \A k \in 1..Len(s) : t[k] = s[k]
  PROVE  t = Append(s, x)
<1>1. t \in Seq(Items) /\ Len(t) = Len(s) + 1
  OBVIOUS
<1>2. /\ Append(s, x) \in Seq(Items) /\ Len(Append(s, x)) = Len(s) + 1
      /\ \A k \in 1..Len(s) : Append(s, x)[k] = s[k]
      /\ Append(s, x)[Len(s) + 1] = x
  BY AppendProperties
<1>3. \A k \in 1..(Len(s) + 1) : t[k] = Append(s, x)[k]
  BY <1>2
<1>. QED BY <1>1, <1>2, <1>3, SeqEqual

LEMMA AddStep ==
  ASSUME IInv, NEW x \in Items, Add(x)
  PROVE  IInv' /\ FifoStep
<1>0. TypeOK /\ Queued \in Seq(Items) /\ Len(Queued) = count
  BY QueuedSeq DEF IInv
<1>1. /\ count \in 0..size /\ size \in Nat \ {0} /\ head \in 0..(size - 1)
      /\ tail \in 0..(size - 1) /\ tail = At(count)
      /\ data \in [0..(size - 1) -> Items]
  BY <1>0, QueueAssumption DEF TypeOK, IInv
<1>2. CASE count < size
  <2>1. /\ data' = [data EXCEPT ![tail] = x] /\ tail' = Slot(tail, 1, size)
        /\ count' = count + 1 /\ answer' = Done("add", Empty)
        /\ UNCHANGED <<head, size, maxCapacity>>
    BY <1>2 DEF Add, Slot
  <2>2. \A i : At(i)' = At(i) BY <2>1 DEF At
  <2>3. /\ tail' = At(count + 1) /\ tail' \in 0..(size - 1)
        /\ count \in 0..(size - 1) /\ count + 1 \in 0..size
    BY <1>0, <1>1, <1>2, <2>1, TailAfterAdd
  <2>4. TypeOK'
    <3>1. data' \in [0..(size - 1) -> Items] BY <1>1, <2>1
    <3>. QED BY <1>0, <2>1, <2>3, <3>1, QueueAssumption DEF TypeOK, Done
  <2>5. (tail = At(count))' BY <2>1, <2>2, <2>3 DEF At
  <2>6. NothingRetained'
    <3>. SUFFICES ASSUME NEW i \in 0..(size - 1), \A k \in 0..count : i # At(k)
         PROVE data'[i] = Empty
      BY <1>1, <2>1, <2>2 DEF NothingRetained
    <3>1. i # tail /\ \A k \in 0..(count - 1) : i # At(k) BY <1>1
    <3>2. data[i] = Empty BY <3>1 DEF IInv, NothingRetained
    <3>. QED BY <1>1, <2>1, <3>1, <3>2
  <2>7. Queued' = Append(Queued, x)
    <3>1. Queued' = [k \in 1..(count + 1) |-> data'[At(k - 1)]]
      BY <2>1, <2>2 DEF Queued
    <3>2. ASSUME NEW k \in 1..(count + 1)
          PROVE  data'[At(k - 1)] = IF k = count + 1 THEN x ELSE Queued[k]
      <4>1. CASE k = count + 1
        <5>1. k - 1 = count BY <4>1, <1>1
        <5>. QED BY <4>1, <5>1, <1>1, <2>1
      <4>2. CASE k # count + 1
        <5>1. /\ k \in 1..count /\ k - 1 \in 0..(size - 1) /\ k - 1 # count
              /\ k - 1 \in 0..size
          BY <4>2, <1>1
        <5>2. At(k - 1) # tail /\ At(k - 1) \in 0..(size - 1)
          BY <5>1, <1>0, <1>1, <2>3, SlotsApart
        <5>3. Queued[k] = data[At(k - 1)] BY <1>0, <5>1, QueuedSeq
        <5>. QED BY <4>2, <5>2, <5>3, <1>1, <2>1
      <4>. QED BY <4>1, <4>2
    <3>3. \A k \in 1..count : k # count + 1 /\ Queued[k] \in Items
      BY <1>0, <1>1
    <3>4. Queued' \in [1..(count + 1) -> Items]
      <4>1. ASSUME NEW k \in 1..(count + 1) PROVE data'[At(k - 1)] \in Items
        <5>1. CASE k = count + 1 BY <3>2, <5>1
        <5>2. CASE k # count + 1
          <6>1. k \in 1..count BY <5>2, <1>1
          <6>. QED BY <3>2, <3>3, <5>2, <6>1
        <5>. QED BY <5>1, <5>2
      <4>. QED BY <3>1, <4>1
    <3>5. Queued'[count + 1] = x /\ \A k \in 1..count : Queued'[k] = Queued[k]
      BY <3>1, <3>2, <3>3, <1>1
    <3>. QED BY <3>4, <3>5, <1>0, AppendIs
  <2>8. Fifo!Put(x)
    BY <1>0, <1>1, <1>2, <2>1, <2>7 DEF Fifo!Put, Fifo!Done, Done
  <2>. QED BY <2>4, <2>5, <2>6, <2>8 DEF IInv, FifoStep, Fifo!Next
<1>3. CASE ~(count < size) /\ ~CanGrow
  <2>1. Refuse("add") BY <1>3 DEF Add
  <2>2. Len(Queued) = size BY <1>0, <1>1, <1>3
  <2>3. Fifo!Refuse BY <2>1, <2>2, RefuseStep DEF Fifo!Refuse
  <2>. QED BY <2>1, <2>3, RefuseStep DEF FifoStep, Fifo!Next
<1>4. CASE ~(count < size) /\ CanGrow
  <2>. DEFINE n == 2 * size
  <2>1. Wrap(2 * size) = n /\ n \in 1..MaxInt /\ count = size
    BY <1>0, <1>1, <1>4, GrownSize
  <2>2. /\ size' = n /\ data' = [Grown EXCEPT ![count] = x]
        /\ head' = 0 /\ tail' = Slot(count, 1, n) /\ count' = count + 1
        /\ answer' = Done("add", Empty) /\ maxCapacity' = maxCapacity
    BY <1>4, <2>1 DEF Add, Slot
  <2>3. Grown = [i \in 0..(n - 1) |-> IF i < count THEN data[At(i)] ELSE Empty]
    BY <2>1 DEF Grown
  <2>4. n \in Nat \ {0} /\ n = size + size /\ count + 1 \in 0..n /\ count \in 0..(n - 1)
    BY <1>1, <2>1
  <2>. HIDE DEF n
  <2>5. \A i \in 0..(n - 1) : At(i)' = i
    BY <2>2, <2>4, SlotsFromZero DEF At, Slot
  <2>6. \A i \in 0..(count - 1) : At(i) \in 0..(size - 1)
    BY SMTT(40), <1>0, <1>1, SlotsApart
  <2>7. Grown \in [0..(n - 1) -> Items]
    BY <1>1, <2>3, <2>4, <2>6, QueueAssumption
  <2>8. tail' = Slot(0, count + 1, n) /\ tail' \in 0..(n - 1)
    <3>1. Slot(count, 1, n) = IF count + 1 < n THEN count + 1 ELSE count + 1 - n
      BY <2>4, <1>1, ModSum
    <3>2. Slot(0, count + 1, n) = IF 0 + (count + 1) < n THEN 0 + (count + 1)
                                  ELSE 0 + (count + 1) - n
      BY <2>4, ModSum
    <3>. QED BY <2>2, <2>4, <1>1, <3>1, <3>2
  <2>9. TypeOK'
    <3>1. data' \in [0..(n - 1) -> Items] BY <2>2, <2>7
    <3>2. 0 \in 0..(n - 1) BY <2>4
    <3>. QED BY <1>0, <2>1, <2>2, <2>4, <2>8, <3>1, <3>2, QueueAssumption
         DEF TypeOK, Done
  <2>10. (tail = At(count))' BY <2>2, <2>8 DEF At, Slot
  <2>11. NothingRetained'
    <3>. SUFFICES ASSUME NEW i \in 0..(n - 1), \A k \in 0..count : i # At(k)'
         PROVE data'[i] = Empty
      BY <1>1, <2>2 DEF NothingRetained
    <3>1. i > count
      <4>1. \A k \in 0..count : k \in 0..(n - 1) BY <2>4
      <4>2. \A k \in 0..count : i # k BY <2>5, <4>1
      <4>. QED BY <4>2, <1>1, <2>4
    <3>. QED BY <2>2, <2>3, <2>7, <3>1, <1>1
  <2>12. Queued' = Append(Queued, x)
    <3>1. Queued' = [k \in 1..(count + 1) |-> data'[At(k - 1)']]
      BY <2>2 DEF Queued
    <3>2. ASSUME NEW k \in 1..(count + 1)
          PROVE  data'[At(k - 1)'] = IF k = count + 1 THEN x ELSE Queued[k]
      <4>1. k - 1 \in 0..(n - 1) /\ k - 1 \in 0..count BY <1>1, <2>4
      <4>2. At(k - 1)' = k - 1 BY <2>5, <4>1
      <4>3. CASE k = count + 1
        <5>1. k - 1 = count BY <4>3, <1>1
        <5>. QED BY <4>2, <4>3, <5>1, <2>2, <2>4, <2>7
      <4>4. CASE k # count + 1
        <5>1. k \in 1..count /\ k - 1 < count /\ k - 1 # count BY <4>4, <1>1
        <5>2. data'[k - 1] = data[At(k - 1)] BY <4>1, <5>1, <2>2, <2>3, <2>7
        <5>. QED BY <1>0, <4>2, <4>4, <5>1, <5>2, QueuedSeq
      <4>. QED BY <4>3, <4>4
    <3>3. \A k \in 1..count : k # count + 1 /\ Queued[k] \in Items
      BY <1>0, <1>1
    <3>4. Queued' \in [1..(count + 1) -> Items]
      <4>1. ASSUME NEW k \in 1..(count + 1) PROVE data'[At(k - 1)'] \in Items
        <5>1. CASE k = count + 1 BY <3>2, <5>1
        <5>2. CASE k # count + 1
          <6>1. k \in 1..count BY <5>2, <1>1
          <6>. QED BY <3>2, <3>3, <5>2, <6>1
        <5>. QED BY <5>1, <5>2
      <4>. QED BY <3>1, <4>1
    <3>5. Queued'[count + 1] = x /\ \A k \in 1..count : Queued'[k] = Queued[k]
      BY <3>1, <3>2, <3>3, <1>1
    <3>. QED BY <3>4, <3>5, <1>0, AppendIs
  <2>13. Fifo!Put(x)
    BY <1>0, <1>1, <2>2, <2>4, <2>12 DEF Fifo!Put, Fifo!Done, Done
  <2>. QED BY <2>9, <2>10, <2>11, <2>13 DEF IInv, FifoStep, Fifo!Next
<1>. QED BY <1>2, <1>3, <1>4

-----------------------------------------------------------------------------
LEMMA IInvStep == IInv /\ [Next]_vars => IInv' /\ FifoStep
<1>. SUFFICES ASSUME IInv, [Next]_vars PROVE IInv' /\ FifoStep
  OBVIOUS
<1>1. CASE UNCHANGED vars
  <2>1. answer' \in [call : {"none", "set", "add", "get", "reset"}, ok : BOOLEAN, item : Items]
    BY <1>1 DEF vars, IInv, TypeOK
  <2>2. UNCHANGED <<data, cursors, size, maxCapacity>> BY <1>1 DEF vars, cursors
  <2>3. IInv' /\ Queued' = Queued BY <2>1, <2>2, Quiet
  <2>. QED BY <1>1, <2>3 DEF FifoStep, Fifo!vars, vars
<1>. QED
  BY <1>1, SetSizeStep, SetMaxCapacityStep, AddStep, GetStep, ResetStep DEF Next

LEMMA IInvAlways == Spec => []IInv
BY IInvInit, IInvStep, PTL DEF Spec

\* For any sizes and capacities the cursors stay inside the ring and count
\* within size, although int arithmetic wraps in resize.
THEOREM QueueTypeCorrect == Spec => []TypeOK
BY IInvAlways, PTL DEF IInv

\* No slot outside the queued stretch holds an item, after any sequence of Add,
\* Get, resize and Reset.
THEOREM NoItemRetained == Spec => []NothingRetained
BY IInvAlways, PTL DEF IInv

\* The ring implements the bounded first-in-first-out queue: Add, resize and Get
\* neither lose, repeat nor reorder an item, and Add refuses only a full ring.
THEOREM RingIsFifo == Spec => ImplementsFifo
<1>1. Init => Fifo!Init
  <2>. SUFFICES ASSUME Init PROVE Fifo!Init
    OBVIOUS
  <2>1. IInv BY IInvInit
  <2>2. Queued = <<>> BY <2>1, NothingQueued DEF Init, IInv
  <2>. QED BY <2>2, QueueAssumption DEF Init, Fifo!Init, Fifo!Done, Done
<1>2. IInv /\ [Next]_vars => [Fifo!Next]_(Fifo!vars)
  BY IInvStep DEF FifoStep
<1>. QED BY <1>1, <1>2, IInvAlways, PTL DEF Spec, ImplementsFifo, Fifo!Spec
=============================================================================

------------------------- MODULE PersistenceProofs -------------------------
(***************************************************************************)
(* The repository for every number of exchanges and callers, every value   *)
(* of its options, and whatever the order of batches, maintenance,         *)
(* deletions and restarts.  Part by part: types, the reservation counters, *)
(* the maintenance section, the table with what OnWrite reports of it, the *)
(* order of settlement, and the refinement of DurableHistory.              *)
(***************************************************************************)
EXTENDS Persistence, FiniteSetTheorems, SequenceTheorems, TLAPS

\* Release only lowers the two counters, so they stay within their bounds.
LEMMA ReleaseType ==
    ASSUME TypeOK, NEW i \in Ids, Release(i)
    PROVE  /\ reservedCount' \in 0..QueueCount
           /\ reservedBytes' \in 0..QueueBytes
           /\ accepting' \in BOOLEAN
  BY OptionsAssumption, DataAssumption DEF TypeOK, Release, Less

\* Where a caller goes when it leaves an operation is a caller's state.
LEMMA LeaveType ==
    ASSUME TypeOK, NEW c \in Callers
    PROVE  Leave(c) \in Calls
  BY DEF TypeOK, Leave, NoCall, Calls, CallPcs, ControlOps, Exclusive

\* Taking the head of a non-empty queue of exchanges.
LEMMA HeadTail ==
    ASSUME NEW s \in Seq(Ids), s # <<>>
    PROVE  /\ Head(s) \in Ids /\ Head(s) = s[1] /\ Len(s) \in Nat \ {0}
           /\ Tail(s) \in Seq(Ids)
           /\ Len(Tail(s)) = Len(s) - 1
           /\ \A k \in 1..Len(Tail(s)) : Tail(s)[k] = s[k + 1]
           /\ Tail(s) = <<>> <=> Len(s) = 1
<1>1. Len(s) \in Nat \ {0}
  BY EmptySeq
<1>2. /\ Head(s) \in Ids /\ Tail(s) \in Seq(Ids)
      /\ Len(Tail(s)) = Len(s) - 1
      /\ \A k \in 1..Len(Tail(s)) : Tail(s)[k] = s[k + 1]
  BY HeadTailProperties
<1>3. Tail(s) = <<>> <=> Len(Tail(s)) = 0
  BY <1>2, EmptySeq
<1> QED BY <1>1, <1>2, <1>3

\* The repository that Open returns is well typed.
LEMMA InitType == Init => TypeOK
  BY OptionsAssumption DEF Init, TypeOK, Stages, Undecided, Counted, Settled, NoRequest, NoCall,
         Requests, Calls, CallPcs, ControlOps, Exclusive

-----------------------------------------------------------------------------
(* Type correctness, strengthened by what makes Head(batch) an exchange.   *)

BatchPcs == {"collect", "tx", "release", "notify"}

\* The writer has a batch exactly while it collects, writes or settles one.
BatchShape == wpc \in BatchPcs <=> batch # <<>>

TypeInv == TypeOK /\ BatchShape

\* Reserve, Commit and Cancel keep every variable in its type.
LEMMA TypeTraffic ==
    ASSUME TypeInv, NEW i \in Ids, Traffic(i)
    PROVE  TypeInv'
<1> USE DEF TypeInv, TypeOK, BatchShape, BatchPcs, Stages, Undecided, Counted, Settled
<1>1. CASE Reserve(i)
  <2>1. reservedCount' \in 0..QueueCount /\ reservedBytes' \in 0..QueueBytes
    <3>1. Bytes[i] \in Nat
      BY DataAssumption
    <3> QED BY <1>1, <3>1, OptionsAssumption DEF Reserve, Admits, FitsCount, FitsBytes
  <2>2. st' \in [Ids -> Stages]
    BY <1>1 DEF Reserve
  <2> QED BY <1>1, <2>1, <2>2 DEF Reserve, writerVars
<1>2. CASE Commit(i)
  <2>1. CASE Len(writes) < QueueCount
    <3>1. st' \in [Ids -> Stages]
      BY <1>2, <2>1 DEF Commit
    <3>2. writes' = Append(writes, i) /\ writes \in Seq(Ids)
      BY <1>2, <2>1 DEF Commit
    <3>3. writes' \in Seq(Ids)
      BY <3>2, AppendProperties
    <3> QED BY <1>2, <2>1, <3>1, <3>3 DEF Commit, resources, writerVars
  <2>2. CASE ~(Len(writes) < QueueCount)
    <3>1. Release(i)
      BY <1>2, <2>2 DEF Commit
    <3> QED BY <1>2, <2>2, <3>1, ReleaseType DEF Commit, writerVars
  <2> QED BY <2>1, <2>2
<1>3. CASE Cancel(i)
  <2>1. Release(i)
    BY <1>3 DEF Cancel
  <2> QED BY <1>3, <2>1, ReleaseType DEF Cancel, writerVars
<1> QED BY <1>1, <1>2, <1>3 DEF Traffic

\* The steps of the writer goroutine keep the types, and a batch is never empty
\* where writeBatch takes its head.
LEMMA TypeWriter ==
    ASSUME TypeInv, Writer
    PROVE  TypeInv'
<1> USE DEF TypeInv, TypeOK, BatchShape, BatchPcs, Stages, Undecided, Counted, Settled
<1>1. ASSUME TakeItem
      PROVE  /\ st' \in [Ids -> Stages] /\ writes' \in Seq(Ids)
             /\ batch' \in Seq(Ids) /\ batch' # <<>>
  <2>1. Head(writes) \in Ids /\ Tail(writes) \in Seq(Ids)
    BY <1>1, HeadTail DEF TakeItem
  <2> QED BY <1>1, <2>1 DEF TakeItem
<1>2. CASE TakeFirst
  BY <1>1, <1>2 DEF TakeFirst, TakeItem, resources
<1>3. CASE CollectMore
  BY <1>1, <1>3 DEF CollectMore, TakeItem, resources
<1>4. CASE CollectEnd
  BY <1>4 DEF CollectEnd, resources
<1>5. CASE WriteBatch
  BY <1>5 DEF WriteBatch, Transact, ToSet, resources
<1>6. CASE ReleaseItem
  <2>1. Head(batch) \in Ids /\ Release(Head(batch))
    BY <1>6, HeadTail DEF ReleaseItem
  <2>2. /\ reservedCount' \in 0..QueueCount /\ reservedBytes' \in 0..QueueBytes
        /\ accepting' \in BOOLEAN
    BY <2>1, ReleaseType
  <2> QED BY <1>6, <2>1, <2>2 DEF ReleaseItem
<1>7. CASE NotifyItem
  <2>1. batch # <<>> /\ Head(batch) \in Ids /\ Tail(batch) \in Seq(Ids)
    BY <1>7, HeadTail DEF NotifyItem
  <2>2. Tail(batch) = <<>> <=> Len(batch) = 1
    BY <2>1, HeadTail
  <2>3. st' \in [Ids -> Stages]
    BY <1>7, <2>1 DEF NotifyItem, Outcome
  <2>4. /\ batchOk' \in BOOLEAN
        /\ wpc' \in {"select", "release"}
        /\ wpc' \in BatchPcs <=> batch' # <<>>
    <3>1. CASE Len(batch) = 1
      BY <1>7, <2>1, <2>2, <3>1 DEF NotifyItem
    <3>2. CASE Len(batch) # 1
      BY <1>7, <2>1, <2>2, <3>2 DEF NotifyItem
    <3> QED BY <3>1, <3>2
  <2> QED BY <1>7, <2>1, <2>3, <2>4 DEF NotifyItem, resources
<1>8. CASE ControlSucceeds \/ ControlFails
  <2>1. NoRequest \in Requests
    BY DEF NoRequest, Requests, ControlOps, Exclusive
  <2>2. rows' \in SUBSET Ids
    BY <1>8 DEF ControlSucceeds, ControlFails
  <2>3. call' \in [Callers -> Calls]
    <3>1. CASE control.caller = NoCaller
      BY <1>8, <3>1 DEF ControlSucceeds, ControlFails, Deliver
    <3>2. CASE control.caller # NoCaller
      <4> DEFINE c == control.caller
      <4>1. c \in Callers
        BY <3>2 DEF Requests
      <4>2. Leave(c) \in Calls
        BY <4>1, LeaveType
      <4>3. \A d : AfterSuccess(c, d) \in Calls
        BY <4>1, <4>2 DEF AfterSuccess, Calls, CallPcs
      <4>4. CASE ControlSucceeds
        <5>1. PICK d \in Deletions(control) : Deliver(AfterSuccess(c, d))
          BY <4>4 DEF ControlSucceeds
        <5> HIDE DEF c
        <5>2. call' = [call EXCEPT ![c] = AfterSuccess(c, d)]
          BY <3>2, <5>1 DEF Deliver, c
        <5> QED BY <4>1, <4>3, <5>2
      <4>5. CASE ControlFails
        BY <3>2, <4>1, <4>2, <4>5 DEF ControlFails, Deliver
      <4> QED BY <1>8, <4>4, <4>5
    <3> QED BY <3>1, <3>2
  <2> QED BY <1>8, <2>1, <2>2, <2>3 DEF ControlSucceeds, ControlFails, resources
<1>9. CASE Stop
  BY <1>9 DEF Stop, resources
<1> QED BY <1>2, <1>3, <1>4, <1>5, <1>6, <1>7, <1>8, <1>9 DEF Writer

\* The callers of control operations keep the types.
LEMMA TypeControl ==
    ASSUME TypeInv, NEW c \in Callers,
           Request(c) \/ Proceed(c) \/ GiveUp(c) \/ TakeControl(c)
    PROVE  TypeInv'
<1> USE DEF TypeInv, TypeOK, BatchShape, BatchPcs
<1>1. ASSUME NEW op \in ControlOps, NEW targets \in SUBSET Ids, NEW pc \in CallPcs,
             Begin(c, op, targets, pc), maintenance' \in Exclusive \cup {"none"}
      PROVE  TypeInv'
  <2>1. [pc |-> pc, op |-> op, targets |-> targets] \in Calls
    BY DEF Calls
  <2> QED BY <1>1, <2>1 DEF Begin, resources, writerVars
<1>2. CASE Request(c)
  <2>1. CASE \E i \in Ids : Delete(c, i)
    BY <1>1, <2>1 DEF Delete, ControlOps, CallPcs
  <2>2. CASE Clear(c)
    BY <1>1, <2>2 DEF Clear, ControlOps, CallPcs
  <2>3. CASE \E cutoff \in Cutoffs : Cleanup(c, cutoff)
    <3>1. PICK cutoff \in Cutoffs : Cleanup(c, cutoff)
      BY <2>3
    <3>2. {i \in Ids : CompletedAt[i] < cutoff} \in SUBSET Ids
      OBVIOUS
    <3> QED BY <1>1, <3>1, <3>2
            DEF Cleanup, BeginMaintenance, ControlOps, Exclusive, CallPcs
  <2>4. CASE Compact(c)
    BY <1>1, <2>4 DEF Compact, BeginMaintenance, ControlOps, Exclusive, CallPcs
  <2>5. CASE Vacuum(c)
    BY <1>1, <2>5 DEF Vacuum, BeginMaintenance, ControlOps, Exclusive, CallPcs
  <2> QED BY <1>2, <2>1, <2>2, <2>3, <2>4, <2>5 DEF Request
<1>3. ASSUME NEW pc \in CallPcs PROVE [call EXCEPT ![c].pc = pc] \in [Callers -> Calls]
  BY DEF Calls
<1>4. [call EXCEPT ![c] = Leave(c)] \in [Callers -> Calls]
  BY LeaveType
<1>5. CASE Drained(c)
  BY <1>3, <1>5 DEF Drained, CallPcs, resources, writerVars
<1>6. CASE ControlClosed(c) \/ OnCleanup(c)
  BY <1>4, <1>6 DEF ControlClosed, OnCleanup, resources, writerVars
<1>7. CASE CleanupAgain(c)
  BY <1>3, <1>7 DEF CleanupAgain, CallPcs, resources, writerVars
<1>8. CASE EndMaintenance(c)
  <2>1. NoCall \in Calls
    BY DEF NoCall, Calls, CallPcs, ControlOps, Exclusive
  <2> QED BY <1>8, <2>1 DEF EndMaintenance, resources, writerVars
<1>9. CASE GiveUp(c)
  <2>1. control' \in Requests
    BY <1>9 DEF GiveUp, Requests
  <2> QED BY <1>4, <1>9, <2>1 DEF GiveUp, resources
<1>10. CASE TakeControl(c)
  <2>1. control' \in Requests
    BY <1>10 DEF TakeControl, Requests, Calls
  <2> QED BY <1>3, <1>10, <2>1 DEF TakeControl, CallPcs, resources
<1> QED BY <1>2, <1>5, <1>6, <1>7, <1>8, <1>9, <1>10 DEF Proceed

\* So do finishClose and a new process.
LEMMA TypeCloseRestart ==
    ASSUME TypeInv, Close \/ Restart
    PROVE  TypeInv'
<1> USE DEF TypeInv, TypeOK, BatchShape, BatchPcs
<1>1. CASE Close
  BY <1>1 DEF Close, CloseBegin, CloseStop, CloseDone, resources, writerVars
<1>2. CASE Restart
  <2>1. st' \in [Ids -> Stages]
    BY <1>2 DEF Restart, Stages, Undecided, Counted, Settled
  <2>2. NoRequest \in Requests /\ NoCall \in Calls
    BY DEF NoRequest, NoCall, Requests, Calls, CallPcs, ControlOps, Exclusive
  <2> QED BY <1>2, <2>1, <2>2, OptionsAssumption DEF Restart
<1> QED BY <1>1, <1>2

\* Every step of the repository keeps the types and the shape of the batch.
LEMMA TypeStep == TypeInv /\ [Next]_vars => TypeInv'
<1> SUFFICES ASSUME TypeInv, [Next]_vars PROVE TypeInv'
  OBVIOUS
<1>1. ASSUME NEW i \in Ids, Traffic(i) PROVE TypeInv'
  BY <1>1, TypeTraffic
<1>2. CASE Writer
  BY <1>2, TypeWriter
<1>3. ASSUME NEW c \in Callers, Request(c) \/ Proceed(c) \/ GiveUp(c) \/ TakeControl(c)
      PROVE  TypeInv'
  BY <1>3, TypeControl
<1>4. CASE Close \/ Restart
  BY <1>4, TypeCloseRestart
<1>5. CASE UNCHANGED vars
  BY <1>5 DEF vars, TypeInv, TypeOK, BatchShape, BatchPcs, resources, writerVars
<1> QED BY <1>1, <1>2, <1>3, <1>4, <1>5 DEF Next

\* The types and the shape of the batch hold in every reachable state.
LEMMA TypeInvariant == Spec => []TypeInv
<1>1. Init => TypeInv
  BY InitType DEF TypeInv, BatchShape, BatchPcs, Init
<1> QED BY <1>1, TypeStep, PTL DEF Spec

\* Every reachable state of the repository is well typed, for all options: in
\* particular neither reservation counter ever exceeds its configured limit.
THEOREM TypeCorrect == Spec => []TypeOK
  BY TypeInvariant, PTL DEF TypeInv

-----------------------------------------------------------------------------
(* Reservation accounting.  The counter is exact because every exchange    *)
(* the channel or the batch holds is counted once, in its stage.           *)

Queued == {i \in Ids : st[i] = "queued"}

QueueInv ==
    /\ \A k \in 1..Len(writes) : st[writes[k]] = "queued"
    /\ \A j, k \in 1..Len(writes) : writes[j] = writes[k] => j = k
    /\ Len(writes) = Cardinality(Queued)

BatchInv ==
    /\ \A k \in 1..Len(batch) :
          st[batch[k]] = IF k = 1 /\ wpc = "notify" THEN "notifying" ELSE "batched"
    /\ \A j, k \in 1..Len(batch) : batch[j] = batch[k] => j = k
    /\ \A i \in Ids : st[i] = "notifying" => wpc = "notify" /\ i = batch[1]

CloseInv ==
    /\ accepting <=> closer = "open"
    /\ closer \in {"stopping", "closed"} => reservedCount = 0
    /\ wpc = "stopped" => closer \in {"stopping", "closed"}
    /\ closer = "closed" => wpc = "stopped"

IInv == TypeInv /\ QueueInv /\ BatchInv /\ CountAccounting /\ CloseInv

\* Adding an exchange to, or removing it from, a set of exchanges.
LEMMA Counting ==
    ASSUME NEW S \in SUBSET Ids, NEW i \in Ids
    PROVE  /\ Cardinality(S) \in Nat
           /\ i \notin S => Cardinality(S \cup {i}) = Cardinality(S) + 1
           /\ i \in S => Cardinality(S) # 0 /\ Cardinality(S \ {i}) = Cardinality(S) - 1
<1>1. IsFiniteSet(S)
  BY IdsFinite, FS_Subset
<1>2. Cardinality(S) \in Nat /\ (Cardinality(S) = 0 <=> S = {})
  BY <1>1, FS_CardinalityType, FS_EmptySet
<1> QED BY <1>1, <1>2, FS_AddElement, FS_RemoveElement

\* The queued exchanges and any other holder fit under the counter.
LEMMA HeldFindsRoom ==
    ASSUME IInv, NEW i \in Ids, st[i] = "held"
    PROVE  Len(writes) < QueueCount
<1>1. Queued \in SUBSET Ids /\ i \notin Queued
  BY DEF Queued
<1>2. Queued \cup {i} \in SUBSET Holding
  BY DEF Queued, Holding, Counted
<1>3. IsFiniteSet(Holding)
  BY IdsFinite, FS_Subset DEF Holding
<1>4. Cardinality(Queued \cup {i}) <= Cardinality(Holding)
  BY <1>2, <1>3, FS_Subset
<1>5. Cardinality(Queued) \in Nat /\ Cardinality(Queued \cup {i}) = Cardinality(Queued) + 1
  BY <1>1, Counting
<1>6. /\ Len(writes) = Cardinality(Queued)
      /\ Cardinality(Holding) = reservedCount
      /\ reservedCount \in 0..QueueCount
  BY DEF IInv, QueueInv, CountAccounting, TypeInv, TypeOK
<1> QED BY <1>4, <1>5, <1>6, OptionsAssumption

\* Releasing an exchange that counts takes exactly one off the counter.
LEMMA ReleaseCounts ==
    ASSUME IInv, NEW i \in Holding, Release(i), Holding' = Holding \ {i}
    PROVE  CountAccounting' /\ reservedCount # 0 /\ UNCHANGED accepting
<1>1. Cardinality(Holding) # 0 /\ Cardinality(Holding \ {i}) = Cardinality(Holding) - 1
  <2>1. Holding \in SUBSET Ids /\ i \in Ids
    BY DEF Holding
  <2> QED BY <2>1, Counting
<1>2. reservedCount = Cardinality(Holding) /\ reservedCount \in Nat
  BY OptionsAssumption DEF IInv, CountAccounting, TypeInv, TypeOK
<1>3. reservedCount' = reservedCount - 1
  BY <1>1, <1>2 DEF Release, Less
<1> QED BY <1>1, <1>2, <1>3 DEF CountAccounting, IInv, Release

\* Reserve counts one more, Commit keeps the count, Cancel gives it back.
LEMMA CountTraffic ==
    ASSUME IInv, NEW i \in Ids, Traffic(i)
    PROVE  QueueInv' /\ BatchInv' /\ CountAccounting' /\ CloseInv'
<1> USE DEF IInv, TypeInv, TypeOK
<1>0. Holding \in SUBSET Ids /\ Queued \in SUBSET Ids
  BY DEF Holding, Queued
<1>1. CASE Reserve(i)
  <2>1. Holding' = Holding \cup {i} /\ i \notin Holding /\ Queued' = Queued
    BY <1>1 DEF Reserve, Holding, Queued, Counted
  <2>2. CountAccounting'
    BY <1>0, <1>1, <2>1, Counting DEF Reserve, CountAccounting
  <2>3. QueueInv'
    BY <1>1, <2>1 DEF Reserve, QueueInv
  <2>4. BatchInv'
    BY <1>1 DEF Reserve, BatchInv, writerVars
  <2>5. CloseInv'
    BY <1>1 DEF Reserve, Admits, CloseInv, writerVars
  <2> QED BY <2>2, <2>3, <2>4, <2>5
<1>2. CASE Commit(i)
  <2>1. st[i] = "held" /\ Len(writes) < QueueCount
    BY <1>2, HeldFindsRoom DEF Commit
  <2>2. /\ writes' = Append(writes, i)
        /\ st' = [st EXCEPT ![i] = "queued"]
        /\ UNCHANGED <<accepting, reservedCount, closer, wpc, batch>>
    BY <1>2, <2>1 DEF Commit, resources, writerVars
  <2>3. Holding' = Holding /\ Queued' = Queued \cup {i} /\ i \notin Queued
    BY <2>1, <2>2 DEF Holding, Queued, Counted
  <2>4. QueueInv'
    <3>1. /\ Len(writes') = Len(writes) + 1 /\ Len(writes) \in Nat
          /\ \A k \in 1..Len(writes') :
                writes'[k] = IF k = Len(writes) + 1 THEN i ELSE writes[k]
      BY <2>2
    <3>2. \A k \in 1..Len(writes) : writes[k] \in Queued
      BY <2>1 DEF QueueInv, Queued
    <3>3. Len(writes') = Cardinality(Queued')
      BY <1>0, <2>3, <3>1, Counting DEF QueueInv
    <3>4. \A k \in 1..Len(writes') : st'[writes'[k]] = "queued"
      BY <2>2, <3>1, <3>2 DEF Queued
    <3>5. \A j, k \in 1..Len(writes') : writes'[j] = writes'[k] => j = k
      BY <2>3, <3>1, <3>2 DEF QueueInv
    <3> QED BY <3>3, <3>4, <3>5 DEF QueueInv
  <2>5. BatchInv'
    BY <2>1, <2>2 DEF BatchInv
  <2> QED BY <2>2, <2>3, <2>4, <2>5 DEF CountAccounting, CloseInv
<1>3. CASE Cancel(i)
  <2>1. Holding' = Holding \ {i} /\ i \in Holding /\ Queued' = Queued
    BY <1>3 DEF Cancel, Holding, Queued, Counted
  <2>2. CountAccounting' /\ reservedCount # 0 /\ UNCHANGED accepting
    BY <1>3, <2>1, ReleaseCounts DEF Cancel
  <2>3. QueueInv'
    BY <1>3, <2>1 DEF Cancel, QueueInv
  <2>4. BatchInv'
    BY <1>3 DEF Cancel, BatchInv, writerVars
  <2>5. CloseInv'
    BY <1>3, <2>2 DEF Cancel, CloseInv, writerVars
  <2> QED BY <2>2, <2>3, <2>4, <2>5
<1> QED BY <1>1, <1>2, <1>3 DEF Traffic

\* Moving the head of the channel to the end of the batch.
LEMMA CountTake ==
    ASSUME IInv, TakeItem, wpc # "notify", wpc' # "notify", UNCHANGED closer,
           wpc' # "stopped", wpc # "stopped"
    PROVE  QueueInv' /\ BatchInv' /\ CountAccounting' /\ CloseInv'
<1> USE DEF IInv, TypeInv, TypeOK
<1> DEFINE i == Head(writes)
<1>1. /\ i \in Ids /\ i = writes[1] /\ Len(writes) \in Nat \ {0}
      /\ Len(writes') = Len(writes) - 1
      /\ \A k \in 1..Len(writes') : writes'[k] = writes[k + 1]
  BY HeadTail DEF TakeItem
<1>2. /\ st' = [st EXCEPT ![i] = "batched"]
      /\ batch' = Append(batch, i)
      /\ UNCHANGED <<accepting, reservedCount>>
  BY DEF TakeItem, resources
<1>3. st[i] = "queued"
  BY <1>1 DEF QueueInv
<1> HIDE DEF i
<1>4. /\ Holding' = Holding
      /\ Queued' = Queued \ {i} /\ i \in Queued /\ Queued \in SUBSET Ids
  BY <1>1, <1>2, <1>3 DEF Holding, Queued, Counted
<1>5. QueueInv'
  <2>1. \A k \in 1..Len(writes') : writes'[k] # i /\ writes'[k] \in Queued
    BY <1>1 DEF QueueInv, Queued, i
  <2>2. Len(writes') = Cardinality(Queued')
    BY <1>1, <1>4, Counting DEF QueueInv
  <2>3. \A k \in 1..Len(writes') : st'[writes'[k]] = "queued"
    BY <1>2, <2>1 DEF Queued
  <2>4. \A j, k \in 1..Len(writes') : writes'[j] = writes'[k] => j = k
    BY <1>1 DEF QueueInv
  <2> QED BY <2>2, <2>3, <2>4 DEF QueueInv
<1>6. BatchInv'
  <2>1. /\ Len(batch') = Len(batch) + 1 /\ Len(batch) \in Nat
        /\ \A k \in 1..Len(batch') : batch'[k] = IF k = Len(batch) + 1 THEN i ELSE batch[k]
    BY <1>1, <1>2
  <2>2. \A k \in 1..Len(batch) : batch[k] \in Ids /\ st[batch[k]] = "batched" /\ batch[k] # i
    BY <1>3 DEF BatchInv
  <2>3. \A k \in 1..Len(batch') : st'[batch'[k]] = "batched"
    BY <1>1, <1>2, <2>1, <2>2
  <2>4. \A j, k \in 1..Len(batch') : batch'[j] = batch'[k] => j = k
    BY <2>1, <2>2 DEF BatchInv
  <2>5. \A e \in Ids : st'[e] # "notifying"
    BY <1>1, <1>2 DEF BatchInv
  <2> QED BY <2>3, <2>4, <2>5 DEF BatchInv
<1> QED BY <1>2, <1>4, <1>5, <1>6 DEF CountAccounting, CloseInv

\* writeBatch releases the head of the batch, which still counts, exactly once.
LEMMA CountRelease ==
    ASSUME IInv, ReleaseItem
    PROVE  QueueInv' /\ BatchInv' /\ CountAccounting' /\ CloseInv'
<1> USE DEF IInv, TypeInv, TypeOK
<1> DEFINE i == Head(batch)
<1>1. /\ i \in Ids /\ i = batch[1] /\ Len(batch) \in Nat \ {0}
  BY HeadTail DEF ReleaseItem, BatchShape, BatchPcs
<1>2. st[i] = "batched"
  BY <1>1 DEF BatchInv, ReleaseItem
<1>3. /\ st' = [st EXCEPT ![i] = "notifying"] /\ Release(i)
      /\ wpc = "release" /\ wpc' = "notify"
      /\ UNCHANGED <<writes, batch, closer>>
  BY DEF ReleaseItem
<1> HIDE DEF i
<1>4. Holding' = Holding \ {i} /\ i \in Holding /\ Queued' = Queued
  BY <1>1, <1>2, <1>3 DEF Holding, Queued, Counted
<1>5. CountAccounting' /\ reservedCount # 0 /\ UNCHANGED accepting
  BY <1>3, <1>4, ReleaseCounts
<1>6. QueueInv'
  BY <1>2, <1>3, <1>4 DEF QueueInv
<1>7. BatchInv'
  <2>1. \A k \in 1..Len(batch) :
            batch[k] \in Ids /\ st[batch[k]] = "batched" /\ (batch[k] = i <=> k = 1)
    BY <1>1, <1>3 DEF BatchInv
  <2>2. \A e \in Ids : st[e] # "notifying"
    BY <1>3 DEF BatchInv
  <2>3. \A k \in 1..Len(batch) :
            st'[batch[k]] = IF k = 1 THEN "notifying" ELSE "batched"
    BY <1>3, <2>1
  <2>4. \A e \in Ids : st'[e] = "notifying" => e = batch[1]
    BY <1>1, <1>3, <2>2
  <2> QED BY <1>3, <2>3, <2>4 DEF BatchInv
<1>8. CloseInv'
  BY <1>3, <1>5 DEF CloseInv
<1> QED BY <1>5, <1>6, <1>7, <1>8

\* OnWrite reports the head of the batch after its release: nothing is counted.
LEMMA CountNotify ==
    ASSUME IInv, NotifyItem
    PROVE  QueueInv' /\ BatchInv' /\ CountAccounting' /\ CloseInv'
<1> USE DEF IInv, TypeInv, TypeOK
<1> DEFINE i == Head(batch)
<1>1. /\ i \in Ids /\ i = batch[1] /\ Len(batch) \in Nat \ {0}
      /\ Len(Tail(batch)) = Len(batch) - 1
      /\ \A k \in 1..Len(Tail(batch)) : Tail(batch)[k] = batch[k + 1]
  BY HeadTail DEF NotifyItem, BatchShape, BatchPcs
<1>2. /\ st' = [st EXCEPT ![i] = Outcome] /\ Outcome \in {"persisted", "failed"}
      /\ wpc = "notify" /\ wpc' \in {"select", "release"}
      /\ batch' = Tail(batch)
      /\ UNCHANGED <<writes, closer, accepting, reservedCount>>
  BY DEF NotifyItem, Outcome, resources
<1>3. st[i] = "notifying"
  BY <1>1, <1>2 DEF BatchInv
<1> HIDE DEF i
<1>4. Holding' = Holding /\ Queued' = Queued
  BY <1>1, <1>2, <1>3 DEF Holding, Queued, Counted
<1>5. QueueInv'
  BY <1>2, <1>3, <1>4 DEF QueueInv
<1>6. BatchInv'
  <2>1. \A k \in 1..Len(batch') :
            /\ batch'[k] = batch[k + 1] /\ k + 1 \in 1..Len(batch) /\ k + 1 # 1
            /\ batch'[k] \in Ids /\ st[batch'[k]] = "batched"
    <3>1. \A k \in 1..Len(batch') :
              batch'[k] = batch[k + 1] /\ k + 1 \in 1..Len(batch) /\ k + 1 # 1
      BY <1>1, <1>2
    <3>2. \A k \in 1..Len(batch) : batch[k] \in Ids /\ (k # 1 => st[batch[k]] = "batched")
      BY DEF BatchInv
    <3> QED BY <3>1, <3>2
  <2>2. \A k \in 1..Len(batch') : st'[batch'[k]] = "batched"
    BY <1>2, <1>3, <2>1
  <2>3. \A e \in Ids : st'[e] # "notifying"
    BY <1>1, <1>2 DEF BatchInv
  <2>4. \A j, k \in 1..Len(batch') : batch'[j] = batch'[k] => j = k
    <3> SUFFICES ASSUME NEW j \in 1..Len(batch'), NEW k \in 1..Len(batch'),
                        batch'[j] = batch'[k]
                 PROVE  j = k
      OBVIOUS
    <3>1. batch[j + 1] = batch[k + 1] /\ j + 1 \in 1..Len(batch) /\ k + 1 \in 1..Len(batch)
      BY <2>1
    <3>2. j + 1 = k + 1
      BY <3>1 DEF BatchInv
    <3> QED BY <3>2, <1>1, <1>2
  <2> QED BY <1>2, <2>2, <2>3, <2>4 DEF BatchInv
<1> QED BY <1>2, <1>4, <1>5, <1>6 DEF CountAccounting, CloseInv

\* The steps that neither settle an exchange nor touch a reservation.
LEMMA CountElsewhere ==
    ASSUME IInv, UNCHANGED <<st, accepting, reservedCount, writes, batch>>,
           wpc # "notify", wpc' # "notify", CloseInv'
    PROVE  QueueInv' /\ BatchInv' /\ CountAccounting' /\ CloseInv'
<1>1. QueueInv'
  BY DEF IInv, QueueInv, Queued
<1>2. BatchInv'
  BY DEF IInv, BatchInv
<1>3. CountAccounting'
  BY DEF IInv, CountAccounting, Holding
<1> QED BY <1>1, <1>2, <1>3

\* Every step of the writer goroutine preserves the inductive invariant.
LEMMA CountWriter ==
    ASSUME IInv, Writer
    PROVE  QueueInv' /\ BatchInv' /\ CountAccounting' /\ CloseInv'
<1>1. CASE TakeFirst
  BY <1>1, CountTake DEF TakeFirst, TakeItem
<1>2. CASE CollectMore
  BY <1>2, CountTake DEF CollectMore, TakeItem
<1>3. CASE CollectEnd \/ WriteBatch
  <2>1. /\ UNCHANGED <<st, accepting, reservedCount, writes, batch, closer>>
        /\ wpc \in {"collect", "tx"} /\ wpc' \in {"tx", "release"}
    BY <1>3 DEF CollectEnd, WriteBatch, Transact, resources
  <2>2. CloseInv'
    BY <2>1 DEF IInv, CloseInv
  <2> QED BY <2>1, <2>2, CountElsewhere
<1>4. CASE ReleaseItem
  BY <1>4, CountRelease
<1>5. CASE NotifyItem
  BY <1>5, CountNotify
<1>6. CASE ControlSucceeds \/ ControlFails
  <2>1. /\ UNCHANGED <<st, accepting, reservedCount, writes, batch, closer>>
        /\ wpc = "control" /\ wpc' = "select"
    BY <1>6 DEF ControlSucceeds, ControlFails, resources
  <2>2. CloseInv'
    BY <2>1 DEF IInv, CloseInv
  <2> QED BY <2>1, <2>2, CountElsewhere
<1>7. CASE Stop
  <2>1. /\ UNCHANGED <<st, accepting, reservedCount, writes, batch, closer>>
        /\ wpc = "select" /\ wpc' = "stopped" /\ closer = "stopping"
    BY <1>7 DEF Stop, resources
  <2>2. CloseInv'
    BY <2>1 DEF IInv, CloseInv
  <2> QED BY <2>1, <2>2, CountElsewhere
<1> QED BY <1>1, <1>2, <1>3, <1>4, <1>5, <1>6, <1>7 DEF Writer

\* Control operations touch no reservation, no queue and no batch.
LEMMA CountControl ==
    ASSUME IInv, NEW c \in Callers,
           Request(c) \/ Proceed(c) \/ GiveUp(c) \/ TakeControl(c)
    PROVE  QueueInv' /\ BatchInv' /\ CountAccounting' /\ CloseInv'
<1>1. /\ UNCHANGED <<st, accepting, reservedCount, writes, batch, closer>>
      /\ wpc' = wpc \/ (wpc = "select" /\ wpc' = "control")
  BY DEF Request, Delete, Clear, Cleanup, Compact, Vacuum, Begin, Proceed, Drained,
         ControlClosed, CleanupAgain, OnCleanup, EndMaintenance, GiveUp, TakeControl,
         resources, writerVars
<1>2. CloseInv'
  BY <1>1 DEF IInv, CloseInv
<1>3. QueueInv'
  BY <1>1 DEF IInv, QueueInv, Queued
<1>4. BatchInv'
  BY <1>1 DEF IInv, BatchInv
<1>5. CountAccounting'
  BY <1>1 DEF IInv, CountAccounting, Holding
<1> QED BY <1>2, <1>3, <1>4, <1>5

\* finishClose stops the writer only without reservations; a new process has none.
LEMMA CountCloseRestart ==
    ASSUME IInv, Close \/ Restart
    PROVE  QueueInv' /\ BatchInv' /\ CountAccounting' /\ CloseInv'
<1>1. CASE Close
  <2>1. /\ UNCHANGED <<st, reservedCount, writes, batch, wpc>>
    BY <1>1 DEF Close, CloseBegin, CloseStop, CloseDone, resources, writerVars
  <2>2. CloseInv'
    BY <1>1 DEF IInv, CloseInv, Close, CloseBegin, CloseStop, CloseDone, resources, writerVars
  <2>3. QueueInv'
    BY <2>1 DEF IInv, QueueInv, Queued
  <2>4. BatchInv'
    BY <2>1 DEF IInv, BatchInv
  <2>5. CountAccounting'
    BY <2>1 DEF IInv, CountAccounting, Holding
  <2> QED BY <2>2, <2>3, <2>4, <2>5
<1>2. CASE Restart
  <2>1. \A i \in Ids : st'[i] \notin Undecided
    BY <1>2 DEF Restart, Undecided, Counted, IInv, TypeInv, TypeOK, Stages, Settled
  <2>2. Holding' = {} /\ Queued' = {} /\ Cardinality({}) = 0
    BY <2>1, FS_EmptySet DEF Holding, Queued, Undecided, Counted
  <2>3. QueueInv'
    BY <1>2, <2>2 DEF Restart, QueueInv
  <2>4. BatchInv'
    BY <1>2, <2>1 DEF Restart, BatchInv, Undecided
  <2>5. CountAccounting' /\ CloseInv'
    BY <1>2, <2>2 DEF Restart, CountAccounting, CloseInv
  <2> QED BY <2>3, <2>4, <2>5
<1> QED BY <1>1, <1>2

\* The inductive invariant holds of the repository that Open returns.
LEMMA InitIInv == Init => IInv
<1> SUFFICES ASSUME Init PROVE IInv
  OBVIOUS
<1>1. TypeInv
  BY InitType DEF TypeInv, BatchShape, BatchPcs, Init
<1>2. Holding = {} /\ Queued = {} /\ Cardinality({}) = 0
  BY FS_EmptySet DEF Init, Holding, Queued, Counted
<1>3. QueueInv /\ BatchInv /\ CountAccounting /\ CloseInv
  BY <1>2 DEF Init, QueueInv, BatchInv, CountAccounting, CloseInv
<1> QED BY <1>1, <1>3 DEF IInv

\* Every step preserves the inductive invariant.
LEMMA IInvStep == IInv /\ [Next]_vars => IInv'
<1> SUFFICES ASSUME IInv, [Next]_vars PROVE IInv'
  OBVIOUS
<1>0. TypeInv'
  BY TypeStep DEF IInv
<1>1. ASSUME NEW i \in Ids, Traffic(i) PROVE IInv'
  BY <1>0, <1>1, CountTraffic DEF IInv
<1>2. CASE Writer
  BY <1>0, <1>2, CountWriter DEF IInv
<1>3. ASSUME NEW c \in Callers, Request(c) \/ Proceed(c) \/ GiveUp(c) \/ TakeControl(c)
      PROVE  IInv'
  BY <1>0, <1>3, CountControl DEF IInv
<1>4. CASE Close \/ Restart
  BY <1>0, <1>4, CountCloseRestart DEF IInv
<1>5. CASE UNCHANGED vars
  <2>1. UNCHANGED <<st, accepting, reservedCount, writes, wpc, batch, closer>>
    BY <1>5 DEF vars, resources, writerVars
  <2>2. QueueInv'
    BY <2>1 DEF IInv, QueueInv, Queued
  <2>3. BatchInv' /\ CloseInv'
    BY <2>1 DEF IInv, BatchInv, CloseInv
  <2>4. CountAccounting'
    BY <2>1 DEF IInv, CountAccounting, Holding
  <2> QED BY <1>0, <2>2, <2>3, <2>4 DEF IInv
<1> QED BY <1>1, <1>2, <1>3, <1>4, <1>5 DEF Next

\* The inductive invariant holds in every reachable state.
LEMMA IInvariant == Spec => []IInv
  BY InitIInv, IInvStep, PTL DEF Spec

\* reservedCount always is the number of exchanges between Reserve and release.
THEOREM CountsReservations == Spec => []CountAccounting
  BY IInvariant, PTL DEF IInv

\* Commit never meets a full channel: its ErrQueueFull branch is dead code.
THEOREM CommitAlwaysFindsRoom == Spec => []CommitFindsRoom
<1>1. IInv => CommitFindsRoom
  BY HeldFindsRoom DEF CommitFindsRoom
<1> QED BY <1>1, IInvariant, PTL

\* Close strands no admitted exchange.
THEOREM CloseStrandsNothing == Spec => []CloseSettlesAll
<1>1. ASSUME IInv PROVE CloseSettlesAll
  <2>1. IsFiniteSet(Holding)
    BY IdsFinite, FS_Subset DEF Holding
  <2>2. closer \in {"stopping", "closed"} => Holding = {}
    BY <1>1, <2>1, FS_EmptySet DEF IInv, CloseInv, CountAccounting
  <2>3. closer = "closed" => wpc = "stopped"
    BY <1>1 DEF IInv, CloseInv
  <2>4. closer = "closed" => \A i \in Ids : st[i] \notin Undecided
    BY <1>1, <2>2, <2>3 DEF IInv, BatchInv, Holding, Undecided
  <2> QED BY <2>2, <2>3, <2>4 DEF CloseSettlesAll
<1> QED BY <1>1, IInvariant, PTL

-----------------------------------------------------------------------------
(* The bytes.  Their accounting is a sum over the exchanges that hold a    *)
(* reservation: the fold that computes it does not depend on the order in  *)
(* which it takes them, so one more exchange adds its own bytes, no more.  *)

\* What holds of a subset when it holds of all that lack one element holds of all.
LEMMA SetInduction ==
    ASSUME NEW T, IsFiniteSet(T), NEW Good,
           \A s \in SUBSET T : (\A x \in s : s \ {x} \in Good) => s \in Good
    PROVE  SUBSET T \subseteq Good
<1> DEFINE Bad == (SUBSET T) \ Good
<1> SUFFICES ASSUME Bad # {} PROVE FALSE
  OBVIOUS
<1>1. IsWellFoundedOn(StrictSubsetOrdering(T), SUBSET T)
  <2>1. FiniteSubsetsOf(T) = SUBSET T
    BY FS_FiniteSubsetsOfFinite
  <2>2. IsWellFoundedOn(StrictSubsetOrdering(T), FiniteSubsetsOf(T))
    BY FS_StrictSubsetOrderingWellFounded
  <2> QED BY <2>1, <2>2
<1>2. Bad \subseteq SUBSET T
  OBVIOUS
<1>3. PICK s \in Bad : \A r \in Bad : <<r, s>> \notin StrictSubsetOrdering(T)
  BY <1>1, <1>2, WFMin
<1>4. ASSUME NEW x \in s PROVE s \ {x} \in Good
  <2>1. s \ {x} \in SUBSET T /\ s \ {x} # s
    OBVIOUS
  <2>2. <<s \ {x}, s>> \in StrictSubsetOrdering(T)
    BY <2>1 DEF StrictSubsetOrdering
  <2> QED BY <1>3, <2>1, <2>2
<1> QED BY <1>4

\* A function that gives each subset the bytes of its elements, in whatever order.
IsTotal(g, T) ==
    /\ g \in [SUBSET T -> Nat]
    /\ g[{}] = 0
    /\ \A s \in SUBSET T : \A x \in s : g[s] = Bytes[x] + g[s \ {x}]

LEMMA TotalExists == \E g : IsTotal(g, Ids)
<1> DEFINE Good == {s \in SUBSET Ids : \E g : IsTotal(g, s)}
<1>1. ASSUME NEW s \in SUBSET Ids, \A x \in s : s \ {x} \in Good PROVE s \in Good
  <2>1. CASE s = {}
    <3> DEFINE g == [r \in SUBSET s |-> 0]
    <3>1. IsTotal(g, s)
      BY <2>1 DEF IsTotal
    <3> QED BY <3>1
  <2>2. CASE s # {}
    <3>1. PICK x \in s : TRUE
      BY <2>2
    <3>2. PICK f : IsTotal(f, s \ {x})
      BY <1>1
    <3> DEFINE g == [r \in SUBSET s |-> f[r \ {x}] + (IF x \in r THEN Bytes[x] ELSE 0)]
    <3>3. \A y \in s : Bytes[y] \in Nat
      BY DataAssumption
    <3>4. \A r \in SUBSET s : r \ {x} \in SUBSET (s \ {x}) /\ f[r \ {x}] \in Nat
      BY <3>2 DEF IsTotal
    <3>5. g \in [SUBSET s -> Nat] /\ g[{}] = 0
      BY <3>2, <3>3, <3>4 DEF IsTotal
    <3>6. \A r \in SUBSET s : g[r] = f[r \ {x}] + (IF x \in r THEN Bytes[x] ELSE 0)
      OBVIOUS
    <3> HIDE DEF g
    <3>7. ASSUME NEW r \in SUBSET s, NEW y \in r PROVE g[r] = Bytes[y] + g[r \ {y}]
      <4>1. r \ {y} \in SUBSET s /\ y \in s
        OBVIOUS
      <4>2. CASE y = x
        <5>1. (r \ {y}) \ {x} = r \ {x} /\ x \notin r \ {y}
          BY <4>2
        <5>2. g[r] = f[r \ {x}] + Bytes[y]
          BY <3>6, <4>2
        <5>3. g[r \ {y}] = f[r \ {x}] + 0
          BY <3>6, <4>1, <5>1
        <5>4. f[r \ {x}] \in Nat /\ Bytes[y] \in Nat
          BY <3>3, <3>4, <4>1
        <5> QED BY <5>2, <5>3, <5>4
      <4>3. CASE y # x
        <5>1. (r \ {y}) \ {x} = (r \ {x}) \ {y} /\ y \in r \ {x} /\ (x \in r \ {y} <=> x \in r)
          BY <4>3
        <5>2. f[r \ {x}] = Bytes[y] + f[(r \ {x}) \ {y}]
          BY <3>2, <3>4, <5>1 DEF IsTotal
        <5>3. f[(r \ {x}) \ {y}] \in Nat
          BY <3>4, <4>1, <5>1
        <5>4. g[r \ {y}] = f[(r \ {x}) \ {y}] + (IF x \in r THEN Bytes[x] ELSE 0)
          BY <3>6, <4>1, <5>1
        <5>5. g[r] = Bytes[y] + f[(r \ {x}) \ {y}] + (IF x \in r THEN Bytes[x] ELSE 0)
          BY <3>6, <5>2
        <5>6. (IF x \in r THEN Bytes[x] ELSE 0) \in Nat /\ Bytes[y] \in Nat
          BY <3>3, <4>1
        <5> QED BY <5>3, <5>4, <5>5, <5>6
      <4> QED BY <4>2, <4>3
    <3>8. IsTotal(g, s)
      BY <3>5, <3>7 DEF IsTotal
    <3> QED BY <3>8
  <2> QED BY <2>1, <2>2
<1> HIDE DEF Good
<1>2. SUBSET Ids \subseteq Good
  BY <1>1, IdsFinite, SetInduction
<1> QED BY <1>2 DEF Good

\* The bytes of a set of exchanges.
Weight(S) == MapThenSumSet(LAMBDA i : Bytes[i], S)

\* The fold computes that total: it is one order among all.
LEMMA WeightIsTotal ==
    ASSUME NEW g, IsTotal(g, Ids), NEW S \in SUBSET Ids
    PROVE  Weight(S) = g[S]
<1> DEFINE first(s) == CHOOSE x \in s : TRUE
<1> DEFINE Body(f) == [s \in SUBSET S |-> IF s = {} THEN 0 ELSE Bytes[first(s)] + f[s \ {first(s)}]]
<1> DEFINE h == [s \in SUBSET S |-> g[s]]
<1> DEFINE iter == CHOOSE f : f = Body(f)
<1>1. Weight(S) = iter[S]
  BY DEF Weight, MapThenSumSet, MapThenFoldSet
<1>2. \A s \in SUBSET S : s # {} => first(s) \in s
  OBVIOUS
<1>3. \A s \in SUBSET S : s \in SUBSET Ids
  OBVIOUS
<1>4. ASSUME NEW s \in SUBSET S
      PROVE  h[s] = IF s = {} THEN 0 ELSE Bytes[first(s)] + h[s \ {first(s)}]
  <2>1. CASE s = {}
    BY <2>1 DEF IsTotal
  <2>2. CASE s # {}
    <3>1. first(s) \in s
      BY <1>2, <2>2
    <3>2. s \ {first(s)} \in SUBSET S
      OBVIOUS
    <3> HIDE DEF first
    <3>3. g[s] = Bytes[first(s)] + g[s \ {first(s)}]
      BY <1>3, <3>1 DEF IsTotal
    <3> QED BY <2>2, <3>2, <3>3
  <2> QED BY <2>1, <2>2
<1> HIDE DEF first
<1>5. h = Body(h)
  BY <1>4
<1>6. iter = Body(iter)
  <2>1. \E f : f = Body(f)
    BY <1>5
  <2> HIDE DEF Body
  <2> QED BY <2>1
<1> HIDE DEF iter
<1> DEFINE Good == {s \in SUBSET S : iter[s] = h[s]}
<1>7. ASSUME NEW s \in SUBSET S, \A x \in s : s \ {x} \in Good PROVE s \in Good
  <2>1. CASE s = {}
    BY <1>4, <1>6, <2>1
  <2>2. CASE s # {}
    <3>1. s \ {first(s)} \in Good
      BY <1>2, <1>7, <2>2
    <3> QED BY <1>4, <1>6, <2>2, <3>1
  <2> QED BY <2>1, <2>2
<1> HIDE DEF Good
<1>8. SUBSET S \subseteq Good
  <2>1. IsFiniteSet(S)
    BY IdsFinite, FS_Subset
  <2> QED BY <1>7, <2>1, SetInduction
<1>9. S \in Good
  BY <1>8
<1> QED BY <1>1, <1>9 DEF Good

\* One exchange more, or one less, counts its own bytes.
LEMMA Weighing ==
    ASSUME NEW S \in SUBSET Ids
    PROVE  /\ Weight(S) \in Nat /\ Weight({}) = 0
           /\ \A i \in Ids \ S : Weight(S \cup {i}) = Weight(S) + Bytes[i]
           /\ \A i \in S : Weight(S) = Bytes[i] + Weight(S \ {i}) /\ Weight(S \ {i}) \in Nat
<1>1. PICK g : IsTotal(g, Ids)
  BY TotalExists
<1>2. \A s \in SUBSET Ids : Weight(s) = g[s] /\ g[s] \in Nat
  BY <1>1, WeightIsTotal DEF IsTotal
<1>3. {} \in SUBSET Ids /\ g[{}] = 0
  BY <1>1 DEF IsTotal
<1>4. ASSUME NEW i \in Ids \ S PROVE Weight(S \cup {i}) = Weight(S) + Bytes[i]
  <2>1. S \cup {i} \in SUBSET Ids /\ (S \cup {i}) \ {i} = S
    OBVIOUS
  <2>2. g[S \cup {i}] = Bytes[i] + g[S]
    BY <1>1, <2>1 DEF IsTotal
  <2>3. Bytes[i] \in Nat
    BY DataAssumption
  <2> QED BY <1>2, <2>1, <2>2, <2>3
<1>5. ASSUME NEW i \in S PROVE Weight(S) = Bytes[i] + Weight(S \ {i}) /\ Weight(S \ {i}) \in Nat
  <2>1. S \ {i} \in SUBSET Ids
    OBVIOUS
  <2> QED BY <1>1, <1>2, <2>1 DEF IsTotal
<1> QED BY <1>2, <1>3, <1>4, <1>5

\* reservedBytes weighs what the reservations hold.
BInv == reservedBytes = Weight(Holding)

\* Releasing an exchange that counts takes exactly its bytes off the counter.
LEMMA ReleaseWeighs ==
    ASSUME TypeInv, BInv, NEW i \in Holding, Release(i), Holding' = Holding \ {i}
    PROVE  BInv'
<1>1. Holding \in SUBSET Ids /\ i \in Ids
  BY DEF Holding
<1>2. /\ Weight(Holding) = Bytes[i] + Weight(Holding \ {i})
      /\ Weight(Holding \ {i}) \in Nat
  BY <1>1, Weighing
<1>3. Bytes[i] \in Nat
  BY <1>1, DataAssumption
<1>4. reservedBytes' = Weight(Holding \ {i})
  BY <1>2, <1>3 DEF BInv, Release, Less
<1> QED BY <1>4 DEF BInv

\* Reserve adds the bytes, Commit keeps them, Cancel gives them back.
LEMMA WeighTraffic ==
    ASSUME IInv, BInv, NEW i \in Ids, Traffic(i)
    PROVE  BInv'
<1> USE DEF IInv, TypeInv, TypeOK
<1>0. Holding \in SUBSET Ids
  BY DEF Holding
<1>1. CASE Reserve(i)
  <2>1. Holding' = Holding \cup {i} /\ i \in Ids \ Holding
    BY <1>1 DEF Reserve, Holding, Counted
  <2>2. Weight(Holding \cup {i}) = Weight(Holding) + Bytes[i]
    BY <1>0, <2>1, Weighing
  <2>3. reservedBytes' = reservedBytes + Bytes[i]
    BY <1>1 DEF Reserve
  <2> QED BY <2>1, <2>2, <2>3 DEF BInv
<1>2. CASE Commit(i)
  <2>1. st[i] = "held" /\ Len(writes) < QueueCount
    BY <1>2, HeldFindsRoom DEF Commit
  <2>2. st' = [st EXCEPT ![i] = "queued"] /\ UNCHANGED reservedBytes
    BY <1>2, <2>1 DEF Commit, resources
  <2>3. Holding' = Holding
    BY <2>1, <2>2 DEF Holding, Counted
  <2> QED BY <2>2, <2>3 DEF BInv
<1>3. CASE Cancel(i)
  <2>1. Holding' = Holding \ {i} /\ i \in Holding
    BY <1>3 DEF Cancel, Holding, Counted
  <2>2. Release(i)
    BY <1>3 DEF Cancel
  <2> QED BY <2>1, <2>2, ReleaseWeighs
<1> QED BY <1>1, <1>2, <1>3 DEF Traffic

\* The writer gives the bytes of an exchange back once, before OnWrite runs.
LEMMA WeighWriter ==
    ASSUME IInv, BInv, Writer
    PROVE  BInv'
<1> USE DEF IInv, TypeInv, TypeOK
<1>1. ASSUME TakeItem PROVE BInv'
  <2>1. PICK i \in Ids : i = Head(writes) /\ i = writes[1] /\ Len(writes) \in Nat \ {0}
    BY <1>1, HeadTail DEF TakeItem
  <2>2. st[i] = "queued"
    BY <2>1 DEF QueueInv
  <2>3. st' = [st EXCEPT ![i] = "batched"] /\ UNCHANGED reservedBytes
    BY <1>1, <2>1 DEF TakeItem, resources
  <2>4. Holding' = Holding
    BY <2>2, <2>3 DEF Holding, Counted
  <2> QED BY <2>3, <2>4 DEF BInv
<1>2. ASSUME wpc \in {"release", "notify"}
      PROVE  \E i \in Ids : i = Head(batch) /\ i = batch[1] /\ Len(batch) \in Nat \ {0}
  BY <1>2, HeadTail DEF BatchShape, BatchPcs
<1>3. CASE ReleaseItem
  <2>1. PICK i \in Ids : i = Head(batch) /\ i = batch[1] /\ Len(batch) \in Nat \ {0}
    BY <1>2, <1>3 DEF ReleaseItem
  <2>2. st[i] = "batched"
    BY <1>3, <2>1 DEF BatchInv, ReleaseItem
  <2>3. st' = [st EXCEPT ![i] = "notifying"] /\ Release(i)
    BY <1>3, <2>1 DEF ReleaseItem
  <2>4. Holding' = Holding \ {i} /\ i \in Holding
    BY <2>2, <2>3 DEF Holding, Counted
  <2> QED BY <2>3, <2>4, ReleaseWeighs
<1>4. CASE NotifyItem
  <2>1. PICK i \in Ids : i = Head(batch) /\ i = batch[1] /\ Len(batch) \in Nat \ {0}
    BY <1>2, <1>4 DEF NotifyItem
  <2>2. st[i] = "notifying"
    BY <1>4, <2>1 DEF BatchInv, NotifyItem
  <2>3. st' = [st EXCEPT ![i] = Outcome] /\ Outcome \in {"persisted", "failed"}
    BY <1>4, <2>1 DEF NotifyItem, Outcome
  <2>4. Holding' = Holding
    BY <2>2, <2>3 DEF Holding, Counted
  <2> QED BY <1>4, <2>4 DEF BInv, NotifyItem, resources
<1>5. ASSUME UNCHANGED <<st, reservedBytes>> PROVE BInv'
  BY <1>5 DEF BInv, Holding
<1>6. CASE CollectEnd \/ WriteBatch \/ ControlSucceeds \/ ControlFails \/ Stop
  BY <1>5, <1>6 DEF CollectEnd, WriteBatch, ControlSucceeds, ControlFails, Stop, resources
<1> QED BY <1>1, <1>3, <1>4, <1>6 DEF Writer, TakeFirst, CollectMore

\* Every step keeps the bytes with the reservations.
LEMMA WeighStep == IInv /\ BInv /\ [Next]_vars => BInv'
<1> SUFFICES ASSUME IInv, BInv, [Next]_vars PROVE BInv'
  OBVIOUS
<1>1. ASSUME NEW i \in Ids, Traffic(i) PROVE BInv'
  BY <1>1, WeighTraffic
<1>2. CASE Writer
  BY <1>2, WeighWriter
<1>3. ASSUME UNCHANGED <<st, reservedBytes>> PROVE BInv'
  BY <1>3 DEF BInv, Holding
<1>4. ASSUME NEW c \in Callers, Request(c) \/ Proceed(c) \/ GiveUp(c) \/ TakeControl(c)
      PROVE  BInv'
  <2>1. UNCHANGED <<st, reservedBytes>>
    BY <1>4 DEF Request, Delete, Clear, Cleanup, Compact, Vacuum, Begin, Proceed, Drained,
           ControlClosed, CleanupAgain, OnCleanup, EndMaintenance, GiveUp, TakeControl,
           resources
  <2> QED BY <1>3, <2>1
<1>5. CASE Close
  BY <1>3, <1>5 DEF Close, CloseBegin, CloseStop, CloseDone, resources
<1>6. CASE Restart
  <2>1. \A i \in Ids : st'[i] \notin Undecided
    BY <1>6 DEF Restart, Undecided, Counted, IInv, TypeInv, TypeOK, Stages, Settled
  <2>2. Holding' = {}
    BY <2>1 DEF Holding, Undecided
  <2>3. Weight({}) = 0
    BY Weighing
  <2> QED BY <1>6, <2>2, <2>3 DEF BInv, Restart
<1>7. CASE UNCHANGED vars
  BY <1>3, <1>7 DEF vars, resources
<1> QED BY <1>1, <1>2, <1>4, <1>5, <1>6, <1>7 DEF Next

\* reservedBytes always is the sum of the bytes of the exchanges between Reserve
\* and release: no path releases twice, forgets, or meets the clamp at zero.
THEOREM BytesReserved == Spec => []BytesAccounting
<1>1. ASSUME Init PROVE BInv
  <2>1. Holding = {}
    BY <1>1 DEF Init, Holding, Counted
  <2>2. Weight({}) = 0
    BY Weighing
  <2> QED BY <1>1, <2>1, <2>2 DEF BInv, Init
<1>2. BInv => BytesAccounting
  BY DEF BInv, BytesAccounting, Weight
<1> QED BY <1>1, <1>2, IInvariant, WeighStep, PTL DEF Spec

-----------------------------------------------------------------------------
(* The maintenance section: one operation at a time, and VACUUM only       *)
(* without reservations.                                                   *)

\* Only vacuum drains, only cleanup asks again, and the deferred endMaintenance
\* belongs to an operation that began maintenance.
InPlace(where) ==
    /\ where.pc \in {"drain", "end"} => where.op \in Exclusive
    /\ where.pc = "again" => where.op = "cleanup"

EndsSection == \A c \in Callers : InPlace(call[c])

\* Whoever the writer will answer is waiting for that very request.
AwaitsControl ==
    control.caller # NoCaller =>
        /\ control.caller \in Callers
        /\ call[control.caller].pc = "await"
        /\ call[control.caller].op = control.op
        /\ call[control.caller].targets = control.targets

\* A vacuum that has drained the reservations sees no new one.
VacuumDrained ==
    \A c \in Callers : call[c].op = "vacuum" /\ call[c].pc \in {"send", "await"}
                           => Holding = {}

MInv == MaintenanceExclusive /\ EndsSection /\ AwaitsControl /\ VacuumDrained

\* Steps of traffic, batches and Close neither enter nor leave the section.
LEMMA Outside ==
    ASSUME MInv, UNCHANGED <<call, maintenance, control>>, Holding' \subseteq Holding
    PROVE  MInv'
  BY DEF MInv, MaintenanceExclusive, InSection, EndsSection, InPlace, AwaitsControl, VacuumDrained

\* A caller takes a step inside its section, or out of an operation without one.
LEMMA Inside ==
    ASSUME TypeOK, MInv, NEW c \in Callers, NEW next \in Calls,
           call' = [call EXCEPT ![c] = next],
           UNCHANGED maintenance, Holding' = Holding,
           call[c].pc # "idle",
           call[c].op \in Exclusive => next.op = call[c].op /\ next.pc # "idle",
           call[c].op \notin Exclusive => next.pc = "idle" \/ next.op = call[c].op,
           InPlace(next),
           next.op = "vacuum" /\ next.pc \in {"send", "await"} => Holding = {},
           AwaitsControl'
    PROVE  MInv'
<1>1. /\ call'[c] = next
      /\ \A d \in Callers : d # c => call'[d] = call[d]
  BY DEF TypeOK
<1>2. \A d \in Callers : InSection(d)' <=> InSection(d)
  <2>1. InSection(c)' <=> InSection(c)
    BY <1>1 DEF InSection
  <2> QED BY <1>1, <2>1 DEF InSection
<1>3. \A d \in Callers : InSection(d) => call'[d].op = call[d].op
  BY <1>1 DEF InSection
<1>4. MaintenanceExclusive'
  BY <1>2, <1>3 DEF MInv, MaintenanceExclusive
<1>5. EndsSection'
  BY <1>1 DEF MInv, EndsSection, InPlace
<1>6. VacuumDrained'
  BY <1>1 DEF MInv, VacuumDrained
<1> QED BY <1>4, <1>5, <1>6 DEF MInv

\* Leave stays inside a maintenance section and ends every other operation.
LEMMA LeaveStays ==
    ASSUME TypeOK, NEW c \in Callers
    PROVE  /\ Leave(c) \in Calls
           /\ call[c].op \in Exclusive => Leave(c).op = call[c].op /\ Leave(c).pc = "end"
           /\ call[c].op \notin Exclusive => Leave(c).pc = "idle"
           /\ Leave(c).pc \in {"end", "idle"}
           /\ InPlace(Leave(c))
  BY LeaveType DEF Leave, NoCall, InPlace

\* Reserve finds the flag set while a vacuum is under way; Commit and Cancel
\* add no holder.
LEMMA SectionTraffic ==
    ASSUME IInv, MInv, NEW i \in Ids, Traffic(i)
    PROVE  MInv'
<1>1. UNCHANGED <<call, maintenance, control>>
  BY DEF Traffic, Reserve, Commit, Cancel, writerVars
<1>2. CASE Reserve(i)
  <2>1. \A c \in Callers : ~(call[c].op = "vacuum" /\ call[c].pc \in {"send", "await"})
    BY <1>2 DEF Reserve, Admits, MInv, MaintenanceExclusive, InSection, Exclusive
  <2> QED BY <1>1, <2>1 DEF MInv, MaintenanceExclusive, InSection, EndsSection, InPlace, AwaitsControl,
                            VacuumDrained
<1>3. CASE Commit(i) \/ Cancel(i)
  <2>1. Holding' \subseteq Holding
    BY <1>3 DEF Commit, Cancel, Holding, Counted, IInv, TypeInv, TypeOK
  <2> QED BY <1>1, <2>1, Outside
<1> QED BY <1>2, <1>3 DEF Traffic

\* A result the writer hands over keeps the caller in its section.
LEMMA Delivered ==
    ASSUME TypeOK, MInv, NEW next \in Calls,
           Deliver(next), control' = NoRequest, UNCHANGED <<maintenance, st>>,
           control.caller # NoCaller =>
               /\ call[control.caller].op \in Exclusive =>
                     next.op = call[control.caller].op /\ next.pc # "idle"
               /\ call[control.caller].op \notin Exclusive => next.pc = "idle"
               /\ InPlace(next)
               /\ next.pc \notin {"send", "await"}
    PROVE  MInv'
<1>1. AwaitsControl'
  BY DEF AwaitsControl, NoRequest
<1>2. Holding' = Holding
  BY DEF Holding
<1>3. CASE control.caller = NoCaller
  BY <1>1, <1>2, <1>3 DEF Deliver, MInv, MaintenanceExclusive, InSection, EndsSection,
                          VacuumDrained
<1>4. CASE control.caller # NoCaller
  <2>1. control.caller \in Callers /\ call[control.caller].pc = "await"
    BY <1>4 DEF MInv, AwaitsControl
  <2>2. call' = [call EXCEPT ![control.caller] = next]
    BY <1>4 DEF Deliver
  <2> QED BY <1>1, <1>2, <1>4, <2>1, <2>2, Inside
<1> QED BY <1>3, <1>4

\* The writer settles a batch outside every section, and answers a control
\* request inside the section of its caller.
LEMMA SectionWriter ==
    ASSUME IInv, MInv, Writer
    PROVE  MInv'
<1>0. TypeOK
  BY DEF IInv, TypeInv
<1>1. CASE TakeFirst \/ CollectMore \/ CollectEnd \/ WriteBatch \/ ReleaseItem \/ NotifyItem \/ Stop
  <2>1. UNCHANGED <<call, maintenance, control>>
    BY <1>1 DEF TakeFirst, CollectMore, CollectEnd, WriteBatch, ReleaseItem, NotifyItem, Stop,
                TakeItem, resources
  <2>2. CASE TakeFirst \/ CollectMore
    <3>1. Head(writes) \in Holding
      <4>1. writes # <<>> /\ writes \in Seq(Ids)
        BY <1>0, <2>2 DEF TakeFirst, CollectMore, TakeItem, TypeOK
      <4>2. Head(writes) = writes[1] /\ 1 \in 1..Len(writes) /\ Head(writes) \in Ids
        BY <4>1, HeadTail
      <4> QED BY <4>2 DEF IInv, QueueInv, Holding, Counted
    <3> QED BY <1>0, <2>1, <2>2, <3>1, Outside
            DEF TakeFirst, CollectMore, TakeItem, Holding, Counted, TypeOK
  <2>3. CASE CollectEnd \/ WriteBatch \/ ReleaseItem \/ NotifyItem \/ Stop
    <3>1. Holding' \subseteq Holding
      <4>1. CASE CollectEnd \/ WriteBatch \/ Stop
        BY <4>1 DEF CollectEnd, WriteBatch, Stop, Holding
      <4>2. CASE ReleaseItem
        BY <1>0, <4>2 DEF ReleaseItem, Holding, Counted, TypeOK
      <4>3. CASE NotifyItem
        BY <1>0, <4>3 DEF NotifyItem, Outcome, Holding, Counted, TypeOK
      <4> QED BY <2>3, <4>1, <4>2, <4>3
    <3> QED BY <2>1, <3>1, Outside
  <2> QED BY <1>1, <2>2, <2>3
<1>2. CASE ControlSucceeds
  <2>1. PICK deleted \in Deletions(control) :
            Deliver(AfterSuccess(control.caller, deleted))
    BY <1>2 DEF ControlSucceeds
  <2>2. control' = NoRequest /\ UNCHANGED <<maintenance, st>>
    BY <1>2 DEF ControlSucceeds
  <2>3. CASE control.caller # NoCaller
    <3> DEFINE caller == control.caller
               next == AfterSuccess(caller, deleted)
    <3>1. caller \in Callers /\ call[caller].pc = "await" /\ call[caller] \in Calls
      BY <1>0, <2>3 DEF MInv, AwaitsControl, TypeOK
    <3>2. CASE call[caller].op = "cleanup"
      <4>1. next \in Calls /\ next.op = "cleanup" /\ next.pc \in {"cleaned", "again"}
        BY <3>1, <3>2 DEF AfterSuccess, Calls, CallPcs
      <4> QED BY <1>0, <2>1, <2>2, <3>1, <3>2, <4>1, Delivered DEF Exclusive, InPlace
    <3>3. CASE call[caller].op # "cleanup"
      <4>1. next = Leave(caller)
        BY <3>3 DEF AfterSuccess
      <4> QED BY <1>0, <2>1, <2>2, <3>1, <4>1, LeaveStays, Delivered
    <3> QED BY <3>2, <3>3
  <2>4. CASE control.caller = NoCaller
    <3>1. Deliver(NoCall) /\ NoCall \in Calls
      BY <2>1, <2>4 DEF Deliver, NoCall, Calls, CallPcs, ControlOps, Exclusive
    <3> QED BY <1>0, <2>2, <2>4, <3>1, Delivered
  <2> QED BY <2>3, <2>4
<1>3. CASE ControlFails
  <2>1. control' = NoRequest /\ UNCHANGED <<maintenance, st>> /\ Deliver(Leave(control.caller))
    BY <1>3 DEF ControlFails
  <2>2. CASE control.caller # NoCaller
    <3>1. control.caller \in Callers
      BY <2>2 DEF MInv, AwaitsControl
    <3> QED BY <1>0, <2>1, <2>2, <3>1, LeaveStays, Delivered
  <2>3. CASE control.caller = NoCaller
    <3>1. Deliver(NoCall) /\ NoCall \in Calls
      BY <2>1, <2>3 DEF Deliver, NoCall, Calls, CallPcs, ControlOps, Exclusive
    <3> QED BY <1>0, <2>1, <2>3, <3>1, Delivered
  <2> QED BY <2>2, <2>3
<1> QED BY <1>1, <1>2, <1>3 DEF Writer

\* Delete and Clear run outside every section; the other three begin one, and
\* only when there is none.
LEMMA SectionRequest ==
    ASSUME IInv, MInv, NEW c \in Callers, Request(c)
    PROVE  MInv'
<1>0. TypeOK
  BY DEF IInv, TypeInv
<1>1. /\ call[c].pc = "idle"
      /\ ~InSection(c)
      /\ UNCHANGED <<st, control>>
      /\ control.caller # c
  <2>1. call[c].pc = "idle" /\ UNCHANGED <<st, control>>
    BY DEF Request, Delete, Clear, Cleanup, Compact, Vacuum, Begin, writerVars
  <2> QED BY <2>1, CallerAssumption DEF InSection, MInv, AwaitsControl
<1>2. /\ Holding' = Holding
      /\ \A d \in Callers : d # c => call'[d] = call[d]
  BY <1>0, <1>1 DEF Request, Delete, Clear, Cleanup, Compact, Vacuum, Begin, Holding, TypeOK
<1>3. AwaitsControl'
  BY <1>1, <1>2 DEF MInv, AwaitsControl
<1>4. CASE (\E i \in Ids : Delete(c, i)) \/ Clear(c)
  <2>1. call'[c].pc = "send" /\ call'[c].op \in {"delete", "clear"} /\ UNCHANGED maintenance
    BY <1>0, <1>4 DEF Delete, Clear, Begin, TypeOK
  <2>2. \A d \in Callers : InSection(d)' <=> InSection(d)
    BY <1>1, <1>2, <2>1 DEF InSection, Exclusive
  <2>3. MaintenanceExclusive'
    BY <1>1, <1>2, <2>1, <2>2 DEF MInv, MaintenanceExclusive
  <2>4. EndsSection' /\ VacuumDrained'
    BY <1>2, <2>1 DEF MInv, EndsSection, InPlace, VacuumDrained
  <2> QED BY <1>3, <2>3, <2>4 DEF MInv
<1>5. CASE (\E cutoff \in Cutoffs : Cleanup(c, cutoff)) \/ Compact(c) \/ Vacuum(c)
  <2>1. /\ call'[c].pc \in {"send", "drain"} /\ call'[c].op \in Exclusive
        /\ call'[c].op = "vacuum" => call'[c].pc = "drain"
        /\ maintenance = "none" /\ maintenance' = call'[c].op
    BY <1>0, <1>5 DEF Cleanup, Compact, Vacuum, Begin, BeginMaintenance, TypeOK, Exclusive
  <2>2. \A d \in Callers : ~InSection(d)
    BY <2>1 DEF MInv, MaintenanceExclusive, InSection, Exclusive
  <2>3. \A d \in Callers : InSection(d)' <=> d = c
    BY <1>2, <2>1, <2>2 DEF InSection
  <2>4. MaintenanceExclusive'
    BY <2>1, <2>3 DEF MaintenanceExclusive
  <2>5. EndsSection' /\ VacuumDrained'
    BY <1>2, <2>1 DEF MInv, EndsSection, InPlace, VacuumDrained
  <2> QED BY <1>3, <2>4, <2>5 DEF MInv
<1> QED BY <1>4, <1>5 DEF Request

\* Only endMaintenance ends a section, and it is the section's own.
LEMMA SectionEnd ==
    ASSUME IInv, MInv, NEW c \in Callers, EndMaintenance(c)
    PROVE  MInv'
<1>1. /\ InSection(c) /\ call'[c] = NoCall
      /\ \A d \in Callers : d # c => call'[d] = call[d]
      /\ UNCHANGED <<st, control>> /\ maintenance' = "none"
  BY DEF EndMaintenance, InSection, MInv, EndsSection, InPlace, IInv, TypeInv, TypeOK, writerVars
<1>2. \A d \in Callers : ~InSection(d)'
  BY <1>1 DEF MInv, MaintenanceExclusive, InSection, NoCall
<1>3. MaintenanceExclusive'
  BY <1>1, <1>2 DEF MaintenanceExclusive
<1>4. AwaitsControl'
  BY <1>1 DEF MInv, AwaitsControl, EndMaintenance
<1>5. EndsSection' /\ VacuumDrained'
  BY <1>1 DEF MInv, EndsSection, InPlace, VacuumDrained, NoCall, Holding
<1> QED BY <1>3, <1>4, <1>5 DEF MInv

\* The remaining steps of a caller: it goes on inside its section, or leaves the
\* operation; a vacuum goes on only when the counter, and so the set of holders,
\* is empty.
LEMMA SectionProceed ==
    ASSUME IInv, MInv, NEW c \in Callers,
           Drained(c) \/ ControlClosed(c) \/ CleanupAgain(c) \/ OnCleanup(c) \/ GiveUp(c)
             \/ TakeControl(c)
    PROVE  MInv'
<1>0. TypeOK /\ call[c] \in Calls
  BY DEF IInv, TypeInv, TypeOK
<1>1. UNCHANGED maintenance /\ Holding' = Holding
  BY DEF Drained, ControlClosed, CleanupAgain, OnCleanup, GiveUp, TakeControl, Holding
<1>2. ASSUME NEW next \in Calls, call' = [call EXCEPT ![c] = next], call[c].pc # "await",
             UNCHANGED control
      PROVE  AwaitsControl'
  BY <1>0, <1>2 DEF MInv, AwaitsControl, TypeOK
<1>3. CASE Drained(c)
  <2>1. Holding = {}
    <3>1. Cardinality(Holding) = 0 /\ IsFiniteSet(Holding)
      BY <1>3, IdsFinite, FS_Subset DEF Drained, IInv, CountAccounting, Holding
    <3> QED BY <3>1, FS_EmptySet
  <2>2. PICK to \in {"send", "end"} : call' = [call EXCEPT ![c].pc = to]
    BY <1>3 DEF Drained
  <2> DEFINE next == [call[c] EXCEPT !.pc = to]
  <2>3. next \in Calls /\ next.op = call[c].op /\ next.pc = to
    BY <1>0 DEF Calls, CallPcs
  <2>4. call' = [call EXCEPT ![c] = next] /\ call[c].pc = "drain" /\ UNCHANGED control
    BY <1>0, <1>3, <2>2 DEF Drained, writerVars, TypeOK
  <2>5. InPlace(next)
    BY <2>3, <2>4 DEF MInv, EndsSection, InPlace
  <2>6. AwaitsControl'
    BY <1>2, <2>3, <2>4
  <2> QED BY <1>0, <1>1, <2>1, <2>3, <2>4, <2>5, <2>6, Inside
<1>4. CASE ControlClosed(c) \/ OnCleanup(c)
  <2>1. /\ call' = [call EXCEPT ![c] = Leave(c)] /\ UNCHANGED control
        /\ call[c].pc \in {"send", "cleaned"}
    BY <1>4 DEF ControlClosed, OnCleanup, writerVars
  <2>2. AwaitsControl'
    BY <1>0, <1>2, <2>1, LeaveStays
  <2> QED BY <1>0, <1>1, <2>1, <2>2, LeaveStays, Inside
<1>5. CASE CleanupAgain(c)
  <2> DEFINE next == [call[c] EXCEPT !.pc = "send"]
  <2>1. next \in Calls /\ next.op = call[c].op /\ next.pc = "send"
    BY <1>0 DEF Calls, CallPcs
  <2>2. call' = [call EXCEPT ![c] = next] /\ call[c].pc = "again" /\ UNCHANGED control
    BY <1>0, <1>5 DEF CleanupAgain, writerVars, TypeOK
  <2>3. AwaitsControl'
    BY <1>2, <2>1, <2>2
  <2>4. call[c].op # "vacuum" /\ InPlace(next)
    BY <2>1, <2>2 DEF MInv, EndsSection, InPlace
  <2> QED BY <1>0, <1>1, <2>1, <2>2, <2>3, <2>4, Inside
<1>6. CASE GiveUp(c)
  <2>1. call' = [call EXCEPT ![c] = Leave(c)] /\ call[c].pc # "idle"
    BY <1>6 DEF GiveUp
  <2>2. AwaitsControl'
    <3>1. CASE control.caller = c
      BY <1>0, <1>6, <3>1 DEF GiveUp, AwaitsControl, TypeOK, Requests
    <3>2. CASE control.caller # c
      BY <1>0, <1>6, <2>1, <3>2 DEF GiveUp, MInv, AwaitsControl, TypeOK
    <3> QED BY <3>1, <3>2
  <2> QED BY <1>0, <1>1, <2>1, <2>2, LeaveStays, Inside
<1>7. CASE TakeControl(c)
  <2> DEFINE next == [call[c] EXCEPT !.pc = "await"]
  <2>1. next \in Calls /\ next.op = call[c].op /\ next.pc = "await"
    BY <1>0 DEF Calls, CallPcs
  <2>2. call' = [call EXCEPT ![c] = next] /\ call[c].pc = "send"
    BY <1>0, <1>7 DEF TakeControl, TypeOK
  <2>3. AwaitsControl'
    BY <1>0, <1>7 DEF TakeControl, AwaitsControl, TypeOK
  <2>4. (call[c].op = "vacuum" => Holding = {}) /\ InPlace(next)
    BY <2>1, <2>2 DEF MInv, VacuumDrained, InPlace
  <2> QED BY <1>0, <1>1, <2>1, <2>2, <2>3, <2>4, Inside
<1> QED BY <1>3, <1>4, <1>5, <1>6, <1>7

\* finishClose leaves the section alone; a new process starts outside it.
LEMMA SectionCloseRestart ==
    ASSUME IInv, MInv, Close \/ Restart
    PROVE  MInv'
<1>1. CASE Close
  BY <1>1, Outside DEF Close, CloseBegin, CloseStop, CloseDone, writerVars, resources, Holding
<1>2. CASE Restart
  <2>1. /\ call' = [c \in Callers |-> NoCall] /\ maintenance' = "none"
        /\ control' = NoRequest
    BY <1>2 DEF Restart
  <2> QED BY <2>1 DEF NoCall, NoRequest, MInv, MaintenanceExclusive, InSection, EndsSection,
                      InPlace, AwaitsControl, VacuumDrained
<1> QED BY <1>1, <1>2

\* Every step of the repository preserves the section's invariant.
LEMMA MInvStep == IInv /\ MInv /\ [Next]_vars => MInv'
<1> SUFFICES ASSUME IInv, MInv, [Next]_vars
             PROVE  MInv'
  OBVIOUS
<1>1. CASE \E i \in Ids : Traffic(i)
  BY <1>1, SectionTraffic
<1>2. CASE Writer
  BY <1>2, SectionWriter
<1>3. CASE \E c \in Callers : Request(c)
  BY <1>3, SectionRequest
<1>4. CASE \E c \in Callers : Proceed(c) \/ GiveUp(c) \/ TakeControl(c)
  BY <1>4, SectionProceed, SectionEnd DEF Proceed
<1>5. CASE Close \/ Restart
  BY <1>5, SectionCloseRestart
<1>6. CASE UNCHANGED vars
  BY <1>6, Outside DEF vars, writerVars, Holding
<1> QED BY <1>1, <1>2, <1>3, <1>4, <1>5, <1>6 DEF Next

\* The section's invariant holds in every reachable state.
LEMMA MInvariant == Spec => []MInv
<1>1. Init => MInv
  BY DEF Init, NoCall, NoRequest, MInv, MaintenanceExclusive, InSection, EndsSection,
         InPlace, AwaitsControl, VacuumDrained
<1> QED BY <1>1, MInvStep, IInvariant, PTL DEF Spec

\* At most one cleanup, compact or vacuum is between beginMaintenance and
\* endMaintenance, and the flag is its own, for any number of callers that may
\* give up at any moment.
THEOREM OneMaintenance == Spec => []MaintenanceExclusive
  BY MInvariant, PTL DEF MInv

\* While VACUUM runs for a caller that waits, no exchange holds a reservation.
THEOREM VacuumAlone == Spec => []VacuumExclusive
<1>1. MInv => VacuumExclusive
  BY DEF MInv, AwaitsControl, VacuumDrained, VacuumExclusive
<1> QED BY <1>1, MInvariant, PTL

-----------------------------------------------------------------------------
\* A batch smaller than asked for was all that matched.
LEMMA ShortBatch ==
    ASSUME TypeOK, NEW deleted \in Deletions(control), Cardinality(deleted) < CleanupBatchSize
    PROVE  deleted = rows \cap control.targets
<1> DEFINE matching == rows \cap control.targets
<1>1. CASE control.op = "cleanup" /\ Cardinality(matching) > CleanupBatchSize
  <2>1. Cardinality(deleted) = CleanupBatchSize
    BY <1>1 DEF Deletions, Oldest
  <2> QED BY <2>1, OptionsAssumption
<1>2. CASE ~(control.op = "cleanup" /\ Cardinality(matching) > CleanupBatchSize)
  BY <1>2 DEF Deletions
<1> QED BY <1>1, <1>2

\* Only the writer's answer to the last batch tells a caller that its cleanup is over.
LEMMA OnlyTheAnswer ==
    ASSUME IInv, MInv, [Next]_vars, NEW c \in Callers,
           call[c].pc # "cleaned", call'[c].pc = "cleaned"
    PROVE  ControlSucceeds /\ control.caller = c
<1>0. call \in [Callers -> Calls] /\ NoCall.pc = "idle"
  BY DEF IInv, TypeInv, TypeOK, NoCall
<1>1. \A d \in Callers : Leave(d).pc # "cleaned"
  BY DEF Leave, NoCall
<1>2. UNCHANGED call => FALSE
  OBVIOUS
<1>3. ASSUME NEW d \in Callers, Request(d) \/ Proceed(d) \/ GiveUp(d) \/ TakeControl(d) PROVE FALSE
  <2>1. CASE Request(d)
    BY <1>0, <2>1 DEF Request, Delete, Clear, Cleanup, Compact, Vacuum, Begin
  <2>2. CASE Drained(d) \/ CleanupAgain(d) \/ TakeControl(d)
    <3>1. \E to \in {"send", "end", "await"} : call' = [call EXCEPT ![d].pc = to]
      BY <2>2 DEF Drained, CleanupAgain, TakeControl
    <3> QED BY <1>0, <3>1
  <2>3. CASE ControlClosed(d) \/ OnCleanup(d) \/ GiveUp(d)
    BY <1>0, <1>1, <2>3 DEF ControlClosed, OnCleanup, GiveUp
  <2>4. CASE EndMaintenance(d)
    BY <1>0, <2>4 DEF EndMaintenance
  <2> QED BY <1>3, <2>1, <2>2, <2>3, <2>4 DEF Proceed
<1>4. CASE Restart
  BY <1>0, <1>4 DEF Restart
<1>5. CASE ControlFails
  BY <1>0, <1>1, <1>2, <1>5 DEF ControlFails, Deliver, MInv, AwaitsControl
<1>6. CASE ControlSucceeds
  BY <1>0, <1>2, <1>6 DEF ControlSucceeds, Deliver, MInv, AwaitsControl
<1>7. CASE \E i \in Ids : Traffic(i)
  BY <1>2, <1>7 DEF Traffic, Reserve, Commit, Cancel
<1>8. CASE TakeFirst \/ CollectMore \/ CollectEnd \/ WriteBatch \/ ReleaseItem \/ NotifyItem \/ Stop
  BY <1>2, <1>8
  DEF TakeFirst, CollectMore, TakeItem, CollectEnd, WriteBatch, ReleaseItem, NotifyItem, Stop
<1>9. CASE Close \/ UNCHANGED vars
  BY <1>2, <1>9 DEF Close, CloseBegin, CloseStop, CloseDone, vars
<1> QED BY <1>3, <1>4, <1>5, <1>6, <1>7, <1>8, <1>9 DEF Next, Writer

\* When Cleanup stops asking for batches, nothing older than its cutoff is left, although
\* rows were added and deleted between its batches (repository.go, Cleanup).
THEOREM CleanupLeavesNothing == Spec => CleanupFinishes
<1> DEFINE Clean == \A c \in Callers : call[c].pc # "cleaned" /\ call'[c].pc = "cleaned"
                                          => rows' \cap call[c].targets = {}
<1>1. ASSUME IInv, MInv, [Next]_vars PROVE Clean
  <2> SUFFICES ASSUME NEW c \in Callers, call[c].pc # "cleaned", call'[c].pc = "cleaned"
               PROVE  rows' \cap call[c].targets = {}
    OBVIOUS
  <2>1. ControlSucceeds /\ control.caller = c
    BY <1>1, OnlyTheAnswer
  <2>2. PICK deleted \in Deletions(control) :
            rows' = rows \ deleted /\ Deliver(AfterSuccess(c, deleted))
    BY <2>1 DEF ControlSucceeds
  <2>3. AfterSuccess(c, deleted).pc = "cleaned"
    BY <1>1, <2>1, <2>2, CallerAssumption DEF Deliver, IInv, TypeInv, TypeOK
  <2>4. Cardinality(deleted) < CleanupBatchSize
    BY <2>3 DEF AfterSuccess, Leave, NoCall
  <2>5. deleted = rows \cap control.targets
    BY <1>1, <2>4, ShortBatch DEF IInv, TypeInv
  <2>6. control.targets = call[c].targets
    BY <1>1, <2>1, CallerAssumption DEF MInv, AwaitsControl
  <2> QED BY <2>2, <2>5, <2>6
<1> QED BY <1>1, IInvariant, MInvariant, PTL DEF Spec, CleanupFinishes

-----------------------------------------------------------------------------
(* The table and what OnWrite reports of it.                               *)

\* A row is there because its exchange was reported, or is about to be.
RowsExplained ==
    \A i \in rows : st[i] = "persisted" \/ (wpc \in {"release", "notify"} /\ i \in ToSet(batch))

RInv == RowsExplained /\ ReportMatchesRows

-----------------------------------------------------------------------------
\* The elements of a sequence are those at its positions.
LEMMA ToSetIs ==
    ASSUME NEW s \in Seq(Ids)
    PROVE  ToSet(s) = {s[k] : k \in 1..Len(s)} /\ ToSet(s) \subseteq Ids
<1>1. DOMAIN s = 1..Len(s) /\ \A k \in 1..Len(s) : s[k] \in Ids
  OBVIOUS
<1> QED BY <1>1 DEF ToSet

\* The elements of the head and the tail of a batch without duplicates.
LEMMA BatchParts ==
    ASSUME IInv, batch # <<>>
    PROVE  /\ Head(batch) \in Ids /\ Head(batch) \in ToSet(batch) /\ Head(batch) = batch[1]
           /\ ToSet(Tail(batch)) = ToSet(batch) \ {Head(batch)}
           /\ Len(batch) = 1 => ToSet(batch) = {Head(batch)}
<1>1. batch \in Seq(Ids) /\ \A j, k \in 1..Len(batch) : batch[j] = batch[k] => j = k
  BY DEF IInv, TypeInv, TypeOK, BatchInv
<1>2. /\ Head(batch) \in Ids /\ Head(batch) = batch[1] /\ Len(batch) \in Nat \ {0}
      /\ Tail(batch) \in Seq(Ids) /\ Len(Tail(batch)) = Len(batch) - 1
      /\ \A k \in 1..Len(Tail(batch)) : Tail(batch)[k] = batch[k + 1]
  BY <1>1, HeadTail
<1>3. /\ ToSet(batch) = {batch[k] : k \in 1..Len(batch)}
      /\ ToSet(Tail(batch)) = {Tail(batch)[k] : k \in 1..Len(Tail(batch))}
  BY <1>1, <1>2, ToSetIs
<1>4. Head(batch) \in ToSet(batch)
  <2>1. 1 \in 1..Len(batch)
    BY <1>2
  <2> QED BY <1>2, <1>3, <2>1
<1>5. ASSUME NEW i \in ToSet(Tail(batch)) PROVE i \in ToSet(batch) \ {Head(batch)}
  <2>1. PICK k \in 1..Len(Tail(batch)) : i = batch[k + 1]
    BY <1>2, <1>3
  <2>2. k + 1 \in 1..Len(batch) /\ 1 \in 1..Len(batch) /\ k + 1 # 1
    BY <1>2
  <2>3. batch[k + 1] # batch[1]
    BY <1>1, <2>2
  <2> QED BY <1>2, <1>3, <2>1, <2>2, <2>3
<1>6. ASSUME NEW i \in ToSet(batch) \ {Head(batch)} PROVE i \in ToSet(Tail(batch))
  <2>1. PICK k \in 1..Len(batch) : i = batch[k]
    BY <1>3
  <2>2. k # 1
    BY <1>2, <2>1
  <2>3. k - 1 \in 1..Len(Tail(batch)) /\ (k - 1) + 1 = k
    BY <1>2, <2>2
  <2> QED BY <1>2, <1>3, <2>1, <2>3
<1>7. ASSUME Len(batch) = 1 PROVE ToSet(batch) = {Head(batch)}
  <2>1. \A k \in 1..Len(batch) : k = 1
    BY <1>7
  <2>2. \A i \in ToSet(batch) : i = Head(batch)
    BY <1>2, <1>3, <2>1
  <2> QED BY <1>4, <2>2
<1> QED BY <1>2, <1>4, <1>5, <1>6, <1>7

\* The stage of an exchange of the batch, and of one that cannot have a row.
LEMMA BatchStages ==
    ASSUME IInv
    PROVE  /\ ToSet(batch) \subseteq Ids
           /\ \A i \in ToSet(batch) : st[i] \in {"batched", "notifying"}
           /\ wpc # "notify" => \A i \in ToSet(batch) : st[i] = "batched"
           /\ wpc \in {"release", "notify"} => batch # <<>>
           /\ \A i \in Ids : st[i] = "notifying" => wpc = "notify" /\ i \in ToSet(batch)
<1>1. batch \in Seq(Ids) /\ ToSet(batch) = {batch[k] : k \in 1..Len(batch)}
  BY ToSetIs DEF IInv, TypeInv, TypeOK
<1>2. ASSUME NEW i \in ToSet(batch)
      PROVE  i \in Ids /\ st[i] \in {"batched", "notifying"} /\ (wpc # "notify" => st[i] = "batched")
  BY <1>1 DEF IInv, BatchInv
<1>3. wpc \in {"release", "notify"} => batch # <<>>
  BY DEF IInv, TypeInv, BatchShape, BatchPcs
<1>4. batch # <<>> => batch[1] \in ToSet(batch)
  BY BatchParts
<1> QED BY <1>2, <1>3, <1>4 DEF IInv, BatchInv

\* Outside the batch that is being reported, only persisted exchanges have rows.
LEMMA RowStages ==
    ASSUME IInv, RInv, NEW i \in Ids
    PROVE  /\ i \in rows => st[i] \in {"batched", "notifying", "persisted"}
           /\ i \in rows /\ wpc \notin {"release", "notify"} => st[i] = "persisted"
           /\ i \in rows /\ i \in ToSet(batch) => wpc \in {"release", "notify"}
  BY BatchStages DEF RInv, RowsExplained

\* Steps that leave the rows, the batch and its report alone, and unsettle nothing.
LEMMA RowsElsewhere ==
    ASSUME RInv, UNCHANGED <<rows, batch, batchOk>>, rows \subseteq Ids,
           wpc' = wpc \/ {wpc, wpc'} \cap {"release", "notify"} = {}
                      \/ {wpc, wpc'} \subseteq {"release", "notify"},
           \A i \in Ids : st[i] = "persisted" => st'[i] = "persisted"
    PROVE  RInv'
  BY DEF RInv, RowsExplained, ReportMatchesRows

-----------------------------------------------------------------------------
\* An exchange that asks for room, or queues, has no row to lose.
LEMMA RowsTraffic ==
    ASSUME IInv, RInv, NEW i \in Ids, Traffic(i)
    PROVE  RInv'
<1>1. UNCHANGED <<rows, batch, batchOk, wpc>>
  BY DEF Traffic, Reserve, Commit, Cancel, writerVars
<1>2. \A j \in Ids : st[j] = "persisted" => st'[j] = "persisted"
  BY DEF Traffic, Reserve, Commit, Cancel, IInv, TypeInv, TypeOK
<1> QED BY <1>1, <1>2, RowsElsewhere DEF IInv, TypeInv, TypeOK

\* The batch gets an exchange without a row, and keeps those it has.
LEMMA RowsTake ==
    ASSUME IInv, RInv, TakeItem, {wpc, wpc'} \cap {"release", "notify"} = {}
    PROVE  RInv'
<1>1. \A j \in rows : st[j] = "persisted"
  BY DEF RInv, RowsExplained
<1>2. Head(writes) \in Ids /\ st[Head(writes)] = "queued"
  BY HeadTail DEF TakeItem, IInv, QueueInv, TypeInv, TypeOK
<1>3. rows' = rows /\ rows \subseteq Ids
  BY DEF TakeItem, IInv, TypeInv, TypeOK
<1>4. \A j \in rows : st'[j] = "persisted"
  BY <1>1, <1>2, <1>3 DEF TakeItem, IInv, TypeInv, TypeOK
<1> QED BY <1>3, <1>4 DEF RInv, RowsExplained, ReportMatchesRows

\* The transaction writes the whole batch or nothing of it.
LEMMA RowsWrite ==
    ASSUME IInv, RInv, WriteBatch
    PROVE  RInv'
<1>1. wpc = "tx" /\ wpc' = "release" /\ UNCHANGED <<st, batch>>
  BY DEF WriteBatch, Transact
<1>2. rows' = IF batchOk' THEN rows \cup ToSet(batch) ELSE rows
  BY DEF WriteBatch, Transact
<1>3. batchOk' \in BOOLEAN
  BY DEF WriteBatch, Transact
<1>4. \A j \in ToSet(batch) : j \in Ids /\ j \notin rows
  BY <1>1, BatchStages, RowStages
<1>5. RowsExplained'
  BY <1>1, <1>2 DEF RInv, RowsExplained
<1>6. ReportMatchesRows'
  BY <1>1, <1>2, <1>3, <1>4 DEF ReportMatchesRows
<1> QED BY <1>5, <1>6 DEF RInv

\* The exchange that OnWrite reports persisted has its row, one reported failed none.
LEMMA RowsNotify ==
    ASSUME IInv, RInv, NotifyItem
    PROVE  RInv'
<1> DEFINE i == Head(batch)
<1>1. /\ wpc = "notify" /\ batch # <<>> /\ batch' = Tail(batch) /\ UNCHANGED rows
      /\ st' = [st EXCEPT ![i] = Outcome] /\ rows \subseteq Ids /\ st \in [Ids -> Stages]
  BY BatchStages DEF NotifyItem, IInv, TypeInv, TypeOK
<1>2. \/ Len(batch) = 1 /\ wpc' = "select"
      \/ wpc' = "release" /\ UNCHANGED batchOk
  BY DEF NotifyItem
<1>3. /\ i \in Ids /\ i \in ToSet(batch) /\ ToSet(batch') = ToSet(batch) \ {i}
      /\ Len(batch) = 1 => ToSet(batch) = {i}
  BY <1>1, BatchParts
<1>4. i \in rows <=> batchOk
  BY <1>1, <1>3 DEF RInv, ReportMatchesRows
<1> HIDE DEF i
<1>5. i \in rows => st'[i] = "persisted"
  BY <1>1, <1>3, <1>4 DEF Outcome
<1>6. \A j \in rows : j # i => st'[j] = st[j]
  BY <1>1
<1>7. RowsExplained'
  BY <1>1, <1>2, <1>3, <1>5, <1>6 DEF RInv, RowsExplained
<1>8. ReportMatchesRows'
  BY <1>1, <1>2, <1>3 DEF RInv, ReportMatchesRows
<1> QED BY <1>7, <1>8 DEF RInv

\* Every step of the repository preserves what explains the rows.
LEMMA RInvStep == IInv /\ RInv /\ [Next]_vars => RInv'
<1> SUFFICES ASSUME IInv, RInv, [Next]_vars PROVE RInv'
  OBVIOUS
<1>0. rows \subseteq Ids /\ st \in [Ids -> Stages]
  BY DEF IInv, TypeInv, TypeOK
<1>1. CASE \E i \in Ids : Traffic(i)
  BY <1>1, RowsTraffic
<1>2. CASE TakeFirst \/ CollectMore
  BY <1>2, RowsTake DEF TakeFirst, CollectMore
<1>3. CASE WriteBatch
  BY <1>3, RowsWrite
<1>4. CASE NotifyItem
  BY <1>4, RowsNotify
<1>5. CASE ReleaseItem
  <2>1. /\ wpc = "release" /\ wpc' = "notify" /\ UNCHANGED <<rows, batch, batchOk>>
        /\ st' = [st EXCEPT ![Head(batch)] = "notifying"]
    BY <1>5 DEF ReleaseItem
  <2>2. Head(batch) \in Ids /\ st[Head(batch)] = "batched"
    BY <2>1, BatchStages, BatchParts
  <2> QED BY <1>0, <2>1, <2>2, RowsElsewhere
<1>6. CASE CollectEnd \/ Stop \/ ControlFails
  <2>1. UNCHANGED <<st, rows, batch, batchOk>> /\ {wpc, wpc'} \cap {"release", "notify"} = {}
    BY <1>6 DEF CollectEnd, Stop, ControlFails
  <2> QED BY <1>0, <2>1, RowsElsewhere
<1>7. CASE ControlSucceeds
  <2>1. wpc = "control" /\ wpc' = "select" /\ rows' \subseteq rows /\ st' = st
    BY <1>7 DEF ControlSucceeds
  <2> QED BY <2>1 DEF RInv, RowsExplained, ReportMatchesRows
<1>8. CASE \E c \in Callers : Request(c) \/ Proceed(c) \/ GiveUp(c) \/ TakeControl(c)
  <2>1. /\ UNCHANGED <<st, rows, batch, batchOk>>
        /\ wpc' = wpc \/ {wpc, wpc'} \cap {"release", "notify"} = {}
    BY <1>8 DEF Request, Delete, Clear, Cleanup, Compact, Vacuum, Begin, Proceed, Drained,
                ControlClosed, CleanupAgain, OnCleanup, EndMaintenance, GiveUp, TakeControl,
                writerVars
  <2> QED BY <1>0, <2>1, RowsElsewhere
<1>9. CASE Close \/ UNCHANGED vars
  <2>1. UNCHANGED <<st, rows, batch, batchOk, wpc>>
    BY <1>9 DEF Close, CloseBegin, CloseStop, CloseDone, vars, writerVars
  <2> QED BY <1>0, <2>1, RowsElsewhere
<1>10. CASE Restart
  <2>1. wpc' = "select" /\ rows' = rows /\ \A i \in rows : st'[i] = "persisted"
    BY <1>0, <1>10 DEF Restart
  <2> QED BY <2>1 DEF RInv, RowsExplained, ReportMatchesRows
<1> QED BY <1>1, <1>2, <1>3, <1>4, <1>5, <1>6, <1>7, <1>8, <1>9, <1>10 DEF Next, Writer

LEMMA RInvariant == Spec => []RInv
<1>1. Init => RInv
  BY DEF Init, RInv, RowsExplained, ReportMatchesRows
<1> QED BY <1>1, RInvStep, IInvariant, PTL DEF Spec

\* When OnWrite is about to report a batch, all of it is in the table or none, as the
\* report says: no deletion comes between the transaction and its reports
\* (repository.go, writeBatch and runWriter).
THEOREM ReportsMatchRows == Spec => []ReportMatchesRows
  BY RInvariant, PTL DEF RInv

-----------------------------------------------------------------------------
(* The order of settlement: batch and channel are one queue.               *)

\* An exchange that enters the channel enters the queue at its end.
LEMMA QueueGrows ==
    ASSUME NEW s \in Seq(Ids), NEW t \in Seq(Ids), NEW i \in Ids
    PROVE  s \o Append(t, i) = Append(s \o t, i)
  OBVIOUS

\* Taking an exchange from the channel into the batch leaves the queue as it is.
LEMMA QueueMoves ==
    ASSUME NEW s \in Seq(Ids), NEW t \in Seq(Ids), t # <<>>
    PROVE  Append(s, Head(t)) \o Tail(t) = s \o t
<1>1. /\ Head(t) \in Ids /\ Head(t) = t[1] /\ Len(t) \in Nat \ {0}
      /\ Tail(t) \in Seq(Ids) /\ Len(Tail(t)) = Len(t) - 1
      /\ \A k \in 1..Len(Tail(t)) : Tail(t)[k] = t[k + 1]
  BY HeadTail
<1> DEFINE u == Append(s, Head(t))
<1>2. /\ u \in Seq(Ids) /\ Len(u) = Len(s) + 1 /\ Len(s) \in Nat
      /\ \A k \in 1..Len(u) : u[k] = IF k = Len(s) + 1 THEN Head(t) ELSE s[k]
  BY <1>1
<1> HIDE DEF u
<1>3. /\ u \o Tail(t) \in Seq(Ids) /\ Len(u \o Tail(t)) = Len(s) + Len(t)
      /\ \A k \in 1..Len(s) + Len(t) :
            (u \o Tail(t))[k] = IF k <= Len(u) THEN u[k] ELSE Tail(t)[k - Len(u)]
  <2>1. Len(u) + Len(Tail(t)) = Len(s) + Len(t)
    BY <1>1, <1>2
  <2>2. /\ u \o Tail(t) \in Seq(Ids) /\ Len(u \o Tail(t)) = Len(u) + Len(Tail(t))
        /\ \A k \in 1..Len(u) + Len(Tail(t)) :
              (u \o Tail(t))[k] = IF k <= Len(u) THEN u[k] ELSE Tail(t)[k - Len(u)]
    BY <1>1, <1>2, ConcatProperties
  <2> QED BY <2>1, <2>2
<1>4. /\ s \o t \in Seq(Ids) /\ Len(s \o t) = Len(s) + Len(t)
      /\ \A k \in 1..Len(s) + Len(t) : (s \o t)[k] = IF k <= Len(s) THEN s[k] ELSE t[k - Len(s)]
  BY ConcatProperties
<1>5. ASSUME NEW k \in 1..Len(s) + Len(t) PROVE (u \o Tail(t))[k] = (s \o t)[k]
  <2>1. CASE k <= Len(s)
    BY <1>2, <1>3, <1>4, <2>1
  <2>2. CASE k = Len(s) + 1
    BY <1>1, <1>2, <1>3, <1>4, <2>2
  <2>3. CASE k > Len(s) + 1
    <3>1. k - Len(u) \in 1..Len(Tail(t)) /\ (k - Len(u)) + 1 = k - Len(s)
      BY <1>1, <1>2, <2>3
    <3>2. Tail(t)[k - Len(u)] = t[k - Len(s)]
      BY <1>1, <3>1
    <3> QED BY <1>1, <1>2, <1>3, <1>4, <2>3, <3>2
  <2> QED BY <1>2, <2>1, <2>2, <2>3
<1>6. u \o Tail(t) = s \o t
  BY <1>3, <1>4, <1>5, SeqEqual
<1> QED BY <1>6 DEF u

\* Settling the head of the batch takes the head off the queue.
LEMMA QueueShrinks ==
    ASSUME NEW s \in Seq(Ids), NEW t \in Seq(Ids), s # <<>>
    PROVE  s \o t # <<>> /\ Tail(s) \o t = Tail(s \o t)
<1>1. /\ Len(s) \in Nat \ {0} /\ Tail(s) \in Seq(Ids) /\ Len(Tail(s)) = Len(s) - 1
      /\ \A k \in 1..Len(Tail(s)) : Tail(s)[k] = s[k + 1]
  BY HeadTail
<1>2. /\ s \o t \in Seq(Ids) /\ Len(s \o t) = Len(s) + Len(t) /\ Len(t) \in Nat
      /\ \A k \in 1..Len(s) + Len(t) : (s \o t)[k] = IF k <= Len(s) THEN s[k] ELSE t[k - Len(s)]
  BY ConcatProperties
<1>3. s \o t # <<>>
  BY <1>1, <1>2, EmptySeq
<1>4. /\ Tail(s \o t) \in Seq(Ids) /\ Len(Tail(s \o t)) = Len(s) + Len(t) - 1
      /\ \A k \in 1..Len(Tail(s \o t)) : Tail(s \o t)[k] = (s \o t)[k + 1]
  BY <1>2, <1>3, HeadTail
<1>5. /\ Tail(s) \o t \in Seq(Ids) /\ Len(Tail(s) \o t) = Len(s) - 1 + Len(t)
      /\ \A k \in 1..Len(s) - 1 + Len(t) :
            (Tail(s) \o t)[k] = IF k <= Len(s) - 1 THEN Tail(s)[k] ELSE t[k - (Len(s) - 1)]
  BY <1>1, ConcatProperties
<1>6. ASSUME NEW k \in 1..Len(s) + Len(t) - 1 PROVE (Tail(s) \o t)[k] = Tail(s \o t)[k]
  <2>1. Tail(s \o t)[k] = (s \o t)[k + 1] /\ k + 1 \in 1..Len(s) + Len(t)
    BY <1>1, <1>2, <1>4
  <2>2. CASE k <= Len(s) - 1
    BY <1>1, <1>2, <1>5, <2>1, <2>2
  <2>3. CASE k > Len(s) - 1
    <3>1. k - (Len(s) - 1) = (k + 1) - Len(s)
      BY <1>1
    <3> QED BY <1>1, <1>2, <1>5, <2>1, <2>3, <3>1
  <2> QED BY <1>1, <2>2, <2>3
<1> QED BY <1>1, <1>2, <1>3, <1>4, <1>5, <1>6, SeqEqual

\* Exchanges are settled in the order they were committed, whatever the batches, the
\* failures of their transactions and the control operations between them.
THEOREM SettlesInOrder == Spec => SettledInCommitOrder
<1> DEFINE Settles == \/ Pending' = <<>>
                      \/ Pending # <<>> /\ Pending' = Tail(Pending)
                      \/ \E i \in Ids : Pending' = Append(Pending, i)
<1>1. ASSUME IInv, [Next]_vars PROVE Settles \/ UNCHANGED Pending
  <2>0. batch \in Seq(Ids) /\ writes \in Seq(Ids)
    BY <1>1 DEF IInv, TypeInv, TypeOK
  <2>1. ASSUME NEW i \in Ids, Commit(i) PROVE Settles
    <3>1. writes' = Append(writes, i) /\ batch' = batch
      BY <1>1, <2>1, HeldFindsRoom DEF Commit, writerVars
    <3> QED BY <2>0, <3>1, QueueGrows DEF Pending
  <2>2. CASE TakeFirst \/ CollectMore
    <3>1. writes # <<>> /\ batch' = Append(batch, Head(writes)) /\ writes' = Tail(writes)
      BY <2>2 DEF TakeFirst, CollectMore, TakeItem
    <3> QED BY <2>0, <3>1, QueueMoves DEF Pending
  <2>3. CASE NotifyItem
    <3>1. batch # <<>> /\ batch' = Tail(batch) /\ writes' = writes
      BY <1>1, <2>3, BatchStages DEF NotifyItem
    <3> QED BY <2>0, <3>1, QueueShrinks DEF Pending
  <2>4. CASE Restart
    <3>1. batch' = <<>> /\ writes' = <<>> /\ <<>> \o <<>> = <<>>
      BY <2>4 DEF Restart
    <3> QED BY <3>1 DEF Pending
  <2>5. CASE UNCHANGED <<batch, writes>>
    BY <2>5 DEF Pending
  <2>6. ASSUME NEW i \in Ids, Reserve(i) \/ Cancel(i) PROVE UNCHANGED <<batch, writes>>
    BY <2>6 DEF Reserve, Cancel, writerVars
  <2>7. CASE CollectEnd \/ WriteBatch \/ ReleaseItem \/ ControlSucceeds \/ ControlFails \/ Stop
    BY <2>5, <2>7 DEF CollectEnd, WriteBatch, ReleaseItem, ControlSucceeds, ControlFails, Stop
  <2>8. CASE \E c \in Callers : Request(c) \/ Proceed(c) \/ GiveUp(c) \/ TakeControl(c)
    BY <2>5, <2>8 DEF Request, Delete, Clear, Cleanup, Compact, Vacuum, Begin, Proceed, Drained,
        ControlClosed, CleanupAgain, OnCleanup, EndMaintenance, GiveUp, TakeControl, writerVars
  <2>9. CASE Close \/ UNCHANGED vars
    BY <2>5, <2>9 DEF Close, CloseBegin, CloseStop, CloseDone, vars, writerVars
  <2> HIDE DEF Settles
  <2> QED BY <1>1, <2>1, <2>2, <2>3, <2>4, <2>5, <2>6, <2>7, <2>8, <2>9 DEF Next, Writer, Traffic
<1> QED BY <1>1, IInvariant, PTL DEF Spec, SettledInCommitOrder

-----------------------------------------------------------------------------
(* The refinement of DurableHistory.                                       *)

\* What only these exchanges do, all from one phase to one other, is a step of the
\* abstract history or none.
LEMMA Moves ==
    ASSUME NEW S \in SUBSET Ids, NEW from, NEW to,
           \A i \in S : Phase(i) = from /\ Phase(i)' = to,
           \A i \in Ids \ S : Phase(i)' = Phase(i)
    PROVE  \/ History!MoveAll(S, from, to)
           \/ UNCHANGED [i \in Ids |-> Phase(i)]
<1>1. CASE S = {}
  BY <1>1
<1>2. CASE S # {}
  BY <1>2 DEF History!MoveAll
<1> QED BY <1>1, <1>2

\* The phase of an exchange that is not in the table.
LEMMA PhaseIs ==
    ASSUME IInv, RInv, NEW i \in Ids
    PROVE  /\ st[i] \in {"none"} => Phase(i) = "absent"
           /\ st[i] \in {"held", "queued"} => Phase(i) = "pending"
           /\ st[i] \in {"batched", "notifying"} => Phase(i) = IF i \in rows THEN "stored" ELSE "pending"
           /\ st[i] \in {"cancelled", "failed", "lost"} => Phase(i) = "dropped"
           /\ st[i] = "persisted" => Phase(i) = IF i \in rows THEN "stored" ELSE "erased"
  BY RowStages DEF Phase, Undecided, Counted

\* Steps between stages of one phase are not seen.
LEMMA Unseen ==
    ASSUME IInv, RInv, UNCHANGED rows,
           \A i \in Ids : \/ st'[i] = st[i]
                          \/ st[i] \in Undecided /\ st'[i] \in Undecided
                          \/ i \in rows
    PROVE  UNCHANGED [i \in Ids |-> Phase(i)]
<1>1. \A i \in Ids : Phase(i)' = Phase(i)
  BY DEF Phase, Undecided, Counted
<1> QED BY <1>1

Step == History!DurableNext \/ UNCHANGED [i \in Ids |-> Phase(i)]

LEMMA StepTraffic ==
    ASSUME IInv, RInv, NEW i \in Ids, Traffic(i)
    PROVE  Step
<1>0. st \in [Ids -> Stages] /\ UNCHANGED rows
  BY DEF IInv, TypeInv, TypeOK, Traffic, Reserve, Commit, Cancel
<1>1. CASE Reserve(i)
  <2>1. st[i] = "none" /\ st' = [st EXCEPT ![i] = "held"]
    BY <1>1 DEF Reserve
  <2>2. Phase(i) = "absent" /\ i \notin rows
    BY <2>1, RowStages, PhaseIs
  <2>3. Phase(i)' = "pending" /\ \A j \in Ids \ {i} : Phase(j)' = Phase(j)
    BY <1>0, <2>1, <2>2 DEF Phase, Undecided, Counted
  <2> QED BY <2>2, <2>3, Moves DEF Step, History!DurableNext, History!Admit
<1>2. CASE Commit(i)
  <2>1. st[i] = "held" /\ st' = [st EXCEPT ![i] = "queued"]
    BY <1>2, HeldFindsRoom DEF Commit
  <2> QED BY <1>0, <2>1, Unseen DEF Step, Undecided, Counted
<1>3. CASE Cancel(i)
  <2>1. st[i] = "held" /\ st' = [st EXCEPT ![i] = "cancelled"]
    BY <1>3 DEF Cancel
  <2>2. Phase(i) = "pending" /\ i \notin rows
    BY <2>1, RowStages, PhaseIs
  <2>3. Phase(i)' = "dropped" /\ \A j \in Ids \ {i} : Phase(j)' = Phase(j)
    BY <1>0, <2>1, <2>2 DEF Phase, Undecided, Counted
  <2>4. {i} \in SUBSET Ids /\ (History!MoveAll({i}, "pending", "dropped") \/ UNCHANGED [j \in Ids |-> Phase(j)])
    BY <2>2, <2>3, Moves
  <2> QED BY <2>4 DEF Step, History!DurableNext, History!Drop
<1> QED BY <1>1, <1>2, <1>3 DEF Traffic

\* The batch becomes durable at once, and nothing else does.
LEMMA StepWrite ==
    ASSUME IInv, RInv, WriteBatch
    PROVE  Step
<1>1. wpc = "tx" /\ st' = st
  BY DEF WriteBatch
<1>2. rows' = rows \/ rows' = rows \cup ToSet(batch)
  BY DEF WriteBatch, Transact
<1>3. CASE rows' = rows
  BY <1>1, <1>3, Unseen DEF Step
<1>4. CASE rows' = rows \cup ToSet(batch)
  <2>1. ToSet(batch) \in SUBSET Ids /\ \A i \in ToSet(batch) : st[i] = "batched" /\ i \notin rows
    BY <1>1, BatchStages, RowStages
  <2>2. \A i \in ToSet(batch) : Phase(i) = "pending" /\ Phase(i)' = "stored"
    BY <1>4, <2>1, PhaseIs DEF Phase
  <2>3. \A i \in Ids \ ToSet(batch) : Phase(i)' = Phase(i)
    BY <1>1, <1>4 DEF Phase
  <2> QED BY <2>1, <2>2, <2>3, Moves DEF Step, History!DurableNext, History!Store
<1> QED BY <1>2, <1>3, <1>4

\* OnWrite reports a stored exchange persisted, and drops one that is not.
LEMMA StepNotify ==
    ASSUME IInv, RInv, NotifyItem
    PROVE  Step
<1>0. PICK i \in Ids : i = Head(batch)
  BY BatchParts, BatchStages DEF NotifyItem
<1>1. /\ wpc = "notify" /\ batch # <<>> /\ UNCHANGED rows
      /\ st' = [st EXCEPT ![i] = Outcome] /\ st \in [Ids -> Stages]
  BY <1>0, BatchStages DEF NotifyItem, IInv, TypeInv, TypeOK
<1>2. i \in Ids /\ i \in ToSet(batch) /\ st[i] \in {"batched", "notifying"}
  BY <1>0, <1>1, BatchParts, BatchStages
<1>3. i \in rows <=> batchOk
  BY <1>1, <1>2 DEF RInv, ReportMatchesRows
<1>4. CASE i \in rows
  BY <1>1, <1>2, <1>4, Unseen DEF Step
<1>5. CASE i \notin rows
  <2>0. Phase(i) = "pending" /\ st'[i] = "failed" /\ i \notin rows'
    BY <1>1, <1>2, <1>3, <1>5, PhaseIs DEF Outcome
  <2>1. Phase(i)' = "dropped"
    BY <2>0 DEF Phase, Undecided, Counted
  <2>2. \A j \in Ids \ {i} : Phase(j)' = Phase(j)
    BY <1>1 DEF Phase
  <2>3. {i} \in SUBSET Ids /\ (History!MoveAll({i}, "pending", "dropped") \/ UNCHANGED [j \in Ids |-> Phase(j)])
    BY <1>2, <2>0, <2>1, <2>2, Moves
  <2> QED BY <2>3 DEF Step, History!DurableNext, History!Drop
<1> QED BY <1>4, <1>5

\* A control statement erases rows whose exchanges have been reported, and no other.
LEMMA StepErase ==
    ASSUME IInv, RInv, ControlSucceeds
    PROVE  Step
<1>1. wpc = "control" /\ st' = st /\ rows' \subseteq rows /\ rows \subseteq Ids
  BY DEF ControlSucceeds, IInv, TypeInv, TypeOK
<1> DEFINE S == rows \ rows'
<1>2. S \in SUBSET Ids
  BY <1>1
<1>3. \A i \in S : Phase(i) = "stored" /\ Phase(i)' = "erased"
  BY <1>1, RowStages DEF Phase, Undecided, Counted
<1>4. \A i \in Ids \ S : Phase(i)' = Phase(i)
  BY <1>1 DEF Phase
<1> HIDE DEF S
<1> QED BY <1>2, <1>3, <1>4, Moves DEF Step, History!DurableNext, History!Erase

\* A new process keeps what is stored and drops what was on its way.
LEMMA StepRestart ==
    ASSUME IInv, RInv, Restart
    PROVE  Step
<1>1. /\ rows' = rows
      /\ \A i \in Ids : st'[i] = IF i \in rows THEN "persisted"
                                 ELSE IF st[i] \in Undecided THEN "lost" ELSE st[i]
  BY DEF Restart
<1> DEFINE S == {i \in Ids : i \notin rows /\ st[i] \in Undecided}
<1>2. \A i \in S : Phase(i) = "pending" /\ Phase(i)' = "dropped"
  BY <1>1 DEF Phase, Undecided, Counted
<1>3. \A i \in Ids \ S : Phase(i)' = Phase(i)
  BY <1>1 DEF Phase, Undecided, Counted
<1>4. S \in SUBSET Ids
  OBVIOUS
<1> HIDE DEF S
<1>5. History!MoveAll(S, "pending", "dropped") \/ UNCHANGED [i \in Ids |-> Phase(i)]
  BY <1>2, <1>3, <1>4, Moves
<1> QED BY <1>4, <1>5 DEF Step, History!DurableNext, History!Drop

\* Every step of the repository is a step of the abstract history or none.
LEMMA HistoryStep == IInv /\ RInv /\ [Next]_vars => Step
<1> SUFFICES ASSUME IInv, RInv, [Next]_vars PROVE Step
  OBVIOUS
<1>1. CASE \E i \in Ids : Traffic(i)
  BY <1>1, StepTraffic
<1>2. CASE TakeFirst \/ CollectMore
  <2>1. Head(writes) \in Ids /\ st[Head(writes)] = "queued"
    BY <1>2, HeadTail DEF TakeFirst, CollectMore, TakeItem, IInv, QueueInv, TypeInv, TypeOK
  <2>2. st' = [st EXCEPT ![Head(writes)] = "batched"] /\ UNCHANGED rows /\ st \in [Ids -> Stages]
    BY <1>2 DEF TakeFirst, CollectMore, TakeItem, IInv, TypeInv, TypeOK
  <2> QED BY <2>1, <2>2, Unseen DEF Step, Undecided, Counted
<1>3. CASE WriteBatch
  BY <1>3, StepWrite
<1>4. CASE ReleaseItem
  <2>1. st' = [st EXCEPT ![Head(batch)] = "notifying"] /\ UNCHANGED rows /\ st \in [Ids -> Stages]
    BY <1>4 DEF ReleaseItem, IInv, TypeInv, TypeOK
  <2>2. Head(batch) \in Ids /\ st[Head(batch)] = "batched"
    BY <1>4, BatchStages, BatchParts DEF ReleaseItem
  <2> QED BY <2>1, <2>2, Unseen DEF Step, Undecided, Counted
<1>5. CASE NotifyItem
  BY <1>5, StepNotify
<1>6. CASE ControlSucceeds
  BY <1>6, StepErase
<1>7. CASE Restart
  BY <1>7, StepRestart
<1>8. CASE UNCHANGED <<st, rows>>
  BY <1>8, Unseen DEF Step
<1>9. CASE CollectEnd \/ ControlFails \/ Stop
  BY <1>8, <1>9 DEF CollectEnd, ControlFails, Stop
<1>10. CASE \E c \in Callers : Request(c) \/ Proceed(c) \/ GiveUp(c) \/ TakeControl(c)
  BY <1>8, <1>10 DEF Request, Delete, Clear, Cleanup, Compact, Vacuum, Begin, Proceed, Drained,
     ControlClosed, CleanupAgain, OnCleanup, EndMaintenance, GiveUp, TakeControl
<1>11. CASE Close \/ UNCHANGED vars
  BY <1>8, <1>11 DEF Close, CloseBegin, CloseStop, CloseDone, vars
<1> QED
  BY <1>1, <1>2, <1>3, <1>4, <1>5, <1>6, <1>7, <1>9, <1>10, <1>11 DEF Next, Writer

\* The repository implements DurableHistory: a row appears once, with its whole batch
\* and only for a reserved exchange; what OnWrite reports persisted stays until a
\* control operation erases it, and neither a restart nor a later write brings it back.
THEOREM RepositoryIsDurable == Spec => ImplementsHistory
<1>1. Init => History!DurableInit
  BY DEF Init, Phase, Undecided, Counted, History!DurableInit
<1>2. IInv /\ RInv /\ [Next]_vars => [History!DurableNext]_[i \in Ids |-> Phase(i)]
  BY HistoryStep DEF Step
<1> QED
  BY <1>1, <1>2, IInvariant, RInvariant, PTL DEF Spec, ImplementsHistory, History!DurableSafety

-----------------------------------------------------------------------------
(* What a composition may rely on.                                         *)

\* The writer takes a queued exchange to its report and no other anywhere.
MovesOn(from, to) ==
    \/ to = from
    \/ from = "queued" /\ to = "batched"
    \/ from = "batched" /\ to = "notifying"
    \/ from = "notifying" /\ to \in {"persisted", "failed"}

LEMMA WriterMovesOn ==
    ASSUME IInv, Writer, NEW i \in Ids
    PROVE  /\ MovesOn(st[i], st'[i])
           /\ i \in rows' => i \in rows \/ st[i] = "batched"
<1>0. st \in [Ids -> Stages]
  BY DEF IInv, TypeInv, TypeOK
<1>1. CASE TakeFirst \/ CollectMore
  <2>1. TakeItem
    BY <1>1 DEF TakeFirst, CollectMore
  <2>2. PICK j \in Ids : j = Head(writes) /\ j = writes[1] /\ Len(writes) \in Nat \ {0}
    BY <2>1, HeadTail DEF TakeItem, IInv, TypeInv, TypeOK
  <2>3. st[j] = "queued"
    BY <2>2 DEF IInv, QueueInv
  <2>4. st' = [st EXCEPT ![j] = "batched"] /\ UNCHANGED rows
    BY <2>1, <2>2 DEF TakeItem
  <2> QED BY <1>0, <2>3, <2>4 DEF MovesOn
<1>2. CASE WriteBatch
  <2>1. UNCHANGED st /\ wpc = "tx" /\ rows' \subseteq rows \cup ToSet(batch)
    BY <1>2 DEF WriteBatch, Transact
  <2>2. \A j \in ToSet(batch) : st[j] = "batched"
    BY <2>1, BatchStages
  <2> QED BY <2>1, <2>2 DEF MovesOn
<1>3. CASE ReleaseItem \/ NotifyItem
  <2>1. batch # <<>> /\ UNCHANGED rows
    BY <1>3 DEF ReleaseItem, NotifyItem, IInv, TypeInv, BatchShape, BatchPcs
  <2>2. PICK j \in Ids : j = Head(batch) /\ j = batch[1] /\ Len(batch) \in Nat \ {0}
    BY <2>1, HeadTail DEF IInv, TypeInv, TypeOK
  <2>3. st[j] = IF wpc = "notify" THEN "notifying" ELSE "batched"
    BY <2>2 DEF IInv, BatchInv
  <2>4. PICK stage \in {"notifying", "persisted", "failed"} :
            st' = [st EXCEPT ![j] = stage] /\ (stage = "notifying" <=> wpc # "notify")
    BY <1>3, <2>2 DEF ReleaseItem, NotifyItem, Outcome
  <2> QED BY <1>0, <2>1, <2>3, <2>4 DEF MovesOn
<1>4. CASE CollectEnd \/ Stop \/ ControlFails \/ ControlSucceeds
  <2>1. UNCHANGED st /\ rows' \subseteq rows
    BY <1>4 DEF CollectEnd, Stop, ControlFails, ControlSucceeds
  <2> QED BY <2>1 DEF MovesOn
<1> QED BY <1>1, <1>2, <1>3, <1>4 DEF Writer

\* Control operations move no exchange and add no row.
LEMMA ControlMovesNothing ==
    ASSUME NEW c \in Callers, Request(c) \/ Proceed(c) \/ GiveUp(c) \/ TakeControl(c)
    PROVE  UNCHANGED <<st, rows, batch, batchOk, writes>> /\ (wpc = "notify" <=> wpc' = "notify")
  BY DEF Request, Delete, Clear, Cleanup, Compact, Vacuum, Begin, Proceed, Drained,
         ControlClosed, CleanupAgain, OnCleanup, EndMaintenance, GiveUp, TakeControl, writerVars

\* While the writer notifies, the head of the batch is the exchange it reports.
LEMMA Notified ==
    ASSUME IInv, wpc = "notify"
    PROVE  Head(batch) \in Ids /\ st[Head(batch)] = "notifying"
<1>1. batch # <<>>
  BY DEF IInv, TypeInv, BatchShape, BatchPcs
<1>2. Head(batch) \in Ids /\ Head(batch) = batch[1] /\ Len(batch) \in Nat \ {0}
  BY <1>1, HeadTail DEF IInv, TypeInv, TypeOK
<1> QED BY <1>2 DEF IInv, BatchInv
\* waitForReservations returns when no exchange counts any more.
LEMMA NobodyHolds ==
    ASSUME IInv, reservedCount = 0, NEW i \in Ids
    PROVE  st[i] \notin Counted
<1>1. Cardinality(Holding) = 0 /\ IsFiniteSet(Holding)
  BY IdsFinite, FS_Subset DEF IInv, CountAccounting, Holding
<1> QED BY <1>1, FS_EmptySet DEF Holding

\* The writer answers the caller that awaits the control request, between two
\* batches; a deletion that succeeds leaves no row of its targets.
LEMMA ControlAnswers ==
    ASSUME IInv, MInv, ControlSucceeds \/ ControlFails, NEW c \in Callers
    PROVE  /\ \A i \in Ids : st[i] # "notifying"
           /\ c # control.caller => call'[c] = call[c]
           /\ c = control.caller =>
                 /\ call[c].pc = "await"
                 /\ call[c].op = "cleanup" => call'[c].op = "cleanup"
                 /\ call[c].op \notin Exclusive =>
                       /\ call'[c] = NoCall
                       /\ ControlSucceeds => rows' \cap call[c].targets = {}
<1>1. wpc = "control" /\ \A i \in Ids : st[i] # "notifying"
  BY BatchStages DEF ControlSucceeds, ControlFails
<1>2. DOMAIN call = Callers /\ call[c] \in Calls
  BY DEF IInv, TypeInv, TypeOK
<1>3. CASE c # control.caller
  BY <1>1, <1>2, <1>3 DEF ControlSucceeds, ControlFails, Deliver
<1>4. CASE c = control.caller
  <2>1. /\ c # NoCaller /\ call[c].pc = "await" /\ call[c].op = control.op
        /\ call[c].targets = control.targets
    BY <1>4, CallerAssumption DEF MInv, AwaitsControl
  <2>2. CASE ControlFails /\ ~ControlSucceeds
    <3>1. call'[c] = Leave(c)
      BY <1>2, <1>4, <2>1, <2>2 DEF ControlFails, Deliver
    <3> QED BY <1>1, <1>4, <2>1, <2>2, <3>1 DEF Leave, Exclusive
  <2>3. CASE ControlSucceeds
    <3>1. PICK gone : /\ gone \in Deletions(control) /\ rows' = rows \ gone
                      /\ Deliver(AfterSuccess(c, gone))
      BY <1>4, <2>3 DEF ControlSucceeds
    <3>2. call'[c] = AfterSuccess(c, gone)
      BY <1>2, <1>4, <2>1, <3>1 DEF Deliver
    <3>3. CASE call[c].op \in Exclusive
      BY <1>1, <1>2, <1>4, <2>1, <3>2, <3>3 DEF AfterSuccess, Leave, Exclusive, Calls
    <3>4. CASE call[c].op \notin Exclusive
      <4>1. gone = rows \cap call[c].targets
        BY <2>1, <3>1, <3>4 DEF Deletions, Exclusive
      <4> QED BY <1>1, <1>4, <2>1, <3>1, <3>2, <3>4, <4>1 DEF AfterSuccess, Leave, Exclusive
    <3> QED BY <3>3, <3>4
  <2> QED BY <2>2, <2>3
<1> QED BY <1>3, <1>4
=============================================================================

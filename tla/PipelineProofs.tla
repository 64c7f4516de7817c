--------------------------- MODULE PipelineProofs ---------------------------
(***************************************************************************)
(* Proofs about ExchangePipeline for any number of exchanges and requests, *)
(* every limit and both storage modes.  P gives the results proved of the  *)
(* repository; the pipeline may use them because it only takes its steps.  *)
(***************************************************************************)
EXTENDS ExchangePipeline, FiniteSetTheorems, WellFoundedInduction, TLAPS

P == INSTANCE PersistenceProofs

\* The instance meets the repository's assumptions on its constants.
LEMMA RepositoryAssumptions == P!IdsFinite /\ P!CallerAssumption
                                /\ P!OptionsAssumption /\ P!DataAssumption
<1>1. P!IsFiniteSet(Ids)
  BY RepositoryAssumption DEF IsFiniteSet, P!IsFiniteSet
<1> QED BY <1>1, RepositoryAssumption
        DEF P!IdsFinite, P!CallerAssumption, P!OptionsAssumption, P!DataAssumption

\* Both instances count alike.
LEMMA SameCardinality == \A S : DB!Cardinality(S) = P!Cardinality(S)
  BY DEF DB!Cardinality, P!Cardinality

\* The repository that runs in the pipeline is the one the proofs are about.
LEMMA SameTraffic == \A i \in Ids : DB!Traffic(i) <=> P!Traffic(i)
  BY DEF DB!Traffic, P!Traffic, DB!Reserve, P!Reserve, DB!Admits, P!Admits,
         DB!FitsCount, P!FitsCount, DB!FitsBytes, P!FitsBytes, DB!Commit, P!Commit,
         DB!Cancel, P!Cancel, DB!Release, P!Release, DB!Less, P!Less,
         DB!resources, P!resources, DB!writerVars, P!writerVars

LEMMA SameAnswers == /\ DB!ControlSucceeds <=> P!ControlSucceeds
                     /\ DB!ControlFails <=> P!ControlFails
<1> USE DEF DB!Deliver, P!Deliver, DB!Leave, P!Leave, DB!NoCall, P!NoCall,
            DB!NoRequest, P!NoRequest, DB!Exclusive, P!Exclusive, DB!resources, P!resources
<1>1. DB!ControlSucceeds <=> P!ControlSucceeds
  BY SameCardinality DEF DB!ControlSucceeds, P!ControlSucceeds, DB!Deletions, P!Deletions,
         DB!Oldest, P!Oldest, DB!AfterSuccess, P!AfterSuccess
<1>2. DB!ControlFails <=> P!ControlFails
  BY DEF DB!ControlFails, P!ControlFails
<1> QED BY <1>1, <1>2

LEMMA SameWriter == DB!Writer <=> P!Writer
<1> USE DEF DB!resources, P!resources
<1>1. DB!TakeItem <=> P!TakeItem
  BY DEF DB!TakeItem, P!TakeItem
<1>2. (DB!TakeFirst <=> P!TakeFirst) /\ (DB!CollectMore <=> P!CollectMore)
  BY <1>1 DEF DB!TakeFirst, P!TakeFirst, DB!CollectMore, P!CollectMore
<1>3. DB!CollectEnd <=> P!CollectEnd
  BY DEF DB!CollectEnd, P!CollectEnd
<1>4. DB!WriteBatch <=> P!WriteBatch
  BY DEF DB!WriteBatch, P!WriteBatch, DB!Transact, P!Transact, DB!ToSet, P!ToSet
<1>5. DB!ReleaseItem <=> P!ReleaseItem
  BY DEF DB!ReleaseItem, P!ReleaseItem, DB!Release, P!Release, DB!Less, P!Less
<1>6. DB!NotifyItem <=> P!NotifyItem
  BY DEF DB!NotifyItem, P!NotifyItem, DB!Outcome, P!Outcome
<1>7. DB!Stop <=> P!Stop
  BY DEF DB!Stop, P!Stop
<1> QED BY <1>2, <1>3, <1>4, <1>5, <1>6, <1>7, SameAnswers DEF DB!Writer, P!Writer

LEMMA SameControl ==
    \A c \in Callers : /\ DB!Request(c) <=> P!Request(c)
                       /\ DB!Proceed(c) <=> P!Proceed(c)
                       /\ DB!GiveUp(c) <=> P!GiveUp(c)
                       /\ DB!TakeControl(c) <=> P!TakeControl(c)
<1> SUFFICES ASSUME NEW c \in Callers
             PROVE  /\ DB!Request(c) <=> P!Request(c)
                    /\ DB!Proceed(c) <=> P!Proceed(c)
                    /\ DB!GiveUp(c) <=> P!GiveUp(c)
                    /\ DB!TakeControl(c) <=> P!TakeControl(c)
  OBVIOUS
<1> USE DEF DB!resources, P!resources, DB!writerVars, P!writerVars, DB!Leave, P!Leave,
            DB!NoCall, P!NoCall, DB!Exclusive, P!Exclusive
<1>1. DB!Request(c) <=> P!Request(c)
  BY DEF DB!Request, P!Request, DB!Delete, P!Delete, DB!Clear, P!Clear, DB!Cleanup, P!Cleanup,
         DB!Compact, P!Compact, DB!Vacuum, P!Vacuum, DB!Begin, P!Begin,
         DB!BeginMaintenance, P!BeginMaintenance
<1>2. DB!Proceed(c) <=> P!Proceed(c)
  BY DEF DB!Proceed, P!Proceed, DB!Drained, P!Drained, DB!ControlClosed, P!ControlClosed,
         DB!CleanupAgain, P!CleanupAgain, DB!OnCleanup, P!OnCleanup,
         DB!EndMaintenance, P!EndMaintenance
<1>3. DB!GiveUp(c) <=> P!GiveUp(c)
  BY DEF DB!GiveUp, P!GiveUp
<1>4. DB!TakeControl(c) <=> P!TakeControl(c)
  BY DEF DB!TakeControl, P!TakeControl
<1> QED BY <1>1, <1>2, <1>3, <1>4

\* So the two instances take the same steps from the same first state.
LEMMA SameRepository == /\ DB!Init <=> P!Init
                        /\ DB!Next <=> P!Next
                        /\ DB!vars = P!vars
<1>1. DB!Init <=> P!Init
  BY DEF DB!Init, P!Init, DB!NoRequest, P!NoRequest, DB!NoCall, P!NoCall
<1>2. (DB!Close <=> P!Close) /\ (DB!Restart <=> P!Restart)
  BY DEF DB!Close, P!Close, DB!CloseBegin, P!CloseBegin, DB!CloseStop, P!CloseStop,
         DB!CloseDone, P!CloseDone, DB!Restart, P!Restart, DB!resources, P!resources,
         DB!writerVars, P!writerVars, DB!NoRequest, P!NoRequest, DB!NoCall, P!NoCall,
         DB!Undecided, P!Undecided, DB!Counted, P!Counted
<1>3. DB!Next <=> P!Next
  BY <1>2, SameTraffic, SameWriter, SameControl DEF DB!Next, P!Next
<1>4. DB!vars = P!vars
  BY DEF DB!vars, P!vars, DB!resources, P!resources, DB!writerVars, P!writerVars
<1> QED BY <1>1, <1>3, <1>4

-----------------------------------------------------------------------------
(* The pipeline touches the repository only through its operations.        *)

\* Handlers and the receiver reserve, commit and cancel, and nothing else.
LEMMA TrafficInside ==
    ASSUME NEW i \in Ids, Admit(i) \/ Handler(i) \/ Receiver(i)
    PROVE  DB!Traffic(i) \/ UNCHANGED dbVars
<1>1. CASE Admit(i)
  BY <1>1 DEF Admit
<1>2. CASE Receiver(i)
  BY <1>2 DEF Receiver, ReceiveDatagram, SaveDatagram, CommitDatagram, DB!Traffic
<1>3. CASE Handler(i)
  <2>1. CASE ReservePersistence(i) \/ CommitExchange(i) \/ CancelReservation(i)
    BY <2>1 DEF ReservePersistence, CommitExchange, CancelReservation, DB!Traffic
  <2>2. CASE \/ StartExchange(i) \/ StartFails(i) \/ Fail(i) \/ ReadBody(i) \/ Forward(i)
             \/ Handle(i) \/ Complete(i) \/ MarkQueued(i) \/ ReleaseSlot(i)
    BY <2>2 DEF StartExchange, StartFails, Fail, ReadBody, Forward, Handle, Complete,
           MarkQueued, ReleaseSlot
  <2> QED BY <1>3, <2>1, <2>2 DEF Handler
<1> QED BY <1>1, <1>2, <1>3

\* A deletion names an exchange.
MgrType == /\ mgr \in [Callers -> Managers]
           /\ \A c \in Callers : mgr[c].op = "delete" => mgr[c].id \in Ids

LEMMA MgrTypeStep == MgrType /\ [Next]_allVars => MgrType'
<1> SUFFICES ASSUME MgrType, [Next]_allVars PROVE MgrType'
  OBVIOUS
<1> USE DEF MgrType, Managers
<1>1. ASSUME NEW c \in Callers, NEW next \in Managers, next.op = "delete" => next.id \in Ids,
             mgr' = [mgr EXCEPT ![c] = next]
      PROVE  MgrType'
  BY <1>1
<1>2. NoManager \in Managers /\ NoManager.op # "delete"
  BY DEF NoManager
<1>3. CASE UNCHANGED mgr
  BY <1>3
<1>4. ASSUME NEW c \in Callers, Manager(c) PROVE MgrType'
  <2>1. ASSUME NEW op \in {"delete", "clear"}, NEW id \in Ids \cup {NoExchange},
               StartManager(c, op, id), op = "delete" => id \in Ids
        PROVE  MgrType'
    BY <1>1, <2>1 DEF StartManager
  <2>2. CASE \/ \E i \in Ids : DeleteExchange(c, i)
             \/ ClearExchanges(c)
    BY <2>1, <2>2 DEF DeleteExchange, ClearExchanges
  <2>3. CASE WaitIdle(c)
    <3>1. [mgr[c] EXCEPT !.pc = "store"] \in Managers
      OBVIOUS
    <3>2. mgr' = [mgr EXCEPT ![c] = [mgr[c] EXCEPT !.pc = "store"]]
      BY <2>3 DEF WaitIdle
    <3> QED BY <1>1, <3>1, <3>2
  <2>4. CASE Abandon(c) \/ RemoveFromRam(c)
    BY <1>1, <1>2, <2>4 DEF Abandon, RemoveFromRam
  <2>5. CASE Retention(c) \/ SendControl(c)
    BY <1>3, <2>5 DEF Retention, SendControl, managerVars
  <2> QED BY <1>4, <2>2, <2>3, <2>4, <2>5 DEF Manager
<1>5. CASE StoreSucceeds \/ StoreFails
  <2>1. PICK next : /\ Answered(next)
                    /\ next = NoManager \/ next = [mgr[control.caller] EXCEPT !.pc = "remove"]
    BY <1>5 DEF StoreSucceeds, StoreFails
  <2>2. CASE control.caller # NoCaller /\ mgr[control.caller].pc = "store"
    <3>1. CASE control.caller \in Callers
      <4>1. next \in Managers /\ (next.op = "delete" => next.id \in Ids)
        BY <1>2, <2>1, <3>1
      <4> QED BY <1>1, <2>1, <2>2, <3>1, <4>1 DEF Answered
    <3>2. CASE control.caller \notin Callers
      <4>1. UNCHANGED mgr
        BY <2>1, <2>2, <3>2 DEF Answered
      <4> QED BY <1>3, <4>1
    <3> QED BY <3>1, <3>2
  <2>3. CASE ~(control.caller # NoCaller /\ mgr[control.caller].pc = "store")
    BY <1>3, <2>1, <2>3 DEF Answered
  <2> QED BY <2>2, <2>3
<1>6. ASSUME NEW i \in Ids, Admit(i) \/ Handler(i) \/ Receiver(i) PROVE UNCHANGED mgr
  BY <1>6 DEF Admit, Handler, Receiver, ReservePersistence, StartExchange, StartFails, Fail,
         ReadBody, Forward, Handle, Complete, MarkQueued, CommitExchange, CancelReservation,
         ReleaseSlot, ReceiveDatagram, SaveDatagram, CommitDatagram, managerVars
<1>7. CASE Writing \/ \E n \in Capacities : Resize(n)
  BY <1>3, <1>7 DEF Writing, Batching, OnWriteGet, OnWriteMisses, OnWriteSave, Resize, managerVars
<1>8. CASE UNCHANGED allVars
  BY <1>3, <1>8 DEF allVars, managerVars
<1> QED BY <1>3, <1>4, <1>5, <1>6, <1>7, <1>8 DEF Next, Step, Ids

\* Management requests call the control operations of their own caller.
LEMMA ManagerInside ==
    ASSUME MgrType, NEW c \in Callers, Manager(c)
    PROVE  \/ DB!Request(c) \/ DB!Proceed(c) \/ DB!GiveUp(c) \/ DB!TakeControl(c)
           \/ UNCHANGED dbVars
<1>1. CASE \E i \in Ids : DeleteExchange(c, i)
  BY <1>1 DEF DeleteExchange, StartManager
<1>2. CASE ClearExchanges(c)
  BY <1>2 DEF ClearExchanges, StartManager
<1>3. CASE WaitIdle(c)
  <2>1. CASE mgr[c].op # "delete"
    BY <1>3, <2>1 DEF WaitIdle, DB!Request
  <2>2. CASE mgr[c].op = "delete"
    <3>1. DB!Delete(c, mgr[c].id)
      BY <1>3, <2>2 DEF WaitIdle
    <3>2. mgr[c].id \in Ids
      BY <2>2 DEF MgrType
    <3> QED BY <3>1, <3>2 DEF DB!Request
  <2> QED BY <2>1, <2>2
<1>4. CASE Abandon(c)
  BY <1>4 DEF Abandon
<1>5. CASE RemoveFromRam(c)
  BY <1>5 DEF RemoveFromRam
<1>6. CASE Retention(c)
  BY <1>6 DEF Retention, DB!Request, DB!Proceed
<1>7. CASE SendControl(c)
  BY <1>7 DEF SendControl
<1> QED BY <1>1, <1>2, <1>3, <1>4, <1>5, <1>6, <1>7 DEF Manager

\* Every step of the pipeline is a step of the repository, or leaves it alone.
LEMMA StepInside == MgrType /\ [Next]_allVars => [DB!Next]_DB!vars
<1> SUFFICES ASSUME MgrType, [Next]_allVars PROVE [DB!Next]_DB!vars
  OBVIOUS
<1>1. ASSUME UNCHANGED dbVars PROVE UNCHANGED DB!vars
  BY <1>1 DEF dbVars, DB!vars, DB!resources, DB!writerVars
<1>2. ASSUME NEW i \in Ids, Admit(i) \/ Handler(i) \/ Receiver(i) PROVE [DB!Next]_DB!vars
  BY <1>1, <1>2, TrafficInside DEF DB!Next
<1>3. ASSUME NEW c \in Callers, Manager(c) PROVE [DB!Next]_DB!vars
  BY <1>1, <1>3, ManagerInside DEF DB!Next
<1>4. CASE Writing
  <2>1. DB!Writer \/ UNCHANGED dbVars
    BY <1>4 DEF Writing, Batching, OnWriteGet, OnWriteMisses, OnWriteSave, DB!Writer
  <2> QED BY <1>1, <2>1 DEF DB!Next
<1>5. CASE StoreSucceeds \/ StoreFails
  BY <1>5 DEF StoreSucceeds, StoreFails, DB!Next, DB!Writer
<1>6. CASE \E n \in Capacities : Resize(n)
  BY <1>1, <1>6 DEF Resize
<1>7. CASE UNCHANGED allVars
  BY <1>1, <1>7 DEF allVars, dbVars
<1> QED BY <1>2, <1>3, <1>4, <1>5, <1>6, <1>7 DEF Next, Step, Ids

\* Requests name exchanges in every reachable state.
LEMMA MgrTypeInvariant == Spec => []MgrType
<1>1. Init => MgrType
  BY DEF Init, MgrType, Managers, NoManager
<1> QED BY <1>1, MgrTypeStep, PTL DEF Spec

\* Handlers, receiver, callbacks and management requests use the repository only
\* through its operations, each within its guard: what the pipeline does to it is
\* a behaviour of the repository alone, whose theorems all hold inside.
THEOREM RepositoryInside == Spec => DB!Spec
<1>1. Init => DB!Init
  BY DEF Init
<1> QED BY <1>1, StepInside, MgrTypeInvariant, PTL DEF Spec, DB!Spec

\* What is proved of the repository, in every reachable state of the pipeline.
RepositoryInv == P!IInv /\ P!MInv /\ P!RInv

LEMMA RepositoryStep == RepositoryInv /\ MgrType /\ [Next]_allVars => RepositoryInv'
<1> SUFFICES ASSUME RepositoryInv, MgrType, [Next]_allVars PROVE RepositoryInv'
  OBVIOUS
<1>1. [P!Next]_P!vars
  <2>1. [DB!Next]_DB!vars
    BY StepInside
  <2>2. UNCHANGED DB!vars => UNCHANGED P!vars
    BY DEF DB!vars, P!vars, DB!resources, P!resources, DB!writerVars, P!writerVars
  <2> QED BY <2>1, <2>2, SameRepository
<1>2. P!IInv'
  BY <1>1, P!IInvStep, RepositoryAssumptions DEF RepositoryInv
<1>3. P!MInv'
  BY <1>1, P!MInvStep, RepositoryAssumptions DEF RepositoryInv
<1>4. P!RInv'
  BY <1>1, P!RInvStep, RepositoryAssumptions DEF RepositoryInv
<1> QED BY <1>2, <1>3, <1>4 DEF RepositoryInv

\* The same of the instance whose theorems are used here.
LEMMA ProvedInside == Spec => P!Spec
<1>1. Init => P!Init
  BY SameRepository DEF Init
<1>2. MgrType /\ [Next]_allVars => [P!Next]_P!vars
  <2>1. UNCHANGED DB!vars => UNCHANGED P!vars
    BY DEF DB!vars, P!vars, DB!resources, P!resources, DB!writerVars, P!writerVars
  <2> QED BY <2>1, StepInside, SameRepository
<1> QED BY <1>1, <1>2, MgrTypeInvariant, PTL DEF Spec, P!Spec

LEMMA RepositoryInvariant == Spec => []RepositoryInv
<1>1. P!Spec => []P!IInv
  BY P!IInvariant, RepositoryAssumptions
<1>2. P!Spec => []P!MInv
  BY P!MInvariant, RepositoryAssumptions
<1>3. P!Spec => []P!RInv
  BY P!RInvariant, RepositoryAssumptions
<1> QED BY <1>1, <1>2, <1>3, ProvedInside, PTL DEF RepositoryInv

\* The pipeline implements DurableHistory: with every handler, the receiver and the
\* management requests at work a row appears once, only for a reserved exchange, and
\* stays until a control operation of the writer erases it, for good.
THEOREM PipelineIsDurable == Spec => P!ImplementsHistory
<1>1. P!Spec => P!ImplementsHistory
  BY P!RepositoryIsDurable, RepositoryAssumptions
<1> QED BY <1>1, ProvedInside, PTL

-----------------------------------------------------------------------------
(* The RAM history.  evictExcess keeps the newest terminal exchanges: the  *)
(* oldest one that stays has fewer than n newer ones, and it is one more.  *)

\* Any number of terminal exchanges has an oldest.
LEMMA OldestExists ==
    ASSUME NEW S \in SUBSET Ids, S # {}
    PROVE  \E m \in S : \A j \in S \ {m} : CompletedAt[j] > CompletedAt[m]
<1> DEFINE T == {CompletedAt[i] : i \in S}
<1>0. \A i \in Ids : CompletedAt[i] \in Nat
  BY RepositoryAssumption
<1>1. T \subseteq Nat /\ T # {}
  BY <1>0
<1> HIDE DEF T
<1>2. PICK t \in T : \A u \in T : <<u, t>> \notin OpToRel(<, Nat)
  BY <1>1, NatLessThanWellFounded, WFMin
<1>3. \A u \in T : ~(u < t)
  BY <1>1, <1>2 DEF OpToRel
<1>4. PICK m \in S : t = CompletedAt[m]
  BY DEF T
<1>5. \A j \in S \ {m} : ~(CompletedAt[j] < CompletedAt[m]) /\ CompletedAt[j] # CompletedAt[m]
  BY <1>3, <1>4, TimesDistinct DEF T
<1> QED BY <1>0, <1>5

LEMMA NewestBounded ==
    ASSUME NEW S \in SUBSET Ids, NEW n \in Nat
    PROVE  Cardinality(Newest(S, n)) <= n
<1> DEFINE N == Newest(S, n)
           Newer(i) == {j \in S : CompletedAt[j] > CompletedAt[i]}
<1>1. \A R \in SUBSET Ids : IsFiniteSet(R) /\ Cardinality(R) \in Nat
  BY RepositoryAssumption, FS_Subset, FS_CardinalityType
<1>2. N \in SUBSET S /\ \A i \in N : Cardinality(Newer(i)) < n
  BY DEF Newest
<1>3. CASE N = {}
  BY <1>3, FS_EmptySet
<1>4. CASE N # {}
  <2>1. PICK m \in N : \A j \in N \ {m} : CompletedAt[j] > CompletedAt[m]
    BY <1>2, <1>4, OldestExists
  <2> HIDE DEF N
  <2>2. N \ {m} \subseteq Newer(m) /\ Newer(m) \in SUBSET Ids
    BY <1>2, <2>1
  <2>3. Cardinality(N \ {m}) <= Cardinality(Newer(m))
    BY <1>1, <2>2, FS_Subset
  <2>4. Cardinality(N) = Cardinality(N \ {m}) + 1
    <3>1. IsFiniteSet(N) /\ Cardinality(N) \in Nat
      BY <1>1, <1>2
    <3>2. Cardinality(N \ {m}) = Cardinality(N) - 1
      BY <3>1, FS_RemoveElement
    <3> QED BY <3>1, <3>2
  <2>5. Cardinality(Newer(m)) < n /\ Cardinality(Newer(m)) \in Nat /\ Cardinality(N \ {m}) \in Nat
    <3>1. N \ {m} \in SUBSET Ids
      BY <1>2
    <3> QED BY <1>1, <1>2, <2>2, <3>1
  <2> QED BY <2>3, <2>4, <2>5 DEF N
<1> QED BY <1>3, <1>4

\* What stays after an eviction is the newest of what was there.
LEMMA Evicted ==
    ASSUME NEW memory, NEW n
    PROVE  /\ Ended(EvictExcess(memory, n)) = Newest(Ended(memory), n)
           /\ \A i \in Ids : EvictExcess(memory, n)[i] =
                 IF i \in Ended(memory) \ Newest(Ended(memory), n) THEN Absent ELSE memory[i]
<1>1. ~IsTerminal(Absent)
  BY DEF IsTerminal, Terminal, Absent
<1>2. Newest(Ended(memory), n) \subseteq Ended(memory)
  BY DEF Newest
<1>3. \A i \in Ids : EvictExcess(memory, n)[i] =
                 IF i \in Ended(memory) \ Newest(Ended(memory), n) THEN Absent ELSE memory[i]
  BY DEF EvictExcess, Without
<1>4. Ended(EvictExcess(memory, n)) = Newest(Ended(memory), n)
  BY <1>1, <1>2, <1>3 DEF Ended
<1> QED BY <1>3, <1>4

\* An evicted exchange is older than every terminal one that stays.
LEMMA EvictedIsOlder ==
    ASSUME NEW S \in SUBSET Ids, NEW n \in Nat,
           NEW i \in S \ Newest(S, n), NEW j \in Newest(S, n)
    PROVE  CompletedAt[i] < CompletedAt[j]
<1> DEFINE Newer(k) == {l \in S : CompletedAt[l] > CompletedAt[k]}
<1>1. j \in S /\ ~(Cardinality(Newer(i)) < n) /\ Cardinality(Newer(j)) < n
  BY DEF Newest
<1>2. \A k \in Ids : CompletedAt[k] \in Nat
  BY RepositoryAssumption
<1> SUFFICES ASSUME ~(CompletedAt[i] < CompletedAt[j]) PROVE FALSE
  OBVIOUS
<1>3. Newer(i) \subseteq Newer(j)
  BY <1>1, <1>2
<1>4. /\ IsFiniteSet(Newer(j)) /\ Cardinality(Newer(i)) \in Nat /\ Cardinality(Newer(j)) \in Nat
      /\ Cardinality(Newer(i)) <= Cardinality(Newer(j))
  <2>1. Newer(i) \in SUBSET Ids /\ Newer(j) \in SUBSET Ids
    OBVIOUS
  <2>2. IsFiniteSet(Newer(i)) /\ IsFiniteSet(Newer(j))
    BY <2>1, RepositoryAssumption, FS_Subset
  <2>3. Cardinality(Newer(i)) <= Cardinality(Newer(j))
    BY <1>3, <2>2, FS_Subset
  <2> QED BY <2>2, <2>3, FS_CardinalityType
<1> QED BY <1>1, <1>4

-----------------------------------------------------------------------------
(* One exchange: where its handler is, what it has reserved and what its   *)
(* copies show.                                                            *)

LocalType ==
    /\ pc \in [Ids -> Pcs] /\ xch \in [Ids -> Copies] /\ ram \in [Ids -> Copies]
    /\ hook \in Copies /\ capacity \in Capacities /\ receiver \in Udp \cup {NoExchange}
    /\ deleted \subseteq Ids /\ usesSQLite \in BOOLEAN

\* With SQLite an exchange under way holds its reservation until it is committed
\* or cancelled; without, nothing is ever reserved.
Reserved(i) ==
    /\ ~usesSQLite => st[i] = "none"
    /\ pc[i] \in {"new", "admitted"} => st[i] = "none"
    /\ i \in Http /\ usesSQLite
         /\ pc[i] \in {"start", "read", "forward", "handle", "respond", "ended"} => st[i] = "held"
    /\ pc[i] = "commit" => st[i] = "held"
    /\ i \in Udp => pc[i] \in {"new", "ended", "commit", "done"}
    /\ i \in Udp /\ pc[i] = "ended" => st[i] \in {"none", "held"}
    /\ pc[i] \in {"release", "done"} => st[i] # "held"

\* A handler changes its copy at most five times, and never a terminal one.
Progress(i) ==
    /\ pc[i] \in {"new", "admitted", "start"} => xch[i] = Absent
    /\ pc[i] \in {"read", "forward", "handle", "respond"} => xch[i].state \in Active
    /\ pc[i] \in {"ended", "commit"} => IsTerminal(xch[i])
    /\ pc[i] \in {"cancel", "release", "done"} => xch[i].state \notin Active
    /\ pc[i] = "read" => xch[i].rev = 1
    /\ pc[i] = "forward" => xch[i].rev = 2
    /\ pc[i] = "handle" => xch[i].rev <= 3
    /\ pc[i] = "respond" => xch[i].rev <= 4
    /\ xch[i].pers \in {"none", "queued"}

\* The copy in RAM is the handler's, except for what OnWrite reported of it.
Mirrored(i) ==
    /\ xch[i].state = "absent" => ram[i] = Absent
    /\ i \in Udp /\ pc[i] = "ended" => ram[i] = Absent
    /\ ram[i] # Absent => ram[i].state = xch[i].state /\ ram[i].rev = xch[i].rev
    /\ ram[i].pers \in {"persisted", "failed"} => st[i] \in {"persisted", "failed"}

Sound(i) == Reserved(i) /\ Progress(i) /\ Mirrored(i)

\* An exchange whose handler rests stays sound while the writer moves it on and
\* its copy stays or leaves RAM.
LEMMA Rests ==
    ASSUME NEW j \in Ids, Sound(j), UNCHANGED usesSQLite,
           pc'[j] = pc[j], xch'[j] = xch[j], P!MovesOn(st[j], st'[j]),
           ram'[j] \in {Absent, ram[j]}
    PROVE  Sound(j)'
<1>1. Reserved(j)'
  BY DEF Sound, Reserved, P!MovesOn
<1>2. Progress(j)'
  BY DEF Sound, Progress, IsTerminal
<1>3. Mirrored(j)'
  BY DEF Sound, Mirrored, P!MovesOn, Absent
<1> QED BY <1>1, <1>2, <1>3 DEF Sound

\* Save leaves every other copy where it is, or evicts it.
LEMMA Saves ==
    ASSUME LocalType, NEW i \in Ids, NEW copy \in Copies, Save(i, copy)
    PROVE  /\ ram' \in [Ids -> Copies]
           /\ ram'[i] \in {Absent, copy}
           /\ \A j \in Ids \ {i} : ram'[j] \in {Absent, ram[j]}
<1> DEFINE memory == [ram EXCEPT ![i] = copy]
<1>1. ram' = EvictExcess(memory, capacity) /\ memory \in [Ids -> Copies]
  BY DEF Save, LocalType
<1>2. memory[i] = copy /\ \A j \in Ids \ {i} : memory[j] = ram[j]
  BY DEF LocalType
<1> HIDE DEF memory
<1>3. \A j \in Ids : ram'[j] \in {Absent, memory[j]}
  BY <1>1, Evicted
<1>4. Absent \in Copies
  BY DEF Absent, Copies, MaxRevision, Flags
<1>5. \A j \in Ids : ram'[j] \in Copies
  BY <1>1, <1>3, <1>4
<1>6. ram' \in [Ids -> Copies]
  BY <1>1, <1>5 DEF EvictExcess, Without
<1> QED BY <1>2, <1>3, <1>6

\* A step on exchange i leaves every other where it was, or evicts its copy.
Only(i) == \A j \in Ids \ {i} :
    pc'[j] = pc[j] /\ xch'[j] = xch[j] /\ st'[j] = st[j] /\ ram'[j] \in {Absent, ram[j]}

\* The handler's copy changes and is saved.
LEMMA Updates ==
    ASSUME LocalType, NEW h \in Http, NEW copy \in Copies, NEW to \in Pcs,
           copy.state # "absent", copy.pers \in {"none", "queued"},
           Update(h, copy), Goto(h, to),
           UNCHANGED <<st, hook, capacity, receiver, deleted, usesSQLite>>
    PROVE  /\ LocalType' /\ Mirrored(h)' /\ Only(h)
           /\ pc'[h] = to /\ xch'[h] = copy /\ st'[h] = st[h]
<1>1. h \in Ids /\ h \notin Udp
  BY PipelineAssumption DEF Ids
<1>2. /\ ram' \in [Ids -> Copies] /\ ram'[h] \in {Absent, copy}
      /\ \A j \in Ids \ {h} : ram'[j] \in {Absent, ram[j]}
  BY <1>1, Saves DEF Update
<1>3. pc' = [pc EXCEPT ![h] = to] /\ xch' = [xch EXCEPT ![h] = copy]
  BY DEF Goto, Update
<1>4. LocalType' /\ Only(h) /\ pc'[h] = to /\ xch'[h] = copy
  BY <1>1, <1>2, <1>3 DEF LocalType, Only
<1>5. Mirrored(h)'
  BY <1>1, <1>2, <1>4 DEF Mirrored, Absent
<1> QED BY <1>4, <1>5

\* The handler goes on without touching its copy.
LEMMA GoesOn ==
    ASSUME LocalType, st \in [Ids -> P!Stages], NEW i \in Ids, Mirrored(i),
           NEW to \in Pcs, NEW stage, Goto(i, to), st' = [st EXCEPT ![i] = stage],
           i \in Udp => to # "ended", st[i] \notin {"persisted", "failed"} \/ stage = st[i],
           UNCHANGED <<xch, ram, hook, capacity, deleted, usesSQLite>>,
           receiver' \in Udp \cup {NoExchange}
    PROVE  /\ LocalType' /\ Mirrored(i)' /\ Only(i)
           /\ pc'[i] = to /\ xch'[i] = xch[i] /\ st'[i] = stage
<1>1. pc' = [pc EXCEPT ![i] = to]
  BY DEF Goto
<1>2. LocalType' /\ Only(i) /\ pc'[i] = to /\ xch'[i] = xch[i] /\ st'[i] = stage
  BY <1>1 DEF LocalType, Only
<1>3. Mirrored(i)'
  BY <1>2 DEF Mirrored
<1> QED BY <1>2, <1>3

\* What the changes to a copy in ServeHTTP come to.
LEMMA CopyCounts ==
    ASSUME NEW copy \in Copies, copy.rev < 5
    PROVE  LET next == [copy EXCEPT !.rev = @ + 1]
           IN  /\ next \in Copies
               /\ next.state = copy.state /\ next.rev = copy.rev + 1 /\ next.pers = copy.pers
  BY DEF Copies, MaxRevision

LEMMA CopyShows ==
    ASSUME NEW copy \in Copies, NEW pers \in Flags
    PROVE  LET next == [copy EXCEPT !.pers = pers]
           IN  /\ next \in Copies
               /\ next.state = copy.state /\ next.rev = copy.rev /\ next.pers = pers
  BY DEF Copies

\* What is known of one exchange before its handler or the receiver takes a step.
Before(i) == LocalType /\ RepositoryInv /\ Sound(i) /\ UNCHANGED usesSQLite

After(i) == LocalType' /\ Sound(i)' /\ Only(i)

\* The stages are those of the repository.
LEMMA StagesTyped == RepositoryInv => st \in [Ids -> P!Stages]
  BY DEF RepositoryInv, P!IInv, P!TypeInv, P!TypeOK

\* The channel has room for whoever holds a reservation.
LEMMA CommitQueues ==
    ASSUME RepositoryInv, NEW i \in Ids, DB!Commit(i)
    PROVE  st[i] = "held" /\ st' = [st EXCEPT ![i] = "queued"] /\ Len(writes) < QueueCount
<1>1. st[i] = "held"
  BY DEF DB!Commit
<1>2. Len(writes) < QueueCount
  BY <1>1, P!HeldFindsRoom, RepositoryAssumptions DEF RepositoryInv
<1> QED BY <1>1, <1>2 DEF DB!Commit

\* Admission, the reservation, and the ways a handler ends.
LEMMA BoundarySound ==
    ASSUME NEW h \in Http, Before(h),
           \/ Admit(h) \/ ReservePersistence(h) \/ StartFails(h)
           \/ CommitExchange(h) \/ CancelReservation(h) \/ ReleaseSlot(h)
    PROVE  After(h)
<1> USE DEF Before, After, Sound
<1>0. /\ h \in Ids /\ h \notin Udp /\ st \in [Ids -> P!Stages]
      /\ UNCHANGED st => st' = [st EXCEPT ![h] = st[h]]
  BY StagesTyped, PipelineAssumption DEF Ids
<1>1. ASSUME NEW to \in Pcs, NEW stage, Goto(h, to), st' = [st EXCEPT ![h] = stage],
             st[h] \notin {"persisted", "failed"} \/ stage = st[h],
             UNCHANGED <<xch, ram, hook, capacity, deleted, receiver>>
      PROVE  /\ LocalType' /\ Mirrored(h)' /\ Only(h)
             /\ pc'[h] = to /\ xch'[h] = xch[h] /\ st'[h] = stage
  <2>1. receiver' \in Udp \cup {NoExchange}
    BY <1>1 DEF LocalType
  <2> QED BY <1>0, <1>1, <2>1, GoesOn
<1>2. Absent.state = "absent" /\ Absent.pers = "none" /\ "absent" \notin Active
  BY DEF Absent, Active
<1>3. CASE Admit(h)
  <2>1. PICK to \in {"admitted", "done"} : Goto(h, to)
    BY <1>3 DEF Admit
  <2>2. pc[h] = "new" /\ UNCHANGED <<st, xch, ram, hook, capacity, deleted, receiver>>
    BY <1>3 DEF Admit, dbVars, managerVars
  <2>3. /\ LocalType' /\ Mirrored(h)' /\ Only(h)
        /\ pc'[h] = to /\ xch'[h] = xch[h] /\ st'[h] = st[h]
    BY <1>0, <1>1, <2>1, <2>2 DEF Pcs
  <2>4. Reserved(h)'
    BY <1>0, <2>1, <2>2, <2>3 DEF Reserved
  <2>5. Progress(h)'
    BY <1>2, <2>1, <2>2, <2>3 DEF Progress
  <2> QED BY <2>3, <2>4, <2>5
<1>4. CASE ReservePersistence(h)
  <2>1. pc[h] = "admitted" /\ UNCHANGED <<xch, ram, hook, capacity, deleted, receiver>>
    BY <1>4 DEF ReservePersistence, managerVars
  <2>2. st[h] = "none"
    BY <2>1 DEF Reserved
  <2>3. PICK to \in {"start", "release"}, stage \in {"none", "held"} :
            /\ Goto(h, to) /\ st' = [st EXCEPT ![h] = stage]
            /\ to = "start" => (stage = "held" <=> usesSQLite)
            /\ to = "release" => stage = "none"
            /\ stage = "held" => usesSQLite
    <3>1. CASE usesSQLite /\ DB!Reserve(h) /\ Goto(h, "start")
      BY <3>1 DEF DB!Reserve
    <3>2. CASE usesSQLite /\ Goto(h, "release") /\ UNCHANGED dbVars
      BY <1>0, <2>2, <3>2 DEF dbVars
    <3>3. CASE ~usesSQLite /\ Goto(h, "start") /\ UNCHANGED dbVars
      BY <1>0, <2>2, <3>3 DEF dbVars
    <3> QED BY <1>4, <3>1, <3>2, <3>3 DEF ReservePersistence
  <2>4. /\ LocalType' /\ Mirrored(h)' /\ Only(h)
        /\ pc'[h] = to /\ xch'[h] = xch[h] /\ st'[h] = stage
    BY <1>1, <2>1, <2>2, <2>3 DEF Pcs
  <2>5. Reserved(h)'
    BY <1>0, <2>3, <2>4 DEF Reserved
  <2>6. Progress(h)'
    BY <1>2, <2>1, <2>3, <2>4 DEF Progress
  <2> QED BY <2>4, <2>5, <2>6
<1>5. CASE StartFails(h)
  <2>1. /\ pc[h] = "start" /\ Goto(h, "cancel")
        /\ UNCHANGED <<st, xch, ram, hook, capacity, deleted, receiver>>
    BY <1>5 DEF StartFails, dbVars, managerVars
  <2>2. /\ LocalType' /\ Mirrored(h)' /\ Only(h)
        /\ pc'[h] = "cancel" /\ xch'[h] = xch[h] /\ st'[h] = st[h]
    BY <1>0, <1>1, <2>1 DEF Pcs
  <2>3. Reserved(h)'
    BY <1>0, <2>1, <2>2 DEF Reserved
  <2>4. Progress(h)'
    BY <1>2, <2>1, <2>2 DEF Progress
  <2> QED BY <2>2, <2>3, <2>4
<1>6. CASE CommitExchange(h)
  <2>1. /\ pc[h] = "commit" /\ Goto(h, "cancel") /\ DB!Commit(h) /\ Unqueued(h)
        /\ UNCHANGED <<xch, hook, capacity, deleted, receiver>>
    BY <1>6 DEF CommitExchange, managerVars
  <2>2. st[h] = "held" /\ st' = [st EXCEPT ![h] = "queued"] /\ UNCHANGED ram
    BY <1>0, <2>1, CommitQueues DEF Unqueued
  <2>3. /\ LocalType' /\ Mirrored(h)' /\ Only(h)
        /\ pc'[h] = "cancel" /\ xch'[h] = xch[h] /\ st'[h] = "queued"
    BY <1>1, <2>1, <2>2 DEF Pcs
  <2>4. Reserved(h)'
    BY <1>0, <2>1, <2>2, <2>3 DEF Reserved
  <2>5. Progress(h)'
    BY <2>1, <2>3 DEF Progress, IsTerminal, Terminal, Active
  <2> QED BY <2>3, <2>4, <2>5
<1>7. CASE CancelReservation(h)
  <2>1. /\ pc[h] = "cancel" /\ Goto(h, "release")
        /\ UNCHANGED <<xch, ram, hook, capacity, deleted, receiver>>
    BY <1>7 DEF CancelReservation, managerVars
  <2>2. PICK stage : /\ st' = [st EXCEPT ![h] = stage]
                     /\ stage = IF st[h] = "held" THEN "cancelled" ELSE st[h]
    <3>1. CASE st[h] = "held"
      BY <1>7, <3>1 DEF CancelReservation, DB!Cancel
    <3>2. CASE st[h] # "held"
      BY <1>0, <1>7, <3>2 DEF CancelReservation, dbVars
    <3> QED BY <3>1, <3>2
  <2>3. /\ LocalType' /\ Mirrored(h)' /\ Only(h)
        /\ pc'[h] = "release" /\ xch'[h] = xch[h] /\ st'[h] = stage
    BY <1>1, <2>1, <2>2 DEF Pcs
  <2>4. Reserved(h)'
    BY <1>0, <2>1, <2>2, <2>3 DEF Reserved
  <2>5. Progress(h)'
    BY <2>1, <2>3 DEF Progress
  <2> QED BY <2>3, <2>4, <2>5
<1>8. CASE ReleaseSlot(h)
  <2>1. /\ pc[h] = "release" /\ Goto(h, "done")
        /\ UNCHANGED <<st, xch, ram, hook, capacity, deleted, receiver>>
    BY <1>8 DEF ReleaseSlot, dbVars, managerVars
  <2>2. /\ LocalType' /\ Mirrored(h)' /\ Only(h)
        /\ pc'[h] = "done" /\ xch'[h] = xch[h] /\ st'[h] = st[h]
    BY <1>0, <1>1, <2>1 DEF Pcs
  <2>3. Reserved(h)'
    BY <1>0, <2>1, <2>2 DEF Reserved
  <2>4. Progress(h)'
    BY <2>1, <2>2 DEF Progress
  <2> QED BY <2>2, <2>3, <2>4
<1> QED BY <1>3, <1>4, <1>5, <1>6, <1>7, <1>8

\* The handler's work on its copy, from the first save to the queued one.
LEMMA WorkSound ==
    ASSUME NEW h \in Http, Before(h),
           \/ StartExchange(h) \/ Fail(h) \/ ReadBody(h) \/ Forward(h) \/ Handle(h)
           \/ Complete(h) \/ MarkQueued(h)
    PROVE  After(h)
<1> USE DEF Before, After, Sound
<1>0. /\ h \in Ids /\ h \notin Udp /\ st \in [Ids -> P!Stages]
      /\ UNCHANGED st => st' = [st EXCEPT ![h] = st[h]]
  BY StagesTyped, PipelineAssumption DEF Ids
<1>1. xch[h] \in Copies /\ xch[h].rev \in Nat
  BY <1>0 DEF LocalType, Copies, MaxRevision
<1>2. ASSUME NEW copy \in Copies, NEW to \in Pcs, copy.state # "absent", copy.pers = xch[h].pers,
             Update(h, copy), Goto(h, to),
             UNCHANGED <<dbVars, receiver, hook, capacity, managerVars>>
      PROVE  /\ LocalType' /\ Mirrored(h)' /\ Only(h)
             /\ pc'[h] = to /\ xch'[h] = copy /\ st'[h] = st[h]
  <2>1. copy.pers \in {"none", "queued"}
    BY <1>2 DEF Progress
  <2>2. UNCHANGED <<st, hook, capacity, receiver, deleted, usesSQLite>>
    BY <1>2 DEF dbVars, managerVars
  <2> QED BY <1>2, <2>1, <2>2, Updates
<1>3. CASE StartExchange(h)
  <2> DEFINE copy == [state |-> "receiving", rev |-> 1, pers |-> "none"]
  <2>1. copy \in Copies /\ copy.state = "receiving" /\ copy.rev = 1 /\ copy.pers = "none"
    BY DEF Copies, MaxRevision, Active, Flags
  <2>2. pc[h] = "start" /\ xch[h].pers = "none"
    BY <1>3 DEF StartExchange, Progress, Absent
  <2>3. Update(h, copy) /\ Goto(h, "read")
        /\ UNCHANGED <<dbVars, receiver, hook, capacity, managerVars>>
    BY <1>3 DEF StartExchange
  <2> HIDE DEF copy
  <2>4. /\ LocalType' /\ Mirrored(h)' /\ Only(h)
        /\ pc'[h] = "read" /\ xch'[h] = copy /\ st'[h] = st[h]
    BY <1>2, <2>1, <2>2, <2>3 DEF Pcs
  <2>5. Reserved(h)'
    BY <1>0, <2>2, <2>4 DEF Reserved
  <2>6. Progress(h)'
    BY <2>1, <2>4 DEF Progress, Active
  <2> QED BY <2>4, <2>5, <2>6
<1>4. ASSUME NEW copy \in Copies, NEW to \in Pcs,
             Update(h, copy), Goto(h, to),
             UNCHANGED <<dbVars, receiver, hook, capacity, managerVars>>,
             pc[h] \in {"read", "forward", "handle", "respond"},
             to \in {"forward", "handle", "respond", "ended"},
             copy.pers = xch[h].pers, copy.rev = xch[h].rev + 1,
             to = "ended" => copy.state \in Terminal,
             to # "ended" => copy.state \in Active,
             to = "forward" => pc[h] = "read",
             to = "handle" => pc[h] \in {"read", "forward"},
             to = "respond" => pc[h] = "handle"
      PROVE  After(h)
  <2>1. copy.state # "absent"
    BY <1>4 DEF Active, Terminal
  <2>2. /\ LocalType' /\ Mirrored(h)' /\ Only(h)
        /\ pc'[h] = to /\ xch'[h] = copy /\ st'[h] = st[h]
    BY <1>2, <1>4, <2>1
  <2>3. Reserved(h)'
    BY <1>0, <1>4, <2>2 DEF Reserved
  <2>4. Progress(h)'
    BY <1>1, <1>4, <2>2 DEF Progress, IsTerminal
  <2> QED BY <2>2, <2>3, <2>4
<1>5. pc[h] \in {"read", "forward", "handle", "respond"} => xch[h].rev < 5 /\ xch[h].state \in Active
  BY <1>1 DEF Progress
<1>6. ASSUME NEW state \in Active \cup Terminal,
             pc[h] \in {"read", "forward", "handle", "respond"}
      PROVE  /\ Moved(h, state) \in Copies /\ Moved(h, state).state = state
             /\ Moved(h, state).pers = xch[h].pers /\ Moved(h, state).rev = xch[h].rev + 1
  <2>1. xch[h].rev + 1 \in 0..5 /\ xch[h].pers \in Flags
    BY <1>1, <1>5, <1>6 DEF Copies
  <2> QED BY <2>1 DEF Moved, Copies, MaxRevision
<1>7. CASE Fail(h)
  <2>1. PICK state \in {"failed", "cancelled"} :
            pc[h] \in {"read", "handle", "respond"} /\ Update(h, Moved(h, state))
    BY <1>7 DEF Fail
  <2>2. Goto(h, "ended") /\ UNCHANGED <<dbVars, receiver, hook, capacity, managerVars>>
    BY <1>7 DEF Fail
  <2>3. state \in Terminal
    BY DEF Terminal
  <2> QED BY <1>4, <1>6, <2>1, <2>2, <2>3 DEF Pcs
<1>8. CASE ReadBody(h)
  <2> DEFINE copy == [xch[h] EXCEPT !.rev = @ + 1]
  <2>1. pc[h] = "read" /\ Update(h, copy)
        /\ UNCHANGED <<dbVars, receiver, hook, capacity, managerVars>>
    BY <1>8 DEF ReadBody
  <2>2. copy \in Copies /\ copy.state = xch[h].state /\ copy.rev = xch[h].rev + 1
        /\ copy.pers = xch[h].pers
    BY <1>1, <1>5, <2>1, CopyCounts
  <2>3. PICK to \in {"forward", "handle"} : Goto(h, to)
    BY <1>8 DEF ReadBody
  <2> HIDE DEF copy
  <2> QED BY <1>4, <1>5, <2>1, <2>2, <2>3 DEF Pcs
<1>9. CASE Forward(h)
  <2>1. pc[h] = "forward" /\ Update(h, Moved(h, "forwarding")) /\ Goto(h, "handle")
        /\ UNCHANGED <<dbVars, receiver, hook, capacity, managerVars>>
    BY <1>9 DEF Forward
  <2>2. "forwarding" \in Active
    BY DEF Active
  <2> QED BY <1>4, <1>6, <2>1, <2>2 DEF Pcs
<1>10. CASE Handle(h)
  <2>1. pc[h] = "handle" /\ Goto(h, "respond")
        /\ UNCHANGED <<dbVars, receiver, hook, capacity, managerVars>>
    BY <1>10 DEF Handle
  <2>2. CASE h \in Proxied
    <3> DEFINE copy == [xch[h] EXCEPT !.rev = @ + 1]
    <3>1. Update(h, copy)
      BY <1>10, <2>2 DEF Handle
    <3>2. copy \in Copies /\ copy.state = xch[h].state /\ copy.rev = xch[h].rev + 1
          /\ copy.pers = xch[h].pers
      BY <1>1, <1>5, <2>1, CopyCounts
    <3> HIDE DEF copy
    <3> QED BY <1>4, <1>5, <2>1, <3>1, <3>2 DEF Pcs
  <2>3. CASE h \notin Proxied
    <3>1. UNCHANGED <<st, xch, ram, hook, capacity, deleted, receiver, usesSQLite>>
      BY <1>10, <2>3 DEF Handle, dbVars, managerVars
    <3>2. receiver' \in Udp \cup {NoExchange}
      BY <3>1 DEF LocalType
    <3>3. /\ LocalType' /\ Mirrored(h)' /\ Only(h)
          /\ pc'[h] = "respond" /\ xch'[h] = xch[h] /\ st'[h] = st[h]
      BY <1>0, <2>1, <3>1, <3>2, GoesOn DEF Pcs
    <3>4. Reserved(h)'
      BY <1>0, <2>1, <3>1, <3>3 DEF Reserved
    <3>5. Progress(h)'
      BY <1>1, <2>1, <3>3 DEF Progress
    <3> QED BY <3>3, <3>4, <3>5
  <2> QED BY <2>2, <2>3
<1>11. CASE Complete(h)
  <2>1. pc[h] = "respond" /\ Update(h, Moved(h, "completed")) /\ Goto(h, "ended")
        /\ UNCHANGED <<dbVars, receiver, hook, capacity, managerVars>>
    BY <1>11 DEF Complete
  <2>2. "completed" \in Terminal
    BY DEF Terminal
  <2> QED BY <1>4, <1>6, <2>1, <2>2 DEF Pcs
<1>12. CASE MarkQueued(h)
  <2>1. pc[h] = "ended" /\ UNCHANGED <<st, hook, capacity, deleted, receiver>>
    BY <1>12 DEF MarkQueued, dbVars, managerVars
  <2>2. CASE usesSQLite
    <3> DEFINE copy == [xch[h] EXCEPT !.pers = "queued"]
    <3>1. Update(h, copy) /\ Goto(h, "commit")
      BY <1>12, <2>2 DEF MarkQueued
    <3>2. "queued" \in Flags
      BY DEF Flags
    <3>3. copy \in Copies /\ copy.state = xch[h].state /\ copy.rev = xch[h].rev
          /\ copy.pers = "queued"
      BY <1>1, <3>2, CopyShows
    <3> HIDE DEF copy
    <3>4. copy.state \in Terminal /\ copy.state # "absent"
      BY <2>1, <3>3 DEF Progress, IsTerminal, Terminal
    <3>5. /\ LocalType' /\ Mirrored(h)' /\ Only(h)
          /\ pc'[h] = "commit" /\ xch'[h] = copy /\ st'[h] = st[h]
      BY <2>1, <3>1, <3>3, <3>4, Updates DEF Pcs
    <3>6. Reserved(h)'
      BY <1>0, <2>1, <2>2, <3>5 DEF Reserved
    <3>7. Progress(h)'
      BY <3>3, <3>4, <3>5 DEF Progress, IsTerminal
    <3> QED BY <3>5, <3>6, <3>7
  <2>3. CASE ~usesSQLite
    <3>1. Goto(h, "release") /\ UNCHANGED <<xch, ram, usesSQLite>>
      BY <1>12, <2>3 DEF MarkQueued
    <3>2. receiver' \in Udp \cup {NoExchange}
      BY <2>1 DEF LocalType
    <3>3. /\ LocalType' /\ Mirrored(h)' /\ Only(h)
          /\ pc'[h] = "release" /\ xch'[h] = xch[h] /\ st'[h] = st[h]
      BY <1>0, <2>1, <3>1, <3>2, GoesOn DEF Pcs
    <3>4. Reserved(h)'
      BY <1>0, <2>1, <2>3, <3>3 DEF Reserved
    <3>5. Progress(h)'
      BY <1>1, <2>1, <3>3 DEF Progress, IsTerminal, Terminal, Active
    <3> QED BY <3>3, <3>4, <3>5
  <2> QED BY <2>2, <2>3
<1> QED BY <1>3, <1>7, <1>8, <1>9, <1>10, <1>11, <1>12

\* The UDP receiver builds a copy, saves it and commits it.
LEMMA ReceiverSound ==
    ASSUME NEW d \in Udp, Before(d), Receiver(d)
    PROVE  After(d)
<1> USE DEF Before, After, Sound
<1>0. /\ d \in Ids /\ d \notin Http /\ st \in [Ids -> P!Stages]
      /\ UNCHANGED st => st' = [st EXCEPT ![d] = st[d]]
  BY StagesTyped, PipelineAssumption DEF Ids
<1>1. Absent.state = "absent" /\ Absent.pers = "none"
  BY DEF Absent
<1>2. CASE ReceiveDatagram(d)
  <2>1. /\ pc[d] = "new" /\ receiver' = d /\ Goto(d, "ended")
        /\ UNCHANGED <<ram, hook, capacity, deleted>>
    BY <1>2 DEF ReceiveDatagram, managerVars
  <2>2. ram[d] = Absent /\ st[d] = "none"
    BY <1>1, <2>1 DEF Progress, Mirrored, Reserved
  <2>3. PICK copy \in Received({"completed", "discarded"}, "queued")
                        \cup Received({"completed", "discarded"}, "none") :
            xch' = [xch EXCEPT ![d] = copy]
    BY <1>2 DEF ReceiveDatagram, Received
  <2>4. PICK stage \in {"none", "held"} :
            st' = [st EXCEPT ![d] = stage] /\ (stage = "held" => usesSQLite)
    <3>1. CASE usesSQLite /\ DB!Reserve(d)
      BY <3>1 DEF DB!Reserve
    <3>2. CASE UNCHANGED dbVars
      BY <1>0, <2>2, <3>2 DEF dbVars
    <3> QED BY <1>2, <3>1, <3>2 DEF ReceiveDatagram
  <2>5. /\ copy \in Copies /\ IsTerminal(copy) /\ copy.rev = 1 /\ copy.state # "absent"
        /\ copy.pers \in {"none", "queued"}
    BY <2>3 DEF Received, Copies, IsTerminal, Terminal, Flags, MaxRevision
  <2>6. /\ pc' = [pc EXCEPT ![d] = "ended"] /\ pc'[d] = "ended" /\ xch'[d] = copy
        /\ st'[d] = stage /\ LocalType' /\ Only(d)
    BY <1>0, <2>1, <2>3, <2>5, <2>4 DEF Goto, LocalType, Only, Pcs
  <2>7. Reserved(d)'
    BY <1>0, <2>2, <2>4, <2>6 DEF Reserved
  <2>8. Progress(d)'
    BY <2>5, <2>6 DEF Progress
  <2>9. Mirrored(d)'
    BY <1>1, <2>1, <2>2, <2>6 DEF Mirrored
  <2> QED BY <2>6, <2>7, <2>8, <2>9
<1>3. CASE SaveDatagram(d)
  <2>1. /\ pc[d] = "ended" /\ Save(d, xch[d])
        /\ UNCHANGED <<st, xch, hook, capacity, deleted>>
    BY <1>3 DEF SaveDatagram, dbVars, managerVars
  <2>2. xch[d] \in Copies /\ IsTerminal(xch[d])
    BY <1>0, <2>1 DEF LocalType, Progress
  <2>3. /\ ram' \in [Ids -> Copies] /\ ram'[d] \in {Absent, xch[d]}
        /\ \A j \in Ids \ {d} : ram'[j] \in {Absent, ram[j]}
    BY <1>0, <2>1, <2>2, Saves
  <2>4. PICK to \in {"commit", "done"} :
            /\ Goto(d, to) /\ (to = "commit" <=> st[d] = "held")
            /\ receiver' \in Udp \cup {NoExchange}
    BY <1>3 DEF SaveDatagram, LocalType
  <2>5. pc'[d] = to /\ xch'[d] = xch[d] /\ st'[d] = st[d] /\ LocalType' /\ Only(d)
    BY <1>0, <2>1, <2>3, <2>4 DEF Goto, LocalType, Only, Pcs
  <2>6. Reserved(d)'
    BY <1>0, <2>1, <2>4, <2>5 DEF Reserved
  <2>7. Progress(d)'
    BY <2>1, <2>2, <2>4, <2>5 DEF Progress, IsTerminal, Terminal, Active
  <2>8. Mirrored(d)'
    <3>1. xch[d].pers \in {"none", "queued"} /\ xch[d].state # "absent"
      BY <2>2 DEF Progress, IsTerminal, Terminal
    <3> QED BY <1>1, <2>3, <2>4, <2>5, <3>1 DEF Mirrored
  <2> QED BY <2>5, <2>6, <2>7, <2>8
<1>4. CASE CommitDatagram(d)
  <2>1. /\ pc[d] = "commit" /\ Goto(d, "done") /\ DB!Commit(d) /\ Unqueued(d)
        /\ receiver' = NoExchange
        /\ UNCHANGED <<xch, hook, capacity, deleted>>
    BY <1>4 DEF CommitDatagram, managerVars
  <2>2. st[d] = "held" /\ st' = [st EXCEPT ![d] = "queued"] /\ UNCHANGED ram
    BY <1>0, <2>1, CommitQueues DEF Unqueued
  <2>3. /\ LocalType' /\ Mirrored(d)' /\ Only(d)
        /\ pc'[d] = "done" /\ xch'[d] = xch[d] /\ st'[d] = "queued"
    BY <1>0, <2>1, <2>2, GoesOn DEF Pcs
  <2>4. Reserved(d)'
    BY <1>0, <2>1, <2>2, <2>3 DEF Reserved
  <2>5. Progress(d)'
    BY <2>1, <2>3 DEF Progress, IsTerminal, Terminal, Active
  <2> QED BY <2>3, <2>4, <2>5
<1> QED BY <1>2, <1>3, <1>4 DEF Receiver

-----------------------------------------------------------------------------
(* The report.  Between OnWrite's Get and its Save the exchange it reports *)
(* is settled for its handler: the copy in hand is not an older view.      *)

Hooked ==
    hook # Absent =>
        /\ wpc = "notify" /\ hook.pers = P!Outcome /\ hook.state # "absent"
        /\ hook.state = xch[Head(batch)].state /\ hook.rev = xch[Head(batch)].rev

AllSound == \A i \in Ids : Sound(i)

\* A handler that has nothing left to save, nor to settle.
Late(i) == /\ pc[i] \in {"ended", "commit", "cancel", "release", "done"}
           /\ i \in Udp => pc[i] # "ended"

\* The handler or the receiver has a step to take on exchange i.
Acts(i) == (i \in Http /\ (Admit(i) \/ Handler(i))) \/ (i \in Udp /\ Receiver(i))

LEMMA ActsSound ==
    ASSUME NEW i \in Ids, Before(i), Acts(i)
    PROVE  After(i) /\ UNCHANGED <<hook, capacity, mgr, deleted, rows, wpc, batch, batchOk, control, call>>
<1>1. After(i)
  BY BoundarySound, WorkSound, ReceiverSound DEF Acts, Handler
<1>2. DB!Traffic(i) \/ UNCHANGED dbVars
  BY TrafficInside DEF Acts
<1>3. UNCHANGED <<rows, wpc, batch, batchOk, control, call>>
  BY <1>2 DEF DB!Traffic, DB!Reserve, DB!Commit, DB!Cancel, DB!writerVars, dbVars
<1>4. UNCHANGED <<hook, capacity, mgr, deleted>>
  BY DEF Acts, Admit, Handler, Receiver, ReservePersistence, StartExchange, StartFails, Fail,
         ReadBody, Forward, Handle, Complete, MarkQueued, CommitExchange, CancelReservation,
         ReleaseSlot, ReceiveDatagram, SaveDatagram, CommitDatagram, managerVars
<1> QED BY <1>1, <1>3, <1>4

\* Once its reservation is settled a handler saves nothing more.
LEMMA SettledSavesNothing ==
    ASSUME NEW i \in Ids, Before(i), Acts(i), Late(i), st[i] # "held"
    PROVE  UNCHANGED <<xch, ram>> /\ st'[i] = st[i] /\ Late(i)'
<1> USE DEF Before, Sound, Late
<1>0. i \in Http <=> i \notin Udp
  BY PipelineAssumption DEF Ids
<1>1. CASE i \in Http
  <2>1. pc[i] # "commit" /\ (pc[i] = "ended" => ~usesSQLite)
    BY <1>1 DEF Reserved
  <2>2. \/ MarkQueued(i) /\ ~usesSQLite
        \/ CancelReservation(i)
        \/ ReleaseSlot(i)
    BY <1>0, <1>1, <2>1 DEF Acts, Admit, Handler, ReservePersistence, StartExchange, StartFails,
           Fail, ReadBody, Forward, Handle, Complete, MarkQueued, CommitExchange
  <2>3. UNCHANGED <<dbVars, xch, ram>> /\ \E to \in {"release", "done"} : Goto(i, to)
    BY <2>2 DEF MarkQueued, CancelReservation, ReleaseSlot
  <2>4. pc'[i] \in {"release", "done"}
    BY <2>3 DEF Goto, LocalType
  <2> QED BY <1>0, <1>1, <2>3, <2>4 DEF dbVars
<1>2. CASE i \in Udp
  <2>1. pc[i] = "done"
    BY <1>2 DEF Reserved
  <2> QED BY <1>0, <1>2, <2>1 DEF Acts, Receiver, ReceiveDatagram, SaveDatagram, CommitDatagram
<1> QED BY <1>1, <1>2 DEF Ids

\* A handler's step does not touch what the writer is about to report.
LEMMA ActsHooked ==
    ASSUME NEW i \in Ids, Before(i), AllSound, Acts(i), Hooked
    PROVE  Hooked'
<1> SUFFICES ASSUME hook # Absent PROVE Hooked'
  BY ActsSound DEF Hooked
<1> DEFINE b == Head(batch)
<1>1. b \in Ids /\ st[b] = "notifying"
  BY P!Notified, RepositoryAssumptions DEF Hooked, Before, RepositoryInv
<1>2. UNCHANGED <<hook, wpc, batch, batchOk>> /\ After(i)
  BY ActsSound
<1>3. xch'[b] = xch[b]
  <2>1. CASE b # i
    BY <1>1, <1>2, <2>1 DEF After, Only
  <2>2. CASE b = i
    <3>1. Late(b)
      BY <1>1 DEF AllSound, Sound, Reserved, Late, LocalType, Before, Pcs, Ids
    <3>2. UNCHANGED xch
      BY <1>1, <2>2, <3>1, SettledSavesNothing
    <3> QED BY <3>2
  <2> QED BY <2>1, <2>2
<1> QED BY <1>2, <1>3 DEF Hooked, P!Outcome

\* The steps of the writer, OnWrite's Get and Save among them.
LEMMA WritingSound ==
    ASSUME LocalType, RepositoryInv, AllSound, Hooked, Writing, UNCHANGED usesSQLite
    PROVE  LocalType' /\ AllSound' /\ Hooked'
<1>1. UNCHANGED <<pc, xch, receiver, capacity, deleted>>
  BY DEF Writing, Batching, OnWriteGet, OnWriteMisses, OnWriteSave, handlerVars, managerVars
<1>2. ASSUME DB!Writer, NEW i \in Ids PROVE P!MovesOn(st[i], st'[i])
  BY <1>2, SameWriter, P!WriterMovesOn, RepositoryAssumptions DEF RepositoryInv
<1>3. ASSUME DB!Writer, UNCHANGED ram PROVE AllSound'
  <2>1. \A i \in Ids : pc'[i] = pc[i] /\ xch'[i] = xch[i] /\ ram'[i] \in {Absent, ram[i]}
    BY <1>1, <1>3
  <2> QED BY <1>2, <1>3, <2>1, Rests DEF AllSound
<1>4. CASE Batching
  <2>1. DB!Writer /\ wpc # "notify" /\ UNCHANGED <<ram, hook>>
    BY <1>4 DEF Batching, DB!Writer, DB!TakeFirst, DB!CollectMore, DB!CollectEnd,
           DB!WriteBatch, DB!ReleaseItem
  <2>2. Hooked'
    BY <2>1 DEF Hooked
  <2> QED BY <1>1, <1>3, <2>1, <2>2 DEF LocalType
<1>5. CASE OnWriteGet
  <2>1. /\ wpc = "notify" /\ ram[Head(batch)] # Absent
        /\ hook' = [ram[Head(batch)] EXCEPT !.pers = DB!Outcome]
        /\ UNCHANGED <<dbVars, ram>>
    BY <1>5 DEF OnWriteGet
  <2>2. PICK b \in Ids : b = Head(batch)
    BY <2>1, P!Notified, RepositoryAssumptions DEF RepositoryInv
  <2>3. PICK copy \in Copies : copy = ram[b]
    BY <2>2 DEF LocalType
  <2>4. DB!Outcome \in Flags /\ DB!Outcome = P!Outcome
    BY DEF DB!Outcome, P!Outcome, Flags
  <2>5. hook' = [copy EXCEPT !.pers = DB!Outcome]
    BY <2>1, <2>2, <2>3
  <2>6. hook' \in Copies /\ hook'.state = copy.state /\ hook'.rev = copy.rev
        /\ hook'.pers = P!Outcome
    BY <2>4, <2>5, CopyShows
  <2>7. copy.state = xch[b].state /\ copy.rev = xch[b].rev /\ copy.state # "absent"
    BY <2>1, <2>2, <2>3 DEF AllSound, Sound, Mirrored
  <2>8. UNCHANGED <<st, wpc, batch, batchOk, ram>>
    BY <2>1 DEF dbVars
  <2>9. Hooked'
    BY <1>1, <2>1, <2>2, <2>6, <2>7, <2>8 DEF Hooked, P!Outcome
  <2>10. AllSound'
    BY <1>1, <2>8, Rests DEF AllSound, P!MovesOn
  <2> QED BY <1>1, <2>6, <2>8, <2>9, <2>10 DEF LocalType
<1>6. CASE OnWriteMisses
  <2>1. DB!Writer /\ UNCHANGED <<ram, hook>> /\ hook = Absent
    BY <1>6 DEF OnWriteMisses, DB!Writer
  <2> QED BY <1>1, <1>3, <2>1 DEF LocalType, Hooked
<1>7. CASE OnWriteSave
  <2>1. hook # Absent /\ DB!NotifyItem /\ Save(Head(batch), hook) /\ hook' = Absent
    BY <1>7 DEF OnWriteSave
  <2>2. PICK b \in Ids : b = Head(batch) /\ st[b] = "notifying"
    BY <2>1, P!Notified, RepositoryAssumptions DEF RepositoryInv, Hooked
  <2>3. hook.pers = DB!Outcome /\ hook.state # "absent" /\ hook \in Copies
        /\ hook.state = xch[b].state /\ hook.rev = xch[b].rev
    BY <2>1, <2>2 DEF Hooked, LocalType, DB!Outcome, P!Outcome
  <2>4. /\ ram' \in [Ids -> Copies] /\ ram'[b] \in {Absent, hook}
        /\ \A j \in Ids \ {b} : ram'[j] \in {Absent, ram[j]}
    BY <2>1, <2>2, <2>3, Saves
  <2>5. DB!Writer
    BY <2>1 DEF DB!Writer
  <2>6. ASSUME NEW j \in Ids \ {b} PROVE Sound(j)'
    BY <1>1, <1>2, <2>4, <2>5, Rests DEF AllSound
  <2>7. st'[b] = DB!Outcome /\ DB!Outcome \in {"persisted", "failed"}
    BY <2>1, <2>2, StagesTyped DEF DB!NotifyItem, DB!Outcome
  <2>8. Reserved(b)'
    BY <1>1, <2>2, <2>7 DEF AllSound, Sound, Reserved
  <2>9. Progress(b)'
    BY <1>1 DEF AllSound, Sound, Progress, IsTerminal
  <2>10. Mirrored(b)'
    <3>1. ~(b \in Udp /\ pc[b] = "ended")
      BY <2>2 DEF AllSound, Sound, Reserved
    <3> QED BY <1>1, <2>3, <2>4, <2>7, <3>1 DEF Mirrored, Absent
  <2>11. AllSound'
    BY <2>6, <2>8, <2>9, <2>10 DEF AllSound, Sound
  <2>12. Absent \in Copies
    BY DEF Absent, Copies, Flags, MaxRevision
  <2> QED BY <1>1, <2>1, <2>4, <2>11, <2>12 DEF LocalType, Hooked
<1> QED BY <1>4, <1>5, <1>6, <1>7 DEF Writing

\* What other goroutines remove from RAM, or evict by a smaller capacity.
Shrinks == /\ ram' = ram \/ \E S : ram' = Without(ram, S)
           /\ UNCHANGED <<pc, xch, receiver, hook, st>>

LEMMA ShrinksSound ==
    ASSUME LocalType, AllSound, Shrinks, UNCHANGED usesSQLite
    PROVE  ram' \in [Ids -> Copies] /\ AllSound'
<1>1. Absent \in Copies
  BY DEF Absent, Copies, Flags, MaxRevision
<1>2. ram' \in [Ids -> Copies] /\ \A i \in Ids : ram'[i] \in {Absent, ram[i]}
  BY <1>1 DEF Shrinks, Without, LocalType
<1>3. \A i \in Ids : Sound(i)'
  BY <1>2, Rests DEF Shrinks, AllSound, P!MovesOn
<1> QED BY <1>2, <1>3 DEF AllSound

\* Management requests, the writer's answers to them and a resize.
Manages == \/ \E c \in Callers : Manager(c)
           \/ StoreSucceeds \/ StoreFails
           \/ \E n \in Capacities : Resize(n)

LEMMA ManagesElsewhere ==
    ASSUME LocalType, MgrType, Manages
    PROVE  /\ Shrinks /\ rows' \subseteq rows /\ capacity' \in Capacities
           /\ wpc = "notify" => UNCHANGED <<wpc, batch, batchOk>>
<1>1. ASSUME NEW c \in Callers, Manager(c)
      PROVE  /\ UNCHANGED <<st, rows, batch, batchOk>>
             /\ wpc = "notify" <=> wpc' = "notify"
  <2>1. CASE UNCHANGED dbVars
    BY <2>1 DEF dbVars
  <2>2. CASE DB!Request(c) \/ DB!Proceed(c) \/ DB!GiveUp(c) \/ DB!TakeControl(c)
    BY <2>2, SameControl, P!ControlMovesNothing, RepositoryAssumptions
  <2> QED BY <1>1, <2>1, <2>2, ManagerInside
<1>2. ASSUME NEW c \in Callers, Manager(c)
      PROVE  /\ UNCHANGED <<handlerVars, hook, capacity>>
             /\ ram' = ram \/ \E S : ram' = Without(ram, S)
  BY <1>2 DEF Manager, DeleteExchange, ClearExchanges, StartManager, WaitIdle, Abandon,
         RemoveFromRam, Retention, SendControl
<1>3. CASE \E c \in Callers : Manager(c)
  BY <1>1, <1>2, <1>3 DEF Shrinks, handlerVars, LocalType
<1>4. CASE StoreSucceeds \/ StoreFails
  <2>1. wpc = "control" /\ UNCHANGED <<st, handlerVars, ram, hook, capacity>> /\ rows' \subseteq rows
    BY <1>4 DEF StoreSucceeds, StoreFails, DB!ControlSucceeds, DB!ControlFails
  <2> QED BY <2>1 DEF Shrinks, handlerVars, LocalType
<1>5. CASE \E n \in Capacities : Resize(n)
  <2>1. PICK n \in Capacities : Resize(n)
    BY <1>5
  <2>2. ram' = Without(ram, Ended(ram) \ Newest(Ended(ram), n))
    BY <2>1 DEF Resize, EvictExcess
  <2>3. \E S : ram' = Without(ram, S)
    BY <2>2
  <2>4. UNCHANGED <<dbVars, handlerVars, hook>> /\ capacity' = n
    BY <2>1 DEF Resize
  <2> QED BY <2>3, <2>4 DEF Shrinks, handlerVars, dbVars
<1> QED BY <1>3, <1>4, <1>5 DEF Manages

\* Only the answer of a deletion adds to the deleted exchanges.
LEMMA Deletes ==
    ASSUME MgrType, Manages
    PROVE  \/ UNCHANGED deleted
           \/ \E c \in Callers : /\ RemoveFromRam(c) /\ mgr[c].op = "delete"
                                /\ mgr[c].id \in Ids /\ deleted' = deleted \cup {mgr[c].id}
<1>1. CASE \E n \in Capacities : Resize(n)
  BY <1>1 DEF Resize, managerVars
<1>2. CASE StoreSucceeds \/ StoreFails
  BY <1>2 DEF StoreSucceeds, StoreFails
<1>3. ASSUME NEW c \in Callers, Manager(c), ~RemoveFromRam(c) PROVE UNCHANGED deleted
  BY <1>3 DEF Manager, DeleteExchange, ClearExchanges, StartManager, WaitIdle, Abandon,
         Retention, SendControl, managerVars
<1>4. ASSUME NEW c \in Callers, RemoveFromRam(c), mgr[c].op # "delete" PROVE UNCHANGED deleted
  BY <1>4 DEF RemoveFromRam
<1>5. ASSUME NEW c \in Callers, RemoveFromRam(c), mgr[c].op = "delete"
      PROVE  mgr[c].id \in Ids /\ deleted' = deleted \cup {mgr[c].id}
  BY <1>5 DEF RemoveFromRam, MgrType
<1> QED BY <1>1, <1>2, <1>3, <1>4, <1>5 DEF Manages

\* Whatever step is taken, it is one of these.
LEMMA StepCases ==
    ASSUME [Next]_allVars
    PROVE  /\ UNCHANGED usesSQLite
           /\ (\E i \in Ids : Acts(i)) \/ Writing \/ Manages \/ UNCHANGED allVars
  BY DEF Next, Step, Acts, Manages, Ids, allVars

PipelineInv == RepositoryInv /\ MgrType /\ LocalType /\ AllSound /\ Hooked

LEMMA PipelineStep == PipelineInv /\ [Next]_allVars => PipelineInv'
<1> SUFFICES ASSUME PipelineInv, [Next]_allVars PROVE PipelineInv'
  OBVIOUS
<1> USE DEF PipelineInv
<1>0. RepositoryInv' /\ MgrType' /\ UNCHANGED usesSQLite
  BY RepositoryStep, MgrTypeStep, StepCases
<1>1. ASSUME NEW i \in Ids, Acts(i) PROVE LocalType' /\ AllSound' /\ Hooked'
  <2>1. Before(i)
    BY <1>0 DEF Before, AllSound
  <2>2. After(i)
    BY <1>1, <2>1, ActsSound
  <2>3. ASSUME NEW j \in Ids \ {i} PROVE Sound(j)'
    <3>1. /\ pc'[j] = pc[j] /\ xch'[j] = xch[j] /\ P!MovesOn(st[j], st'[j])
          /\ ram'[j] \in {Absent, ram[j]}
      BY <2>2 DEF After, Only, P!MovesOn
    <3> QED BY <1>0, <3>1, Rests DEF AllSound
  <2>4. AllSound'
    BY <2>2, <2>3 DEF AllSound, After
  <2> QED BY <1>1, <2>1, <2>2, <2>4, ActsHooked DEF After
<1>2. CASE Writing
  BY <1>0, <1>2, WritingSound
<1>3. CASE Manages
  <2>1. /\ Shrinks /\ capacity' \in Capacities
        /\ wpc = "notify" => UNCHANGED <<wpc, batch, batchOk>>
    BY <1>3, ManagesElsewhere
  <2>2. ram' \in [Ids -> Copies] /\ AllSound'
    BY <1>0, <2>1, ShrinksSound
  <2>3. deleted' \subseteq Ids
    BY <1>3, Deletes DEF LocalType, MgrType
  <2>4. Hooked'
    BY <2>1 DEF Shrinks, Hooked, P!Outcome
  <2> QED BY <1>0, <2>1, <2>2, <2>3, <2>4 DEF LocalType, Shrinks
<1>4. CASE UNCHANGED allVars
  <2>1. UNCHANGED <<st, wpc, batch, batchOk, pc, xch, receiver, ram, capacity, hook, deleted>>
    BY <1>4 DEF allVars, dbVars, handlerVars, managerVars
  <2>2. Shrinks
    BY <2>1 DEF Shrinks
  <2>3. AllSound'
    BY <1>0, <2>2, ShrinksSound
  <2> QED BY <1>0, <2>1, <2>3 DEF LocalType, Hooked, P!Outcome
<1> QED BY <1>0, <1>1, <1>2, <1>3, <1>4, StepCases

LEMMA PipelineInvariant == Spec => []PipelineInv
<1>1. ASSUME Init PROVE LocalType /\ AllSound /\ Hooked
  <2>1. Absent \in Copies /\ "new" \in Pcs /\ Absent.state = "absent" /\ Absent.pers = "none"
    BY DEF Absent, Copies, Flags, MaxRevision, Pcs
  <2>2. LocalType
    BY <1>1, <2>1, PipelineAssumption DEF Init, LocalType
  <2>3. ASSUME NEW i \in Ids PROVE Sound(i)
    BY <1>1, <2>1 DEF Init, DB!Init, Sound, Reserved, Progress, Mirrored
  <2> QED BY <1>1, <2>2, <2>3 DEF Init, AllSound, Hooked
<1>2. Init /\ RepositoryInv /\ MgrType => PipelineInv
  BY <1>1 DEF PipelineInv
<1> QED BY <1>2, PipelineStep, RepositoryInvariant, MgrTypeInvariant, PTL DEF Spec
-----------------------------------------------------------------------------
(* RAM keeps to its bound, evicts the oldest, and its copies only advance.  *)

\* The handler's copy is saved, and it is no older than the one it replaces.
SavesNewer(i) ==
    \E copy : /\ Save(i, copy) /\ xch'[i] = copy
              /\ copy.state # "absent" /\ xch[i].rev <= copy.rev
              /\ IsTerminal(xch[i]) => copy.state = xch[i].state

\* A step of a handler or the receiver saves such a copy, or none.
LEMMA HandlerSaves ==
    ASSUME NEW i \in Ids, Before(i), Acts(i)
    PROVE  \/ UNCHANGED ram /\ (xch[i].state = "absent" \/ UNCHANGED xch)
           \/ SavesNewer(i)
<1> USE DEF Before, Sound
<1>1. PICK copy \in Copies : copy = xch[i]
  BY DEF LocalType
<1>2. copy.rev \in Nat
  BY DEF Copies, MaxRevision
<1>3. ASSUME NEW next, Update(i, next), next.state # "absent", copy.rev <= next.rev,
             IsTerminal(copy) => next.state = copy.state
      PROVE  SavesNewer(i)
  BY <1>1, <1>3 DEF Update, LocalType, SavesNewer
<1>4. CASE Admit(i) \/ ReservePersistence(i) \/ StartFails(i) \/ CancelReservation(i) \/ ReleaseSlot(i)
  BY <1>4 DEF Admit, ReservePersistence, StartFails, CancelReservation, ReleaseSlot
<1>5. CASE CommitExchange(i) \/ CommitDatagram(i)
  <2>1. UNCHANGED xch /\ DB!Commit(i) /\ Unqueued(i)
    BY <1>5 DEF CommitExchange, CommitDatagram
  <2> QED BY <2>1, CommitQueues DEF Unqueued
<1>6. CASE StartExchange(i)
  <2>1. copy.state = "absent" /\ copy.rev = 0
    BY <1>1, <1>6 DEF StartExchange, Progress, Absent
  <2>2. Update(i, [state |-> "receiving", rev |-> 1, pers |-> "none"])
    BY <1>6 DEF StartExchange
  <2> QED BY <1>3, <2>1, <2>2 DEF IsTerminal, Terminal
<1>7. CASE Fail(i) \/ Forward(i) \/ Complete(i)
  <2>1. PICK state \in {"failed", "cancelled", "forwarding", "completed"} : Update(i, Moved(i, state))
    BY <1>7 DEF Fail, Forward, Complete
  <2>2. copy.state \in Active
    BY <1>1, <1>7 DEF Fail, Forward, Complete, Progress
  <2>3. Moved(i, state).state = state /\ Moved(i, state).rev = copy.rev + 1
    BY <1>1 DEF Moved
  <2> QED BY <1>2, <1>3, <2>1, <2>2, <2>3 DEF IsTerminal, Terminal, Active
<1>8. CASE ReadBody(i) \/ (Handle(i) /\ i \in Proxied)
  <2>1. Update(i, [copy EXCEPT !.rev = @ + 1]) /\ pc[i] \in {"read", "handle"}
    BY <1>1, <1>8 DEF ReadBody, Handle
  <2>2. copy.state \in Active /\ copy.rev < 5
    BY <1>1, <1>2, <2>1 DEF Progress
  <2>3. PICK next : next = [copy EXCEPT !.rev = @ + 1]
    OBVIOUS
  <2>4. next.state = copy.state /\ next.rev = copy.rev + 1
    BY <2>2, <2>3, CopyCounts
  <2>5. Update(i, next)
    BY <2>1, <2>3
  <2> QED BY <1>2, <1>3, <2>2, <2>4, <2>5 DEF IsTerminal, Terminal, Active
<1>9. CASE (Handle(i) /\ i \notin Proxied) \/ (MarkQueued(i) /\ ~usesSQLite)
  BY <1>9 DEF Handle, MarkQueued
<1>10. CASE MarkQueued(i) /\ usesSQLite
  <2>1. Update(i, [copy EXCEPT !.pers = "queued"]) /\ IsTerminal(copy)
    BY <1>1, <1>10 DEF MarkQueued, Progress
  <2>2. copy.state # "absent" /\ "queued" \in Flags
    BY <2>1 DEF IsTerminal, Terminal, Flags
  <2>3. PICK next : next = [copy EXCEPT !.pers = "queued"]
    OBVIOUS
  <2>4. next.state = copy.state /\ next.rev = copy.rev
    BY <2>2, <2>3, CopyShows
  <2>5. Update(i, next)
    BY <2>1, <2>3
  <2> QED BY <1>2, <1>3, <2>2, <2>4, <2>5
<1>11. CASE ReceiveDatagram(i)
  BY <1>11 DEF ReceiveDatagram, Progress, Absent
<1>12. CASE SaveDatagram(i)
  <2>1. Save(i, copy) /\ UNCHANGED xch /\ IsTerminal(copy)
    BY <1>1, <1>12 DEF SaveDatagram, Progress
  <2> QED BY <1>1, <1>2, <2>1 DEF SavesNewer, IsTerminal, Terminal
<1> QED BY <1>4, <1>5, <1>6, <1>7, <1>8, <1>9, <1>10, <1>11, <1>12
        DEF Acts, Handler, Receiver

\* The four ways a step may change the RAM history.
Stored == \E i \in Ids : \E copy : copy.state # "absent" /\ Save(i, copy) /\ UNCHANGED capacity
Removed == /\ \E S : ram' = Without(ram, S)
           /\ UNCHANGED capacity /\ (mgr' # mgr \/ call' # call)
Resized == \E n \in Capacities : Resize(n)

LEMMA RamCases ==
    ASSUME PipelineInv, [Next]_allVars
    PROVE  UNCHANGED <<ram, capacity>> \/ Stored \/ Removed \/ Resized
<1> USE DEF PipelineInv
<1>1. ASSUME NEW i \in Ids, Acts(i) PROVE UNCHANGED <<ram, capacity>> \/ Stored
  <2>1. Before(i)
    BY StepCases DEF Before, AllSound
  <2> QED BY <1>1, <2>1, ActsSound, HandlerSaves DEF SavesNewer, Stored
<1>2. CASE Writing
  <2>1. CASE OnWriteSave
    <3>1. Save(Head(batch), hook) /\ UNCHANGED capacity /\ hook.state # "absent" /\ wpc = "notify"
      BY <2>1 DEF OnWriteSave, Hooked
    <3>2. Head(batch) \in Ids
      BY <3>1, P!Notified, RepositoryAssumptions DEF RepositoryInv
    <3> QED BY <3>1, <3>2 DEF Stored
  <2> QED BY <1>2, <2>1 DEF Writing, Batching, OnWriteGet, OnWriteMisses
<1>3. ASSUME NEW c \in Callers, Manager(c) PROVE UNCHANGED <<ram, capacity>> \/ Removed
  <2>1. CASE RemoveFromRam(c)
    <3>1. mgr' = [mgr EXCEPT ![c] = NoManager] /\ mgr[c].pc = "remove" /\ NoManager.pc = "idle"
      BY <2>1 DEF RemoveFromRam, NoManager
    <3>2. mgr' # mgr
      BY <3>1 DEF MgrType
    <3> QED BY <2>1, <3>2 DEF RemoveFromRam, Removed
  <2>2. CASE Retention(c) /\ DB!OnCleanup(c) /\ ram' = Without(ram, Ended(ram) \cap call[c].targets)
    <3>1. call' = [call EXCEPT ![c] = DB!Leave(c)] /\ call[c].pc = "cleaned"
          /\ DB!Leave(c).pc \in {"end", "idle"}
      BY <2>2 DEF DB!OnCleanup, DB!Leave, DB!NoCall
    <3>2. DOMAIN call = Callers
      BY DEF RepositoryInv, P!IInv, P!TypeInv, P!TypeOK
    <3>3. call' # call
      BY <3>1, <3>2
    <3> QED BY <2>2, <3>3 DEF Retention, Removed
  <2> QED BY <1>3, <2>1, <2>2 DEF Manager, DeleteExchange, ClearExchanges, StartManager, WaitIdle,
             Abandon, Retention, SendControl
<1>4. CASE StoreSucceeds \/ StoreFails \/ UNCHANGED allVars
  BY <1>4 DEF StoreSucceeds, StoreFails, allVars
<1> QED BY <1>1, <1>2, <1>3, <1>4, StepCases DEF Manages, Resized
\* Every Save and every smaller capacity evicts, so no way into RAM passes its bound.
THEOREM RamKeepsToItsBound == Spec => []RamBounded
<1>0. \A n \in Capacities : n \in Nat
  BY PipelineAssumption
<1>1. \A memory : IsFiniteSet(Ended(memory)) /\ Cardinality(Ended(memory)) \in Nat
  BY RepositoryAssumption, FS_Subset, FS_CardinalityType DEF Ended
<1>2. ASSUME Init PROVE RamBounded
  <2>1. Ended(ram) = {}
    BY <1>2 DEF Init, Ended, IsTerminal, Terminal, Absent
  <2> QED BY <1>0, <1>2, <2>1, FS_EmptySet, PipelineAssumption DEF Init, RamBounded
<1>3. ASSUME NEW memory, NEW n \in Capacities, ram' = EvictExcess(memory, n), capacity' = n
      PROVE  RamBounded'
  <2>1. Ended(ram') = Newest(Ended(memory), n)
    BY <1>3, Evicted
  <2>2. Cardinality(Newest(Ended(memory), n)) <= n
    BY <1>0, NewestBounded DEF Ended
  <2> QED BY <1>3, <2>1, <2>2 DEF RamBounded, Ended
<1>4. ASSUME PipelineInv, RamBounded, [Next]_allVars PROVE RamBounded'
  <2>0. capacity \in Capacities
    BY <1>4 DEF PipelineInv, LocalType
  <2>1. CASE UNCHANGED <<ram, capacity>>
    BY <1>4, <2>1 DEF RamBounded, Ended
  <2>2. CASE Stored
    BY <1>3, <2>0, <2>2 DEF Stored, Save
  <2>3. CASE Removed
    <3>1. Ended(ram') \subseteq Ended(ram)
      BY <2>3 DEF Removed, Without, Ended, IsTerminal, Terminal, Absent
    <3>2. Cardinality(Ended(ram')) <= Cardinality(Ended(ram)) /\ Cardinality(Ended(ram')) \in Nat
      BY <1>1, <3>1, FS_Subset
    <3> QED BY <1>0, <1>1, <1>4, <2>0, <2>3, <3>2 DEF Removed, RamBounded, Ended
  <2>4. CASE Resized
    BY <1>3, <2>4 DEF Resized, Resize
  <2> QED BY <1>4, <2>1, <2>2, <2>3, <2>4, RamCases
<1> QED BY <1>2, <1>4, PipelineInvariant, PTL DEF Spec

\* Whoever makes the history full, a handler, the receiver, OnWrite's late Save or
\* a resize: what is evicted is older than everything that stays.
THEOREM EvictionTakesTheOldest == Spec => EvictsOldest
<1> DEFINE Older == \A i \in Ended(ram) :
                ram'[i] = Absent /\ (managerVars' = managerVars /\ call' = call)
                    => \A j \in Ended(ram)' : CompletedAt[i] < CompletedAt[j]
<1>0. ~IsTerminal(Absent) /\ (\A n \in Capacities : n \in Nat)
  BY PipelineAssumption DEF IsTerminal, Terminal, Absent
<1>1. ASSUME NEW memory, NEW n \in Capacities, NEW i \in Ended(memory),
             EvictExcess(memory, n)[i] = Absent, NEW j \in Ended(EvictExcess(memory, n))
      PROVE  CompletedAt[i] < CompletedAt[j]
  <2>1. i \notin Newest(Ended(memory), n)
    BY <1>0, <1>1, Evicted DEF Ended
  <2>2. j \in Newest(Ended(memory), n)
    BY <1>1, Evicted
  <2> QED BY <1>0, <1>1, <2>1, <2>2, EvictedIsOlder DEF Ended
<1>2. ASSUME PipelineInv, [Next]_allVars PROVE Older
  <2>0. /\ \A i \in Ended(ram) : i \in Ids /\ ram[i] # Absent
        /\ capacity \in Capacities /\ ram \in [Ids -> Copies]
    BY <1>0, <1>2 DEF Ended, PipelineInv, LocalType
  <2>1. CASE UNCHANGED <<ram, capacity>>
    BY <2>0, <2>1
  <2>2. CASE Stored
    <3>1. PICK k \in Ids : \E copy : copy.state # "absent" /\ Save(k, copy)
      BY <2>2 DEF Stored
    <3>2. PICK copy : copy.state # "absent" /\ Save(k, copy)
      BY <3>1
    <3> DEFINE memory == [ram EXCEPT ![k] = copy]
    <3>3. ram' = EvictExcess(memory, capacity) /\ memory[k] = copy
          /\ \A i \in Ids \ {k} : memory[i] = ram[i]
      BY <2>0, <3>2 DEF Save
    <3> HIDE DEF memory
    <3>4. ASSUME NEW i \in Ended(ram), ram'[i] = Absent PROVE i \in Ended(memory)
      <4>1. CASE i = k
        <5>1. copy # Absent
          BY <3>2 DEF Absent
        <5> QED BY <2>0, <3>3, <3>4, <4>1, <5>1, Evicted
      <4>2. CASE i # k
        BY <2>0, <3>3, <4>2 DEF Ended
      <4> QED BY <4>1, <4>2
    <3> QED BY <1>1, <2>0, <3>3, <3>4 DEF Ended
  <2>3. CASE Removed
    BY <2>3 DEF Removed, managerVars
  <2>4. CASE Resized
    <3>1. PICK n \in Capacities : ram' = EvictExcess(ram, n)
      BY <2>4 DEF Resized, Resize
    <3> QED BY <1>1, <3>1 DEF Ended
  <2> QED BY <1>2, <2>1, <2>2, <2>3, <2>4, RamCases
<1> QED BY <1>2, PipelineInvariant, PTL DEF Spec, EvictsOldest
Advances(i) ==
    ram[i] # Absent /\ ram'[i] # Absent =>
        /\ ram[i].rev <= ram'[i].rev
        /\ IsTerminal(ram[i]) => ram'[i].state = ram[i].state
        /\ ram[i].pers \in {"persisted", "failed"} => ram'[i].pers = ram[i].pers

\* A handler that saves still holds its reservation, or never had one: the copy
\* it replaces carries no report.
LEMMA HandlerAdvances ==
    ASSUME NEW i \in Ids, Before(i), Acts(i)
    PROVE  Advances(i)
<1>1. SUFFICES ASSUME ram[i] # Absent, ram'[i] # Absent, ~UNCHANGED ram PROVE Advances(i)
  BY DEF Advances, Before, LocalType, Copies, MaxRevision
<1>2. /\ ram[i].state = xch[i].state /\ ram[i].rev = xch[i].rev
      /\ ram'[i].state = xch'[i].state /\ ram'[i].rev = xch'[i].rev
  BY <1>1, ActsSound DEF Before, After, Sound, Mirrored
<1>3. PICK copy : /\ xch'[i] = copy /\ xch[i].rev <= copy.rev
                  /\ IsTerminal(xch[i]) => copy.state = xch[i].state
  BY <1>1, HandlerSaves DEF SavesNewer
<1>4. ~(Late(i) /\ st[i] # "held")
  BY <1>1, SettledSavesNothing
<1>5. ram[i].pers \notin {"persisted", "failed"}
  BY <1>4 DEF Before, Sound, Mirrored, Reserved, Late, LocalType, Pcs, Ids
<1> QED BY <1>2, <1>3, <1>5 DEF Advances, IsTerminal

\* Handlers, the receiver and OnWrite all save whole copies without a lock across
\* their Get and Save; still no copy in RAM ever goes back.
THEOREM CopiesNeverGoBack == Spec => CopiesAdvance
<1>1. ASSUME PipelineInv, [Next]_allVars, NEW i \in Ids PROVE Advances(i)
  <2> USE DEF PipelineInv
  <2>0. ASSUME ram'[i] \in {Absent, ram[i]} PROVE Advances(i)
    BY <1>1, <2>0 DEF Advances, LocalType, Copies, MaxRevision
  <2>1. ASSUME NEW k \in Ids, Acts(k) PROVE Advances(i)
    <3>1. Before(k)
      BY <1>1, StepCases DEF Before, AllSound
    <3>2. CASE k = i
      BY <2>1, <3>1, <3>2, HandlerAdvances
    <3>3. CASE k # i
      BY <2>0, <2>1, <3>1, <3>3, ActsSound DEF After, Only
    <3> QED BY <3>2, <3>3
  <2>2. CASE OnWriteSave
    <3>1. hook # Absent /\ Save(Head(batch), hook)
      BY <2>2 DEF OnWriteSave
    <3>2. PICK b \in Ids : b = Head(batch) /\ st[b] = "notifying"
      BY <1>1, <3>1, P!Notified, RepositoryAssumptions DEF RepositoryInv, Hooked
    <3>3. hook \in Copies /\ hook.state = xch[b].state /\ hook.rev = xch[b].rev
      BY <1>1, <3>1, <3>2 DEF Hooked, LocalType
    <3>4. ram'[b] \in {Absent, hook} /\ \A j \in Ids \ {b} : ram'[j] \in {Absent, ram[j]}
      BY <1>1, <3>1, <3>2, <3>3, Saves
    <3>5. CASE i # b
      BY <2>0, <3>4, <3>5
    <3>6. CASE i = b
      <4>1. ram[b] # Absent => /\ ram[b].state = hook.state /\ ram[b].rev = hook.rev
                               /\ ram[b].pers \notin {"persisted", "failed"}
        BY <1>1, <3>2, <3>3 DEF AllSound, Sound, Mirrored
      <4> QED BY <3>3, <3>4, <3>6, <4>1 DEF Advances, Copies, MaxRevision
    <3> QED BY <3>5, <3>6
  <2>3. CASE Writing /\ ~OnWriteSave
    BY <2>0, <2>3 DEF Writing, Batching, OnWriteGet, OnWriteMisses
  <2>4. CASE Manages
    <3>1. Shrinks
      BY <1>1, <2>4, ManagesElsewhere
    <3> QED BY <2>0, <3>1 DEF Shrinks, Without
  <2>5. CASE UNCHANGED allVars
    BY <2>0, <2>5 DEF allVars
  <2> QED BY <1>1, <2>1, <2>2, <2>3, <2>4, <2>5, StepCases
<1>2. PipelineInv /\ [Next]_allVars => \A i \in Ids : Advances(i)
  BY <1>1
<1> QED BY <1>2, PipelineInvariant, PTL DEF Spec, CopiesAdvance, Advances
-----------------------------------------------------------------------------
(* Admission.                                                              *)

\* The handlers in service after a step: one more, one fewer, or the same.
LEMMA ServiceMoves ==
    ASSUME PipelineInv, [Next]_allVars
    PROVE  \/ UNCHANGED inFlight /\ InService' = InService
           \/ \E h \in Http \ InService :
                 /\ inFlight < ConcurrentExchanges
                 /\ inFlight' = inFlight + 1 /\ InService' = InService \cup {h}
           \/ \E h \in InService : inFlight' = inFlight - 1 /\ InService' = InService \ {h}
<1>0. pc \in [Ids -> Pcs] /\ Http \cap Udp = {} /\ Http \subseteq Ids /\ Udp \subseteq Ids
  BY PipelineAssumption DEF PipelineInv, LocalType, Ids
<1>1. ASSUME UNCHANGED <<pc, inFlight>> PROVE InService' = InService
  BY <1>1 DEF InService
<1>2. ASSUME NEW h \in Http, Admit(h), inFlight < ConcurrentExchanges
      PROVE  /\ h \in Http \ InService
             /\ inFlight' = inFlight + 1 /\ InService' = InService \cup {h}
  BY <1>0, <1>2 DEF Admit, Goto, InService
<1>3. ASSUME NEW h \in Http, Admit(h), ~(inFlight < ConcurrentExchanges)
      PROVE  UNCHANGED inFlight /\ InService' = InService
  BY <1>0, <1>3 DEF Admit, Goto, InService
<1>4. ASSUME NEW h \in Http, ReleaseSlot(h)
      PROVE  h \in InService /\ inFlight' = inFlight - 1 /\ InService' = InService \ {h}
  BY <1>0, <1>4 DEF ReleaseSlot, Goto, InService
<1>5. ASSUME NEW h \in Http, Handler(h), ~ReleaseSlot(h)
      PROVE  UNCHANGED inFlight /\ InService' = InService
  <2>1. /\ pc[h] \notin {"new", "done"} /\ UNCHANGED inFlight
        /\ \E to \in Pcs \ {"new", "done"} : Goto(h, to)
    BY <1>5 DEF Handler, ReservePersistence, StartExchange, StartFails, Fail, ReadBody, Forward,
           Handle, Complete, MarkQueued, CommitExchange, CancelReservation, Pcs
  <2> QED BY <1>0, <2>1 DEF Goto, InService
<1>6. ASSUME NEW d \in Udp, Receiver(d) PROVE UNCHANGED inFlight /\ InService' = InService
  <2>1. UNCHANGED inFlight /\ \E to \in Pcs : Goto(d, to)
    BY <1>6 DEF Receiver, ReceiveDatagram, SaveDatagram, CommitDatagram, Pcs
  <2> QED BY <1>0, <2>1 DEF Goto, InService
<1>7. CASE Writing \/ Manages \/ UNCHANGED allVars
  <2>1. UNCHANGED <<pc, inFlight>>
    BY <1>7 DEF Writing, Batching, OnWriteGet, OnWriteMisses, OnWriteSave, Manages, Manager,
           DeleteExchange, ClearExchanges, StartManager, WaitIdle, Abandon, RemoveFromRam,
           Retention, SendControl, StoreSucceeds, StoreFails, Resize, handlerVars, allVars
  <2> QED BY <1>1, <2>1
<1> QED BY <1>2, <1>3, <1>4, <1>5, <1>6, <1>7, StepCases DEF Acts

\* Admission counts exactly the handlers in service, never more than the limit.
Counts == inFlight = Cardinality(InService) /\ inFlight \in 0..ConcurrentExchanges

LEMMA CountsInvariant == Spec => []Counts
<1>0. IsFiniteSet(Http) /\ ConcurrentExchanges \in Nat
  BY RepositoryAssumption, PipelineAssumption, FS_Subset DEF Ids
<1>1. Init => Counts
  <2>1. Init => InService = {}
    BY PipelineAssumption DEF Init, InService, Ids
  <2> QED BY <1>0, <2>1, FS_EmptySet DEF Init, Counts
<1>2. ASSUME PipelineInv, Counts, [Next]_allVars PROVE Counts'
  <2>0. IsFiniteSet(InService) /\ Cardinality(InService) \in Nat /\ inFlight \in Nat
    BY <1>0, <1>2, FS_Subset, FS_CardinalityType DEF InService, Counts
  <2>1. ASSUME NEW h \in Http \ InService, InService' = InService \cup {h}
        PROVE  Cardinality(InService') = Cardinality(InService) + 1
    BY <2>0, <2>1, FS_AddElement
  <2>2. ASSUME NEW h \in InService, InService' = InService \ {h}
        PROVE  /\ Cardinality(InService') = Cardinality(InService) - 1
               /\ Cardinality(InService') \in Nat
    BY <2>0, <2>2, FS_RemoveElement, FS_CardinalityType
  <2> QED BY <1>0, <1>2, <2>0, <2>1, <2>2, ServiceMoves DEF Counts
<1> QED BY <1>1, <1>2, PipelineInvariant, PTL DEF Spec

\* On every path, refusals, failures and cancelled requests among them, a handler
\* gives its slot back and leaves no reservation.
THEOREM HandlersLeaveNothing == Spec => []NothingLeaks
<1>1. PipelineInv /\ Counts => NothingLeaks
  BY DEF PipelineInv, AllSound, Sound, Reserved, Counts, NothingLeaks
<1> QED BY <1>1, PipelineInvariant, CountsInvariant, PTL

\* Every variable keeps its type, the number of handlers in service among them.
THEOREM PipelineTypes == Spec => []TypeOK
<1>1. P!TypeOK => DB!TypeOK
  BY DEF P!TypeOK, DB!TypeOK, P!Stages, DB!Stages, P!Undecided, DB!Undecided, P!Counted, DB!Counted,
         P!Settled, DB!Settled, P!Exclusive, DB!Exclusive, P!ControlOps, DB!ControlOps,
         P!Requests, DB!Requests, P!CallPcs, DB!CallPcs, P!Calls, DB!Calls
<1>2. PipelineInv /\ Counts => TypeOK
  BY <1>1 DEF PipelineInv, RepositoryInv, P!IInv, P!TypeInv, MgrType, LocalType, Counts, TypeOK
<1> QED BY <1>2, PipelineInvariant, CountsInvariant, PTL
-----------------------------------------------------------------------------
(* Deletions.  A deletion waits until nothing is reserved, asks the writer *)
(* and removes the copy from RAM, while handlers and OnWrite go on.        *)

\* Nothing can bring exchange i back: no handler, no batch, no report.
Quiet(i) == Late(i) /\ st[i] \notin DB!Undecided

\* Its handler stays behind the point where it saves.
LEMMA LateActs ==
    ASSUME NEW i \in Ids, Before(i), Acts(i), Late(i)
    PROVE  Late(i)'
<1>0. (i \in Http <=> i \notin Udp) /\ pc \in [Ids -> Pcs]
  BY PipelineAssumption DEF Ids, Before, LocalType
<1>1. ASSUME NEW to \in {"commit", "cancel", "release", "done"}, Goto(i, to) PROVE Late(i)'
  <2>1. pc'[i] = to
    BY <1>0, <1>1 DEF Goto
  <2> QED BY <2>1 DEF Late
<1>2. CASE i \in Http
  <2>1. MarkQueued(i) \/ CommitExchange(i) \/ CancelReservation(i) \/ ReleaseSlot(i)
    BY <1>0, <1>2 DEF Acts, Late, Admit, Handler, ReservePersistence, StartExchange, StartFails,
           Fail, ReadBody, Forward, Handle, Complete
  <2> QED BY <1>1, <2>1 DEF MarkQueued, CommitExchange, CancelReservation, ReleaseSlot
<1>3. CASE i \in Udp
  <2>1. CommitDatagram(i)
    BY <1>0, <1>3 DEF Acts, Late, Receiver, ReceiveDatagram, SaveDatagram
  <2> QED BY <1>1, <2>1 DEF CommitDatagram
<1> QED BY <1>0, <1>2, <1>3

\* Whatever happens, an exchange whose handler is late stays so; one that holds no
\* reservation takes none; and a quiet one gains neither a row nor a copy in RAM.
Stays(i) ==
    Late(i) =>
        /\ Late(i)'
        /\ st[i] \notin DB!Counted => st'[i] \notin DB!Counted
        /\ st[i] \notin DB!Undecided =>
              /\ st'[i] \notin DB!Undecided
              /\ i \notin rows => i \notin rows'
              /\ ram[i] = Absent => ram'[i] = Absent

LEMMA StaysBehind ==
    ASSUME PipelineInv, [Next]_allVars, NEW i \in Ids
    PROVE  Stays(i)
<1> USE DEF PipelineInv
<1>1. ASSUME NEW k \in Ids, Acts(k) PROVE Stays(i)
  <2>1. Before(k) /\ After(k) /\ UNCHANGED rows
    BY <1>1, StepCases, ActsSound DEF Before, AllSound
  <2>2. CASE k # i
    BY <2>1, <2>2 DEF After, Only, Stays, Late
  <2>3. CASE k = i /\ st[i] = "held"
    BY <1>1, <2>1, <2>3, LateActs DEF Stays, DB!Counted, DB!Undecided
  <2>4. CASE k = i /\ st[i] # "held"
    BY <1>1, <2>1, <2>4, SettledSavesNothing DEF Stays
  <2> QED BY <2>2, <2>3, <2>4
<1>2. CASE Writing /\ ~OnWriteGet
  <2>1. DB!Writer /\ UNCHANGED pc
    BY <1>2 DEF Writing, Batching, OnWriteMisses, OnWriteSave, DB!Writer, handlerVars
  <2>2. P!MovesOn(st[i], st'[i]) /\ (i \in rows' => i \in rows \/ st[i] = "batched")
    BY <2>1, SameWriter, P!WriterMovesOn, RepositoryAssumptions DEF RepositoryInv
  <2>3. ASSUME st[i] # "notifying", ram[i] = Absent PROVE ram'[i] = Absent
    <3>1. CASE OnWriteSave
      <4>1. hook # Absent /\ hook \in Copies /\ Save(Head(batch), hook) /\ wpc = "notify"
        BY <3>1 DEF OnWriteSave, Hooked, LocalType
      <4>2. Head(batch) \in Ids /\ Head(batch) # i
        BY <2>3, <4>1, P!Notified, RepositoryAssumptions DEF RepositoryInv
      <4> QED BY <2>3, <4>1, <4>2, Saves
    <3> QED BY <1>2, <2>3, <3>1 DEF Writing, Batching, OnWriteMisses
  <2> QED BY <2>1, <2>2, <2>3 DEF Stays, Late, P!MovesOn, DB!Counted, DB!Undecided
<1>3. CASE OnWriteGet \/ UNCHANGED allVars
  <2>1. UNCHANGED <<pc, st, rows, ram>>
    BY <1>3 DEF OnWriteGet, allVars, dbVars, handlerVars
  <2> QED BY <2>1 DEF Stays, Late
<1>4. CASE Manages
  <2>1. Shrinks /\ rows' \subseteq rows
    BY <1>4, ManagesElsewhere
  <2> QED BY <2>1 DEF Shrinks, Without, Stays, Late
<1> QED BY <1>1, <1>2, <1>3, <1>4, StepCases

\* An exchange a deletion may be asked for is late: its handler has completed it,
\* or it is already a row.
LEMMA DeletableIsLate ==
    ASSUME PipelineInv, NEW i \in Ids, Deletable(i)
    PROVE  /\ Late(i)
           /\ ~usesSQLite => i \notin rows /\ st[i] = "none"
<1> USE DEF PipelineInv, AllSound, Sound
<1>1. pc[i] \in Pcs /\ (i \in Http <=> i \notin Udp)
  BY PipelineAssumption DEF LocalType, Ids
<1>2. i \in rows => st[i] \in {"batched", "notifying", "persisted"}
  BY P!RowStages, RepositoryAssumptions DEF RepositoryInv
<1>3. CASE ram[i] # Absent
  <2>1. IsTerminal(xch[i]) /\ ~(i \in Udp /\ pc[i] = "ended")
    BY <1>3 DEF Deletable, Mirrored, IsTerminal
  <2>2. Late(i)
    BY <1>1, <2>1 DEF Progress, Late, Pcs, IsTerminal, Terminal, Active, Absent
  <2> QED BY <1>2, <2>2 DEF Reserved
<1>4. CASE ram[i] = Absent
  BY <1>1, <1>2, <1>4 DEF Deletable, Reserved, Late, Pcs
<1> QED BY <1>3, <1>4

\* A late exchange has no active copy that a deletion would refuse to remove.
LEMMA LateIsRemoved ==
    ASSUME PipelineInv, NEW i \in Ids, Late(i)
    PROVE  ram[i] = Absent \/ i \in Ended(ram)
<1>1. xch[i] \in Copies /\ xch[i].state \notin Active
  BY DEF PipelineInv, LocalType, AllSound, Sound, Progress, Late, IsTerminal, Terminal, Active
<1> QED BY <1>1 DEF PipelineInv, AllSound, Sound, Mirrored, Ended, IsTerminal, Copies
\* What a management request has established when it reaches its next stretch, and
\* which call of the repository it is in.
Established(c) ==
    mgr[c].pc # "idle" /\ mgr[c].op = "delete" =>
        /\ Late(mgr[c].id)
        /\ mgr[c].pc = "store" => st[mgr[c].id] \notin DB!Counted
        /\ mgr[c].pc = "remove" => st[mgr[c].id] \notin DB!Undecided /\ mgr[c].id \notin rows

Calling(c) ==
    /\ mgr[c].pc \in {"drain", "remove"} => call[c].pc = "idle"
    /\ mgr[c].pc = "idle" => call[c].pc = "idle" \/ call[c].op = "cleanup"
    /\ mgr[c].pc = "store" => /\ call[c].pc \in {"send", "await"} /\ call[c].op = mgr[c].op
                              /\ mgr[c].op = "delete" => call[c].targets = {mgr[c].id}

Asks(c) == Calling(c) /\ Established(c)

\* A request that does not move keeps what it has established.
LEMMA AsksWaits ==
    ASSUME PipelineInv, [Next]_allVars, NEW c \in Callers, Asks(c),
           mgr'[c] = mgr[c], call'[c] = call[c]
    PROVE  Asks(c)'
<1>1. Calling(c)'
  BY DEF Asks, Calling
<1>2. CASE mgr[c].op = "delete"
  <2>1. PICK i \in Ids : i = mgr[c].id
    BY <1>2 DEF PipelineInv, MgrType
  <2>2. Stays(i)
    BY StaysBehind
  <2>3. Established(c)'
    BY <2>1, <2>2 DEF Asks, Established, Stays, Late, DB!Undecided
  <2> QED BY <1>1, <2>3 DEF Asks
<1>3. CASE mgr[c].op # "delete"
  BY <1>1, <1>3 DEF Asks, Established
<1> QED BY <1>2, <1>3

\* The steps of a request's own goroutine.
LEMMA AsksMoves ==
    ASSUME PipelineInv, [Next]_allVars, NEW c \in Callers, Asks(c), Manager(c)
    PROVE  Asks(c)'
<1> USE DEF PipelineInv
<1>0. /\ DOMAIN mgr = Callers /\ mgr[c] \in Managers /\ DOMAIN call = Callers
      /\ mgr[c].op = "delete" => mgr[c].id \in Ids
      /\ P!InPlace(call[c])
  BY DEF MgrType, RepositoryInv, P!IInv, P!TypeInv, P!TypeOK, P!MInv, P!EndsSection
<1>1. ASSUME mgr'[c] = NoManager, call'[c].pc = "idle" \/ call'[c].op = "cleanup" PROVE Asks(c)'
  BY <1>1 DEF NoManager, Asks, Calling, Established
<1>2. CASE ClearExchanges(c)
  <2>1. /\ mgr'[c].op = "clear" /\ mgr'[c].pc \in {"drain", "remove"}
        /\ call'[c].pc = "idle"
    BY <1>0, <1>2 DEF ClearExchanges, StartManager, dbVars
  <2> QED BY <2>1 DEF Asks, Calling, Established
<1>3. ASSUME NEW i \in Ids, DeleteExchange(c, i) PROVE Asks(c)'
  <2>1. /\ mgr'[c].op = "delete" /\ mgr'[c].id = i
        /\ mgr'[c].pc = IF usesSQLite THEN "drain" ELSE "remove"
        /\ call[c].pc = "idle" /\ UNCHANGED <<pc, st, rows, call>>
    BY <1>0, <1>3 DEF DeleteExchange, StartManager, dbVars, handlerVars
  <2>2. Late(i) /\ (~usesSQLite => i \notin rows /\ st[i] = "none")
    BY <1>3, DeletableIsLate DEF DeleteExchange
  <2> QED BY <2>1, <2>2 DEF Asks, Calling, Established, Late, DB!Undecided, DB!Counted
<1>4. CASE WaitIdle(c)
  <2>1. /\ mgr[c].pc = "drain" /\ reservedCount = 0
        /\ mgr'[c].pc = "store" /\ mgr'[c].op = mgr[c].op /\ mgr'[c].id = mgr[c].id
        /\ UNCHANGED pc
    BY <1>0, <1>4 DEF WaitIdle, Managers, handlerVars
  <2>2. /\ call'[c].pc = "send" /\ call'[c].op = mgr[c].op /\ UNCHANGED st
        /\ mgr[c].op = "delete" => call'[c].targets = {mgr[c].id}
    BY <1>0, <1>4 DEF WaitIdle, DB!Delete, DB!Clear, DB!Begin, Managers
  <2>3. \A i \in Ids : st[i] \notin DB!Counted
    BY <2>1, P!NobodyHolds, RepositoryAssumptions DEF RepositoryInv, P!Counted, DB!Counted
  <2>4. Calling(c)'
    BY <2>1, <2>2 DEF Calling
  <2>5. Established(c)'
    BY <1>0, <2>1, <2>2, <2>3 DEF Asks, Established, Late
  <2> QED BY <2>4, <2>5 DEF Asks
<1>5. CASE Abandon(c)
  <2>1. CASE mgr[c].pc = "drain" /\ UNCHANGED dbVars
    BY <1>0, <1>1, <1>5, <2>1 DEF Abandon, Asks, Calling, dbVars
  <2>2. CASE DB!GiveUp(c)
    <3>1. call'[c] = DB!Leave(c) /\ call[c].pc # "idle"
      BY <1>0, <2>2 DEF DB!GiveUp
    <3>2. call[c].op \in {"delete", "clear", "cleanup"}
      BY <1>0, <3>1 DEF Asks, Calling, Managers
    <3> QED BY <1>0, <1>1, <1>5, <3>1, <3>2 DEF Abandon, DB!Leave, DB!NoCall, DB!Exclusive
  <2> QED BY <1>5, <2>1, <2>2 DEF Abandon
<1>6. CASE RemoveFromRam(c)
  BY <1>0, <1>1, <1>6 DEF RemoveFromRam, Asks, Calling, dbVars
<1>7. CASE Retention(c)
  <2>1. mgr[c].pc = "idle" /\ UNCHANGED mgr
    BY <1>7 DEF Retention, managerVars
  <2>2. call'[c].pc = "idle" \/ call'[c].op = "cleanup"
    <3>1. CASE \E cutoff \in Cutoffs : DB!Cleanup(c, cutoff)
      BY <1>0, <3>1 DEF DB!Cleanup, DB!Begin
    <3>2. CASE DB!EndMaintenance(c)
      BY <1>0, <3>2 DEF DB!EndMaintenance, DB!NoCall
    <3>3. CASE DB!CleanupAgain(c)
      <4>1. call[c].op = "cleanup"
        BY <1>0, <3>3 DEF DB!CleanupAgain, P!InPlace
      <4> QED BY <1>0, <3>3, <4>1 DEF DB!CleanupAgain
    <3>4. CASE DB!OnCleanup(c)
      <4>1. call'[c] = DB!Leave(c) /\ call[c].op = "cleanup"
        BY <1>0, <2>1, <3>4 DEF DB!OnCleanup, Asks, Calling
      <4> QED BY <4>1 DEF DB!Leave, DB!Exclusive
    <3> QED BY <1>7, <3>1, <3>2, <3>3, <3>4 DEF Retention
  <2> QED BY <2>1, <2>2 DEF Asks, Calling, Established
<1>8. CASE SendControl(c)
  <2>1. /\ call[c].pc = "send" /\ call'[c].pc = "await" /\ call'[c].op = call[c].op
        /\ call'[c].targets = call[c].targets /\ UNCHANGED <<mgr, pc, st, rows>>
    <3>1. call' = [call EXCEPT ![c].pc = "await"] /\ call[c].pc = "send"
          /\ UNCHANGED <<mgr, pc, st, rows>>
      BY <1>8 DEF SendControl, DB!TakeControl, managerVars, handlerVars
    <3>2. call[c] \in P!Calls
      BY DEF RepositoryInv, P!IInv, P!TypeInv, P!TypeOK
    <3> QED BY <1>0, <3>1, <3>2 DEF P!Calls
  <2> QED BY <2>1 DEF Asks, Calling, Established, Late
<1> QED BY <1>2, <1>3, <1>4, <1>5, <1>6, <1>7, <1>8 DEF Manager
\* The writer answers: a request that waits for it goes on to RAM, or ends.
LEMMA AsksAnswered ==
    ASSUME PipelineInv, [Next]_allVars, NEW c \in Callers, Asks(c), StoreSucceeds \/ StoreFails
    PROVE  Asks(c)'
<1> USE DEF PipelineInv
<1>0. /\ DOMAIN mgr = Callers /\ mgr[c] \in Managers
      /\ mgr[c].op = "delete" => mgr[c].id \in Ids
      /\ UNCHANGED <<pc, st>> /\ (DB!ControlSucceeds \/ DB!ControlFails)
  BY DEF MgrType, StoreSucceeds, StoreFails, DB!ControlSucceeds, DB!ControlFails, handlerVars
<1>1. /\ \A i \in Ids : st[i] # "notifying"
      /\ c # control.caller => call'[c] = call[c]
      /\ c = control.caller =>
            /\ call[c].pc = "await"
            /\ call[c].op = "cleanup" => call'[c].op = "cleanup"
            /\ call[c].op \notin P!Exclusive =>
                  /\ call'[c] = P!NoCall
                  /\ DB!ControlSucceeds => rows' \cap call[c].targets = {}
  BY <1>0, SameAnswers, P!ControlAnswers, RepositoryAssumptions DEF RepositoryInv
<1>2. CASE c # control.caller
  <2>1. mgr'[c] = mgr[c]
    BY <1>0, <1>2 DEF StoreSucceeds, StoreFails, Answered
  <2> QED BY <1>1, <1>2, <2>1, AsksWaits
<1>3. CASE c = control.caller /\ mgr[c].pc # "store"
  <2>1. mgr[c].pc = "idle" /\ call[c].op = "cleanup"
    BY <1>0, <1>1, <1>3 DEF Asks, Calling, Managers
  <2>2. UNCHANGED mgr
    BY <1>3 DEF StoreSucceeds, StoreFails, Answered
  <2> QED BY <1>1, <1>3, <2>1, <2>2 DEF Asks, Calling, Established
<1>4. CASE c = control.caller /\ mgr[c].pc = "store"
  <2>0. c # NoCaller
    BY RepositoryAssumption
  <2>1. /\ call'[c].pc = "idle" /\ (DB!ControlSucceeds => rows' \cap call[c].targets = {})
        /\ mgr[c].op = "delete" => call[c].targets = {mgr[c].id}
    BY <1>0, <1>1, <1>4 DEF Asks, Calling, P!Exclusive, P!NoCall, Managers
  <2>2. CASE StoreFails
    <3>1. mgr'[c] = NoManager
      BY <1>0, <1>4, <2>0, <2>2 DEF StoreFails, Answered
    <3> QED BY <2>1, <3>1 DEF Asks, Calling, Established, NoManager
  <2>3. CASE StoreSucceeds
    <3>1. mgr'[c].pc = "remove" /\ mgr'[c].op = mgr[c].op /\ mgr'[c].id = mgr[c].id
      BY <1>0, <1>4, <2>0, <2>3 DEF StoreSucceeds, Answered, Managers
    <3>2. mgr[c].op = "delete" => mgr[c].id \notin rows'
      BY <2>1, <2>3 DEF StoreSucceeds
    <3>3. Established(c)'
      BY <1>0, <1>1, <1>4, <3>1, <3>2 DEF Asks, Established, Late, DB!Undecided
    <3> QED BY <2>1, <3>1, <3>3 DEF Asks, Calling
  <2> QED BY <2>2, <2>3
<1> QED BY <1>2, <1>3, <1>4

AllAsk == \A c \in Callers : Asks(c)

\* Callers do not disturb one another.
LEMMA AsksStep == PipelineInv /\ AllAsk /\ [Next]_allVars => AllAsk'
<1> SUFFICES ASSUME PipelineInv, AllAsk, [Next]_allVars, NEW c \in Callers PROVE Asks(c)'
  BY DEF AllAsk
<1>0. DOMAIN mgr = Callers /\ DOMAIN call = Callers
  BY DEF PipelineInv, MgrType, RepositoryInv, P!IInv, P!TypeInv, P!TypeOK
<1>1. ASSUME UNCHANGED <<mgr, call>> PROVE Asks(c)'
  BY <1>1, AsksWaits DEF AllAsk
<1>2. ASSUME NEW i \in Ids, Acts(i) PROVE Asks(c)'
  <2>1. Before(i)
    BY StepCases DEF PipelineInv, Before, AllSound
  <2> QED BY <1>1, <1>2, <2>1, ActsSound
<1>3. CASE Writing \/ UNCHANGED allVars
  <2>1. UNCHANGED <<mgr, call>>
    BY <1>3 DEF Writing, Batching, OnWriteGet, OnWriteMisses, OnWriteSave, managerVars, allVars,
           dbVars, DB!TakeFirst, DB!CollectMore, DB!TakeItem, DB!CollectEnd, DB!WriteBatch,
           DB!ReleaseItem, DB!NotifyItem
  <2> QED BY <1>1, <2>1
<1>4. ASSUME NEW d \in Callers, Manager(d) PROVE Asks(c)'
  <2>1. CASE d = c
    BY <1>4, <2>1, AsksMoves DEF AllAsk
  <2>2. CASE d # c
    <3>1. mgr'[c] = mgr[c]
      BY <1>0, <1>4, <2>2 DEF Manager, DeleteExchange, ClearExchanges, StartManager, WaitIdle,
             Abandon, RemoveFromRam, Retention, SendControl, managerVars
    <3>2. DB!Request(d) \/ DB!Proceed(d) \/ DB!GiveUp(d) \/ DB!TakeControl(d) \/ UNCHANGED call
      BY <1>4, ManagerInside DEF PipelineInv, dbVars
    <3>3. call'[c] = call[c]
      BY <1>0, <2>2, <3>2 DEF DB!Request, DB!Delete, DB!Clear, DB!Cleanup, DB!Compact, DB!Vacuum,
             DB!Begin, DB!Proceed, DB!Drained, DB!ControlClosed, DB!CleanupAgain, DB!OnCleanup,
             DB!EndMaintenance, DB!GiveUp, DB!TakeControl
    <3> QED BY <3>1, <3>3, AsksWaits DEF AllAsk
  <2> QED BY <2>1, <2>2
<1>5. CASE StoreSucceeds \/ StoreFails
  BY <1>5, AsksAnswered DEF AllAsk
<1>6. CASE \E n \in Capacities : Resize(n)
  <2>1. UNCHANGED <<mgr, call>>
    BY <1>6 DEF Resize, managerVars, dbVars
  <2> QED BY <1>1, <2>1
<1> QED BY <1>2, <1>3, <1>4, <1>5, <1>6, StepCases DEF Manages

\* A deletion that was answered 200 is quiet, and has neither a row nor a copy.
Gone(i) == Quiet(i) /\ i \notin rows /\ ram[i] = Absent

AllGone == \A i \in deleted : Gone(i)

LEMMA GoneStep == PipelineInv /\ AllAsk /\ AllGone /\ [Next]_allVars => AllGone'
<1> SUFFICES ASSUME PipelineInv, AllAsk, AllGone, [Next]_allVars, NEW i \in deleted'
             PROVE  Gone(i)'
  BY DEF AllGone
<1>1. CASE i \in deleted
  <2>1. Stays(i) /\ Gone(i)
    BY <1>1, StaysBehind DEF AllGone, PipelineInv, LocalType
  <2> QED BY <2>1 DEF Stays, Gone, Quiet, DB!Undecided, DB!Counted
<1>2. CASE i \notin deleted
  <2>1. Manages
    <3>1. \A k \in Ids : Acts(k) => UNCHANGED deleted
      BY StepCases, ActsSound DEF PipelineInv, Before, AllSound
    <3>2. Writing \/ UNCHANGED allVars => UNCHANGED deleted
      BY DEF Writing, Batching, OnWriteGet, OnWriteMisses, OnWriteSave, managerVars, allVars
    <3> QED BY <1>2, <3>1, <3>2, StepCases
  <2>2. PICK c \in Callers : /\ RemoveFromRam(c) /\ mgr[c].op = "delete"
                             /\ mgr[c].id = i /\ i \in Ids
    BY <1>2, <2>1, Deletes DEF PipelineInv
  <2>3. Late(i) /\ st[i] \notin DB!Undecided /\ i \notin rows
    BY <2>2 DEF AllAsk, Asks, Established, RemoveFromRam
  <2>4. UNCHANGED <<pc, st, rows>> /\ ram' = Without(ram, {i} \cap Ended(ram))
    BY <2>2 DEF RemoveFromRam, dbVars, handlerVars
  <2>5. ram'[i] = Absent
    BY <2>2, <2>3, <2>4, LateIsRemoved DEF Without
  <2> QED BY <2>3, <2>4, <2>5 DEF Gone, Quiet, Late, DB!Undecided
<1> QED BY <1>1, <1>2

\* What was deleted does not come back: the deletion waits until its exchange is
\* past every step that could save or write it, and only then removes it.
THEOREM DeletionIsFinal == Spec => []DeletedStaysDeleted
<1>1. Init => AllAsk /\ AllGone
  BY DEF Init, DB!Init, DB!NoCall, NoManager, AllAsk, Asks, Calling, Established, AllGone
<1>2. AllGone => DeletedStaysDeleted
  BY DEF AllGone, Gone, Quiet, DeletedStaysDeleted
<1> QED BY <1>1, <1>2, AsksStep, GoneStep, PipelineInvariant, PTL DEF Spec
=============================================================================

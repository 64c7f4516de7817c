-------------------------- MODULE ExchangePipeline --------------------------
(***************************************************************************)
(* The life of an exchange from admission to durable history: the handler  *)
(* goroutines of capture/pipeline.go, the UDP receiver of app/app.go, the  *)
(* RAM history of store/memory.go, the SQLite repository (Persistence.tla) *)
(* with the OnWrite and OnCleanup callbacks that app.Start installs, and   *)
(* the management requests of httpapi/exchanges.go that delete and clear.  *)
(*                                                                         *)
(* A copy of an exchange is its state, its revision and the persistence    *)
(* status it shows; requests, responses and bodies are left out.  Events   *)
(* are published by the steps below but only read by the event bus, which  *)
(* is a component of its own, so publishing changes nothing here.          *)
(***************************************************************************)
EXTENDS Naturals, FiniteSets, Sequences

CONSTANTS
    Http,                  \* HTTP exchanges
    Proxied,               \* the HTTP exchanges handled in proxy mode
    Udp,                   \* UDP datagrams
    ConcurrentExchanges,   \* Limits.ConcurrentExchanges
    Capacities,            \* values of history.max_exchanges, first one used
    FirstCapacity,
    Storage,               \* storage modes to start with: TRUE for SQLite, FALSE for memory
    NoExchange,            \* no exchange in hand
    Callers, NoCaller, QueueCount, QueueBytes, BatchSize, CleanupBatchSize,
    Bytes, CompletedAt, Cutoffs

Ids == Http \cup Udp

ASSUME PipelineAssumption ==
    /\ Proxied \subseteq Http
    /\ Http \cap Udp = {}
    /\ NoExchange \notin Ids
    /\ ConcurrentExchanges \in Nat \ {0}
    /\ FirstCapacity \in Capacities
    /\ Capacities \subseteq Nat \ {0}
    /\ Storage \subseteq BOOLEAN

\* What Persistence assumes of the constants it is given.
ASSUME RepositoryAssumption ==
    /\ IsFiniteSet(Ids)
    /\ NoCaller \notin Callers
    /\ QueueCount \in Nat \ {0} /\ QueueBytes \in Nat \ {0}
    /\ BatchSize \in Nat \ {0} /\ CleanupBatchSize \in Nat \ {0}
    /\ Bytes \in [Ids -> Nat] /\ CompletedAt \in [Ids -> Nat] /\ Cutoffs \subseteq Nat

\* CompletedAt stands for the pair (completed_ns, id) that orders exchanges.
ASSUME TimesDistinct == \A i, j \in Ids : CompletedAt[i] = CompletedAt[j] => i = j

VARIABLES
    st, accepting, reservedCount, reservedBytes, maintenance, writes,
    wpc, batch, batchOk, control, call, closer, rows,   \* see Persistence
    usesSQLite, \* the storage mode, which only a restart changes
    pc,         \* where each exchange's handler is
    xch,        \* the handler's own copy of the exchange
    inFlight,   \* Pipeline.inFlight
    receiver,   \* the datagram the UDP receiver works on
    ram,        \* Memory.items
    capacity,   \* Memory.capacity
    hook,       \* the copy OnWrite has read and not yet saved
    mgr,        \* what each management request is doing
    deleted     \* history: exchanges whose deletion was answered 200

DB == INSTANCE Persistence

dbVars == <<st, accepting, reservedCount, reservedBytes, maintenance, writes,
            wpc, batch, batchOk, control, call, closer, rows>>
handlerVars == <<pc, xch, inFlight, receiver>>
managerVars == <<mgr, deleted>>
allVars == <<dbVars, handlerVars, ram, capacity, hook, managerVars, usesSQLite>>

-----------------------------------------------------------------------------
(* Copies of an exchange, and the RAM history. *)

Active   == {"receiving", "forwarding"}
Terminal == {"completed", "failed", "cancelled", "discarded"}
Flags    == {"none", "queued", "persisted", "failed"}
MaxRevision == 5
Copies   == [state : Active \cup Terminal \cup {"absent"}, rev : 0..MaxRevision, pers : Flags]
Absent   == [state |-> "absent", rev |-> 0, pers |-> "none"]

IsTerminal(copy) == copy.state \in Terminal
Ended(memory) == {i \in Ids : IsTerminal(memory[i])}

\* The newest n of a set of exchanges: sortNewestFirst, cut at n.
BugNewest(S, n) == {i \in S : Cardinality({j \in S : CompletedAt[j] < CompletedAt[i]}) < n}
BugNewestOneMore(S, n) == {i \in S : Cardinality({j \in S : CompletedAt[j] > CompletedAt[i]}) <= n}
Newest(S, n) == {i \in S : Cardinality({j \in S : CompletedAt[j] > CompletedAt[i]}) < n}

Without(memory, S) == [i \in Ids |-> IF i \in S THEN Absent ELSE memory[i]]

\* evictExcess: only terminal exchanges go, the oldest first.
EvictExcess(memory, n) == Without(memory, Ended(memory) \ Newest(Ended(memory), n))

Save(i, copy) == ram' = EvictExcess([ram EXCEPT ![i] = copy], capacity)

-----------------------------------------------------------------------------
(* ServeHTTP, one action for every stretch between two shared effects.     *)
(* Operators named Bug... are mutants: faults the properties must notice.  *)

Pcs == {"new", "admitted", "start", "read", "forward", "handle", "respond",
        "ended", "commit", "cancel", "release", "done"}

Goto(h, to) == pc' = [pc EXCEPT ![h] = to]

\* The handler's copy changes and is saved.
Update(h, copy) == xch' = [xch EXCEPT ![h] = copy] /\ Save(h, copy)

\* Transition, which counts one revision.
Moved(h, state) == [state |-> state, rev |-> xch[h].rev + 1, pers |-> xch[h].pers]

Admit(h) ==
    /\ pc[h] = "new"
    /\ IF inFlight < ConcurrentExchanges
       THEN inFlight' = inFlight + 1 /\ Goto(h, "admitted")
       ELSE Goto(h, "done") /\ UNCHANGED inFlight
    /\ UNCHANGED <<dbVars, xch, receiver, ram, capacity, hook, managerVars>>

\* reservePersistence; a refusal is answered 503.
ReservePersistence(h) ==
    /\ pc[h] = "admitted"
    /\ \/ usesSQLite /\ DB!Reserve(h) /\ Goto(h, "start")
       \/ usesSQLite /\ ~DB!Admits(h) /\ Goto(h, "release") /\ UNCHANGED dbVars
       \/ ~usesSQLite /\ Goto(h, "start") /\ UNCHANGED dbVars
    /\ UNCHANGED <<xch, inFlight, receiver, ram, capacity, hook, managerVars>>

StartExchange(h) ==
    /\ pc[h] = "start"
    /\ Update(h, [state |-> "receiving", rev |-> 1, pers |-> "none"])
    /\ Goto(h, "read")
    /\ UNCHANGED <<dbVars, inFlight, receiver, capacity, hook, managerVars>>

\* NewID fails: there is no exchange, and only the reservation to give back.
StartFails(h) ==
    /\ pc[h] = "start"
    /\ Goto(h, "cancel")
    /\ UNCHANGED <<dbVars, xch, inFlight, receiver, ram, capacity, hook, managerVars>>

\* fail: headers or body refused, the mode handler's error, the downstream
\* write; a cancelled request can only end the mode handler.
Fail(h) ==
    /\ \/ pc[h] \in {"read", "handle", "respond"} /\ Update(h, Moved(h, "failed"))
       \/ pc[h] = "handle" /\ Update(h, Moved(h, "cancelled"))
    /\ Goto(h, "ended")
    /\ UNCHANGED <<dbVars, inFlight, receiver, capacity, hook, managerVars>>

ReadBody(h) ==
    /\ pc[h] = "read"
    /\ Update(h, [xch[h] EXCEPT !.rev = @ + 1])
    /\ Goto(h, IF h \in Proxied THEN "forward" ELSE "handle")
    /\ UNCHANGED <<dbVars, inFlight, receiver, capacity, hook, managerVars>>

Forward(h) ==
    /\ pc[h] = "forward"
    /\ Update(h, Moved(h, "forwarding"))
    /\ Goto(h, "handle")
    /\ UNCHANGED <<dbVars, inFlight, receiver, capacity, hook, managerVars>>

\* The mode handler succeeds; only an upstream response is recorded here.
Handle(h) ==
    /\ pc[h] = "handle"
    /\ IF h \in Proxied THEN Update(h, [xch[h] EXCEPT !.rev = @ + 1])
                        ELSE UNCHANGED <<xch, ram>>
    /\ Goto(h, "respond")
    /\ UNCHANGED <<dbVars, inFlight, receiver, capacity, hook, managerVars>>

Complete(h) ==
    /\ pc[h] = "respond"
    /\ Update(h, Moved(h, "completed"))
    /\ Goto(h, "ended")
    /\ UNCHANGED <<dbVars, inFlight, receiver, capacity, hook, managerVars>>

\* The deferred function: with a reservation, the exchange becomes queued.
MarkQueued(h) ==
    /\ pc[h] = "ended"
    /\ IF usesSQLite THEN Update(h, [xch[h] EXCEPT !.pers = "queued"]) /\ Goto(h, "commit")
                     ELSE Goto(h, "release") /\ UNCHANGED <<xch, ram>>
    /\ UNCHANGED <<dbVars, inFlight, receiver, capacity, hook, managerVars>>

\* ErrQueueFull would turn the copy into a failed one.
Unqueued(i) ==
    IF Len(writes) < QueueCount THEN UNCHANGED ram
    ELSE Save(i, [xch[i] EXCEPT !.pers = "failed"])

CommitExchange(h) ==
    /\ pc[h] = "commit"
    /\ DB!Commit(h)
    /\ Unqueued(h)
    /\ Goto(h, "cancel")
    /\ UNCHANGED <<xch, inFlight, receiver, capacity, hook, managerVars>>

BugForgetCancel(h) ==
    /\ pc[h] = "cancel"
    /\ Goto(h, "release")
    /\ UNCHANGED <<dbVars, xch, inFlight, receiver, ram, capacity, hook, managerVars>>

BugSaveAfterCommit(h) ==
    /\ pc[h] = "cancel"
    /\ IF st[h] = "held" THEN DB!Cancel(h) ELSE UNCHANGED dbVars
    /\ Save(h, xch[h])
    /\ Goto(h, "release")
    /\ UNCHANGED <<xch, inFlight, receiver, capacity, hook, managerVars>>

\* The deferred Cancel does nothing after a Commit.
CancelReservation(h) ==
    /\ pc[h] = "cancel"
    /\ IF st[h] = "held" THEN DB!Cancel(h) ELSE UNCHANGED dbVars
    /\ Goto(h, "release")
    /\ UNCHANGED <<xch, inFlight, receiver, ram, capacity, hook, managerVars>>

ReleaseSlot(h) ==
    /\ pc[h] = "release"
    /\ inFlight' = inFlight - 1
    /\ Goto(h, "done")
    /\ UNCHANGED <<dbVars, xch, receiver, ram, capacity, hook, managerVars>>

Handler(h) ==
    \/ ReservePersistence(h) \/ StartExchange(h) \/ StartFails(h) \/ Fail(h)
    \/ ReadBody(h) \/ Forward(h) \/ Handle(h) \/ Complete(h) \/ MarkQueued(h)
    \/ CommitExchange(h) \/ CancelReservation(h) \/ ReleaseSlot(h)

-----------------------------------------------------------------------------
(* receiveUDP: one goroutine, one datagram after another.                  *)

Received(states, flag) ==
    {[state |-> s, rev |-> 1, pers |-> flag] : s \in states}

\* A datagram may be oversized; without a reservation it is discarded.
ReceiveDatagram(d) ==
    /\ pc[d] = "new"
    /\ receiver = NoExchange
    /\ receiver' = d
    /\ \/ /\ usesSQLite /\ DB!Reserve(d)
          /\ \E copy \in Received({"completed", "discarded"}, "queued") :
                xch' = [xch EXCEPT ![d] = copy]
       \/ /\ usesSQLite /\ ~DB!Admits(d) /\ UNCHANGED dbVars
          /\ \E copy \in Received({"discarded"}, "none") : xch' = [xch EXCEPT ![d] = copy]
       \/ /\ ~usesSQLite /\ UNCHANGED dbVars
          /\ \E copy \in Received({"completed", "discarded"}, "none") :
                xch' = [xch EXCEPT ![d] = copy]
    /\ Goto(d, "ended")
    /\ UNCHANGED <<inFlight, ram, capacity, hook, managerVars>>

SaveDatagram(d) ==
    /\ receiver = d
    /\ pc[d] = "ended"
    /\ Save(d, xch[d])
    /\ IF st[d] = "held" THEN Goto(d, "commit") /\ UNCHANGED receiver
                         ELSE Goto(d, "done") /\ receiver' = NoExchange
    /\ UNCHANGED <<dbVars, xch, inFlight, capacity, hook, managerVars>>

CommitDatagram(d) ==
    /\ receiver = d
    /\ pc[d] = "commit"
    /\ DB!Commit(d)
    /\ Unqueued(d)
    /\ Goto(d, "done")
    /\ receiver' = NoExchange
    /\ UNCHANGED <<xch, inFlight, capacity, hook, managerVars>>

Receiver(d) == ReceiveDatagram(d) \/ SaveDatagram(d) \/ CommitDatagram(d)

-----------------------------------------------------------------------------
(* The writer goroutine with the callback OnWrite: a Get and a Save that   *)
(* other goroutines can come between.                                      *)

Batching ==
    /\ DB!TakeFirst \/ DB!CollectMore \/ DB!CollectEnd \/ DB!WriteBatch \/ DB!ReleaseItem
    /\ UNCHANGED <<handlerVars, ram, capacity, hook, managerVars>>

OnWriteGet ==
    /\ wpc = "notify"
    /\ hook = Absent
    /\ LET copy == ram[Head(batch)] IN
        /\ copy # Absent
        /\ hook' = [copy EXCEPT !.pers = DB!Outcome]
    /\ UNCHANGED <<dbVars, handlerVars, ram, capacity, managerVars>>

OnWriteMisses ==
    /\ hook = Absent
    /\ DB!NotifyItem
    /\ ram[Head(batch)] = Absent
    /\ UNCHANGED <<handlerVars, ram, capacity, hook, managerVars>>

BugDropFailure ==
    /\ hook # Absent
    /\ DB!NotifyItem
    /\ IF batchOk THEN Save(Head(batch), hook) ELSE UNCHANGED ram
    /\ hook' = Absent
    /\ UNCHANGED <<handlerVars, capacity, managerVars>>

\* The exchanges this Save evicts are not announced to anyone.
OnWriteSave ==
    /\ hook # Absent
    /\ DB!NotifyItem
    /\ Save(Head(batch), hook)
    /\ hook' = Absent
    /\ UNCHANGED <<handlerVars, capacity, managerVars>>

Writing == Batching \/ OnWriteGet \/ OnWriteMisses \/ OnWriteSave

-----------------------------------------------------------------------------
(* Management requests: deleteExchange, clearExchanges, the retention      *)
(* cleanup with its callback, and a change of history.max_exchanges.       *)

NoManager == [pc |-> "idle", op |-> "clear", id |-> NoExchange]

StartManager(c, op, id) ==
    /\ mgr[c].pc = "idle"
    /\ call[c].pc = "idle"
    /\ mgr' = [mgr EXCEPT ![c] =
                  [pc |-> IF usesSQLite THEN "drain" ELSE "remove", op |-> op, id |-> id]]
    /\ UNCHANGED <<dbVars, handlerVars, ram, capacity, hook, deleted>>

\* findExchange: the RAM copy first, then the row; an active one is refused.
Deletable(i) == IF ram[i] # Absent THEN IsTerminal(ram[i]) ELSE i \in rows

DeleteExchange(c, i) == Deletable(i) /\ StartManager(c, "delete", i)

ClearExchanges(c) == StartManager(c, "clear", NoExchange)

BugSkipWaitIdle(c) ==
    /\ mgr[c].pc = "drain"
    /\ IF mgr[c].op = "delete" THEN DB!Delete(c, mgr[c].id) ELSE DB!Clear(c)
    /\ mgr' = [mgr EXCEPT ![c].pc = "store"]
    /\ UNCHANGED <<handlerVars, ram, capacity, hook, deleted>>

\* WaitIdle returns, and the request turns to the writer.
WaitIdle(c) ==
    /\ mgr[c].pc = "drain"
    /\ reservedCount = 0
    /\ IF mgr[c].op = "delete" THEN DB!Delete(c, mgr[c].id) ELSE DB!Clear(c)
    /\ mgr' = [mgr EXCEPT ![c].pc = "store"]
    /\ UNCHANGED <<handlerVars, ram, capacity, hook, deleted>>

\* The request context ends; the answer is an error and RAM stays as it is.
Abandon(c) ==
    /\ \/ mgr[c].pc = "drain" /\ UNCHANGED dbVars
       \/ DB!GiveUp(c)
    /\ mgr' = [mgr EXCEPT ![c] = NoManager]
    /\ UNCHANGED <<handlerVars, ram, capacity, hook, deleted>>

Answered(next) ==
    mgr' = IF control.caller # NoCaller /\ mgr[control.caller].pc = "store"
           THEN [mgr EXCEPT ![control.caller] = next] ELSE mgr

StoreSucceeds ==
    /\ DB!ControlSucceeds
    /\ Answered([mgr[control.caller] EXCEPT !.pc = "remove"])
    /\ UNCHANGED <<handlerVars, ram, capacity, hook, deleted>>

StoreFails ==
    /\ DB!ControlFails
    /\ Answered(NoManager)
    /\ UNCHANGED <<handlerVars, ram, capacity, hook, deleted>>

\* Memory.Remove and the answer, or Memory.Clear.
RemoveFromRam(c) ==
    /\ mgr[c].pc = "remove"
    /\ LET asked == IF mgr[c].op = "delete" THEN {mgr[c].id} ELSE Ids
       IN  ram' = Without(ram, asked \cap Ended(ram))
    /\ deleted' = IF mgr[c].op = "delete" THEN deleted \cup {mgr[c].id} ELSE deleted
    /\ mgr' = [mgr EXCEPT ![c] = NoManager]
    /\ UNCHANGED <<dbVars, handlerVars, capacity, hook>>

\* runRetention; RemoveCompletedBefore runs in the caller as OnCleanup.
Retention(c) ==
    /\ mgr[c].pc = "idle"
    /\ usesSQLite
    /\ \/ (\E cutoff \in Cutoffs : DB!Cleanup(c, cutoff)) /\ UNCHANGED ram
       \/ (DB!CleanupAgain(c) \/ DB!EndMaintenance(c)) /\ UNCHANGED ram
       \/ DB!OnCleanup(c) /\ ram' = Without(ram, Ended(ram) \cap call[c].targets)
    /\ UNCHANGED <<handlerVars, capacity, hook, managerVars>>

SendControl(c) ==
    /\ DB!TakeControl(c)
    /\ UNCHANGED <<handlerVars, ram, capacity, hook, managerVars>>

\* Memory.Resize, when the configuration changes.
Resize(n) ==
    /\ n # capacity
    /\ capacity' = n
    /\ ram' = EvictExcess(ram, n)
    /\ UNCHANGED <<dbVars, handlerVars, hook, managerVars>>

Manager(c) ==
    \/ \E i \in Ids : DeleteExchange(c, i)
    \/ ClearExchanges(c) \/ WaitIdle(c) \/ Abandon(c) \/ RemoveFromRam(c)
    \/ Retention(c) \/ SendControl(c)

-----------------------------------------------------------------------------
Init ==
    /\ DB!Init
    /\ usesSQLite \in Storage
    /\ pc = [i \in Ids |-> "new"]
    /\ xch = [i \in Ids |-> Absent]
    /\ inFlight = 0
    /\ receiver = NoExchange
    /\ ram = [i \in Ids |-> Absent]
    /\ capacity = FirstCapacity
    /\ hook = Absent
    /\ mgr = [c \in Callers |-> NoManager]
    /\ deleted = {}

Step ==
    \/ \E h \in Http : Admit(h) \/ Handler(h)
    \/ \E d \in Udp : Receiver(d)
    \/ Writing
    \/ \E c \in Callers : Manager(c)
    \/ StoreSucceeds \/ StoreFails
    \/ \E n \in Capacities : Resize(n)

Next == Step /\ UNCHANGED usesSQLite

(***************************************************************************)
(* Fairness: admitted handlers, the receiver and the writer goroutine go   *)
(* on; the writer's uniform select does not pass over `writes` for ever.   *)
(***************************************************************************)
Fairness ==
    /\ \A h \in Http : WF_allVars(Handler(h) /\ UNCHANGED usesSQLite)
    /\ \A d \in Udp : WF_allVars((SaveDatagram(d) \/ CommitDatagram(d)) /\ UNCHANGED usesSQLite)
    /\ WF_allVars((Writing \/ StoreSucceeds \/ StoreFails) /\ UNCHANGED usesSQLite)
    /\ SF_allVars(Batching /\ UNCHANGED usesSQLite)

Spec == Init /\ [][Next]_allVars

FairSpec == Spec /\ Fairness

-----------------------------------------------------------------------------
(* Properties. *)

Managers == [pc : {"idle", "drain", "store", "remove"}, op : {"delete", "clear"},
             id : Ids \cup {NoExchange}]

TypeOK ==
    /\ DB!TypeOK
    /\ pc \in [Ids -> Pcs]
    /\ xch \in [Ids -> Copies]
    /\ inFlight \in 0..ConcurrentExchanges
    /\ receiver \in Udp \cup {NoExchange}
    /\ ram \in [Ids -> Copies]
    /\ capacity \in Capacities
    /\ hook \in Copies
    /\ mgr \in [Callers -> Managers]
    /\ deleted \subseteq Ids

\* The terminal exchanges in RAM never exceed the configured bound, although
\* handlers, the UDP receiver, OnWrite and a resize all put them there.
RamBounded == Cardinality(Ended(ram)) <= capacity

InService == {h \in Http : pc[h] \notin {"new", "done"}}

\* Admission is exact, and a handler that has ended leaves nothing behind: its
\* slot is free and its reservation is committed or given back on every path.
NothingLeaks ==
    /\ inFlight = Cardinality(InService)
    /\ \A i \in Ids : pc[i] = "done" => st[i] # "held"

\* Once a deletion is answered 200, the exchange is gone from RAM and from the
\* database for good: neither the handler that still had to queue it, nor the
\* batch it travels in, nor OnWrite's copy brings it back.
DeletedStaysDeleted ==
    \A i \in deleted : ram[i] = Absent /\ i \notin rows /\ st[i] \notin DB!Undecided

\* What leaves RAM for lack of room is older than everything that stays.
EvictsOldest ==
    [][\A i \in Ended(ram) :
          ram'[i] = Absent /\ (managerVars' = managerVars /\ call' = call)
              => \A j \in Ended(ram)' : CompletedAt[i] < CompletedAt[j]]_allVars

\* A copy in RAM only advances: its revision never falls, a terminal state is
\* final, and what OnWrite reported is not overwritten by a handler's older
\* view.
CopiesAdvance ==
    [][\A i \in Ids : ram[i] # Absent /\ ram'[i] # Absent =>
          /\ ram[i].rev <= ram'[i].rev
          /\ IsTerminal(ram[i]) => ram'[i].state = ram[i].state
          /\ ram[i].pers \in {"persisted", "failed"} => ram'[i].pers = ram[i].pers]_allVars

\* No copy shows `queued` for ever: it is reported, evicted or removed.
QueuedIsReported == \A i \in Ids : ram[i].pers = "queued" ~> ram[i].pers # "queued"
=============================================================================

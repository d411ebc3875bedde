--------------------------- MODULE IdentityEvents ---------------------------
(***************************************************************************)
(* The durable inbox for Identity events: server/src/id/events.ts (the     *)
(* POST /id/events handler and the boot-time catch-up) over                *)
(* MysqlIdentityEventStore in server/src/db/mysql.ts, with the processes   *)
(* that crash and restart around them (server/src/index.ts).               *)
(*                                                                         *)
(* Every server process has a few handler slots, one per webhook request   *)
(* in flight, and one Replay slot, the catch-up loop it starts at boot.    *)
(* A slot runs the transaction of MysqlIdentityEventStore.process one      *)
(* statement at a time.  InnoDB's unique key is modelled by what it does:  *)
(* an INSERT of a key another open transaction inserted waits, and is      *)
(* refused as a duplicate only once that transaction has committed.        *)
(*                                                                         *)
(* Identity is external.  It publishes events with growing ids, posts each *)
(* until it is answered 2xx or gives up, and lists, in id order and at     *)
(* most PageSize at a time, the events after a given id.                   *)
(***************************************************************************)
EXTENDS Integers, FiniteSets

CONSTANTS
    Proc,       \* server processes: the old and the new one of a rollout
    Handler,    \* handler slots of a process
    Replay,     \* the slot of its catch-up loop
    MaxEventId, \* Identity publishes ids in 1..MaxEventId
    PageSize,   \* EVENT_PAGE_SIZE, and Identity's own cap on a listing
    PoolSize,   \* connectionLimit of a process's pool
    MaxFaults   \* bound on crashes, failed statements and lost answers

ASSUME ReplayIsNoHandler == Replay \notin Handler
ASSUME BoundsAreNaturals ==
    /\ MaxEventId \in Nat
    /\ PageSize \in Nat \ {0}
    /\ PoolSize \in Nat \ {0}
    /\ MaxFaults \in Nat

EventId == 1..MaxEventId
Slot == Handler \cup {Replay}
Worker == Proc \X Slot

VARIABLES
    published,  \* Identity: ids in its event log
    delivery,   \* Identity: what became of the webhook of each event
    rows,       \* admin_tbl_IdentityEvent as committed
    cursor,     \* admin_tbl_EventCursor.iLastEventId (0: no row)
    txn,        \* each slot's call of MysqlIdentityEventStore.process
    replay,     \* each process's catchUpIdEvents
    up,         \* the processes that are running
    faults      \* faults spent so far

vars == <<published, delivery, rows, cursor, txn, replay, up, faults>>
identityVars == <<published, delivery>>

Idle == [st |-> "idle", ev |-> 0]
LoopAt(pc, since) ==
    [pc |-> pc, since |-> since, todo |-> {}, last |-> 0, full |-> FALSE]
Off == LoopAt("off", 0)
Reading(since, page, last, full) ==
    [pc |-> "page", since |-> since, todo |-> page, last |-> last, full |-> full]

TxnStates == {"idle", "waiting", "open", "inserted", "marked", "answered"}
ReplayStates == {"off", "checkpoint", "list", "page", "done", "failed"}
ReplayRecord == [pc: ReplayStates, since: 0..MaxEventId, todo: SUBSET EventId,
                 last: 0..MaxEventId, full: BOOLEAN]

TypeOK ==
    /\ published \subseteq EventId
    /\ delivery \in [EventId -> {"none", "pending", "acked", "abandoned"}]
    /\ rows \in [EventId -> {"absent", "received", "processed"}]
    /\ cursor \in 0..MaxEventId
    /\ txn \in [Worker -> [st: TxnStates, ev: 0..MaxEventId]]
    /\ replay \in [Proc -> ReplayRecord]
    /\ up \subseteq Proc
    /\ faults \in 0..MaxFaults

Init ==
    /\ published = {}
    /\ delivery = [e \in EventId |-> "none"]
    /\ rows = [e \in EventId |-> "absent"]
    /\ cursor = 0
    /\ txn = [w \in Worker |-> Idle]
    /\ replay = [p \in Proc |-> Off]
    /\ up = {}
    /\ faults = 0

SpendFault == faults < MaxFaults /\ faults' = faults + 1

(* Slots of p that hold one of its pool's connections. *)
Connected(p) ==
    {s \in Slot : txn[<<p, s>>].st \in {"open", "inserted", "marked"}}

(* Another open transaction has inserted the row of e. *)
RowLocked(e) ==
    \E w \in Worker : txn[w].ev = e /\ txn[w].st \in {"inserted", "marked"}

(* The listing Identity serves for ?since=s: the first PageSize later ids. *)
Later(s) == {e \in published : e > s}
Page(s) ==
    {e \in Later(s) : Cardinality({f \in Later(s) : f < e}) < PageSize}

-----------------------------------------------------------------------------
(* Identity: publish the next event (ids may skip) and post it, and stop   *)
(* retrying one that is never acknowledged.                                *)

Publish(e) ==
    /\ \A f \in published : f < e
    /\ published' = published \cup {e}
    /\ delivery' = [delivery EXCEPT ![e] = "pending"]
    /\ UNCHANGED <<rows, cursor, txn, replay, up, faults>>

GiveUp(e) ==
    /\ delivery[e] = "pending"
    /\ delivery' = [delivery EXCEPT ![e] = "abandoned"]
    /\ UNCHANGED <<published, rows, cursor, txn, replay, up, faults>>

-----------------------------------------------------------------------------
(* MysqlIdentityEventStore.process, as both callers run it.                *)

Step(w, st) == txn' = [txn EXCEPT ![w].st = st]

Begins(w, e) == txn' = [txn EXCEPT ![w] = [st |-> "waiting", ev |-> e]]

Connect(w) ==
    /\ txn[w].st = "waiting"
    /\ Cardinality(Connected(w[1])) < PoolSize
    /\ Step(w, "open")
    /\ UNCHANGED <<identityVars, rows, cursor, replay, up, faults>>

(* Fault: the uniqueness check ignores other open transactions. *)
InsertUnlocked(w) ==
    /\ txn[w].st = "open"
    /\ rows[txn[w].ev] = "absent"
    /\ Step(w, "inserted")
    /\ UNCHANGED <<identityVars, rows, cursor, replay, up, faults>>

Insert(w) ==
    /\ txn[w].st = "open"
    /\ rows[txn[w].ev] = "absent"
    /\ ~RowLocked(txn[w].ev)
    /\ Step(w, "inserted")
    /\ UNCHANGED <<identityVars, rows, cursor, replay, up, faults>>

(* Fault: 'duplicate' is answered while the other delivery is uncommitted. *)
DuplicateOfUncommitted(w) ==
    /\ txn[w].st = "open"
    /\ rows[txn[w].ev] # "absent" \/ RowLocked(txn[w].ev)
    /\ Step(w, "answered")
    /\ UNCHANGED <<identityVars, rows, cursor, replay, up, faults>>

(* ER_DUP_ENTRY: roll back and return 'duplicate'. *)
InsertDuplicate(w) ==
    /\ txn[w].st = "open"
    /\ rows[txn[w].ev] # "absent"
    /\ Step(w, "answered")
    /\ UNCHANGED <<identityVars, rows, cursor, replay, up, faults>>

(* The effects, which change nothing here, and the UPDATE of dtProcessed. *)
MarkProcessed(w) ==
    /\ txn[w].st = "inserted"
    /\ Step(w, "marked")
    /\ UNCHANGED <<identityVars, rows, cursor, replay, up, faults>>

(* Fault: processing an event, webhook or not, moves the replay cursor. *)
CommitMovesCursor(w) ==
    /\ txn[w].st = "marked"
    /\ rows' = [rows EXCEPT ![txn[w].ev] = "processed"]
    /\ cursor' = IF cursor >= txn[w].ev THEN cursor ELSE txn[w].ev
    /\ Step(w, "answered")
    /\ UNCHANGED <<identityVars, replay, up, faults>>

Commit(w) ==
    /\ txn[w].st = "marked"
    /\ rows' = [rows EXCEPT ![txn[w].ev] = "processed"]
    /\ Step(w, "answered")
    /\ UNCHANGED <<identityVars, cursor, replay, up, faults>>

(* What the table may hold after w's transaction dies: rolled back, or     *)
(* committed when its COMMIT was already on its way.                       *)
AfterLoss(w) ==
    {rows} \cup (IF txn[w].st = "marked"
                 THEN {[rows EXCEPT ![txn[w].ev] = "processed"]} ELSE {})

(* Fault: the loop logs a failed event and goes on with the next. *)
SkipFailedEvent(w) ==
    /\ txn[w].st \in {"waiting", "open", "inserted", "marked"}
    /\ SpendFault
    /\ rows' \in AfterLoss(w)
    /\ txn' = [txn EXCEPT ![w] = Idle]
    /\ replay' = IF w[2] = Replay
                 THEN [replay EXCEPT ![w[1]].todo = @ \ {txn[w].ev}] ELSE replay
    /\ UNCHANGED <<identityVars, cursor, up>>

(* Fault: the handler answers 2xx although its transaction failed. *)
AnswerOkOnFailure(w) ==
    /\ txn[w].st \in {"waiting", "open", "inserted", "marked"}
    /\ SpendFault
    /\ rows' \in AfterLoss(w)
    /\ txn' = [txn EXCEPT ![w] = Idle]
    /\ IF w[2] = Replay
       THEN replay' = [replay EXCEPT ![w[1]].pc = "failed"] /\ UNCHANGED delivery
       ELSE delivery' = [delivery EXCEPT ![txn[w].ev] = "acked"] /\ UNCHANGED replay
    /\ UNCHANGED <<published, cursor, up>>

(* A statement, or the wait for a connection, fails: roll back and throw.  *)
(* A handler answers 5xx, the catch-up loop ends.                          *)
FailTxn(w) ==
    /\ txn[w].st \in {"waiting", "open", "inserted", "marked"}
    /\ SpendFault
    /\ rows' \in AfterLoss(w)
    /\ txn' = [txn EXCEPT ![w] = Idle]
    /\ replay' = IF w[2] = Replay
                 THEN [replay EXCEPT ![w[1]].pc = "failed"] ELSE replay
    /\ UNCHANGED <<identityVars, cursor, up>>

-----------------------------------------------------------------------------
(* POST /id/events                                                         *)

(* A delivery or a retry of it arrives; several may overlap. *)
Receive(w, e) ==
    /\ w[1] \in up
    /\ w[2] # Replay
    /\ txn[w].st = "idle"
    /\ delivery[e] = "pending"
    /\ Begins(w, e)
    /\ UNCHANGED <<identityVars, rows, cursor, replay, up, faults>>

(* 403 for a source outside trustedCIDR, or 400 for a body without a       *)
(* numeric id and a type, leaves everything as it was: no action.          *)

Acknowledge(w) ==
    /\ txn[w].st = "answered"
    /\ w[2] # Replay
    /\ delivery' = [delivery EXCEPT ![txn[w].ev] = "acked"]
    /\ txn' = [txn EXCEPT ![w] = Idle]
    /\ UNCHANGED <<published, rows, cursor, replay, up, faults>>

LoseAnswer(w) ==
    /\ txn[w].st = "answered"
    /\ w[2] # Replay
    /\ SpendFault
    /\ txn' = [txn EXCEPT ![w] = Idle]
    /\ UNCHANGED <<identityVars, rows, cursor, replay, up>>

-----------------------------------------------------------------------------
(* catchUpIdEvents                                                         *)

ReadCheckpoint(p) ==
    /\ replay[p].pc = "checkpoint"
    /\ replay' = [replay EXCEPT ![p] = LoopAt("list", cursor)]
    /\ UNCHANGED <<identityVars, rows, cursor, txn, up, faults>>

ListEmpty(p) ==
    /\ replay[p].pc = "list"
    /\ Later(replay[p].since) = {}
    /\ replay' = [replay EXCEPT ![p].pc = "done"]
    /\ UNCHANGED <<identityVars, rows, cursor, txn, up, faults>>

(* Fault: a page that is exactly full is taken for the last one. *)
ListPageStopsEarly(p) ==
    LET page == Page(replay[p].since) IN
    /\ replay[p].pc = "list"
    /\ \E last \in page :
         /\ \A e \in page : e <= last
         /\ replay' = [replay EXCEPT ![p] =
              Reading(@.since, page, last, Cardinality(page) > PageSize)]
    /\ UNCHANGED <<identityVars, rows, cursor, txn, up, faults>>

ListPage(p) ==
    LET page == Page(replay[p].since) IN
    /\ replay[p].pc = "list"
    /\ \E last \in page :
         /\ \A e \in page : e <= last
         /\ replay' = [replay EXCEPT ![p] =
              Reading(@.since, page, last, Cardinality(page) >= PageSize)]
    /\ UNCHANGED <<identityVars, rows, cursor, txn, up, faults>>

(* The loop processes its page in order, one event at a time. *)
ReplayNext(p) ==
    /\ replay[p].pc = "page"
    /\ txn[<<p, Replay>>].st = "idle"
    /\ \E e \in replay[p].todo :
         /\ \A f \in replay[p].todo : e <= f
         /\ Begins(<<p, Replay>>, e)
    /\ UNCHANGED <<identityVars, rows, cursor, replay, up, faults>>

ReplayReturns(p) ==
    /\ txn[<<p, Replay>>].st = "answered"
    /\ replay' = [replay EXCEPT ![p].todo = @ \ {txn[<<p, Replay>>].ev}]
    /\ txn' = [txn EXCEPT ![<<p, Replay>>] = Idle]
    /\ UNCHANGED <<identityVars, rows, cursor, up, faults>>

(* Fault: the cursor is overwritten. *)
Latest(a, b) == b

(* advanceReplayCursor: GREATEST of the stored and the given id. *)
Greatest(a, b) == IF a >= b THEN a ELSE b

PageFinished(p) == replay[p].pc = "page" /\ replay[p].todo = {}

(* Fault: the cursor is stored as the next id to read. *)
AdvanceCursorOffByOne(p) ==
    /\ PageFinished(p)
    /\ cursor' = Greatest(cursor, replay[p].last) + 1
    /\ replay' = [replay EXCEPT ![p] =
         LoopAt(IF @.full THEN "list" ELSE "done", @.last)]
    /\ UNCHANGED <<identityVars, rows, txn, up, faults>>

AdvanceCursor(p) ==
    /\ PageFinished(p)
    /\ cursor' = Greatest(cursor, replay[p].last)
    /\ replay' = [replay EXCEPT ![p] =
         LoopAt(IF @.full THEN "list" ELSE "done", @.last)]
    /\ UNCHANGED <<identityVars, rows, txn, up, faults>>

(* Reading the checkpoint, listing or advancing the cursor fails (the      *)
(* advance possibly after it took effect): the loop ends until next boot.  *)
FailReplay(p) ==
    /\ \/ replay[p].pc \in {"checkpoint", "list"} /\ UNCHANGED cursor
       \/ /\ PageFinished(p)
          /\ cursor' \in {cursor, Greatest(cursor, replay[p].last)}
    /\ SpendFault
    /\ replay' = [replay EXCEPT ![p].pc = "failed"]
    /\ UNCHANGED <<identityVars, rows, txn, up>>

-----------------------------------------------------------------------------
(* The process: listen and start the catch-up; crash (or be shut down)     *)
(* with transactions open.                                                 *)

Boot(p) ==
    /\ p \notin up
    /\ up' = up \cup {p}
    /\ replay' = [replay EXCEPT ![p] = LoopAt("checkpoint", 0)]
    /\ UNCHANGED <<identityVars, rows, cursor, txn, faults>>

(* MySQL ends the open transactions of p: each rolls back, or commits when *)
(* its COMMIT was already sent.                                            *)
Crash(p) ==
    LET sent == {txn[<<p, s>>].ev : s \in {x \in Slot :
                                        txn[<<p, x>>].st = "marked"}}
    IN
    /\ p \in up
    /\ SpendFault
    /\ \E kept \in SUBSET sent :
         rows' = [e \in EventId |-> IF e \in kept THEN "processed" ELSE rows[e]]
    /\ txn' = [w \in Worker |-> IF w[1] = p THEN Idle ELSE txn[w]]
    /\ replay' = [replay EXCEPT ![p] = Off]
    /\ up' = up \ {p}
    /\ UNCHANGED <<identityVars, cursor>>

-----------------------------------------------------------------------------
Process(w) ==
    Connect(w) \/ Insert(w) \/ InsertDuplicate(w) \/ MarkProcessed(w) \/ Commit(w)

CatchUp(p) ==
    \/ ReadCheckpoint(p) \/ ListEmpty(p) \/ ListPage(p)
    \/ ReplayNext(p) \/ ReplayReturns(p) \/ AdvanceCursor(p)

Next ==
    \/ \E e \in EventId : Publish(e) \/ GiveUp(e)
    \/ \E w \in Worker : Process(w) \/ FailTxn(w) \/ Acknowledge(w) \/ LoseAnswer(w)
    \/ \E w \in Worker, e \in EventId : Receive(w, e)
    \/ \E p \in Proc : CatchUp(p) \/ FailReplay(p) \/ Boot(p) \/ Crash(p)

Spec == Init /\ [][Next]_vars

(* A started statement returns, a stopped process is restarted, and        *)
(* Identity keeps retrying until it gives up.  Faults are bounded.         *)
FairSpec ==
    /\ Spec
    /\ \A w \in Worker : WF_vars(Process(w)) /\ WF_vars(Acknowledge(w))
    /\ \A p \in Proc : WF_vars(CatchUp(p)) /\ WF_vars(Boot(p))
    /\ \A e \in EventId : WF_vars(\E w \in Worker : Receive(w, e))

-----------------------------------------------------------------------------
(* Events the cursor has passed can no longer be replayed, so every one of *)
(* them must be durably processed: an out-of-order webhook, a page cut     *)
(* short by a failure or a second process must never move it past a hole.  *)
CursorCoversProcessed ==
    \A e \in published : e <= cursor => rows[e] = "processed"

(* Identity is answered 2xx only for an event that is durable: it will not *)
(* send it again, whoever of two overlapping deliveries wrote the row.     *)
AckedIsDurable ==
    \A e \in EventId : delivery[e] = "acked" => rows[e] = "processed"

(* The effects of an event run once: at most one transaction is past the   *)
(* INSERT of its row, and none is once the row is committed, whether the   *)
(* event came by webhook, by a retry or by catch-up in either process.     *)
AppliedOnce ==
    \A v \in Worker :
      txn[v].st \in {"inserted", "marked"} =>
        /\ rows[txn[v].ev] = "absent"
        /\ \A w \in Worker \ {v} :
             txn[w].st \in {"inserted", "marked"} => txn[w].ev # txn[v].ev

(* The stored cursor never moves back, also when two processes replay at   *)
(* once and the slower one finishes an older page last.                    *)
CursorNeverMovesBack == [][cursor' >= cursor]_vars

(* Once posted, an event is eventually processed or Identity gives up.     *)
DeliveredEventually ==
    \A e \in EventId :
      delivery[e] = "pending" ~>
        (rows[e] = "processed" \/ delivery[e] = "abandoned")

(* A start that neither fails nor is cut short replays everything that was *)
(* published before it, also the events whose webhooks were given up.      *)
StartReplaysMissedEvents ==
    \A p \in Proc, e \in EventId :
      (replay[p].pc = "checkpoint" /\ e \in published) ~>
        (rows[e] = "processed" \/ replay[p].pc \in {"failed", "off"})

(* event-store.ts:21 says process() advances the checkpoint together with  *)
(* the receipt, events.ts:57 that recording an event moves the cursor.     *)
CheckpointAdvances ==
    \A e \in EventId : rows[e] = "processed" => cursor >= e

(* The inbox implements EventInbox: no step, crash, retry or concurrent    *)
(* process does to the receipts, the acknowledgements or the cursor what   *)
(* the contract does not allow, in which only ordered replay moves the     *)
(* cursor (event-store.ts:32) and no webhook does.                         *)
Inbox == INSTANCE EventInbox WITH
    processed <- {e \in EventId : rows[e] = "processed"},
    acked <- {e \in EventId : delivery[e] = "acked"}
ImplementsInbox == Inbox!Spec
=============================================================================

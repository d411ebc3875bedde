------------------------ MODULE IdentityEventsProofs ------------------------
(***************************************************************************)
(* The safety of the Identity event inbox, for any number of processes,    *)
(* handlers, events and faults and any page and pool size.                 *)
(***************************************************************************)
EXTENDS IdentityEvents, FiniteSetTheorems, TLAPS

(* A transaction works on a published event, and one that has returned     *)
(* 'applied' or 'duplicate' has seen its row committed as processed.       *)
TxnInv ==
    /\ \A w \in Worker : txn[w].st # "idle" => txn[w].ev \in published
    /\ \A w \in Worker : txn[w].st = "answered" => rows[txn[w].ev] = "processed"

(* Only published events are posted or have a row, and no row is half done. *)
IdentityInv ==
    /\ \A e \in EventId : delivery[e] # "none" => e \in published
    /\ \A e \in EventId : rows[e] # "absent" => e \in published /\ rows[e] = "processed"

(* A catch-up loop is never ahead of the cursor, and what it has read of   *)
(* the log is either still on its page or processed.                       *)
ReplayInv ==
    /\ cursor = 0 \/ cursor \in published
    /\ \A p \in Proc :
         /\ replay[p].since <= cursor
         /\ replay[p].pc = "page" =>
              /\ replay[p].last \in published
              /\ replay[p].todo \subseteq published
              /\ \A e \in published :
                   e <= replay[p].last => e \in replay[p].todo \/ rows[e] = "processed"

IInv ==
    /\ TypeOK
    /\ IdentityInv
    /\ TxnInv
    /\ ReplayInv
    /\ AppliedOnce
    /\ AckedIsDurable
    /\ CursorCoversProcessed

-----------------------------------------------------------------------------
(* The parts of a tuple of Worker, and an event id. *)
LEMMA WorkerParts ==
  ASSUME NEW w \in Worker
  PROVE  w[1] \in Proc /\ w[2] \in Slot /\ w = <<w[1], w[2]>>
BY DEF Worker

LEMMA ReplayWorker ==
  ASSUME NEW p \in Proc
  PROVE  <<p, Replay>> \in Worker
BY DEF Worker, Slot

(* A listing serves published events after the given id, and no published  *)
(* event between that id and any it serves is missing from it.             *)
LEMMA PageIsPrefix ==
  ASSUME TypeOK, NEW s \in Nat
  PROVE  /\ Page(s) \subseteq published
         /\ \A e \in Page(s) : e > s
         /\ \A e \in Page(s), f \in published : s < f /\ f < e => f \in Page(s)
<1>1. IsFiniteSet(Later(s))
  <2>1. IsFiniteSet(EventId)
    BY FS_Interval, BoundsAreNaturals DEF EventId
  <2>2. Later(s) \in SUBSET EventId
    BY DEF TypeOK, Later
  <2> QED BY <2>1, <2>2, FS_Subset
<1>2. ASSUME NEW e \in Page(s), NEW f \in published, s < f, f < e
      PROVE  f \in Page(s)
  <2> DEFINE Below(x) == {g \in Later(s) : g < x}
  <2>1. e \in Nat /\ f \in Nat /\ published \subseteq Nat
    BY BoundsAreNaturals DEF TypeOK, EventId, Page, Later
  <2>2. Below(f) \in SUBSET Below(e)
    <3>1. ASSUME NEW g \in Later(s), g < f PROVE g < e
      <4>1. g \in Nat
        BY <2>1 DEF Later
      <4> QED BY <1>2, <2>1, <3>1, <4>1
    <3> QED BY <3>1
  <2>3. Below(e) \in SUBSET Later(s)
    OBVIOUS
  <2>4. IsFiniteSet(Below(e)) /\ IsFiniteSet(Below(f))
    BY <1>1, <2>2, <2>3, FS_Subset
  <2>5. Cardinality(Below(f)) <= Cardinality(Below(e))
    BY <2>2, <2>4, FS_Subset
  <2>6. Cardinality(Below(f)) \in Nat /\ Cardinality(Below(e)) \in Nat
    BY <2>4, FS_CardinalityType
  <2>7. Cardinality(Below(e)) < PageSize
    BY DEF Page
  <2>8. Cardinality(Below(f)) < PageSize
    BY <2>5, <2>6, <2>7, BoundsAreNaturals
  <2>9. f \in Later(s)
    BY <1>2, <2>1 DEF Later
  <2> QED BY <2>8, <2>9 DEF Page
<1> QED BY <1>2 DEF Page, Later

(* Every variable keeps its type in every step. *)
LEMMA TypeInductive == TypeOK /\ [Next]_vars => TypeOK'
<1> SUFFICES ASSUME TypeOK, [Next]_vars PROVE TypeOK'
  OBVIOUS
<1> USE BoundsAreNaturals DEF TypeOK, EventId, identityVars, ReplayRecord
<1>1. ASSUME NEW e \in EventId, Publish(e) \/ GiveUp(e) PROVE TypeOK'
  BY <1>1 DEF Publish, GiveUp
<1>2. ASSUME NEW w \in Worker, Process(w) PROVE TypeOK'
  <2>1. PICK st \in TxnStates : Step(w, st)
    BY <1>2 DEF Process, Connect, Insert, InsertDuplicate, MarkProcessed, Commit,
       TxnStates
  <2>2. txn' \in [Worker -> [st : TxnStates, ev : 0..MaxEventId]]
    BY <2>1 DEF Step
  <2>3. rows' \in [EventId -> {"absent", "received", "processed"}]
    BY <1>2 DEF Process, Connect, Insert, InsertDuplicate, MarkProcessed, Commit
  <2>4. UNCHANGED <<published, delivery, cursor, replay, up, faults>>
    BY <1>2 DEF Process, Connect, Insert, InsertDuplicate, MarkProcessed, Commit
  <2> QED BY <2>2, <2>3, <2>4
<1>3. ASSUME NEW w \in Worker, FailTxn(w) PROVE TypeOK'
  <2>1. rows' \in [EventId -> {"absent", "received", "processed"}]
    BY <1>3 DEF FailTxn, AfterLoss
  <2>2. txn' \in [Worker -> [st : TxnStates, ev : 0..MaxEventId]]
    BY <1>3 DEF FailTxn, Idle, TxnStates
  <2>3. replay' \in [Proc -> ReplayRecord]
    BY <1>3, WorkerParts DEF FailTxn, ReplayStates
  <2>4. faults' \in 0..MaxFaults
    BY <1>3 DEF FailTxn, SpendFault
  <2> QED BY <1>3, <2>1, <2>2, <2>3, <2>4 DEF FailTxn
<1>4. ASSUME NEW w \in Worker, Acknowledge(w) \/ LoseAnswer(w) PROVE TypeOK'
  <2>1. txn' \in [Worker -> [st : TxnStates, ev : 0..MaxEventId]]
    <3>1. txn' = [txn EXCEPT ![w] = Idle]
      BY <1>4 DEF Acknowledge, LoseAnswer
    <3> QED BY <3>1 DEF Idle, TxnStates
  <2>2. delivery' \in [EventId -> {"none", "pending", "acked", "abandoned"}]
    BY <1>4 DEF Acknowledge, LoseAnswer
  <2>3. faults' \in 0..MaxFaults
    BY <1>4 DEF Acknowledge, LoseAnswer, SpendFault
  <2> QED BY <1>4, <2>1, <2>2, <2>3 DEF Acknowledge, LoseAnswer
<1>5. ASSUME NEW w \in Worker, NEW e \in EventId, Receive(w, e) PROVE TypeOK'
  BY <1>5 DEF Receive, Begins, TxnStates
<1>6. ASSUME NEW p \in Proc, CatchUp(p) PROVE TypeOK'
  <2>1. CASE ReadCheckpoint(p)
    BY <2>1 DEF ReadCheckpoint, LoopAt, ReplayStates
  <2>2. CASE ListEmpty(p)
    BY <2>2 DEF ListEmpty, ReplayStates
  <2>3. CASE ListPage(p)
    <3>1. replay[p].since \in Nat
      OBVIOUS
    <3>2. Page(replay[p].since) \subseteq published
      BY <3>1, PageIsPrefix
    <3>3. PICK last \in published, full \in BOOLEAN :
            replay' = [replay EXCEPT ![p] =
              Reading(replay[p].since, Page(replay[p].since), last, full)]
      <4>1. (Cardinality(Page(replay[p].since)) >= PageSize) \in BOOLEAN
        OBVIOUS
      <4> QED BY <2>3, <3>2, <4>1 DEF ListPage
    <3>4. Reading(replay[p].since, Page(replay[p].since), last, full) \in ReplayRecord
      <4>1. replay[p].since \in 0..MaxEventId /\ last \in 0..MaxEventId
        OBVIOUS
      <4>2. Page(replay[p].since) \in SUBSET EventId
        BY <3>2
      <4> QED BY <4>1, <4>2 DEF Reading, ReplayStates
    <3>5. replay' \in [Proc -> ReplayRecord]
      BY <3>3, <3>4
    <3> QED BY <2>3, <3>5 DEF ListPage
  <2>4. CASE ReplayNext(p)
    BY <2>4, ReplayWorker DEF ReplayNext, Begins, TxnStates
  <2>5. CASE ReplayReturns(p)
    <3>1. replay' \in [Proc -> ReplayRecord]
      BY <2>5 DEF ReplayReturns
    <3>2. txn' \in [Worker -> [st : TxnStates, ev : 0..MaxEventId]]
      BY <2>5, ReplayWorker DEF ReplayReturns, Idle, TxnStates
    <3> QED BY <2>5, <3>1, <3>2 DEF ReplayReturns
  <2>6. CASE AdvanceCursor(p)
    BY <2>6 DEF AdvanceCursor, LoopAt, Greatest, ReplayStates
  <2> QED BY <1>6, <2>1, <2>2, <2>3, <2>4, <2>5, <2>6 DEF CatchUp
<1>7. ASSUME NEW p \in Proc, FailReplay(p) PROVE TypeOK'
  <2>1. cursor' \in 0..MaxEventId
    BY <1>7 DEF FailReplay, Greatest
  <2>2. replay' \in [Proc -> ReplayRecord]
    BY <1>7 DEF FailReplay, ReplayStates
  <2>3. faults' \in 0..MaxFaults
    BY <1>7 DEF FailReplay, SpendFault
  <2> QED BY <1>7, <2>1, <2>2, <2>3 DEF FailReplay
<1>8. ASSUME NEW p \in Proc, Boot(p) PROVE TypeOK'
  BY <1>8 DEF Boot, LoopAt, ReplayStates
<1>9. ASSUME NEW p \in Proc, Crash(p) PROVE TypeOK'
  BY <1>9 DEF Crash, SpendFault, Off, LoopAt, Idle, ReplayStates, TxnStates
<1>10. CASE UNCHANGED vars
  BY <1>10 DEF vars
<1> QED BY <1>1, <1>2, <1>3, <1>4, <1>5, <1>6, <1>7, <1>8, <1>9, <1>10 DEF Next

-----------------------------------------------------------------------------
(* Every step takes the log, the processed rows and the cursor forward.    *)
LEMMA Forward ==
  ASSUME IInv, [Next]_vars
  PROVE  /\ published \subseteq published'
         /\ \A e \in EventId : rows[e] = "processed" => rows'[e] = "processed"
         /\ \A e \in EventId : rows'[e] \in {rows[e], "processed"}
         /\ \A e \in EventId \ published : rows'[e] = rows[e]
         /\ cursor <= cursor'
<1> DEFINE Goal == /\ published \subseteq published'
                   /\ \A e \in EventId : rows'[e] \in {rows[e], "processed"}
                   /\ \A e \in EventId \ published : rows'[e] = rows[e]
                   /\ cursor <= cursor'
<1> USE DEF IInv, TypeOK, TxnInv
<1>0. cursor \in Nat
  BY BoundsAreNaturals
<1>1. ASSUME NEW e \in EventId, Publish(e) \/ GiveUp(e) PROVE Goal
  BY <1>0, <1>1 DEF Publish, GiveUp
<1>2. ASSUME NEW w \in Worker, Process(w) PROVE Goal
  BY <1>0, <1>2 DEF Process, Connect, Insert, InsertDuplicate, MarkProcessed, Commit,
     identityVars
<1>3. ASSUME NEW w \in Worker, FailTxn(w) PROVE Goal
  BY <1>0, <1>3 DEF FailTxn, AfterLoss, identityVars
<1>4. ASSUME NEW w \in Worker, Acknowledge(w) \/ LoseAnswer(w) PROVE Goal
  BY <1>0, <1>4 DEF Acknowledge, LoseAnswer, identityVars
<1>5. ASSUME NEW w \in Worker, NEW e \in EventId, Receive(w, e) PROVE Goal
  BY <1>0, <1>5 DEF Receive, identityVars
<1>6. ASSUME NEW p \in Proc, CatchUp(p) \/ FailReplay(p) PROVE Goal
  <2>1. replay[p].last \in Nat
    BY BoundsAreNaturals DEF ReplayRecord
  <2>2. cursor <= cursor'
    BY <1>0, <1>6, <2>1 DEF CatchUp, FailReplay, ReadCheckpoint, ListEmpty, ListPage,
       ReplayNext, ReplayReturns, AdvanceCursor, Greatest
  <2>3. UNCHANGED <<published, rows>>
    BY <1>6 DEF CatchUp, FailReplay, ReadCheckpoint, ListEmpty, ListPage,
       ReplayNext, ReplayReturns, AdvanceCursor, identityVars
  <2> QED BY <2>2, <2>3
<1>7. ASSUME NEW p \in Proc, Boot(p) PROVE Goal
  BY <1>0, <1>7 DEF Boot, identityVars
<1>8. ASSUME NEW p \in Proc, Crash(p) PROVE Goal
  <2>1. UNCHANGED <<published, cursor>>
    BY <1>8 DEF Crash, identityVars
  <2>2. \A s \in Slot : txn[<<p, s>>].st = "marked" => txn[<<p, s>>].ev \in published
    BY DEF Worker
  <2>3. \A e \in EventId : rows'[e] = rows[e] \/ (rows'[e] = "processed" /\ e \in published)
    <3> DEFINE sent == {txn[<<p, s>>].ev : s \in {x \in Slot :
                                             txn[<<p, x>>].st = "marked"}}
    <3>1. PICK kept \in SUBSET sent :
            rows' = [e \in EventId |-> IF e \in kept THEN "processed" ELSE rows[e]]
      BY <1>8, Zenon DEF Crash
    <3>2. ASSUME NEW e \in sent PROVE e \in published
      <4>1. \E s \in Slot : txn[<<p, s>>].st = "marked" /\ e = txn[<<p, s>>].ev
        BY Zenon
      <4> QED BY <2>2, <4>1, Zenon
    <3>3. \A e \in kept : e \in published
      BY <3>2
    <3> HIDE DEF sent
    <3> QED BY <3>1, <3>3
  <2> QED BY <1>0, <2>1, <2>3
<1>9. CASE UNCHANGED vars
  BY <1>0, <1>9 DEF vars
<1>10. Goal
  BY <1>1, <1>2, <1>3, <1>4, <1>5, <1>6, <1>7, <1>8, <1>9 DEF Next
<1> QED BY <1>10

(* Only a delivery that ended processed is acknowledged. *)
LEMMA AckedInductive ==
  ASSUME IInv, [Next]_vars
  PROVE  AckedIsDurable' /\ IdentityInv'
<1>1. /\ published \subseteq published'
      /\ \A e \in EventId : rows[e] = "processed" => rows'[e] = "processed"
      /\ \A e \in EventId : rows'[e] # "absent" => e \in published /\ rows'[e] = "processed"
  BY Forward DEF IInv, IdentityInv
<1>2. ASSUME UNCHANGED delivery PROVE AckedIsDurable' /\ IdentityInv'
  BY <1>1, <1>2 DEF IInv, IdentityInv, AckedIsDurable
<1>3. ASSUME NEW e \in EventId, Publish(e) PROVE AckedIsDurable' /\ IdentityInv'
  BY <1>1, <1>3 DEF Publish, IInv, TypeOK, IdentityInv, AckedIsDurable
<1>4. ASSUME NEW e \in EventId, GiveUp(e) PROVE AckedIsDurable' /\ IdentityInv'
  BY <1>1, <1>4 DEF GiveUp, IInv, TypeOK, IdentityInv, AckedIsDurable
<1>5. ASSUME NEW w \in Worker, Acknowledge(w) PROVE AckedIsDurable' /\ IdentityInv'
  BY <1>1, <1>5 DEF Acknowledge, IInv, TypeOK, IdentityInv, TxnInv, AckedIsDurable
<1> QED
  BY <1>2, <1>3, <1>4, <1>5 DEF Next, vars, Process, Connect, Insert, InsertDuplicate,
     MarkProcessed, Commit, FailTxn, LoseAnswer, Receive, CatchUp, FailReplay,
     ReadCheckpoint, ListEmpty, ListPage, ReplayNext, ReplayReturns, AdvanceCursor,
     Boot, Crash, identityVars

(* A slot begins on a published event and answers for a processed one. *)
LEMMA TxnInductive ==
  ASSUME IInv, [Next]_vars
  PROVE  TxnInv'
<1>1. /\ published \subseteq published'
      /\ \A e \in EventId : rows[e] = "processed" => rows'[e] = "processed"
      /\ published \subseteq EventId
  BY Forward DEF IInv, TypeOK
<1> DEFINE Kept(w) == txn'[w].ev = txn[w].ev /\ txn'[w].st = txn[w].st
<1>2. ASSUME NEW v \in Worker, Kept(v) \/ txn'[v].st = "idle"
      PROVE  /\ txn'[v].st # "idle" => txn'[v].ev \in published'
             /\ txn'[v].st = "answered" => rows'[txn'[v].ev] = "processed"
  BY <1>1, <1>2 DEF IInv, TxnInv
<1>3. ASSUME UNCHANGED txn PROVE TxnInv'
  BY <1>2, <1>3 DEF TxnInv
<1>4. ASSUME NEW w \in Worker, Process(w) PROVE TxnInv'
  <2>1. PICK st \in TxnStates : Step(w, st)
    BY <1>4 DEF Process, Connect, Insert, InsertDuplicate, MarkProcessed, Commit,
       TxnStates
  <2>2. \A v \in Worker \ {w} : Kept(v)
    BY <2>1 DEF Step, IInv, TypeOK
  <2>3. txn'[w].ev = txn[w].ev /\ txn[w].st # "idle"
    BY <1>4, <2>1 DEF Process, Connect, Insert, InsertDuplicate, MarkProcessed, Commit,
       Step, IInv, TypeOK
  <2>4. txn[w].ev \in published
    BY <2>3 DEF IInv, TxnInv
  <2>5. ASSUME txn'[w].st = "answered" PROVE rows'[txn[w].ev] = "processed"
    <3>1. CASE Commit(w)
      BY <1>1, <2>4, <3>1 DEF Commit, IInv, TypeOK
    <3>2. CASE InsertDuplicate(w)
      <4>1. rows[txn[w].ev] \in {"absent", "received", "processed"}
        BY <1>1, <2>4 DEF IInv, TypeOK
      <4>2. rows[txn[w].ev] = "processed"
        BY <1>1, <2>4, <3>2, <4>1 DEF InsertDuplicate, IInv, IdentityInv
      <4> QED BY <1>1, <2>4, <4>2
    <3>3. CASE Connect(w) \/ Insert(w) \/ MarkProcessed(w)
      BY <2>5, <3>3 DEF Connect, Insert, MarkProcessed, Step, IInv, TypeOK
    <3> QED BY <1>4, <3>1, <3>2, <3>3 DEF Process
  <2> QED BY <1>1, <1>2, <2>2, <2>3, <2>4, <2>5 DEF TxnInv
<1>5. ASSUME NEW w \in Worker, FailTxn(w) \/ Acknowledge(w) \/ LoseAnswer(w)
      PROVE  TxnInv'
  <2>1. txn' = [txn EXCEPT ![w] = Idle]
    BY <1>5 DEF FailTxn, Acknowledge, LoseAnswer
  <2>2. \A v \in Worker : Kept(v) \/ txn'[v].st = "idle"
    BY <2>1 DEF Idle, IInv, TypeOK
  <2> QED BY <1>2, <2>2 DEF TxnInv
<1>6. ASSUME NEW w \in Worker, NEW e \in published, Begins(w, e) PROVE TxnInv'
  <2>1. \A v \in Worker \ {w} : Kept(v)
    BY <1>6 DEF Begins, IInv, TypeOK
  <2>2. txn'[w].st = "waiting" /\ txn'[w].ev = e
    BY <1>6 DEF Begins, IInv, TypeOK
  <2> QED BY <1>1, <1>2, <2>1, <2>2 DEF TxnInv
<1>7. ASSUME NEW w \in Worker, NEW e \in EventId, Receive(w, e) PROVE TxnInv'
  BY <1>6, <1>7 DEF Receive, IInv, IdentityInv
<1>8. ASSUME NEW p \in Proc, ReplayNext(p) PROVE TxnInv'
  BY <1>6, <1>8, ReplayWorker DEF ReplayNext, IInv, ReplayInv
<1>9. ASSUME NEW p \in Proc, ReplayReturns(p) PROVE TxnInv'
  <2>1. \A v \in Worker : Kept(v) \/ txn'[v].st = "idle"
    BY <1>9 DEF ReplayReturns, Idle, IInv, TypeOK
  <2> QED BY <1>2, <2>1 DEF TxnInv
<1>10. ASSUME NEW p \in Proc, Crash(p) PROVE TxnInv'
  <2>1. \A v \in Worker : Kept(v) \/ txn'[v].st = "idle"
    BY <1>10 DEF Crash, Idle, IInv, TypeOK
  <2> QED BY <1>2, <2>1 DEF TxnInv
<1> QED
  BY <1>3, <1>4, <1>5, <1>7, <1>8, <1>9, <1>10 DEF Next, vars, CatchUp, Publish, GiveUp,
     FailReplay, ReadCheckpoint, ListEmpty, ListPage, AdvanceCursor, Boot

(* The unique key lets one transaction at a time hold the row of an event, *)
(* and none once it is committed.                                          *)
LEMMA AppliedInductive ==
  ASSUME IInv, [Next]_vars
  PROVE  AppliedOnce'
<1> DEFINE Holds(w, e) == txn[w].st \in {"inserted", "marked"} /\ txn[w].ev = e
           HoldsNext(w, e) == txn'[w].st \in {"inserted", "marked"} /\ txn'[w].ev = e
<1>1. ASSUME NEW v \in Worker, NEW e \in EventId, Holds(v, e)
      PROVE  rows[e] = "absent" /\ \A w \in Worker \ {v} : ~Holds(w, e)
  BY <1>1 DEF IInv, AppliedOnce
<1>2. \A v \in Worker : txn'[v].st # "idle" => txn'[v].ev \in EventId
  BY TypeInductive, TxnInductive DEF IInv, TxnInv, TypeOK
<1>3. ASSUME \A v \in Worker, e \in EventId : HoldsNext(v, e) => Holds(v, e),
             \A v \in Worker, e \in EventId :
               HoldsNext(v, e) => rows'[e] = rows[e]
      PROVE  AppliedOnce'
  BY <1>1, <1>2, <1>3 DEF AppliedOnce
<1>4. ASSUME NEW w \in Worker, Insert(w) PROVE AppliedOnce'
  <2>1. \A e \in EventId : Holds(w, e) => FALSE
    BY <1>4 DEF Insert
  <2>2. /\ \A v \in Worker \ {w} : txn'[v] = txn[v]
        /\ txn'[w].ev = txn[w].ev
        /\ UNCHANGED rows
    BY <1>4 DEF Insert, Step, IInv, TypeOK
  <2>3. /\ rows[txn[w].ev] = "absent"
        /\ \A v \in Worker : ~Holds(v, txn[w].ev)
    BY <1>4 DEF Insert, RowLocked
  <2> QED BY <1>1, <1>2, <2>2, <2>3 DEF AppliedOnce
<1>5. ASSUME NEW w \in Worker, Commit(w) PROVE AppliedOnce'
  <2>1. txn[w].ev \in EventId /\ Holds(w, txn[w].ev)
    BY <1>5 DEF Commit, IInv, TxnInv, TypeOK
  <2>2. /\ \A v \in Worker \ {w} : txn'[v] = txn[v]
        /\ txn'[w].st = "answered"
        /\ \A e \in EventId : e # txn[w].ev => rows'[e] = rows[e]
    BY <1>5, <2>1 DEF Commit, Step, IInv, TypeOK
  <2>3. \A v \in Worker \ {w} : ~Holds(v, txn[w].ev)
    BY <1>1, <2>1
  <2> QED BY <1>3, <2>2, <2>3
<1>6. ASSUME NEW w \in Worker, Connect(w) \/ InsertDuplicate(w) \/ MarkProcessed(w)
      PROVE  AppliedOnce'
  <2>1. \A v \in Worker, e \in EventId : HoldsNext(v, e) => Holds(v, e)
    BY <1>6 DEF Connect, InsertDuplicate, MarkProcessed, Step, IInv, TypeOK
  <2>2. UNCHANGED rows
    BY <1>6 DEF Connect, InsertDuplicate, MarkProcessed
  <2> QED BY <1>3, <2>1, <2>2
<1>7. ASSUME NEW w \in Worker, FailTxn(w) PROVE AppliedOnce'
  <2>1. /\ \A v \in Worker \ {w} : txn'[v] = txn[v]
        /\ txn'[w].st = "idle"
    BY <1>7 DEF FailTxn, Idle, IInv, TypeOK
  <2>2. txn[w].ev \in EventId
    BY <1>7 DEF FailTxn, IInv, TxnInv, TypeOK
  <2>3. \A e \in EventId : (e = txn[w].ev /\ Holds(w, e)) \/ rows'[e] = rows[e]
    BY <1>7, <2>2 DEF FailTxn, AfterLoss, IInv, TypeOK
  <2>4. \A v \in Worker \ {w} : Holds(w, txn[w].ev) => ~Holds(v, txn[w].ev)
    BY <1>1, <2>2
  <2> QED BY <1>3, <2>1, <2>3, <2>4
<1>8. ASSUME NEW p \in Proc, Crash(p) PROVE AppliedOnce'
  <2>1. \A v \in Worker : txn'[v] = IF v[1] = p THEN Idle ELSE txn[v]
    BY <1>8 DEF Crash
  <2>2. \A e \in EventId :
          rows'[e] = rows[e] \/ \E s \in Slot : Holds(<<p, s>>, e)
    BY <1>8 DEF Crash
  <2>3. ASSUME NEW v \in Worker, NEW e \in EventId, HoldsNext(v, e)
        PROVE  Holds(v, e) /\ rows'[e] = rows[e]
    <3>1. v[1] # p /\ Holds(v, e)
      BY <2>1, <2>3 DEF Idle
    <3>2. \A s \in Slot : <<p, s>> \in Worker /\ <<p, s>> # v
      BY <3>1 DEF Worker
    <3>3. \A s \in Slot : ~Holds(<<p, s>>, e)
      BY <1>1, <3>1, <3>2
    <3> QED BY <2>2, <3>1, <3>3
  <2> QED BY <1>3, <2>3
<1>9. ASSUME NEW w \in Worker, txn' = [txn EXCEPT ![w] = Idle], UNCHANGED rows
      PROVE  AppliedOnce'
  <2>1. \A v \in Worker, e \in EventId : HoldsNext(v, e) => Holds(v, e)
    BY <1>9 DEF Idle, IInv, TypeOK
  <2> QED BY <1>3, <1>9, <2>1
<1>10. ASSUME NEW w \in Worker, NEW e \in EventId, Begins(w, e), UNCHANGED rows
       PROVE  AppliedOnce'
  <2>1. \A v \in Worker, f \in EventId : HoldsNext(v, f) => Holds(v, f)
    BY <1>10 DEF Begins, IInv, TypeOK
  <2> QED BY <1>3, <1>10, <2>1
<1>11. ASSUME UNCHANGED <<txn, rows>> PROVE AppliedOnce'
  BY <1>11 DEF IInv, AppliedOnce
<1>12. ASSUME NEW w \in Worker, Acknowledge(w) \/ LoseAnswer(w) PROVE AppliedOnce'
  BY <1>9, <1>12 DEF Acknowledge, LoseAnswer, identityVars
<1>13. ASSUME NEW w \in Worker, NEW e \in EventId, Receive(w, e) PROVE AppliedOnce'
  BY <1>10, <1>13 DEF Receive
<1>14. ASSUME NEW p \in Proc, ReplayNext(p) PROVE AppliedOnce'
  BY <1>10, <1>14, ReplayWorker DEF ReplayNext, IInv, TypeOK, ReplayRecord
<1>15. ASSUME NEW p \in Proc, ReplayReturns(p) PROVE AppliedOnce'
  BY <1>9, <1>15, ReplayWorker DEF ReplayReturns
<1> QED
  BY <1>4, <1>5, <1>6, <1>7, <1>8, <1>11, <1>12, <1>13, <1>14, <1>15 DEF Next, vars,
     Process, CatchUp, Publish, GiveUp, FailReplay, ReadCheckpoint, ListEmpty, ListPage,
     AdvanceCursor, Boot

(* What a loop has read of the log stays on its page until it is processed *)
(* and the cursor passes nothing else.                                     *)
LEMMA ReplayInductive ==
  ASSUME IInv, [Next]_vars
  PROVE  ReplayInv' /\ CursorCoversProcessed'
<1>1. /\ published \subseteq published'
      /\ \A e \in EventId : rows[e] = "processed" => rows'[e] = "processed"
      /\ cursor <= cursor'
  BY Forward
<1>2. /\ EventId \subseteq Nat
      /\ published \subseteq EventId /\ published' \subseteq EventId
      /\ cursor \in Nat /\ cursor' \in Nat
      /\ \A p \in Proc : /\ replay[p].since \in Nat /\ replay'[p].since \in Nat
                         /\ replay[p].last \in Nat /\ replay'[p].last \in Nat
  BY TypeInductive, BoundsAreNaturals DEF IInv, TypeOK, EventId, ReplayRecord
<1>3. /\ cursor = 0 \/ cursor \in published
      /\ \A e \in published : e <= cursor => rows[e] = "processed"
  BY DEF IInv, ReplayInv, CursorCoversProcessed
<1> DEFINE LoopInv(p) ==
      /\ replay[p].since <= cursor
      /\ replay[p].pc = "page" =>
           /\ replay[p].last \in published
           /\ replay[p].todo \subseteq published
           /\ \A e \in published :
                e <= replay[p].last => e \in replay[p].todo \/ rows[e] = "processed"
<1>4. ASSUME NEW p \in Proc PROVE LoopInv(p)
  BY DEF IInv, ReplayInv
<1>5. ASSUME NEW p \in Proc, UNCHANGED published, replay'[p] = replay[p]
      PROVE  LoopInv(p)'
  BY <1>1, <1>2, <1>4, <1>5
<1>6. ASSUME NEW p \in Proc, replay'[p].since <= cursor', replay'[p].pc # "page"
      PROVE  LoopInv(p)'
  BY <1>6
<1>7. ASSUME UNCHANGED <<published, cursor>>
      PROVE  CursorCoversProcessed' /\ (cursor' = 0 \/ cursor' \in published')
  BY <1>1, <1>2, <1>3, <1>7 DEF CursorCoversProcessed
<1>8. ASSUME NEW e \in EventId, Publish(e)
      PROVE  ReplayInv' /\ CursorCoversProcessed'
  <2>1. /\ published' = published \cup {e}
        /\ \A f \in published : f < e
        /\ UNCHANGED <<rows, cursor, replay>>
    BY <1>8 DEF Publish
  <2>2. cursor < e
    BY <1>2, <1>3, <2>1 DEF EventId
  <2>3. CursorCoversProcessed' /\ (cursor' = 0 \/ cursor' \in published')
    BY <1>2, <1>3, <2>1, <2>2 DEF CursorCoversProcessed
  <2>4. ASSUME NEW p \in Proc PROVE LoopInv(p)'
    <3>1. replay[p].pc = "page" => replay[p].last < e
      BY <1>4, <2>1
    <3> QED BY <1>2, <1>4, <2>1, <3>1
  <2> QED BY <2>3, <2>4 DEF ReplayInv
<1>9. ASSUME UNCHANGED <<published, cursor, replay>>
      PROVE  ReplayInv' /\ CursorCoversProcessed'
  BY <1>5, <1>7, <1>9 DEF ReplayInv
<1>10. ASSUME NEW p \in Proc, UNCHANGED <<published, cursor>>,
              \A q \in Proc \ {p} : replay'[q] = replay[q], LoopInv(p)'
       PROVE  ReplayInv' /\ CursorCoversProcessed'
  BY <1>5, <1>7, <1>10 DEF ReplayInv
<1>11. ASSUME NEW w \in Worker, FailTxn(w) PROVE ReplayInv' /\ CursorCoversProcessed'
  <2>1. w[1] \in Proc
    BY WorkerParts
  <2>2. UNCHANGED <<published, cursor>>
    BY <1>11 DEF FailTxn, identityVars
  <2>3. CASE w[2] = Replay
    <3>1. /\ \A q \in Proc \ {w[1]} : replay'[q] = replay[q]
          /\ replay'[w[1]].since = replay[w[1]].since
          /\ replay'[w[1]].pc = "failed"
      BY <1>11, <2>1, <2>3 DEF FailTxn, IInv, TypeOK, ReplayRecord
    <3>2. LoopInv(w[1])'
      BY <1>4, <1>6, <2>1, <2>2, <3>1
    <3> QED BY <1>10, <2>1, <2>2, <3>1, <3>2
  <2>4. CASE w[2] # Replay
    BY <1>9, <1>11, <2>2, <2>4 DEF FailTxn
  <2> QED BY <2>3, <2>4
<1>12. ASSUME NEW p \in Proc, ReadCheckpoint(p) \/ ListEmpty(p) \/ Boot(p) \/ Crash(p)
       PROVE  ReplayInv' /\ CursorCoversProcessed'
  <2>1. /\ UNCHANGED <<published, cursor>>
        /\ \A q \in Proc \ {p} : replay'[q] = replay[q]
    BY <1>12 DEF ReadCheckpoint, ListEmpty, Boot, Crash, identityVars, IInv, TypeOK
  <2>2. replay'[p].since <= cursor /\ replay'[p].pc # "page"
    BY <1>2, <1>4, <1>12 DEF ReadCheckpoint, ListEmpty, Boot, Crash, Off, LoopAt,
       IInv, TypeOK, ReplayRecord
  <2> QED BY <1>6, <1>10, <2>1, <2>2
<1>13. ASSUME NEW p \in Proc, ListPage(p) PROVE ReplayInv' /\ CursorCoversProcessed'
  <2> DEFINE page == Page(replay[p].since)
  <2>1. PICK last \in page :
          /\ \A e \in page : e <= last
          /\ replay' = [replay EXCEPT ![p] =
               Reading(replay[p].since, page, last, Cardinality(page) >= PageSize)]
    BY <1>13 DEF ListPage
  <2>2. UNCHANGED <<published, cursor, rows>>
    BY <1>13 DEF ListPage, identityVars
  <2>3. /\ \A q \in Proc \ {p} : replay'[q] = replay[q]
        /\ replay'[p].since = replay[p].since
        /\ replay'[p].todo = page
        /\ replay'[p].last = last
    BY <2>1 DEF Reading, IInv, TypeOK
  <2>4. replay[p].since \in Nat /\ TypeOK
    BY <1>2 DEF IInv
  <2>5. /\ page \subseteq published
        /\ \A e \in page : e > replay[p].since
        /\ \A e \in page, f \in published : replay[p].since < f /\ f < e => f \in page
    BY <2>4, PageIsPrefix
  <2>6. ASSUME NEW e \in published, e <= last PROVE e \in page \/ rows[e] = "processed"
    <3>1. CASE e <= replay[p].since
      BY <1>2, <1>3, <1>4, <3>1
    <3>2. CASE e > replay[p].since
      <4>1. CASE e = last
        BY <2>1, <4>1
      <4>2. CASE e < last
        BY <2>1, <2>5, <3>2, <4>2
      <4>3. e \in Nat /\ last \in Nat /\ e <= last
        BY <1>2, <2>5, <2>6
      <4> QED BY <4>1, <4>2, <4>3
    <3> QED BY <1>2, <3>1, <3>2
  <2>7. LoopInv(p)'
    BY <1>4, <2>2, <2>3, <2>5, <2>6
  <2> QED BY <1>10, <2>2, <2>3, <2>7
<1>14. ASSUME NEW p \in Proc, ReplayReturns(p) PROVE ReplayInv' /\ CursorCoversProcessed'
  <2>1. /\ UNCHANGED <<published, cursor, rows>>
        /\ \A q \in Proc \ {p} : replay'[q] = replay[q]
        /\ replay'[p] = [replay[p] EXCEPT !.todo = @ \ {txn[<<p, Replay>>].ev}]
    BY <1>14 DEF ReplayReturns, identityVars, IInv, TypeOK
  <2>2. rows[txn[<<p, Replay>>].ev] = "processed"
    BY <1>14, ReplayWorker DEF ReplayReturns, IInv, TxnInv
  <2>3. /\ replay'[p].pc = replay[p].pc
        /\ replay'[p].since = replay[p].since
        /\ replay'[p].last = replay[p].last
        /\ replay'[p].todo = replay[p].todo \ {txn[<<p, Replay>>].ev}
    BY <2>1 DEF IInv, TypeOK, ReplayRecord
  <2>4. LoopInv(p)'
    BY <1>4, <2>1, <2>2, <2>3
  <2> QED BY <1>10, <2>1, <2>4
<1>15. ASSUME NEW p \in Proc, AdvanceCursor(p) \/ FailReplay(p)
       PROVE  ReplayInv' /\ CursorCoversProcessed'
  <2>1. UNCHANGED <<published, rows>>
    BY <1>15 DEF AdvanceCursor, FailReplay, identityVars
  <2>2. \/ cursor' = cursor
        \/ cursor' = Greatest(cursor, replay[p].last) /\ PageFinished(p)
    BY <1>15 DEF AdvanceCursor, FailReplay
  <2>3. CursorCoversProcessed' /\ (cursor' = 0 \/ cursor' \in published')
    BY <1>2, <1>3, <1>4, <2>1, <2>2 DEF Greatest, PageFinished, CursorCoversProcessed
  <2>4. \A q \in Proc \ {p} : replay'[q] = replay[q]
    BY <1>15 DEF AdvanceCursor, FailReplay, IInv, TypeOK
  <2>5. replay'[p].since <= cursor' /\ replay'[p].pc # "page"
    <3>1. CASE AdvanceCursor(p)
      BY <1>2, <3>1 DEF AdvanceCursor, LoopAt, Greatest, IInv, TypeOK
    <3>2. CASE FailReplay(p)
      <4>1. replay'[p].since = replay[p].since /\ replay'[p].pc = "failed"
        BY <3>2 DEF FailReplay, IInv, TypeOK, ReplayRecord
      <4> QED BY <1>1, <1>2, <1>4, <4>1
    <3> QED BY <1>15, <3>1, <3>2
  <2>6. \A q \in Proc : LoopInv(q)'
    BY <1>5, <1>6, <2>1, <2>4, <2>5
  <2> QED BY <2>3, <2>6 DEF ReplayInv
<1> QED
  BY <1>8, <1>9, <1>11, <1>12, <1>13, <1>14, <1>15 DEF Next, vars, identityVars, GiveUp,
     Process, Connect, Insert, InsertDuplicate, MarkProcessed, Commit, Acknowledge,
     LoseAnswer, Receive, CatchUp, ReplayNext

-----------------------------------------------------------------------------
LEMMA InitIInv == Init => IInv
<1> SUFFICES ASSUME Init PROVE IInv
  OBVIOUS
<1> USE BoundsAreNaturals DEF Init
<1>1. TypeOK
  BY DEF TypeOK, EventId, Idle, Off, LoopAt, TxnStates, ReplayStates, ReplayRecord
<1>2. IdentityInv /\ AckedIsDurable /\ CursorCoversProcessed
  BY DEF IdentityInv, AckedIsDurable, CursorCoversProcessed
<1>3. TxnInv /\ AppliedOnce
  BY DEF TxnInv, AppliedOnce, Idle
<1>4. ReplayInv
  BY DEF ReplayInv, Off, LoopAt
<1> QED BY <1>1, <1>2, <1>3, <1>4 DEF IInv

LEMMA NextIInv == IInv /\ [Next]_vars => IInv'
<1> SUFFICES ASSUME IInv, [Next]_vars PROVE IInv'
  OBVIOUS
<1>1. TypeOK'
  BY TypeInductive DEF IInv
<1> QED
  BY <1>1, AckedInductive, TxnInductive, AppliedInductive, ReplayInductive DEF IInv

LEMMA InvariantHolds == Spec => []IInv
BY InitIInv, NextIInv, PTL DEF Spec

(* Type correctness of the inbox. *)
THEOREM TypeCorrect == Spec => []TypeOK
BY InvariantHolds, PTL DEF IInv

(* The replay cursor never passes an event that is not durably processed.  *)
THEOREM CursorIsSafe == Spec => []CursorCoversProcessed
BY InvariantHolds, PTL DEF IInv

(* No event is acknowledged before its receipt is committed as processed.  *)
THEOREM AckIsSafe == Spec => []AckedIsDurable
BY InvariantHolds, PTL DEF IInv

(* Overlapping deliveries, retries and replays apply an event once.        *)
THEOREM AppliesOnce == Spec => []AppliedOnce
BY InvariantHolds, PTL DEF IInv

(* The stored cursor only moves forward.                                   *)
THEOREM CursorMonotone == Spec => CursorNeverMovesBack
<1>1. IInv /\ [Next]_vars => [cursor' >= cursor]_vars
  BY Forward, TypeInductive, BoundsAreNaturals DEF IInv, TypeOK, vars
<1> QED BY <1>1, InvariantHolds, PTL DEF Spec, CursorNeverMovesBack

-----------------------------------------------------------------------------
(* A step of the inbox that only commits rows is an Apply of the contract. *)
LEMMA CommitRefines ==
  ASSUME IInv, TypeOK', UNCHANGED <<published, delivery, cursor>>,
         \A e \in EventId : rows[e] = "processed" => rows'[e] = "processed",
         \A e \in EventId \ published : rows'[e] = rows[e]
  PROVE  [Inbox!Next]_(Inbox!vars)
<1> DEFINE before == {e \in EventId : rows[e] = "processed"}
           after == {e \in EventId : rows'[e] = "processed"}
           es == after \ before
<1>1. EventId = Inbox!EventId
  BY DEF EventId, Inbox!EventId
<1>2. after = before \cup es /\ es \in SUBSET EventId /\ es \subseteq published \ before
  BY DEF IInv, IdentityInv
<1>3. CASE es = {}
  <2>1. after = before
    BY <1>2, <1>3
  <2> QED BY <2>1 DEF Inbox!vars
<1>4. CASE es # {}
  <2>1. PICK s : s = es
    OBVIOUS
  <2>2. Inbox!Apply(s)
    BY <1>2, <1>4, <2>1 DEF Inbox!Apply
  <2>3. s \in SUBSET Inbox!EventId
    BY <1>1, <1>2, <2>1
  <2> QED BY <2>2, <2>3 DEF Inbox!Next
<1> QED BY <1>3, <1>4

(* Every step of the inbox is a step of its contract, or changes nothing   *)
(* the contract speaks of.                                                 *)
LEMMA StepRefines ==
  ASSUME IInv, [Next]_vars
  PROVE  [Inbox!Next]_(Inbox!vars)
<1>1. EventId = Inbox!EventId
  BY DEF EventId, Inbox!EventId
<1>2. TypeOK'
  BY TypeInductive DEF IInv
<1>3. /\ \A e \in EventId : rows[e] = "processed" => rows'[e] = "processed"
      /\ cursor <= cursor'
      /\ CursorCoversProcessed'
      /\ cursor' = 0 \/ cursor' \in published'
  BY Forward, ReplayInductive DEF ReplayInv
<1>4. ASSUME UNCHANGED <<published, delivery, rows, cursor>>
      PROVE  [Inbox!Next]_(Inbox!vars)
  BY <1>4 DEF Inbox!vars
<1>5. ASSUME NEW e \in EventId, Publish(e) PROVE [Inbox!Next]_(Inbox!vars)
  <2>1. e \notin published /\ UNCHANGED <<rows, cursor>>
    BY <1>5 DEF Publish, IInv, TypeOK, EventId
  <2>2. {f \in EventId : delivery'[f] = "acked"} = {f \in EventId : delivery[f] = "acked"}
    BY <1>5, <2>1 DEF Publish, IInv, TypeOK, IdentityInv
  <2>3. Inbox!Publish(e)
    BY <1>5, <2>1, <2>2 DEF Publish, Inbox!Publish
  <2> QED BY <1>1, <2>3 DEF Inbox!Next
<1>6. ASSUME NEW e \in EventId, GiveUp(e) PROVE [Inbox!Next]_(Inbox!vars)
  <2>1. {f \in EventId : delivery'[f] = "acked"} = {f \in EventId : delivery[f] = "acked"}
    BY <1>6 DEF GiveUp, IInv, TypeOK
  <2> QED BY <1>6, <2>1 DEF GiveUp, Inbox!vars
<1>7. ASSUME NEW w \in Worker, Acknowledge(w) PROVE [Inbox!Next]_(Inbox!vars)
  <2>1. PICK e \in EventId : e = txn[w].ev /\ rows[e] = "processed"
    BY <1>7 DEF Acknowledge, IInv, TxnInv, TypeOK
  <2>2. {f \in EventId : delivery'[f] = "acked"}
          = {f \in EventId : delivery[f] = "acked"} \cup {e}
    BY <1>7, <2>1 DEF Acknowledge, IInv, TypeOK
  <2>3. Inbox!Acknowledge(e)
    BY <1>7, <2>1, <2>2 DEF Acknowledge, Inbox!Acknowledge
  <2> QED BY <1>1, <2>1, <2>3 DEF Inbox!Next
<1>8. ASSUME UNCHANGED <<published, delivery, cursor>> PROVE [Inbox!Next]_(Inbox!vars)
  BY <1>2, <1>8, Forward, CommitRefines
<1>9. ASSUME UNCHANGED <<published, delivery, rows>> PROVE [Inbox!Next]_(Inbox!vars)
  <2>1. CASE cursor' = cursor
    BY <1>4, <1>9, <2>1
  <2>2. CASE cursor' # cursor
    <3>1. cursor \in Nat /\ cursor' \in Nat
      BY <1>2, BoundsAreNaturals DEF IInv, TypeOK
    <3>2. PICK c : c = cursor' /\ c > cursor /\ c \in published
      BY <1>3, <1>9, <2>2, <3>1
    <3>3. c \in EventId
      BY <3>2 DEF IInv, TypeOK
    <3>4. \A f \in published : f <= c => f \in {x \in EventId : rows[x] = "processed"}
      BY <1>3, <1>9, <3>2 DEF CursorCoversProcessed, IInv, TypeOK
    <3>5. Inbox!Advance(c)
      BY <1>9, <3>2, <3>4 DEF Inbox!Advance
    <3> QED BY <1>1, <3>3, <3>5 DEF Inbox!Next
  <2> QED BY <2>1, <2>2
<1> QED
  BY <1>4, <1>5, <1>6, <1>7, <1>8, <1>9 DEF Next, vars, identityVars, Process, Connect,
     Insert, InsertDuplicate, MarkProcessed, Commit, FailTxn, LoseAnswer, Receive, CatchUp,
     FailReplay, ReadCheckpoint, ListEmpty, ListPage, ReplayNext, ReplayReturns,
     AdvanceCursor, Boot, Crash

(* The inbox implements the contract of its event store.                   *)
THEOREM InboxImplemented == Spec => ImplementsInbox
<1>1. Init => Inbox!Init
  BY DEF Init, Inbox!Init
<1>2. IInv /\ [Next]_vars => [Inbox!Next]_(Inbox!vars)
  BY StepRefines
<1> QED BY <1>1, <1>2, InvariantHolds, PTL DEF Spec, ImplementsInbox, Inbox!Spec
=============================================================================

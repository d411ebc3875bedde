-------------------------- MODULE PbxScreenProofs ---------------------------
(***************************************************************************)
(* The safety of the Extensions screen, for any number of loads,           *)
(* mutations, contexts and extensions.                                     *)
(***************************************************************************)
EXTENDS PbxScreen, FiniteSetTheorems, TLAPS

Request == [latest: BOOLEAN, awaited: BOOLEAN, asked: Context \cup {None},
            phase: {"sent", "scoped", "answered"}, scope: Context \cup {None},
            contexts: Seq(Context), contents: Contents \cup {None}]

(* A load has contents once it was resolved, and the latest is the one the *)
(* screen asked for.                                                       *)
RequestInv ==
    \A r \in requests :
       /\ r \in Request
       /\ r.phase = "sent" => r.scope = None
       /\ r.phase = "scoped" => r.scope # None
       /\ r.contents # None => r.scope # None
       /\ r.phase # "answered" => r.contents = None
       /\ r.latest => r.asked = context
       /\ r.awaited => lock

(* How far a mutation has come, and what it has been told. *)
OpInv ==
    \A i \in Ops :
       /\ ops[i].phase = "sent" => ops[i].upstream = "none" /\ ToSet(assigned) \subseteq ops[i].mine
       /\ ops[i].upstream # "none" => ops[i].scope # None /\ ops[i].scope \in ops[i].mine
       /\ ops[i].phase \in {"sent", "called"} <=> ops[i].answer = "none"
       /\ ops[i].answer \in {"ok", "unconfirmed"} => ops[i].upstream = "done"
       /\ ops[i].answer = "refused" => ops[i].upstream = "refused"
       /\ ops[i].answer = "forbidden" => ops[i].upstream = "none"
       /\ ops[i].confirmed => ops[i].answer = "ok"
       /\ ops[i].disclosed \in {"shown", "gone"} => ops[i].phase \in {"refreshing", "done"}
       /\ ops[i].disclosed = "shown" => ops[i].live
       /\ ops[i].commit <= commits

(* Every commit is a mutation's or another administrator's. *)
Committed == {i \in Ops : ops[i].upstream = "done"}
CommitsInv == commits <= others + Cardinality(Committed)

(* The lock is held from a submission to the end of its reload. *)
Busy(i) == ops[i].live /\ ops[i].phase # "done"
LockInv ==
    /\ \A i \in Ops : Busy(i) => lock
    /\ \A i, j \in Ops : Busy(i) /\ Busy(j) => i = j
    /\ \A r \in requests : \A i \in Ops : r.awaited /\ Busy(i) => ops[i].phase = "refreshing"
    /\ \A r, s \in requests : r.awaited /\ s.awaited => r = s

(* No creation is under way while credentials are on screen. *)
SecretInv ==
    /\ secret # 0 => ops[secret].disclosed = "shown"
    /\ \A i \in Ops :
         ops[i].kind = "create" /\ Busy(i) /\ ops[i].phase # "refreshing" => secret = 0
    /\ \A i \in Ops : ops[i].disclosed = "gone" => secret # i

(* What a success brought is on screen unless it was dismissed. *)
ShownInv ==
    \A i \in Ops :
       /\ ops[i].kind = "create" /\ ops[i].live /\ ops[i].answer = "ok"
       /\ ops[i].phase \in {"refreshing", "done"}
       => ops[i].disclosed = "gone" \/ secret = i

(* From the answer of a mutation on, only loads that saw its commit count. *)
FreshInv ==
    \A i \in Ops :
       ops[i].live /\ ops[i].answer = "ok" /\ ops[i].phase \in {"refreshing", "done"} =>
         /\ \A r \in requests :
              r.latest /\ r.contents # None => r.contents.commit >= ops[i].commit
         /\ ~loading /\ ~failed => data.contents.commit >= ops[i].commit

(* What names a context is in that context. *)
NameInv ==
    /\ \A r \in requests : r.scope # None /\ r.asked # None => r.scope = r.asked
    /\ data # None /\ data.asked # None => data.context = data.asked
    /\ \A i \in Ops : ops[i].asked # None =>
         /\ ops[i].scope # None => ops[i].scope = ops[i].asked
         /\ ops[i].kind = "delete" => ops[i].shown = ops[i].asked

IInv ==
    /\ TypeOK
    /\ RequestInv
    /\ OpInv
    /\ CommitsInv
    /\ LockInv
    /\ SecretInv
    /\ ShownInv
    /\ FreshInv
    /\ RowsOfSelectedContext
    /\ NameInv
-----------------------------------------------------------------------------
(* The types of what the screen and the BFF work on. *)
LEMMA Basics ==
  ASSUME TypeOK
  PROVE  /\ assigned \in Seq(Context) /\ assigned # <<>>
         /\ Head(assigned) \in Context /\ Head(assigned) \in ToSet(assigned)
         /\ ToSet(assigned) \subseteq Context
         /\ Len(ops) \in Nat /\ Ops = 1..Len(ops) /\ \A i \in Ops : ops[i] \in Op
<1>1. assigned \in Seq(Context) /\ assigned # <<>>
  BY ContextsAreAssigned DEF TypeOK
<1>2. /\ Head(assigned) \in Context /\ Head(assigned) \in ToSet(assigned)
      /\ ToSet(assigned) \subseteq Context
  BY <1>1 DEF ToSet
<1>3. Len(ops) \in Nat /\ Ops = 1..Len(ops) /\ \A i \in Ops : ops[i] \in Op
  BY DEF TypeOK, Ops
<1> QED BY <1>1, <1>2, <1>3

LEMMA ResolvesToOwn ==
  ASSUME TypeOK, NEW asked \in Context \cup {None}
  PROVE  Resolve(asked) # None =>
           /\ Resolve(asked) \in ToSet(assigned) /\ Resolve(asked) \in Context
           /\ asked # None => Resolve(asked) = asked
BY Basics, NoneIsNoContext DEF Resolve

(* The same mutation, before and after a step. *)
Asks(new, old) ==
    /\ new.kind = old.kind /\ new.extension = old.extension /\ new.asked = old.asked
    /\ new.shown = old.shown /\ new.mine = old.mine /\ new.live = old.live

Turns(i, new) == new \in Op /\ ops' = [ops EXCEPT ![i] = new] /\ Asks(new, ops[i])

LEMMA Turned ==
  ASSUME TypeOK, NEW i \in Ops, NEW new, Turns(i, new)
  PROVE  /\ ops' \in Seq(Op) /\ Len(ops') = Len(ops) /\ Ops' = Ops /\ ops'[i] = new
         /\ \A j \in Ops : j # i => ops'[j] = ops[j]
BY DEF TypeOK, Ops, Turns

(* What the BFF and OfficePulse make of a mutation. *)
LEMMA ScopeEffect ==
  ASSUME TypeOK, NEW i \in Ops, Scope(i)
  PROVE  \E new \in Op :
           /\ Turns(i, new) /\ new.disclosed = ops[i].disclosed
           /\ new.confirmed = ops[i].confirmed /\ new.commit = ops[i].commit
           /\ \/ /\ new.phase = "answered" /\ new.answer = "forbidden"
                 /\ new.upstream = ops[i].upstream /\ new.scope = ops[i].scope
              \/ /\ new.phase = "called" /\ new.upstream = "pending"
                 /\ new.scope = Resolve(ops[i].asked) /\ new.scope # None
                 /\ new.answer = ops[i].answer
<1> DEFINE scope == Resolve(ops[i].asked)
           refused == [ops[i] EXCEPT !.phase = "answered", !.answer = "forbidden"]
           called == [ops[i] EXCEPT !.phase = "called", !.upstream = "pending", !.scope = scope]
<1>1. ops[i] \in Op /\ ops[i].asked \in Context \cup {None}
  BY Basics DEF Op
<1>2. scope # None => scope \in Context
  BY <1>1, ResolvesToOwn
<1>3. ops' = [ops EXCEPT ![i] = IF scope = None THEN refused ELSE called]
  BY DEF Scope
<1> HIDE DEF scope
<1>4. CASE scope = None
  <2>1. /\ refused \in Op /\ Asks(refused, ops[i]) /\ refused.disclosed = ops[i].disclosed
        /\ refused.confirmed = ops[i].confirmed /\ refused.commit = ops[i].commit
        /\ refused.phase = "answered" /\ refused.answer = "forbidden"
        /\ refused.upstream = ops[i].upstream /\ refused.scope = ops[i].scope
    BY <1>1 DEF Op, Asks
  <2> HIDE DEF refused
  <2> QED BY <1>3, <1>4, <2>1 DEF Turns
<1>5. CASE scope # None
  <2>1. /\ called \in Op /\ Asks(called, ops[i]) /\ called.disclosed = ops[i].disclosed
        /\ called.confirmed = ops[i].confirmed /\ called.commit = ops[i].commit
        /\ called.phase = "called" /\ called.upstream = "pending"
        /\ called.scope = scope /\ called.answer = ops[i].answer
    BY <1>1, <1>2, <1>5 DEF Op, Asks
  <2> HIDE DEF called
  <2> QED BY <1>3, <1>5, <2>1 DEF Turns, scope
<1> QED BY <1>4, <1>5

LEMMA ScopeFailsEffect ==
  ASSUME TypeOK, NEW i \in Ops, ScopeFails(i)
  PROVE  \E new \in Op :
           /\ Turns(i, new) /\ new.disclosed = ops[i].disclosed
           /\ new.confirmed = ops[i].confirmed /\ new.commit = ops[i].commit
           /\ new.phase = "answered" /\ new.answer = "retryable"
           /\ new.upstream = ops[i].upstream /\ new.scope = ops[i].scope
<1> DEFINE new == [ops[i] EXCEPT !.phase = "answered", !.answer = "retryable"]
<1>1. ops[i] \in Op
  BY Basics
<1>2. ops' = [ops EXCEPT ![i] = new]
  BY DEF ScopeFails
<1>3. /\ new \in Op /\ Asks(new, ops[i]) /\ new.disclosed = ops[i].disclosed
      /\ new.confirmed = ops[i].confirmed /\ new.commit = ops[i].commit
      /\ new.phase = "answered" /\ new.answer = "retryable"
      /\ new.upstream = ops[i].upstream /\ new.scope = ops[i].scope
  <2>1. new \in Op
    BY <1>1 DEF Op
  <2> QED BY <1>1, <2>1 DEF Op, Asks
<1> HIDE DEF new
<1> QED BY <1>2, <1>3 DEF Turns

LEMMA CommitEffect ==
  ASSUME TypeOK, commits + 1 \in 0..(MaxOps + MaxOthers), NEW i \in Ops, Commit(i)
  PROVE  \E new \in Op :
           /\ Turns(i, new) /\ new.disclosed = ops[i].disclosed
           /\ new.confirmed = ops[i].confirmed /\ new.commit = commits + 1
           /\ new.phase = ops[i].phase /\ new.answer = ops[i].answer
           /\ new.upstream = "done" /\ new.scope = ops[i].scope
<1> DEFINE count == commits + 1
           new == [ops[i] EXCEPT !.upstream = "done", !.commit = count]
<1>1. ops[i] \in Op
  BY Basics
<1>2. ops' = [ops EXCEPT ![i] = new]
  BY DEF Commit
<1>3. count \in 0..(MaxOps + MaxOthers)
  OBVIOUS
<1> HIDE DEF count
<1>4. /\ new \in Op /\ Asks(new, ops[i]) /\ new.disclosed = ops[i].disclosed
      /\ new.confirmed = ops[i].confirmed /\ new.commit = count
      /\ new.phase = ops[i].phase /\ new.answer = ops[i].answer
      /\ new.upstream = "done" /\ new.scope = ops[i].scope
  BY <1>1, <1>3 DEF Op, Asks
<1> HIDE DEF new
<1> QED BY <1>2, <1>4 DEF Turns, count

LEMMA NoCommitEffect ==
  ASSUME TypeOK, NEW i \in Ops, NoCommit(i)
  PROVE  \E new \in Op :
           /\ Turns(i, new) /\ new.disclosed = ops[i].disclosed
           /\ new.confirmed = ops[i].confirmed /\ new.commit = ops[i].commit
           /\ new.phase = ops[i].phase /\ new.answer = ops[i].answer
           /\ new.upstream \in {"refused", "lost"} /\ new.scope = ops[i].scope
<1>1. ops[i] \in Op
  BY Basics
<1>2. PICK u \in {"refused", "lost"} : ops' = [ops EXCEPT ![i] = [ops[i] EXCEPT !.upstream = u]]
  BY DEF NoCommit
<1> DEFINE new == [ops[i] EXCEPT !.upstream = u]
<1>3. /\ new \in Op /\ Asks(new, ops[i]) /\ new.disclosed = ops[i].disclosed
      /\ new.confirmed = ops[i].confirmed /\ new.commit = ops[i].commit
      /\ new.phase = ops[i].phase /\ new.answer = ops[i].answer
      /\ new.upstream = u /\ new.scope = ops[i].scope
  BY <1>1 DEF Op, Asks
<1>4. ops' = [ops EXCEPT ![i] = new]
  BY <1>2
<1> HIDE DEF new
<1> QED BY <1>3, <1>4 DEF Turns

LEMMA CallReturnsEffect ==
  ASSUME TypeOK, NEW i \in Ops, CallReturns(i)
  PROVE  \E new \in Op :
           /\ Turns(i, new) /\ new.disclosed = ops[i].disclosed
           /\ new.commit = ops[i].commit /\ new.phase = "answered"
           /\ new.answer \in Outcomes(ops[i]) /\ (new.confirmed <=> new.answer = "ok")
           /\ new.upstream = ops[i].upstream /\ new.scope = ops[i].scope
<1>1. ops[i] \in Op
  BY Basics
<1>2. PICK outcome \in Outcomes(ops[i]) :
        ops' = [ops EXCEPT ![i] = [ops[i] EXCEPT !.phase = "answered", !.answer = outcome,
                                                 !.confirmed = (outcome = "ok")]]
  BY DEF CallReturns
<1> DEFINE told == outcome = "ok"
           new == [ops[i] EXCEPT !.phase = "answered", !.answer = outcome, !.confirmed = told]
<1>3. outcome \in {"ok", "refused", "retryable", "unconfirmed"} /\ told \in BOOLEAN
  BY DEF Outcomes
<1>4. ops' = [ops EXCEPT ![i] = new]
  BY <1>2
<1>5. told <=> outcome = "ok"
  OBVIOUS
<1> HIDE DEF told
<1>6. new \in Op
  <2>1. outcome \in {"none", "ok", "refused", "forbidden", "retryable", "unconfirmed"}
    BY <1>3
  <2>2. ASSUME NEW op \in Op, NEW x \in {"none", "ok", "refused", "forbidden", "retryable", "unconfirmed"},
               NEW b \in BOOLEAN
        PROVE  [op EXCEPT !.phase = "answered", !.answer = x, !.confirmed = b] \in Op
    BY DEF Op
  <2> QED BY <1>1, <1>3, <2>1, <2>2
<1>7. /\ Asks(new, ops[i]) /\ new.disclosed = ops[i].disclosed
      /\ new.commit = ops[i].commit /\ new.phase = "answered"
      /\ new.answer = outcome /\ new.confirmed = told
      /\ new.upstream = ops[i].upstream /\ new.scope = ops[i].scope
  BY <1>1 DEF Op, Asks
<1> HIDE DEF new
<1> QED BY <1>4, <1>5, <1>6, <1>7 DEF Turns

(* What the screen makes of the answer. *)
LEMMA EndEffect ==
  ASSUME TypeOK, NEW i \in Ops, Failed(i) \/ Ignored(i)
  PROVE  \E new \in Op :
           /\ Turns(i, new) /\ new.disclosed = ops[i].disclosed
           /\ new.confirmed = ops[i].confirmed /\ new.commit = ops[i].commit
           /\ new.phase = "done" /\ new.answer = ops[i].answer
           /\ new.upstream = ops[i].upstream /\ new.scope = ops[i].scope
<1> DEFINE new == [ops[i] EXCEPT !.phase = "done"]
<1>1. ops[i] \in Op
  BY Basics
<1>2. ops' = [ops EXCEPT ![i] = new]
  BY DEF Failed, Ignored
<1>3. /\ new \in Op /\ Asks(new, ops[i]) /\ new.disclosed = ops[i].disclosed
      /\ new.confirmed = ops[i].confirmed /\ new.commit = ops[i].commit
      /\ new.phase = "done" /\ new.answer = ops[i].answer
      /\ new.upstream = ops[i].upstream /\ new.scope = ops[i].scope
  BY <1>1 DEF Op, Asks
<1> HIDE DEF new
<1> QED BY <1>2, <1>3 DEF Turns

LEMMA SucceedEffect ==
  ASSUME TypeOK, NEW i \in Ops, Succeed(i)
  PROVE  \E new \in Op :
           /\ Turns(i, new)
           /\ new.disclosed = IF secret' = i THEN "shown" ELSE ops[i].disclosed
           /\ new.confirmed = ops[i].confirmed /\ new.commit = ops[i].commit
           /\ new.phase = "refreshing" /\ new.answer = ops[i].answer
           /\ new.upstream = ops[i].upstream /\ new.scope = ops[i].scope
<1> DEFINE seen == IF secret' = i THEN "shown" ELSE ops[i].disclosed
           new == [ops[i] EXCEPT !.phase = "refreshing", !.disclosed = seen]
<1>1. ops[i] \in Op
  BY Basics
<1>2. ops' = [ops EXCEPT ![i] = new]
  BY DEF Succeed
<1>3. seen \in {"no", "lost", "shown", "gone"}
  BY <1>1 DEF Op
<1> HIDE DEF seen
<1>4. /\ new \in Op /\ Asks(new, ops[i]) /\ new.disclosed = seen
      /\ new.confirmed = ops[i].confirmed /\ new.commit = ops[i].commit
      /\ new.phase = "refreshing" /\ new.answer = ops[i].answer
      /\ new.upstream = ops[i].upstream /\ new.scope = ops[i].scope
  <2>1. ASSUME NEW op \in Op, NEW d \in {"no", "lost", "shown", "gone"}
        PROVE  [op EXCEPT !.phase = "refreshing", !.disclosed = d] \in Op
    <3> DEFINE half == [op EXCEPT !.phase = "refreshing"]
    <3>1. half \in Op
      BY DEF Op
    <3>2. [op EXCEPT !.phase = "refreshing", !.disclosed = d] = [half EXCEPT !.disclosed = d]
      OBVIOUS
    <3> HIDE DEF half
    <3>3. [half EXCEPT !.disclosed = d] \in Op
      BY <3>1 DEF Op
    <3> QED BY <3>2, <3>3
  <2>2. new \in Op
    BY <1>1, <1>3, <2>1
  <2> QED BY <1>1, <2>2 DEF Op, Asks
<1> HIDE DEF new
<1> QED BY <1>2, <1>4 DEF Turns, seen

LEMMA DismissEffect ==
  ASSUME TypeOK, Dismiss
  PROVE  /\ secret \in Ops
         /\ \E new \in Op :
              /\ Turns(secret, new) /\ new.disclosed = "gone"
              /\ new.confirmed = ops[secret].confirmed /\ new.commit = ops[secret].commit
              /\ new.phase = ops[secret].phase /\ new.answer = ops[secret].answer
              /\ new.upstream = ops[secret].upstream /\ new.scope = ops[secret].scope
<1> DEFINE new == [ops[secret] EXCEPT !.disclosed = "gone"]
<1>1. secret \in Ops
  BY Basics DEF Dismiss, TypeOK
<1>2. ops[secret] \in Op
  BY <1>1, Basics
<1>3. ops' = [ops EXCEPT ![secret] = new]
  BY DEF Dismiss
<1>4. /\ new \in Op /\ Asks(new, ops[secret]) /\ new.disclosed = "gone"
      /\ new.confirmed = ops[secret].confirmed /\ new.commit = ops[secret].commit
      /\ new.phase = ops[secret].phase /\ new.answer = ops[secret].answer
      /\ new.upstream = ops[secret].upstream /\ new.scope = ops[secret].scope
  BY <1>2 DEF Op, Asks
<1> HIDE DEF new
<1> QED BY <1>1, <1>3, <1>4 DEF Turns
(* A mutation is submitted. *)
LEMMA SubmittedEffect ==
  ASSUME TypeOK, NEW kind \in {"create", "delete"}, NEW e \in Extension,
         data # None, Submitted(kind, e)
  PROVE  /\ ops' \in Seq(Op) /\ Len(ops') = Len(ops) + 1 /\ Len(ops') <= MaxOps
         /\ Ops' = Ops \cup {Len(ops) + 1} /\ Len(ops) + 1 \notin Ops
         /\ \A j \in Ops : ops'[j] = ops[j]
         /\ \E new \in Op :
              /\ ops'[Len(ops) + 1] = new /\ new.kind = kind
              /\ new.asked = context /\ new.shown = data.context
              /\ new.mine = ToSet(assigned) /\ new.live
              /\ new.scope = None /\ new.phase = "sent" /\ new.upstream = "none" /\ new.commit = 0
              /\ new.answer = "none" /\ ~new.confirmed /\ new.disclosed = "no"
<1> DEFINE new == [kind |-> kind, extension |-> e, asked |-> context,
                   shown |-> data.context, mine |-> ToSet(assigned), scope |-> None,
                   phase |-> "sent", upstream |-> "none", commit |-> 0,
                   answer |-> "none", confirmed |-> FALSE, live |-> TRUE, disclosed |-> "no"]
<1>1. ops' = Append(ops, new) /\ Len(ops) < MaxOps
  BY DEF Submitted
<1>2. data.context \in Context /\ context \in Context \cup {None} /\ ToSet(assigned) \subseteq Context
  BY Basics DEF TypeOK
<1>3. 0 \in 0..(MaxOps + MaxOthers)
  BY BoundsAreNaturals
<1>4. new \in Op
  BY <1>2, <1>3 DEF Op
<1>5. /\ new.kind = kind /\ new.asked = context /\ new.shown = data.context
      /\ new.mine = ToSet(assigned) /\ new.live
      /\ new.scope = None /\ new.phase = "sent" /\ new.upstream = "none" /\ new.commit = 0
      /\ new.answer = "none" /\ ~new.confirmed /\ new.disclosed = "no"
  OBVIOUS
<1> HIDE DEF new
<1>6. ops \in Seq(Op) /\ Len(ops) \in Nat /\ Ops = 1..Len(ops) /\ MaxOps \in Nat
  BY Basics, BoundsAreNaturals DEF TypeOK
<1>7. /\ ops' \in Seq(Op) /\ Len(ops') = Len(ops) + 1 /\ ops'[Len(ops) + 1] = new
      /\ \A j \in 1..Len(ops) : ops'[j] = ops[j]
  BY <1>1, <1>4, <1>6
<1>8. Ops' = 1..(Len(ops) + 1)
  BY <1>7 DEF Ops
<1>9. Ops' = Ops \cup {Len(ops) + 1} /\ Len(ops) + 1 \notin Ops
  BY <1>6, <1>8
<1> QED BY <1>1, <1>4, <1>5, <1>6, <1>7, <1>9

(* A step that changes every mutation by itself keeps their number. *)
LEMMA AllTurned ==
  ASSUME TypeOK, ops' \in [Ops -> Op]
  PROVE  ops' \in Seq(Op) /\ Len(ops') = Len(ops) /\ Ops' = Ops
<1>1. ops' \in [1..Len(ops) -> Op] /\ Len(ops) \in Nat
  BY Basics
<1> QED BY <1>1 DEF Ops, TypeOK

(* The same mutation with the same outcome. *)
Stays(new, old) ==
    /\ new.kind = old.kind /\ new.extension = old.extension /\ new.asked = old.asked
    /\ new.shown = old.shown /\ new.scope = old.scope /\ new.upstream = old.upstream
    /\ new.commit = old.commit /\ new.answer = old.answer /\ new.confirmed = old.confirmed

LEMMA LoadEffect ==
  ASSUME TypeOK, NEW r, Load(r)
  PROVE  /\ ops' \in Seq(Op) /\ Len(ops') = Len(ops) /\ Ops' = Ops
         /\ \A j \in Ops :
              /\ Stays(ops'[j], ops[j]) /\ ops'[j].mine = ops[j].mine
              /\ ops'[j].live = ops[j].live /\ ops'[j].disclosed = ops[j].disclosed
              /\ ops'[j].phase = IF r.awaited /\ ops[j].phase = "refreshing" /\ ops[j].live
                                 THEN "done" ELSE ops[j].phase
         /\ lock' = (lock /\ ~r.awaited)
<1> DEFINE ended(op) == [op EXCEPT !.phase = "done"]
           next(op) == IF op.phase = "refreshing" /\ op.live THEN ended(op) ELSE op
<1>1. \A op \in Op : /\ ended(op) \in Op /\ Stays(ended(op), op) /\ ended(op).mine = op.mine
                     /\ ended(op).live = op.live /\ ended(op).disclosed = op.disclosed
                     /\ ended(op).phase = "done"
  BY DEF Op, Stays
<1>2. CASE r.awaited
  <2>1. ops' = [j \in Ops |-> next(ops[j])] /\ lock' = FALSE
    BY <1>2 DEF Load
  <2> HIDE DEF ended
  <2>2. \A j \in Ops : ops[j] \in Op /\ ops'[j] = next(ops[j])
    BY <2>1, Basics
  <2>3. ops' \in [Ops -> Op]
    BY <1>1, <2>1, <2>2
  <2>4. \A op : Stays(op, op)
    BY DEF Stays
  <2> QED BY <1>1, <1>2, <2>1, <2>2, <2>3, <2>4, AllTurned
<1>3. CASE ~r.awaited
  <2>1. UNCHANGED <<lock, ops>>
    BY <1>3 DEF Load
  <2> QED BY <1>3, <2>1 DEF TypeOK, Stays, Ops
<1> QED BY <1>2, <1>3

LEMMA LeaveEffect ==
  ASSUME TypeOK, Leave
  PROVE  /\ ops' \in Seq(Op) /\ Len(ops') = Len(ops) /\ Ops' = Ops
         /\ \A j \in Ops :
              /\ Stays(ops'[j], ops[j]) /\ ops'[j].mine = ops[j].mine
              /\ ~ops'[j].live /\ ops'[j].phase = ops[j].phase
              /\ ops'[j].disclosed = IF ops[j].disclosed = "shown" THEN "gone"
                                     ELSE ops[j].disclosed
<1> DEFINE then(op) == IF op.disclosed = "shown" THEN "gone" ELSE op.disclosed
<1>1. \A op \in Op : then(op) \in {"no", "lost", "shown", "gone"}
  BY DEF Op
<1>2. ASSUME NEW op \in Op, NEW d \in {"no", "lost", "shown", "gone"}
      PROVE  LET new == [op EXCEPT !.live = FALSE, !.disclosed = d] IN
               /\ new \in Op /\ Stays(new, op) /\ new.mine = op.mine
               /\ ~new.live /\ new.phase = op.phase /\ new.disclosed = d
  <2> DEFINE half == [op EXCEPT !.live = FALSE]
             new == [half EXCEPT !.disclosed = d]
  <2>1. half \in Op
    BY DEF Op
  <2>2. /\ Stays(half, op) /\ half.mine = op.mine /\ ~half.live /\ half.phase = op.phase
    BY DEF Op, Stays
  <2>3. [op EXCEPT !.live = FALSE, !.disclosed = d] = new
    OBVIOUS
  <2> HIDE DEF half
  <2>4. new \in Op
    BY <2>1 DEF Op
  <2>5. /\ Stays(new, half) /\ new.mine = half.mine /\ new.live = half.live
        /\ new.phase = half.phase /\ new.disclosed = d
    BY <2>1 DEF Op, Stays
  <2> HIDE DEF new
  <2> QED BY <2>2, <2>3, <2>4, <2>5 DEF Stays
<1>4. ops' = [j \in Ops |-> [ops[j] EXCEPT !.live = FALSE, !.disclosed = then(ops[j])]]
  BY DEF Leave
<1>5. ASSUME NEW j \in Ops
      PROVE  /\ ops[j] \in Op /\ ops'[j] \in Op
             /\ Stays(ops'[j], ops[j]) /\ ops'[j].mine = ops[j].mine
             /\ ~ops'[j].live /\ ops'[j].phase = ops[j].phase
             /\ ops'[j].disclosed = then(ops[j])
  <2>1. ops[j] \in Op
    BY Basics
  <2>2. ops'[j] = [ops[j] EXCEPT !.live = FALSE, !.disclosed = then(ops[j])]
    BY <1>4
  <2>3. then(ops[j]) \in {"no", "lost", "shown", "gone"}
    BY <1>1, <2>1
  <2> HIDE DEF then
  <2> DEFINE d == then(ops[j])
             new == [ops[j] EXCEPT !.live = FALSE, !.disclosed = d]
  <2>4. ops'[j] = new /\ d \in {"no", "lost", "shown", "gone"} /\ d = then(ops[j])
    BY <2>2, <2>3
  <2> HIDE DEF d
  <2>5. /\ new \in Op /\ Stays(new, ops[j]) /\ new.mine = ops[j].mine
        /\ ~new.live /\ new.phase = ops[j].phase /\ new.disclosed = d
    BY <1>2, <2>1, <2>4
  <2> HIDE DEF new
  <2> QED BY <2>1, <2>4, <2>5
<1>6. ops' \in [Ops -> Op]
  BY <1>4, <1>5
<1> QED BY <1>5, <1>6, AllTurned

LEMMA AnswerLostEffect ==
  ASSUME TypeOK, NEW i \in Ops, AnswerLost(i)
  PROVE  /\ ops' \in Seq(Op) /\ Len(ops') = Len(ops) /\ Ops' = Ops
         /\ \A j \in Ops : j # i => ops'[j] = ops[j]
         /\ Stays(ops'[i], ops[i]) /\ ops'[i].mine = ops[i].mine
         /\ ~ops'[i].live /\ ops'[i].phase = ops[i].phase /\ ops'[i].disclosed = "lost"
<1> DEFINE new == [ops[i] EXCEPT !.live = FALSE, !.disclosed = "lost"]
<1>1. ops[i] \in Op
  BY Basics
<1>2. ops' = [ops EXCEPT ![i] = new]
  BY DEF AnswerLost
<1>3. /\ new \in Op /\ Stays(new, ops[i]) /\ new.mine = ops[i].mine
      /\ ~new.live /\ new.phase = ops[i].phase /\ new.disclosed = "lost"
  <2> DEFINE half == [ops[i] EXCEPT !.live = FALSE]
             whole == [half EXCEPT !.disclosed = "lost"]
  <2>1. half \in Op /\ Stays(half, ops[i]) /\ half.mine = ops[i].mine
        /\ ~half.live /\ half.phase = ops[i].phase
    BY <1>1 DEF Op, Stays
  <2>2. new = whole
    OBVIOUS
  <2> HIDE DEF half, new
  <2>3. whole \in Op /\ Stays(whole, half) /\ whole.mine = half.mine
        /\ whole.live = half.live /\ whole.phase = half.phase /\ whole.disclosed = "lost"
    BY <2>1 DEF Op, Stays
  <2> HIDE DEF whole
  <2> QED BY <2>1, <2>2, <2>3 DEF Stays
<1> HIDE DEF new
<1> QED BY <1>2, <1>3 DEF TypeOK, Ops

LEMMA TenantEditEffect ==
  ASSUME TypeOK, NEW list \in Assignments, TenantEdit(list)
  PROVE  /\ ops' \in Seq(Op) /\ Len(ops') = Len(ops) /\ Ops' = Ops /\ assigned' = list
         /\ \A j \in Ops :
              /\ Stays(ops'[j], ops[j]) /\ ops[j].mine \subseteq ops'[j].mine
              /\ ops'[j].live = ops[j].live /\ ops'[j].phase = ops[j].phase
              /\ ops'[j].disclosed = ops[j].disclosed
              /\ ops[j].phase = "sent" => ToSet(list) \subseteq ops'[j].mine
<1> DEFINE wider(op) == [op EXCEPT !.mine = op.mine \cup ToSet(list)]
           next(op) == IF op.phase = "sent" THEN wider(op) ELSE op
<1>1. list \in Seq(Context) /\ assigned' = list
  BY ContextsAreAssigned DEF TenantEdit, Reassign
<1>2. ToSet(list) \subseteq Context
  BY <1>1 DEF ToSet
<1>3. ASSUME NEW op \in Op
      PROVE  /\ wider(op) \in Op /\ Stays(wider(op), op)
             /\ wider(op).mine = op.mine \cup ToSet(list)
             /\ wider(op).live = op.live /\ wider(op).phase = op.phase
             /\ wider(op).disclosed = op.disclosed
  <2>1. op.mine \cup ToSet(list) \in SUBSET Context
    BY <1>2 DEF Op
  <2> QED BY <2>1 DEF Op, Stays
<1>4. ops' = [j \in Ops |-> next(ops[j])]
  BY DEF TenantEdit
<1> HIDE DEF wider
<1>5. \A j \in Ops : ops[j] \in Op /\ ops'[j] = next(ops[j])
  BY <1>4, Basics
<1>6. ops' \in [Ops -> Op]
  BY <1>3, <1>4, <1>5
<1>7. \A op : Stays(op, op)
  BY DEF Stays
<1> QED BY <1>1, <1>3, <1>5, <1>6, <1>7, AllTurned

-----------------------------------------------------------------------------
(* The loads under way. *)

SameLoad(s, r) ==
    s.asked = r.asked /\ s.phase = r.phase /\ s.scope = r.scope /\ s.contents = r.contents

(* A load just sent for the selected context. *)
Fresh(s) ==
    /\ s.asked = context' /\ s.phase = "sent" /\ s.scope = None /\ s.contents = None

LEMMA RefreshEffect ==
  ASSUME requests \subseteq Request, NEW awaiting \in BOOLEAN, NEW asked \in Context \cup {None},
         RefreshFor(asked, awaiting, Superseded), asked = context'
  PROVE  /\ loading'
         /\ \A s \in requests' :
              /\ s \in Request
              /\ \/ Fresh(s) /\ s.awaited = awaiting
                 \/ ~s.latest /\ \E r \in requests : SameLoad(s, r) /\ s.awaited = r.awaited
<1> DEFINE new == [latest |-> TRUE, awaited |-> awaiting, asked |-> asked,
                   phase |-> "sent", scope |-> None, contexts |-> <<>>, contents |-> None]
<1>1. new \in Request /\ Fresh(new) /\ new.awaited = awaiting
  BY DEF Request, Fresh
<1>2. ASSUME NEW r \in Request
      PROVE  /\ [r EXCEPT !.latest = FALSE] \in Request
             /\ ~[r EXCEPT !.latest = FALSE].latest
             /\ SameLoad([r EXCEPT !.latest = FALSE], r)
             /\ [r EXCEPT !.latest = FALSE].awaited = r.awaited
  <2>1. [r EXCEPT !.latest = FALSE] \in Request
    BY DEF Request
  <2> QED BY <2>1 DEF Request, SameLoad
<1>3. requests' = Superseded \cup {new} /\ loading'
  BY DEF RefreshFor
<1> HIDE DEF new
<1>4. ASSUME NEW s \in Superseded
      PROVE  s \in Request /\ ~s.latest /\ \E r \in requests : SameLoad(s, r) /\ s.awaited = r.awaited
  <2>1. PICK r \in requests : s = [r EXCEPT !.latest = FALSE]
    BY DEF Superseded
  <2>2. r \in Request
    OBVIOUS
  <2> QED BY <1>2, <2>1, <2>2
<1> QED BY <1>1, <1>3, <1>4

LEMMA RemountEffect ==
  ASSUME requests \subseteq Request, Remount
  PROVE  /\ loading' /\ context' = None /\ data' = None /\ ~failed'
         /\ \A s \in requests' :
              /\ s \in Request /\ ~s.awaited
              /\ Fresh(s) \/ (~s.latest /\ \E r \in requests : SameLoad(s, r))
<1> DEFINE new == [latest |-> TRUE, awaited |-> FALSE, asked |-> None,
                   phase |-> "sent", scope |-> None, contexts |-> <<>>, contents |-> None]
           left(r) == [r EXCEPT !.latest = FALSE, !.awaited = FALSE]
<1>1. loading' /\ context' = None /\ data' = None /\ ~failed'
  BY DEF Remount, RefreshFor
<1>2. new \in Request /\ Fresh(new) /\ ~new.awaited
  BY <1>1 DEF Request, Fresh
<1>3. ASSUME NEW r \in Request
      PROVE  left(r) \in Request /\ ~left(r).latest /\ ~left(r).awaited /\ SameLoad(left(r), r)
  BY DEF Request, SameLoad
<1>4. requests' = {left(r) : r \in requests} \cup {new}
  BY DEF Remount, RefreshFor
<1> HIDE DEF new, left
<1> QED BY <1>1, <1>2, <1>3, <1>4

(* One load comes further. *)
LEMMA ListEffect ==
  ASSUME TypeOK, RequestInv, NEW r \in requests, List(r)
  PROVE  /\ UNCHANGED <<serverVars, context, data, failed, loading, form, secret, lock, ops>>
         /\ \A s \in requests' :
              /\ s \in Request
              /\ \/ s \in requests
                 \/ /\ s.latest = r.latest /\ s.awaited = r.awaited /\ s.asked = r.asked
                    /\ \/ s.phase = "answered" /\ s.contents = None /\ s.scope = r.scope
                       \/ /\ s.phase = "scoped" /\ s.contents = None
                          /\ s.scope = Resolve(r.asked) /\ s.scope # None
                       \/ /\ s.phase = "answered" /\ r.phase = "scoped" /\ s.scope = r.scope
                          /\ s.contents \in Contents /\ s.contents.commit = commits
<1>1. r \in Request
  BY DEF RequestInv
<1>2. UNCHANGED <<serverVars, context, data, failed, loading, form, secret, lock, ops>>
  BY DEF List, ScopeRequest, ReadInventory, RequestFails, Becomes
<1>3. CASE ScopeRequest(r)
  <2> DEFINE scope == Resolve(r.asked)
             refused == [r EXCEPT !.phase = "answered"]
             scoped == [r EXCEPT !.phase = "scoped", !.scope = scope, !.contexts = assigned]
  <2>1. requests' = (requests \ {r}) \cup {IF scope = None THEN refused ELSE scoped}
    BY <1>3 DEF ScopeRequest, Becomes
  <2>2. r.contents = None /\ r.asked \in Context \cup {None}
    BY <1>1, <1>3 DEF ScopeRequest, RequestInv, Request
  <2>3. scope # None => scope \in Context
    BY <2>2, ResolvesToOwn
  <2>4. assigned \in Seq(Context)
    BY Basics
  <2> HIDE DEF scope
  <2>5. /\ refused \in Request /\ refused.latest = r.latest /\ refused.awaited = r.awaited
        /\ refused.asked = r.asked /\ refused.phase = "answered" /\ refused.contents = None
        /\ refused.scope = r.scope
    BY <1>1, <2>2 DEF Request
  <2>6. scope # None =>
          /\ scoped \in Request /\ scoped.latest = r.latest /\ scoped.awaited = r.awaited
          /\ scoped.asked = r.asked /\ scoped.phase = "scoped" /\ scoped.contents = None
          /\ scoped.scope = scope
    BY <1>1, <2>2, <2>3, <2>4 DEF Request
  <2> HIDE DEF refused, scoped
  <2>7. \A s \in requests : s \in Request
    BY DEF RequestInv
  <2> QED BY <1>2, <2>1, <2>5, <2>6, <2>7 DEF scope
<1>4. CASE ReadInventory(r, [extensions |-> pbx[r.scope], commit |-> commits])
  <2> DEFINE contents == [extensions |-> pbx[r.scope], commit |-> commits]
             read == [r EXCEPT !.phase = "answered", !.contents = contents]
  <2>1. requests' = (requests \ {r}) \cup {read} /\ r.phase = "scoped"
    BY <1>4 DEF ReadInventory, Becomes
  <2>2. contents \in Contents /\ contents.commit = commits
    <3>1. r.scope \in Context
      BY <1>1, <2>1 DEF RequestInv, Request
    <3>2. pbx[r.scope] \in SUBSET Extension
      BY <3>1 DEF TypeOK
    <3> QED BY <3>2 DEF Contents, TypeOK
  <2> HIDE DEF contents
  <2>3. /\ read \in Request /\ read.latest = r.latest /\ read.awaited = r.awaited
        /\ read.asked = r.asked /\ read.phase = "answered" /\ read.contents = contents
        /\ read.scope = r.scope
    BY <1>1, <2>2 DEF Request
  <2> HIDE DEF read
  <2>4. \A s \in requests : s \in Request
    BY DEF RequestInv
  <2> QED BY <1>2, <2>1, <2>2, <2>3, <2>4
<1>5. CASE RequestFails(r)
  <2> DEFINE lost == [r EXCEPT !.phase = "answered", !.contents = None]
  <2>1. requests' = (requests \ {r}) \cup {lost}
    BY <1>5 DEF RequestFails, Becomes
  <2>2. /\ lost \in Request /\ lost.latest = r.latest /\ lost.awaited = r.awaited
        /\ lost.asked = r.asked /\ lost.phase = "answered" /\ lost.contents = None
        /\ lost.scope = r.scope
    BY <1>1 DEF Request
  <2> HIDE DEF lost
  <2>3. \A s \in requests : s \in Request
    BY DEF RequestInv
  <2> QED BY <1>2, <2>1, <2>2, <2>3
<1> QED BY <1>3, <1>4, <1>5 DEF List
-----------------------------------------------------------------------------
(* There is a number left for every commit. *)
LEMMA CommitsCounted ==
  ASSUME TypeOK, CommitsInv
  PROVE  /\ IsFiniteSet(Committed) /\ Cardinality(Committed) \in Nat
         /\ commits <= others + Len(ops)
         /\ \A i \in Ops : ops[i].upstream # "done" => commits < others + Len(ops)
<1>1. /\ Len(ops) \in Nat /\ Ops = 1..Len(ops) /\ commits \in Nat /\ others \in Nat
  BY Basics, BoundsAreNaturals DEF TypeOK
<1>2. IsFiniteSet(Ops) /\ Cardinality(Ops) = Len(ops)
  <2>1. /\ IsFiniteSet(1..Len(ops))
        /\ Cardinality(1..Len(ops)) = IF 1 > Len(ops) THEN 0 ELSE Len(ops) - 1 + 1
    BY <1>1, FS_Interval
  <2> HIDE DEF Ops
  <2> QED BY <1>1, <2>1
<1>3. Committed \subseteq Ops
  BY DEF Committed
<1>4. IsFiniteSet(Committed) /\ Cardinality(Committed) \in Nat /\ Cardinality(Committed) <= Len(ops)
  BY <1>2, <1>3, FS_Subset, FS_CardinalityType
<1>5. ASSUME NEW i \in Ops, ops[i].upstream # "done" PROVE Cardinality(Committed) < Len(ops)
  <2>1. Committed # Ops
    BY <1>5 DEF Committed
  <2>2. Cardinality(Ops) = Cardinality(Committed) => Ops = Committed
    BY <1>2, <1>3, FS_Subset
  <2> QED BY <1>1, <1>2, <1>4, <2>1, <2>2
<1> QED BY <1>1, <1>4, <1>5 DEF CommitsInv

(* The steps of one mutation that load nothing. *)
OpStep(i) ==
    \/ Scope(i) \/ ScopeFails(i) \/ CallReturns(i)
    \/ Commit(i) \/ NoCommit(i) \/ Failed(i) \/ Ignored(i)

OpFits(op) ==
    /\ op.phase = "sent" => op.upstream = "none"
    /\ op.upstream # "none" => op.scope # None /\ op.scope \in op.mine
    /\ op.phase \in {"sent", "called"} <=> op.answer = "none"
    /\ op.answer \in {"ok", "unconfirmed"} => op.upstream = "done"
    /\ op.answer = "refused" => op.upstream = "refused"
    /\ op.answer = "forbidden" => op.upstream = "none"
    /\ op.confirmed => op.answer = "ok"
    /\ op.disclosed \in {"shown", "gone"} => op.phase \in {"refreshing", "done"}
    /\ op.disclosed = "shown" => op.live

(* What no such step does to the mutation on screen. *)
OpAdvances(new, old) ==
    /\ new.disclosed = old.disclosed
    /\ new.phase = "sent" => old.phase = "sent"
    /\ \/ new.scope = old.scope
       \/ old.phase = "sent" /\ (old.asked # None => new.scope = old.asked)
    /\ new.live /\ new.phase \in {"refreshing", "done"} =>
          new.phase = old.phase \/ (new.answer # "ok" /\ ~new.confirmed)
    /\ new.phase \in {"refreshing", "done"} /\ new.answer = "ok" => new.commit = old.commit
    /\ \/ new.answer = old.answer /\ new.confirmed = old.confirmed
       \/ (new.phase = "answered" /\ old.phase \in {"sent", "called"})
    /\ (old.phase = "done") => (new.phase = "done")
    /\ old.live => (new.phase = "refreshing" <=> old.phase = "refreshing")

LEMMA OpStepEffect ==
  ASSUME TypeOK, OpInv, CommitsInv, NEW i \in Ops, OpStep(i)
  PROVE  /\ UNCHANGED <<assigned, others, hookVars, form, secret>>
         /\ lock' = lock \/ (~lock' /\ ops[i].live /\ ops[i].phase = "answered" /\ ops'[i].phase = "done")
         /\ pbx' \in [Context -> SUBSET Extension]
         /\ commits' \in 0..(MaxOps + MaxOthers) /\ commits <= commits'
         /\ CommitsInv'
         /\ \E new \in Op :
              /\ Turns(i, new) /\ OpFits(new) /\ OpAdvances(new, ops[i]) /\ new.commit <= commits'
<1>0. /\ Len(ops) \in Nat /\ commits \in Nat /\ others \in 0..MaxOthers /\ Len(ops) <= MaxOps
      /\ MaxOps \in Nat /\ MaxOthers \in Nat /\ ops[i] \in Op /\ ops[i].commit <= commits
      /\ OpFits(ops[i]) /\ commits \in 0..(MaxOps + MaxOthers) /\ pbx \in [Context -> SUBSET Extension]
  BY Basics, BoundsAreNaturals DEF TypeOK, OpInv, OpFits
(* An unchanged set of committed mutations. *)
<1>1. ASSUME UNCHANGED <<commits, others>>, NEW new \in Op, Turns(i, new),
             (new.upstream = "done") = (ops[i].upstream = "done")
      PROVE  CommitsInv'
  <2>1. Committed' = Committed
    BY <1>1, Turned DEF Committed
  <2> QED BY <1>1, <2>1 DEF CommitsInv
<1>2. CASE Commit(i)
  <2>1. ops[i].upstream = "pending" /\ commits' = commits + 1
        /\ UNCHANGED <<assigned, others, hookVars, form, secret, lock>>
    BY <1>2 DEF Commit
  <2>2. commits < others + Len(ops)
    BY <2>1, CommitsCounted
  <2>3. commits + 1 \in 0..(MaxOps + MaxOthers)
    BY <1>0, <2>2
  <2>4. PICK new \in Op :
           /\ Turns(i, new) /\ new.disclosed = ops[i].disclosed
           /\ new.confirmed = ops[i].confirmed /\ new.commit = commits + 1
           /\ new.phase = ops[i].phase /\ new.answer = ops[i].answer
           /\ new.upstream = "done" /\ new.scope = ops[i].scope
    BY <1>2, <2>3, CommitEffect
  <2>5. OpFits(new) /\ OpAdvances(new, ops[i])
    BY <1>0, <2>1, <2>4 DEF OpFits, OpAdvances, Turns, Asks
  <2>6. pbx' \in [Context -> SUBSET Extension]
    <3>1. ops[i].extension \in Extension
      BY <1>0 DEF Op
    <3> QED BY <1>0, <1>2, <3>1 DEF Commit
  <2>7. CommitsInv'
    <3>1. Committed' = Committed \cup {i} /\ i \notin Committed
      BY <2>1, <2>4, Turned DEF Committed
    <3>2. Cardinality(Committed') = Cardinality(Committed) + 1
      BY <3>1, CommitsCounted, FS_AddElement
    <3> QED BY <1>0, <2>1, <3>2, CommitsCounted DEF CommitsInv
  <2> QED BY <1>0, <2>1, <2>3, <2>4, <2>5, <2>6, <2>7
<1>3. CASE NoCommit(i)
  <2>1. ops[i].upstream = "pending" /\ UNCHANGED <<serverVars, hookVars, form, secret, lock>>
    BY <1>3 DEF NoCommit
  <2>2. PICK new \in Op :
           /\ Turns(i, new) /\ new.disclosed = ops[i].disclosed
           /\ new.confirmed = ops[i].confirmed /\ new.commit = ops[i].commit
           /\ new.phase = ops[i].phase /\ new.answer = ops[i].answer
           /\ new.upstream \in {"refused", "lost"} /\ new.scope = ops[i].scope
    BY <1>3, NoCommitEffect
  <2>3. OpFits(new) /\ OpAdvances(new, ops[i])
    BY <1>0, <2>1, <2>2 DEF OpFits, OpAdvances, Turns, Asks
  <2> QED BY <1>0, <1>1, <2>1, <2>2, <2>3 DEF serverVars
<1>4. CASE Scope(i)
  <2>1. ops[i].phase = "sent" /\ UNCHANGED <<serverVars, hookVars, form, secret, lock>>
    BY <1>4 DEF Scope
  <2>2. PICK new \in Op :
           /\ Turns(i, new) /\ new.disclosed = ops[i].disclosed
           /\ new.confirmed = ops[i].confirmed /\ new.commit = ops[i].commit
           /\ \/ /\ new.phase = "answered" /\ new.answer = "forbidden"
                 /\ new.upstream = ops[i].upstream /\ new.scope = ops[i].scope
              \/ /\ new.phase = "called" /\ new.upstream = "pending"
                 /\ new.scope = Resolve(ops[i].asked) /\ new.scope # None
                 /\ new.answer = ops[i].answer
    BY <1>4, ScopeEffect
  <2>3. ops[i].asked \in Context \cup {None} /\ ToSet(assigned) \subseteq ops[i].mine
    BY <1>0, <2>1 DEF Op, OpInv
  <2>4. OpFits(new) /\ OpAdvances(new, ops[i])
    BY <1>0, <2>1, <2>2, <2>3, ResolvesToOwn DEF OpFits, OpAdvances, Turns, Asks
  <2>5. (new.upstream = "done") = (ops[i].upstream = "done")
    BY <1>0, <2>1, <2>2 DEF OpFits
  <2> QED BY <1>0, <1>1, <2>1, <2>2, <2>4, <2>5 DEF serverVars
<1>5. CASE ScopeFails(i)
  <2>1. ops[i].phase = "sent" /\ UNCHANGED <<serverVars, hookVars, form, secret, lock>>
    BY <1>5 DEF ScopeFails
  <2>2. PICK new \in Op :
           /\ Turns(i, new) /\ new.disclosed = ops[i].disclosed
           /\ new.confirmed = ops[i].confirmed /\ new.commit = ops[i].commit
           /\ new.phase = "answered" /\ new.answer = "retryable"
           /\ new.upstream = ops[i].upstream /\ new.scope = ops[i].scope
    BY <1>5, ScopeFailsEffect
  <2>3. OpFits(new) /\ OpAdvances(new, ops[i])
    BY <1>0, <2>1, <2>2 DEF OpFits, OpAdvances, Turns, Asks
  <2> QED BY <1>0, <1>1, <2>1, <2>2, <2>3 DEF serverVars
<1>6. CASE CallReturns(i)
  <2>1. ops[i].phase = "called" /\ UNCHANGED <<serverVars, hookVars, form, secret, lock>>
    BY <1>6 DEF CallReturns
  <2>2. PICK new \in Op :
           /\ Turns(i, new) /\ new.disclosed = ops[i].disclosed
           /\ new.commit = ops[i].commit /\ new.phase = "answered"
           /\ new.answer \in Outcomes(ops[i]) /\ (new.confirmed <=> new.answer = "ok")
           /\ new.upstream = ops[i].upstream /\ new.scope = ops[i].scope
    BY <1>6, CallReturnsEffect
  <2>3. /\ new.answer \in {"ok", "unconfirmed"} => ops[i].upstream = "done"
        /\ new.answer = "refused" => ops[i].upstream = "refused"
        /\ new.answer \in {"ok", "unconfirmed", "refused", "retryable"}
    BY <2>2 DEF Outcomes
  <2>4. OpFits(new) /\ OpAdvances(new, ops[i])
    BY <1>0, <2>1, <2>2, <2>3 DEF OpFits, OpAdvances, Turns, Asks
  <2> QED BY <1>0, <1>1, <2>1, <2>2, <2>4 DEF serverVars
<1>7. CASE Failed(i) \/ Ignored(i)
  <2>1. /\ UNCHANGED <<serverVars, hookVars, form, secret>>
        /\ ops[i].phase \in {"answered", "refreshing"}
        /\ \/ Failed(i) /\ ~lock' /\ ops[i].live /\ ops[i].phase = "answered" /\ ops[i].answer # "ok"
           \/ Ignored(i) /\ lock' = lock /\ ~ops[i].live
    BY <1>7 DEF Failed, Ignored
  <2>2. PICK new \in Op :
           /\ Turns(i, new) /\ new.disclosed = ops[i].disclosed
           /\ new.confirmed = ops[i].confirmed /\ new.commit = ops[i].commit
           /\ new.phase = "done" /\ new.answer = ops[i].answer
           /\ new.upstream = ops[i].upstream /\ new.scope = ops[i].scope
    BY <1>7, EndEffect
  <2>3. OpFits(new) /\ OpAdvances(new, ops[i])
    BY <1>0, <2>1, <2>2 DEF OpFits, OpAdvances, Turns, Asks
  <2>4. ops'[i] = new
    BY <2>2, Turned
  <2>5. lock' = lock \/ (~lock' /\ ops[i].live /\ ops[i].phase = "answered" /\ ops'[i].phase = "done")
    BY <2>1, <2>2, <2>4
  <2> QED BY <1>0, <1>1, <2>1, <2>2, <2>3, <2>5 DEF serverVars
<1> QED BY <1>2, <1>3, <1>4, <1>5, <1>6, <1>7 DEF OpStep
-----------------------------------------------------------------------------
(* What every step of Next leaves of the invariant. *)

(* A step that touches neither the loads nor the mutations. *)
LEMMA QuietInductive ==
  ASSUME IInv, CommitsInv', commits <= commits', commits' \in 0..(MaxOps + MaxOthers),
         others' \in 0..MaxOthers, pbx' \in [Context -> SUBSET Extension],
         form' \in Extension \cup {None}, UNCHANGED <<assigned, hookVars, secret, lock, ops>>
  PROVE  IInv'
<1>1. TypeOK'
  BY DEF IInv, TypeOK, hookVars
<1>2. RequestInv' /\ LockInv' /\ SecretInv' /\ ShownInv' /\ FreshInv' /\ RowsOfSelectedContext'
  BY DEF IInv, hookVars, Ops, RequestInv, LockInv, Busy, SecretInv, ShownInv, FreshInv,
         RowsOfSelectedContext
<1>3. OpInv'
  <2>1. commits \in Nat /\ commits' \in Nat /\ \A i \in Ops : ops[i].commit \in Nat
    BY Basics, BoundsAreNaturals DEF IInv, TypeOK, Op
  <2> QED BY <2>1 DEF IInv, OpInv, Ops
<1>4. NameInv'
  BY DEF IInv, hookVars, Ops, NameInv
<1> QED BY <1>1, <1>2, <1>3, <1>4 DEF IInv

(* Another administrator's change is counted. *)
LEMMA OtherChangeInductive ==
  ASSUME IInv, NEW c \in Context, NEW e \in Extension, OtherChange(c, e)
  PROVE  IInv'
<1>1. /\ others < MaxOthers /\ others' = others + 1 /\ commits' = commits + 1
      /\ UNCHANGED <<assigned, hookVars, form, secret, lock, ops>>
  BY DEF OtherChange
<1>2. /\ commits \in Nat /\ others \in Nat /\ Len(ops) \in Nat /\ Len(ops) <= MaxOps
      /\ MaxOps \in Nat /\ MaxOthers \in Nat /\ form \in Extension \cup {None}
  BY Basics, BoundsAreNaturals DEF IInv, TypeOK
<1>3. commits <= others + Len(ops) /\ Cardinality(Committed) \in Nat
  BY CommitsCounted DEF IInv
<1>4. CommitsInv'
  <2>1. Committed' = Committed
    BY <1>1 DEF Committed, Ops
  <2> QED BY <1>1, <1>2, <1>3, <2>1 DEF IInv, CommitsInv
<1>5. pbx' \in [Context -> SUBSET Extension]
  BY DEF OtherChange, IInv, TypeOK
<1> QED BY <1>1, <1>2, <1>3, <1>4, <1>5, QuietInductive

(* A mutation that comes further, or ends, without a reload. *)
LEMMA OpStepInductive ==
  ASSUME IInv, NEW i \in Ops, OpStep(i)
  PROVE  IInv'
<1> USE DEF IInv
<1>1. /\ UNCHANGED <<assigned, others, hookVars, form, secret>>
      /\ lock' = lock \/ (~lock' /\ ops[i].live /\ ops[i].phase = "answered" /\ ops'[i].phase = "done")
      /\ pbx' \in [Context -> SUBSET Extension]
      /\ commits' \in 0..(MaxOps + MaxOthers) /\ commits <= commits'
      /\ CommitsInv'
  BY OpStepEffect
<1>2. PICK new \in Op : Turns(i, new) /\ OpFits(new) /\ OpAdvances(new, ops[i]) /\ new.commit <= commits'
  BY OpStepEffect
<1>3. /\ ops' \in Seq(Op) /\ Len(ops') = Len(ops) /\ Ops' = Ops /\ ops'[i] = new
      /\ \A j \in Ops : j # i => ops'[j] = ops[j]
  BY <1>2, Turned
<1>4. Asks(new, ops[i])
  BY <1>2 DEF Turns
<1>5. lock' \in BOOLEAN
  <2>1. CASE lock' = lock
    BY <2>1 DEF TypeOK
  <2>2. CASE lock' # lock
    <3>1. lock' = FALSE
      BY <1>1, <2>2
    <3> QED BY <3>1
  <2> QED BY <2>1, <2>2
<1>6. TypeOK'
  BY <1>1, <1>3, <1>5 DEF TypeOK, hookVars
<1>7. OpInv'
  <2>1. commits \in Nat /\ commits' \in Nat /\ \A j \in Ops : ops[j].commit \in Nat
    BY Basics, BoundsAreNaturals, <1>1 DEF TypeOK, Op
  <2>2. new.phase = "sent" => ToSet(assigned) \subseteq new.mine
    BY <1>2, <1>4 DEF OpInv, OpAdvances, Asks
  <2>3. ASSUME NEW j \in Ops, j # i PROVE ops'[j].commit <= commits'
    BY <1>1, <1>3, <2>1, <2>3 DEF OpInv
  <2> QED BY <1>1, <1>2, <1>3, <2>2, <2>3 DEF OpInv, OpFits
<1>8. \A j \in Ops : Busy(j)' => Busy(j)
  BY <1>2, <1>3, <1>4 DEF Busy, OpAdvances, Asks
<1>9. LockInv' /\ RequestInv'
  <2>1. requests' = requests /\ context' = context
    BY <1>1 DEF hookVars
  <2>2. ASSUME NEW r \in requests, r.awaited PROVE lock'
    <3>1. CASE lock' = lock
      BY <2>2, <3>1 DEF RequestInv
    <3>2. CASE ops[i].live /\ ops[i].phase = "answered"
      BY <2>2, <3>2 DEF LockInv, Busy
    <3> QED BY <1>1, <3>1, <3>2
  <2>3. ASSUME NEW j \in Ops, Busy(j)' PROVE lock'
    <3>1. CASE lock' = lock
      BY <1>8, <2>3, <3>1 DEF LockInv
    <3>2. CASE ops[i].live /\ ops[i].phase = "answered" /\ ops'[i].phase = "done"
      <4>1. Busy(i) /\ Busy(j) /\ ~Busy(i)'
        BY <1>8, <2>3, <3>2 DEF Busy
      <4> QED BY <2>3, <4>1 DEF LockInv
    <3> QED BY <1>1, <3>1, <3>2
  <2>4. ASSUME NEW r \in requests, NEW j \in Ops, r.awaited, Busy(j)'
        PROVE  ops'[j].phase = "refreshing"
    <3>1. Busy(j) /\ ops[j].phase = "refreshing"
      BY <1>8, <2>4 DEF LockInv
    <3> QED BY <1>2, <1>3, <3>1 DEF OpAdvances, Busy
  <2>5. LockInv'
    BY <1>3, <1>8, <2>1, <2>3, <2>4 DEF LockInv
  <2>6. RequestInv'
    BY <2>1, <2>2 DEF RequestInv
  <2> QED BY <2>5, <2>6
<1>10. SecretInv'
  <2>1. \A j \in Ops : /\ ops'[j].disclosed = ops[j].disclosed /\ ops'[j].kind = ops[j].kind
                       /\ Busy(j)' /\ ops'[j].phase # "refreshing" => ops[j].phase # "refreshing"
    BY <1>2, <1>3, <1>4 DEF OpAdvances, Asks, Busy
  <2>2. secret # 0 => secret \in Ops
    BY Basics DEF TypeOK
  <2> QED BY <1>1, <1>3, <1>8, <2>1, <2>2 DEF SecretInv
<1>11. ShownInv'
  BY <1>1, <1>2, <1>3, <1>4 DEF ShownInv, OpAdvances, Asks
<1>12. FreshInv'
  <2>1. \A j \in Ops : ops'[j].live /\ ops'[j].answer = "ok" /\ ops'[j].phase \in {"refreshing", "done"} =>
          /\ ops[j].live /\ ops[j].answer = "ok" /\ ops[j].phase \in {"refreshing", "done"}
          /\ ops'[j].commit = ops[j].commit
    BY <1>2, <1>3, <1>4 DEF OpAdvances, Asks
  <2> QED BY <1>1, <1>3, <2>1 DEF FreshInv, hookVars
<1>13. RowsOfSelectedContext'
  BY <1>1 DEF RowsOfSelectedContext, hookVars
<1>14. NameInv'
  BY <1>1, <1>2, <1>3, <1>4 DEF NameInv, hookVars, OpAdvances, Asks
<1> QED BY <1>1, <1>6, <1>7, <1>9, <1>10, <1>11, <1>12, <1>13, <1>14

(* A submission takes the lock, and only when nothing else holds it. *)
LEMMA SubmittedInductive ==
  ASSUME IInv, NEW kind \in {"create", "delete"}, NEW e \in Extension,
         ~lock, Writable, kind = "create" => secret = 0, kind = "delete" => ~loading,
         Submitted(kind, e)
  PROVE  IInv'
<1> USE DEF IInv
<1> DEFINE n == Len(ops) + 1
<1>1. data # None /\ ~failed
  BY DEF Writable
<1>2. lock' = TRUE /\ UNCHANGED <<serverVars, hookVars, form, secret>>
  BY DEF Submitted
<1>3. /\ ops' \in Seq(Op) /\ Len(ops') = n /\ Len(ops') <= MaxOps
      /\ Ops' = Ops \cup {n} /\ n \notin Ops
      /\ \A j \in Ops : ops'[j] = ops[j]
  BY <1>1, SubmittedEffect
<1>4. PICK new \in Op :
        /\ ops'[n] = new /\ new.kind = kind
        /\ new.asked = context /\ new.shown = data.context
        /\ new.mine = ToSet(assigned) /\ new.live
        /\ new.scope = None /\ new.phase = "sent" /\ new.upstream = "none" /\ new.commit = 0
        /\ new.answer = "none" /\ ~new.confirmed /\ new.disclosed = "no"
  BY <1>1, SubmittedEffect
<1>5. /\ Len(ops) \in Nat /\ Ops = 1..Len(ops) /\ commits \in Nat
      /\ commits \in 0..(MaxOps + MaxOthers)
  BY Basics, BoundsAreNaturals DEF TypeOK
<1> HIDE DEF n
<1>6. TypeOK'
  <2>1. secret' \in 0..Len(ops')
    BY <1>2, <1>3, <1>5 DEF TypeOK, n
  <2> QED BY <1>2, <1>3, <2>1 DEF TypeOK, serverVars, hookVars
<1>7. RequestInv'
  BY <1>2 DEF RequestInv, hookVars
<1>8. OpInv'
  <2>1. 0 <= commits
    BY <1>5
  <2> QED BY <1>2, <1>3, <1>4, <2>1 DEF OpInv, serverVars
<1>9. CommitsInv'
  <2>1. Committed' = Committed
    BY <1>3, <1>4 DEF Committed
  <2> QED BY <1>2, <2>1 DEF CommitsInv, serverVars
<1>10. \A j \in Ops : ~Busy(j) /\ ~Busy(j)'
  BY <1>3 DEF LockInv, Busy
<1>11. LockInv'
  <2>1. \A r \in requests : ~r.awaited
    BY DEF RequestInv
  <2> QED BY <1>2, <1>3, <1>10, <2>1 DEF LockInv, hookVars
<1>12. SecretInv'
  <2>1. secret # 0 => secret \in Ops
    BY <1>5 DEF TypeOK
  <2>2. \A j \in Ops' : ops'[j].disclosed = "gone" => j \in Ops
    BY <1>3, <1>4
  <2>3. \A j \in Ops' : ops'[j].kind = "create" /\ Busy(j)' => j = n /\ kind = "create"
    BY <1>3, <1>4, <1>10
  <2> QED BY <1>2, <1>3, <2>1, <2>2, <2>3 DEF SecretInv
<1>13. ShownInv'
  BY <1>2, <1>3, <1>4 DEF ShownInv
<1>14. FreshInv'
  BY <1>2, <1>3, <1>4 DEF FreshInv, hookVars
<1>15. RowsOfSelectedContext'
  BY <1>2 DEF RowsOfSelectedContext, hookVars
<1>16. NameInv'
  BY <1>1, <1>2, <1>3, <1>4 DEF NameInv, hookVars, serverVars, RowsOfSelectedContext
<1> QED BY <1>6, <1>7, <1>8, <1>9, <1>11, <1>12, <1>13, <1>14, <1>15, <1>16

LEMMA DismissInductive ==
  ASSUME IInv, Dismiss
  PROVE  IInv'
<1> USE DEF IInv
<1>1. secret' = 0 /\ secret # 0 /\ UNCHANGED <<serverVars, hookVars, form, lock>>
  BY DEF Dismiss
<1>2. PICK new \in Op :
        /\ Turns(secret, new) /\ new.disclosed = "gone"
        /\ new.confirmed = ops[secret].confirmed /\ new.commit = ops[secret].commit
        /\ new.phase = ops[secret].phase /\ new.answer = ops[secret].answer
        /\ new.upstream = ops[secret].upstream /\ new.scope = ops[secret].scope
  BY DismissEffect
<1>3. secret \in Ops
  BY DismissEffect
<1>4. /\ ops' \in Seq(Op) /\ Len(ops') = Len(ops) /\ Ops' = Ops /\ ops'[secret] = new
      /\ \A j \in Ops : j # secret => ops'[j] = ops[j]
  BY <1>2, <1>3, Turned
<1>5. Asks(new, ops[secret])
  BY <1>2 DEF Turns
<1>6. /\ \A j \in Ops : Stays(ops'[j], ops[j]) /\ ops'[j].mine = ops[j].mine
      /\ \A j \in Ops : ops'[j].live = ops[j].live /\ ops'[j].phase = ops[j].phase
      /\ \A j \in Ops : ops'[j].disclosed = IF j = secret THEN "gone" ELSE ops[j].disclosed
  <2>1. ASSUME NEW op PROVE Stays(op, op)
    BY DEF Stays
  <2>2. /\ Stays(new, ops[secret]) /\ new.mine = ops[secret].mine
        /\ new.live = ops[secret].live
    <3>1. new.extension = ops[secret].extension
      BY <1>5 DEF Asks
    <3> QED BY <1>2, <1>5, <3>1 DEF Stays, Asks
  <2> QED BY <1>2, <1>4, <2>1, <2>2
<1>7. TypeOK'
  <2>1. 0 \in 0..Len(ops)
    BY Basics
  <2> QED BY <1>1, <1>4, <2>1 DEF TypeOK, serverVars, hookVars
<1>8. RequestInv'
  BY <1>1 DEF RequestInv, hookVars
<1>9. ops[secret].disclosed = "shown" /\ ops[secret].phase \in {"refreshing", "done"}
  BY <1>1, <1>3 DEF SecretInv, OpInv
<1>10. OpInv'
  BY <1>1, <1>4, <1>6, <1>9 DEF OpInv, Stays, serverVars
<1>11. CommitsInv'
  <2>1. Committed' = Committed
    BY <1>4, <1>6 DEF Committed, Stays
  <2> QED BY <1>1, <2>1 DEF CommitsInv, serverVars
<1>12. LockInv' /\ SecretInv' /\ ShownInv'
  <2>1. LockInv'
    BY <1>1, <1>4, <1>6 DEF LockInv, Busy, hookVars
  <2>2. SecretInv'
    <3>1. \A j \in Ops : j # 0
      BY Basics
    <3> QED BY <1>1, <1>4, <3>1 DEF SecretInv
  <2>3. ShownInv'
    BY <1>1, <1>4, <1>6 DEF ShownInv, Stays
  <2> QED BY <2>1, <2>2, <2>3
<1>13. FreshInv' /\ RowsOfSelectedContext'
  BY <1>1, <1>4, <1>6 DEF FreshInv, RowsOfSelectedContext, Stays, hookVars
<1>14. NameInv'
  BY <1>1, <1>4, <1>6 DEF NameInv, Stays, hookVars, serverVars
<1> QED BY <1>7, <1>8, <1>10, <1>11, <1>12, <1>13, <1>14

(* A load that comes further answers with every commit so far. *)
LEMMA ListInductive ==
  ASSUME IInv, NEW r \in requests, List(r)
  PROVE  IInv'
<1> USE DEF IInv
<1>1. UNCHANGED <<serverVars, context, data, failed, loading, form, secret, lock, ops>>
  BY ListEffect
<1>2. \A s \in requests' :
        /\ s \in Request
        /\ \/ s \in requests
           \/ /\ s.latest = r.latest /\ s.awaited = r.awaited /\ s.asked = r.asked
              /\ \/ s.phase = "answered" /\ s.contents = None /\ s.scope = r.scope
                 \/ /\ s.phase = "scoped" /\ s.contents = None
                    /\ s.scope = Resolve(r.asked) /\ s.scope # None
                 \/ /\ s.phase = "answered" /\ r.phase = "scoped" /\ s.scope = r.scope
                    /\ s.contents \in Contents /\ s.contents.commit = commits
  BY ListEffect
<1>3. TypeOK'
  BY <1>1, <1>2 DEF TypeOK, serverVars, Request
<1>4. RequestInv'
  BY <1>1, <1>2 DEF RequestInv
<1>5. OpInv' /\ CommitsInv' /\ SecretInv' /\ ShownInv' /\ RowsOfSelectedContext'
  BY <1>1 DEF OpInv, CommitsInv, Committed, SecretInv, ShownInv, RowsOfSelectedContext, Ops,
              Busy, serverVars
<1>6. LockInv'
  <2>1. /\ \A i \in Ops' : Busy(i)' => lock'
        /\ \A i, j \in Ops' : Busy(i)' /\ Busy(j)' => i = j
    BY <1>1 DEF LockInv, Busy, Ops
  <2>2. \A s \in requests' : \A i \in Ops' : s.awaited /\ Busy(i)' => ops'[i].phase = "refreshing"
    BY <1>1, <1>2 DEF LockInv, Busy, Ops
  <2>3. ASSUME NEW s \in requests', NEW t \in requests', s.awaited, t.awaited
        PROVE  s = t
    <3>1. (\E u \in requests : u.awaited /\ u = s) \/ r.awaited
      BY <1>2, <2>3
    <3>2. PICK new : requests' = (requests \ {r}) \cup {new}
      BY DEF List, ScopeRequest, ReadInventory, RequestFails, Becomes
    <3>3. new.awaited => r.awaited \/ new \in requests
      BY <1>2, <3>2
    <3>4. \A u, v \in requests : u.awaited /\ v.awaited => u = v
      BY DEF LockInv
    <3>5. new.awaited /\ new \notin requests => \A u \in requests \ {r} : ~u.awaited
      BY <3>3, <3>4
    <3>6. s \in requests \ {r} \/ s = new
      BY <3>2
    <3>7. t \in requests \ {r} \/ t = new
      BY <3>2
    <3> QED BY <2>3, <3>4, <3>5, <3>6, <3>7
  <2> QED BY <2>1, <2>2, <2>3 DEF LockInv
<1>7. FreshInv'
  BY <1>1, <1>2 DEF FreshInv, OpInv, Ops
<1>8. NameInv'
  <2>1. r.asked \in Context \cup {None}
    BY DEF RequestInv, Request
  <2>2. Resolve(r.asked) # None /\ r.asked # None => Resolve(r.asked) = r.asked
    BY <2>1, ResolvesToOwn
  <2> QED BY <1>1, <1>2, <2>2 DEF NameInv, Ops, serverVars
<1> QED BY <1>3, <1>4, <1>5, <1>6, <1>7, <1>8

(* A reload the user asked for, or that a context just selected needs. *)
LEMMA ReloadInductive ==
  ASSUME IInv, NEW asked \in Context \cup {None}, ~lock,
         RefreshFor(asked, FALSE, Superseded), context' = asked,
         UNCHANGED <<serverVars, data, failed, form, secret, lock, ops>>
  PROVE  IInv'
<1> USE DEF IInv
<1>1. /\ loading'
      /\ \A s \in requests' :
           /\ s \in Request
           /\ \/ Fresh(s) /\ s.awaited = FALSE
              \/ ~s.latest /\ \E r \in requests : SameLoad(s, r) /\ s.awaited = r.awaited
  <2>1. requests \subseteq Request
    BY DEF RequestInv
  <2> QED BY <2>1, RefreshEffect
<1>2. \A s \in requests' : ~s.awaited
  BY <1>1 DEF RequestInv
<1>3. TypeOK'
  <2>1. loading' = TRUE
    BY DEF RefreshFor
  <2> QED BY <1>1, <2>1 DEF TypeOK, serverVars, Request
<1>4. RequestInv'
  BY <1>1, <1>2 DEF RequestInv, Fresh, SameLoad
<1>5. OpInv' /\ CommitsInv' /\ SecretInv' /\ ShownInv'
  BY DEF OpInv, CommitsInv, Committed, SecretInv, ShownInv, Ops, Busy, serverVars
<1>6. LockInv'
  BY <1>2 DEF LockInv, Busy, Ops
<1>7. FreshInv' /\ RowsOfSelectedContext'
  BY <1>1 DEF FreshInv, RowsOfSelectedContext, Ops, Fresh
<1>8. NameInv'
  BY <1>1 DEF NameInv, Ops, serverVars, Fresh, SameLoad
<1> QED BY <1>3, <1>4, <1>5, <1>6, <1>7, <1>8

(* A success keeps the lock, and the reload it starts is the one awaited. *)
LEMMA SucceedInductive ==
  ASSUME IInv, NEW i \in Ops, Succeed(i)
  PROVE  IInv'
<1> USE DEF IInv
<1>1. /\ ops[i].phase = "answered" /\ ops[i].live /\ ops[i].answer = "ok"
      /\ UNCHANGED <<serverVars, lock, context, data, failed>>
      /\ RefreshFor(context, TRUE, Superseded)
  BY DEF Succeed, Refresh
<1>2. IF ops[i].kind = "create" THEN form' = None /\ secret' = i ELSE UNCHANGED <<form, secret>>
  BY DEF Succeed
<1>3. PICK new \in Op :
        /\ Turns(i, new)
        /\ new.disclosed = IF secret' = i THEN "shown" ELSE ops[i].disclosed
        /\ new.confirmed = ops[i].confirmed /\ new.commit = ops[i].commit
        /\ new.phase = "refreshing" /\ new.answer = ops[i].answer
        /\ new.upstream = ops[i].upstream /\ new.scope = ops[i].scope
  BY SucceedEffect
<1>4. /\ ops' \in Seq(Op) /\ Len(ops') = Len(ops) /\ Ops' = Ops /\ ops'[i] = new
      /\ \A j \in Ops : j # i => ops'[j] = ops[j]
  BY <1>3, Turned
<1>5. Asks(new, ops[i])
  BY <1>3 DEF Turns
<1>6. /\ loading'
      /\ \A s \in requests' :
           /\ s \in Request
           /\ \/ Fresh(s) /\ s.awaited = TRUE
              \/ ~s.latest /\ \E r \in requests : SameLoad(s, r) /\ s.awaited = r.awaited
  <2>1. requests \subseteq Request /\ context \in Context \cup {None} /\ context = context'
    BY <1>1 DEF RequestInv, TypeOK
  <2> QED BY <1>1, <2>1, RefreshEffect
<1>7. Busy(i) /\ lock /\ \A j \in Ops : Busy(j) => j = i
  BY <1>1 DEF Busy, LockInv
<1>8. \A r \in requests : ~r.awaited
  BY <1>1, <1>7 DEF LockInv
<1>9. \A j \in Ops : Busy(j)' => j = i
  BY <1>4, <1>7 DEF Busy
<1>10. /\ i \in 0..Len(ops) /\ i # 0 /\ secret \in 0..Len(ops)
       /\ secret # 0 => secret \in Ops
  BY Basics DEF TypeOK
<1>11. TypeOK'
  <2>1. loading' = TRUE
    BY <1>1 DEF RefreshFor
  <2>2. secret' \in 0..Len(ops') /\ form' \in Extension \cup {None}
    BY <1>2, <1>4, <1>10 DEF TypeOK
  <2> QED BY <1>1, <1>4, <1>6, <2>1, <2>2 DEF TypeOK, serverVars, Request
<1>12. RequestInv'
  BY <1>1, <1>6, <1>7, <1>8 DEF RequestInv, Fresh, SameLoad
<1>13. OpInv'
  <2>1. ASSUME NEW j \in Ops, j # i PROVE ops'[j] = ops[j]
    BY <1>4, <2>1
  <2>2. /\ new.live /\ new.mine = ops[i].mine /\ new.phase = "refreshing" /\ new.answer = "ok"
        /\ new.upstream = "done" /\ new.scope = ops[i].scope /\ new.commit = ops[i].commit
        /\ new.scope # None /\ new.scope \in new.mine
    BY <1>1, <1>3, <1>5 DEF OpInv, Asks
  <2>3. /\ assigned' = assigned /\ commits' = commits
    BY <1>1 DEF serverVars
  <2> QED BY <1>4, <2>1, <2>2, <2>3 DEF OpInv
<1>14. CommitsInv'
  <2>1. Committed' = Committed
    BY <1>3, <1>4 DEF Committed
  <2> QED BY <1>1, <2>1 DEF CommitsInv, serverVars
<1>15. LockInv'
  <2>1. \A s \in requests' : s.awaited =>
          s = [latest |-> TRUE, awaited |-> TRUE, asked |-> context,
               phase |-> "sent", scope |-> None, contexts |-> <<>>, contents |-> None]
    <3>1. \A r \in requests : ~[r EXCEPT !.latest = FALSE].awaited
      BY <1>8 DEF RequestInv, Request
    <3> QED BY <1>1, <3>1 DEF RefreshFor, Superseded
  <2> QED BY <1>1, <1>3, <1>4, <1>7, <1>9, <2>1 DEF LockInv, Busy
<1>16. SecretInv'
  <2>1. CASE ops[i].kind = "create"
    <3>1. secret' = i /\ new.disclosed = "shown"
      BY <1>2, <1>3, <2>1
    <3>2. \A j \in Ops : ops'[j].disclosed = "gone" => j # i
      BY <1>4, <3>1
    <3>3. \A j \in Ops : ~(Busy(j)' /\ ops'[j].phase # "refreshing")
      BY <1>3, <1>4, <1>9
    <3> QED BY <1>4, <3>1, <3>2, <3>3 DEF SecretInv
  <2>2. CASE ops[i].kind # "create"
    <3>1. secret' = secret
      BY <1>2, <2>2
    <3>2. secret # i
      BY <1>1, <1>10 DEF SecretInv, OpInv
    <3>3. new.disclosed = ops[i].disclosed
      BY <1>3, <3>1, <3>2
    <3>4. \A j \in Ops : ~(Busy(j)' /\ ops'[j].phase # "refreshing")
      BY <1>3, <1>4, <1>9
    <3> QED BY <1>4, <1>10, <3>1, <3>2, <3>3, <3>4 DEF SecretInv
  <2> QED BY <2>1, <2>2
<1>17. ShownInv'
  <2>1. ops[i].kind = "create" => secret = 0
    BY <1>1, <1>7 DEF SecretInv
  <2>2. \A j \in Ops : j # 0
    BY Basics
  <2> QED BY <1>2, <1>3, <1>4, <1>5, <2>1, <2>2 DEF ShownInv, Asks
<1>18. FreshInv' /\ RowsOfSelectedContext'
  <2>1. \A s \in requests' : s.latest => s.contents = None
    BY <1>6 DEF Fresh
  <2> QED BY <1>6, <2>1 DEF FreshInv, RowsOfSelectedContext
<1>19. NameInv'
  BY <1>1, <1>3, <1>4, <1>5, <1>6 DEF NameInv, serverVars, Fresh, SameLoad, Asks
<1> QED BY <1>11, <1>12, <1>13, <1>14, <1>15, <1>16, <1>17, <1>18, <1>19

(* A load is applied when it is the latest, and ends what awaited it. *)
LEMMA LoadInductive ==
  ASSUME IInv, NEW r \in requests, Load(r)
  PROVE  IInv'
<1> USE DEF IInv
<1>1. /\ r.phase = "answered" /\ requests' = requests \ {r}
      /\ IF r.latest /\ r.contents # None
         THEN data' = [asked |-> r.asked, context |-> r.scope,
                       contexts |-> r.contexts, contents |-> r.contents]
         ELSE UNCHANGED data
      /\ failed' = IF r.latest THEN r.contents = None ELSE failed
      /\ loading' = (loading /\ ~r.latest)
      /\ UNCHANGED <<serverVars, context, form, secret>>
  BY DEF Load, Deliver
<1>2. /\ ops' \in Seq(Op) /\ Len(ops') = Len(ops) /\ Ops' = Ops
      /\ lock' = (lock /\ ~r.awaited)
  BY LoadEffect
<1>3. \A j \in Ops :
        /\ Stays(ops'[j], ops[j]) /\ ops'[j].mine = ops[j].mine
        /\ ops'[j].live = ops[j].live /\ ops'[j].disclosed = ops[j].disclosed
        /\ ops'[j].phase = IF r.awaited /\ ops[j].phase = "refreshing" /\ ops[j].live
                           THEN "done" ELSE ops[j].phase
  BY LoadEffect
<1>4. r \in Request /\ (r.contents # None => r.scope \in Context /\ r.contents \in Contents)
  BY DEF RequestInv, Request
<1>5. r.latest /\ r.contents # None =>
        /\ data'.asked = r.asked /\ data'.context = r.scope /\ data'.contents = r.contents
  BY <1>1
<1>6. TypeOK'
  <2>1. failed' \in BOOLEAN /\ loading' \in BOOLEAN /\ lock' \in BOOLEAN
    BY <1>1, <1>2, <1>4 DEF TypeOK, Request
  <2>2. data' = None \/ /\ data'.contents \in Contents
                        /\ data'.context \in Context /\ data'.asked \in Context \cup {None}
    BY <1>1, <1>4, <1>5 DEF TypeOK, Request
  <2> QED BY <1>1, <1>2, <2>1, <2>2 DEF TypeOK, serverVars
<1>7. \A s \in requests' : s \in requests /\ (s.awaited => ~r.awaited /\ lock')
  BY <1>1, <1>2 DEF RequestInv, LockInv
<1>8. RequestInv'
  BY <1>1, <1>7 DEF RequestInv
<1>9. OpInv'
  <2>1. \A j \in Ops : ops'[j].phase = ops[j].phase \/ (ops[j].phase = "refreshing" /\ ops'[j].phase = "done")
    BY <1>3
  <2> QED BY <1>1, <1>2, <1>3, <2>1 DEF OpInv, Stays, serverVars
<1>10. CommitsInv'
  <2>1. Committed' = Committed
    BY <1>2, <1>3 DEF Committed, Stays
  <2> QED BY <1>1, <2>1 DEF CommitsInv, serverVars
<1>11. \A j \in Ops : Busy(j)' => Busy(j) /\ ~r.awaited /\ ops'[j].phase = ops[j].phase
  <2> SUFFICES ASSUME NEW j \in Ops, Busy(j)'
               PROVE  Busy(j) /\ ~r.awaited /\ ops'[j].phase = ops[j].phase
    OBVIOUS
  <2>1. ops[j].live /\ ops'[j].phase # "done" /\ Busy(j)
    BY <1>3 DEF Busy
  <2>2. r.awaited => ops[j].phase = "refreshing"
    BY <2>1 DEF LockInv
  <2> QED BY <1>3, <2>1, <2>2
<1>12. LockInv'
  BY <1>2, <1>7, <1>11 DEF LockInv
<1>13. SecretInv'
  <2>1. secret # 0 => secret \in Ops
    BY Basics DEF TypeOK
  <2> QED BY <1>1, <1>2, <1>3, <1>11, <2>1 DEF SecretInv, Stays
<1>14. ShownInv'
  BY <1>1, <1>2, <1>3 DEF ShownInv, Stays
<1>15. FreshInv'
  <2> SUFFICES ASSUME NEW j \in Ops, ops[j].live, ops[j].answer = "ok",
                      ops[j].phase \in {"refreshing", "done"}
               PROVE  /\ \A s \in requests' :
                           s.latest /\ s.contents # None => s.contents.commit >= ops[j].commit
                      /\ ~loading' /\ ~failed' => data'.contents.commit >= ops[j].commit
    <3>1. \A j \in Ops : /\ ops'[j].live = ops[j].live /\ ops'[j].answer = ops[j].answer
                         /\ ops'[j].phase \in {"refreshing", "done"} => ops[j].phase \in {"refreshing", "done"}
                         /\ ops'[j].commit = ops[j].commit
      BY <1>3 DEF Stays
    <3> QED BY <1>2, <3>1 DEF FreshInv
  <2>1. \A s \in requests : s.latest /\ s.contents # None => s.contents.commit >= ops[j].commit
    BY DEF FreshInv
  <2>2. ~loading /\ ~failed => data.contents.commit >= ops[j].commit
    BY DEF FreshInv
  <2>3. CASE r.latest
    BY <1>1, <1>5, <2>1, <2>3
  <2>4. CASE ~r.latest
    BY <1>1, <2>1, <2>2, <2>4
  <2> QED BY <2>3, <2>4
<1>16. RowsOfSelectedContext'
  <2>1. r.latest => r.asked = context
    BY DEF RequestInv
  <2>2. CASE r.latest
    BY <1>1, <1>5, <2>1, <2>2 DEF RowsOfSelectedContext
  <2>3. CASE ~r.latest
    BY <1>1, <2>3 DEF RowsOfSelectedContext
  <2> QED BY <2>2, <2>3
<1>17. NameInv'
  <2>1. data' # None /\ data'.asked # None => data'.context = data'.asked
    <3>1. r.contents # None /\ r.asked # None => r.scope = r.asked
      BY DEF NameInv, RequestInv
    <3> QED BY <1>1, <1>5, <3>1 DEF NameInv
  <2>2. UNCHANGED assigned
    BY <1>1 DEF serverVars
  <2> QED BY <1>2, <1>3, <1>7, <2>1, <2>2 DEF NameInv, Stays
<1> QED BY <1>6, <1>8, <1>9, <1>10, <1>12, <1>13, <1>14, <1>15, <1>16, <1>17

(* Leaving the screen lets go of everything but what OfficePulse was asked. *)
LEMMA LeaveInductive ==
  ASSUME IInv, Leave
  PROVE  IInv'
<1> USE DEF IInv
<1>1. form' = None /\ secret' = 0 /\ lock' = FALSE /\ UNCHANGED serverVars
  BY DEF Leave
<1>2. /\ ops' \in Seq(Op) /\ Len(ops') = Len(ops) /\ Ops' = Ops
      /\ \A j \in Ops :
           /\ Stays(ops'[j], ops[j]) /\ ops'[j].mine = ops[j].mine
           /\ ~ops'[j].live /\ ops'[j].phase = ops[j].phase
           /\ ops'[j].disclosed = IF ops[j].disclosed = "shown" THEN "gone"
                                  ELSE ops[j].disclosed
  BY LeaveEffect
<1>3. /\ loading' /\ context' = None /\ data' = None /\ ~failed'
      /\ \A s \in requests' :
           /\ s \in Request /\ ~s.awaited
           /\ Fresh(s) \/ (~s.latest /\ \E r \in requests : SameLoad(s, r))
  <2>1. requests \subseteq Request /\ Remount
    BY DEF RequestInv, Leave
  <2> QED BY <2>1, RemountEffect
<1>4. TypeOK'
  <2>1. loading' = TRUE /\ failed' = FALSE
    BY DEF Leave, Remount, RefreshFor
  <2>2. 0 \in 0..Len(ops)
    BY Basics
  <2> QED BY <1>1, <1>2, <1>3, <2>1, <2>2 DEF TypeOK, serverVars, Request
<1>5. RequestInv'
  BY <1>3 DEF RequestInv, Fresh, SameLoad
<1>6. OpInv'
  BY <1>1, <1>2 DEF OpInv, Stays, serverVars
<1>7. CommitsInv'
  <2>1. Committed' = Committed
    BY <1>2 DEF Committed, Stays
  <2> QED BY <1>1, <2>1 DEF CommitsInv, serverVars
<1>8. LockInv'
  BY <1>2, <1>3 DEF LockInv, Busy
<1>9. SecretInv' /\ ShownInv'
  <2>1. \A j \in Ops : j # 0
    BY Basics
  <2> QED BY <1>1, <1>2, <2>1 DEF SecretInv, ShownInv, Busy
<1>10. FreshInv' /\ RowsOfSelectedContext'
  BY <1>2, <1>3 DEF FreshInv, RowsOfSelectedContext
<1>11. NameInv'
  BY <1>1, <1>2, <1>3 DEF NameInv, Stays, serverVars, Fresh, SameLoad
<1> QED BY <1>4, <1>5, <1>6, <1>7, <1>8, <1>9, <1>10, <1>11

(* A lost answer releases the lock its mutation held; nothing was awaited. *)
LEMMA AnswerLostInductive ==
  ASSUME IInv, NEW i \in Ops, AnswerLost(i)
  PROVE  IInv'
<1> USE DEF IInv
<1>1. /\ ops[i].phase \in {"sent", "called", "answered"} /\ ops[i].live
      /\ lock' = FALSE /\ UNCHANGED <<serverVars, hookVars, form, secret>>
  BY DEF AnswerLost
<1>2. /\ ops' \in Seq(Op) /\ Len(ops') = Len(ops) /\ Ops' = Ops
      /\ \A j \in Ops : j # i => ops'[j] = ops[j]
      /\ Stays(ops'[i], ops[i]) /\ ops'[i].mine = ops[i].mine
      /\ ~ops'[i].live /\ ops'[i].phase = ops[i].phase /\ ops'[i].disclosed = "lost"
  BY AnswerLostEffect
<1>3. TypeOK'
  BY <1>1, <1>2 DEF TypeOK, serverVars, hookVars
<1>4. Busy(i) /\ \A j \in Ops : ~Busy(j)'
  BY <1>1, <1>2 DEF LockInv, Busy
<1>5. \A r \in requests : ~r.awaited
  BY <1>1, <1>4 DEF LockInv
<1>6. RequestInv' /\ LockInv'
  BY <1>1, <1>2, <1>4, <1>5 DEF RequestInv, LockInv, hookVars
<1>7. OpInv'
  BY <1>1, <1>2 DEF OpInv, Stays, serverVars
<1>8. CommitsInv'
  <2>1. Committed' = Committed
    BY <1>2 DEF Committed, Stays
  <2> QED BY <1>1, <2>1 DEF CommitsInv, serverVars
<1>9. SecretInv'
  <2>1. secret # 0 => secret \in Ops
    BY Basics DEF TypeOK
  <2>2. secret # i
    <3>1. i # 0
      BY Basics
    <3> QED BY <1>1, <2>1, <3>1 DEF SecretInv, OpInv
  <2> QED BY <1>1, <1>2, <1>4, <2>1, <2>2 DEF SecretInv
<1>10. ShownInv' /\ FreshInv'
  BY <1>1, <1>2 DEF ShownInv, FreshInv, hookVars
<1>11. RowsOfSelectedContext'
  BY <1>1 DEF RowsOfSelectedContext, hookVars
<1>12. NameInv'
  BY <1>1, <1>2 DEF NameInv, Stays, hookVars
<1> QED BY <1>3, <1>6, <1>7, <1>8, <1>9, <1>10, <1>11, <1>12

(* Another list for the tenant widens what was its own meanwhile. *)
LEMMA TenantEditInductive ==
  ASSUME IInv, NEW list \in Assignments, TenantEdit(list)
  PROVE  IInv'
<1> USE DEF IInv
<1>1. /\ UNCHANGED <<hookVars, pbx, commits, others, form, secret, lock>> /\ assigned' = list
  BY DEF TenantEdit, Reassign
<1>2. /\ ops' \in Seq(Op) /\ Len(ops') = Len(ops) /\ Ops' = Ops
      /\ \A j \in Ops :
           /\ Stays(ops'[j], ops[j]) /\ ops[j].mine \subseteq ops'[j].mine
           /\ ops'[j].live = ops[j].live /\ ops'[j].phase = ops[j].phase
           /\ ops'[j].disclosed = ops[j].disclosed
           /\ ops[j].phase = "sent" => ToSet(list) \subseteq ops'[j].mine
  BY TenantEditEffect
<1>3. TypeOK' /\ RequestInv'
  BY <1>1, <1>2 DEF TypeOK, RequestInv, hookVars
<1>4. OpInv'
  BY <1>1, <1>2 DEF OpInv, Stays
<1>5. CommitsInv'
  <2>1. Committed' = Committed
    BY <1>2 DEF Committed, Stays
  <2> QED BY <1>1, <2>1 DEF CommitsInv
<1>6. LockInv'
  BY <1>1, <1>2 DEF LockInv, Busy, hookVars
<1>7. SecretInv'
  <2>1. secret # 0 => secret \in Ops
    BY Basics DEF TypeOK
  <2>2. \A j \in Ops : ops'[j].kind = ops[j].kind /\ (Busy(j)' <=> Busy(j))
    BY <1>2 DEF Busy, Stays
  <2> QED BY <1>1, <1>2, <2>1, <2>2 DEF SecretInv
<1>8. ShownInv'
  BY <1>1, <1>2 DEF ShownInv, Stays
<1>9. FreshInv' /\ RowsOfSelectedContext'
  BY <1>1, <1>2 DEF FreshInv, RowsOfSelectedContext, Stays, hookVars
<1>10. NameInv'
  BY <1>1, <1>2 DEF NameInv, Stays, hookVars
<1> QED BY <1>3, <1>4, <1>5, <1>6, <1>7, <1>8, <1>9, <1>10
-----------------------------------------------------------------------------
LEMMA Initially ==
  ASSUME Init
  PROVE  IInv
<1>1. /\ ops = <<>> /\ Ops = {} /\ Len(ops) = 0 /\ secret = 0 /\ lock = FALSE /\ commits = 0
      /\ others = 0 /\ data = None /\ failed = FALSE /\ loading = TRUE /\ context = None
      /\ form = None /\ assigned \in Assignments /\ pbx \in [Context -> SUBSET Extension]
  BY DEF Init, InventoryInit, Ops
<1> DEFINE first == [latest |-> TRUE, awaited |-> FALSE, asked |-> None,
                     phase |-> "sent", scope |-> None, contexts |-> <<>>, contents |-> None]
<1>2. requests = {first}
  BY DEF Init, InventoryInit
<1>3. /\ first \in Request /\ first.latest /\ ~first.awaited /\ first.asked = None
      /\ first.phase = "sent" /\ first.scope = None /\ first.contents = None
  BY DEF Request
<1> HIDE DEF first
<1>4. TypeOK
  <2>1. ops \in Seq(Op) /\ Len(ops) <= MaxOps
    BY <1>1, BoundsAreNaturals
  <2>2. 0 \in 0..(MaxOps + MaxOthers) /\ 0 \in 0..MaxOthers /\ 0 \in 0..0
    BY BoundsAreNaturals
  <2> QED BY <1>1, <1>2, <1>3, <2>1, <2>2 DEF TypeOK
<1>5. RequestInv /\ LockInv
  BY <1>1, <1>2, <1>3 DEF RequestInv, LockInv
<1>6. OpInv /\ SecretInv /\ ShownInv /\ FreshInv /\ RowsOfSelectedContext
  BY <1>1 DEF OpInv, SecretInv, ShownInv, FreshInv, RowsOfSelectedContext
<1>7. CommitsInv
  <2>1. Committed = {}
    BY <1>1 DEF Committed
  <2> QED BY <1>1, <2>1, FS_EmptySet DEF CommitsInv
<1>8. NameInv
  BY <1>1, <1>2, <1>3 DEF NameInv
<1> QED BY <1>4, <1>5, <1>6, <1>7, <1>8 DEF IInv

LEMMA NextInductive ==
  ASSUME IInv, [Next]_vars
  PROVE  IInv'
<1>1. /\ commits \in 0..(MaxOps + MaxOthers) /\ others \in 0..MaxOthers
      /\ pbx \in [Context -> SUBSET Extension] /\ form \in Extension \cup {None}
      /\ context \in Context \cup {None} /\ commits <= commits
      /\ data # None => data.context \in Context
  <2>1. commits \in Nat
    BY BoundsAreNaturals DEF IInv, TypeOK
  <2> QED BY <2>1 DEF IInv, TypeOK
(* A step that leaves the servers alone too. *)
<1>2. ASSUME form' \in Extension \cup {None}, UNCHANGED <<serverVars, hookVars, secret, lock, ops>>
      PROVE  IInv'
  <2>1. CommitsInv'
    BY <1>2 DEF IInv, CommitsInv, Committed, Ops, serverVars
  <2> QED BY <1>1, <1>2, <2>1, QuietInductive DEF serverVars
<1>3. CASE UNCHANGED vars
  BY <1>1, <1>2, <1>3 DEF vars, serverVars
<1>4. ASSUME NEW c \in Context, Select(c) PROVE IInv'
  BY <1>4, ReloadInductive DEF Select, SelectContext
<1>5. CASE Reload
  <2>1. ~lock /\ RefreshFor(context, FALSE, Superseded) /\ context' = context
        /\ UNCHANGED <<serverVars, data, failed, form, secret, lock, ops>>
    BY <1>5 DEF Reload, ClickRefresh, Refresh
  <2> QED BY <1>1, <2>1, ReloadInductive
<1>6. ASSUME NEW e \in Extension, OpenForm(e) PROVE IInv'
  BY <1>2, <1>6 DEF OpenForm
<1>7. ASSUME NEW e \in Extension, Delete(e) PROVE IInv'
  BY <1>7, SubmittedInductive DEF Delete
<1>8. CASE CancelForm
  BY <1>2, <1>8 DEF CancelForm
<1>9. CASE Submit
  BY <1>1, <1>9, SubmittedInductive DEF Submit
<1>10. CASE Dismiss
  BY <1>10, DismissInductive
<1>11. CASE Leave
  BY <1>11, LeaveInductive
<1>12. ASSUME NEW i \in Ops, BffStep(i) \/ Commit(i) \/ NoCommit(i) \/ AnswerStep(i)
       PROVE  IInv'
  BY <1>12, OpStepInductive, SucceedInductive DEF BffStep, AnswerStep, OpStep
<1>16. ASSUME NEW i \in Ops, AnswerLost(i) PROVE IInv'
  BY <1>16, AnswerLostInductive
<1>13. ASSUME NEW r \in requests, Load(r) \/ List(r) PROVE IInv'
  BY <1>13, LoadInductive, ListInductive
<1>14. ASSUME NEW c \in Context, NEW e \in Extension, OtherChange(c, e) PROVE IInv'
  BY <1>14, OtherChangeInductive
<1>15. ASSUME NEW list \in Assignments, TenantEdit(list) PROVE IInv'
  BY <1>15, TenantEditInductive
<1> QED BY <1>3, <1>4, <1>5, <1>6, <1>7, <1>8, <1>9, <1>10, <1>11, <1>12, <1>13, <1>14, <1>15, <1>16
        DEF Next

LEMMA InvariantHolds == Spec => []IInv
<1>1. Init => IInv
  BY Initially
<1>2. IInv /\ [Next]_vars => IInv'
  BY NextInductive
<1> QED BY <1>1, <1>2, PTL DEF Spec
-----------------------------------------------------------------------------
(* After a mutation that succeeded, an inventory shown at rest without an  *)
(* error includes it, whatever loads overlap and in whatever order they    *)
(* are answered (usePbxInventory's sequence number, ExtensionsScreen's     *)
(* await of its refresh).                                                  *)
THEOREM InventoryIsFreshHolds == Spec => []InventoryIsFresh
<1>1. IInv => InventoryIsFresh
  BY DEF IInv, FreshInv, InventoryIsFresh, FreshAfterSuccess
<1> QED BY <1>1, InvariantHolds, PTL

(* The credentials of a creation OfficePulse committed are displayed until *)
(* they are dismissed or left, or nobody was told of them: the answer was  *)
(* lost, the screen was left before it came, or the BFF had given up or    *)
(* could not read what OfficePulse answered.  The screen's lock and its    *)
(* `secret` guard keep a second creation from replacing them               *)
(* (ExtensionsScreen's submit), a failed audit from hiding them (reply).   *)
THEOREM SecretIsKept == Spec => []SecretKept
<1>1. IInv => SecretKept
  <2> SUFFICES ASSUME IInv, NEW i \in Ops, ops[i].kind = "create", ops[i].upstream = "done",
                      ops[i].phase \in {"refreshing", "done"}
               PROVE  \/ secret = i
                      \/ ops[i].disclosed \in {"gone", "lost"}
                      \/ ops[i].disclosed = "no" /\ ~ops[i].live
                      \/ ops[i].answer \in {"retryable", "unconfirmed"} /\ ~ops[i].confirmed
    BY DEF SecretKept
  <2>1. ops[i] \in Op
    BY Basics DEF IInv
  <2>2. /\ ops[i].answer \in {"ok", "retryable", "unconfirmed"}
        /\ ops[i].answer # "ok" => ~ops[i].confirmed
    BY <2>1 DEF IInv, OpInv, Op
  <2>3. CASE ops[i].live
    BY <2>2, <2>3 DEF IInv, ShownInv
  <2>4. CASE ~ops[i].live
    BY <2>1, <2>4 DEF IInv, OpInv, Op
  <2> QED BY <2>3, <2>4
<1> QED BY <1>1, InvariantHolds, PTL

(* The rows at rest are those of the context selected; a deletion made     *)
(* while a context is selected acts in the context of its row; and         *)
(* OfficePulse acts in contexts the tenant had between the click and the   *)
(* BFF's check.  Lists may change in any way, the primary context          *)
(* included (resolveTenantPbxScope, usePbxInventory).                      *)
THEOREM RightContextHolds == Spec => []RightContext
<1>1. IInv => RightContext
  <2>1. IInv => DeletesShownRow
    BY DEF IInv, NameInv, OpInv, DeletesShownRow
  <2>2. IInv => OnlyOwnContexts
    BY DEF IInv, OpInv, OnlyOwnContexts
  <2> QED BY <2>1, <2>2 DEF IInv, RightContext
<1> QED BY <1>1, InvariantHolds, PTL

(* Credentials once dismissed, or left with their screen, never come back: *)
(* only the answer of their own creation displays them, and it is answered *)
(* once.                                                                   *)
THEOREM SecretGoneForGoodHolds == Spec => SecretGoneForGood
<1> DEFINE Gone == \A i \in Ops : ops[i].disclosed = "gone" =>
                     secret' # i /\ ops'[i].disclosed = "gone"
<1>1. ASSUME IInv, [Next]_vars
      PROVE  Gone
  <2>1. IInv'
    BY <1>1, NextInductive
  <2>2. ASSUME NEW i \in Ops, ops[i].disclosed = "gone"
        PROVE  i \in Ops' /\ ops'[i].disclosed = "gone"
    <3> USE <1>1, <2>2 DEF IInv
    <3>1. CASE UNCHANGED ops
      BY <3>1 DEF Ops
    <3>2. ASSUME NEW kind \in {"create", "delete"}, NEW e \in Extension,
                 data # None, Submitted(kind, e)
          PROVE  i \in Ops' /\ ops'[i].disclosed = "gone"
      BY <3>2, SubmittedEffect
    <3>3. CASE Dismiss
      BY <3>3, DismissEffect, Turned
    <3>4. CASE Leave
      BY <3>4, LeaveEffect
    <3>5. ASSUME NEW j \in Ops, OpStep(j)
          PROVE  i \in Ops' /\ ops'[i].disclosed = "gone"
      <4>1. PICK new \in Op : Turns(j, new) /\ OpAdvances(new, ops[j])
        BY <3>5, OpStepEffect
      <4> QED BY <4>1, Turned DEF OpAdvances
    <3>6. ASSUME NEW j \in Ops, Succeed(j)
          PROVE  i \in Ops' /\ ops'[i].disclosed = "gone"
      <4>1. PICK new \in Op : Turns(j, new) /\ new.disclosed = IF secret' = j THEN "shown" ELSE ops[j].disclosed
        BY <3>6, SucceedEffect
      <4>2. i # j
        BY <3>6 DEF Succeed, OpInv
      <4> QED BY <4>1, <4>2, Turned
    <3>7. ASSUME NEW r, Load(r)
          PROVE  i \in Ops' /\ ops'[i].disclosed = "gone"
      BY <3>7, LoadEffect
    <3>8. ASSUME NEW list \in Assignments, TenantEdit(list)
          PROVE  i \in Ops' /\ ops'[i].disclosed = "gone"
      BY <3>8, TenantEditEffect
    <3>9. ASSUME NEW r \in requests, List(r) PROVE UNCHANGED ops
      BY <3>9 DEF List
    <3>10. ASSUME NEW j \in Ops, AnswerLost(j)
           PROVE  i \in Ops' /\ ops'[i].disclosed = "gone"
      <4>1. i # j
        BY <3>10 DEF AnswerLost, OpInv
      <4> QED BY <3>10, <4>1, AnswerLostEffect
    <3> QED BY <3>1, <3>2, <3>3, <3>4, <3>5, <3>6, <3>7, <3>8, <3>9, <3>10
            DEF Next, vars, Select, Reload, OpenForm, Delete, Writable, CancelForm, Submit,
                BffStep, AnswerStep, OpStep, OtherChange, TypeOK
  <2> QED BY <2>1, <2>2 DEF IInv, SecretInv
<1>2. IInv /\ [Next]_vars => [Gone]_vars
  BY <1>1
<1> QED BY <1>2, InvariantHolds, PTL DEF Spec, SecretGoneForGood
=============================================================================

-------------------------- MODULE TenantConfigProofs --------------------------
(***************************************************************************)
(* What a single administrative writer guarantees, for any number of       *)
(* tenants, contexts, names and screens.                                   *)
(***************************************************************************)
EXTENDS TenantConfig, TLAPS

(* One save at a time. *)
OneAtATime ==
    SingleWriter => \A e, f \in Editor : request[e] # None /\ request[f] # None => e = f

(* What a save still has to do fits the form it was sent from.             *)
UpdateSteps == {"check", "revision", "unique", "write", "patch", "done"}
Fits(e) ==
    request[e] # None =>
        /\ form[e] # None /\ answer[e] = "none"
        /\ form[e].revision < MaxRevision
        /\ Creates(e) =>
             \/ request[e].step \in {"check", "post"} /\ request[e].tenant = None
             \/ request[e].step \in {"disable", "unique", "write", "done"}
                /\ request[e].tenant \in Tenant
        /\ ~Creates(e) =>
             /\ request[e].step \in UpdateSteps
             /\ request[e].tenant = form[e].tenant
             /\ form[e].revision >= 1
             /\ request[e].step \in {"unique", "write"} => ~request[e].wrote
        /\ request[e].step \in {"check", "post", "revision"} => ~request[e].wrote
RequestFitsForm == \A e \in Editor : Fits(e)

(* Only a tenant that Identity knows has a profile. *)
ProfileHasTenant == \A t \in Tenant : profile[t] # None => directory[t] # None

(* A form opened on a profile is older than it, or shows it. *)
Snapshot(e) ==
    form[e] # None /\ ~Creates(e) /\ form[e].revision >= 1 =>
        /\ profile[form[e].tenant] \in Profile
        /\ form[e].revision <= profile[form[e].tenant].revision
        /\ form[e].revision = profile[form[e].tenant].revision
             => profile[form[e].tenant].contexts = form[e].shown
FormIsSnapshot == \A e \in Editor : Snapshot(e)

(* What a save has found, and what it has written, still holds later on.   *)
Holds(e) ==
    request[e] # None =>
        /\ request[e].step \in {"post", "disable", "revision", "unique", "write"}
             => ~Claimed(request[e].tenant, request[e].contexts)
        /\ request[e].step \in {"unique", "write"} =>
             IF Creates(e)
             THEN profile[request[e].tenant] = None /\ directory[request[e].tenant] = request[e].name
             ELSE profile[request[e].tenant].revision = form[e].revision
        /\ request[e].step = "disable" => profile[request[e].tenant] = None
        /\ request[e].step \in {"patch", "done"}
             => profile[request[e].tenant].contexts = request[e].contexts
        /\ request[e].step = "done" => directory[request[e].tenant] = request[e].name
ChecksStillHold == \A e \in Editor : Holds(e)

IInv ==
    /\ TypeOK
    /\ OneAtATime
    /\ RequestFitsForm
    /\ SingleWriter => ProfileHasTenant /\ FormIsSnapshot /\ ChecksStillHold
                         /\ ContextsDisjoint

-----------------------------------------------------------------------------
(* The steps that only move a save on, or end it. *)
LEMMA AdvanceMoves ==
  ASSUME TypeOK, NEW e \in Editor, request[e] # None,
         NEW s \in {"check", "post", "disable", "revision", "unique", "write", "patch", "done"},
         Advance(e, s)
  PROVE  /\ request' \in [Editor -> Request \cup {None}]
         /\ request'[e].step = s /\ request'[e].tenant = request[e].tenant
         /\ request'[e].name = request[e].name
         /\ request'[e].contexts = request[e].contexts
         /\ request'[e].wrote = request[e].wrote
         /\ \A f \in Editor : f # e => request'[f] = request[f]
<1>1. request[e] \in Request
  BY DEF TypeOK
<1>2. request' = [request EXCEPT ![e] = [request[e] EXCEPT !.step = s]]
  BY DEF Advance
<1>3. [request[e] EXCEPT !.step = s] \in Request
  BY <1>1 DEF Request
<1>4. request'[e] = [request[e] EXCEPT !.step = s]
  BY <1>2 DEF TypeOK
<1>5. \A f \in Editor : f # e => request'[f] = request[f]
  BY <1>2 DEF TypeOK
<1>6. request' \in [Editor -> Request \cup {None}]
  BY <1>2, <1>3 DEF TypeOK
<1> QED BY <1>1, <1>4, <1>5, <1>6 DEF Request

LEMMA RefuseEnds ==
  ASSUME TypeOK, NEW e \in Editor, NEW r, Refuse(e, r)
  PROVE  /\ request' \in [Editor -> Request \cup {None}]
         /\ request'[e] = None
         /\ \A f \in Editor : f # e => request'[f] = request[f]
BY DEF TypeOK, Refuse

LEMMA AskStarts ==
  ASSUME TypeOK, NEW e \in Editor, NEW n \in Name, NEW c \in Contexts,
         form[e] # None, Ask(e, n, c)
  PROVE  /\ request' \in [Editor -> Request \cup {None}]
         /\ request'[e].step = "check" /\ request'[e].tenant = form[e].tenant
         /\ request'[e].contexts = c /\ ~request'[e].wrote
         /\ \A f \in Editor : f # e => request'[f] = request[f]
<1> DEFINE r == [step |-> "check", tenant |-> form[e].tenant,
                 name |-> n, contexts |-> c, wrote |-> FALSE]
<1>1. form[e] \in Form
  BY DEF TypeOK
<1>2. r \in Request
  BY <1>1 DEF Request, Form
<1>3. request' = [request EXCEPT ![e] = r]
  BY DEF Ask
<1> QED BY <1>2, <1>3 DEF TypeOK

LEMMA PostMoves ==
  ASSUME TypeOK, NEW e \in Editor, NEW t \in Tenant, PostTenant(e, t)
  PROVE  /\ request' \in [Editor -> Request \cup {None}]
         /\ request'[e].step = (IF Active[request[e].name] = request[e].name
                                THEN "unique" ELSE "disable")
         /\ request'[e].tenant = t
         /\ request'[e].name = request[e].name
         /\ request'[e].contexts = request[e].contexts
         /\ \A f \in Editor : f # e => request'[f] = request[f]
<1> DEFINE s == IF Active[request[e].name] = request[e].name THEN "unique" ELSE "disable"
           r == [request[e] EXCEPT !.step = s, !.tenant = t, !.wrote = TRUE]
<1>1. request[e] \in Request
  BY DEF TypeOK, PostTenant, Waiting
<1>2. r \in Request
  BY <1>1 DEF Request
<1>3. request' = [request EXCEPT ![e] = r]
  BY DEF PostTenant
<1>4. r.step = s /\ r.tenant = t /\ r.contexts = request[e].contexts
        /\ r.name = request[e].name
  BY <1>1 DEF Request
<1>5. request'[e] = r
  BY <1>3 DEF TypeOK
<1>6. \A f \in Editor : f # e => request'[f] = request[f]
  BY <1>3 DEF TypeOK
<1>7. request' \in [Editor -> Request \cup {None}]
  BY <1>2, <1>3 DEF TypeOK
<1> HIDE DEF r
<1> QED BY <1>4, <1>5, <1>6, <1>7

(* A write puts the contexts and the next revision in the tenant's row. *)
LEMMA WriteEffect ==
  ASSUME TypeOK, RequestFitsForm, NEW e \in Editor, Write(e)
  PROVE  /\ request' \in [Editor -> Request \cup {None}]
         /\ request'[e].step = IF Creates(e) THEN "done" ELSE "patch"
         /\ request'[e].tenant = request[e].tenant
         /\ request'[e].contexts = request[e].contexts
         /\ request'[e].name = request[e].name
         /\ \A f \in Editor : f # e => request'[f] = request[f]
         /\ request[e].tenant \in Tenant
         /\ profile' \in [Tenant -> Profile \cup {None}]
         /\ profile'[request[e].tenant] \in Profile
         /\ profile'[request[e].tenant].revision = NextRevision(e)
         /\ profile'[request[e].tenant].contexts = request[e].contexts
         /\ \A t \in Tenant : t # request[e].tenant => profile'[t] = profile[t]
<1> DEFINE r == [request[e] EXCEPT !.step = IF Creates(e) THEN "done" ELSE "patch",
                                   !.wrote = TRUE]
           p == [revision |-> NextRevision(e), contexts |-> request[e].contexts]
<1>1. request[e] \in Request /\ request[e] # None /\ request[e].step = "write"
  BY DEF TypeOK, Write, Waiting
<1>2. form[e] \in Form /\ form[e].revision \in 0..MaxRevision
  BY <1>1 DEF TypeOK, RequestFitsForm, Fits, Form
<1>3. request[e].tenant \in Tenant
  <2>1. CASE Creates(e)
    BY <1>1, <2>1 DEF RequestFitsForm, Fits
  <2>2. CASE ~Creates(e)
    BY <1>1, <1>2, <2>2 DEF RequestFitsForm, Fits, Creates, Form
  <2> QED BY <2>1, <2>2
<1>4. NextRevision(e) \in 1..MaxRevision
  BY <1>1, <1>2, BoundsAssumption DEF RequestFitsForm, Fits, NextRevision, Creates
<1>5. p \in Profile
  BY <1>1, <1>4 DEF Profile, Request
<1>6. r \in Request /\ r.step = (IF Creates(e) THEN "done" ELSE "patch")
        /\ r.tenant = request[e].tenant /\ r.contexts = request[e].contexts
        /\ r.name = request[e].name
  BY <1>1 DEF Request
<1>7. request' = [request EXCEPT ![e] = r]
  BY DEF Write
<1>8. profile' = [profile EXCEPT ![request[e].tenant] = p]
  BY DEF Write
<1>9. p.revision = NextRevision(e) /\ p.contexts = request[e].contexts
  OBVIOUS
<1> HIDE DEF r, p
<1>10. request'[e] = r
  BY <1>7 DEF TypeOK
<1>11. \A f \in Editor : f # e => request'[f] = request[f]
  BY <1>7 DEF TypeOK
<1>12. request' \in [Editor -> Request \cup {None}]
  BY <1>6, <1>7 DEF TypeOK
<1>13. profile'[request[e].tenant] = p
  BY <1>3, <1>8 DEF TypeOK
<1>14. \A t \in Tenant : t # request[e].tenant => profile'[t] = profile[t]
  BY <1>3, <1>8 DEF TypeOK
<1>15. profile' \in [Tenant -> Profile \cup {None}]
  BY <1>5, <1>8 DEF TypeOK
<1> QED BY <1>3, <1>5, <1>6, <1>9, <1>10, <1>11, <1>12, <1>13, <1>14, <1>15

-----------------------------------------------------------------------------
(* Every variable keeps its type in every step. *)
LEMMA TypeInductive == TypeOK /\ RequestFitsForm /\ [Next]_vars => TypeOK'
<1> SUFFICES ASSUME TypeOK, RequestFitsForm, [Next]_vars PROVE TypeOK'
  OBVIOUS
<1>1. ASSUME NEW t \in Tenant, NEW n \in Name, PlatformCreates(t, n) PROVE TypeOK'
  BY <1>1 DEF TypeOK, PlatformCreates
<1>2. ASSUME NEW e \in Editor, NEW t \in Tenant, Open(e, t) PROVE TypeOK'
  <2>1. form' \in [Editor -> Form \cup {None}]
    <3>1. CASE profile[t] = None
      <4> DEFINE g == [tenant |-> t, revision |-> 0, shown |-> None]
      <4>1. g \in Form
        BY BoundsAssumption DEF Form
      <4>2. form' = [form EXCEPT ![e] = g]
        BY <1>2, <3>1 DEF Open
      <4> QED BY <4>1, <4>2 DEF TypeOK
    <3>2. CASE profile[t] # None
      <4> DEFINE g == [tenant |-> t, revision |-> profile[t].revision,
                       shown |-> profile[t].contexts]
      <4>1. profile[t] \in Profile
        BY <3>2 DEF TypeOK
      <4>2. g \in Form
        BY <4>1, BoundsAssumption DEF Form, Profile
      <4>3. form' = [form EXCEPT ![e] = g]
        BY <1>2, <3>2 DEF Open
      <4> QED BY <4>2, <4>3 DEF TypeOK
    <3> QED BY <3>1, <3>2
  <2> QED BY <1>2, <2>1 DEF TypeOK, Open
<1>3. ASSUME NEW e \in Editor, OpenNew(e) PROVE TypeOK'
  <2> DEFINE g == [tenant |-> None, revision |-> 0, shown |-> None]
  <2>1. g \in Form
    BY BoundsAssumption DEF Form
  <2>2. form' = [form EXCEPT ![e] = g]
    BY <1>3 DEF OpenNew
  <2>3. form' \in [Editor -> Form \cup {None}]
    BY <2>1, <2>2 DEF TypeOK
  <2> QED BY <1>3, <2>3 DEF TypeOK, OpenNew
<1>4. ASSUME NEW e \in Editor, NEW n \in Name, NEW c \in Contexts, Submit(e, n, c)
      PROVE  TypeOK'
  <2>1. CASE Malformed(e)
    BY <1>4, <2>1 DEF TypeOK, Submit
  <2>2. CASE ~Malformed(e)
    <3>1. Ask(e, n, c) /\ form[e] # None
      BY <1>4, <2>2 DEF Submit
    <3>2. request' \in [Editor -> Request \cup {None}]
      BY <3>1, AskStarts
    <3> QED BY <1>4, <3>1, <3>2 DEF TypeOK, Submit, Ask
  <2> QED BY <2>1, <2>2
<1>5. ASSUME NEW e \in Editor, CheckContexts(e) \/ CheckRevision(e) \/ CheckUnique(e)
      PROVE  TypeOK'
  <2>1. request[e] # None /\ UNCHANGED <<directory, profile, form>>
    BY <1>5 DEF CheckContexts, CheckRevision, CheckUnique, Waiting
  <2>2. \/ Advance(e, "post") /\ UNCHANGED answer
        \/ Advance(e, "revision") /\ UNCHANGED answer
        \/ Advance(e, "unique") /\ UNCHANGED answer
        \/ Advance(e, "write") /\ UNCHANGED answer
        \/ Refuse(e, "duplicate") \/ Refuse(e, "not_found") \/ Refuse(e, "conflict")
    BY <1>5 DEF CheckContexts, CheckRevision, CheckUnique
  <2>3. request' \in [Editor -> Request \cup {None}]
    BY <2>1, <2>2, AdvanceMoves, RefuseEnds
  <2>4. answer' \in [Editor -> {"none", "ok", "validation", "duplicate", "conflict",
                                "not_found", "failed"}]
    BY <2>2 DEF TypeOK, Refuse
  <2> QED BY <2>1, <2>3, <2>4 DEF TypeOK
<1>6. ASSUME NEW e \in Editor, NEW t \in Tenant, PostTenant(e, t) PROVE TypeOK'
  <2>1. Active[request[e].name] \in Name
    BY <1>6, ActiveAssumption DEF TypeOK, PostTenant, Waiting, Request
  <2>2. request' \in [Editor -> Request \cup {None}]
    BY <1>6, PostMoves
  <2> QED BY <1>6, <2>1, <2>2 DEF TypeOK, PostTenant
<1>7. ASSUME NEW e \in Editor, Write(e) PROVE TypeOK'
  <2>1. /\ request' \in [Editor -> Request \cup {None}]
        /\ profile' \in [Tenant -> Profile \cup {None}]
    BY <1>7, WriteEffect
  <2> QED BY <1>7, <2>1 DEF TypeOK, Write
<1>8. ASSUME NEW e \in Editor, PatchDirectory(e) \/ DisableTenant(e) PROVE TypeOK'
  <2>1. request[e] # None /\ request[e].name \in Name
        /\ (Advance(e, "done") \/ Advance(e, "unique"))
    BY <1>8 DEF TypeOK, PatchDirectory, DisableTenant, Waiting, Request
  <2>2. request' \in [Editor -> Request \cup {None}]
    BY <2>1, AdvanceMoves
  <2> QED BY <1>8, <2>1, <2>2 DEF TypeOK, PatchDirectory, DisableTenant
<1>9. ASSUME NEW e \in Editor, Succeed(e) \/ Fail(e) PROVE TypeOK'
  <2>1. Refuse(e, "ok") \/ Refuse(e, "failed")
    BY <1>9 DEF Succeed, Fail
  <2>2. request' \in [Editor -> Request \cup {None}]
    BY <2>1, RefuseEnds
  <2>3. answer' \in [Editor -> {"none", "ok", "validation", "duplicate", "conflict",
                                "not_found", "failed"}]
    BY <2>1 DEF TypeOK, Refuse
  <2> QED BY <1>9, <2>2, <2>3 DEF TypeOK, Succeed, Fail
<1>10. ASSUME UNCHANGED vars PROVE TypeOK'
  BY <1>10 DEF TypeOK, vars
<1> QED BY <1>1, <1>2, <1>3, <1>4, <1>5, <1>6, <1>7, <1>8, <1>9, <1>10 DEF Next

-----------------------------------------------------------------------------
(* A step that ends a save and changes neither store keeps the invariant. *)
LEMMA EndKeeps ==
  ASSUME IInv, TypeOK', NEW e \in Editor, NEW r, Refuse(e, r),
         UNCHANGED <<directory, profile>>,
         form' = form \/ form' = [form EXCEPT ![e] = None]
  PROVE  IInv'
<1>1. request'[e] = None /\ \A f \in Editor : f # e => request'[f] = request[f]
  BY RefuseEnds DEF IInv
<1>2. /\ \A f \in Editor : f # e => form'[f] = form[f]
      /\ form'[e] = form[e] \/ form'[e] = None
  BY DEF IInv, TypeOK
<1>3. OneAtATime' /\ \A f \in Editor : f # e => answer'[f] = answer[f]
  BY <1>1 DEF IInv, OneAtATime, Refuse, TypeOK
<1>4. RequestFitsForm'
  BY <1>1, <1>2, <1>3 DEF IInv, RequestFitsForm, Fits, Creates
<1>5. SingleWriter => ProfileHasTenant'
  BY DEF IInv, ProfileHasTenant
<1>6. ASSUME SingleWriter PROVE FormIsSnapshot'
  BY <1>2, <1>6 DEF IInv, FormIsSnapshot, Snapshot, Creates
<1>7. ASSUME SingleWriter PROVE ChecksStillHold'
  BY <1>1, <1>2, <1>7 DEF IInv, ChecksStillHold, Holds, Creates, Claimed
<1>8. ASSUME SingleWriter PROVE ContextsDisjoint'
  BY <1>8 DEF IInv, ContextsDisjoint
<1> QED BY <1>3, <1>4, <1>5, <1>6, <1>7, <1>8 DEF IInv

(* So does a step that moves a save on, if the save's own parts hold.      *)
LEMMA MoveKeeps ==
  ASSUME IInv, TypeOK', NEW e \in Editor, request[e] # None,
         \A f \in Editor : f # e => request'[f] = request[f],
         UNCHANGED <<profile, form, answer>>, SingleWriter => ProfileHasTenant',
         \A t \in Tenant : t # request[e].tenant => directory'[t] = directory[t],
         Fits(e)', SingleWriter => Holds(e)'
  PROVE  IInv'
<1>1. OneAtATime'
  BY DEF IInv, OneAtATime
<1>2. RequestFitsForm'
  BY DEF IInv, RequestFitsForm, Fits, Creates
<1>3. ASSUME SingleWriter PROVE FormIsSnapshot'
  BY <1>3 DEF IInv, FormIsSnapshot, Snapshot, Creates
<1>4. ASSUME SingleWriter PROVE ChecksStillHold'
  <2>1. \A f \in Editor : f # e => request'[f] = None
    BY <1>4 DEF IInv, OneAtATime
  <2> QED BY <1>4, <2>1 DEF ChecksStillHold, Holds
<1>5. ASSUME SingleWriter PROVE ContextsDisjoint'
  BY <1>5 DEF IInv, ContextsDisjoint
<1> QED BY <1>1, <1>2, <1>3, <1>4, <1>5 DEF IInv

LEMMA WaitingRequest ==
  ASSUME TypeOK, NEW e \in Editor, NEW s, Waiting(e, s)
  PROVE  /\ request[e] # None /\ request[e] \in Request /\ request[e].step = s
         /\ form[e] # None => form[e] \in Form
BY DEF TypeOK, Waiting

(* Every step keeps the invariant. *)
LEMMA InvInductive == IInv /\ [Next]_vars => IInv'
<1> SUFFICES ASSUME IInv, [Next]_vars PROVE IInv'
  OBVIOUS
<1>0. TypeOK /\ TypeOK'
  BY TypeInductive DEF IInv
<1>1. ASSUME NEW t \in Tenant, NEW n \in Name, PlatformCreates(t, n) PROVE IInv'
  <2>1. /\ UNCHANGED <<profile, form, request, answer>>
        /\ directory[t] = None /\ directory'[t] # None
        /\ \A u \in Tenant : u # t => directory'[u] = directory[u]
    BY <1>0, <1>1, NoneAssumption DEF PlatformCreates, TypeOK
  <2>2. SingleWriter => ProfileHasTenant'
    BY <2>1 DEF IInv, ProfileHasTenant
  <2>3. OneAtATime' /\ RequestFitsForm'
    BY <2>1 DEF IInv, OneAtATime, RequestFitsForm, Fits, Creates
  <2>4. ASSUME SingleWriter PROVE FormIsSnapshot' /\ ContextsDisjoint'
    BY <2>1, <2>4 DEF IInv, FormIsSnapshot, Snapshot, Creates, ContextsDisjoint
  <2>5. ASSUME SingleWriter, NEW e \in Editor PROVE Holds(e)'
    <3>1. CASE request[e] = None
      BY <2>1, <3>1 DEF Holds
    <3>2. CASE request[e] # None
      <4>1. request[e].name # None
        BY <1>0, <3>2, NoneAssumption DEF TypeOK, Request
      <4>2. Holds(e) /\ Fits(e)
        BY <2>5 DEF IInv, ChecksStillHold, RequestFitsForm
      <4>3. ((request[e].step \in {"unique", "write"} /\ Creates(e)) \/ request[e].step = "done")
              => directory[request[e].tenant] # None
        BY <3>2, <4>1, <4>2 DEF Holds
      <4>4. ((request[e].step \in {"unique", "write"} /\ Creates(e)) \/ request[e].step = "done")
              => request[e].tenant \in Tenant
        BY <1>0, <3>2, <4>2 DEF Fits, Creates, TypeOK, Form
      <4>5. ((request[e].step \in {"unique", "write"} /\ Creates(e)) \/ request[e].step = "done")
              => directory'[request[e].tenant] = directory[request[e].tenant]
        BY <2>1, <4>3, <4>4
      <4> QED BY <2>1, <3>2, <4>2, <4>5 DEF Holds, Creates, Claimed
    <3> QED BY <3>1, <3>2
  <2>6. SingleWriter => ChecksStillHold'
    BY <2>5 DEF ChecksStillHold
  <2> QED BY <1>0, <2>2, <2>3, <2>4, <2>6 DEF IInv
<1>2. ASSUME NEW e \in Editor, OpenNew(e) \/ \E t \in Tenant : Open(e, t) PROVE IInv'
  <2>1. /\ UNCHANGED <<directory, profile, request>> /\ request[e] = None
        /\ \A f \in Editor : f # e => form'[f] = form[f] /\ answer'[f] = answer[f]
    BY <1>0, <1>2 DEF OpenNew, Open, TypeOK
  <2>2. OneAtATime' /\ (SingleWriter => ProfileHasTenant')
    BY <2>1 DEF IInv, OneAtATime, ProfileHasTenant
  <2>3. RequestFitsForm'
    BY <2>1 DEF IInv, RequestFitsForm, Fits, Creates
  <2>4. SingleWriter => ContextsDisjoint'
    BY <2>1 DEF IInv, ContextsDisjoint
  <2>5. SingleWriter => ChecksStillHold'
    BY <2>1 DEF IInv, ChecksStillHold, Holds, Creates, Claimed
  <2>6. Snapshot(e)'
    <3>1. CASE OpenNew(e)
      BY <1>0, <3>1 DEF OpenNew, Snapshot, Creates, TypeOK
    <3>2. ASSUME NEW t \in Tenant, Open(e, t) PROVE Snapshot(e)'
      <4>1. CASE profile[t] = None
        <5>1. form'[e] = [tenant |-> t, revision |-> 0, shown |-> None]
          BY <1>0, <3>2, <4>1 DEF Open, TypeOK
        <5> QED BY <5>1 DEF Snapshot
      <4>2. CASE profile[t] # None
        <5>1. form'[e] = [tenant |-> t, revision |-> profile[t].revision,
                          shown |-> profile[t].contexts]
          BY <1>0, <3>2, <4>2 DEF Open, TypeOK
        <5>2. profile[t] \in Profile /\ profile'[t] = profile[t] /\ profile[t].revision \in Int
          BY <1>0, <2>1, <4>2, BoundsAssumption DEF TypeOK, Profile
        <5> QED BY <5>1, <5>2 DEF Snapshot
      <4> QED BY <4>1, <4>2
    <3> QED BY <1>2, <3>1, <3>2
  <2>7. SingleWriter => FormIsSnapshot'
    BY <2>1, <2>6 DEF IInv, FormIsSnapshot, Snapshot, Creates
  <2> QED BY <1>0, <2>2, <2>3, <2>4, <2>5, <2>7 DEF IInv
<1>3. ASSUME NEW e \in Editor, NEW n \in Name, NEW c \in Contexts, Submit(e, n, c)
      PROVE  IInv'
  <2>1. /\ UNCHANGED <<directory, profile, form>> /\ request[e] = None
        /\ form[e] # None /\ form[e].revision < MaxRevision
        /\ SingleWriter => \A f \in Editor : request[f] = None
    BY <1>3 DEF Submit
  <2>2. SingleWriter => ProfileHasTenant'
    BY <2>1 DEF IInv, ProfileHasTenant
  <2>3. SingleWriter => FormIsSnapshot' /\ ContextsDisjoint'
    BY <2>1 DEF IInv, FormIsSnapshot, Snapshot, Creates, ContextsDisjoint
  <2>4. CASE Malformed(e)
    <3>1. UNCHANGED request
      BY <1>3, <2>4 DEF Submit
    <3>4. \A f \in Editor : f # e => answer'[f] = answer[f]
      BY <1>0, <1>3, <2>4 DEF Submit, TypeOK
    <3>2. OneAtATime' /\ RequestFitsForm'
      BY <2>1, <3>1, <3>4 DEF IInv, OneAtATime, RequestFitsForm, Fits, Creates
    <3>3. SingleWriter => ChecksStillHold'
      BY <2>1, <3>1 DEF IInv, ChecksStillHold, Holds, Creates, Claimed
    <3> QED BY <1>0, <2>2, <2>3, <3>2, <3>3 DEF IInv
  <2>5. CASE ~Malformed(e)
    <3>1. /\ request'[e].step = "check" /\ request'[e].tenant = form[e].tenant
          /\ ~request'[e].wrote
          /\ \A f \in Editor : f # e => request'[f] = request[f]
      BY <1>0, <1>3, <2>1, <2>5, AskStarts DEF Submit
    <3>7. answer'[e] = "none" /\ \A f \in Editor : f # e => answer'[f] = answer[f]
      BY <1>0, <1>3, <2>5 DEF Submit, Ask, TypeOK
    <3>2. OneAtATime'
      BY <2>1, <3>1 DEF IInv, OneAtATime
    <3>3. ~Creates(e) => form[e].revision >= 1
      BY <1>0, <2>1, <2>5, BoundsAssumption DEF Malformed, TypeOK, Form
    <3>4. Fits(e)'
      BY <2>1, <3>1, <3>3, <3>7 DEF Fits, Creates, UpdateSteps
    <3>5. RequestFitsForm'
      BY <2>1, <3>1, <3>4, <3>7 DEF IInv, RequestFitsForm, Fits, Creates
    <3>6. ASSUME SingleWriter PROVE ChecksStillHold'
      BY <2>1, <3>1, <3>6 DEF ChecksStillHold, Holds
    <3> QED BY <1>0, <2>2, <2>3, <3>2, <3>5, <3>6 DEF IInv
  <2> QED BY <2>4, <2>5
<1>4. ASSUME NEW e \in Editor, NEW r, Refuse(e, r), UNCHANGED <<directory, profile>>,
             form' = form \/ form' = [form EXCEPT ![e] = None]
      PROVE  IInv'
  BY <1>0, <1>4, EndKeeps
<1>5. ASSUME NEW e \in Editor, CheckContexts(e) PROVE IInv'
  <2>1. UNCHANGED <<directory, profile, form>> /\ Waiting(e, "check")
    BY <1>5 DEF CheckContexts
  <2>2. CASE Refuse(e, "duplicate") \/ Refuse(e, "not_found")
    BY <1>4, <2>1, <2>2
  <2>3. ASSUME NEW s \in {"post", "revision"}, Advance(e, s), UNCHANGED answer,
               ~Claimed(request[e].tenant, request[e].contexts),
               s = IF Creates(e) THEN "post" ELSE "revision"
        PROVE  IInv'
    <3>1. /\ request'[e].step = s /\ request'[e].tenant = request[e].tenant
          /\ request'[e].contexts = request[e].contexts
          /\ request'[e].wrote = request[e].wrote
          /\ \A f \in Editor : f # e => request'[f] = request[f]
      BY <1>0, <2>1, <2>3, WaitingRequest, AdvanceMoves
    <3>2. request[e] # None /\ request[e].step = "check" /\ Fits(e)
      BY <1>0, <2>1, WaitingRequest DEF IInv, RequestFitsForm
    <3>3. Fits(e)'
      BY <2>1, <2>3, <3>1, <3>2 DEF Fits, Creates, UpdateSteps
    <3>4. Holds(e)'
      BY <2>1, <2>3, <3>1 DEF Holds, Claimed
    <3>5. SingleWriter => ProfileHasTenant'
      BY <2>1 DEF IInv, ProfileHasTenant
    <3> QED BY <1>0, <2>1, <2>3, <3>1, <3>2, <3>3, <3>4, <3>5, MoveKeeps
  <2> QED BY <1>5, <2>2, <2>3 DEF CheckContexts
<1>6. ASSUME NEW e \in Editor, NEW t \in Tenant, PostTenant(e, t) PROVE IInv'
  <2>1. /\ UNCHANGED <<profile, form, answer>> /\ Waiting(e, "post") /\ directory[t] = None
        /\ directory' = [directory EXCEPT ![t] = Active[request[e].name]]
    BY <1>6 DEF PostTenant
  <2>2. /\ request'[e].step \in {"unique", "disable"} /\ request'[e].tenant = t
        /\ request'[e].step = "unique" => Active[request[e].name] = request[e].name
        /\ request'[e].name = request[e].name /\ request'[e].contexts = request[e].contexts
        /\ \A f \in Editor : f # e => request'[f] = request[f]
    BY <1>0, <1>6, PostMoves
  <2>3. request[e] # None /\ request[e].step = "post" /\ Fits(e)
        /\ Active[request[e].name] \in Name
    BY <1>0, <2>1, WaitingRequest, ActiveAssumption DEF IInv, RequestFitsForm, Request
  <2>4. Creates(e) /\ request[e].tenant = None
    BY <2>3 DEF Fits, UpdateSteps
  <2>5. directory'[t] = Active[request[e].name] /\ directory'[t] # None
        /\ \A u \in Tenant : u # t => directory'[u] = directory[u]
    BY <1>0, <2>1, <2>3, NoneAssumption DEF TypeOK
  <2>6. SingleWriter => profile[t] = None
    BY <2>1 DEF IInv, ProfileHasTenant
  <2>7. SingleWriter => ProfileHasTenant'
    BY <2>1, <2>5, <2>6 DEF IInv, ProfileHasTenant
  <2>8. Fits(e)'
    BY <2>1, <2>2, <2>3, <2>4 DEF Fits, Creates
  <2>9. ASSUME SingleWriter PROVE Holds(e)'
    <3>1. ~Claimed(None, request[e].contexts)
      BY <2>3, <2>4, <2>9 DEF IInv, ChecksStillHold, Holds
    <3>2. ~Claimed(t, request[e].contexts)'
      BY <2>1, <3>1, <2>2, NoneAssumption DEF Claimed
    <3>3. (~Claimed(request[e].tenant, request[e].contexts))'
      BY <2>1, <2>2, <3>1, NoneAssumption DEF Claimed
    <3>4. Creates(e)' /\ profile'[t] = None
      BY <2>1, <2>4, <2>6, <2>9 DEF Creates
    <3> QED BY <2>2, <2>5, <3>3, <3>4 DEF Holds
  <2>10. OneAtATime' /\ RequestFitsForm'
    BY <2>1, <2>2, <2>3, <2>8 DEF IInv, OneAtATime, RequestFitsForm, Fits, Creates
  <2>11. SingleWriter => FormIsSnapshot' /\ ContextsDisjoint'
    BY <2>1 DEF IInv, FormIsSnapshot, Snapshot, Creates, ContextsDisjoint
  <2>12. ASSUME SingleWriter PROVE ChecksStillHold'
    <3>1. \A f \in Editor : f # e => request'[f] = None
      BY <2>2, <2>3, <2>12 DEF IInv, OneAtATime
    <3> QED BY <2>9, <2>12, <3>1 DEF ChecksStillHold, Holds
  <2> QED BY <1>0, <2>7, <2>10, <2>11, <2>12 DEF IInv
<1>7. ASSUME NEW e \in Editor, CheckRevision(e) PROVE IInv'
  <2>1. UNCHANGED <<directory, profile, form>> /\ Waiting(e, "revision")
    BY <1>7 DEF CheckRevision
  <2>2. CASE Refuse(e, "conflict")
    BY <1>4, <2>1, <2>2
  <2>3. CASE profile[request[e].tenant].revision = form[e].revision /\ Advance(e, "unique")
               /\ UNCHANGED answer
    <3>1. /\ request'[e].step = "unique" /\ request'[e].tenant = request[e].tenant
          /\ request'[e].contexts = request[e].contexts
          /\ request'[e].wrote = request[e].wrote
          /\ \A f \in Editor : f # e => request'[f] = request[f]
      BY <1>0, <2>1, <2>3, WaitingRequest, AdvanceMoves
    <3>2. request[e] # None /\ request[e].step = "revision" /\ Fits(e)
      BY <1>0, <2>1, WaitingRequest DEF IInv, RequestFitsForm
    <3>3. Fits(e)' /\ ~Creates(e)
      <4>1. ~Creates(e)
        BY <3>2 DEF Fits
      <4>2. UNCHANGED answer
        BY <2>3
      <4> QED BY <2>1, <3>1, <3>2, <4>1, <4>2 DEF Fits, Creates, UpdateSteps
    <3>4. ASSUME SingleWriter PROVE Holds(e)'
      <4>1. ~Claimed(request[e].tenant, request[e].contexts)
        BY <3>2, <3>4 DEF IInv, ChecksStillHold, Holds
      <4> QED BY <2>1, <2>3, <3>1, <3>3, <4>1 DEF Holds, Claimed, Creates
    <3>5. SingleWriter => ProfileHasTenant'
      BY <2>1 DEF IInv, ProfileHasTenant
    <3> QED BY <1>0, <2>1, <2>3, <3>1, <3>2, <3>3, <3>4, <3>5, MoveKeeps
  <2> QED BY <1>7, <2>2, <2>3 DEF CheckRevision
<1>8. ASSUME NEW e \in Editor, CheckUnique(e) PROVE IInv'
  <2>1. UNCHANGED <<directory, profile, form>> /\ Waiting(e, "unique")
    BY <1>8 DEF CheckUnique
  <2>2. CASE Refuse(e, "duplicate")
    BY <1>4, <2>1, <2>2
  <2>3. CASE Advance(e, "write") /\ UNCHANGED answer
    <3>1. /\ request'[e].step = "write" /\ request'[e].tenant = request[e].tenant
          /\ request'[e].contexts = request[e].contexts
          /\ request'[e].name = request[e].name
          /\ request'[e].wrote = request[e].wrote
          /\ \A f \in Editor : f # e => request'[f] = request[f]
      BY <1>0, <2>1, <2>3, WaitingRequest, AdvanceMoves
    <3>2. request[e] # None /\ request[e].step = "unique" /\ Fits(e)
      BY <1>0, <2>1, WaitingRequest DEF IInv, RequestFitsForm
    <3>3. Fits(e)'
      <4>1. UNCHANGED answer
        BY <2>3
      <4> QED BY <2>1, <3>1, <3>2, <4>1 DEF Fits, Creates, UpdateSteps
    <3>4. ASSUME SingleWriter PROVE Holds(e)'
      <4>1. Holds(e)
        BY <3>4 DEF IInv, ChecksStillHold
      <4> QED BY <2>1, <3>1, <3>2, <4>1 DEF Holds, Claimed, Creates
    <3>5. SingleWriter => ProfileHasTenant'
      BY <2>1 DEF IInv, ProfileHasTenant
    <3> QED BY <1>0, <2>1, <2>3, <3>1, <3>2, <3>3, <3>4, <3>5, MoveKeeps
  <2> QED BY <1>8, <2>2, <2>3 DEF CheckUnique
<1>9. ASSUME NEW e \in Editor, Write(e) PROVE IInv'
  <2> DEFINE own == request[e].tenant
  <2>1. /\ UNCHANGED <<directory, form, answer>> /\ Waiting(e, "write")
    BY <1>9 DEF Write
  <2>2. /\ request'[e].step = IF Creates(e) THEN "done" ELSE "patch"
        /\ request'[e].tenant = own /\ request'[e].contexts = request[e].contexts
        /\ request'[e].name = request[e].name
        /\ \A f \in Editor : f # e => request'[f] = request[f]
    BY <1>0, <1>9, WriteEffect DEF IInv
  <2>3. /\ own \in Tenant /\ profile'[own] \in Profile
        /\ profile'[own].revision = NextRevision(e)
        /\ profile'[own].contexts = request[e].contexts
        /\ \A t \in Tenant : t # own => profile'[t] = profile[t]
    BY <1>0, <1>9, WriteEffect DEF IInv
  <2>4. request[e] # None /\ request[e].step = "write" /\ Fits(e) /\ request[e].name \in Name
    BY <1>0, <2>1, WaitingRequest DEF IInv, RequestFitsForm, Request
  <2>5. Fits(e)'
    BY <2>1, <2>2, <2>3, <2>4 DEF Fits, Creates, UpdateSteps
  <2>6. OneAtATime' /\ RequestFitsForm'
    BY <2>1, <2>2, <2>4, <2>5 DEF IInv, OneAtATime, RequestFitsForm, Fits, Creates
  <2>7. ASSUME SingleWriter
        PROVE  /\ ~Claimed(own, request[e].contexts)
               /\ IF Creates(e) THEN profile[own] = None /\ directory[own] = request[e].name
                  ELSE profile[own].revision = form[e].revision
    BY <2>4, <2>7 DEF IInv, ChecksStillHold, Holds
  <2>8. ASSUME SingleWriter, ~Creates(e) PROVE profile[own] \in Profile /\ directory[own] # None
    <3>1. profile[own] \in Profile
      BY <2>4, <2>8 DEF IInv, FormIsSnapshot, Snapshot, Fits
    <3> QED BY <2>3, <2>8, <3>1, NoneIsNoRow DEF IInv, ProfileHasTenant
  <2>9. ASSUME SingleWriter PROVE ProfileHasTenant'
    <3>1. directory[own] # None
      BY <2>4, <2>7, <2>8, <2>9, NoneAssumption
    <3> QED BY <2>1, <2>3, <2>9, <3>1 DEF IInv, ProfileHasTenant
  <2>10. ASSUME SingleWriter PROVE ContextsDisjoint'
    <3>1. \A t \in Tenant : t # own /\ profile[t] # None
            => Owned(profile[t].contexts) \cap Owned(request[e].contexts) = {}
      BY <2>7, <2>10 DEF Claimed
    <3>2. ASSUME NEW t \in Tenant, NEW u \in Tenant, t # u, profile'[t] # None, profile'[u] # None
          PROVE  Owned(profile'[t].contexts) \cap Owned(profile'[u].contexts) = {}
      <4>1. CASE t = own
        BY <2>3, <3>1, <3>2, <4>1
      <4>2. CASE u = own
        BY <2>3, <3>1, <3>2, <4>2
      <4>3. CASE t # own /\ u # own
        BY <2>3, <2>10, <3>2, <4>3 DEF IInv, ContextsDisjoint
      <4> QED BY <4>1, <4>2, <4>3
    <3> QED BY <3>2 DEF ContextsDisjoint, Owned
  <2>11. ASSUME SingleWriter PROVE ChecksStillHold'
    <3>1. \A f \in Editor : f # e => request'[f] = None
      BY <2>2, <2>4, <2>11 DEF IInv, OneAtATime
    <3>2. Creates(e) => directory'[own] = request'[e].name
      BY <2>1, <2>2, <2>7, <2>11
    <3>3. Holds(e)'
      BY <2>1, <2>2, <2>3, <3>2 DEF Holds
    <3> QED BY <3>1, <3>3 DEF ChecksStillHold, Holds
  <2>12. ASSUME SingleWriter, NEW f \in Editor PROVE Snapshot(f)'
    <3> SUFFICES ASSUME form[f] # None, ~Creates(f), form[f].revision >= 1
                 PROVE  /\ profile'[form[f].tenant] \in Profile
                        /\ form[f].revision <= profile'[form[f].tenant].revision
                        /\ form[f].revision = profile'[form[f].tenant].revision
                             => profile'[form[f].tenant].contexts = form[f].shown
      BY <2>1 DEF Snapshot, Creates
    <3>1. /\ profile[form[f].tenant] \in Profile
          /\ form[f].revision <= profile[form[f].tenant].revision
          /\ form[f].revision = profile[form[f].tenant].revision
               => profile[form[f].tenant].contexts = form[f].shown
      BY <2>12 DEF IInv, FormIsSnapshot, Snapshot
    <3>2. form[f].tenant \in Tenant /\ form[f].revision \in Int
      BY <1>0 DEF TypeOK, Form, Creates
    <3>3. CASE form[f].tenant # own
      BY <2>3, <3>1, <3>2, <3>3
    <3>4. CASE form[f].tenant = own
      <4>1. ~Creates(e)
        BY <2>7, <2>12, <3>1, <3>4, NoneIsNoRow
      <4>2. profile'[own].revision = profile[own].revision + 1
        BY <2>3, <2>7, <2>12, <4>1 DEF NextRevision
      <4>3. profile[own].revision \in Int
        BY <3>1, <3>4, BoundsAssumption DEF Profile
      <4> QED BY <2>3, <3>1, <3>2, <3>4, <4>2, <4>3
    <3> QED BY <3>3, <3>4
  <2>13. SingleWriter => FormIsSnapshot'
    BY <2>12 DEF FormIsSnapshot
  <2> QED BY <1>0, <2>6, <2>9, <2>10, <2>11, <2>13 DEF IInv
<1>10. ASSUME NEW e \in Editor, PatchDirectory(e) PROVE IInv'
  <2>1. /\ UNCHANGED <<profile, form, answer>> /\ Waiting(e, "patch") /\ Advance(e, "done")
        /\ directory' = [directory EXCEPT ![request[e].tenant] = request[e].name]
    BY <1>10 DEF PatchDirectory
  <2>2. /\ request'[e].step = "done" /\ request'[e].tenant = request[e].tenant
        /\ request'[e].contexts = request[e].contexts
        /\ request'[e].name = request[e].name
        /\ \A f \in Editor : f # e => request'[f] = request[f]
    BY <1>0, <2>1, WaitingRequest, AdvanceMoves
  <2>3. request[e] # None /\ request[e].step = "patch" /\ Fits(e) /\ request[e].name \in Name
    BY <1>0, <2>1, WaitingRequest DEF IInv, RequestFitsForm, Request
  <2>4. ~Creates(e) /\ request[e].tenant \in Tenant
    BY <1>0, <2>3 DEF Fits, Creates, TypeOK, Form
  <2>5. /\ directory'[request[e].tenant] = request[e].name
        /\ \A t \in Tenant : t # request[e].tenant => directory'[t] = directory[t]
    BY <1>0, <2>1, <2>4 DEF TypeOK
  <2>6. Fits(e)'
    BY <2>1, <2>2, <2>3, <2>4 DEF Fits, Creates, UpdateSteps
  <2>7. ASSUME SingleWriter PROVE Holds(e)'
    <3>1. profile[request[e].tenant].contexts = request[e].contexts
      BY <2>3, <2>7 DEF IInv, ChecksStillHold, Holds
    <3> QED BY <2>1, <2>2, <2>5, <3>1 DEF Holds
  <2>8. SingleWriter => ProfileHasTenant'
    BY <2>1, <2>3, <2>5, NoneAssumption DEF IInv, ProfileHasTenant
  <2> QED BY <1>0, <2>1, <2>2, <2>3, <2>5, <2>6, <2>7, <2>8, MoveKeeps
<1>13. ASSUME NEW e \in Editor, DisableTenant(e) PROVE IInv'
  <2>1. /\ UNCHANGED <<profile, form, answer>> /\ Waiting(e, "disable") /\ Advance(e, "unique")
        /\ directory' = [directory EXCEPT ![request[e].tenant] = request[e].name]
    BY <1>13 DEF DisableTenant
  <2>2. /\ request'[e].step = "unique" /\ request'[e].tenant = request[e].tenant
        /\ request'[e].contexts = request[e].contexts
        /\ request'[e].name = request[e].name
        /\ request'[e].wrote = request[e].wrote
        /\ \A f \in Editor : f # e => request'[f] = request[f]
    BY <1>0, <2>1, WaitingRequest, AdvanceMoves
  <2>3. request[e] # None /\ request[e].step = "disable" /\ Fits(e) /\ request[e].name \in Name
    BY <1>0, <2>1, WaitingRequest DEF IInv, RequestFitsForm, Request
  <2>4. Creates(e) /\ request[e].tenant \in Tenant
    BY <2>3 DEF Fits, UpdateSteps
  <2>5. /\ directory'[request[e].tenant] = request[e].name
        /\ \A t \in Tenant : t # request[e].tenant => directory'[t] = directory[t]
    BY <1>0, <2>1, <2>4 DEF TypeOK
  <2>6. Fits(e)'
    BY <2>1, <2>2, <2>3, <2>4 DEF Fits, Creates
  <2>7. ASSUME SingleWriter PROVE Holds(e)'
    <3>1. ~Claimed(request[e].tenant, request[e].contexts) /\ profile[request[e].tenant] = None
      BY <2>3, <2>7 DEF IInv, ChecksStillHold, Holds
    <3> QED BY <2>1, <2>2, <2>4, <2>5, <3>1 DEF Holds, Claimed, Creates
  <2>8. SingleWriter => ProfileHasTenant'
    BY <2>1, <2>3, <2>5, NoneAssumption DEF IInv, ProfileHasTenant
  <2> QED BY <1>0, <2>1, <2>2, <2>3, <2>5, <2>6, <2>7, <2>8, MoveKeeps
<1>11. ASSUME NEW e \in Editor, Succeed(e) \/ Fail(e) PROVE IInv'
  BY <1>4, <1>11 DEF Succeed, Fail
<1>12. ASSUME UNCHANGED vars PROVE IInv'
  BY <1>0, <1>12 DEF vars, IInv, OneAtATime, RequestFitsForm, Fits, ProfileHasTenant,
     FormIsSnapshot, Snapshot, ChecksStillHold, Holds, ContextsDisjoint, Creates, Claimed
<1> QED BY <1>1, <1>2, <1>3, <1>5, <1>6, <1>7, <1>8, <1>9, <1>10, <1>11, <1>12, <1>13 DEF Next

LEMMA InvInitially == Init => IInv
BY NoneIsNoRow DEF Init, IInv, TypeOK, OneAtATime, RequestFitsForm, Fits, ProfileHasTenant,
   FormIsSnapshot, Snapshot, ChecksStillHold, Holds, ContextsDisjoint

THEOREM Inductive == Spec => []IInv
BY InvInitially, InvInductive, PTL DEF Spec

-----------------------------------------------------------------------------
(* The directory, the rows, the forms, the saves and their answers keep    *)
(* their types, however many saves run at once.                            *)
THEOREM TypeCorrect == Spec => []TypeOK
<1>1. IInv => TypeOK
  BY DEF IInv
<1> QED BY Inductive, <1>1, PTL

(* With a single administrative writer no extension context, primary or    *)
(* additional, ever belongs to two tenants.                                *)
THEOREM SingleWriterKeepsContextsDisjoint ==
  SingleWriter => (Spec => []ContextsDisjoint)
<1> SUFFICES ASSUME SingleWriter PROVE Spec => []ContextsDisjoint
  OBVIOUS
<1>1. IInv => ContextsDisjoint
  BY DEF IInv
<1> QED BY Inductive, <1>1, PTL

(* With a single administrative writer a save never overwrites contexts    *)
(* other than those its form was opened with.                              *)
THEOREM SingleWriterLosesNoUpdate == SingleWriter => (Spec => NoLostUpdate)
<1> SUFFICES ASSUME SingleWriter PROVE Spec => NoLostUpdate
  OBVIOUS
<1>1. ASSUME IInv
      PROVE  \A e \in Editor : Waiting(e, "write") /\ ~Creates(e)
               => profile[form[e].tenant].contexts = form[e].shown
  <2> SUFFICES ASSUME NEW e \in Editor, Waiting(e, "write"), ~Creates(e)
               PROVE  profile[form[e].tenant].contexts = form[e].shown
    OBVIOUS
  <2>1. request[e] # None /\ request[e].step = "write"
    BY DEF Waiting
  <2>2. Fits(e) /\ Holds(e) /\ Snapshot(e)
    BY <1>1 DEF IInv, RequestFitsForm, ChecksStillHold, FormIsSnapshot
  <2> QED BY <2>1, <2>2 DEF Fits, Holds, Snapshot
<1>2. IInv => \A e \in Editor :
         Waiting(e, "write") /\ ~Creates(e) /\ profile'[form[e].tenant] # profile[form[e].tenant]
            => profile[form[e].tenant].contexts = form[e].shown
  BY <1>1
<1> QED BY Inductive, <1>2, PTL DEF NoLostUpdate

(* With a single administrative writer a refused save has changed neither  *)
(* Identity nor NocoDB.                                                    *)
THEOREM SingleWriterRefusesCleanly == SingleWriter => (Spec => RefusedChangesNothing)
<1> SUFFICES ASSUME SingleWriter PROVE Spec => RefusedChangesNothing
  OBVIOUS
<1> DEFINE Refusals == {"duplicate", "conflict", "not_found"}
           Clean == \A e \in Editor : request[e] # None /\ answer'[e] \in Refusals
                      => ~request[e].wrote
<1>1. ASSUME IInv, [Next]_vars, NEW e \in Editor, request[e] # None, answer'[e] \in Refusals
      PROVE  ~request[e].wrote
  <2>1. TypeOK /\ Fits(e) /\ Holds(e)
    BY <1>1 DEF IInv, RequestFitsForm, ChecksStillHold
  <2>2. answer'[e] # answer[e]
    BY <1>1, <2>1 DEF Fits
  <2>3. PICK f \in Editor : \/ CheckContexts(f) \/ CheckRevision(f) \/ CheckUnique(f)
                            \/ OpenNew(f) \/ (\E t \in Tenant : Open(f, t))
                            \/ Succeed(f) \/ Fail(f)
                            \/ \E n \in Name, c \in Contexts : Submit(f, n, c)
    BY <1>1, <2>2 DEF Next, vars, PlatformCreates, PostTenant, DisableTenant, Write,
       PatchDirectory
  <2>4. f = e
    BY <2>1, <2>2, <2>3 DEF TypeOK, CheckContexts, CheckRevision, CheckUnique, OpenNew, Open,
       Succeed, Fail, Submit, Ask, Refuse
  <2>5. CheckContexts(e) \/ CheckRevision(e) \/ CheckUnique(e)
    BY <1>1, <2>1, <2>3, <2>4 DEF TypeOK, OpenNew, Open, Succeed, Fail, Submit, Ask, Refuse
  <2>6. CASE CheckContexts(e) \/ CheckRevision(e)
    <3>1. request[e].step \in {"check", "revision"}
      BY <2>6 DEF CheckContexts, CheckRevision, Waiting
    <3> QED BY <1>1, <2>1, <3>1 DEF Fits
  <2>7. CASE CheckUnique(e)
    <3>1. request[e].step = "unique" /\ Refuse(e, "duplicate")
      BY <2>2, <2>7 DEF CheckUnique, Waiting
    <3>2. PICK t \in Tenant :
            /\ t # request[e].tenant /\ profile[t] # None
            /\ profile[t].contexts.primary = request[e].contexts.primary
      BY <2>2, <2>7 DEF CheckUnique
    <3>3. Claimed(request[e].tenant, request[e].contexts)
      BY <3>2 DEF Claimed, Owned
    <3> QED BY <1>1, <2>1, <3>1, <3>3 DEF Holds
  <2> QED BY <2>5, <2>6, <2>7
<1>2. IInv /\ [Next]_vars => Clean
  BY <1>1
<1>3. Spec => [][Clean]_vars
  BY Inductive, <1>2, PTL DEF Spec
<1> QED BY <1>3 DEF RefusedChangesNothing

(* With a single administrative writer a save answered with success is in  *)
(* both stores when it is answered.                                        *)
THEOREM SingleWriterSavesInBothStores == SingleWriter => (Spec => SavedInBothStores)
<1> SUFFICES ASSUME SingleWriter PROVE Spec => SavedInBothStores
  OBVIOUS
<1> DEFINE Saved == \A e \in Editor : request[e] # None /\ answer'[e] = "ok"
              => /\ directory'[request[e].tenant] = request[e].name
                 /\ profile'[request[e].tenant].contexts = request[e].contexts
<1>1. ASSUME IInv, [Next]_vars, NEW e \in Editor, request[e] # None, answer'[e] = "ok"
      PROVE  /\ directory'[request[e].tenant] = request[e].name
             /\ profile'[request[e].tenant].contexts = request[e].contexts
  <2>1. TypeOK /\ Fits(e) /\ Holds(e)
    BY <1>1 DEF IInv, RequestFitsForm, ChecksStillHold
  <2>2. answer'[e] # answer[e]
    BY <1>1, <2>1 DEF Fits
  <2>3. PICK f \in Editor : \/ CheckContexts(f) \/ CheckRevision(f) \/ CheckUnique(f)
                            \/ OpenNew(f) \/ (\E t \in Tenant : Open(f, t))
                            \/ Succeed(f) \/ Fail(f)
                            \/ \E n \in Name, c \in Contexts : Submit(f, n, c)
    BY <1>1, <2>2 DEF Next, vars, PlatformCreates, PostTenant, DisableTenant, Write,
       PatchDirectory
  <2>4. f = e
    BY <2>1, <2>2, <2>3 DEF TypeOK, CheckContexts, CheckRevision, CheckUnique, OpenNew, Open,
       Succeed, Fail, Submit, Ask, Refuse
  <2>5. Succeed(e)
    <3>1. ~CheckContexts(e) /\ ~CheckRevision(e) /\ ~CheckUnique(e) /\ ~Fail(e)
      BY <1>1, <2>1, <2>2 DEF TypeOK, CheckContexts, CheckRevision, CheckUnique, Fail, Refuse
    <3>2. ~OpenNew(e) /\ (\A t \in Tenant : ~Open(e, t))
            /\ \A n \in Name, c \in Contexts : ~Submit(e, n, c)
      BY <1>1 DEF OpenNew, Open, Submit
    <3> QED BY <2>3, <2>4, <3>1, <3>2
  <2>6. request[e].step = "done" /\ UNCHANGED <<directory, profile>>
    BY <2>5 DEF Succeed, Waiting
  <2> QED BY <1>1, <2>1, <2>6 DEF Holds
<1>2. IInv /\ [Next]_vars => Saved
  BY <1>1
<1>3. Spec => [][Saved]_vars
  BY Inductive, <1>2, PTL DEF Spec
<1> QED BY <1>3 DEF SavedInBothStores
=============================================================================

------------------------ MODULE ProfileRoutingProofs ------------------------
(***************************************************************************)
(* The safety of the screens of numbers, routes, assistant profiles,       *)
(* assignments and appearance, for any number of tabs, tenants, contexts,  *)
(* numbers, settings, requests and turns.                                  *)
(***************************************************************************)
EXTENDS ProfileRouting, SequenceTheorems, WellFoundedInduction, TLAPS

(* Where a request of each kind may be before its answer, and after.       *)
Ends == {"ok", "refused", "done", "lost"}
Path(op) ==
    CASE op = "number"   -> {"save"}
      [] op = "route"    -> {"scope", "number", "route", "put"}
      [] op = "assign"   -> {"scope", "number", "profile", "find", "get", "unique", "insert", "patch"}
      [] op = "unassign" -> {"get", "delete"}
      [] op = "create"   -> {"insert"}
      [] op = "edit"     -> {"get", "patch"}
      [] op = "brand"    -> {"find", "get", "insert", "patch"}
      [] op = "logo"     -> {"peek", "find", "get", "insert", "patch"}

Ops == {"number", "route", "assign", "unassign", "create", "edit", "brand", "logo"}
Stages == {"save", "scope", "number", "route", "put", "profile", "find", "get", "unique",
           "insert", "patch", "delete", "peek"} \cup Ends
Requests ==
    [op: Ops, stage: Stages, tab: Tab, tenant: Tenant, mounted: BOOLEAN, during: SUBSET Nat,
     did: Did \cup {None}, enabled: BOOLEAN, version: Nat, base: Numbered \cup {None},
     set: Setting \cup {None}, scope: Context \cup {None}, key: BoundKeys \cup {None},
     value: Nat \cup {None} \cup Profile \cup Look, id: Nat \cup {None}, revision: Nat]

(* What a request carries at each stage, given its place among them.       *)
CallFits(i) ==
    LET c == calls[i] IN
    /\ c.stage \in Path(c.op) \cup Ends
    /\ c.op \in {"number", "route"} => c.did \in Did
    /\ c.op = "number" => c.version = IF c.base = None THEN 0 ELSE c.base.version
    /\ c.op = "route" /\ c.stage \in {"number", "route", "put"} => c.scope \in Context
    /\ c.op = "assign" =>
         /\ c.key \in BoundKeys /\ c.value \in DOMAIN profiles
         /\ c.stage \in {"get", "patch"} => c.id \in DOMAIN assignments
         /\ c.stage = "unique" => c.id \in DOMAIN assignments \cup {None}
         /\ c.stage \in {"scope", "number", "profile", "find", "insert"} => c.id = None
    /\ c.op \in {"create", "edit"} => c.key = None /\ c.value \in Profile
    /\ c.op = "edit" => c.id \in DOMAIN profiles
    /\ c.op \in {"brand", "logo"} =>
         /\ c.key = None /\ c.value \in Look
         /\ c.stage \in {"get", "patch"} =>
              c.id \in DOMAIN appearance /\ appearance[c.id].tenant = c.tenant
    /\ c.op = "logo" => c.value.logo = i

(* A request that is open was open when each later one was sent.           *)
DuringFits ==
    \A j \in DOMAIN calls :
        /\ calls[j].during \subseteq 1..(j - 1)
        /\ \A i \in 1..(j - 1) : i \in Open => i \in calls[j].during

CallsFit ==
    /\ calls \in Seq(Requests) /\ Len(calls) <= MaxCalls
    /\ \A i \in DOMAIN calls : CallFits(i)

TablesFit ==
    /\ profiles \in Seq(RowOf({None}, Profile))
    /\ assignments \in Seq(RowOf(Keys, DOMAIN profiles) \cup {None})
    /\ appearance \in Seq(RowOf({None}, Look))

(* A number as a list, a form or a request has it: as it is, or older.     *)
CopyOf(d, x) ==
    \/ x = None
    \/ /\ x \in Numbered /\ numbers[d] # None /\ x.version <= numbers[d].version
       /\ x.version = numbers[d].version => x = numbers[d]

Hook(h) == DOMAIN h = {"data", "error", "loading"}

ListsNumbers(h) ==
    /\ Hook(h)
    /\ h.data # None =>
         DOMAIN h.data \subseteq Did /\ \A d \in DOMAIN h.data : CopyOf(d, h.data[d])
EditsNumber(form) == form # None => form.did \in Did /\ CopyOf(form.did, form.base)

NumbersFit ==
    /\ numbers \in [Did -> Numbered \cup {None}]
    /\ DOMAIN identity = Tab /\ DOMAIN numberForm = Tab
    /\ \A t \in Tab : ListsNumbers(identity[t]) /\ EditsNumber(numberForm[t])

BasesFit == \A i \in DOMAIN calls : calls[i].op = "number" => CopyOf(calls[i].did, calls[i].base)

RoutesFit ==
    /\ routes \in [Did -> Unmanaged \cup Managed] /\ contexts \in [Tenant -> Seq(Context)]
    /\ DOMAIN routing = Tab /\ draft \in [Tab -> [Did -> Drafted]]
    /\ \A t \in Tab : Hook(routing[t])
    /\ DraftOfShownRoute

ListsRows(h) == Hook(h) /\ (h.data # None => DOMAIN h.data.rows \subseteq Nat)
ListsProfiles(l) ==
    /\ Hook(l)
    /\ l.data # None =>
         DOMAIN l.data \subseteq DOMAIN profiles /\ \A p \in DOMAIN l.data : l.data[p] \in Nat
EditsProfile(form) == form # None => form.id \in DOMAIN profiles /\ form.revision \in Nat

ScreensFit ==
    /\ place \in [Tab -> [tenant: Tenant, page: {"profiles", "numbers", "appearance", "elsewhere"}]]
    /\ DOMAIN inventory = Tab /\ DOMAIN list = Tab /\ DOMAIN editing = Tab
    /\ \A t \in Tab :
         ListsRows(inventory[t]) /\ ListsProfiles(list[t]) /\ EditsProfile(editing[t])

(* The writer of a row and request i were under way together.              *)
UnderWay(i, by) == by \in DOMAIN calls /\ Overlap(i, by)

(* A request about to write a route, a profile or a new row has seen what  *)
(* it overwrites, or what was written since was written meanwhile.         *)
RouteSeen(i) ==
    calls[i].stage = "put" =>
        \/ Listed(calls[i].did, calls[i].scope) # Manual
        \/ \E j \in DOMAIN calls \ {i} :
                calls[j].op = "route" /\ calls[j].did = calls[i].did /\ Overlap(i, j)

ProfileSeen(i) ==
    calls[i].op = "edit" /\ calls[i].stage = "patch" =>
        \/ profiles[calls[i].id].revision = calls[i].revision
        \/ UnderWay(i, profiles[calls[i].id].by)

KeySeen(i) ==
    calls[i].op = "assign" /\ calls[i].stage \in {"unique", "insert"} /\ calls[i].id = None =>
        \A k \in Ids(assignments) :
            assignments[k].key = StoredKey(calls[i]) => UnderWay(i, assignments[k].by)

LookSeen(i) ==
    calls[i].op \in {"brand", "logo"} /\ calls[i].stage = "insert" =>
        \A k \in DOMAIN appearance :
            appearance[k].tenant = calls[i].tenant => UnderWay(i, appearance[k].by)

(* The brand an upload carries is that of the record it will save, unless  *)
(* another save was under way with it; while it looks for the record, that *)
(* is the first one.                                                       *)
Looks(tenant) == {k \in DOMAIN appearance : appearance[k].tenant = tenant}
BrandIs(i, k) ==
    appearance[k].value.brand = calls[i].value.brand \/ UnderWay(i, appearance[k].by)

BrandSeen(i) ==
    calls[i].op = "logo" =>
        /\ calls[i].stage = "find" =>
             \A k \in Looks(calls[i].tenant) :
                BrandIs(i, k) \/ \E l \in Looks(calls[i].tenant) : l < k
        /\ calls[i].stage \in {"get", "patch"} => BrandIs(i, calls[i].id)

(* An upload that no other save of the tenant's appearance overlaps, and   *)
(* that no other upload follows, writes the row that is shown.             *)
Rivals(i) == {j \in DOMAIN calls \ {i} :
                calls[j].op \in {"brand", "logo"} /\ calls[j].tenant = calls[i].tenant}
Quiet(i) == \A j \in Rivals(i) : ~Overlap(i, j) /\ (calls[j].op = "logo" => j < i)

LogoPlaced(i) ==
    calls[i].op = "logo" /\ Quiet(i) =>
        LET looks == Looks(calls[i].tenant) IN
        /\ calls[i].stage = "insert" => looks = {}
        /\ calls[i].stage \in {"get", "patch"} => looks # {} /\ calls[i].id = First(looks)
        /\ calls[i].stage \in {"ok", "done"} =>
             looks # {} /\ appearance[First(looks)].value.logo = i

CallSeen(i) ==
    /\ RouteSeen(i) /\ ProfileSeen(i) /\ KeySeen(i) /\ LookSeen(i) /\ BrandSeen(i)
    /\ LogoPlaced(i)

CoreInv ==
    /\ CallsFit /\ DuringFits /\ TablesFit /\ BasesFit
    /\ \A i \in DOMAIN calls : CallSeen(i)

IInv == CoreInv /\ NumbersFit /\ RoutesFit /\ ScreensFit
-----------------------------------------------------------------------------
(* The first of a set of rows.                                             *)
Less == {ss \in Nat \X Nat : ss[1] < ss[2]}

LEMMA LessIsWellFounded == IsWellFoundedOn(Less, Nat)
BY NatLessThanWellFounded DEF OpToRel, Less

LEMMA FirstFacts ==
  ASSUME NEW S \in SUBSET Nat, S # {}
  PROVE  First(S) \in S /\ \A j \in S : First(S) <= j
<1>1. PICK x \in S : \A y \in S : ~(<<y, x>> \in Less)
  BY LessIsWellFounded, WFMin
<1>2. \A y \in S : x <= y
  <2>1. \A y \in S : ~(y < x)
    BY <1>1 DEF Less
  <2> QED BY <2>1
<1>3. \E y \in S : \A j \in S : y <= j
  BY <1>2
<1> QED BY <1>3 DEF First

LEMMA FirstIs ==
  ASSUME NEW S \in SUBSET Nat, NEW x \in S, \A y \in S : x <= y
  PROVE  First(S) = x
<1>1. First(S) \in S /\ First(S) <= x
  BY FirstFacts
<1>2. x \in Nat /\ First(S) \in Nat /\ x <= First(S)
  BY <1>1
<1> QED BY <1>1, <1>2

LEMMA FirstOfOne ==
  ASSUME NEW S \in SUBSET Nat, NEW x
  PROVE  First(S \cap {x}) = IF x \in S THEN x ELSE None
<1>1. CASE x \in S
  <2>1. S \cap {x} \in SUBSET Nat /\ x \in S \cap {x} /\ \A y \in S \cap {x} : x <= y
    BY <1>1
  <2> QED BY <1>1, <2>1, FirstIs
<1>2. CASE x \notin S
  <2>1. S \cap {x} = {}
    BY <1>2
  <2> QED BY <1>2, <2>1 DEF First
<1> QED BY <1>1, <1>2

-----------------------------------------------------------------------------
(* A step leaves the requests as they were sent.                           *)
Fixed(i) ==
    /\ calls'[i].op = calls[i].op /\ calls'[i].tab = calls[i].tab
    /\ calls'[i].tenant = calls[i].tenant /\ calls'[i].during = calls[i].during
    /\ calls'[i].did = calls[i].did /\ calls'[i].version = calls[i].version
    /\ calls'[i].base = calls[i].base /\ calls'[i].set = calls[i].set
    /\ calls'[i].key = calls[i].key
Grows == DOMAIN calls \subseteq DOMAIN calls' /\ \A i \in DOMAIN calls : Fixed(i)

(* A request does not move.                                                *)
Rests(i) ==
    /\ calls'[i].stage = calls[i].stage /\ calls'[i].scope = calls[i].scope
    /\ calls'[i].value = calls[i].value /\ calls'[i].id = calls[i].id
    /\ calls'[i].revision = calls[i].revision

LEMMA OverlapStays ==
  ASSUME Grows, NEW i \in DOMAIN calls, NEW j \in DOMAIN calls
  PROVE  /\ Overlap(i, j)' <=> Overlap(i, j)
         /\ UnderWay(i, j) => UnderWay(i, j)'
BY DEF Grows, Fixed, Overlap, UnderWay

LEMMA QuietBefore ==
  ASSUME Grows, NEW i \in DOMAIN calls, Quiet(i)'
  PROVE  Quiet(i)
<1> SUFFICES ASSUME NEW j \in Rivals(i)
             PROVE  ~Overlap(i, j) /\ (calls[j].op = "logo" => j < i)
  BY DEF Quiet
<1>1. j \in DOMAIN calls /\ j \in Rivals(i)'
  BY DEF Rivals, Grows, Fixed
<1>2. ~Overlap(i, j)' /\ (calls'[j].op = "logo" => j < i)
  BY <1>1 DEF Quiet
<1> QED BY <1>1, <1>2, OverlapStays DEF Grows, Fixed

LEMMA UnderWayStays ==
  ASSUME Grows, NEW i \in DOMAIN calls, NEW by, UnderWay(i, by)
  PROVE  UnderWay(i, by)'
BY OverlapStays DEF UnderWay

(* What a request that rests knows of rows is still so: each row is as it  *)
(* was, is gone, or was written by a request under way with it.            *)
Meanwhile(i, old, new) ==
    \A k \in DOMAIN new :
        new[k] = None \/ (k \in DOMAIN old /\ new[k] = old[k]) \/ UnderWay(i, new[k].by)

LEMMA RestFits ==
  ASSUME Grows, NEW i \in DOMAIN calls, Rests(i), CallFits(i),
         DOMAIN profiles \subseteq DOMAIN profiles',
         DOMAIN assignments \subseteq DOMAIN assignments',
         \A k \in DOMAIN appearance :
            k \in DOMAIN appearance' /\ appearance'[k].tenant = appearance[k].tenant
  PROVE  CallFits(i)'
BY DEF CallFits, Grows, Fixed, Rests

LEMMA RestSeesRoute ==
  ASSUME Grows, NEW i \in DOMAIN calls, Rests(i), RouteSeen(i), routes' = routes
  PROVE  RouteSeen(i)'
<1> USE DEF Grows, Fixed, Rests
<1> SUFFICES ASSUME calls[i].stage = "put", ~(Listed(calls[i].did, calls[i].scope) # Manual)
             PROVE  \E j \in DOMAIN calls' \ {i} :
                      calls'[j].op = "route" /\ calls'[j].did = calls'[i].did /\ Overlap(i, j)'
  BY DEF RouteSeen, Listed
<1>1. PICK j \in DOMAIN calls \ {i} :
        calls[j].op = "route" /\ calls[j].did = calls[i].did /\ Overlap(i, j)
  BY DEF RouteSeen
<1>2. Overlap(i, j)'
  BY <1>1, OverlapStays
<1> QED BY <1>1, <1>2

LEMMA RestSeesProfile ==
  ASSUME Grows, NEW i \in DOMAIN calls, Rests(i), CallFits(i), ProfileSeen(i),
         DOMAIN profiles \subseteq DOMAIN profiles', Meanwhile(i, profiles, profiles'),
         \A k \in DOMAIN profiles' : profiles'[k] # None
  PROVE  ProfileSeen(i)'
<1> USE DEF Grows, Fixed, Rests
<1> SUFFICES ASSUME calls[i].op = "edit", calls[i].stage = "patch"
             PROVE  \/ profiles'[calls[i].id].revision = calls[i].revision
                    \/ UnderWay(i, profiles[calls[i].id].by)'
  BY DEF ProfileSeen
<1>1. calls[i].id \in DOMAIN profiles
  BY DEF CallFits
<1>2. profiles'[calls[i].id] = profiles[calls[i].id] \/ UnderWay(i, profiles'[calls[i].id].by)
  BY <1>1 DEF Meanwhile
<1> QED BY <1>2, UnderWayStays DEF ProfileSeen

LEMMA RestSeesKey ==
  ASSUME Grows, NEW i \in DOMAIN calls, Rests(i), KeySeen(i),
         Meanwhile(i, assignments, assignments')
  PROVE  KeySeen(i)'
<1> USE DEF Grows, Fixed, Rests
<1> SUFFICES ASSUME calls[i].op = "assign", calls[i].stage \in {"unique", "insert"},
                    calls[i].id = None, NEW k \in DOMAIN assignments', assignments'[k] # None,
                    assignments'[k].key = StoredKey(calls[i])
             PROVE  UnderWay(i, assignments[k].by)'
  BY DEF KeySeen, StoredKey, Ids
<1>1. CASE k \in DOMAIN assignments /\ assignments'[k] = assignments[k]
  BY <1>1, UnderWayStays DEF KeySeen, Ids
<1>2. CASE UnderWay(i, assignments'[k].by)
  BY <1>2, UnderWayStays
<1> QED BY <1>1, <1>2 DEF Meanwhile

LEMMA RestSeesLook ==
  ASSUME Grows, NEW i \in DOMAIN calls, Rests(i), LookSeen(i),
         Meanwhile(i, appearance, appearance'),
         \A k \in DOMAIN appearance' : appearance'[k] # None
  PROVE  LookSeen(i)'
<1> USE DEF Grows, Fixed, Rests
<1> SUFFICES ASSUME calls[i].op \in {"brand", "logo"}, calls[i].stage = "insert",
                    NEW k \in DOMAIN appearance', appearance'[k].tenant = calls[i].tenant
             PROVE  UnderWay(i, appearance[k].by)'
  BY DEF LookSeen
<1>1. CASE k \in DOMAIN appearance /\ appearance'[k] = appearance[k]
  BY <1>1, UnderWayStays DEF LookSeen
<1>2. CASE UnderWay(i, appearance'[k].by)
  BY <1>2, UnderWayStays
<1> QED BY <1>1, <1>2 DEF Meanwhile

LEMMA RestSeesBrand ==
  ASSUME Grows, NEW i \in DOMAIN calls, Rests(i), CallFits(i), BrandSeen(i),
         Meanwhile(i, appearance, appearance'),
         \A k \in DOMAIN appearance' : appearance'[k] # None,
         \A k \in DOMAIN appearance :
            k \in DOMAIN appearance' /\ appearance'[k].tenant = appearance[k].tenant
  PROVE  BrandSeen(i)'
<1> USE DEF Grows, Fixed, Rests
<1> SUFFICES ASSUME calls[i].op = "logo"
             PROVE  BrandSeen(i)'
  BY DEF BrandSeen
<1>1. ASSUME NEW k \in DOMAIN appearance', UnderWay(i, appearance'[k].by)
      PROVE  BrandIs(i, k)'
  <2>1. UnderWay(i, appearance[k].by)'
    BY <1>1, UnderWayStays
  <2> QED BY <2>1 DEF BrandIs
<1>2. ASSUME NEW k \in DOMAIN appearance, appearance'[k] = appearance[k], BrandIs(i, k)
      PROVE  BrandIs(i, k)'
  <2>1. UnderWay(i, appearance[k].by) => UnderWay(i, appearance[k].by)'
    BY <1>2, UnderWayStays
  <2> QED BY <1>2, <2>1 DEF BrandIs
<1>3. \A k \in Looks(calls[i].tenant) : k \in Looks(calls[i].tenant)'
  BY DEF Looks
<1>4. ASSUME calls[i].stage = "find", NEW k \in Looks(calls[i].tenant)'
      PROVE  BrandIs(i, k)' \/ \E l \in Looks(calls[i].tenant)' : l < k
  <2>1. k \in DOMAIN appearance' /\ appearance'[k].tenant = calls[i].tenant
    BY DEF Looks
  <2>2. CASE k \in DOMAIN appearance /\ appearance'[k] = appearance[k]
    <3>1. k \in Looks(calls[i].tenant)
      BY <2>1, <2>2 DEF Looks
    <3>2. BrandIs(i, k) \/ \E l \in Looks(calls[i].tenant) : l < k
      BY <1>4, <3>1 DEF BrandSeen
    <3> QED BY <1>2, <1>3, <2>2, <3>2
  <2>3. CASE UnderWay(i, appearance'[k].by)
    BY <1>1, <2>1, <2>3
  <2> QED BY <2>1, <2>2, <2>3 DEF Meanwhile
<1>5. ASSUME calls[i].stage \in {"get", "patch"}
      PROVE  BrandIs(i, calls[i].id)'
  <2>1. calls[i].id \in DOMAIN appearance /\ calls[i].id \in DOMAIN appearance'
    BY <1>5 DEF CallFits
  <2>2. BrandIs(i, calls[i].id)
    BY <1>5 DEF BrandSeen
  <2> QED BY <1>1, <1>2, <2>1, <2>2 DEF Meanwhile
<1>6. calls'[i].id = calls[i].id /\ calls'[i].tenant = calls[i].tenant
      /\ calls'[i].stage = calls[i].stage
  OBVIOUS
<1> QED BY <1>4, <1>5, <1>6 DEF BrandSeen, BrandIs, Looks

LEMMA RestKeepsLogo ==
  ASSUME Grows, NEW i \in DOMAIN calls, Rests(i), LogoPlaced(i), appearance' = appearance
  PROVE  LogoPlaced(i)'
BY QuietBefore DEF LogoPlaced, Looks, Grows, Fixed, Rests

LEMMA RowsFit ==
  ASSUME NEW S, NEW table \in Seq(S)
  PROVE  /\ DOMAIN table = 1..Len(table) /\ Len(table) \in Nat
         /\ \A k \in DOMAIN table : table[k] \in S
OBVIOUS

LEMMA NothingMeanwhile == \A i, old : Meanwhile(i, old, old)
BY DEF Meanwhile

LEMMA NoRowIsNone ==
  ASSUME TablesFit
  PROVE  /\ \A k \in DOMAIN profiles : profiles[k] # None
         /\ \A k \in DOMAIN appearance : appearance[k] # None
<1>1. /\ \A k \in DOMAIN profiles : profiles[k] \in RowOf({None}, Profile)
      /\ \A k \in DOMAIN appearance : appearance[k] \in RowOf({None}, Look)
  BY RowsFit DEF TablesFit
<1> QED BY <1>1, NoneIsNoRecord

(* A request that rests while no record and no route changes.              *)
LEMMA RestKeeps ==
  ASSUME Grows, TablesFit, NEW i \in DOMAIN calls, Rests(i), UNCHANGED <<tables, routes>>,
         CallFits(i), CallSeen(i)
  PROVE  CallFits(i)' /\ CallSeen(i)'
<1>1. routes' = routes /\ profiles' = profiles /\ assignments' = assignments
        /\ appearance' = appearance
  BY DEF tables
<1>2. CallFits(i)'
  BY <1>1, RestFits
<1>3. RouteSeen(i)'
  BY <1>1, RestSeesRoute DEF CallSeen
<1>4. ProfileSeen(i)'
  BY <1>1, RestSeesProfile, NothingMeanwhile, NoRowIsNone DEF CallSeen
<1>5. KeySeen(i)'
  BY <1>1, RestSeesKey, NothingMeanwhile DEF CallSeen
<1>6. LookSeen(i)'
  BY <1>1, RestSeesLook, NothingMeanwhile, NoRowIsNone DEF CallSeen
<1>7. BrandSeen(i)'
  BY <1>1, RestSeesBrand, NothingMeanwhile, NoRowIsNone DEF CallSeen
<1>8. LogoPlaced(i)'
  BY <1>1, RestKeepsLogo DEF CallSeen
<1> QED BY <1>2, <1>3, <1>4, <1>5, <1>6, <1>7, <1>8 DEF CallSeen

-----------------------------------------------------------------------------
(* Two requests that are open were under way together.                     *)
LEMMA OpenOverlap ==
  ASSUME CallsFit, DuringFits, NEW i \in Open, NEW j \in Open, i # j
  PROVE  UnderWay(i, j)
<1>1. i \in 1..Len(calls) /\ j \in 1..Len(calls) /\ DOMAIN calls = 1..Len(calls)
      /\ Len(calls) \in Nat
  BY DEF CallsFit, Open
<1>2. CASE i < j
  <2>1. i \in 1..(j - 1)
    BY <1>1, <1>2
  <2> QED BY <1>1, <2>1 DEF DuringFits, UnderWay, Overlap
<1>3. CASE j < i
  <2>1. j \in 1..(i - 1)
    BY <1>1, <1>3
  <2> QED BY <1>1, <2>1 DEF DuringFits, UnderWay, Overlap
<1> QED BY <1>1, <1>2, <1>3

(* A new request is sent.                                                  *)
Sent(c) == Len(calls) < MaxCalls /\ calls' = Append(calls, c)

LEMMA SentGrows ==
  ASSUME CallsFit, NEW c, Sent(c)
  PROVE  /\ Grows /\ Len(calls') = Len(calls) + 1 /\ DOMAIN calls' = DOMAIN calls \cup {Len(calls) + 1}
         /\ calls'[Len(calls) + 1] = c
         /\ \A j \in DOMAIN calls : calls'[j] = calls[j] /\ Rests(j)
<1>1. Len(calls) \in Nat /\ DOMAIN calls = 1..Len(calls)
  BY DEF CallsFit
<1>2. Len(calls') = Len(calls) + 1 /\ calls'[Len(calls) + 1] = c
      /\ \A j \in 1..Len(calls) : calls'[j] = calls[j]
  BY AppendProperties DEF CallsFit, Sent
<1>3. DOMAIN calls' = 1..(Len(calls) + 1)
  BY AppendProperties DEF CallsFit, Sent
<1>4. DOMAIN calls' = DOMAIN calls \cup {Len(calls) + 1}
  BY <1>1, <1>3
<1> QED BY <1>1, <1>2, <1>4 DEF Grows, Fixed, Rests

LEMMA SentKeeps ==
  ASSUME CoreInv, NEW c \in Requests, Sent(c), c.during = Open, c.stage \notin Ends,
         UNCHANGED <<tables, routes, numbers>>, NEW n, n = Len(calls) + 1, CallFits(n)',
         c.op = "number" => CopyOf(c.did, c.base),
         c.op = "route" => c.stage # "put", c.op = "edit" => c.stage # "patch",
         c.op = "assign" => c.stage \notin {"unique", "insert"},
         c.op \in {"brand", "logo"} => c.stage \notin {"insert", "get", "patch"},
         c.op = "logo" => c.stage # "find"
  PROVE  CoreInv'
<1>1. /\ Grows /\ Len(calls') = n /\ DOMAIN calls' = DOMAIN calls \cup {n}
      /\ calls'[n] = c
      /\ \A j \in DOMAIN calls : calls'[j] = calls[j] /\ Rests(j)
  BY SentGrows DEF CoreInv
<1>2. Len(calls) \in Nat /\ Len(calls) < MaxCalls /\ MaxCalls \in Nat /\ DOMAIN calls = 1..Len(calls)
  BY NumberBounds DEF CoreInv, CallsFit, Sent
<1>3. calls' \in Seq(Requests)
  BY AppendProperties DEF CoreInv, CallsFit, Sent
<1>4. Len(calls') <= MaxCalls
  BY <1>1, <1>2
<1>5. \A j \in DOMAIN calls : CallFits(j)' /\ CallSeen(j)'
  BY <1>1, RestKeeps DEF CoreInv, CallsFit
<1>6. CallSeen(n)'
  <2>1. RouteSeen(n)' /\ ProfileSeen(n)' /\ KeySeen(n)' /\ LookSeen(n)' /\ BrandSeen(n)'
    <3>1. c.op = "number" => c.stage = "save"
      BY <1>1 DEF CallFits, Path, Ends
    <3>2. c.stage = "put" => c.op = "route"
      BY <1>1 DEF CallFits, Path, Ends, Requests, Ops
    <3> QED BY <1>1, <3>2 DEF RouteSeen, ProfileSeen, KeySeen, LookSeen, BrandSeen
  <2>2. LogoPlaced(n)'
    BY <1>1 DEF LogoPlaced, Ends
  <2> QED BY <2>1, <2>2 DEF CallSeen
<1>7. CallsFit'
  BY <1>1, <1>3, <1>4, <1>5 DEF CallsFit
<1>8. DuringFits'
  <2> SUFFICES ASSUME NEW j \in DOMAIN calls'
               PROVE  /\ calls'[j].during \subseteq 1..(j - 1)
                      /\ \A i \in 1..(j - 1) : i \in Open' => i \in calls'[j].during
    BY DEF DuringFits
  <2>1. \A i \in DOMAIN calls : i \in Open' <=> i \in Open
    BY <1>1 DEF Open
  <2>2. CASE j \in DOMAIN calls
    <3>1. \A i \in 1..(j - 1) : i \in DOMAIN calls
      BY <1>2, <2>2
    <3> QED BY <1>1, <2>1, <2>2, <3>1 DEF DuringFits, CoreInv
  <2>3. CASE j = n
    <3>1. 1..(j - 1) = DOMAIN calls
      BY <1>2, <2>3
    <3> QED BY <1>1, <2>1, <2>3, <3>1 DEF Open
  <2> QED BY <1>1, <2>2, <2>3
<1>9. TablesFit'
  BY DEF TablesFit, tables, CoreInv
<1>10. BasesFit'
  <2> SUFFICES ASSUME NEW j \in DOMAIN calls', calls'[j].op = "number"
               PROVE  CopyOf(calls[j].did, calls[j].base)'
    BY DEF BasesFit
  <2>1. CASE j \in DOMAIN calls
    BY <1>1, <2>1 DEF BasesFit, CoreInv, CopyOf
  <2>2. CASE j = n
    BY <1>1, <2>2 DEF CopyOf
  <2> QED BY <1>1, <2>1, <2>2
<1> QED BY <1>1, <1>5, <1>6, <1>7, <1>8, <1>9, <1>10 DEF CoreInv

-----------------------------------------------------------------------------
(* An open request takes a step.                                           *)
Moved(i, c) ==
    /\ i \in Open /\ calls' = [calls EXCEPT ![i] = c]
    /\ c.op = calls[i].op /\ c.tab = calls[i].tab /\ c.tenant = calls[i].tenant
    /\ c.during = calls[i].during /\ c.did = calls[i].did /\ c.version = calls[i].version
    /\ c.base = calls[i].base /\ c.set = calls[i].set /\ c.key = calls[i].key

LEMMA MovedGrows ==
  ASSUME CallsFit, DuringFits, NEW i, NEW c \in Requests, Moved(i, c)
  PROVE  /\ Grows /\ DOMAIN calls' = DOMAIN calls /\ Len(calls') = Len(calls)
         /\ i \in DOMAIN calls /\ calls'[i] = c /\ calls' \in Seq(Requests)
         /\ \A j \in DOMAIN calls \ {i} : calls'[j] = calls[j] /\ Rests(j)
         /\ DuringFits'
<1>1. i \in DOMAIN calls /\ DOMAIN calls = 1..Len(calls)
  BY DEF Moved, Open, CallsFit
<1>2. /\ DOMAIN calls' = DOMAIN calls /\ Len(calls') = Len(calls)
      /\ calls'[i] = c /\ calls' \in Seq(Requests)
      /\ \A j \in DOMAIN calls \ {i} : calls'[j] = calls[j]
  BY <1>1, ExceptSeq DEF Moved, CallsFit
<1>3. Grows /\ \A j \in DOMAIN calls \ {i} : Rests(j)
  BY <1>1, <1>2 DEF Grows, Fixed, Rests, Moved
<1>4. DuringFits'
  <2>1. \A j \in DOMAIN calls : j \in Open' => j \in Open
    BY <1>1, <1>2 DEF Moved, Open
  <2>2. \A j \in DOMAIN calls : calls'[j].during = calls[j].during
    BY <1>3 DEF Grows, Fixed
  <2>3. \A j \in DOMAIN calls : 1..(j - 1) \subseteq DOMAIN calls
    BY <1>1 DEF CallsFit
  <2> QED BY <1>2, <2>1, <2>2, <2>3 DEF DuringFits
<1> QED BY <1>1, <1>2, <1>3, <1>4

(* What was a copy of a number is one still.                               *)
CopiesStay == \A d \in Did : \A x : CopyOf(d, x) => CopyOf(d, x)'

LEMMA MovedKeeps ==
  ASSUME CoreInv, NEW i, NEW c \in Requests, Moved(i, c),
         UNCHANGED <<tables, routes>>, UNCHANGED numbers \/ CopiesStay,
         CallFits(i)', CallSeen(i)'
  PROVE  CoreInv'
<1>1. /\ Grows /\ DOMAIN calls' = DOMAIN calls /\ Len(calls') = Len(calls)
      /\ i \in DOMAIN calls /\ calls'[i] = c /\ calls' \in Seq(Requests)
      /\ \A j \in DOMAIN calls \ {i} : calls'[j] = calls[j] /\ Rests(j)
      /\ DuringFits'
  BY MovedGrows DEF CoreInv
<1>2. \A j \in DOMAIN calls : CallFits(j)' /\ CallSeen(j)'
  BY <1>1, RestKeeps DEF CoreInv, CallsFit
<1>3. TablesFit'
  BY DEF TablesFit, tables, CoreInv
<1>4. BasesFit'
  <2> SUFFICES ASSUME NEW j \in DOMAIN calls', calls'[j].op = "number"
               PROVE  CopyOf(calls[j].did, calls[j].base)'
    BY DEF BasesFit
  <2>1. /\ calls'[j].did = calls[j].did /\ calls'[j].base = calls[j].base
        /\ calls[j].did \in Did /\ CopyOf(calls[j].did, calls[j].base)
    BY <1>1 DEF BasesFit, CoreInv, Grows, Fixed, CallsFit, CallFits
  <2>2. CASE UNCHANGED numbers
    BY <2>1, <2>2 DEF CopyOf
  <2>3. CASE CopiesStay
    BY <2>1, <2>3 DEF CopiesStay, CopyOf
  <2> QED BY <2>2, <2>3
<1>5. CallsFit'
  BY <1>1, <1>2 DEF CallsFit, CoreInv
<1> QED BY <1>1, <1>2, <1>3, <1>4, <1>5 DEF CoreInv

-----------------------------------------------------------------------------
(* The screens send their requests.                                        *)
LEMMA RequestFits ==
  ASSUME CoreInv, ScreensFit, NEW t \in Tab, NEW op \in Ops, NEW stage \in Stages
  PROVE  Request(t, op, stage) \in Requests
<1>1. place[t].tenant \in Tenant
  BY DEF ScreensFit
<1>2. Open \subseteq Nat
  BY RowsFit DEF Open, CoreInv, CallsFit
<1> QED BY <1>1, <1>2 DEF Request, Requests

LEMMA SubmitIsSent ==
  ASSUME NEW c, Submit(c)
  PROVE  Sent(c)
BY DEF Submit, Sent

LEMMA SaveNumberKeeps ==
  ASSUME IInv, NEW t \in Tab, NEW enabled \in BOOLEAN, SaveNumber(t, enabled),
         UNCHANGED tables
  PROVE  CoreInv'
<1> SUFFICES ASSUME NEW n, n = Len(calls) + 1
             PROVE  CoreInv'
  OBVIOUS
<1> DEFINE c == [Request(t, "number", "save") EXCEPT
                   !.did = numberForm[t].did, !.enabled = enabled,
                   !.version = ExpectedVersion(t), !.base = numberForm[t].base]
<1>1. Sent(c) /\ UNCHANGED <<tables, routes, numbers>>
  BY SubmitIsSent DEF SaveNumber
<1>2. /\ numberForm[t].did \in Did /\ CopyOf(numberForm[t].did, numberForm[t].base)
      /\ numberForm[t].base \in Numbered \cup {None}
  BY DEF IInv, NumbersFit, EditsNumber, SaveNumber, CopyOf
<1>3. ExpectedVersion(t) \in Nat
      /\ ExpectedVersion(t) = IF numberForm[t].base = None THEN 0 ELSE numberForm[t].base.version
  BY <1>2 DEF ExpectedVersion, Numbered
<1>4. Request(t, "number", "save") \in Requests
  BY RequestFits DEF IInv, Ops, Stages
<1>5. /\ c \in Requests /\ c.op = "number" /\ c.stage = "save" /\ c.during = Open
      /\ c.did = numberForm[t].did /\ c.base = numberForm[t].base
      /\ c.version = ExpectedVersion(t)
  <2>1. c \in Requests
    BY <1>2, <1>3, <1>4 DEF Requests
  <2>2. /\ c.op = "number" /\ c.stage = "save" /\ c.during = Open
        /\ c.did = numberForm[t].did /\ c.base = numberForm[t].base
        /\ c.version = ExpectedVersion(t)
    BY DEF Request
  <2> QED BY <2>1, <2>2
<1> HIDE DEF c
<1>6. calls'[n] = c
  BY <1>1, SentGrows DEF IInv, CoreInv
<1>7. CallFits(n)'
  BY <1>2, <1>3, <1>5, <1>6 DEF CallFits, Path
<1> QED BY <1>1, <1>2, <1>5, <1>7, SentKeeps DEF IInv, Ends

LEMMA SaveRouteKeeps ==
  ASSUME IInv, NEW t \in Tab, NEW d \in Did, NEW set \in Setting \cup {None},
         SaveRoute(t, d, set), UNCHANGED tables
  PROVE  CoreInv'
<1> SUFFICES ASSUME NEW n, n = Len(calls) + 1
             PROVE  CoreInv'
  OBVIOUS
<1> DEFINE c == [Request(t, "route", "scope") EXCEPT !.did = d, !.set = set]
<1>1. Sent(c) /\ UNCHANGED <<tables, routes, numbers>>
  BY SubmitIsSent DEF SaveRoute
<1>2. Request(t, "route", "scope") \in Requests
  BY RequestFits DEF IInv, Ops, Stages
<1>3. /\ c \in Requests /\ c.op = "route" /\ c.stage = "scope" /\ c.during = Open
      /\ c.did = d
  BY <1>2 DEF Request, Requests
<1> HIDE DEF c
<1>4. calls'[n] = c
  BY <1>1, SentGrows DEF IInv, CoreInv
<1>5. CallFits(n)'
  BY <1>3, <1>4 DEF CallFits, Path
<1> QED BY <1>1, <1>3, <1>5, SentKeeps DEF IInv, Ends

LEMMA SaveAssignmentKeeps ==
  ASSUME IInv, NEW t \in Tab, NEW cx \in Context, NEW did \in Did \cup {Blank},
         NEW p \in DOMAIN profiles \cup {None}, SaveAssignment(t, cx, did, p)
  PROVE  CoreInv'
<1> SUFFICES ASSUME NEW n, n = Len(calls) + 1
             PROVE  CoreInv'
  OBVIOUS
<1> DEFINE key == [context |-> cx, did |-> did]
           current == Current(t, cx, did)
           off == [Request(t, "unassign", "get") EXCEPT !.key = key, !.id = current]
           on == [Request(t, "assign", "scope") EXCEPT !.key = key, !.value = p]
<1>1. UNCHANGED <<tables, routes, numbers>> /\ inventory[t].data # None
  BY DEF SaveAssignment, Settled
<1>2. key \in BoundKeys
  BY DEF BoundKeys
<1>4. CASE p = None
  <2>1. Sent(off) /\ current # None
    BY <1>4, SubmitIsSent DEF SaveAssignment
  <2>2. current \in Nat
    <3> DEFINE S == {i \in DOMAIN inventory[t].data.rows : inventory[t].data.rows[i].key = key}
    <3>1. S \in SUBSET Nat
      BY <1>1 DEF IInv, ScreensFit, ListsRows
    <3>2. current = First(S)
      BY DEF Current
    <3>3. S # {}
      BY <2>1, <3>2 DEF First
    <3> QED BY <3>1, <3>2, <3>3, FirstFacts
  <2>3. Request(t, "unassign", "get") \in Requests
    BY RequestFits DEF IInv, Ops, Stages
  <2>4. off \in Requests /\ off.op = "unassign" /\ off.stage = "get" /\ off.during = Open
    <3> HIDE DEF key, current
    <3> QED BY <1>2, <2>2, <2>3 DEF Request, Requests
  <2> HIDE DEF off
  <2>5. calls'[n] = off
    BY <2>1, SentGrows DEF IInv, CoreInv
  <2>6. CallFits(n)'
    BY <2>4, <2>5 DEF CallFits, Path
  <2> QED BY <1>1, <2>1, <2>4, <2>6, SentKeeps DEF IInv, Ends
<1>5. CASE p # None
  <2>1. Sent(on) /\ p \in DOMAIN profiles /\ p \in Nat
    <3>1. Sent(on)
      BY <1>5, SubmitIsSent DEF SaveAssignment
    <3> QED BY <1>5, <3>1, RowsFit DEF IInv, CoreInv, TablesFit
  <2>2. Request(t, "assign", "scope") \in Requests
    BY RequestFits DEF IInv, Ops, Stages
  <2>3. /\ on \in Requests /\ on.op = "assign" /\ on.stage = "scope" /\ on.during = Open
        /\ on.key = key /\ on.value = p /\ on.id = None
    <3> HIDE DEF key
    <3> QED BY <1>2, <2>1, <2>2 DEF Request, Requests
  <2> HIDE DEF on, key
  <2>4. calls'[n] = on
    BY <2>1, SentGrows DEF IInv, CoreInv
  <2>5. CallFits(n)'
    BY <1>1, <1>2, <2>1, <2>3, <2>4 DEF CallFits, Path, tables
  <2> QED BY <1>1, <2>1, <2>3, <2>5, SentKeeps DEF IInv, Ends
<1> QED BY <1>4, <1>5

LEMMA SaveProfileKeeps ==
  ASSUME IInv, NEW t \in Tab, SaveProfile(t)
  PROVE  CoreInv'
<1> SUFFICES ASSUME NEW n, n = Len(calls) + 1
             PROVE  CoreInv'
  OBVIOUS
<1> DEFINE new == [Request(t, "create", "insert") EXCEPT !.value = Text]
           old == [Request(t, "edit", "get") EXCEPT
                     !.value = Text, !.id = editing[t].id, !.revision = editing[t].revision]
<1>1. UNCHANGED <<tables, routes, numbers>>
  BY DEF SaveProfile
<1>2. Sent(IF editing[t] = None THEN new ELSE old)
  BY SubmitIsSent DEF SaveProfile
<1>3. Text \in Profile
  <2>1. Len(calls) \in Nat /\ Len(calls) < MaxCalls /\ MaxCalls \in Nat
    BY <1>2, NumberBounds DEF Sent, IInv, CoreInv, CallsFit
  <2>2. Len(calls) + 1 \in 0..MaxCalls
    BY <2>1
  <2> QED BY <2>2 DEF Text, Profile
<1>5. CASE editing[t] = None
  <2>1. Sent(new)
    BY <1>2, <1>5
  <2>2. Request(t, "create", "insert") \in Requests
    BY RequestFits DEF IInv, Ops, Stages
  <2>3. /\ new \in Requests /\ new.op = "create" /\ new.stage = "insert" /\ new.during = Open
        /\ new.value = Text /\ new.key = None
    BY <1>3, <2>2 DEF Request, Requests
  <2> HIDE DEF new
  <2>4. calls'[n] = new
    BY <2>1, SentGrows DEF IInv, CoreInv
  <2>5. CallFits(n)'
    BY <1>3, <2>3, <2>4 DEF CallFits, Path
  <2> QED BY <1>1, <2>1, <2>3, <2>5, SentKeeps DEF IInv, Ends
<1>6. CASE editing[t] # None
  <2>1. Sent(old)
    BY <1>2, <1>6
  <2>2. Request(t, "edit", "get") \in Requests
    BY RequestFits DEF IInv, Ops, Stages
  <2>3. /\ editing[t].id \in DOMAIN profiles /\ editing[t].id \in Nat
        /\ editing[t].revision \in Nat
    BY <1>6, RowsFit DEF IInv, CoreInv, ScreensFit, EditsProfile, TablesFit
  <2>4. /\ old \in Requests /\ old.op = "edit" /\ old.stage = "get" /\ old.during = Open
        /\ old.value = Text /\ old.key = None /\ old.id = editing[t].id
    BY <1>3, <2>2, <2>3 DEF Request, Requests
  <2> HIDE DEF old
  <2>5. calls'[n] = old
    BY <2>1, SentGrows DEF IInv, CoreInv
  <2>6. CallFits(n)'
    BY <1>1, <1>3, <2>3, <2>4, <2>5 DEF CallFits, Path, tables
  <2> QED BY <1>1, <2>1, <2>4, <2>6, SentKeeps DEF IInv, Ends
<1> QED BY <1>5, <1>6

LEMMA SaveBrandKeeps ==
  ASSUME IInv, NEW t \in Tab, SaveBrand(t)
  PROVE  CoreInv'
<1> SUFFICES ASSUME NEW n, n = Len(calls) + 1
             PROVE  CoreInv'
  OBVIOUS
<1> DEFINE c == [Request(t, "brand", "find") EXCEPT !.value = Brand]
<1>1. Sent(c) /\ UNCHANGED <<tables, routes, numbers>>
  BY SubmitIsSent DEF SaveBrand
<1>2. Brand \in Look
  <2>1. Len(calls) \in Nat /\ Len(calls) < MaxCalls /\ MaxCalls \in Nat
    BY <1>1, NumberBounds DEF Sent, IInv, CoreInv, CallsFit
  <2>2. Len(calls) + 1 \in 0..MaxCalls
    BY <2>1
  <2> QED BY <2>2 DEF Brand, Look
<1>3. Request(t, "brand", "find") \in Requests
  BY RequestFits DEF IInv, Ops, Stages
<1>4. /\ c \in Requests /\ c.op = "brand" /\ c.stage = "find" /\ c.during = Open
      /\ c.value = Brand /\ c.key = None
  BY <1>2, <1>3 DEF Request, Requests
<1> HIDE DEF c
<1>5. calls'[n] = c
  BY <1>1, SentGrows DEF IInv, CoreInv
<1>7. CallFits(n)'
  BY <1>2, <1>4, <1>5 DEF CallFits, Path
<1> QED BY <1>1, <1>4, <1>7, SentKeeps DEF IInv, Ends

LEMMA UploadLogoKeeps ==
  ASSUME IInv, NEW t \in Tab, UploadLogo(t)
  PROVE  CoreInv'
<1> SUFFICES ASSUME NEW n, n = Len(calls) + 1
             PROVE  CoreInv'
  OBVIOUS
<1> DEFINE look == [brand |-> 0, logo |-> Len(calls) + 1]
           c == [Request(t, "logo", "peek") EXCEPT !.value = look]
<1>1. Sent(c) /\ UNCHANGED <<tables, routes, numbers>>
  BY SubmitIsSent DEF UploadLogo
<1>2. look \in Look /\ look.logo = n
  <2>1. Len(calls) \in Nat /\ Len(calls) < MaxCalls /\ MaxCalls \in Nat
    BY <1>1, NumberBounds DEF Sent, IInv, CoreInv, CallsFit
  <2>2. Len(calls) + 1 \in 1..MaxCalls /\ 0 \in 0..MaxCalls
    BY <2>1
  <2> QED BY <2>2 DEF Look
<1>3. Request(t, "logo", "peek") \in Requests
  BY RequestFits DEF IInv, Ops, Stages
<1> HIDE DEF look
<1>4. /\ c \in Requests /\ c.op = "logo" /\ c.stage = "peek" /\ c.during = Open
      /\ c.value = look /\ c.key = None
  BY <1>2, <1>3 DEF Request, Requests
<1> HIDE DEF c
<1>5. calls'[n] = c
  BY <1>1, SentGrows DEF IInv, CoreInv
<1>7. CallFits(n)'
  BY <1>2, <1>4, <1>5 DEF CallFits, Path
<1> QED BY <1>1, <1>4, <1>7, SentKeeps DEF IInv, Ends

-----------------------------------------------------------------------------
(* Requests take their steps.                                              *)
LEMMA StageOps ==
  ASSUME CallsFit, NEW i \in DOMAIN calls
  PROVE  LET op == calls[i].op
             stage == calls[i].stage
         IN  /\ calls[i] \in Requests /\ op \in Ops /\ stage \in Path(op) \cup Ends
             /\ stage = "save" => op = "number"
             /\ stage \in {"route", "put"} => op = "route"
             /\ stage \in {"profile", "unique"} => op = "assign"
             /\ stage = "find" => op \in {"assign", "brand", "logo"}
             /\ stage = "get" => op \in {"assign", "unassign", "edit", "brand", "logo"}
             /\ stage = "insert" => op \in {"assign", "create", "brand", "logo"}
             /\ stage = "patch" => op \in {"assign", "edit", "brand", "logo"}
             /\ stage = "delete" => op = "unassign"
             /\ stage = "peek" => op = "logo"
<1>1. calls[i] \in Requests /\ calls[i].op \in Ops
  <2>1. calls[i] \in Requests
    BY RowsFit DEF CallsFit
  <2> QED BY <2>1 DEF Requests
<1>2. calls[i].stage \in Path(calls[i].op) \cup Ends
  BY DEF CallsFit, CallFits
<1> QED BY <1>1, <1>2 DEF Ops, Path, Ends

LEMMA ToFacts ==
  ASSUME CoreInv, NEW i \in Open, NEW stage \in Stages, To(i, stage)
  PROVE  /\ [calls[i] EXCEPT !.stage = stage] \in Requests
         /\ Moved(i, [calls[i] EXCEPT !.stage = stage])
         /\ i \in DOMAIN calls /\ DOMAIN calls' = DOMAIN calls /\ Grows
         /\ calls'[i].stage = stage /\ calls'[i].scope = calls[i].scope
         /\ calls'[i].value = calls[i].value /\ calls'[i].id = calls[i].id
         /\ calls'[i].revision = calls[i].revision
<1> DEFINE c == [calls[i] EXCEPT !.stage = stage]
<1>1. calls[i] \in Requests /\ i \in DOMAIN calls
  BY StageOps DEF CoreInv, Open
<1>2. c \in Requests
  BY <1>1 DEF Requests
<1>3. /\ c.op = calls[i].op /\ c.tab = calls[i].tab /\ c.tenant = calls[i].tenant
      /\ c.during = calls[i].during /\ c.did = calls[i].did /\ c.version = calls[i].version
      /\ c.base = calls[i].base /\ c.set = calls[i].set /\ c.key = calls[i].key
      /\ c.stage = stage /\ c.scope = calls[i].scope /\ c.value = calls[i].value
      /\ c.id = calls[i].id /\ c.revision = calls[i].revision
  BY <1>1 DEF Requests
<1>4. calls' = [calls EXCEPT ![i] = c]
  BY DEF To
<1> HIDE DEF c
<1>5. Moved(i, c)
  BY <1>3, <1>4 DEF Moved
<1>6. DOMAIN calls' = DOMAIN calls /\ Grows /\ calls'[i] = c
  BY <1>2, <1>5, MovedGrows DEF CoreInv
<1> USE DEF c
<1> QED BY <1>1, <1>2, <1>3, <1>5, <1>6

LEMMA ToKeeps ==
  ASSUME CoreInv, NEW i \in Open, NEW stage \in Stages, To(i, stage),
         UNCHANGED <<tables, routes>>, UNCHANGED numbers \/ CopiesStay,
         CallFits(i)', CallSeen(i)'
  PROVE  CoreInv'
BY ToFacts, MovedKeeps

(* An answer.                                                              *)
LEMMA EndKeeps ==
  ASSUME CoreInv, NEW i \in Open, NEW stage \in Ends, To(i, stage),
         UNCHANGED <<tables, routes>>, UNCHANGED numbers \/ CopiesStay,
         calls[i].op = "logo" /\ stage \in {"ok", "done"} => calls[i].stage = "ok"
  PROVE  CoreInv'
<1>1. /\ i \in DOMAIN calls /\ DOMAIN calls' = DOMAIN calls /\ Grows
      /\ calls'[i].stage = stage /\ calls'[i].value = calls[i].value /\ stage \in Stages
      /\ calls'[i].id = calls[i].id
  BY ToFacts DEF Ends, Stages
<1>0. profiles' = profiles /\ assignments' = assignments /\ appearance' = appearance
  BY DEF tables
<1>2. CallFits(i)'
  <2>1. CallFits(i) /\ Fixed(i)
    BY <1>1 DEF CoreInv, CallsFit, Grows
  <2>2. stage \notin {"scope", "number", "route", "put", "profile", "find", "get", "unique",
                      "insert", "patch"}
    BY DEF Ends
  <2> QED BY <1>0, <1>1, <2>1, <2>2 DEF CallFits, Fixed
<1>3. RouteSeen(i)' /\ ProfileSeen(i)' /\ KeySeen(i)' /\ LookSeen(i)' /\ BrandSeen(i)'
  BY <1>1 DEF RouteSeen, ProfileSeen, KeySeen, LookSeen, BrandSeen, Ends
<1>4. LogoPlaced(i)'
  <2> SUFFICES ASSUME calls'[i].op = "logo", Quiet(i)', stage \in {"ok", "done"}
               PROVE  LET looks == Looks(calls[i].tenant)
                      IN  (looks # {} /\ appearance[First(looks)].value.logo = i)'
    BY <1>1 DEF LogoPlaced, Ends
  <2>1. Quiet(i) /\ Fixed(i) /\ LogoPlaced(i)
    BY <1>1, QuietBefore DEF CoreInv, CallSeen, Grows
  <2>2. Looks(calls[i].tenant)' = Looks(calls[i].tenant)
    BY <1>0, <2>1 DEF Looks, Fixed
  <2> QED BY <1>0, <2>1, <2>2 DEF LogoPlaced, Fixed
<1> QED BY <1>1, <1>2, <1>3, <1>4, ToKeeps DEF CallSeen

LEMMA RefusalKeeps ==
  ASSUME CoreInv, NEW i \in Open, To(i, "refused"), UNCHANGED <<tables, routes, numbers>>
  PROVE  CoreInv'
BY EndKeeps DEF Ends

LEMMA CallFailsKeeps ==
  ASSUME CoreInv, NEW i, CallFails(i), UNCHANGED <<tables, routes, numbers>>
  PROVE  CoreInv'
BY RefusalKeeps DEF CallFails

LEMMA FinishKeeps ==
  ASSUME CoreInv, NEW i \in DOMAIN calls, calls[i].stage \in Answered, Finish(i),
         UNCHANGED <<tables, routes, numbers>>
  PROVE  CoreInv'
<1>1. i \in Open
  BY DEF Open, Answered
<1>2. CASE calls[i].stage = "ok"
  BY <1>1, <1>2, EndKeeps DEF Finish, Ends
<1>3. CASE calls[i].stage # "ok"
  BY <1>1, <1>3, EndKeeps DEF Finish, Ends
<1> QED BY <1>2, <1>3

(* The checks before a route is written.                                   *)
LEMMA RouteScopeKeeps ==
  ASSUME CoreInv, RoutesFit, NEW i, RouteScope(i), UNCHANGED tables
  PROVE  CoreInv'
<1>1. i \in Open /\ i \in DOMAIN calls /\ calls[i].op = "route"
  BY DEF RouteScope, At, Open
<1>2. UNCHANGED <<tables, routes, numbers>>
  BY DEF RouteScope
<1>3. CASE contexts[calls[i].tenant] = <<>>
  <2>1. To(i, "refused")
    BY <1>3 DEF RouteScope, To
  <2> QED BY <1>1, <1>2, <2>1, RefusalKeeps
<1>4. CASE contexts[calls[i].tenant] # <<>>
  <2> DEFINE c == [calls[i] EXCEPT !.stage = "number", !.scope = Primary(calls[i].tenant)]
  <2>1. calls[i] \in Requests
    BY <1>1, StageOps DEF CoreInv
  <2>2. Primary(calls[i].tenant) \in Context
    <3>1. contexts[calls[i].tenant] \in Seq(Context)
      BY <2>1 DEF RoutesFit, Requests
    <3>2. 1 \in DOMAIN contexts[calls[i].tenant]
      BY <1>4, <3>1
    <3> QED BY <3>1, <3>2, RowsFit DEF Primary
  <2>3. c \in Requests
    BY <2>1, <2>2 DEF Requests, Stages
  <2>4. calls' = [calls EXCEPT ![i] = c]
    BY <1>4 DEF RouteScope
  <2>5. Moved(i, c) /\ c.stage = "number" /\ c.scope \in Context
    BY <1>1, <2>1, <2>2, <2>4 DEF Moved, Requests
  <2> HIDE DEF c
  <2>6. DOMAIN calls' = DOMAIN calls /\ Grows /\ calls'[i] = c
    BY <2>3, <2>5, MovedGrows DEF CoreInv
  <2>7. CallFits(i)'
    BY <1>1, <2>5, <2>6 DEF CallFits, CoreInv, CallsFit, Grows, Fixed, Path
  <2>8. CallSeen(i)'
    BY <1>1, <2>5, <2>6 DEF CallSeen, RouteSeen, ProfileSeen, KeySeen, LookSeen, BrandSeen,
                            LogoPlaced, Grows, Fixed
  <2> QED BY <1>2, <2>3, <2>5, <2>7, <2>8, MovedKeeps
<1> QED BY <1>3, <1>4

(* A check that neither writes nor precedes a write.                       *)
LEMMA CheckKeeps ==
  ASSUME CoreInv, NEW i \in Open, NEW stage \in {"number", "route", "profile", "find"},
         To(i, stage), UNCHANGED <<tables, routes, numbers>>,
         stage \in Path(calls[i].op), calls[i].op \in {"route", "assign"},
         calls[i].op = "route" => calls[i].stage \in {"number", "route"},
         calls[i].op = "assign" => calls[i].stage \in {"scope", "number", "profile"}
  PROVE  CoreInv'
<1>1. /\ i \in DOMAIN calls /\ DOMAIN calls' = DOMAIN calls /\ Grows
      /\ calls'[i].stage = stage /\ calls'[i].value = calls[i].value
      /\ calls'[i].scope = calls[i].scope /\ calls'[i].id = calls[i].id /\ stage \in Stages
  BY ToFacts DEF Stages
<1>2. CallFits(i)'
  BY <1>1 DEF CallFits, CoreInv, CallsFit, Grows, Fixed, tables
<1>3. CallSeen(i)'
  BY <1>1 DEF CallSeen, RouteSeen, ProfileSeen, KeySeen, LookSeen, BrandSeen, LogoPlaced,
              Grows, Fixed
<1> QED BY <1>1, <1>2, <1>3, ToKeeps

LEMMA RouteNumberKeeps ==
  ASSUME CoreInv, NEW i, RouteNumber(i), UNCHANGED tables
  PROVE  CoreInv'
<1>1. i \in Open /\ calls[i].op = "route" /\ calls[i].stage = "number"
      /\ UNCHANGED <<tables, routes, numbers>>
  BY DEF RouteNumber, At, Open
<1>2. To(i, "route") \/ To(i, "refused")
  BY DEF RouteNumber
<1> QED BY <1>1, <1>2, RefusalKeeps, CheckKeeps DEF Path

LEMMA RouteListedKeeps ==
  ASSUME CoreInv, NEW i, RouteListed(i), UNCHANGED tables
  PROVE  CoreInv'
<1>1. i \in Open /\ i \in DOMAIN calls /\ calls[i].op = "route" /\ calls[i].stage = "route"
      /\ UNCHANGED <<tables, routes, numbers>>
  BY StageOps DEF RouteListed, At, Open, CoreInv
<1>2. CASE ~Configurable(i)
  BY <1>1, <1>2, RefusalKeeps DEF RouteListed
<1>3. CASE Configurable(i)
  <2>1. To(i, "put")
    BY <1>3 DEF RouteListed
  <2>2. /\ DOMAIN calls' = DOMAIN calls /\ Grows /\ calls'[i].stage = "put"
        /\ calls'[i].scope = calls[i].scope
    BY <1>1, <2>1, ToFacts DEF Stages
  <2>3. CallFits(i)'
    BY <1>1, <2>2 DEF CallFits, CoreInv, CallsFit, Grows, Fixed, Path
  <2>4. RouteSeen(i)'
    BY <1>1, <1>3, <2>2 DEF RouteSeen, Configurable, Listed, Grows, Fixed
  <2>5. CallSeen(i)'
    BY <1>1, <2>2, <2>4 DEF CallSeen, ProfileSeen, KeySeen, LookSeen, BrandSeen, LogoPlaced,
                            Grows, Fixed
  <2> QED BY <1>1, <2>1, <2>3, <2>5, ToKeeps DEF Stages
<1> QED BY <1>2, <1>3

(* The checks before an assignment is written.                             *)
LEMMA AssignScopeKeeps ==
  ASSUME CoreInv, NEW i, AssignScope(i)
  PROVE  CoreInv'
<1>1. i \in Open /\ calls[i].op = "assign" /\ calls[i].stage = "scope"
      /\ UNCHANGED <<tables, routes, numbers>>
  BY DEF AssignScope, At, Open
<1>2. To(i, "profile") \/ To(i, "number") \/ To(i, "refused")
  BY DEF AssignScope
<1> QED BY <1>1, <1>2, RefusalKeeps, CheckKeeps DEF Path

LEMMA AssignNumberKeeps ==
  ASSUME CoreInv, NEW i, AssignNumber(i)
  PROVE  CoreInv'
<1>1. i \in Open /\ calls[i].op = "assign" /\ calls[i].stage = "number"
      /\ UNCHANGED <<tables, routes, numbers>>
  BY DEF AssignNumber, At, Open
<1>2. To(i, "profile") \/ To(i, "refused")
  BY DEF AssignNumber
<1> QED BY <1>1, <1>2, RefusalKeeps, CheckKeeps DEF Path

LEMMA AssignProfileKeeps ==
  ASSUME CoreInv, NEW i, AssignProfile(i)
  PROVE  CoreInv'
<1>1. i \in Open /\ calls[i].stage = "profile" /\ UNCHANGED <<tables, routes, numbers>>
  BY DEF AssignProfile, At, Open
<1>2. calls[i].op = "assign"
  BY <1>1, StageOps DEF CoreInv, Open
<1>3. To(i, "find") \/ To(i, "refused")
  BY DEF AssignProfile
<1> QED BY <1>1, <1>2, <1>3, RefusalKeeps, CheckKeeps DEF Path

(* The record of a tenant's appearance that is shown.                      *)
LEMMA FirstNone ==
  ASSUME NEW S \in SUBSET Nat
  PROVE  First(S) = None <=> S = {}
<1>1. None \notin Nat
  BY NoneIsNothing
<1> QED BY <1>1, FirstFacts DEF First

LEMMA ShownFacts ==
  ASSUME TablesFit, NEW tenant
  PROVE  /\ Looks(tenant) \subseteq DOMAIN appearance /\ Looks(tenant) \in SUBSET Nat
         /\ Shown(tenant) = First(Looks(tenant))
         /\ Shown(tenant) = None <=> Looks(tenant) = {}
         /\ Looks(tenant) # {} =>
              Shown(tenant) \in Looks(tenant) /\ \A k \in Looks(tenant) : Shown(tenant) <= k
<1>1. Looks(tenant) \subseteq DOMAIN appearance /\ Looks(tenant) \in SUBSET Nat
  BY RowsFit DEF Looks, TablesFit
<1>2. List(appearance, tenant) = Looks(tenant)
  BY NoRowIsNone DEF List, Ids, Looks
<1>3. Shown(tenant) = First(Looks(tenant))
  BY <1>2 DEF Shown
<1> QED BY <1>1, <1>3, FirstNone, FirstFacts

LEMMA LookRows ==
  ASSUME TablesFit, NEW k \in DOMAIN appearance
  PROVE  /\ appearance[k] \in RowOf({None}, Look) /\ appearance[k].value \in Look
         /\ appearance[k].tenant \in Tenant /\ appearance[k].revision \in Nat
<1>1. appearance[k] \in RowOf({None}, Look)
  BY RowsFit DEF TablesFit
<1> QED BY <1>1 DEF RowOf

(* A request may carry what an appearance record holds.                   *)
LEMMA LookIsCarried ==
  ASSUME NEW r \in Requests, NEW look \in Look
  PROVE  [r EXCEPT !.value = look] \in Requests
  BY DEF Requests

LEMMA PeekKeeps ==
  ASSUME CoreInv, NEW i, Peek(i)
  PROVE  CoreInv'
<1> DEFINE row == Shown(calls[i].tenant)
           brand == BrandRead(row)
           value == [calls[i].value EXCEPT !.brand = brand]
           c == [calls[i] EXCEPT !.stage = "find", !.value = value]
<1>1. i \in Open /\ i \in DOMAIN calls /\ calls[i].stage = "peek"
      /\ UNCHANGED <<tables, routes, numbers>>
  BY DEF Peek, At, Open
<1>2. calls[i] \in Requests /\ calls[i].op = "logo"
  BY <1>1, StageOps DEF CoreInv
<1>3. calls[i].value \in Look /\ calls[i].value.logo = i /\ calls[i].key = None
  BY <1>1, <1>2 DEF CoreInv, CallsFit, CallFits
<1>4. brand \in 0..MaxCalls
  <2>1. CASE row = None
    BY <2>1, NumberBounds DEF BrandRead
  <2>2. CASE row # None
    <3>1. row \in DOMAIN appearance
      BY <2>2, ShownFacts DEF CoreInv
    <3> QED BY <2>2, <3>1, LookRows DEF CoreInv, Look, BrandRead
  <2> QED BY <2>1, <2>2
<1>5. calls' = [calls EXCEPT ![i] = c]
  BY <1>1, <1>2, <1>3 DEF Peek, Requests, Look
<1>0. UNCHANGED <<profiles, assignments, appearance>>
  BY <1>1 DEF tables
<1> HIDE DEF brand
<1>6. value \in Look /\ value.logo = i /\ value.brand = brand
  BY <1>3, <1>4 DEF Look
<1> HIDE DEF value
<1>7. /\ c \in Requests /\ Moved(i, c) /\ c.stage = "find" /\ c.value = value
  <2>1. c \in Requests
    <3>1. "find" \in Stages
      BY DEF Stages
    <3>2. [calls[i] EXCEPT !.stage = "find"] \in Requests
      BY <1>2, <3>1 DEF Requests
    <3>3. [[calls[i] EXCEPT !.stage = "find"] EXCEPT !.value = value] \in Requests
      BY <1>6, <3>2, LookIsCarried
    <3> QED BY <3>3
  <2>2. c.stage = "find" /\ c.value = value
    BY <1>2 DEF Requests
  <2>3. Moved(i, c)
    BY <1>1, <1>2, <1>5 DEF Moved, Requests
  <2> QED BY <2>1, <2>2, <2>3
<1> HIDE DEF c
<1>8. DOMAIN calls' = DOMAIN calls /\ Grows /\ calls'[i] = c
  BY <1>7, MovedGrows DEF CoreInv
<1>9. CallFits(i)'
  BY <1>1, <1>2, <1>3, <1>6, <1>7, <1>8 DEF CallFits, Grows, Fixed, Path
<1>10. BrandSeen(i)'
  <2>0. calls'[i].stage = "find" /\ calls'[i].tenant = calls[i].tenant /\ calls'[i].value = value
        /\ Looks(calls[i].tenant)' = Looks(calls[i].tenant)
    BY <1>0, <1>1, <1>7, <1>8 DEF Looks, Grows, Fixed
  <2> SUFFICES ASSUME NEW k \in Looks(calls[i].tenant)
               PROVE  BrandIs(i, k)' \/ \E l \in Looks(calls[i].tenant) : l < k
    BY <2>0 DEF BrandSeen
  <2>1. Looks(calls[i].tenant) \in SUBSET Nat /\ row \in Looks(calls[i].tenant) /\ row <= k
        /\ row # None
    BY ShownFacts DEF CoreInv
  <2>2. CASE row = k
    <3>1. value.brand = appearance[k].value.brand
      BY <1>6, <2>1, <2>2 DEF BrandRead, brand
    <3> QED BY <1>0, <2>0, <3>1 DEF BrandIs
  <2>3. CASE row # k
    BY <2>1, <2>3
  <2> QED BY <2>2, <2>3
<1>11. CallSeen(i)'
  BY <1>7, <1>8, <1>10 DEF CallSeen, RouteSeen, ProfileSeen, KeySeen, LookSeen, LogoPlaced
<1> QED BY <1>1, <1>7, <1>9, <1>11, MovedKeeps

(* A stored key is a request's when the two normalize to the same.         *)
LEMMA AssignmentRows ==
  ASSUME TablesFit, NEW k \in Ids(assignments)
  PROVE  /\ assignments[k] \in RowOf(Keys, DOMAIN profiles)
         /\ assignments[k].key \in Keys /\ assignments[k].revision \in Nat /\ k \in Nat
<1>1. assignments[k] \in RowOf(Keys, DOMAIN profiles) /\ k \in Nat
  BY RowsFit DEF TablesFit, Ids
<1> QED BY <1>1 DEF RowOf

LEMMA SameKey ==
  ASSUME TablesFit, NEW call, call.key \in BoundKeys, NEW k \in Ids(assignments)
  PROVE  AssignmentKeys[k] = call.key <=> assignments[k].key = StoredKey(call)
<1> DEFINE key == call.key
           old == assignments[k].key
<1>1. old \in Keys
  BY AssignmentRows
<1>2. call.key # None
  BY NoneIsNoRecord
<1>3. AssignmentKeys[k] = [context |-> old.context, did |-> IF old.did = None THEN Blank ELSE old.did]
  BY DEF AssignmentKeys, Normalize
<1>4. StoredKey(call) = [context |-> key.context, did |-> IF key.did = Blank THEN None ELSE key.did]
  BY <1>2 DEF StoredKey, StoredDid
<1>5. key \in BoundKeys
  OBVIOUS
<1> HIDE DEF key, old
<1>6. old = [context |-> old.context, did |-> old.did] /\ old.did \in Did \cup {None}
  BY <1>1 DEF Keys
<1>7. key = [context |-> key.context, did |-> key.did] /\ key.did \in Did \cup {Blank}
  BY <1>5 DEF BoundKeys
<1>8. None \notin Did /\ Blank \notin Did
  BY NoneIsNothing, BlankIsNoDid
<1>9. AssignmentKeys[k] = key <=>
        old.context = key.context /\ (IF old.did = None THEN Blank ELSE old.did) = key.did
  BY <1>3, <1>7
<1>10. old = StoredKey(call) <=>
         old.context = key.context /\ old.did = IF key.did = Blank THEN None ELSE key.did
  BY <1>4, <1>6
<1>11. (IF old.did = None THEN Blank ELSE old.did) = key.did <=>
         old.did = IF key.did = Blank THEN None ELSE key.did
  BY <1>6, <1>7, <1>8
<1>12. AssignmentKeys[k] = key <=> old = StoredKey(call)
  BY <1>9, <1>10, <1>11
<1> QED BY <1>12 DEF key, old

LEMMA KeyRows ==
  ASSUME TablesFit, NEW call, call.key \in BoundKeys
  PROVE  /\ WithKey(AssignmentKeys, call.key) =
              {k \in Ids(assignments) : assignments[k].key = StoredKey(call)}
         /\ WithKey(AssignmentKeys, call.key) \in SUBSET Nat
<1>1. DOMAIN AssignmentKeys = Ids(assignments)
  BY DEF AssignmentKeys
<1>2. Ids(assignments) \subseteq Nat
  BY AssignmentRows
<1> QED BY <1>1, <1>2, SameKey DEF WithKey

(* A save looks for the row it is to update.                               *)
LEMMA FindKeeps ==
  ASSUME CoreInv, NEW i, Find(i)
  PROVE  CoreInv'
<1> DEFINE row == Found(calls[i])
           table == TableOf(calls[i])
<1>1. i \in Open /\ i \in DOMAIN calls /\ calls[i].stage = "find"
      /\ UNCHANGED <<tables, routes, numbers>>
  BY DEF Find, At, Open
<1>2. calls[i] \in Requests /\ calls[i].op \in {"assign", "brand", "logo"}
  BY <1>1, StageOps DEF CoreInv
<1>3. CallFits(i) /\ TablesFit /\ CallsFit
  BY <1>1 DEF CoreInv, CallsFit
<1>4. UNCHANGED <<profiles, assignments, appearance>>
  BY <1>1 DEF tables
<1>5. CASE row = None /\ calls[i].op = "assign"
  <2>1. To(i, "unique")
    BY <1>5 DEF Find, To
  <2>2. /\ DOMAIN calls' = DOMAIN calls /\ Grows /\ calls'[i].stage = "unique"
        /\ calls'[i].id = calls[i].id /\ calls'[i].value = calls[i].value /\ Fixed(i)
    BY <1>1, <2>1, ToFacts DEF Stages, Grows
  <2>3. CallFits(i)'
    BY <1>1, <1>3, <1>4, <1>5, <2>2 DEF CallFits, Fixed, Path
  <2>4. calls[i].key \in BoundKeys /\ row = First(WithKey(AssignmentKeys, calls[i].key))
    BY <1>1, <1>3, <1>5 DEF CallFits, Found
  <2>5. {k \in Ids(assignments) : assignments[k].key = StoredKey(calls[i])} = {}
    BY <1>3, <1>5, <2>4, KeyRows, FirstNone
  <2>6. KeySeen(i)'
    BY <1>4, <2>2, <2>5 DEF KeySeen, StoredKey, Ids, Fixed
  <2>7. CallSeen(i)'
    BY <1>5, <2>2, <2>6 DEF CallSeen, RouteSeen, ProfileSeen, LookSeen, BrandSeen, LogoPlaced,
                            Fixed
  <2> QED BY <1>1, <2>1, <2>3, <2>7, ToKeeps DEF Stages
<1>6. CASE row = None /\ calls[i].op # "assign"
  <2>1. To(i, "insert")
    BY <1>6 DEF Find, To
  <2>2. /\ DOMAIN calls' = DOMAIN calls /\ Grows /\ calls'[i].stage = "insert"
        /\ calls'[i].id = calls[i].id /\ calls'[i].value = calls[i].value /\ Fixed(i)
    BY <1>1, <2>1, ToFacts DEF Stages, Grows
  <2>3. CallFits(i)'
    BY <1>1, <1>2, <1>3, <1>4, <1>6, <2>2 DEF CallFits, Fixed, Path
  <2>4. row = Shown(calls[i].tenant)
    BY <1>6 DEF Found
  <2>5. Looks(calls[i].tenant) = {}
    BY <1>3, <1>6, <2>4, ShownFacts
  <2>6. LookSeen(i)' /\ LogoPlaced(i)'
    BY <1>4, <2>2, <2>5 DEF LookSeen, LogoPlaced, Looks, Fixed
  <2>7. CallSeen(i)'
    BY <1>6, <2>2, <2>6 DEF CallSeen, RouteSeen, ProfileSeen, KeySeen, BrandSeen, Fixed
  <2> QED BY <1>1, <2>1, <2>3, <2>7, ToKeeps DEF Stages
<1>7. CASE row # None /\ ~OwnRow(calls[i], table[row])
  <2>1. To(i, "refused")
    BY <1>7 DEF Find, To
  <2> QED BY <1>1, <2>1, RefusalKeeps
<1>8. CASE row # None /\ OwnRow(calls[i], table[row])
  <2> DEFINE c == [calls[i] EXCEPT !.stage = "get", !.id = row, !.revision = table[row].revision]
  <2>1. calls' = [calls EXCEPT ![i] = c]
    BY <1>8 DEF Find
  <2>2. /\ row \in Nat /\ table[row].revision \in Nat
        /\ calls[i].op = "assign" => row \in DOMAIN assignments
        /\ calls[i].op # "assign" =>
             /\ row \in DOMAIN appearance /\ appearance[row].tenant = calls[i].tenant
             /\ Looks(calls[i].tenant) # {} /\ row = First(Looks(calls[i].tenant))
             /\ row \in Looks(calls[i].tenant)
             /\ \A l \in Looks(calls[i].tenant) : l \in Nat /\ row <= l
    <3>1. CASE calls[i].op = "assign"
      <4>1. calls[i].key \in BoundKeys /\ row = First(WithKey(AssignmentKeys, calls[i].key))
        BY <1>1, <1>3, <3>1 DEF CallFits, Found
      <4>2. row \in Ids(assignments)
        BY <1>3, <1>8, <4>1, KeyRows, FirstNone, FirstFacts
      <4>3. table = assignments
        BY <3>1 DEF TableOf
      <4> QED BY <1>3, <3>1, <4>2, <4>3, AssignmentRows DEF Ids
    <3>2. CASE calls[i].op # "assign"
      <4>1. row = Shown(calls[i].tenant) /\ table = appearance
        BY <1>2, <3>2 DEF Found, TableOf
      <4>2. /\ row \in Looks(calls[i].tenant) /\ row \in DOMAIN appearance /\ row \in Nat
            /\ row = First(Looks(calls[i].tenant))
            /\ \A l \in Looks(calls[i].tenant) : l \in Nat /\ row <= l
        BY <1>3, <1>8, <4>1, ShownFacts
      <4>3. appearance[row].revision \in Nat
        BY <1>3, <4>2, LookRows
      <4> QED BY <3>2, <4>1, <4>2, <4>3 DEF Looks
    <3> QED BY <3>1, <3>2
  <2> HIDE DEF row, table
  <2>3. /\ c \in Requests /\ Moved(i, c) /\ c.stage = "get" /\ c.id = row /\ c.value = calls[i].value
    <3>1. row \in Nat \cup {None} /\ table[row].revision \in Nat /\ "get" \in Stages
      BY <2>2 DEF Stages
    <3>2. c \in Requests
      BY <1>2, <3>1 DEF Requests
    <3>3. /\ c.op = calls[i].op /\ c.tab = calls[i].tab /\ c.tenant = calls[i].tenant
          /\ c.during = calls[i].during /\ c.did = calls[i].did /\ c.version = calls[i].version
          /\ c.base = calls[i].base /\ c.set = calls[i].set /\ c.key = calls[i].key
          /\ c.stage = "get" /\ c.id = row /\ c.value = calls[i].value
      BY <1>2 DEF Requests
    <3> HIDE DEF c
    <3> QED BY <1>1, <2>1, <3>2, <3>3 DEF Moved
  <2> HIDE DEF c
  <2>4. DOMAIN calls' = DOMAIN calls /\ Grows /\ Fixed(i) /\ calls'[i] = c
    BY <1>1, <1>3, <2>3, MovedGrows DEF CoreInv, Grows
  <2>5. CallFits(i)'
    BY <1>2, <1>3, <1>4, <2>2, <2>3, <2>4 DEF CallFits, Fixed, Path
  <2>6. LogoPlaced(i)'
    BY <1>4, <2>2, <2>3, <2>4 DEF LogoPlaced, Looks, Fixed
  <2>7. BrandSeen(i)'
    <3> SUFFICES ASSUME calls[i].op = "logo", NEW r, r = row
                 PROVE  BrandSeen(i)'
      BY <2>4 DEF BrandSeen, Fixed
    <3>1. BrandSeen(i) /\ Grows
      BY <1>1, <2>3, MovedGrows DEF CoreInv, CallSeen
    <3>2. BrandIs(i, r)
      <4>1. r \in Looks(calls[i].tenant)
            /\ \A l \in Looks(calls[i].tenant) : l \in Nat /\ r <= l
        BY <1>2, <2>2
      <4>2. ~ \E l \in Looks(calls[i].tenant) : l < r
        BY <4>1
      <4> QED BY <1>1, <3>1, <4>1, <4>2 DEF BrandSeen
    <3>3. BrandIs(i, r)'
      <4>1. UnderWay(i, appearance[r].by) => UnderWay(i, appearance[r].by)'
        BY <1>1, <1>4, <3>1, UnderWayStays
      <4> QED BY <1>4, <2>3, <2>4, <3>2, <4>1 DEF BrandIs
    <3>4. calls'[i].id = r /\ calls'[i].stage = "get"
      BY <2>3, <2>4
    <3> QED BY <3>3, <3>4 DEF BrandSeen, BrandIs
  <2>8. CallSeen(i)'
    BY <2>3, <2>4, <2>6, <2>7 DEF CallSeen, RouteSeen, ProfileSeen, KeySeen, LookSeen
  <2> QED BY <1>1, <2>3, <2>5, <2>8, MovedKeeps
<1> QED BY <1>5, <1>6, <1>7, <1>8

(* update and delete read the row again.                                   *)
LEMMA GetKeeps ==
  ASSUME CoreInv, NEW i, Get(i)
  PROVE  CoreInv'
<1> DEFINE table == TableOf(calls[i])
           row == GetById(table, calls[i].id, calls[i].tenant)
<1>1. i \in Open /\ i \in DOMAIN calls /\ calls[i].stage = "get"
      /\ UNCHANGED <<tables, routes, numbers>>
  BY DEF Get, At, Open
<1>2. calls[i] \in Requests /\ calls[i].op \in {"assign", "unassign", "edit", "brand", "logo"}
  BY <1>1, StageOps DEF CoreInv
<1>3. CallFits(i) /\ CallSeen(i) /\ TablesFit /\ CallsFit
  BY <1>1 DEF CoreInv, CallsFit
<1>4. UNCHANGED <<profiles, assignments, appearance>>
  BY <1>1 DEF tables
<1>5. CASE To(i, "refused")
  BY <1>1, <1>5, RefusalKeeps
<1>6. CASE row # None /\ calls[i].op = "unassign" /\ To(i, "delete")
  <2>1. /\ DOMAIN calls' = DOMAIN calls /\ Grows /\ calls'[i].stage = "delete" /\ Fixed(i)
    BY <1>1, <1>6, ToFacts DEF Stages, Grows
  <2>2. CallFits(i)' /\ CallSeen(i)'
    BY <1>6, <2>1 DEF CallFits, Path, Fixed, CallSeen, RouteSeen, ProfileSeen, KeySeen, LookSeen,
                      BrandSeen, LogoPlaced
  <2> QED BY <1>1, <1>6, <2>2, ToKeeps DEF Stages
<1>7. CASE row # None /\ calls[i].op = "assign" /\ To(i, "unique")
  <2>1. /\ DOMAIN calls' = DOMAIN calls /\ Grows /\ calls'[i].stage = "unique" /\ Fixed(i)
        /\ calls'[i].id = calls[i].id /\ calls'[i].value = calls[i].value
    BY <1>1, <1>7, ToFacts DEF Stages, Grows
  <2>2. CallFits(i)'
    BY <1>1, <1>3, <1>4, <1>7, <2>1 DEF CallFits, Path, Fixed
  <2>3. calls[i].id # None
    <3>1. calls[i].id \in DOMAIN assignments
      BY <1>1, <1>3, <1>7 DEF CallFits
    <3>2. calls[i].id \in Nat
      BY <1>3, <3>1, RowsFit DEF TablesFit
    <3> QED BY <3>2, NoneIsNothing
  <2>4. CallSeen(i)'
    BY <1>7, <2>1, <2>3 DEF Fixed, CallSeen, RouteSeen, ProfileSeen, KeySeen, LookSeen,
                            BrandSeen, LogoPlaced
  <2> QED BY <1>1, <1>7, <2>2, <2>4, ToKeeps DEF Stages
<1>8. CASE /\ row # None /\ calls[i].op \notin {"assign", "unassign"}
           /\ SameRevision(calls[i], table[row]) /\ To(i, "patch")
  <2>1. /\ DOMAIN calls' = DOMAIN calls /\ Grows /\ calls'[i].stage = "patch" /\ Fixed(i)
        /\ calls'[i].id = calls[i].id /\ calls'[i].value = calls[i].value
        /\ calls'[i].revision = calls[i].revision
    BY <1>1, <1>8, ToFacts DEF Stages, Grows
  <2>2. CallFits(i)'
    BY <1>1, <1>2, <1>3, <1>4, <1>8, <2>1 DEF CallFits, Path, Fixed
  <2>3. ProfileSeen(i)'
    <3> SUFFICES ASSUME calls[i].op = "edit"
                 PROVE  profiles[calls[i].id].revision = calls[i].revision
      BY <1>4, <2>1 DEF ProfileSeen, Fixed
    <3>1. table = profiles
      BY DEF TableOf
    <3>2. List(profiles, calls[i].tenant) \in SUBSET Nat
      BY <1>3, RowsFit DEF List, Ids, TablesFit
    <3>3. row = calls[i].id
      BY <1>8, <3>1, <3>2, FirstOfOne DEF GetById
    <3> QED BY <1>8, <3>1, <3>3 DEF SameRevision
  <2>4. LogoPlaced(i)'
    <3> SUFFICES ASSUME calls[i].op = "logo", Quiet(i)'
                 PROVE  Looks(calls[i].tenant) # {} /\ calls[i].id = First(Looks(calls[i].tenant))
      BY <1>4, <2>1 DEF LogoPlaced, Fixed, Looks
    <3>1. Quiet(i)
      BY <1>1, <2>1, QuietBefore
    <3> QED BY <1>1, <1>3, <3>1 DEF CallSeen, LogoPlaced
  <2>5. BrandSeen(i)'
    <3> SUFFICES ASSUME calls[i].op = "logo"
                 PROVE  BrandIs(i, calls[i].id)'
      BY <2>1 DEF BrandSeen, Fixed
    <3>1. BrandIs(i, calls[i].id)
      BY <1>1, <1>3 DEF CallSeen, BrandSeen
    <3> QED BY <1>1, <1>4, <2>1, <3>1, UnderWayStays DEF BrandIs, UnderWay, Overlap, Fixed, Grows
  <2>6. CallSeen(i)'
    BY <1>8, <2>1, <2>3, <2>4, <2>5 DEF Fixed, CallSeen, RouteSeen, KeySeen, LookSeen
  <2> QED BY <1>1, <1>8, <2>2, <2>6, ToKeeps DEF Stages
<1>9. \/ To(i, "refused")
      \/ row # None /\ calls[i].op = "unassign" /\ To(i, "delete")
      \/ row # None /\ calls[i].op = "assign" /\ To(i, "unique")
      \/ /\ row # None /\ calls[i].op \notin {"assign", "unassign"}
         /\ SameRevision(calls[i], table[row]) /\ To(i, "patch")
  BY DEF Get
<1> QED BY <1>5, <1>6, <1>7, <1>8, <1>9

(* assertUnique, before a row is written.                                  *)
LEMMA AssertUniqueKeeps ==
  ASSUME CoreInv, NEW i, AssertUnique(i)
  PROVE  CoreInv'
<1>1. i \in Open /\ i \in DOMAIN calls /\ calls[i].stage = "unique"
      /\ UNCHANGED <<tables, routes, numbers>>
  BY DEF AssertUnique, At, Open
<1>2. calls[i] \in Requests /\ calls[i].op = "assign"
  BY <1>1, StageOps DEF CoreInv
<1>3. CallFits(i) /\ TablesFit /\ CallsFit
  BY <1>1 DEF CoreInv, CallsFit
<1>4. UNCHANGED <<profiles, assignments, appearance>>
  BY <1>1 DEF tables
<1>5. CASE To(i, "refused")
  BY <1>1, <1>5, RefusalKeeps
<1>6. CASE /\ Clashes(AssignmentKeys, calls[i].key, calls[i].id) = {}
           /\ calls[i].id = None /\ To(i, "insert")
  <2>1. /\ DOMAIN calls' = DOMAIN calls /\ Grows /\ calls'[i].stage = "insert" /\ Fixed(i)
        /\ calls'[i].id = calls[i].id /\ calls'[i].value = calls[i].value
    BY <1>1, <1>6, ToFacts DEF Stages, Grows
  <2>2. CallFits(i)'
    BY <1>2, <1>3, <1>4, <1>6, <2>1 DEF CallFits, Path, Fixed
  <2>3. calls[i].key \in BoundKeys /\ None \notin Nat
    BY <1>2, <1>3, NoneIsNothing DEF CallFits
  <2>4. {k \in Ids(assignments) : assignments[k].key = StoredKey(calls[i])} = {}
    BY <1>3, <1>6, <2>3, KeyRows DEF Clashes
  <2>5. KeySeen(i)'
    BY <1>4, <2>1, <2>4 DEF KeySeen, StoredKey, Ids, Fixed
  <2>6. CallSeen(i)'
    BY <1>2, <2>1, <2>5 DEF Fixed, CallSeen, RouteSeen, ProfileSeen, LookSeen, BrandSeen, LogoPlaced
  <2> QED BY <1>1, <1>6, <2>2, <2>6, ToKeeps DEF Stages
<1>7. CASE calls[i].id # None /\ To(i, "patch")
  <2>1. /\ DOMAIN calls' = DOMAIN calls /\ Grows /\ calls'[i].stage = "patch" /\ Fixed(i)
        /\ calls'[i].id = calls[i].id /\ calls'[i].value = calls[i].value
    BY <1>1, <1>7, ToFacts DEF Stages, Grows
  <2>2. CallFits(i)'
    BY <1>1, <1>2, <1>3, <1>4, <1>7, <2>1 DEF CallFits, Path, Fixed
  <2>3. CallSeen(i)'
    BY <1>2, <2>1 DEF Fixed, CallSeen, RouteSeen, ProfileSeen, KeySeen, LookSeen, BrandSeen,
                      LogoPlaced
  <2> QED BY <1>1, <1>7, <2>2, <2>3, ToKeeps DEF Stages
<1> QED BY <1>5, <1>6, <1>7 DEF AssertUnique

-----------------------------------------------------------------------------
(* Identity saves a number: what anyone had of it is older now.            *)
LEMMA CopiesAge ==
  ASSUME CoreInv, NumbersFit, NEW i, IdentitySaves(i)
  PROVE  CopiesStay /\ numbers' \in [Did -> Numbered \cup {None}]
<1>1. i \in Open /\ i \in DOMAIN calls /\ calls[i].stage = "save"
  BY DEF IdentitySaves, At, Open
<1>2. calls[i] \in Requests /\ calls[i].op = "number" /\ calls[i].did \in Did
  BY <1>1, StageOps DEF CoreInv, CallsFit, CallFits
<1>3. CASE ~Accepts(calls[i])
  <2>1. numbers' = numbers
    BY <1>3 DEF IdentitySaves
  <2> QED BY <2>1 DEF NumbersFit, CopiesStay, CopyOf
<1>4. CASE Accepts(calls[i])
  <2> DEFINE new == Saved(calls[i])
  <2>1. numbers' = [numbers EXCEPT ![calls[i].did] = new]
    BY <1>4 DEF IdentitySaves
  <2>2. new \in Numbered /\ new.version = calls[i].version + 1 /\ calls[i].version \in Nat
    BY <1>2 DEF Saved, Requests, Numbered
  <2> HIDE DEF new
  <2>3. numbers' \in [Did -> Numbered \cup {None}]
    BY <2>1, <2>2 DEF NumbersFit
  <2>4. new # None
    BY <2>2, NoneIsNoRecord
  <2>5. ASSUME NEW d \in Did, NEW x, CopyOf(d, x)
        PROVE  CopyOf(d, x)'
    <3>1. CASE d # calls[i].did
      BY <2>1, <2>5, <3>1 DEF CopyOf, NumbersFit
    <3>2. CASE d = calls[i].did /\ x # None
      <4>1. /\ x \in Numbered /\ numbers[d] # None /\ x.version <= numbers[d].version
            /\ x.version \in Nat /\ numbers[d] \in Numbered
        BY <2>5, <3>2 DEF CopyOf, NumbersFit, Numbered
      <4>2. numbers[d].version = calls[i].version
        BY <1>4, <3>2, <4>1 DEF Accepts
      <4>3. numbers'[d] = new
        BY <2>1, <3>2 DEF NumbersFit
      <4>4. x.version < new.version
        BY <2>2, <4>1, <4>2
      <4> QED BY <2>2, <2>4, <4>1, <4>3, <4>4 DEF CopyOf
    <3>3. CASE x = None
      BY <3>3 DEF CopyOf
    <3> QED BY <3>1, <3>2, <3>3
  <2> QED BY <2>3, <2>5 DEF CopiesStay
<1> QED BY <1>3, <1>4

LEMMA IdentitySavesKeeps ==
  ASSUME CoreInv, NumbersFit, NEW i, IdentitySaves(i), UNCHANGED tables
  PROVE  CoreInv' /\ NumbersFit'
<1>1. i \in Open /\ i \in DOMAIN calls /\ calls[i].stage = "save"
  BY DEF IdentitySaves, At, Open
<1>2. CopiesStay /\ numbers' \in [Did -> Numbered \cup {None}]
  BY CopiesAge
<1>3. calls[i].op = "number"
  BY <1>1, StageOps DEF CoreInv
<1>4. CoreInv'
  <2>1. UNCHANGED <<tables, routes>> /\ (To(i, "ok") \/ To(i, "refused"))
    BY DEF IdentitySaves
  <2> QED BY <1>1, <1>2, <1>3, <2>1, EndKeeps DEF Ends
<1>5. NumbersFit'
  <2>1. identity' = identity /\ numberForm' = numberForm
    BY DEF IdentitySaves, cards
  <2>2. ASSUME NEW u \in Tab
        PROVE  ListsNumbers(identity[u])' /\ EditsNumber(numberForm[u])'
    <3>1. ListsNumbers(identity[u]) /\ EditsNumber(numberForm[u])
      BY DEF NumbersFit
    <3> QED BY <1>2, <2>1, <3>1 DEF ListsNumbers, EditsNumber, CopiesStay, Hook
  <2> QED BY <1>2, <2>1, <2>2 DEF NumbersFit
<1> QED BY <1>4, <1>5

-----------------------------------------------------------------------------
(* Writes.                                                                 *)
WrittenBy(i, old, new) ==
    \A k \in DOMAIN new :
        new[k] = None \/ (k \in DOMAIN old /\ new[k] = old[k]) \/ new[k].by = i

LEMMA WrittenMeanwhile ==
  ASSUME CallsFit, DuringFits, NEW i \in Open, NEW j \in Open, i # j,
         NEW old, NEW new, WrittenBy(i, old, new)
  PROVE  Meanwhile(j, old, new)
<1>1. UnderWay(j, i)
  BY OpenOverlap
<1> QED BY <1>1 DEF WrittenBy, Meanwhile

LEMMA NotWritten == \A i, old : WrittenBy(i, old, old)
BY DEF WrittenBy

LEMMA WriteKeeps ==
  ASSUME CoreInv, NEW i \in Open, To(i, "ok"), numbers' = numbers, TablesFit',
         DOMAIN profiles \subseteq DOMAIN profiles', WrittenBy(i, profiles, profiles'),
         DOMAIN assignments \subseteq DOMAIN assignments', WrittenBy(i, assignments, assignments'),
         WrittenBy(i, appearance, appearance'),
         \A k \in DOMAIN appearance :
            k \in DOMAIN appearance' /\ appearance'[k].tenant = appearance[k].tenant,
         \A j \in Open \ {i} : RouteSeen(j)',
         \A j \in DOMAIN calls : LogoPlaced(j)'
  PROVE  CoreInv'
<1> DEFINE c == [calls[i] EXCEPT !.stage = "ok"]
<1>1. c \in Requests /\ Moved(i, c)
  BY ToFacts DEF Stages, Ends
<1>2. /\ DOMAIN calls' = DOMAIN calls /\ Grows /\ calls'[i].stage = "ok" /\ i \in DOMAIN calls
      /\ calls'[i].scope = calls[i].scope /\ calls'[i].value = calls[i].value
      /\ calls'[i].id = calls[i].id
  BY ToFacts DEF Stages, Ends
<1> HIDE DEF c
<1>3. /\ Len(calls') = Len(calls) /\ calls' \in Seq(Requests) /\ DuringFits'
      /\ \A j \in DOMAIN calls \ {i} : calls'[j] = calls[j] /\ Rests(j)
  BY <1>1, MovedGrows DEF CoreInv
<1>4. CallFits(i)'
  <2>1. CallFits(i) /\ Fixed(i)
    BY <1>2 DEF CoreInv, CallsFit, Grows
  <2> QED BY <1>2, <2>1 DEF CallFits, Fixed, Ends
<1>5. \A j \in DOMAIN calls \ {i} : CallFits(j)'
  BY <1>2, <1>3, RestFits DEF CoreInv, CallsFit
<1>6. CallsFit'
  BY <1>2, <1>3, <1>4, <1>5 DEF CallsFit, CoreInv
<1>7. BasesFit'
  BY <1>2, <1>3 DEF BasesFit, CoreInv, CopyOf, Grows, Fixed
<1>8. ASSUME NEW j \in DOMAIN calls
      PROVE  CallSeen(j)'
  <2>1. CASE j = i
    BY <1>2, <2>1 DEF CallSeen, RouteSeen, ProfileSeen, KeySeen, LookSeen, BrandSeen
  <2>2. CASE j \notin Open
    <3>1. calls'[j].stage \in {"done", "lost"}
      BY <1>3, <2>2 DEF Open
    <3> QED BY <3>1 DEF CallSeen, RouteSeen, ProfileSeen, KeySeen, LookSeen, BrandSeen
  <2>3. CASE j \in Open /\ j # i
    <3>1. Rests(j) /\ CallFits(j) /\ CallSeen(j)
      BY <1>3, <2>3 DEF CoreInv, CallsFit
    <3>2. /\ Meanwhile(j, profiles, profiles') /\ Meanwhile(j, assignments, assignments')
          /\ Meanwhile(j, appearance, appearance')
      BY <2>3, WrittenMeanwhile DEF CoreInv
    <3>3. /\ \A k \in DOMAIN profiles' : profiles'[k] # None
          /\ \A k \in DOMAIN appearance' : appearance'[k] # None
      <4>1. /\ \A k \in DOMAIN profiles' : profiles'[k] \in RowOf({None}, Profile)
            /\ \A k \in DOMAIN appearance' : appearance'[k] \in RowOf({None}, Look)
        BY RowsFit DEF TablesFit
      <4> QED BY <4>1, NoneIsNoRecord
    <3>4. ProfileSeen(j)'
      BY <1>2, <3>1, <3>2, <3>3, RestSeesProfile DEF CallSeen
    <3>5. KeySeen(j)'
      BY <1>2, <3>1, <3>2, RestSeesKey DEF CallSeen
    <3>6. LookSeen(j)'
      BY <1>2, <3>1, <3>2, <3>3, RestSeesLook DEF CallSeen
    <3>7. BrandSeen(j)'
      BY <1>2, <3>1, <3>2, <3>3, RestSeesBrand DEF CallSeen
    <3> QED BY <2>3, <3>4, <3>5, <3>6, <3>7 DEF CallSeen
  <2> QED BY <2>1, <2>2, <2>3
<1> QED BY <1>2, <1>3, <1>6, <1>7, <1>8 DEF CoreInv

(* A write of anything else leaves every upload where it was.              *)
LEMMA LogosStay ==
  ASSUME CoreInv, NEW i \in Open, To(i, "ok"), calls[i].op # "logo", appearance' = appearance
  PROVE  \A j \in DOMAIN calls : LogoPlaced(j)'
<1> SUFFICES ASSUME NEW j \in DOMAIN calls
             PROVE  LogoPlaced(j)'
  OBVIOUS
<1>1. Grows /\ i \in DOMAIN calls
  BY ToFacts DEF Stages, Ends
<1>2. CASE j = i
  BY <1>1, <1>2 DEF LogoPlaced, Grows, Fixed
<1>3. CASE j # i
  <2>1. Rests(j) /\ LogoPlaced(j)
    BY <1>1, <1>3 DEF To, CoreInv, CallSeen, Rests
  <2> QED BY <1>1, <2>1, RestKeepsLogo
<1> QED BY <1>2, <1>3

LEMMA RoutePutKeeps ==
  ASSUME CoreInv, RoutesFit, NEW i, NEW accepted \in BOOLEAN, RoutePut(i, accepted), UNCHANGED tables
  PROVE  CoreInv'
<1>1. i \in Open /\ i \in DOMAIN calls /\ calls[i].stage = "put" /\ numbers' = numbers
  BY DEF RoutePut, At, Open
<1>2. calls[i].op = "route"
  BY <1>1, StageOps DEF CoreInv
<1>3. CASE ~accepted
  <2>1. To(i, "refused") /\ UNCHANGED <<tables, routes, numbers>>
    BY <1>3 DEF RoutePut
  <2> QED BY <1>1, <2>1, RefusalKeeps
<1>4. CASE accepted
  <2>1. To(i, "ok") /\ UNCHANGED <<profiles, assignments, appearance>>
    BY <1>4 DEF RoutePut, tables
  <2>2. PICK route : routes' = [routes EXCEPT ![calls[i].did] = route]
    BY <1>4 DEF RoutePut
  <2>3. /\ DOMAIN calls' = DOMAIN calls /\ Grows
    BY <1>1, <2>1, ToFacts DEF Stages, Ends
  <2>4. ASSUME NEW j \in Open \ {i}
        PROVE  RouteSeen(j)'
    <3>1. j \in DOMAIN calls /\ RouteSeen(j) /\ calls'[j] = calls[j] /\ CallFits(j)
      BY <2>1 DEF To, Open, CoreInv, CallsFit, CallSeen
    <3> SUFFICES ASSUME calls[j].stage = "put"
                 PROVE  RouteSeen(j)'
      BY <3>1 DEF RouteSeen
    <3>2. UnderWay(j, i)
      BY <1>1, OpenOverlap DEF CoreInv
    <3>3. Overlap(j, i)'
      BY <1>1, <2>3, <3>1, <3>2, OverlapStays DEF UnderWay
    <3>4. CASE calls[j].did = calls[i].did
      <4>1. calls'[i].op = "route" /\ calls'[j].did = calls'[i].did
        BY <1>1, <1>2, <2>3, <3>1, <3>4 DEF Grows, Fixed
      <4> QED BY <1>1, <2>3, <3>3, <4>1 DEF RouteSeen
    <3>5. CASE calls[j].did # calls[i].did
      <4>1. Listed(calls[j].did, calls[j].scope)' = Listed(calls[j].did, calls[j].scope)
        BY <2>2, <3>1, <3>5 DEF Listed
      <4>2. CASE Listed(calls[j].did, calls[j].scope) # Manual
        BY <4>1, <4>2 DEF RouteSeen, Manual, Route
      <4>3. CASE \E k \in DOMAIN calls \ {j} :
                    calls[k].op = "route" /\ calls[k].did = calls[j].did /\ Overlap(j, k)
        <5>1. PICK k \in DOMAIN calls \ {j} :
                    calls[k].op = "route" /\ calls[k].did = calls[j].did /\ Overlap(j, k)
          BY <4>3
        <5>2. Overlap(j, k)' /\ calls'[k].op = "route" /\ calls'[k].did = calls'[j].did
          BY <2>3, <3>1, <5>1, OverlapStays DEF Grows, Fixed
        <5> QED BY <2>3, <5>1, <5>2 DEF RouteSeen
      <4> QED BY <3>1, <4>2, <4>3 DEF RouteSeen
    <3> QED BY <3>4, <3>5
  <2>5. TablesFit'
    BY <2>1 DEF TablesFit, CoreInv
  <2>6. \A j \in DOMAIN calls : LogoPlaced(j)'
    BY <1>1, <1>2, <2>1, LogosStay
  <2> QED BY <1>1, <2>1, <2>4, <2>5, <2>6, WriteKeeps, NotWritten
<1> QED BY <1>3, <1>4

(* A row that is created, and one that is patched.                         *)
NewRow(tenant, key, value, by) ==
    [tenant |-> tenant, key |-> key, value |-> value, revision |-> 1, by |-> by]

LEMMA CreateFacts ==
  ASSUME NEW S, NEW table \in Seq(S), NEW row \in S, NEW new, new = Append(table, row)
  PROVE  /\ new \in Seq(S) /\ WrittenBy(row.by, table, new)
         /\ DOMAIN new = DOMAIN table \cup {Len(table) + 1} /\ Len(table) \in Nat
         /\ new[Len(table) + 1] = row
         /\ \A k \in DOMAIN table : new[k] = table[k]
<1>1. /\ new \in Seq(S) /\ Len(new) = Len(table) + 1 /\ new[Len(table) + 1] = row
      /\ \A k \in 1..Len(table) : new[k] = table[k]
  BY AppendProperties
<1>2. /\ DOMAIN table = 1..Len(table) /\ Len(table) \in Nat /\ DOMAIN new = 1..Len(new)
  BY <1>1, RowsFit
<1>3. DOMAIN new = DOMAIN table \cup {Len(table) + 1}
  BY <1>1, <1>2
<1>4. WrittenBy(row.by, table, new)
  BY <1>1, <1>2, <1>3 DEF WrittenBy
<1> QED BY <1>1, <1>2, <1>3, <1>4

LEMMA PatchFacts ==
  ASSUME NEW K, NEW V, NEW S, RowOf(K, V) \subseteq S,
         NEW table \in Seq(S), NEW id \in DOMAIN table, table[id] \in RowOf(K, V),
         NEW value \in V, NEW revision \in Nat, NEW by \in 0..MaxCalls,
         NEW new, new = Patch(table, id, value, revision, by)
  PROVE  /\ new \in Seq(S) /\ WrittenBy(by, table, new) /\ DOMAIN new = DOMAIN table
         /\ new[id].value = value /\ new[id].tenant = table[id].tenant
         /\ \A k \in DOMAIN table \ {id} : new[k] = table[k]
<1> DEFINE row == [table[id] EXCEPT !.value = value, !.revision = revision, !.by = by]
<1>1. /\ row \in RowOf(K, V) /\ row.by = by /\ row.value = value /\ row.tenant = table[id].tenant
  BY DEF RowOf
<1>2. new = [table EXCEPT ![id] = row]
  BY DEF Patch
<1> HIDE DEF row
<1>3. /\ new \in Seq(S) /\ DOMAIN new = DOMAIN table /\ new[id] = row
      /\ \A k \in DOMAIN table \ {id} : new[k] = table[k]
  BY <1>1, <1>2, ExceptSeq, RowsFit
<1>4. WrittenBy(by, table, new)
  BY <1>1, <1>3 DEF WrittenBy
<1> QED BY <1>1, <1>3, <1>4

(* A save of the appearance disturbs no upload that is to stay.            *)
LEMMA LookWriteKeepsLogos ==
  ASSUME CoreInv, NEW i \in Open, To(i, "ok"), calls[i].op \in {"brand", "logo"},
         \A k \in DOMAIN appearance :
            k \in DOMAIN appearance' /\ appearance'[k].tenant = appearance[k].tenant,
         \A k \in DOMAIN appearance' \ DOMAIN appearance :
            /\ k \in Nat /\ appearance'[k].tenant = calls[i].tenant
            /\ \A m \in DOMAIN appearance : m <= k,
         \A k \in DOMAIN appearance :
            appearance[k].tenant # calls[i].tenant \/ calls[i].op = "brand" =>
                appearance'[k].value.logo = appearance[k].value.logo,
         LogoPlaced(i)'
  PROVE  \A j \in DOMAIN calls : LogoPlaced(j)'
<1>1. Grows /\ i \in DOMAIN calls
  BY ToFacts DEF Stages, Ends
<1> SUFFICES ASSUME NEW j \in DOMAIN calls, j # i, calls[j].op = "logo", Quiet(j)'
             PROVE  LogoPlaced(j)'
  BY <1>1 DEF LogoPlaced, Grows, Fixed
<1>2. Quiet(j) /\ Fixed(j) /\ LogoPlaced(j) /\ calls'[j] = calls[j]
  BY <1>1, QuietBefore DEF To, CoreInv, CallSeen, Grows
<1> DEFINE looks == Looks(calls[j].tenant)
<1>3. looks \in SUBSET Nat /\ looks \subseteq DOMAIN appearance
  BY ShownFacts DEF CoreInv
<1>4. CASE calls[j].tenant # calls[i].tenant
  <2>1. Looks(calls[j].tenant)' = looks
    BY <1>2, <1>4 DEF Looks
  <2>2. looks # {} => appearance'[First(looks)].value.logo = appearance[First(looks)].value.logo
    <3>1. looks # {} => First(looks) \in looks
      BY <1>3, FirstFacts
    <3> QED BY <1>3, <1>4, <3>1 DEF Looks
  <2> HIDE DEF looks
  <2>3. looks = Looks(calls[j].tenant)
    BY DEF looks
  <2> QED BY <1>2, <2>1, <2>2, <2>3 DEF LogoPlaced
<1>5. CASE calls[j].tenant = calls[i].tenant
  <2>1. i \in Rivals(j)
    BY <1>1, <1>5 DEF Rivals
  <2>2. ~Overlap(j, i) /\ (calls[i].op = "logo" => i < j)
    BY <1>2, <2>1 DEF Quiet
  <2>3. j \notin Open
    BY <2>2, OpenOverlap DEF CoreInv, UnderWay
  <2>4. calls[i].op = "brand"
    <3> SUFFICES ASSUME calls[i].op = "logo"
                 PROVE  FALSE
      OBVIOUS
    <3>1. i < j /\ DOMAIN calls = 1..Len(calls) /\ Len(calls) \in Nat
      BY <2>2, RowsFit DEF CoreInv, CallsFit
    <3>2. i \in 1..(j - 1)
      BY <1>1, <3>1
    <3>3. i \in calls[j].during
      BY <3>2 DEF CoreInv, DuringFits
    <3> QED BY <2>2, <3>3 DEF Overlap
  <2>5. calls[j].stage \in {"done", "lost"}
    BY <2>3 DEF Open
  <2> SUFFICES ASSUME calls[j].stage = "done"
               PROVE  LogoPlaced(j)'
    BY <1>2, <2>5 DEF LogoPlaced
  <2>6. looks # {} /\ appearance[First(looks)].value.logo = j
    BY <1>2 DEF LogoPlaced
  <2> DEFINE x == First(looks)
  <2>7. x \in looks /\ (\A y \in looks : x <= y) /\ x \in DOMAIN appearance
    BY <1>3, <2>6, FirstFacts
  <2>8. appearance'[x].value.logo = j
    BY <2>4, <2>6, <2>7
  <2> DEFINE new == {k \in DOMAIN appearance' : appearance'[k].tenant = calls[j].tenant}
  <2>9. Looks(calls[j].tenant)' = new
    BY <1>2 DEF Looks
  <2> HIDE DEF x
  <2>10. new \in SUBSET Nat /\ x \in new /\ \A y \in new : x <= y
    <3>1. ASSUME NEW y \in new
          PROVE  y \in Nat /\ x <= y
      <4>1. CASE y \in DOMAIN appearance
        <5>1. y \in looks
          BY <4>1 DEF Looks
        <5> QED BY <1>3, <2>7, <5>1
      <4>2. CASE y \notin DOMAIN appearance
        BY <2>7, <4>2
      <4> QED BY <4>1, <4>2
    <3>2. x \in new
      BY <2>7 DEF Looks
    <3> QED BY <3>1, <3>2
  <2> HIDE DEF new
  <2>11. First(new) = x /\ new # {}
    BY <2>10, FirstIs
  <2> QED BY <1>2, <2>8, <2>9, <2>11 DEF LogoPlaced
<1> QED BY <1>4, <1>5

LEMMA WriterFits ==
  ASSUME CoreInv, NEW i \in DOMAIN calls
  PROVE  /\ i \in 0..MaxCalls /\ i \in Nat /\ calls[i] \in Requests
         /\ calls[i].tenant \in Tenant /\ calls[i].revision \in Nat
         /\ CallFits(i) /\ CallSeen(i) /\ TablesFit
<1>1. DOMAIN calls = 1..Len(calls) /\ Len(calls) \in Nat /\ Len(calls) <= MaxCalls /\ MaxCalls \in Nat
  BY NumberBounds, RowsFit DEF CoreInv, CallsFit
<1>2. i \in 0..MaxCalls /\ i \in Nat
  BY <1>1
<1>3. calls[i] \in Requests
  BY StageOps DEF CoreInv
<1> QED BY <1>2, <1>3 DEF CoreInv, CallsFit, Requests

LEMMA InsertKeeps ==
  ASSUME CoreInv, NEW i, Insert(i)
  PROVE  CoreInv'
<1> DEFINE row == NewRow(calls[i].tenant, StoredKey(calls[i]), calls[i].value, i)
<1>1. /\ i \in Open /\ i \in DOMAIN calls /\ calls[i].stage = "insert" /\ To(i, "ok")
      /\ numbers' = numbers /\ routes' = routes
  BY DEF Insert, At, Open
<1>2. calls[i].op \in {"assign", "create", "brand", "logo"}
  BY <1>1, StageOps DEF CoreInv
<1>3. /\ i \in 0..MaxCalls /\ calls[i].tenant \in Tenant /\ CallFits(i) /\ CallSeen(i) /\ TablesFit
      /\ 1 \in Nat
  BY <1>1, WriterFits
<1>4. DOMAIN calls' = DOMAIN calls /\ Grows /\ calls'[i].stage = "ok" /\ Fixed(i)
      /\ calls'[i].value = calls[i].value
  BY <1>1, ToFacts DEF Stages, Ends, Grows
<1>5. \A j \in Open \ {i} : RouteSeen(j)'
  <2> SUFFICES ASSUME NEW j \in Open \ {i}
               PROVE  RouteSeen(j)'
    OBVIOUS
  <2>1. j \in DOMAIN calls /\ Rests(j) /\ RouteSeen(j)
    BY <1>1 DEF To, Open, CoreInv, CallSeen, Rests
  <2> QED BY <1>1, <1>4, <2>1, RestSeesRoute
<1>6. CASE calls[i].op = "assign"
  <2> DEFINE S == RowOf(Keys, DOMAIN profiles) \cup {None}
  <2>1. /\ assignments' = Append(assignments, row) /\ row.by = i
        /\ profiles' = profiles /\ appearance' = appearance
    BY <1>6 DEF Insert, Becomes, TableOf, Create, NewRow
  <2>2. calls[i].key \in BoundKeys /\ calls[i].value \in DOMAIN profiles
    BY <1>3, <1>6 DEF CallFits
  <2>3. StoredKey(calls[i]) \in Keys
    BY <2>2, NoneIsNoRecord DEF StoredKey, StoredDid, BoundKeys, Keys
  <2>4. row \in S
    BY <1>3, <2>2, <2>3 DEF RowOf, NewRow
  <2>5. assignments \in Seq(S)
    BY <1>3 DEF TablesFit
  <2> HIDE DEF S
  <2> HIDE DEF row
  <2>6. /\ assignments' \in Seq(S) /\ WrittenBy(i, assignments, assignments')
        /\ DOMAIN assignments \subseteq DOMAIN assignments'
    <3> DEFINE new == assignments'
    <3>1. new = Append(assignments, row) /\ row.by = i
      BY <2>1
    <3> HIDE DEF new
    <3>2. new \in Seq(S)
      BY <2>4, <2>5, <3>1, CreateFacts
    <3>3. WrittenBy(row.by, assignments, new)
      BY <2>4, <2>5, <3>1, CreateFacts
    <3>4. DOMAIN new = DOMAIN assignments \cup {Len(assignments) + 1}
      BY <2>4, <2>5, <3>1, CreateFacts
    <3> QED BY <3>1, <3>2, <3>3, <3>4 DEF new
  <2>7. TablesFit'
    BY <1>3, <2>1, <2>6 DEF TablesFit, S
  <2>8. \A j \in DOMAIN calls : LogoPlaced(j)'
    BY <1>1, <1>6, <2>1, LogosStay
  <2> QED BY <1>1, <1>5, <2>1, <2>6, <2>7, <2>8, WriteKeeps, NotWritten
<1>7. CASE calls[i].op = "create"
  <2> DEFINE S == RowOf({None}, Profile)
  <2>1. /\ profiles' = Append(profiles, row) /\ row.by = i
        /\ assignments' = assignments /\ appearance' = appearance
    BY <1>7 DEF Insert, Becomes, TableOf, Create, NewRow
  <2>2. calls[i].key = None /\ calls[i].value \in Profile
    BY <1>3, <1>7 DEF CallFits
  <2>3. row \in S
    BY <1>3, <2>2 DEF RowOf, StoredKey, NewRow
  <2>4. profiles \in Seq(S)
    BY <1>3 DEF TablesFit
  <2> HIDE DEF S
  <2> HIDE DEF row
  <2>5. /\ profiles' \in Seq(S) /\ WrittenBy(i, profiles, profiles')
        /\ DOMAIN profiles \subseteq DOMAIN profiles'
    <3> DEFINE new == profiles'
    <3>1. new = Append(profiles, row) /\ row.by = i
      BY <2>1
    <3> HIDE DEF new
    <3>2. new \in Seq(S)
      BY <2>3, <2>4, <3>1, CreateFacts
    <3>3. WrittenBy(row.by, profiles, new)
      BY <2>3, <2>4, <3>1, CreateFacts
    <3>4. DOMAIN new = DOMAIN profiles \cup {Len(profiles) + 1}
      BY <2>3, <2>4, <3>1, CreateFacts
    <3> QED BY <3>1, <3>2, <3>3, <3>4 DEF new
  <2>6. TablesFit'
    <3>1. RowOf(Keys, DOMAIN profiles) \subseteq RowOf(Keys, DOMAIN profiles')
      BY <2>5 DEF RowOf, NewRow
    <3>2. assignments \in Seq(RowOf(Keys, DOMAIN profiles') \cup {None})
      BY <1>3, <3>1 DEF TablesFit
    <3> QED BY <1>3, <2>1, <2>5, <3>2 DEF TablesFit, S
  <2>7. \A j \in DOMAIN calls : LogoPlaced(j)'
    BY <1>1, <1>7, <2>1, LogosStay
  <2> QED BY <1>1, <1>5, <2>1, <2>5, <2>6, <2>7, WriteKeeps, NotWritten
<1>8. CASE calls[i].op \in {"brand", "logo"}
  <2> DEFINE S == RowOf({None}, Look)
  <2>1. /\ appearance' = Append(appearance, row) /\ row.by = i
        /\ assignments' = assignments /\ profiles' = profiles
    BY <1>8 DEF Insert, Becomes, TableOf, Create, NewRow
  <2>2. calls[i].key = None /\ calls[i].value \in Look /\ (calls[i].op = "logo" => calls[i].value.logo = i)
    BY <1>3, <1>8 DEF CallFits
  <2>3. row \in S
    BY <1>3, <2>2 DEF RowOf, StoredKey, NewRow
  <2>4. appearance \in Seq(S)
    BY <1>3 DEF TablesFit
  <2> HIDE DEF S
  <2> HIDE DEF row
  <2>5. /\ appearance' \in Seq(S) /\ WrittenBy(i, appearance, appearance')
        /\ DOMAIN appearance' = DOMAIN appearance \cup {Len(appearance) + 1}
        /\ Len(appearance) \in Nat /\ appearance'[Len(appearance) + 1] = row
        /\ \A k \in DOMAIN appearance : appearance'[k] = appearance[k]
    <3> DEFINE new == appearance'
    <3>1. new = Append(appearance, row) /\ row.by = i
      BY <2>1
    <3> HIDE DEF new
    <3>2. new \in Seq(S)
      BY <2>3, <2>4, <3>1, CreateFacts
    <3>3. WrittenBy(row.by, appearance, new)
      BY <2>3, <2>4, <3>1, CreateFacts
    <3>4. DOMAIN new = DOMAIN appearance \cup {Len(appearance) + 1}
      BY <2>3, <2>4, <3>1, CreateFacts
    <3>5. new[Len(appearance) + 1] = row /\ Len(appearance) \in Nat
      BY <2>3, <2>4, <3>1, CreateFacts
    <3>6. \A k \in DOMAIN appearance : new[k] = appearance[k]
      BY <2>3, <2>4, <3>1, CreateFacts
    <3> QED BY <3>1, <3>2, <3>3, <3>4, <3>5, <3>6 DEF new
  <2>6. TablesFit'
    BY <1>3, <2>1, <2>5 DEF TablesFit, S
  <2>7. DOMAIN appearance = 1..Len(appearance)
    BY <2>4, RowsFit
  <2>8. LogoPlaced(i)'
    <3> SUFFICES ASSUME calls[i].op = "logo", Quiet(i)'
                 PROVE  LogoPlaced(i)'
      BY <1>4 DEF LogoPlaced, Fixed
    <3> DEFINE n == Len(appearance) + 1
               looks == {k \in DOMAIN appearance' : appearance'[k].tenant = calls[i].tenant}
    <3>1. Looks(calls[i].tenant) = {}
      BY <1>1, <1>3, <1>4, QuietBefore DEF CallSeen, LogoPlaced
    <3>2. looks = {n}
      <4>1. \A k \in DOMAIN appearance : appearance[k].tenant # calls[i].tenant
        BY <3>1 DEF Looks
      <4>2. appearance'[n].tenant = calls[i].tenant
        BY <2>5 DEF row, NewRow
      <4> QED BY <2>5, <4>1, <4>2
    <3>3. appearance'[n].value.logo = i /\ n \in Nat
      BY <2>2, <2>5 DEF row, NewRow
    <3> HIDE DEF n
    <3>4. First({n}) = n
      BY <3>3, FirstIs
    <3>5. Looks(calls[i].tenant)' = looks
      BY <1>4 DEF Looks, Fixed
    <3> HIDE DEF looks
    <3> QED BY <1>4, <3>2, <3>3, <3>4, <3>5 DEF LogoPlaced
  <2>9. /\ \A k \in DOMAIN appearance :
             k \in DOMAIN appearance' /\ appearance'[k].tenant = appearance[k].tenant
        /\ \A k \in DOMAIN appearance' \ DOMAIN appearance :
             /\ k \in Nat /\ appearance'[k].tenant = calls[i].tenant
             /\ \A m \in DOMAIN appearance : m <= k
        /\ \A k \in DOMAIN appearance :
             appearance'[k].value.logo = appearance[k].value.logo
    <3>1. row.tenant = calls[i].tenant
      BY DEF row, NewRow
    <3> HIDE DEF row
    <3> QED BY <2>5, <2>7, <3>1
  <2>10. \A j \in DOMAIN calls : LogoPlaced(j)'
    BY <1>1, <1>8, <2>8, <2>9, LookWriteKeepsLogos
  <2> QED BY <1>1, <1>5, <2>1, <2>5, <2>6, <2>9, <2>10, WriteKeeps, NotWritten
<1> QED BY <1>2, <1>6, <1>7, <1>8

LEMMA UpdateKeeps ==
  ASSUME CoreInv, NEW i, Update(i)
  PROVE  CoreInv'
<1> DEFINE id == calls[i].id
           table == TableOf(calls[i])
           value == Columns(calls[i], table[id])
<1>1. /\ i \in Open /\ i \in DOMAIN calls /\ calls[i].stage = "patch"
      /\ numbers' = numbers /\ routes' = routes
  BY DEF Update, At, Open
<1>2. calls[i].op \in {"assign", "edit", "brand", "logo"}
  BY <1>1, StageOps DEF CoreInv
<1>3. /\ i \in 0..MaxCalls /\ calls[i].tenant \in Tenant /\ CallFits(i) /\ CallSeen(i) /\ TablesFit
      /\ calls[i].revision + 1 \in Nat
  BY <1>1, WriterFits
<1>4. CASE table[id] = None
  <2>1. To(i, "refused") /\ UNCHANGED tables
    BY <1>4 DEF Update
  <2> QED BY <1>1, <2>1, RefusalKeeps
<1>5. CASE table[id] # None
  <2>1. To(i, "ok")
    BY <1>5 DEF Update
  <2>2. DOMAIN calls' = DOMAIN calls /\ Grows /\ calls'[i].stage = "ok" /\ Fixed(i)
    BY <1>1, <2>1, ToFacts DEF Stages, Ends, Grows
  <2>3. \A j \in Open \ {i} : RouteSeen(j)'
    <3> SUFFICES ASSUME NEW j \in Open \ {i}
                 PROVE  RouteSeen(j)'
      OBVIOUS
    <3>1. j \in DOMAIN calls /\ Rests(j) /\ RouteSeen(j)
      BY <2>1 DEF To, Open, CoreInv, CallSeen, Rests
    <3> QED BY <1>1, <2>2, <3>1, RestSeesRoute
  <2>4. CASE calls[i].op = "assign"
    <3> DEFINE S == RowOf(Keys, DOMAIN profiles) \cup {None}
    <3>1. /\ assignments' = Patch(assignments, id, calls[i].value, calls[i].revision + 1, i)
          /\ profiles' = profiles /\ appearance' = appearance /\ assignments[id] # None
      BY <1>5, <2>4 DEF Update, Becomes, TableOf, Columns
    <3>2. id \in DOMAIN assignments /\ calls[i].value \in DOMAIN profiles
      BY <1>1, <1>3, <2>4 DEF CallFits
    <3>3. assignments[id] \in RowOf(Keys, DOMAIN profiles)
      BY <1>3, <3>1, <3>2, AssignmentRows DEF Ids
    <3>4. assignments \in Seq(S) /\ RowOf(Keys, DOMAIN profiles) \subseteq S
      BY <1>3 DEF TablesFit
    <3> HIDE DEF S
    <3>5. /\ assignments' \in Seq(S) /\ WrittenBy(i, assignments, assignments')
          /\ DOMAIN assignments' = DOMAIN assignments
      BY <1>3, <3>1, <3>2, <3>3, <3>4, PatchFacts
    <3>6. TablesFit'
      BY <1>3, <3>1, <3>5 DEF TablesFit, S
    <3>7. \A j \in DOMAIN calls : LogoPlaced(j)'
      BY <1>1, <2>1, <2>4, <3>1, LogosStay
    <3> QED BY <1>1, <2>1, <2>3, <3>1, <3>5, <3>6, <3>7, WriteKeeps, NotWritten
  <2>5. CASE calls[i].op = "edit"
    <3> DEFINE S == RowOf({None}, Profile)
    <3>1. /\ profiles' = Patch(profiles, id, calls[i].value, calls[i].revision + 1, i)
          /\ assignments' = assignments /\ appearance' = appearance
      BY <1>5, <2>5 DEF Update, Becomes, TableOf, Columns
    <3>2. id \in DOMAIN profiles /\ calls[i].value \in Profile
      BY <1>3, <2>5 DEF CallFits
    <3>3. profiles \in Seq(S) /\ profiles[id] \in S
      BY <1>3, <3>2, RowsFit DEF TablesFit
    <3>4. /\ profiles' \in Seq(S) /\ WrittenBy(i, profiles, profiles')
          /\ DOMAIN profiles' = DOMAIN profiles
      BY <1>3, <3>1, <3>2, <3>3, PatchFacts
    <3> HIDE DEF S
    <3>5. TablesFit'
      BY <1>3, <3>1, <3>4 DEF TablesFit, S
    <3>6. \A j \in DOMAIN calls : LogoPlaced(j)'
      BY <1>1, <2>1, <2>5, <3>1, LogosStay
    <3> QED BY <1>1, <2>1, <2>3, <3>1, <3>4, <3>5, <3>6, WriteKeeps, NotWritten
  <2>6. CASE calls[i].op \in {"brand", "logo"}
    <3> DEFINE S == RowOf({None}, Look)
    <3>1. table = appearance
      BY <2>6 DEF TableOf
    <3>2. /\ appearance' = Patch(appearance, id, value, calls[i].revision + 1, i)
          /\ assignments' = assignments /\ profiles' = profiles
      BY <1>5, <2>6, <3>1 DEF Update, Becomes
    <3>3. /\ id \in DOMAIN appearance /\ appearance[id].tenant = calls[i].tenant
          /\ calls[i].value \in Look /\ (calls[i].op = "logo" => calls[i].value.logo = i)
      BY <1>1, <1>3, <2>6 DEF CallFits
    <3>4. appearance \in Seq(S) /\ appearance[id] \in S /\ appearance[id].value \in Look
      BY <1>3, <3>3, LookRows DEF TablesFit
    <3>5. /\ value \in Look
          /\ calls[i].op = "brand" => value.logo = appearance[id].value.logo
          /\ calls[i].op = "logo" => value.logo = i
      BY <3>1, <3>3, <3>4 DEF Columns, Look
    <3> HIDE DEF value
    <3>6. /\ appearance' \in Seq(S) /\ WrittenBy(i, appearance, appearance')
          /\ DOMAIN appearance' = DOMAIN appearance
          /\ appearance'[id].value = value /\ appearance'[id].tenant = appearance[id].tenant
          /\ \A k \in DOMAIN appearance \ {id} : appearance'[k] = appearance[k]
      BY <1>3, <3>2, <3>3, <3>4, <3>5, PatchFacts
    <3> HIDE DEF S
    <3>7. TablesFit'
      BY <1>3, <3>2, <3>6 DEF TablesFit, S
    <3>8. \A k \in DOMAIN appearance :
             k \in DOMAIN appearance' /\ appearance'[k].tenant = appearance[k].tenant
      BY <3>6
    <3>9. LogoPlaced(i)'
      <4> SUFFICES ASSUME calls[i].op = "logo", Quiet(i)'
                   PROVE  LogoPlaced(i)'
        BY <2>2 DEF LogoPlaced, Fixed
      <4>1. /\ Looks(calls[i].tenant) # {} /\ id = First(Looks(calls[i].tenant))
        BY <1>1, <1>3, <2>2, QuietBefore DEF CallSeen, LogoPlaced
      <4>2. Looks(calls[i].tenant)' = Looks(calls[i].tenant)
        BY <2>2, <3>6, <3>8 DEF Looks, Fixed
      <4> QED BY <2>2, <3>5, <3>6, <4>1, <4>2 DEF LogoPlaced
    <3>10. \A k \in DOMAIN appearance :
              appearance[k].tenant # calls[i].tenant \/ calls[i].op = "brand" =>
                appearance'[k].value.logo = appearance[k].value.logo
      BY <3>3, <3>5, <3>6
    <3>11. \A j \in DOMAIN calls : LogoPlaced(j)'
      BY <1>1, <2>1, <2>6, <3>6, <3>8, <3>9, <3>10, LookWriteKeepsLogos
    <3> QED BY <1>1, <2>1, <2>3, <3>2, <3>6, <3>7, <3>8, <3>11, WriteKeeps, NotWritten
  <2> QED BY <1>2, <2>4, <2>5, <2>6
<1> QED BY <1>4, <1>5

LEMMA RemoveKeeps ==
  ASSUME CoreInv, NEW i, Remove(i)
  PROVE  CoreInv'
<1> DEFINE S == RowOf(Keys, DOMAIN profiles) \cup {None}
<1>1. /\ i \in Open /\ i \in DOMAIN calls /\ calls[i].stage = "delete" /\ To(i, "ok")
      /\ numbers' = numbers /\ routes' = routes
  BY DEF Remove, At, Open
<1>2. calls[i].op = "unassign"
  BY <1>1, StageOps DEF CoreInv
<1>3. /\ assignments' = [assignments EXCEPT ![calls[i].id] = None]
      /\ profiles' = profiles /\ appearance' = appearance
  BY <1>2 DEF Remove, Becomes, Delete
<1>4. assignments \in Seq(S) /\ None \in S /\ TablesFit
  BY DEF TablesFit, CoreInv
<1> HIDE DEF S
<1>5. /\ assignments' \in Seq(S) /\ DOMAIN assignments' = DOMAIN assignments
      /\ \A k \in DOMAIN assignments : assignments'[k] \in {assignments[k], None}
  <2>1. DOMAIN assignments = 1..Len(assignments)
    BY <1>4, RowsFit
  <2>2. CASE calls[i].id \in DOMAIN assignments
    BY <1>3, <1>4, <2>1, <2>2, ExceptSeq
  <2>3. CASE calls[i].id \notin DOMAIN assignments
    <3>1. assignments' = assignments
      BY <1>3, <1>4, <2>3
    <3> QED BY <1>4, <3>1
  <2> QED BY <2>2, <2>3
<1>6. WrittenBy(i, assignments, assignments')
  BY <1>5 DEF WrittenBy
<1>7. TablesFit'
  BY <1>3, <1>4, <1>5 DEF TablesFit, S
<1>8. \A j \in DOMAIN calls : LogoPlaced(j)'
  BY <1>1, <1>2, <1>3, LogosStay
<1>9. \A j \in Open \ {i} : RouteSeen(j)'
  <2> SUFFICES ASSUME NEW j \in Open \ {i}
               PROVE  RouteSeen(j)'
    OBVIOUS
  <2>1. j \in DOMAIN calls /\ Rests(j) /\ RouteSeen(j) /\ Grows
    BY <1>1, ToFacts DEF To, Open, CoreInv, CallSeen, Rests, Stages, Ends
  <2> QED BY <1>1, <2>1, RestSeesRoute
<1> QED BY <1>1, <1>3, <1>5, <1>6, <1>7, <1>8, <1>9, WriteKeeps, NotWritten

-----------------------------------------------------------------------------
(* The screens between requests.                                           *)
LEMMA CoreRests ==
  ASSUME CoreInv, UNCHANGED <<tables, routes, numbers>>,
         DOMAIN calls' = DOMAIN calls, calls' \in Seq(Requests), Len(calls') = Len(calls),
         \A i \in DOMAIN calls : Fixed(i) /\ Rests(i)
  PROVE  CoreInv'
<1>1. Grows
  BY DEF Grows
<1>2. \A i \in DOMAIN calls : CallFits(i)' /\ CallSeen(i)'
  BY <1>1, RestKeeps DEF CoreInv, CallsFit
<1>3. CallsFit'
  BY <1>2 DEF CallsFit, CoreInv
<1>4. DuringFits'
  <2>1. \A i \in DOMAIN calls : i \in Open' <=> i \in Open
    BY DEF Open, Rests
  <2>2. \A j \in DOMAIN calls : 1..(j - 1) \subseteq DOMAIN calls
    BY RowsFit DEF CoreInv, CallsFit
  <2> QED BY <2>1, <2>2 DEF DuringFits, CoreInv, Fixed
<1>5. TablesFit'
  BY DEF TablesFit, tables, CoreInv
<1>6. BasesFit'
  BY DEF BasesFit, CoreInv, CopyOf, Fixed
<1> QED BY <1>2, <1>3, <1>4, <1>5, <1>6 DEF CoreInv

LEMMA CoreStutters ==
  ASSUME CoreInv, UNCHANGED <<calls, tables, routes, numbers>>
  PROVE  CoreInv'
<1>1. calls' = calls
  OBVIOUS
<1> QED BY <1>1, CoreRests DEF CoreInv, CallsFit, Fixed, Rests

LEMMA NumbersRest ==
  ASSUME NumbersFit, UNCHANGED <<numbers, identity, numberForm>>
  PROVE  NumbersFit'
BY DEF NumbersFit, ListsNumbers, EditsNumber, CopyOf, Hook

LEMMA RoutesRest ==
  ASSUME RoutesFit, UNCHANGED <<routes, contexts, routing, draft>>
  PROVE  RoutesFit'
BY DEF RoutesFit, DraftOfShownRoute, Hook

LEMMA ScreensRest ==
  ASSUME ScreensFit, UNCHANGED <<place, inventory, list, editing>>,
         DOMAIN profiles \subseteq DOMAIN profiles'
  PROVE  ScreensFit'
BY DEF ScreensFit, ListsRows, ListsProfiles, EditsProfile, Hook

(* What is done to a hook.                                                 *)
LEMMA HookFacts ==
  /\ Hook(Unloaded) /\ Unloaded.data = None
  /\ \A data : Hook(Loaded(data)) /\ Loaded(data).data = data
  /\ \A h : Hook(h) =>
       /\ Hook(Stale(h)) /\ Stale(h).data = h.data
       /\ Hook(Refresh(h)) /\ Refresh(h).data = h.data
       /\ \A loading : LET g == [h EXCEPT !.loading = loading]
                       IN  Hook(g) /\ g.data = h.data
BY DEF Hook, Unloaded, Loaded, Stale, Refresh

(* One tab's list of numbers, or its form, is another.                     *)
LEMMA NumbersFitIn ==
  ASSUME NumbersFit, numbers' = numbers, NEW t \in Tab,
         NEW h, ListsNumbers(h), identity' = identity \/ identity' = [identity EXCEPT ![t] = h],
         NEW form, EditsNumber(form),
         numberForm' = numberForm \/ numberForm' = [numberForm EXCEPT ![t] = form]
  PROVE  NumbersFit'
<1>1. \A g : ListsNumbers(g)' <=> ListsNumbers(g)
  BY DEF ListsNumbers, CopyOf, Hook
<1>2. \A g : EditsNumber(g)' <=> EditsNumber(g)
  BY DEF EditsNumber, CopyOf
<1>3. DOMAIN identity' = Tab /\ \A u \in Tab : identity'[u] \in {identity[u], h}
  BY DEF NumbersFit
<1>4. DOMAIN numberForm' = Tab /\ \A u \in Tab : numberForm'[u] \in {numberForm[u], form}
  BY DEF NumbersFit
<1>5. ASSUME NEW u \in Tab
      PROVE  ListsNumbers(identity[u])'
  <2>1. ListsNumbers(identity'[u])
    BY <1>3 DEF NumbersFit
  <2> QED BY <2>1, <1>1 DEF ListsNumbers, CopyOf, Hook
<1>6. ASSUME NEW u \in Tab
      PROVE  EditsNumber(numberForm[u])'
  <2>1. EditsNumber(numberForm'[u])
    BY <1>4 DEF NumbersFit
  <2> QED BY <2>1 DEF EditsNumber, CopyOf
<1> QED BY <1>3, <1>4, <1>5, <1>6 DEF NumbersFit

LEMMA SameNumberFits ==
  ASSUME NumbersFit, NEW t \in Tab, NEW h, Hook(h), h.data \in {None, identity[t].data}
  PROVE  ListsNumbers(h)
<1>1. ListsNumbers(identity[t])
  BY DEF NumbersFit
<1> QED BY <1>1 DEF ListsNumbers

LEMMA LoadNumbersKeeps ==
  ASSUME IInv, NEW t \in Tab, NEW fails \in BOOLEAN, LoadNumbers(t, fails), UNCHANGED <<tables, screens>>
  PROVE  IInv'
<1> DEFINE data == [d \in Of(place[t].tenant) |-> numbers[d]]
           h == IF fails THEN Stale(identity[t]) ELSE Loaded(data)
           g == [routing[t] EXCEPT !.loading = "held"]
<1> USE DEF IInv
<1>1. CoreInv'
  BY CoreStutters DEF LoadNumbers
<1>2. Hook(identity[t]) /\ Hook(routing[t])
  BY DEF NumbersFit, ListsNumbers, RoutesFit
<1>3. ListsNumbers(h)
  <2>1. CASE fails
    BY <1>2, <2>1, HookFacts, SameNumberFits
  <2>2. CASE ~fails
    <3>1. DOMAIN data \subseteq Did /\ \A d \in DOMAIN data : data[d] = numbers[d]
      BY DEF Of
    <3>2. \A d \in DOMAIN data : CopyOf(d, data[d])
      BY <3>1 DEF CopyOf, NumbersFit, Numbered
    <3> HIDE DEF data
    <3> QED BY <2>2, <3>1, <3>2, HookFacts DEF ListsNumbers
  <2> QED BY <2>1, <2>2
<1>4. identity' = [identity EXCEPT ![t] = h] /\ numberForm' = numberForm /\ numbers' = numbers
  BY DEF LoadNumbers
<1>5. NumbersFit'
  <2> HIDE DEF h
  <2>1. EditsNumber(numberForm[t])
    BY DEF NumbersFit
  <2> QED BY <1>3, <1>4, <2>1, NumbersFitIn
<1>6. RoutesFit'
  <2>1. \A u \in Tab : Hook(routing'[u]) /\ routing'[u].data = routing[u].data
    <3>1. routing' = [routing EXCEPT ![t] = IF identity[t].loading = "then routing" THEN g ELSE routing[t]]
      BY DEF LoadNumbers
    <3>2. Hook(g) /\ g.data = routing[t].data
      BY <1>2, HookFacts
    <3> HIDE DEF g
    <3> QED BY <1>2, <3>1, <3>2 DEF RoutesFit
  <2>2. DOMAIN routing' = Tab /\ UNCHANGED <<routes, contexts, draft>>
    BY DEF LoadNumbers, RoutesFit
  <2> QED BY <2>1, <2>2 DEF RoutesFit, DraftOfShownRoute
<1>7. ScreensFit'
  BY ScreensRest DEF LoadNumbers, screens, tables
<1> QED BY <1>1, <1>5, <1>6, <1>7

(* What a routing card shows is what its form was filled from.             *)
DraftsRoute(h, forms) ==
    Hook(h) /\ \A d \in Did : h.data # None => forms[d] \in {FormFor(h.data.route[d]), Emptied}

LEMMA FormIsDrafted ==
  ASSUME NEW route
  PROVE  FormFor(route) \in Drafted
BY DEF FormFor, Drafted

LEMMA RoutesFitIn ==
  ASSUME RoutesFit, UNCHANGED routes, contexts' \in [Tenant -> Seq(Context)], NEW t \in Tab,
         NEW h, routing' = routing \/ routing' = [routing EXCEPT ![t] = h],
         NEW forms \in [Did -> Drafted], draft' = [draft EXCEPT ![t] = forms] \/ draft' = draft,
         DraftsRoute(routing'[t], draft'[t])
  PROVE  RoutesFit'
<1>1. DOMAIN routing' = Tab /\ \A u \in Tab \ {t} : routing'[u] = routing[u]
  BY DEF RoutesFit
<1>2. draft' \in [Tab -> [Did -> Drafted]] /\ \A u \in Tab \ {t} : draft'[u] = draft[u]
  BY DEF RoutesFit
<1>3. \A u \in Tab : Hook(routing'[u])
  BY <1>1 DEF RoutesFit, DraftsRoute
<1>4. DraftOfShownRoute'
  BY <1>1, <1>2 DEF RoutesFit, DraftOfShownRoute, DraftsRoute
<1> QED BY <1>1, <1>2, <1>3, <1>4 DEF RoutesFit

(* The card keeps what it shows, and its form.                             *)
LEMMA SameRouteFits ==
  ASSUME RoutesFit, NEW t \in Tab, NEW h, Hook(h), h.data = routing[t].data
  PROVE  DraftsRoute(h, draft[t]) /\ draft[t] \in [Did -> Drafted]
BY DEF RoutesFit, DraftOfShownRoute, DraftsRoute

LEMMA RoutingHookFits ==
  ASSUME RoutesFit, UNCHANGED <<routes, contexts, draft>>, NEW t \in Tab,
         NEW h, Hook(h), h.data = routing[t].data,
         routing' = routing \/ routing' = [routing EXCEPT ![t] = h]
  PROVE  RoutesFit'
<1>1. routing'[t] \in {h, routing[t]} /\ Hook(routing[t]) /\ contexts \in [Tenant -> Seq(Context)]
  BY DEF RoutesFit
<1>2. DraftsRoute(routing'[t], draft[t]) /\ draft[t] \in [Did -> Drafted]
  BY <1>1, SameRouteFits
<1> QED BY <1>1, <1>2, RoutesFitIn

LEMMA LoadRoutesKeeps ==
  ASSUME IInv, NEW t \in Tab, NEW fails \in BOOLEAN, LoadRoutes(t, fails), UNCHANGED <<tables, screens>>
  PROVE  IInv'
<1> USE DEF IInv
<1> DEFINE c == Acting(place[t].tenant, context[t])
           data == [context |-> c, route |-> [d \in Did |-> Listed(d, c)]]
           lost == \/ contexts[place[t].tenant] = <<>>
                   \/ context[t] # None /\ ~Holds(place[t].tenant, context[t])
           h == IF fails \/ lost THEN Stale(routing[t]) ELSE Loaded(data)
           forms == IF fails \/ lost THEN draft[t] ELSE Redraft(t, data)
<1>1. CoreInv'
  BY CoreStutters DEF LoadRoutes
<1>2. NumbersFit'
  BY NumbersRest DEF LoadRoutes
<1>3. ScreensFit'
  BY ScreensRest DEF LoadRoutes, screens, tables
<1>4. Hook(routing[t]) /\ draft[t] \in [Did -> Drafted]
  BY DEF RoutesFit
<1>5. /\ routing' = [routing EXCEPT ![t] = h] /\ draft' = [draft EXCEPT ![t] = forms]
      /\ UNCHANGED <<routes, contexts>>
  BY DEF LoadRoutes
<1>6. DraftsRoute(h, forms) /\ forms \in [Did -> Drafted]
  <2>1. CASE fails \/ lost
    BY <1>4, <2>1, HookFacts, SameRouteFits
  <2>2. CASE ~(fails \/ lost)
    <3> HIDE DEF lost
    <3>1. h = Loaded(data) /\ forms = Redraft(t, data)
      BY <2>2
    <3> HIDE DEF h, forms, data
    <3>2. Hook(h) /\ h.data = data
      BY <3>1, HookFacts
    <3>3. ASSUME NEW d \in Did
          PROVE  forms[d] \in {FormFor(data.route[d]), Emptied} /\ forms[d] \in Drafted
      <4>1. forms[d] = IF routing[t].data = None \/ routing[t].data.route[d] # data.route[d]
                       THEN FormFor(data.route[d]) ELSE draft[t][d]
        BY <3>1 DEF Redraft
      <4>2. CASE routing[t].data = None \/ routing[t].data.route[d] # data.route[d]
        BY <4>1, <4>2, FormIsDrafted
      <4>3. CASE routing[t].data # None /\ routing[t].data.route[d] = data.route[d]
        BY <1>4, <4>1, <4>3 DEF RoutesFit, DraftOfShownRoute
      <4> QED BY <4>2, <4>3
    <3>4. forms = [d \in Did |-> forms[d]]
      BY <3>1 DEF Redraft
    <3>5. forms \in [Did -> Drafted]
      BY <3>3, <3>4
    <3> QED BY <3>2, <3>3, <3>5 DEF DraftsRoute
  <2> QED BY <2>1, <2>2
<1> HIDE DEF h, forms
<1>7. routing'[t] = h /\ draft'[t] = forms
  BY <1>5 DEF RoutesFit
<1>8. RoutesFit'
  BY <1>5, <1>6, <1>7, RoutesFitIn DEF RoutesFit
<1> QED BY <1>1, <1>2, <1>3, <1>8

LEMMA SelectContextKeeps ==
  ASSUME IInv, NEW t \in Tab, NEW c \in Context, SelectContext(t, c), UNCHANGED <<tables, screens>>
  PROVE  IInv'
<1> USE DEF IInv
<1>1. CoreInv' /\ NumbersFit'
  BY CoreStutters, NumbersRest DEF SelectContext
<1>2. ScreensFit'
  BY ScreensRest DEF SelectContext, screens, tables
<1>3. Hook(Refresh(routing[t])) /\ Refresh(routing[t]).data = routing[t].data
  BY HookFacts DEF RoutesFit
<1>4. routing' = [routing EXCEPT ![t] = Refresh(routing[t])] /\ UNCHANGED <<routes, contexts, draft>>
  BY DEF SelectContext
<1>5. RoutesFit'
  BY <1>3, <1>4, RoutingHookFits
<1> QED BY <1>1, <1>2, <1>5

LEMMA EditNumberKeeps ==
  ASSUME IInv, NEW t \in Tab, NEW d \in Did, EditNumber(t, d) \/ AddNumber(t, d),
         UNCHANGED <<tables, screens>>
  PROVE  IInv'
<1> USE DEF IInv
<1>1. CoreInv'
  BY CoreStutters DEF EditNumber, AddNumber
<1>2. ScreensFit' /\ RoutesFit'
  BY ScreensRest, RoutesRest DEF EditNumber, AddNumber, screens, tables
<1>3. ListsNumbers(identity[t])
  BY DEF NumbersFit
<1>4. identity' = identity /\ numbers' = numbers
  BY DEF EditNumber, AddNumber
<1>5. CASE EditNumber(t, d)
  <2> DEFINE form == [did |-> d, base |-> identity[t].data[d]]
  <2>1. numberForm' = [numberForm EXCEPT ![t] = form] /\ d \in DOMAIN identity[t].data
        /\ identity[t].data # None
    BY <1>5 DEF EditNumber, Settled
  <2>2. EditsNumber(form)
    BY <1>3, <2>1 DEF EditsNumber, ListsNumbers
  <2> HIDE DEF form
  <2> QED BY <1>1, <1>2, <1>3, <1>4, <2>1, <2>2, NumbersFitIn
<1>6. CASE AddNumber(t, d)
  <2> DEFINE form == [did |-> d, base |-> None]
  <2>1. numberForm' = [numberForm EXCEPT ![t] = form]
    BY <1>6 DEF AddNumber
  <2>2. EditsNumber(form)
    BY DEF EditsNumber, CopyOf
  <2> HIDE DEF form
  <2> QED BY <1>1, <1>2, <1>3, <1>4, <2>1, <2>2, NumbersFitIn
<1> QED BY <1>5, <1>6

LEMMA NumberAnsweredKeeps ==
  ASSUME IInv, NEW i, NumberAnswered(i), UNCHANGED <<tables, screens>>
  PROVE  IInv'
<1> USE DEF IInv
<1> DEFINE t == calls[i].tab
           h == [identity[t] EXCEPT !.loading = "then routing"]
<1>1. CoreInv'
  BY FinishKeeps DEF NumberAnswered
<1>2. ScreensFit' /\ RoutesFit'
  BY ScreensRest, RoutesRest DEF NumberAnswered, screens, tables
<1>3. t \in Tab
  BY StageOps DEF NumberAnswered, CoreInv, Requests
<1>4. ListsNumbers(identity[t])
  BY <1>3 DEF NumbersFit
<1>5. ListsNumbers(h) /\ EditsNumber(None)
  <2>1. Hook(h) /\ h.data = identity[t].data
    BY <1>4, HookFacts DEF ListsNumbers
  <2> QED BY <1>3, <2>1, SameNumberFits DEF EditsNumber
<1>6. /\ numbers' = numbers
      /\ identity' = identity \/ identity' = [identity EXCEPT ![t] = h]
      /\ numberForm' = numberForm \/ numberForm' = [numberForm EXCEPT ![t] = None]
  BY DEF NumberAnswered
<1> HIDE DEF t, h
<1>7. NumbersFit'
  BY <1>3, <1>5, <1>6, NumbersFitIn
<1> QED BY <1>1, <1>2, <1>7

LEMMA RouteAnsweredKeeps ==
  ASSUME IInv, NEW i, RouteAnswered(i), UNCHANGED <<tables, screens>>
  PROVE  IInv'
<1> USE DEF IInv
<1> DEFINE t == calls[i].tab
           h == Refresh(routing[t])
           forms == [draft[t] EXCEPT ![calls[i].did] = Emptied]
<1>1. CoreInv'
  BY FinishKeeps DEF RouteAnswered
<1>2. ScreensFit' /\ NumbersFit'
  BY ScreensRest, NumbersRest DEF RouteAnswered, screens, tables
<1>3. t \in Tab
  BY StageOps DEF RouteAnswered, CoreInv, Requests
<1>4. Hook(h) /\ h.data = routing[t].data /\ Hook(routing[t])
  BY <1>3, HookFacts DEF RoutesFit
<1>5. /\ UNCHANGED <<routes, contexts>>
      /\ routing' = routing \/ routing' = [routing EXCEPT ![t] = h]
      /\ draft' = draft \/ draft' = [draft EXCEPT ![t] = forms]
  BY DEF RouteAnswered
<1>6. draft[t] \in [Did -> Drafted] /\ DraftsRoute(h, draft[t]) /\ DraftsRoute(routing[t], draft[t])
  BY <1>3, <1>4, SameRouteFits
<1>7. forms \in [Did -> Drafted] /\ DraftsRoute(h, forms) /\ DraftsRoute(routing[t], forms)
  <2>1. Emptied \in Drafted
    BY DEF Drafted
  <2>2. forms \in [Did -> Drafted] /\ \A d \in Did : forms[d] \in {draft[t][d], Emptied}
    BY <1>6, <2>1
  <2> HIDE DEF forms, h
  <2> QED BY <1>6, <2>2 DEF DraftsRoute
<1> HIDE DEF h, forms
<1>8. routing'[t] \in {h, routing[t]} /\ draft'[t] \in {forms, draft[t]}
  BY <1>3, <1>5 DEF RoutesFit
<1> HIDE DEF t
<1>9. DraftsRoute(routing'[t], draft'[t])
  BY <1>6, <1>7, <1>8
<1>10. contexts' \in [Tenant -> Seq(Context)]
  BY <1>5 DEF RoutesFit
<1>11. RoutesFit'
  BY <1>3, <1>5, <1>7, <1>9, <1>10, RoutesFitIn
<1> QED BY <1>1, <1>2, <1>11

(* One tab's list of rows or of profiles, or its form, is another.         *)
LEMMA ScreensFitIn ==
  ASSUME ScreensFit, UNCHANGED profiles, NEW t \in Tab,
         place' = place \/ \E p \in [tenant: Tenant, page: {"profiles", "numbers", "appearance"}] :
                              place' = [place EXCEPT ![t] = p],
         NEW h, ListsRows(h), inventory' = inventory \/ inventory' = [inventory EXCEPT ![t] = h],
         NEW l, ListsProfiles(l), list' = list \/ list' = [list EXCEPT ![t] = l],
         NEW form, EditsProfile(form), editing' = editing \/ editing' = [editing EXCEPT ![t] = form]
  PROVE  ScreensFit'
<1>1. /\ DOMAIN inventory' = Tab /\ \A u \in Tab : inventory'[u] \in {inventory[u], h}
      /\ DOMAIN list' = Tab /\ \A u \in Tab : list'[u] \in {list[u], l}
      /\ DOMAIN editing' = Tab /\ \A u \in Tab : editing'[u] \in {editing[u], form}
  BY DEF ScreensFit
<1>2. ASSUME NEW u \in Tab
      PROVE  ListsRows(inventory[u])' /\ ListsProfiles(list[u])' /\ EditsProfile(editing[u])'
  <2>1. ListsRows(inventory'[u]) /\ ListsProfiles(list'[u]) /\ EditsProfile(editing'[u])
    BY <1>1 DEF ScreensFit
  <2> QED BY <2>1 DEF ListsRows, ListsProfiles, EditsProfile, Hook
<1>3. place' \in [Tab -> [tenant: Tenant, page: {"profiles", "numbers", "appearance", "elsewhere"}]]
  <2>1. [tenant: Tenant, page: {"profiles", "numbers", "appearance"}]
          \subseteq [tenant: Tenant, page: {"profiles", "numbers", "appearance", "elsewhere"}]
    OBVIOUS
  <2> QED BY <2>1 DEF ScreensFit
<1> QED BY <1>1, <1>2, <1>3 DEF ScreensFit

LEMMA ScreensNow ==
  ASSUME ScreensFit, NEW t \in Tab
  PROVE  /\ ListsRows(inventory[t]) /\ ListsProfiles(list[t]) /\ EditsProfile(editing[t])
         /\ ListsRows(Refresh(inventory[t])) /\ ListsRows(Stale(inventory[t]))
         /\ ListsRows(Unloaded) /\ EditsProfile(None)
         /\ ListsProfiles(Unloaded) /\ ListsProfiles(Refresh(list[t]))
<1>1. ListsRows(inventory[t]) /\ ListsProfiles(list[t]) /\ EditsProfile(editing[t])
  BY DEF ScreensFit
<1>2. Hook(inventory[t]) /\ Hook(list[t])
  BY <1>1 DEF ListsRows, ListsProfiles
<1>3. /\ Hook(Stale(inventory[t])) /\ Stale(inventory[t]).data = inventory[t].data
      /\ Hook(Refresh(inventory[t])) /\ Refresh(inventory[t]).data = inventory[t].data
      /\ Hook(Refresh(list[t])) /\ Refresh(list[t]).data = list[t].data
      /\ Hook(Unloaded) /\ Unloaded.data = None
  BY <1>2, HookFacts
<1> QED BY <1>1, <1>3 DEF ListsRows, ListsProfiles, EditsProfile

LEMMA LoadInventoryKeeps ==
  ASSUME IInv, NEW t \in Tab, NEW fails \in BOOLEAN, LoadInventory(t, fails)
  PROVE  IInv'
<1> USE DEF IInv
<1> DEFINE tenant == place[t].tenant
           data == [contexts |-> contexts[tenant], profiles |-> Enabled(tenant),
                    rows |-> [i \in List(assignments, tenant) |->
                        [key |-> Normalize(assignments[i]), value |-> assignments[i].value]]]
           h == IF fails THEN Stale(inventory[t]) ELSE Loaded(data)
<1>1. CoreInv' /\ NumbersFit' /\ RoutesFit'
  BY CoreStutters, NumbersRest, RoutesRest DEF LoadInventory, cards
<1>2. /\ inventory' = [inventory EXCEPT ![t] = h]
      /\ UNCHANGED <<profiles, place, list, editing>>
  BY DEF LoadInventory, cards, tables
<1>3. ListsRows(h)
  <2>1. CASE fails
    BY <2>1, ScreensNow
  <2>2. CASE ~fails
    <3>1. DOMAIN data.rows = List(assignments, tenant)
      OBVIOUS
    <3>2. List(assignments, tenant) \subseteq Nat
      BY AssignmentRows DEF List, CoreInv
    <3>3. Hook(Loaded(data)) /\ Loaded(data).data = data
      BY HookFacts
    <3> HIDE DEF data
    <3> QED BY <2>2, <3>1, <3>2, <3>3 DEF ListsRows
  <2> QED BY <2>1, <2>2
<1> HIDE DEF h
<1>4. ScreensFit'
  BY <1>2, <1>3, ScreensNow, ScreensFitIn
<1> QED BY <1>1, <1>4

LEMMA LoadProfilesKeeps ==
  ASSUME IInv, NEW t \in Tab, LoadProfiles(t)
  PROVE  IInv'
<1> USE DEF IInv
<1> DEFINE l == [p \in ProfileIds(place[t].tenant) |-> profiles[p].revision]
           h == Loaded(l)
<1>1. CoreInv' /\ NumbersFit' /\ RoutesFit'
  BY CoreStutters, NumbersRest, RoutesRest DEF LoadProfiles, numberVars, cards
<1>2. /\ list' = [list EXCEPT ![t] = h]
      /\ UNCHANGED <<profiles, place, inventory, editing>>
  BY DEF LoadProfiles, numberVars, cards, tables
<1>3. ListsProfiles(h)
  <2>1. \A p \in DOMAIN profiles : profiles[p] \in RowOf({None}, Profile)
    BY RowsFit DEF TablesFit, CoreInv
  <2>2. \A p \in DOMAIN profiles : profiles[p].revision \in Nat
    BY <2>1 DEF RowOf
  <2>3. DOMAIN l \subseteq DOMAIN profiles /\ \A p \in DOMAIN l : l[p] \in Nat
    BY <2>2 DEF ProfileIds, List, Ids
  <2>4. Hook(h) /\ h.data = l
    BY HookFacts
  <2> HIDE DEF h, l
  <2> QED BY <2>3, <2>4 DEF ListsProfiles
<1> HIDE DEF h
<1>4. ScreensFit'
  BY <1>2, <1>3, ScreensNow, ScreensFitIn
<1> QED BY <1>1, <1>4

LEMMA StartEditKeeps ==
  ASSUME IInv, NEW t \in Tab, NEW p \in DOMAIN profiles, StartEdit(t, p)
  PROVE  IInv'
<1> USE DEF IInv
<1> DEFINE form == [id |-> p, revision |-> list[t].data[p]]
<1>1. CoreInv' /\ NumbersFit' /\ RoutesFit'
  BY CoreStutters, NumbersRest, RoutesRest DEF StartEdit, numberVars, cards
<1>2. /\ editing' = [editing EXCEPT ![t] = form]
      /\ UNCHANGED <<profiles, place, inventory, list>>
      /\ list[t].data # None /\ p \in DOMAIN list[t].data
  BY DEF StartEdit, numberVars, cards, tables
<1>3. EditsProfile(form)
  BY <1>2, ScreensNow DEF EditsProfile, ListsProfiles
<1> HIDE DEF form
<1>4. ScreensFit'
  BY <1>2, <1>3, ScreensNow, ScreensFitIn
<1> QED BY <1>1, <1>4

LEMMA RefreshNumbersKeeps ==
  ASSUME IInv, NEW t \in Tab, RefreshNumbers(t)
  PROVE  IInv'
<1> USE DEF IInv
<1>1. CoreInv'
  BY CoreStutters DEF RefreshNumbers
<1>2. ListsNumbers(identity[t]) /\ EditsNumber(numberForm[t]) /\ Hook(routing[t])
  BY DEF NumbersFit, RoutesFit
<1>3. /\ Hook(Refresh(identity[t])) /\ Refresh(identity[t]).data = identity[t].data
      /\ Hook(Refresh(routing[t])) /\ Refresh(routing[t]).data = routing[t].data
  BY <1>2, HookFacts DEF ListsNumbers
<1>4. /\ identity' = [identity EXCEPT ![t] = Refresh(identity[t])]
      /\ routing' = [routing EXCEPT ![t] = Refresh(routing[t])]
      /\ inventory' = [inventory EXCEPT ![t] = Refresh(inventory[t])]
      /\ UNCHANGED <<numbers, numberForm, routes, contexts, draft, profiles, place, list, editing>>
  BY DEF RefreshNumbers, tables
<1>5. ListsNumbers(Refresh(identity[t]))
  BY <1>3, SameNumberFits
<1>6. NumbersFit'
  BY <1>2, <1>4, <1>5, NumbersFitIn
<1>7. RoutesFit'
  BY <1>3, <1>4, RoutingHookFits
<1>8. ScreensFit'
  BY <1>4, ScreensNow, ScreensFitIn
<1> QED BY <1>1, <1>6, <1>7, <1>8

LEMMA RecordAnsweredKeeps ==
  ASSUME IInv, NEW i, RecordAnswered(i)
  PROVE  IInv'
<1> USE DEF IInv
<1> DEFINE t == calls[i].tab
<1>1. CoreInv'
  BY FinishKeeps DEF RecordAnswered
<1>2. NumbersFit' /\ RoutesFit'
  BY NumbersRest, RoutesRest DEF RecordAnswered, cards
<1>3. t \in Tab
  BY StageOps DEF RecordAnswered, CoreInv, Requests
<1>4. /\ inventory' = inventory \/ inventory' = [inventory EXCEPT ![t] = Refresh(inventory[t])]
      /\ list' = list \/ list' = [list EXCEPT ![t] = Refresh(list[t])]
      /\ editing' = editing \/ editing' = [editing EXCEPT ![t] = None]
      /\ UNCHANGED <<profiles, place>>
  BY DEF RecordAnswered, cards, tables
<1> HIDE DEF t
<1>5. ScreensFit'
  BY <1>3, <1>4, ScreensNow, ScreensFitIn
<1> QED BY <1>1, <1>2, <1>5

LEMMA VisitKeeps ==
  ASSUME IInv, NEW t \in Tab, NEW p \in [tenant: Tenant, page: {"profiles", "numbers", "appearance"}],
         Visit(t, p)
  PROVE  IInv'
<1> USE DEF IInv
<1> DEFINE left(i) == [calls[i] EXCEPT !.mounted = FALSE]
<1>1. UNCHANGED <<tables, routes, numbers, contexts, profiles>>
  BY DEF Visit, tables
<1>2. /\ DOMAIN calls' = DOMAIN calls
      /\ \A i \in DOMAIN calls : calls'[i] \in {calls[i], left(i)}
      /\ calls' = [i \in DOMAIN calls |-> calls'[i]]
  BY DEF Visit
<1>3. ASSUME NEW i \in DOMAIN calls
      PROVE  calls'[i] \in Requests /\ Fixed(i) /\ Rests(i)
  <2>1. calls[i] \in Requests
    BY StageOps DEF CoreInv
  <2> DEFINE c == left(i)
  <2>2. c \in Requests
    BY <2>1 DEF Requests
  <2>3. /\ c.op = calls[i].op /\ c.tab = calls[i].tab /\ c.tenant = calls[i].tenant
        /\ c.during = calls[i].during /\ c.did = calls[i].did /\ c.version = calls[i].version
        /\ c.base = calls[i].base /\ c.set = calls[i].set /\ c.key = calls[i].key
        /\ c.stage = calls[i].stage /\ c.scope = calls[i].scope /\ c.value = calls[i].value
        /\ c.id = calls[i].id /\ c.revision = calls[i].revision
    BY <2>1 DEF Requests
  <2>4. calls'[i] \in {calls[i], c}
    BY <1>2
  <2> HIDE DEF c
  <2> QED BY <2>1, <2>2, <2>3, <2>4 DEF Fixed, Rests
<1>4. calls' \in Seq(Requests) /\ Len(calls') = Len(calls)
  <2>1. DOMAIN calls = 1..Len(calls) /\ Len(calls) \in Nat
    BY RowsFit DEF CoreInv, CallsFit
  <2>2. calls' \in [1..Len(calls) -> Requests]
    BY <1>2, <1>3, <2>1
  <2>3. calls' \in Seq(Requests)
    BY <2>1, <2>2, SeqDef
  <2> QED BY <1>2, <2>1, <2>3
<1>5. CoreInv'
  BY <1>1, <1>2, <1>3, <1>4, CoreRests
<1>6. Hook(Unloaded) /\ Unloaded.data = None /\ ListsNumbers(Unloaded) /\ EditsNumber(None)
  BY HookFacts DEF ListsNumbers, EditsNumber
<1>7. NumbersFit'
  BY <1>1, <1>6, NumbersFitIn DEF Visit
<1>8. RoutesFit'
  <2> DEFINE forms == [d \in Did |-> Defaults]
  <2>1. routing' = [routing EXCEPT ![t] = Unloaded] /\ draft' = [draft EXCEPT ![t] = forms]
        /\ contexts' \in [Tenant -> Seq(Context)]
    BY <1>1 DEF Visit, RoutesFit
  <2>2. forms \in [Did -> Drafted]
    BY DEF Drafted
  <2> HIDE DEF forms
  <2>3. routing'[t] = Unloaded
    BY <2>1 DEF RoutesFit
  <2>4. DraftsRoute(routing'[t], draft'[t])
    BY <1>6, <2>3 DEF DraftsRoute
  <2> QED BY <1>1, <2>1, <2>2, <2>4, RoutesFitIn
<1>9. ScreensFit'
  BY <1>1, ScreensNow, ScreensFitIn DEF Visit
<1> QED BY <1>5, <1>7, <1>8, <1>9

LEMMA ReassignKeeps ==
  ASSUME IInv, NEW assigned \in Assigned, Reassign(assigned)
  PROVE  IInv'
<1> USE DEF IInv
<1>1. CoreInv' /\ NumbersFit' /\ ScreensFit'
  BY CoreStutters, NumbersRest, ScreensRest DEF Reassign, cards, tables, screens
<1>2. contexts' \in [Tenant -> Seq(Context)]
  BY AssignedFits DEF Reassign
<1>3. RoutesFit'
  BY <1>2 DEF Reassign, cards, RoutesFit, DraftOfShownRoute, Hook
<1> QED BY <1>1, <1>3

-----------------------------------------------------------------------------
(* A request's step leaves the screens alone.                              *)
LEMMA CardsRest ==
  ASSUME NumbersFit, RoutesFit, ScreensFit, UNCHANGED <<contexts, numbers, routes, cards, screens>>,
         DOMAIN profiles \subseteq DOMAIN profiles'
  PROVE  NumbersFit' /\ RoutesFit' /\ ScreensFit'
BY NumbersRest, RoutesRest, ScreensRest DEF cards, screens

LEMMA RoutePutFits ==
  ASSUME IInv, NEW i, NEW accepted \in BOOLEAN, RoutePut(i, accepted), UNCHANGED <<tables, screens>>
  PROVE  IInv'
<1> USE DEF IInv
<1>1. CoreInv'
  BY RoutePutKeeps
<1>2. NumbersFit' /\ ScreensFit'
  BY NumbersRest, ScreensRest DEF RoutePut, cards, screens, tables
<1>3. i \in DOMAIN calls /\ calls[i].stage = "put"
  BY DEF RoutePut, At
<1>4. calls[i] \in Requests /\ calls[i].op = "route" /\ CallFits(i)
  BY <1>3, StageOps DEF CoreInv, CallsFit
<1>5. calls[i].did \in Did /\ calls[i].scope \in Context /\ calls[i].set \in Setting \cup {None}
  BY <1>3, <1>4 DEF CallFits, Requests
<1> DEFINE route == IF calls[i].set = None THEN Unconfigured
                    ELSE [context |-> calls[i].scope, set |-> calls[i].set]
<1>6. route \in Unmanaged \cup Managed
  BY <1>5 DEF Unmanaged, Managed
<1>7. routes' = routes \/ routes' = [routes EXCEPT ![calls[i].did] = route]
  BY DEF RoutePut
<1> HIDE DEF route
<1>8. routes' \in [Did -> Unmanaged \cup Managed]
  BY <1>5, <1>6, <1>7 DEF RoutesFit
<1>9. UNCHANGED <<contexts, routing, draft>>
  BY DEF RoutePut, cards
<1>10. RoutesFit'
  BY <1>8, <1>9 DEF RoutesFit, DraftOfShownRoute, Hook
<1> QED BY <1>1, <1>2, <1>10

(* No profile is ever deleted.                                             *)
LEMMA ProfilesStay ==
  ASSUME CoreInv, NEW i, Insert(i) \/ Update(i) \/ Remove(i)
  PROVE  DOMAIN profiles \subseteq DOMAIN profiles'
<1>1. CASE Insert(i)
  <2> DEFINE row == [tenant |-> calls[i].tenant, key |-> StoredKey(calls[i]),
                     value |-> calls[i].value, revision |-> 1, by |-> i]
  <2>1. profiles' = profiles \/ profiles' = Append(profiles, row)
    BY <1>1 DEF Insert, Becomes, TableOf, Create
  <2> HIDE DEF row
  <2>2. profiles \in Seq(RowOf({None}, Profile))
    BY DEF TablesFit, CoreInv
  <2>3. DOMAIN profiles \subseteq DOMAIN Append(profiles, row)
    BY <2>2
  <2> QED BY <2>1, <2>3
<1>2. CASE Update(i)
  <2>1. profiles' = profiles \/ \E new : profiles' = [profiles EXCEPT ![calls[i].id] = new]
    BY <1>2 DEF Update, Becomes, TableOf, Patch, tables
  <2> QED BY <2>1
<1>3. CASE Remove(i)
  <2>1. calls[i].op = "unassign"
    BY <1>3, StageOps DEF Remove, At, CoreInv
  <2> QED BY <1>3, <2>1 DEF Remove, Becomes
<1> QED BY <1>1, <1>2, <1>3

(* The inductive invariant.                                                *)
LEMMA InitIInv == Init => IInv
<1> SUFFICES ASSUME Init
             PROVE  IInv
  OBVIOUS
<1>1. calls = <<>> /\ DOMAIN calls = {} /\ Len(calls) = 0
  BY DEF Init, NumberInit
<1>2. PICK b \in Beginning :
        /\ contexts = b.contexts /\ numbers = b.numbers /\ routes = b.routes
        /\ place = b.place /\ profiles = b.profiles /\ assignments = b.assignments
  BY DEF Init
<1>3. /\ contexts \in [Tenant -> Seq(Context)] /\ numbers \in [Did -> Numbered \cup {None}]
      /\ routes \in [Did -> Unmanaged \cup Managed]
      /\ place \in [Tab -> [tenant: Tenant, page: {"profiles", "numbers", "appearance", "elsewhere"}]]
      /\ profiles \in Seq(RowOf({None}, Profile))
      /\ assignments \in Seq(RowOf(Keys, DOMAIN profiles))
  BY <1>2, BeginningFits
<1>4. TablesFit
  <2>1. assignments \in Seq(RowOf(Keys, DOMAIN profiles) \cup {None})
    BY <1>3, SeqMonotonic
  <2>2. appearance \in Seq(RowOf({None}, Look))
    BY EmptySeq DEF Init
  <2> QED BY <1>3, <2>1, <2>2 DEF TablesFit
<1>5. CallsFit
  <2>1. calls \in Seq(Requests)
    BY <1>1, EmptySeq
  <2> QED BY <1>1, <2>1, NumberBounds DEF CallsFit
<1>6. CoreInv
  BY <1>1, <1>4, <1>5 DEF CoreInv, DuringFits, BasesFit
<1>7. Hook(Unloaded) /\ Unloaded.data = None
  BY HookFacts
<1>8. NumbersFit
  BY <1>3, <1>7 DEF NumbersFit, ListsNumbers, EditsNumber, Init, NumberInit
<1>9. RoutesFit
  <2>1. Defaults \in Drafted
    BY DEF Drafted
  <2> QED BY <1>3, <1>7, <2>1 DEF RoutesFit, DraftOfShownRoute, Init, NumberInit
<1>10. ScreensFit
  BY <1>3, <1>7 DEF ScreensFit, ListsRows, ListsProfiles, EditsProfile, Init
<1> QED BY <1>6, <1>8, <1>9, <1>10 DEF IInv

LEMMA NumberNextKeeps ==
  ASSUME IInv, NumberNext, UNCHANGED <<tables, screens>>
  PROVE  IInv'
<1>1. UNCHANGED profiles /\ DOMAIN profiles \subseteq DOMAIN profiles'
  BY DEF tables
<1>2. ASSUME NEW t \in Tab, NEW fails \in BOOLEAN, LoadNumbers(t, fails)
      PROVE  IInv'
  BY <1>2, LoadNumbersKeeps
<1>3. ASSUME NEW t \in Tab, NEW fails \in BOOLEAN, LoadRoutes(t, fails)
      PROVE  IInv'
  BY <1>3, LoadRoutesKeeps
<1>4. ASSUME NEW t \in Tab, NEW c \in Context, SelectContext(t, c)
      PROVE  IInv'
  BY <1>4, SelectContextKeeps
<1>5. ASSUME NEW t \in Tab, NEW d \in Did, EditNumber(t, d) \/ AddNumber(t, d)
      PROVE  IInv'
  BY <1>5, EditNumberKeeps
<1>6. ASSUME NEW t \in Tab, NEW enabled \in BOOLEAN, SaveNumber(t, enabled)
      PROVE  IInv'
  <2>1. UNCHANGED <<contexts, numbers, routes, cards, screens>> /\ UNCHANGED tables
    BY <1>6 DEF SaveNumber
  <2> QED BY <1>1, <1>6, <2>1, SaveNumberKeeps, CardsRest DEF IInv
<1>7. ASSUME NEW t \in Tab, NEW d \in Did, NEW set \in Setting \cup {None}, SaveRoute(t, d, set)
      PROVE  IInv'
  <2>1. UNCHANGED <<contexts, numbers, routes, cards, screens>> /\ UNCHANGED tables
    BY <1>7 DEF SaveRoute
  <2> QED BY <1>1, <1>7, <2>1, SaveRouteKeeps, CardsRest DEF IInv
<1>8. ASSUME NEW i \in DOMAIN calls, IdentitySaves(i)
      PROVE  IInv'
  <2>1. CoreInv' /\ NumbersFit'
    BY <1>8, IdentitySavesKeeps DEF IInv
  <2>2. RoutesFit' /\ ScreensFit'
    BY <1>1, <1>8, RoutesRest, ScreensRest DEF IInv, IdentitySaves, cards, screens
  <2> QED BY <2>1, <2>2 DEF IInv
<1>9. ASSUME NEW i \in DOMAIN calls, NumberAnswered(i)
      PROVE  IInv'
  BY <1>9, NumberAnsweredKeeps
<1>10. ASSUME NEW i \in DOMAIN calls, RouteScope(i) \/ RouteNumber(i) \/ RouteListed(i)
       PROVE  IInv'
  <2>1. UNCHANGED <<contexts, numbers, routes, cards, screens>> /\ UNCHANGED tables
    BY <1>10 DEF RouteScope, RouteNumber, RouteListed
  <2>2. CoreInv'
    BY <1>10, <2>1, RouteScopeKeeps, RouteNumberKeeps, RouteListedKeeps DEF IInv
  <2> QED BY <1>1, <2>1, <2>2, CardsRest DEF IInv
<1>11. ASSUME NEW i \in DOMAIN calls, RouteAnswered(i)
       PROVE  IInv'
  BY <1>11, RouteAnsweredKeeps
<1>12. ASSUME NEW i \in DOMAIN calls, NEW accepted \in BOOLEAN, RoutePut(i, accepted)
       PROVE  IInv'
  BY <1>12, RoutePutFits
<1> QED BY <1>2, <1>3, <1>4, <1>5, <1>6, <1>7, <1>8, <1>9, <1>10, <1>11, <1>12 DEF NumberNext

LEMMA NextIInv == IInv /\ [Next]_vars => IInv'
<1> SUFFICES ASSUME IInv, [Next]_vars
             PROVE  IInv'
  OBVIOUS
<1>1. CASE NumberNext /\ UNCHANGED <<tables, screens>>
  BY <1>1, NumberNextKeeps
<1>2. ASSUME NEW t \in Tab, NEW fails \in BOOLEAN, LoadInventory(t, fails)
      PROVE  IInv'
  BY <1>2, LoadInventoryKeeps
<1>3. ASSUME NEW t \in Tab, RefreshNumbers(t) \/ LoadProfiles(t)
      PROVE  IInv'
  BY <1>3, RefreshNumbersKeeps, LoadProfilesKeeps
<1>4. ASSUME NEW t \in Tab, SaveProfile(t) \/ SaveBrand(t) \/ UploadLogo(t)
      PROVE  IInv'
  <2>1. UNCHANGED <<contexts, numbers, routes, cards, screens>> /\ UNCHANGED profiles
    BY <1>4 DEF SaveProfile, SaveBrand, UploadLogo, tables
  <2> QED BY <1>4, <2>1, SaveProfileKeeps, SaveBrandKeeps, UploadLogoKeeps, CardsRest DEF IInv
<1>5. ASSUME NEW t \in Tab, NEW p \in DOMAIN profiles, StartEdit(t, p)
      PROVE  IInv'
  BY <1>5, StartEditKeeps
<1>6. ASSUME NEW t \in Tab, NEW c \in Context, NEW did \in Did \cup {Blank},
             NEW p \in DOMAIN profiles \cup {None}, SaveAssignment(t, c, did, p)
      PROVE  IInv'
  <2>1. UNCHANGED <<contexts, numbers, routes, cards, screens>> /\ UNCHANGED profiles
    BY <1>6 DEF SaveAssignment, tables
  <2> QED BY <1>6, <2>1, SaveAssignmentKeeps, CardsRest DEF IInv
<1>7. ASSUME NEW t \in Tab, NEW p \in [tenant: Tenant, page: {"profiles", "numbers", "appearance"}],
             Visit(t, p)
      PROVE  IInv'
  BY <1>7, VisitKeeps
<1>8. ASSUME NEW i \in DOMAIN calls,
             \/ AssignScope(i) \/ AssignNumber(i) \/ AssignProfile(i)
             \/ Peek(i) \/ Find(i) \/ Get(i) \/ AssertUnique(i)
             \/ CallFails(i) /\ UNCHANGED <<contexts, numbers, routes, cards, tables, screens>>
      PROVE  IInv'
  <2>1. UNCHANGED <<contexts, numbers, routes, cards, screens>> /\ UNCHANGED tables
    BY <1>8 DEF AssignScope, AssignNumber, AssignProfile, Peek, Find, Get, AssertUnique
  <2>2. CoreInv'
    BY <1>8, <2>1, AssignScopeKeeps, AssignNumberKeeps, AssignProfileKeeps, PeekKeeps, FindKeeps,
       GetKeeps, AssertUniqueKeeps, CallFailsKeeps DEF IInv
  <2>3. UNCHANGED profiles
    BY <2>1 DEF tables
  <2> QED BY <2>1, <2>2, <2>3, CardsRest DEF IInv
<1>9. ASSUME NEW i \in DOMAIN calls, Insert(i) \/ Update(i) \/ Remove(i)
      PROVE  IInv'
  <2>1. UNCHANGED <<contexts, numbers, routes, cards, screens>>
    BY <1>9 DEF Insert, Update, Remove
  <2>2. CoreInv' /\ DOMAIN profiles \subseteq DOMAIN profiles'
    BY <1>9, InsertKeeps, UpdateKeeps, RemoveKeeps, ProfilesStay DEF IInv
  <2> QED BY <2>1, <2>2, CardsRest DEF IInv
<1>10. ASSUME NEW i \in DOMAIN calls, RecordAnswered(i)
       PROVE  IInv'
  BY <1>10, RecordAnsweredKeeps
<1>11. ASSUME NEW assigned \in Assigned, Reassign(assigned)
       PROVE  IInv'
  BY <1>11, ReassignKeeps
<1>12. CASE UNCHANGED vars
  <2>1. UNCHANGED <<calls, tables, routes, numbers>> /\ UNCHANGED profiles
        /\ UNCHANGED <<contexts, numbers, routes, cards, screens>>
    BY <1>12 DEF vars, numberVars, tables
  <2> QED BY <2>1, CoreStutters, CardsRest DEF IInv
<1> QED BY <1>1, <1>2, <1>3, <1>4, <1>5, <1>6, <1>7, <1>8, <1>9, <1>10, <1>11, <1>12 DEF Next

LEMMA AlwaysIInv == Spec => []IInv
BY InitIInv, NextIInv, PTL DEF Spec

-----------------------------------------------------------------------------
(* The records keep their shape - whatever saves overlap, no row loses its *)
(* tenant, names a profile that does not exist or is half written - and a  *)
(* logo uploaded with no other save under way stays the one shown          *)
(* (repos.ts, config-routes.ts:228-294).                                   *)
THEOREM RecordsKeptHolds == Spec => []RecordsKept
<1>1. IInv => TypeOK
  <2> SUFFICES ASSUME IInv
               PROVE  TypeOK
    OBVIOUS
  <2>1. TablesFit /\ RoutesFit
    BY DEF IInv, CoreInv
  <2>2. \A k \in Ids(assignments) : assignments[k] \in RowOf(Keys, DOMAIN profiles)
    BY <2>1, AssignmentRows
  <2>3. \A k \in Ids(profiles) : profiles[k] \in RowOf({None}, Profile)
    BY <2>1, RowsFit DEF TablesFit, Ids
  <2>4. \A k \in Ids(appearance) : appearance[k] \in RowOf({None}, Look)
    BY <2>1, RowsFit DEF TablesFit, Ids
  <2> QED BY <2>1, <2>2, <2>3, <2>4 DEF TypeOK, RoutesFit
<1>2. IInv => UploadedLogoShown
  <2> SUFFICES ASSUME IInv, NEW i \in DOMAIN calls, calls[i].op = "logo", calls[i].stage = "done",
                      \A j \in Rivals(i) : ~Overlap(i, j) /\ (calls[j].op = "logo" => j < i)
               PROVE  appearance[Shown(calls[i].tenant)].value.logo = i
    BY DEF UploadedLogoShown, Rivals
  <2>1. LogoPlaced(i) /\ Quiet(i) /\ TablesFit
    BY DEF IInv, CoreInv, CallSeen, Quiet
  <2>2. Shown(calls[i].tenant) = First(Looks(calls[i].tenant))
    BY <2>1, ShownFacts
  <2> QED BY <2>1, <2>2 DEF LogoPlaced
<1> QED BY <1>1, <1>2, AlwaysIInv, PTL DEF RecordsKept

(* The routing form of every card, in every tab, holds what was made of    *)
(* the route its card shows, or was emptied by the tab's own delete,       *)
(* whatever loads, saves and refreshes came between (NumberRouting.tsx:    *)
(* 69-77).                                                                 *)
THEOREM DraftOfShownRouteHolds == Spec => []DraftOfShownRoute
<1>1. IInv => DraftOfShownRoute
  BY DEF IInv, RoutesFit
<1> QED BY <1>1, AlwaysIInv, PTL

(* A second row for a key, or a second appearance record of a tenant, is   *)
(* created only by saves that overlapped (repos.ts:387-416, 310-342).      *)
THEOREM DuplicateNeedsOverlapHolds == Spec => DuplicateNeedsOverlap
<1> DEFINE Clean(i) ==
      LET same == IF calls[i].op = "assign"
                  THEN {j \in Ids(assignments) : assignments[j].key = StoredKey(calls[i])}
                  ELSE {}
          brands == IF calls[i].op \in {"brand", "logo"}
                    THEN {j \in Ids(appearance) : appearance[j].tenant = calls[i].tenant}
                    ELSE {}
      IN  /\ \A j \in same : assignments[j].by # 0 /\ Overlap(i, assignments[j].by)
          /\ \A j \in brands : appearance[j].by # 0 /\ Overlap(i, appearance[j].by)
<1>1. ASSUME IInv, NEW i \in DOMAIN calls, calls[i].stage = "insert"
      PROVE  Clean(i)
  <2>1. CallFits(i) /\ KeySeen(i) /\ LookSeen(i)
    BY <1>1 DEF IInv, CoreInv, CallsFit, CallSeen
  <2>2. 0 \notin DOMAIN calls
    BY RowsFit, <1>1 DEF IInv, CoreInv, CallsFit
  <2>3. calls[i].op = "assign" => calls[i].id = None
    BY <1>1, <2>1 DEF CallFits
  <2> QED BY <1>1, <2>1, <2>2, <2>3 DEF KeySeen, LookSeen, UnderWay, Ids
<1>2. IInv /\ [Next]_vars =>
        [\A i \in DOMAIN calls : Writes(i) /\ calls[i].stage = "insert" => Clean(i)]_vars
  BY <1>1
<1> QED BY <1>2, AlwaysIInv, PTL DEF Spec, DuplicateNeedsOverlap

(* Identity saves a number only as it accepts it.                          *)
LEMMA SaveIsAccepted ==
  ASSUME IInv, Next, NEW i \in DOMAIN calls, calls[i].stage = "save", calls'[i].stage = "ok"
  PROVE  Accepts(calls[i])
<1>1. ASSUME NEW j \in DOMAIN calls, j # i, NEW c, calls' = [calls EXCEPT ![j] = c]
      PROVE  FALSE
  BY <1>1
<1>2. ASSUME NEW c, Sent(c)
      PROVE  FALSE
  BY <1>2, SentGrows DEF IInv, CoreInv
<1>3. ASSUME calls' = calls
      PROVE  FALSE
  BY <1>3
<1>4. ~To(i, "refused")
  <2>1. i \in Open /\ "refused" \in Stages
    BY DEF Open, Stages, Ends
  <2> QED BY <2>1, ToFacts DEF IInv
<1>5. CASE NumberNext /\ UNCHANGED <<tables, screens>>
  <2>1. ASSUME NEW t \in Tab
        PROVE  /\ \A fails \in BOOLEAN : ~LoadNumbers(t, fails) /\ ~LoadRoutes(t, fails)
               /\ \A c \in Context : ~SelectContext(t, c)
               /\ \A d \in Did : ~EditNumber(t, d) /\ ~AddNumber(t, d)
    BY <1>3 DEF LoadNumbers, LoadRoutes, SelectContext, EditNumber, AddNumber
  <2>2. ASSUME NEW t \in Tab
        PROVE  /\ \A enabled \in BOOLEAN : ~SaveNumber(t, enabled)
               /\ \A d \in Did, set \in Setting \cup {None} : ~SaveRoute(t, d, set)
    BY <1>2, SubmitIsSent DEF SaveNumber, SaveRoute
  <2>3. ASSUME NEW j \in DOMAIN calls
        PROVE  /\ ~RouteScope(j) /\ ~RouteNumber(j) /\ ~RouteListed(j)
               /\ \A accepted \in BOOLEAN : ~RoutePut(j, accepted)
    <3>1. CASE j = i
      BY <3>1 DEF RouteScope, RouteNumber, RouteListed, RoutePut, At
    <3>2. CASE j # i
      BY <1>1, <3>2 DEF RouteScope, RouteNumber, RouteListed, RoutePut, To
    <3> QED BY <3>1, <3>2
  <2>4. ASSUME NEW j \in DOMAIN calls
        PROVE  ~NumberAnswered(j) /\ ~RouteAnswered(j)
    <3>1. CASE j = i
      BY <3>1 DEF NumberAnswered, RouteAnswered, Answered
    <3>2. CASE j # i
      BY <1>1, <3>2 DEF NumberAnswered, RouteAnswered, Finish, To
    <3> QED BY <3>1, <3>2
  <2>5. ASSUME NEW j \in DOMAIN calls, IdentitySaves(j)
        PROVE  Accepts(calls[i])
    <3>1. CASE j = i
      BY <1>4, <2>5, <3>1 DEF IdentitySaves
    <3>2. CASE j # i
      BY <1>1, <2>5, <3>2 DEF IdentitySaves, To
    <3> QED BY <3>1, <3>2
  <2> QED BY <1>5, <2>1, <2>2, <2>3, <2>4, <2>5 DEF NumberNext
<1>6. ASSUME NEW t \in Tab
      PROVE  /\ \A fails \in BOOLEAN : ~LoadInventory(t, fails)
             /\ ~RefreshNumbers(t) /\ ~LoadProfiles(t) /\ \A p \in DOMAIN profiles : ~StartEdit(t, p)
  BY <1>3 DEF LoadInventory, RefreshNumbers, LoadProfiles, StartEdit, numberVars
<1>7. ASSUME NEW t \in Tab
      PROVE  /\ ~SaveProfile(t) /\ ~SaveBrand(t) /\ ~UploadLogo(t)
             /\ \A c \in Context, did \in Did \cup {Blank}, p \in DOMAIN profiles \cup {None} :
                    ~SaveAssignment(t, c, did, p)
  BY <1>2, SubmitIsSent DEF SaveProfile, SaveBrand, UploadLogo, SaveAssignment
<1>8. ASSUME NEW t \in Tab, NEW p, Visit(t, p)
      PROVE  FALSE
  <2>1. calls[i] \in Requests
    BY StageOps DEF IInv, CoreInv
  <2>2. calls'[i].stage = calls[i].stage
    BY <1>8, <2>1 DEF Visit, Requests
  <2> QED BY <2>2
<1>9. ASSUME NEW j \in DOMAIN calls
      PROVE  /\ ~AssignScope(j) /\ ~AssignNumber(j) /\ ~AssignProfile(j) /\ ~Peek(j) /\ ~Find(j)
             /\ ~Get(j) /\ ~AssertUnique(j) /\ ~Insert(j) /\ ~Update(j) /\ ~Remove(j)
  <2>1. CASE j = i
    BY <2>1 DEF AssignScope, AssignNumber, AssignProfile, Peek, Find, Get, AssertUnique, Insert,
                Update, Remove, At
  <2>2. CASE j # i
    <3>1. /\ ~AssignScope(j) /\ ~AssignNumber(j) /\ ~AssignProfile(j) /\ ~Find(j)
          /\ ~Get(j) /\ ~AssertUnique(j) /\ ~Insert(j) /\ ~Update(j) /\ ~Remove(j)
      BY <1>1, <2>2 DEF AssignScope, AssignNumber, AssignProfile, Find, Get, AssertUnique,
                        Insert, Update, Remove, To
    <3>2. ~Peek(j)
      BY <2>2 DEF Peek
    <3> QED BY <3>1, <3>2
  <2> QED BY <2>1, <2>2
<1>10. ASSUME NEW j \in DOMAIN calls
      PROVE  ~RecordAnswered(j) /\ ~CallFails(j)
  <2>1. CASE j = i
    BY <1>4, <2>1 DEF RecordAnswered, Answered, CallFails
  <2>2. CASE j # i
    BY <1>1, <2>2 DEF RecordAnswered, CallFails, Finish, To
  <2> QED BY <2>1, <2>2
<1>11. ASSUME NEW assigned \in Assigned
       PROVE  ~Reassign(assigned)
  BY <1>3 DEF Reassign
<1> QED BY <1>5, <1>6, <1>7, <1>8, <1>9, <1>10, <1>11 DEF Next

(* What is guarded is kept: an edited profile replaces the revision its    *)
(* form was opened with, or one written meanwhile (repos.ts:135-161); a    *)
(* number is replaced only as its form showed it (TenantNumbersScreen.tsx: *)
(* 52-55); an upload changes the brand only if another save was under way  *)
(* with it (config-routes.ts:278-283); a manual route is replaced only     *)
(* with another call for the number under way (pbx-routes.ts:238-261).     *)
(* Managed routes and assignments have no guard.                           *)
THEOREM GuardedEditsKeptHolds == Spec => GuardedEditsKept
<1>1. ASSUME IInv, NEW i \in DOMAIN calls, Writes(i), calls[i].op = "edit"
      PROVE  LET row == profiles[calls[i].id]
             IN  row.revision = calls[i].revision \/ (row.by # 0 /\ Overlap(i, row.by))
  <2>1. calls[i].stage = "patch" /\ ProfileSeen(i)
    BY <1>1, StageOps DEF IInv, CoreInv, CallSeen, Writes
  <2>2. 0 \notin DOMAIN calls
    BY RowsFit, <1>1 DEF IInv, CoreInv, CallsFit
  <2> QED BY <1>1, <2>1, <2>2 DEF ProfileSeen, UnderWay
<1>2. ASSUME IInv, Next, NEW i \in DOMAIN calls, calls[i].op = "number", calls[i].stage = "save",
             calls'[i].stage = "ok"
      PROVE  numbers[calls[i].did] = calls[i].base
  <2> DEFINE base == calls[i].base
             number == numbers[calls[i].did]
  <2>1. Accepts(calls[i])
    BY <1>2, SaveIsAccepted
  <2>2. /\ calls[i].version = IF base = None THEN 0 ELSE base.version
        /\ CopyOf(calls[i].did, base) /\ calls[i].did \in Did
    BY <1>2 DEF IInv, CoreInv, CallsFit, CallFits, BasesFit
  <2>3. CASE base = None
    BY <2>1, <2>2, <2>3 DEF Accepts
  <2>4. CASE base # None
    <3>1. base \in Numbered /\ base.version \in Nat \ {0}
      BY <2>2, <2>4 DEF CopyOf, Numbered
    <3>2. number.version = base.version
      BY <2>1, <2>2, <2>4, <3>1 DEF Accepts
    <3> QED BY <2>2, <2>4, <3>2 DEF CopyOf
  <2> QED BY <2>3, <2>4
<1>3. ASSUME IInv, NEW i \in DOMAIN calls, calls[i].stage = "put"
      PROVE  \/ Listed(calls[i].did, calls[i].scope) # Manual
             \/ \E j \in DOMAIN calls \ {i} :
                    /\ calls[j].op = "route" /\ calls[j].did = calls[i].did
                    /\ Overlap(i, j)
  BY <1>3 DEF IInv, CoreInv, CallSeen, RouteSeen
<1>4. IInv /\ [Next]_vars =>
        [\A i \in DOMAIN calls : Writes(i) /\ calls[i].op = "edit" =>
            LET row == profiles[calls[i].id]
            IN  row.revision = calls[i].revision \/ (row.by # 0 /\ Overlap(i, row.by))]_vars
  BY <1>1
<1>5. IInv /\ [Next]_vars =>
        [\A i \in DOMAIN calls :
            calls[i].op = "number" /\ calls[i].stage = "save" /\ calls'[i].stage = "ok" =>
                numbers[calls[i].did] = calls[i].base]_vars
  BY <1>2
<1>6. IInv /\ [Next]_vars =>
        [\A i \in DOMAIN calls :
            calls[i].stage = "put" /\ calls'[i].stage = "ok" =>
                \/ Listed(calls[i].did, calls[i].scope) # Manual
                \/ \E j \in DOMAIN calls \ {i} :
                        /\ calls[j].op = "route" /\ calls[j].did = calls[i].did
                        /\ Overlap(i, j)]_vars
  BY <1>3
<1>7. ASSUME IInv, NEW i \in DOMAIN calls, calls[i].stage = "patch", calls[i].op = "logo"
      PROVE  LET row == appearance[calls[i].id]
             IN  row.value.brand = calls[i].value.brand \/ (row.by # 0 /\ Overlap(i, row.by))
  <2>1. BrandIs(i, calls[i].id)
    BY <1>7 DEF IInv, CoreInv, CallSeen, BrandSeen
  <2>2. 0 \notin DOMAIN calls
    BY RowsFit, <1>7 DEF IInv, CoreInv, CallsFit
  <2> QED BY <2>1, <2>2 DEF BrandIs, UnderWay
<1>8. IInv /\ [Next]_vars =>
        [\A i \in DOMAIN calls : Writes(i) /\ calls[i].stage = "patch" /\ calls[i].op = "logo" =>
            LET row == appearance[calls[i].id]
            IN  row.value.brand = calls[i].value.brand
                    \/ (row.by # 0 /\ Overlap(i, row.by))]_vars
  BY <1>7
<1> QED BY <1>4, <1>5, <1>6, <1>8, AlwaysIInv, PTL
        DEF Spec, GuardedEditsKept, NoLostProfileEdit, NoLostNumberEdit, NoLostBrand,
            ForeignRouteKept
==============================================================================

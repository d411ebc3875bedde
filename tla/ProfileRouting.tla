--------------------------- MODULE ProfileRouting ---------------------------
(***************************************************************************)
(* Which assistant answers a call, and how a tenant looks: the profiles,   *)
(* the profile assignments and the appearance kept in NocoDB, with the     *)
(* screens that edit them.  An assignment binds a context's default, or a  *)
(* number in it, to a profile (components/ProfileAssignmentSelect.tsx on   *)
(* ProfilesScreen and TenantNumbersScreen, profile-assignment-routes.ts);  *)
(* profiles and appearance are config-routes.ts.  Every repository call is *)
(* several awaits: what is read may have changed when the row is written.  *)
(*                                                                         *)
(* The browser stores assignments enabled, and a PBX instance never        *)
(* changes: neither is part of an assignment here.                         *)
(***************************************************************************)
EXTENDS NumberCards
INSTANCE NocoRecords

CONSTANTS
    Beginning,  \* the situations a behaviour may begin in
    Assigned    \* the contexts the tenants may be given later

VARIABLES
    profiles, assignments, appearance,  \* the tables
    inventory,  \* each tab's assignments with the profiles they may name, as a hook
    list,       \* each profiles screen's list, as a hook: the revision of each profile
    editing     \* its form: the profile edited and its revision, None for a new one

tables == <<profiles, assignments, appearance>>
screens == <<inventory, list, editing>>
vars == <<numberVars, tables, screens>>

(* The blank did of a context's default comes back from NocoDB as null.    *)
Blank == ""
(* Fault: the blank is stored. *)
StoredBlank(did) == did

StoredDid(did) == IF did = Blank THEN None ELSE did

(* Fault: a null did is taken as it is. *)
AsStored(row) == [context |-> row.key.context, did |-> row.key.did]

Normalize(row) ==
    [context |-> row.key.context, did |-> IF row.key.did = None THEN Blank ELSE row.key.did]

AssignmentKeys == [i \in Ids(assignments) |-> Normalize(assignments[i])]
ProfileIds(tenant) == List(profiles, tenant)
Enabled(tenant) == {p \in ProfileIds(tenant) : profiles[p].value.enabled}

-----------------------------------------------------------------------------
(* Loads.  The assignments hook reads the tenant's contexts and rows and   *)
(* its enabled profiles.                                                   *)

LoadInventory(t, fails) ==
    LET tenant == place[t].tenant
    IN  /\ place[t].page \in {"profiles", "numbers"} /\ inventory[t].loading # "no"
        /\ IF fails THEN Turn ELSE UNCHANGED turns
        /\ inventory' = [inventory EXCEPT ![t] = IF fails THEN Stale(@) ELSE
             Loaded([contexts |-> contexts[tenant], profiles |-> Enabled(tenant),
                     rows |-> [i \in List(assignments, tenant) |->
                        [key |-> Normalize(assignments[i]), value |-> assignments[i].value]]])]
        /\ UNCHANGED <<contexts, numbers, routes, calls, cards, tables, list, editing>>

(* The list of profiles is loaded with the screen and after a save; until  *)
(* then the old one stays.                                                 *)
LoadProfiles(t) ==
    /\ place[t].page = "profiles" /\ list[t].loading # "no"
    /\ list' = [list EXCEPT ![t] =
                    Loaded([p \in ProfileIds(place[t].tenant) |-> profiles[p].revision])]
    /\ UNCHANGED <<numberVars, tables, inventory, editing>>

-----------------------------------------------------------------------------
(* ProfileAssignmentSelect                                                 *)

(* The context the selector of a card or a default stands for.             *)
Selectable(t, c, did) ==
    LET data == inventory[t].data
    IN  CASE place[t].page = "profiles" -> did = Blank /\ \E k \in DOMAIN data.contexts : data.contexts[k] = c
          [] place[t].page = "numbers" ->
                /\ did # Blank /\ Settled(identity[t]) /\ did \in DOMAIN identity[t].data
                /\ identity[t].data[did].enabled /\ ~NumberBusy(t)
                /\ c = IF routing[t].data # None THEN routing[t].data.context
                       ELSE IF context[t] # None THEN context[t]
                       ELSE IF data.contexts = <<>> THEN None ELSE data.contexts[1]
          [] OTHER -> FALSE

Current(t, c, did) ==
    LET rows == inventory[t].data.rows
    IN  First({i \in DOMAIN rows : rows[i].key = [context |-> c, did |-> did]})

SelectBusy(t, key) == \E i \in Mine(t) : calls[i].op \in {"assign", "unassign"} /\ calls[i].key = key

(* Choosing a profile assigns it; choosing the blank option removes the    *)
(* row shown, by its id.                                                   *)
SaveAssignment(t, c, did, profile) ==
    LET current == Current(t, c, did)
        key == [context |-> c, did |-> did]
    IN  /\ Settled(inventory[t]) /\ Selectable(t, c, did) /\ ~SelectBusy(t, key)
        /\ IF profile = None THEN current # None
           ELSE /\ profile \in inventory[t].data.profiles
                /\ current # None => inventory[t].data.rows[current].value # profile
        /\ Submit(IF profile = None
                  THEN [Request(t, "unassign", "get") EXCEPT !.key = key, !.id = current]
                  ELSE [Request(t, "assign", "scope") EXCEPT !.key = key, !.value = profile])
        /\ UNCHANGED <<contexts, numbers, routes, turns, cards, tables, screens>>

(* PUT: the context must be the tenant's ...                               *)
AssignScope(i) ==
    /\ At(i, "scope") /\ calls[i].op = "assign"
    /\ To(i, IF ~Holds(calls[i].tenant, calls[i].key.context) THEN "refused"
             ELSE IF calls[i].key.did = Blank THEN "profile" ELSE "number")
    /\ UNCHANGED <<contexts, numbers, routes, turns, cards, tables, screens>>

(* ... the number an enabled one of it ...                                 *)
AssignNumber(i) ==
    /\ At(i, "number") /\ calls[i].op = "assign"
    /\ LET n == numbers[calls[i].key.did]
       IN  To(i, IF Holder[calls[i].key.did] = calls[i].tenant /\ n # None /\ n.enabled
                 THEN "profile" ELSE "refused")
    /\ UNCHANGED <<contexts, numbers, routes, turns, cards, tables, screens>>

(* ... and the profile an enabled one of it.                               *)
AssignProfile(i) ==
    /\ At(i, "profile")
    /\ To(i, IF GetById(profiles, calls[i].value, calls[i].tenant) \in Enabled(calls[i].tenant)
             THEN "find" ELSE "refused")
    /\ UNCHANGED <<contexts, numbers, routes, turns, cards, tables, screens>>

-----------------------------------------------------------------------------
(* Profiles                                                                *)

ProfileBusy(t) == \E i \in Mine(t) : calls[i].op \in {"create", "edit"}

StartEdit(t, p) ==
    /\ place[t].page = "profiles" /\ list[t].data # None /\ p \in DOMAIN list[t].data
    /\ editing' = [editing EXCEPT ![t] = [id |-> p, revision |-> list[t].data[p]]]
    /\ UNCHANGED <<numberVars, tables, inventory, list>>

(* A save enables the profile, whatever it was.                            *)
Text == [text |-> Len(calls) + 1, enabled |-> TRUE]

SaveProfile(t) ==
    /\ place[t].page = "profiles" /\ ~ProfileBusy(t)
    /\ Submit(IF editing[t] = None
              THEN [Request(t, "create", "insert") EXCEPT !.value = Text]
              ELSE [Request(t, "edit", "get") EXCEPT
                      !.value = Text, !.id = editing[t].id, !.revision = editing[t].revision])
    /\ UNCHANGED <<contexts, numbers, routes, turns, cards, tables, screens>>

-----------------------------------------------------------------------------
(* Appearance: one record per tenant, the first one if there are more      *)

Shown(tenant) == First(List(appearance, tenant))

BrandBusy(t) == \E i \in Mine(t) : calls[i].op = "brand"

Brand == [brand |-> Len(calls) + 1, logo |-> None]

(* Saving and uploading do not wait for one another.                       *)
SaveBrand(t) ==
    /\ place[t].page = "appearance" /\ ~BrandBusy(t)
    /\ Submit([Request(t, "brand", "find") EXCEPT !.value = Brand])
    /\ UNCHANGED <<contexts, numbers, routes, turns, cards, tables, screens>>

UploadLogo(t) ==
    /\ place[t].page = "appearance"
    /\ Submit([Request(t, "logo", "peek") EXCEPT !.value = [brand |-> 0, logo |-> Len(calls) + 1]])
    /\ UNCHANGED <<contexts, numbers, routes, turns, cards, tables, screens>>

(* Fault: an upload saves the default brand. *)
DefaultBrand(row) == 0

(* An upload saves the brand it read beside the logo.                      *)
BrandRead(row) == IF row = None THEN 0 ELSE appearance[row].value.brand

Peek(i) ==
    /\ At(i, "peek")
    /\ calls' = [calls EXCEPT ![i].stage = "find",
                    ![i].value.brand = BrandRead(Shown(calls[i].tenant))]
    /\ UNCHANGED <<contexts, numbers, routes, turns, cards, tables, screens>>

-----------------------------------------------------------------------------
(* The repositories, a step for each call of NocoDB                        *)

TableOf(call) ==
    CASE call.op \in {"assign", "unassign"} -> assignments
      [] call.op \in {"brand", "logo"} -> appearance
      [] OTHER -> profiles

Becomes(call, table) ==
    /\ assignments' = IF call.op \in {"assign", "unassign"} THEN table ELSE assignments
    /\ appearance' = IF call.op \in {"brand", "logo"} THEN table ELSE appearance
    /\ profiles' = IF call.op \in {"create", "edit"} THEN table ELSE profiles

StoredKey(call) == IF call.key = None THEN None
                   ELSE [context |-> call.key.context, did |-> StoredDid(call.key.did)]

(* A row another tenant left behind is a conflict.                         *)
OwnRow(call, row) == row.tenant = call.tenant

(* upsert and AppearanceRepository.save: the row to update, or none.       *)
Found(call) ==
    IF call.op = "assign"
    THEN First(WithKey(AssignmentKeys, call.key))
    ELSE Shown(call.tenant)

Find(i) ==
    /\ At(i, "find")
    /\ LET row == Found(calls[i])
           table == TableOf(calls[i])
       IN  calls' = [calls EXCEPT ![i] =
             IF row = None
             THEN [@ EXCEPT !.stage = IF calls[i].op = "assign" THEN "unique" ELSE "insert"]
             ELSE IF OwnRow(@, table[row])
             THEN [@ EXCEPT !.stage = "get", !.id = row, !.revision = table[row].revision]
             ELSE [@ EXCEPT !.stage = "refused"]]
    /\ UNCHANGED <<contexts, numbers, routes, turns, cards, tables, screens>>

(* Fault: the revision is not compared. *)
AnyRevision(call, row) == TRUE

SameRevision(call, row) == row.revision = call.revision

(* update and delete read the row again.                                   *)
Get(i) ==
    /\ At(i, "get")
    /\ LET call == calls[i]
           row == GetById(TableOf(call), call.id, call.tenant)
       IN  To(i, IF row = None THEN "refused"
                 ELSE IF call.op = "unassign" THEN "delete"
                 ELSE IF ~SameRevision(call, TableOf(call)[row]) THEN "refused"
                 ELSE IF call.op = "assign" THEN "unique" ELSE "patch")
    /\ UNCHANGED <<contexts, numbers, routes, turns, cards, tables, screens>>

AssertUnique(i) ==
    /\ At(i, "unique")
    /\ To(i, IF Clashes(AssignmentKeys, calls[i].key, calls[i].id) # {} THEN "refused"
             ELSE IF calls[i].id = None THEN "insert" ELSE "patch")
    /\ UNCHANGED <<contexts, numbers, routes, turns, cards, tables, screens>>

Insert(i) ==
    /\ At(i, "insert")
    /\ LET call == calls[i]
       IN  Becomes(call, Create(TableOf(call), call.tenant, StoredKey(call), call.value, i))
    /\ To(i, "ok")
    /\ UNCHANGED <<contexts, numbers, routes, turns, cards, screens>>

(* Fault: a save without a logo writes none. *)
AllColumns(call, row) == call.value

(* The columns a call writes; a save of the brand leaves the logo alone.   *)
Columns(call, row) ==
    IF call.op = "brand" THEN [call.value EXCEPT !.logo = row.value.logo] ELSE call.value

Update(i) ==
    /\ At(i, "patch")
    /\ LET call == calls[i]
           table == TableOf(call)
       IN  IF table[call.id] = None THEN To(i, "refused") /\ UNCHANGED tables
           ELSE /\ Becomes(call, Patch(table, call.id, Columns(call, table[call.id]),
                                       call.revision + 1, i))
                /\ To(i, "ok")
    /\ UNCHANGED <<contexts, numbers, routes, turns, cards, screens>>

Remove(i) ==
    /\ At(i, "delete")
    /\ Becomes(calls[i], Delete(assignments, calls[i].id))
    /\ To(i, "ok")
    /\ UNCHANGED <<contexts, numbers, routes, turns, cards, screens>>

(* A saved profile closes the form and reloads both lists; a saved         *)
(* assignment reloads the assignments; after a refusal nothing is loaded.  *)
RecordAnswered(i) ==
    /\ i \in DOMAIN calls /\ calls[i].op \notin {"number", "route"} /\ calls[i].stage \in Answered
    /\ LET t == calls[i].tab
           done == calls[i].mounted /\ calls[i].stage = "ok"
           profile == calls[i].op \in {"create", "edit"}
       IN  /\ inventory' = IF done /\ calls[i].op \notin {"brand", "logo"}
                           THEN [inventory EXCEPT ![t] = Refresh(@)] ELSE inventory
           /\ list' = IF done /\ profile THEN [list EXCEPT ![t] = Refresh(@)] ELSE list
           /\ editing' = IF done /\ profile THEN [editing EXCEPT ![t] = None] ELSE editing
    /\ Finish(i)
    /\ UNCHANGED <<contexts, numbers, routes, turns, cards, tables>>

-----------------------------------------------------------------------------
(* "Refresh numbers and routing".                                          *)
RefreshNumbers(t) ==
    /\ place[t].page = "numbers" /\ ~NumberBusy(t) /\ Turn
    /\ identity[t].loading = "no" /\ routing[t].loading = "no"
    /\ identity' = [identity EXCEPT ![t] = Refresh(@)]
    /\ routing' = [routing EXCEPT ![t] = Refresh(@)]
    /\ inventory' = [inventory EXCEPT ![t] = Refresh(@)]
    /\ UNCHANGED <<contexts, numbers, routes, calls, place, context, numberForm, draft, tables,
                   list, editing>>

(* A tab opens a screen, of this tenant or another, or loads it again.     *)
Visit(t, p) ==
    /\ Turn
    /\ place' = [place EXCEPT ![t] = p]
    /\ calls' = [i \in DOMAIN calls |-> IF calls[i].tab = t THEN [calls[i] EXCEPT !.mounted = FALSE]
                                        ELSE calls[i]]
    /\ context' = [context EXCEPT ![t] = None]
    /\ identity' = [identity EXCEPT ![t] = Unloaded] /\ routing' = [routing EXCEPT ![t] = Unloaded]
    /\ numberForm' = [numberForm EXCEPT ![t] = None]
    /\ draft' = [draft EXCEPT ![t] = [d \in Did |-> Defaults]]
    /\ inventory' = [inventory EXCEPT ![t] = Unloaded]
    /\ list' = [list EXCEPT ![t] = Unloaded] /\ editing' = [editing EXCEPT ![t] = None]
    /\ UNCHANGED <<contexts, numbers, routes, tables>>

(* The contexts of the tenants are edited in Tenants (TenantConfig).       *)
Reassign(assigned) ==
    /\ assigned # contexts /\ Turn
    /\ contexts' = assigned
    /\ UNCHANGED <<numbers, routes, calls, cards, tables, screens>>

(* What may be there when a behaviour begins.                              *)
BoundKeys == [context: Context, did: Did \cup {Blank}]
Keys == [context: Context, did: Did \cup {None}]
Profile == [text: 0..MaxCalls, enabled: BOOLEAN]
Look == [brand: 0..MaxCalls, logo: {None} \cup 1..MaxCalls]
RowOf(key, value) ==
    [tenant: Tenant, key: key, value: value, revision: Nat, by: 0..MaxCalls]

ASSUME BlankIsNoDid == Blank \notin Did
ASSUME NoneIsNoRecord ==
    None \notin Numbered \cup BoundKeys \cup RowOf(Keys, Nat) \cup RowOf({None}, Profile)
                    \cup RowOf({None}, Look)
ASSUME BeginningFits ==
    \A b \in Beginning :
        /\ b.contexts \in [Tenant -> Seq(Context)]
        /\ b.numbers \in [Did -> {None} \cup Numbered]
        /\ b.routes \in [Did -> Unmanaged \cup Managed]
        /\ b.place \in [Tab -> [tenant: Tenant, page: {"profiles", "numbers", "appearance", "elsewhere"}]]
        /\ b.profiles \in Seq(RowOf({None}, Profile))
        /\ b.assignments \in Seq(RowOf(Keys, DOMAIN b.profiles))
        /\ b.turns \in 0..MaxTurns
ASSUME AssignedFits == Assigned \subseteq [Tenant -> Seq(Context)]

Init ==
    /\ NumberInit
    /\ \E b \in Beginning :
        /\ contexts = b.contexts /\ numbers = b.numbers /\ routes = b.routes
        /\ place = b.place /\ profiles = b.profiles /\ assignments = b.assignments
        /\ turns = b.turns
    /\ appearance = <<>>
    /\ inventory = [t \in Tab |-> Unloaded]
    /\ list = [t \in Tab |-> Unloaded] /\ editing = [t \in Tab |-> None]

Next ==
    \/ NumberNext /\ UNCHANGED <<tables, screens>>
    \/ \E t \in Tab :
        \/ \E fails \in BOOLEAN : LoadInventory(t, fails)
        \/ RefreshNumbers(t) \/ LoadProfiles(t) \/ SaveProfile(t) \/ SaveBrand(t) \/ UploadLogo(t)
        \/ \E p \in DOMAIN profiles : StartEdit(t, p)
        \/ \E c \in Context, did \in Did \cup {Blank}, p \in DOMAIN profiles \cup {None} :
                SaveAssignment(t, c, did, p)
        \/ \E p \in [tenant: Tenant, page: {"profiles", "numbers", "appearance"}] : Visit(t, p)
    \/ \E i \in DOMAIN calls :
        \/ AssignScope(i) \/ AssignNumber(i) \/ AssignProfile(i)
        \/ Peek(i) \/ Find(i) \/ Get(i) \/ AssertUnique(i)
        \/ Insert(i) \/ Update(i) \/ Remove(i) \/ RecordAnswered(i)
        \/ CallFails(i) /\ UNCHANGED <<contexts, numbers, routes, cards, tables, screens>>
    \/ \E assigned \in Assigned : Reassign(assigned)

Spec == Init /\ [][Next]_vars

-----------------------------------------------------------------------------
(* Properties                                                              *)

TypeOK ==
    /\ \A i \in Ids(assignments) : assignments[i] \in RowOf(Keys, DOMAIN profiles)
    /\ \A i \in Ids(profiles) :
            profiles[i] \in RowOf({None}, Profile)
    /\ \A i \in Ids(appearance) :
            appearance[i] \in RowOf({None}, Look)
    /\ \A d \in Did : routes[d] \in Unmanaged \cup Managed
    /\ \A t \in Tab, d \in Did : draft[t][d] \in Drafted

(* Call i writes its row in this step.                                     *)
Writes(i) ==
    /\ i \in DOMAIN calls /\ calls[i].stage \in {"insert", "patch"}
    /\ calls'[i].stage = "ok"

(* Which assistant answers is never decided by two rows unless the calls   *)
(* that wrote them overlapped: a save looks for the row of every tenant,   *)
(* the former holder of a reassigned context included.  Likewise a tenant  *)
(* has a second appearance record only by overlapping saves (repos.ts:387- *)
(* 416, 310-342: nothing in NocoDB enforces a key).                        *)
DuplicateNeedsOverlap ==
    [][\A i \in DOMAIN calls : Writes(i) /\ calls[i].stage = "insert" =>
        LET same == IF calls[i].op = "assign"
                    THEN {j \in Ids(assignments) :
                            assignments[j].key = StoredKey(calls[i])}
                    ELSE {}
            brands == IF calls[i].op \in {"brand", "logo"}
                      THEN {j \in Ids(appearance) : appearance[j].tenant = calls[i].tenant}
                      ELSE {}
        IN  /\ \A j \in same : assignments[j].by # 0 /\ Overlap(i, assignments[j].by)
            /\ \A j \in brands : appearance[j].by # 0 /\ Overlap(i, appearance[j].by)]_vars

(* An edited profile overwrites only the revision its form was opened      *)
(* with, or one written while the edit was under way: the revision is      *)
(* compared before the write, not with it (repos.ts:135-161).              *)
NoLostProfileEdit ==
    [][\A i \in DOMAIN calls : Writes(i) /\ calls[i].op = "edit" =>
        LET row == profiles[calls[i].id]
        IN  row.revision = calls[i].revision
                \/ (row.by # 0 /\ Overlap(i, row.by))]_vars

(* A logo that was uploaded, with no other save under way, stays the one   *)
(* shown until another is uploaded, whatever saves of the brand follow     *)
(* (config-routes.ts:228-294).                                             *)
UploadedLogoShown ==
    \A i \in DOMAIN calls :
        LET others == {j \in DOMAIN calls \ {i} :
                        calls[j].op \in {"brand", "logo"} /\ calls[j].tenant = calls[i].tenant}
        IN  calls[i].op = "logo" /\ calls[i].stage = "done"
                /\ (\A j \in others : ~Overlap(i, j) /\ (calls[j].op = "logo" => j < i))
            => appearance[Shown(calls[i].tenant)].value.logo = i

(* The records keep their shape, and a logo its place among them.          *)
RecordsKept == TypeOK /\ UploadedLogoShown

(* A number is overwritten only as its form showed it when it was opened,  *)
(* however often the list was refreshed since (TenantNumbersScreen.tsx:    *)
(* 52-55); a new one never replaces one another tab added.                 *)
NoLostNumberEdit ==
    [][\A i \in DOMAIN calls :
        calls[i].op = "number" /\ calls[i].stage = "save" /\ calls'[i].stage = "ok" =>
            numbers[calls[i].did] = calls[i].base]_vars

(* A routing form is filled from the route its card shows, or was emptied  *)
(* by the tab's own delete (NumberRouting.tsx:69-77).                      *)
DraftOfShownRoute ==
    \A t \in Tab, d \in Did :
        routing[t].data # None =>
            draft[t][d] \in {FormFor(routing[t].data.route[d]), Emptied}

(* A route that is not managed in the tenant's primary context - the only  *)
(* one a card writes to, whatever context it shows - is never overwritten, *)
(* unless another call for the number overlapped (pbx-routes.ts:238-261).  *)
ForeignRouteKept ==
    [][\A i \in DOMAIN calls :
        calls[i].stage = "put" /\ calls'[i].stage = "ok" =>
            \/ Listed(calls[i].did, calls[i].scope) # Manual
            \/ \E j \in DOMAIN calls \ {i} :
                    /\ calls[j].op = "route" /\ calls[j].did = calls[i].did
                    /\ Overlap(i, j)]_vars

(* An upload writes the brand it read before: it changes the one in the    *)
(* record only if another save was under way with it (config-routes.ts:    *)
(* 278-283).                                                               *)
NoLostBrand ==
    [][\A i \in DOMAIN calls : Writes(i) /\ calls[i].stage = "patch" /\ calls[i].op = "logo" =>
        LET row == appearance[calls[i].id]
        IN  row.value.brand = calls[i].value.brand
                \/ (row.by # 0 /\ Overlap(i, row.by))]_vars

(* What is guarded is kept: the rows that carry a revision or a version    *)
(* their form sends back, the brand an upload read, and a manual route.    *)
(* Nothing guards a managed route or an assignment: see NoLostRouteEdit.   *)
GuardedEditsKept == NoLostProfileEdit /\ NoLostNumberEdit /\ NoLostBrand /\ ForeignRouteKept

(* Refuted: that a card overwrites or deletes only the route it shows, or  *)
(* one another call was writing.  allowedDid (pbx-routes.ts:238-261) asks  *)
(* whether the route is managed, not whether it is the one shown.          *)
NoLostRouteEdit ==
    [][\A i \in DOMAIN calls :
        calls[i].stage = "put" /\ calls'[i].stage = "ok" /\ calls[i].mounted =>
            LET shown == routing[calls[i].tab].data
            IN  \/ shown.context # calls[i].scope
                \/ shown.route[calls[i].did] = Listed(calls[i].did, calls[i].scope)
                \/ \E j \in DOMAIN calls \ {i} :
                        /\ calls[j].op = "route" /\ calls[j].did = calls[i].did
                        /\ Overlap(i, j)]_vars

(* Refuted: the same of an assignment.  upsert (repos.ts:387-416) sends    *)
(* the revision it has just read, not that of the row the card showed.     *)
NoLostAssignment ==
    [][\A i \in {j \in DOMAIN calls : calls[j].op = "assign" /\ calls[j].mounted} :
        Writes(i) /\ calls[i].stage = "patch" /\ assignments[calls[i].id] # None =>
            LET rows == inventory[calls[i].tab].data.rows
                row == assignments[calls[i].id]
            IN  \/ calls[i].id \in DOMAIN rows /\ rows[calls[i].id].value = row.value
                \/ row.by # 0 /\ Overlap(i, row.by)]_vars
=============================================================================

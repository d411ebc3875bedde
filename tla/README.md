# AidaAdmin in TLA+

This directory specifies AidaAdmin, the Express back end for the browser
(`server/src`, "the BFF") and the React screens (`web/src`), as TLA+ modules
that TLC checks on small instances and, for the parts that matter most, that
TLAPS proves for every instance. Paths are relative to the repository;
`PROJECT.json` maps every definition to the lines it models.

To repeat a check: `tlc -config MCPbxScreen_screen.cfg MCPbxScreen`; to repeat a
proof: `tlapm IdentityEventsProofs.tla`.

Contents: 1 the system, 2 the modules and the code, 3 the runs, 4 fairness,
5 what is proved, 6 where the code and its documents disagree, 7 what is not
modelled, 8 the plan.

## 1. The system

AidaAdmin administers services it does not own, so most of its state is a copy
of somebody else's, and most of its operations are several calls without a
transaction around them.

| System | Owns | Reached through |
| --- | --- | --- |
| Identity | users, sessions, memberships, tenants, numbers, the event log | `server/src/id/client.ts` |
| NocoDB `PlatformConfig` | tenant profiles, assistant profiles, assignments, appearance | `server/src/nocodb/` |
| MySQL `aida_admin_db` | OAuth states, event receipts and the replay cursor, audit | `server/src/db/mysql.ts` |
| OfficePulse | PBX inventory and mutations, calls, transcripts, commands | `server/src/officepulse/` |
| LiveKit | the room a transcript is observed in | `web/src/components/LiveTranscript.tsx` |

### Components

| Component | State | Operations | What is hard | What makes it correct |
| --- | --- | --- | --- | --- |
| Identity event inbox (`id/events.ts`, `db/mysql.ts`) | receipts, replay cursor | webhook, catch-up at boot, crash, restart | overlapping deliveries, a crash between two statements, two processes of a rollout | nothing acknowledged is lost, the cursor passes no hole, each event is applied once, each is applied in the end |
| Live transcript (`LiveTranscript.tsx`, `runtime/transcript.ts`) | attempt, room, timers, rows | observe, join, load history, stream, reconnect, renew, stop | every await can be overtaken by a stop, a renewal or a lost connection | one thing drives an observed call, no participant is left in a room, "caught up" is true, text does not regress |
| Tenant configuration (`id/repositories.ts`, `nocodb/repos.ts`, `TenantsScreen.tsx`) | Identity's directory, profile rows, open forms | open, create, update | two stores, checks read before the row is written, failures anywhere | contexts have one owner, no lost update, a refusal changes nothing, success is in both stores |
| PBX inventory and extensions (`pbx-routes.ts`, `pbx-scope.ts`, `usePbxInventory.ts`, `ExtensionsScreen.tsx`) | inventory shown, selected context, lock, credentials shown once | load, select, create, delete, dismiss | loads overtake each other, timeouts after the commit, stale lists of contexts | rows belong to the selection, a deletion hits the row clicked, credentials are shown once, the screen is released |
| Queues and members (`QueuesScreen.tsx`) | drafts, baseline | edit, save one mapping after another | one of several requests fails, is late or meets another administrator | the baseline is what OfficePulse has, unedited mappings are left alone |
| Selection and shell (`tenant-selection.ts`, `middleware.ts`, `routes/session.ts`, `App.tsx`, `TenantPage.tsx`, `TenantContextBanner.tsx`) | the session's selected tenant, each tab's copy | load the session, select, sign out, list calls | two introspections per request, selections of page, banner and tabs against each other | revoked access is refused, every screen comes to an end, LIVE shows the tenant named |
| Login (`auth/routes.ts`, `state-store.ts`) | OAuth states, two cookies per browser, sessions at Identity | login, callback, logout | tabs share the cookies, callbacks are replayed, failures after the code is redeemed | a code is redeemed once and for the browser that asked, a session that is left behind has a cause |
| Tenant users (`TenantUsersScreen.tsx`, `admin/routes.ts`) | the list and the form of a screen | add, edit, remove | no versions at Identity, administrators who edit each other and themselves | a list settles, a save closes its own form, an edit undoes nothing its form has seen |
| Profile assignments, profiles, appearance (`profile-assignment-routes.ts`, `config-routes.ts`, `nocodb/repos.ts`) | rows of tables without keys | assign, clear, save, upload | a row is looked for, then written; contexts change hands | no key gets two rows unless saves overlap, no edit is lost, the logo uploaded is the one shown |
| Numbers and DID routes (`TenantNumbersScreen.tsx`, `NumberRouting.tsx`, `number-routes.ts`) | lists, forms, drafts of cards | save a number, configure and clear a route | lists refreshed under open forms, requests without a context | no edit is lost, a draft follows the route shown, a foreign route is not touched |
| Runtime views and commands (`runtime/`, `callState.ts`, `handsetTakeover.ts`, `OperationsScreen.tsx`, `CallDetailScreen.tsx`) | views of calls, commands sent | reduce events, poll, take over | duplicated and reordered events, overlapping polls, a lost answer to a command, a session that changes | the same view whatever the order, one tenant's calls, one command per intention |
| Startup (`db/mysql.ts`, `nocodb/base.ts`, `nocodb/schema.ts`) | the tables, the resolved base | migrate, resolve, upgrade | two processes at once | every statement may be repeated |
| Request pipeline, configuration, diagnostics, notices, wire clients, scripts | none, or fixed at start | - | - | - |

The parts meet in few places. The shell decides which tenant a screen is for;
the tenant configuration decides which contexts a PBX request may act in
(`resolveTenantPbxScope` reads the row `PlatformTenantRepository` wrote), and
which tenant an assignment or a route is for; queues, extensions and numbers
load through one hook; what the Users screen saves decides who may sign in, and
stay; the event inbox and the transcript share nothing with the rest.

## 2. The modules and the code

| Module | Models | Used by |
| --- | --- | --- |
| `EventInbox` | what production's event store promises (`id/event-store.ts:32`), in four actions | refined by `IdentityEvents` |
| `IdentityEvents` | webhook handler, transaction, catch-up loop, processes | `MCIdentityEvents`, `IdentityEventsProofs` |
| `Transcript` | `mergeTranscript` on segments and revisions | `LiveTranscript` |
| `LiveTranscript` | the effect of `LiveTranscript.tsx` over the BFF, LiveKit and the agent | `MCLiveTranscript`, `LiveTranscriptProofs` |
| `TenantConfig` | forms and saves over the two stores | `MCTenantConfig`, `TenantConfigProofs` |
| `PbxInventory` | the inventory hook, the context selector, the BFF's scope resolution | extended by the next two |
| `PbxScreen` | the Extensions screen, the PBX routes, OfficePulse's extensions | `MCPbxScreen`, `PbxScreenProofs` |
| `QueueMembers` | the members editor of a queue over OfficePulse's memberships | `MCQueueMembers`, `QueueMembersProofs` |
| `TenantShell` | tabs, session loads, selections, LIVE's list over Identity's session | `MCTenantShell`, `TenantShellProofs` |
| `CallRecord` | the reducer of call events, and the handset that took a call over | `LiveCalls` |
| `LiveCalls` | LIVE, the page of a call, takeovers, the routes and reads behind them | `MCLiveCalls` |
| `NocoRecords` | a table of NocoDB as the store reads and writes it | `ProfileRouting` |
| `NumberCards` | the list of numbers, their forms and the cards of their routes | extended by `ProfileRouting` |
| `ProfileRouting` | profiles, assignments and appearance, composed with the numbers | `MCProfileRouting`, `ProfileRoutingProofs` |
| `Login` | states, cookies and sessions of browsers that sign in and out | extended by `TenantUsers` |
| `TenantUsers` | the Users screen over Identity's memberships, composed with `Login` | `MCTenantUsers`, `TenantUsersProofs` |

`MC*` modules only name small sets for the `.cfg` files. A definition marked
`Fault:` is a plausible mistake in the definition below it; no specification
uses one. Each property has one that it catches (`mutants` in `PROJECT.json` lists one for
each property of a run), which shows that the property depends on the code.

**IdentityEvents.** Each process has webhook slots and one catch-up slot; a slot
runs `MysqlIdentityEventStore.process` one statement at a time: `Connect` (a
connection of the pool), `Insert`, `MarkProcessed`, `Commit`, or
`InsertDuplicate` once the row is committed. InnoDB's unique key is what makes a
second INSERT wait for the first transaction. `ReadCheckpoint`, `ListPage`,
`ReplayNext`, `ReplayReturns`, `AdvanceCursor` are `catchUpIdEvents`. `FailTxn`
is a failed statement (also a COMMIT that took effect although it failed),
`Crash` stops a process at any point, with each open COMMIT done or not, and
`Boot` starts it and its catch-up. Identity publishes growing ids, posts each
event until it is answered or gives up, and lists pages in order.

**LiveTranscript.** An attempt is a slot with a phase (the await it is at),
history loads and streams on their way. The code's `generation` is `gen`, the
attempt whose number it still is; `revision` and `hydration` are a flag of each
load. Every answer may arrive after the attempt was superseded (`ObserveStale`,
`JoinStale`, `LoadFails` of a load that is not `Valid`), and every failure goes
through `Retry`. The agent freezes its history at the RPC's first page
(`Freeze`) and goes on revising and streaming. A change of the `callId` prop is
a stop and a new observation. The screening of malformed pages and streams is
one failure.

**TenantConfig.** A save is a record that moves from await to await: `check`
(contexts unclaimed), `post` and, for a tenant created disabled, `disable`
(Identity), `revision`, `unique`, `write` (NocoDB), `patch` (Identity), `done`; `Fail` ends it at any of them, and a
failed call has taken effect by then or never does. `SingleWriter` is the
comment at `nocodb/repos.ts:29` as a constant: with it at most one save is
processed at a time, whoever's. The slug, the enabled flag and the name are one
value, and `Active` is the same with the flag a POST gives it; the DID context, the caller id, the audit entry and the input grammar
are left out.

**PbxInventory, PbxScreen.** A load is a request with a phase; the hook's
sequence number is the flag `latest`. A mutation exists twice, as OfficePulse's
request, which may be carried out at any later time (`Commit`, `NoCommit`), and
as the BFF's call, which may be given up on first (`CallReturns`). The browser's
request may fail at any moment in between, whatever the BFF goes on to do
(`AnswerLost`). The audit
entry is part of `CallReturns`, because its failure is only logged. `Leave`
unmounts the screen and mounts another, since `ExtensionsScreen` is keyed by its
tenant. Operator-managed rows, the switch that disables provisioning and the
handset list beside the extensions are left out.

**QueueMembers.** `Edit` copies the loaded memberships into `drafts` and
`baseline`; `Save` holds the lock while `Send`, `Succeed` and `Fail` go through
the mappings that differ, in any order, because the order is that of
OfficePulse's list; a failed or finished save loads the inventory again. The
inventory is two reads (`ReadHalf`). A request the BFF gave up on moves to
`late`. `touched`, `foreign` and `unsure` are history variables for the
properties only. One queue, one context; a member's penalty and pause are one
setting; a DELETE of an absent membership is 404, as OfficePulse's contract in
`server/test/fixtures/officepulse-openapi.json` says.

**TenantShell.** A tab has a view, the tenant its banner names, a path, and the
calls in flight. A call is served in the steps the code takes: the middleware's
introspection (`Introspect`), the handler's own (`Scope`), and what it stores
(`Store`, `Revoke`); other tabs and Identity's administrators
(`IdentityChange`) act in between. `hears` says what became of the component
that made the call, which decides what `Deliver` does. One page stands for every
screen of a tenant. Signing in, the screens' own requests and the guard
`requireTenantAdmin` of the older routes are left out.

**CallRecord, LiveCalls.** `ReduceEvent` is `reduceEvent`: a known sequence
number is ignored, a later one is applied, an earlier one rebuilds the view from
the timeline. `Views` are the views it makes when the events of a record arrive
in any order and one of them again, and `ViewOf` is the view the record
determines; `ViewIsTheRecord` compares the two. In `LiveCalls` the session works
in a tenant, in all of them (a Super Admin who selected none, for whom `scopeFor`
lists every tenant's calls: `InScope`) or in none; each detail request resolves
the session (`ReadSession`), then reads the events and the commands at moments
of their own (`ReadEvents`, `ReadCommands`); `List`, `ShowCalls` and `PollFails`
are LIVE's refresh, `PollDetail` and `ShowDetail` the polls of a call's page,
which overlap. A takeover is the button (`TakeOver`), the route's check
(`CheckCall`), OfficePulse's record (`Submit`, which may be lost on the way
back) and the answer (`TakeoverAnswered`), each under the key of its press:
several may be under way for one call, since a refresh that does not show the
call drops its attempt. `TakeoverOffered` is the reason the
shell gives LIVE against takeovers: it gives one by default, and the runs model
the screen without it.

**NocoRecords, ProfileRouting.** A table is a sequence of rows; NocoDB has
neither a unique key nor a conditional write. A save goes through the awaits of
`NocoStore`: `Find` (the row of the key), `Get` (with the revision), `AssertUnique`,
`Insert` or `Update`, each seeing the table of its moment; for assignments
`AssignScope`, `AssignNumber` and `AssignProfile` come before. `Peek` is the
upload's first look at the appearance, which decides between insert and update. A
context moves to another tenant by `Reassign`.

**NumberCards.** A card's `draft` follows the route listed for the acting
context (`Redraft`, the effect of `NumberRouting.tsx`); `SaveRoute` sends what
the form holds, and the BFF resolves the scope (`RouteScope`), asks Identity for
the number (`RouteNumber`) and OfficePulse for the routes (`RouteListed`) before
it writes (`RoutePut`). A number's version is Identity's; `IdentitySaves` refuses
another. The values of a route are one setting.

**Login, TenantUsers.** A login is its number, which stands for its state, its
code and its session. `Callback` sends the cookie the browser has at that time;
`Consume`, `Redeem`, `Introspect`, `Revoke` are the awaits of the callback, and
`AwaitFails` ends one that took effect or not; `Answered` changes the cookies
when the answer arrives, or `AnswerLost` loses it. `Logout` and `SignOut` are the
same for signing out. `spoiled` and `dropped` are history variables: a state
cookie replaced by another login, a session cookie another tab's answer took
away; so are a form's `sure` and `alone`, which say whether calls of its screen
overlapped or were lost, or one was under way, when it was opened. `TenantUsers` adds a page per browser: its list, form and lock, and calls
that are let in by the session they carry (`Authorise`), list (`ListMembers`) or
overwrite a membership (`AddMember`, `EditMember`, `RemoveMember`). The reads
that let a call in are one step.

## 3. The runs

Sizes are distinct states; every run passes in less than four minutes with two
workers.

| Run | Instance | Shows |
| --- | --- | --- |
| `events_safety` (489k, symmetry) | 2 processes, 1 webhook slot each and the catch-up slots, 2 events, pages of 1, pools of 1, 2 faults | `CursorCoversProcessed`, `AckedIsDurable`, `AppliedOnce`, `CursorNeverMovesBack`, and that the inbox refines `EventInbox` |
| `events_live` (48k) | 1 process, 3 events, pages of 2, 1 fault | `DeliveredEventually`, `StartReplaysMissedEvents` |
| `transcript_safety` (654k, symmetry) | 2 attempts, 2 loads each, 1 segment of 2 revisions | `OneConnection` (`OneDriver`, `NoLeakedRoom`), `TextIsTrue` (`CaughtUpIsComplete`, `ClearedStaysCleared`), `NeverRegresses` |
| `transcript_live` (66k) | the same with 1 revision | `CatchesUp` |
| `tenants_one_writer` (127k, symmetry) | 2 tenants, 2 contexts, 2 names, 2 screens, revisions up to 3, one writer | `ContextsDisjoint`, `NoLostUpdate`, `RefusedChangesNothing`, `SavedInBothStores` |
| `pbx_screen` (694k) | 1 context, 1 number, free at first, 1 load besides awaited ones, 2 mutations, 1 change by others | `InventoryIsFresh` (`FreshAfterSuccess`), `SecretKept`, `SecretGoneForGood`, `ScreenReleased` (`LockReleased`, `LoadingEnds`) |
| `pbx_contexts` (6.9M) | 2 contexts of which the primary one comes and goes, 2 loads, 1 deletion | `RightContext` (`RowsOfSelectedContext`, `DeletesShownRow`, `OnlyOwnContexts`) |
| `queue_members` (3.7M, symmetry) | 2 extensions, 1 setting, 1 late request, 1 change by others | `SendsWhatIsMissing` (`BaselineIsTruth`, `UntouchedLeftAlone`), `SavedAsDrafted` |
| `shell_tabs` (422k) | 2 tabs of which the second may be opened, 2 tenants, any of 3 kinds of user, 2 calls in flight, 1 act, 1 change in Identity | `AccessIsCurrent` (`RevokedIsRefused`, `TenantAdminEnters`), `NothingWaits` (`ScreenSettles`, `BannerReleased`) |
| `live_calls` (976k) | 2 calls of 2 tenants, records of up to 3 events of 14 kinds, 2 overlapping polls, 2 keys, up to 2 turns of OfficePulse, the session, a failure or the user | `ViewsAreTrue` (`ViewIsTheRecord`, `TakeoverIsReal`), `LiveIsCurrent` (`OneTenantShown`, `LiveIsOn`), `OneTakeover`, `ScreensLetGo` (`EndedLeavesLive`, `OnlyOwnCallsRemain`), `DetailConverges` |
| `routing` (1.1M, symmetry) | 2 tabs, 2 tenants, 2 contexts, 1 number, 2 calls, 1 turn, from 8 situations | `RecordsKept` (`UploadedLogoShown`), `DraftOfShownRoute`, `DuplicateNeedsOverlap`, `GuardedEditsKept` (`NoLostProfileEdit`, `NoLostNumberEdit`, `NoLostBrand`, `ForeignRouteKept`) |
| `sign_in_and_users` (1.1M, symmetry) | 2 browsers, 2 users, from 7 situations: 2 logins with 3 callbacks or sign-outs and 2 turns; or administrators signed in, with 2 edits | `OneAdmission` (`AdmittedOnce`, `OwnLogin`), `OnlyRivalsSpoil`, `NoStraySession`, `ScreenAtRest` (`LockIsHeld`, `ListSettles`), `FormsAreFaithful` (`NoBlindSave`, `ClosedByItsOwn`) |

A property with others in brackets is their conjunction. TLC finds a `Fault:`
definition for each of the parts; `mutants` names one of them. Each module also
has a type invariant, `TypeOK`, checked in its main run by itself or as the
first part of such a property.

Why the bounds are enough to meet the interesting cases:

- *Events.* Two processes with a webhook and a catch-up slot each can all reach
  the same INSERT, and two faults let a failed COMMIT be followed by a crash. A
  page of 1 makes every page full, so the loop must list once more; `events_live`
  has a full and a partial page. The proofs of section 5 lift every bound.
- *Transcript.* An attempt and its successor overlap; slots are reused, so the
  chain of attempts is unbounded. Two loads in one attempt are the one that was
  superseded by a reconnect and its successor. Two revisions can end in either
  order. The merge of `transcript.ts` treats segments independently.
- *Tenants.* Two screens, of which one creates what the other edits; a revision
  of 3 is reached by two edits after the creation. The proofs lift the bounds.
- *PBX.* Two mutations of one number are a creation and its retry, or a creation
  and a deletion; the number is free at first (the constraint `StartsEmpty`, which
  only chooses initial states), and others may take it before. In
  `pbx_contexts` the context that comes and goes is the first of the list, so
  that the other one becomes the primary context meanwhile, and the creation form
  stays closed (the constraint `FormClosed`): only deletions act on a row that is
  shown.
- *Queues.* Two extensions make a save that stops half-way; one late request and
  one foreign change can each hit a mapping already saved, the one being saved
  or one still to come.
- *Shell.* One change in Identity falls between any two introspections; two
  calls in flight are a selection of the page against one of the banner, or
  against a sign-out. The act may be opening the second tab, whose page then
  selects against the first one's.
- *Live calls.* The browser opens in one of many situations. In `Reading` the
  page of a call shows every record of three events, gaps included, over all
  branches of the reducer and of the walk, with every standing of a handset's
  command: three events are a takeover requested, failed or superseded, and a
  later bridge. In `Watching` either screen, of a session in one tenant, the other
  or all, has one turn of OfficePulse, the session, a failure or the user. In
  `TakingOver` LIVE has two presses and two turns: a tenant changed in another tab
  and changed back, the screen left and opened again, an answer lost, a command of
  a handset decided. Two polls are an older and a newer answer.
- *Routing.* Two calls are two saves, a save and a removal, or a brand and a
  logo, from two tabs without a turn to spend or from one with a turn: a failure,
  a refresh, a context switched or moved, or a visit. `DuplicateNeedsOverlap`
  and the revision checks are about pairs of saves, so a third call adds nothing
  but another pair.
- *Signing in and users.* Two logins in one browser or in two; three requests
  are both callbacks and a replay or a sign-out. The situations with edits have
  two administrators whose screens are open and loaded in two browsers, or one
  who opens the screen and may sign out or meet a failure besides. Two edits are an edit and its stale successor.

Where the system may stop the configuration says `CHECK_DEADLOCK FALSE`: all
events processed and all processes idle; the call ended and nothing under way;
the user has used up the acts and no call is in flight; the situation's logins,
requests, calls and turns are used up.

## 4. Fairness

- `IdentityEvents`: weak fairness of every statement, answer, catch-up step and
  of `Boot` (a stopped process is restarted by its supervisor), and of receiving
  a posted event: Identity posts until it is answered or gives up. No fault has
  to happen, and faults are bounded: a process that crashes for ever delivers
  nothing.
- `LiveTranscript`: weak fairness of the retry timer and of the return of
  superseded awaits, which time out; *strong* fairness of the answers of the
  BFF, LiveKit and the agent, because `Retry` asks again and again and each
  request is a new one: an answer that is possible infinitely often comes once.
  This assumes that a history load can finish within the 60 seconds between two
  renewals; an agent that never answers in that time is never caught up with.
- `PbxScreen`: the BFF's calls end within ten seconds
  (`server/src/officepulse/client.ts`) and the browser delivers what it
  receives. OfficePulse need not answer, and the user need not act.
- `LiveCalls`: weak fairness of the polling as a whole (`Polling`): timers fire,
  and the BFF answers, for its reads of OfficePulse time out. Nothing is assumed
  of one poll: it may stay unanswered while others go on. OfficePulse, the
  session, failures and the user are bounded by `MaxTurns`, so the liveness
  properties say what the screens settle on when only polling goes on.
- `TenantShell`: a call that was sent is served, fails or is delivered. Nothing
  makes a user act, a poll fire, a call fail or Identity change.

## 5. What is proved

The theorems hold for every value of the constants that meets the modules'
named assumptions: page and pool sizes and revisions are positive, the other
bounds natural numbers; `None`, `Replay` and `Out` are outside the sets they are
not part of; a tenant's list of contexts is not empty (`ContextsAreAssigned`;
`validateTenantContexts` starts it with the primary one, and a tenant that was
never configured is answered 409 throughout); the situations a run starts from are ones
the code can be in (`BeginningsFit`, `BeginningFits`: rows, numbers and routes
of their shapes; `UsersAreKnown`), and so are the lists of contexts a tenant is
given later (`AssignedFits`). The others keep names apart that the code tells
apart by their type: a tenant is not a page (`NamesAreApart`), an empty number
is no number (`BlankIsNoDid`), no row is `None` (`NoneIsNoRecord`). They are free of TLC's bounds on the number of
processes, events, tenants, contexts, screens, tabs, attempts, loads, extensions,
numbers, browsers, users, calls or faults. Each invariant `IInv` below was first checked
by TLC on the run of its component. TLC evaluates the
assumptions on every run.

**`IdentityEventsProofs`**: `TypeCorrect`, `CursorIsSafe`, `AckIsSafe`,
`AppliesOnce`, `CursorMonotone`, `InboxImplemented`.
`CursorCoversProcessed` is not inductive: that the cursor may be stored at the
end of a page follows from what the loop has read since it started. The
invariant `IInv` adds

- `IdentityInv`: only published events are posted or have a row;
- `TxnInv`: a transaction works on a published event, and one that has returned
  has seen its row committed. This carries an acknowledgement back to the commit;
- `ReplayInv`: a loop is never ahead of the cursor, and every published event up
  to the last one of its page is either still to do or processed.

`PageIsPrefix` is the fact about Identity's listing the argument rests on: a
page holds *every* published event after `since` up to its last one, and later
publications have greater ids. `AppliedOnce` is inductive together with the
waiting of the INSERT. The refinement maps the receipts that are processed and
the deliveries acknowledged; a crash may commit several transactions at once,
which is why the contract's `Apply` takes a set.

**`TenantConfigProofs`**: `TypeCorrect` for any number of writers, and under
`SingleWriter` the properties `ContextsDisjoint`, `NoLostUpdate`,
`RefusedChangesNothing`, `SavedInBothStores`. The invariant adds

- `RequestFitsForm`: which steps a creation and an update can be at, and at
  which of them nothing has been written yet;
- `FormIsSnapshot`: a form with the profile's revision shows the profile's
  contexts, so that an equal revision means an unchanged profile. This is what
  `NoLostUpdate` needs, and it holds because every write raises the revision;
- `ChecksStillHold`: what a save has checked is still so at its next await. Only
  one save runs, so nobody else has written. With two writers exactly this
  fails, and with it `ContextsDisjoint`.

**`LiveTranscriptProofs`**: `OneConnectionHolds`, `TextIsTrueHolds` and
`NoStepRegresses`, the invariants of the transcript and its action property. That
"caught up" is complete depends on the loads that are still under way, so the
invariant says of each what it will bring:

- `LoadInv`: a load that is still valid belongs to the room that hydrates, and
  what it froze, merged with what was buffered since, is the agent's latest text
  or has the rest on the wire (`Covers`). The screen rests while it hydrates;
- `BufferInv`: a buffered part of the latest revision has its stream under way;
- `OneCurrent`, `SlotInv`: at most one load is current, and none across a
  reconnect: the flag `hydration` does what its name says;
- `KnownInv`: nobody has a revision the agent has not made, so that the merge
  with `NewestIsNewer` never goes back.

**`PbxScreenProofs`**: `InventoryIsFreshHolds`, `SecretIsKept`,
`SecretGoneForGoodHolds` and `RightContextHolds`. Nothing is assumed of the lists
of contexts: where no context was chosen and the primary one moves, a deletion
does miss its row, and `DeletesShownRow` says so by its condition (section 6 has
the unconditional statement, which fails). The invariant adds

- `LockInv`: the lock is held by one mutation from its submission to the end of
  its reload, and at most one awaited reload exists;
- `FreshInv`: from the answer of a mutation on, a load that is the latest brings
  an inventory which saw its commit. With `LockInv` this makes an inventory fresh
  that is shown later, whatever loads overtook one another;
- `OpInv`: what OfficePulse has done with a mutation for each answer it was given,
  so that a committed creation is answered with success, or with one of the two
  answers `SecretKept` lists;
- `ShownInv`, `SecretInv`: what a success brought is on screen unless it was
  dismissed, and no creation is under way meanwhile, hence none overwrites it;
- `NameInv`: every load, row and mutation that names a context is in it.

**`QueueMembersProofs`**: `SendsWhatIsMissingHolds` and `SavedAsDraftedHolds`.
`CallInv` is the strengthening: until the request under way is carried out
OfficePulse has the baseline, then the draft. `LateInv` says that a request the
BFF gave up on has an unknown fate in the editor, which is why it may hit a
mapping at any later time without the baseline being wrong about another.

**`TenantUsersProofs`**: `OneAdmissionHolds`, `OnlyRivalsSpoilHolds`,
`NoStraySessionHolds`, `ScreenAtRestHolds`, `FormsAreFaithfulHolds`. The
invariant has two halves that need each other only in the middle, where
a call of the screen carries a session. `SignInInv` says of each request how far
it is and what that tells of its login's state, its session and the cookies
(`RequestsInv`), that a consumed state has a callback that consumed it
(`ConsumedInv`), that an unspoiled login keeps its cookie until it is answered
(`OwnCookieInv`), and where each live session is (`HeldInv`). `OnceInv`, which
gives `AdmittedOnce`, follows from the one `UPDATE` that consumes a state.
`ScreenInv` says what each call of a screen was sent with (`CallFits`) and, for
each browser, that a call sent alone is alone (`AloneAt`), that the lock has a
holder (`LockAt`), that a list at rest or on its way misses nothing the screen did
(`ListAt`), and what the form has seen (`FormAt`). The proof found
`NoBlindSave` false for three users and three edits, which the run's two do not
reach: a form stays open over a lost removal, the next load settles the list,
and the form is still older than the removal. A form now remembers
(`sure`) whether calls of its screen overlapped or were lost since it was opened.

**`TenantShellProofs`**: `AccessIsCurrentHolds`, that is `RevokedIsRefused` and
`TenantAdminEnters` with any number of tabs, users, tenants and calls in flight.
Whether an answer is rightful depends on what its two introspections saw, so the
invariant says of each call in flight

- `SeenIsAllowed`: what Identity allows now was allowed at some time since the
  call was sent, and a load that has been introspected once has seen only what
  was;
- `GivenIsAllowed`: the same of an answer that is still on its way back;
- `LoadIsCurrent`: while nothing has changed in Identity, what a load has seen is
  still so, and a tenant was selected for it where there was one to select;
- `CallsInv`: a component that hears belongs to a shell on screen, and LIVE has at
  most one poll, which is why leaving LIVE may drop its poll and no other.

**`ProfileRoutingProofs`**: `RecordsKeptHolds`, `DraftOfShownRouteHolds`,
`DuplicateNeedsOverlapHolds` and `GuardedEditsKeptHolds`. The last two are
action properties, and every kind of overwriting has the same argument:
NocoDB, Identity and OfficePulse give no transaction, so what a step writes
rests on what an earlier step read. The invariant says at each stage what is
left of that.

- `DuringFits`: a request that is open was open when each later one was sent, so
  that whoever wrote since a request's read, and is not older than it, overlaps it;
- `ProfileSeen`, `RouteSeen`, `KeySeen`, `LookSeen`: a request about to write has
  seen the revision, the route or the absence of the row that it relies on, or
  the row's writer was under way with it;
- `BrandSeen`: the brand an upload read is the one shown still, or another save
  of the brand was under way with the upload;
- `LogoPlaced`: an upload that nothing overlapped and no other upload follows
  writes the first record of its tenant, which is the one shown (`FirstFacts`: a
  set of rows has a least one, from the well-foundedness of `<`);
- `CopyOf`: the numbers in lists, forms and requests only age. An equal version
  means an equal number, hence Identity's comparison protects it;
- `TablesFit`, `CallsFit`: rows and requests keep their shapes, and a removed
  assignment is the only kind of row that goes away.

`DraftOfShownRoute` needs only that a form is drafted anew with each routes its
card is shown, and is inductive with the shapes of `RoutesFit`.

### What is only model-checked

- Every liveness property (`DeliveredEventually`, `StartReplaysMissedEvents`,
  `CatchesUp`, `ScreenReleased`, `NothingWaits`, `ScreensLetGo`,
  `DetailConverges`): liveness under fairness is outside the prover.
- The safety of `LiveCalls`. `ViewsAreTrue`, and of `LiveIsCurrent` the part
  `LiveIsOn`, say what `CallRecord`'s folds compute for every record, which needs
  induction over data. `LiveIsCurrent`'s part `OneTenantShown` and `OneTakeover`
  do not rest on a fold; their proofs have not been written, and so far there is
  only `live_calls` to show them for two calls of two tenants.

## 6. Where the code and its documents disagree

The statements of the first table are in the modules, and TLC refutes each with
the configuration named (with `-continue` where it names two); the
configurations are kept beside the runs, which all pass.

| Configuration | Property | What happens |
| --- | --- | --- |
| `MCIdentityEvents_checkpoint.cfg` | `CheckpointAdvances` | `event-store.ts:21` lists among the steps of process() "mark the event processed and advance the checkpoint", `events.ts:57` says "recording the event moves the cursor", the in-memory store does so (`event-store.ts:57`) and `id-events.test.ts:155` expects it. The MySQL store (`mysql.ts:110`) leaves the cursor alone, as `event-store.ts:32` asks. `EventInbox` is the contract of that line; the other reading would lose events (`CommitMovesCursor` is the mutant of `CursorCoversProcessed`). |
| `MCTenantConfig_retry.cfg` | `ConfiguredByNormalEdit` | README.md:143 says organizations without a profile "appear with revision 0 and can be configured using the normal edit form"; the route answers 400 to a revision below 1 (`server/src/admin/routes.ts:92`). |
| `MCPbxScreen_primary.cfg` | `DeletesRowClicked` | A screen on which no context was chosen shows the rows of the context that was primary when they were loaded, and its Delete acts in the one that is primary when it arrives (`ExtensionsScreen.tsx:116`); docs/NATIVE_PBX_ADMINISTRATION.md:45 says the screens "show the PBX instance and the context they act in". |
| `MCTenantShell_live.cfg` | `LiveMatchesBanner` | A Super Admin who leaves a page that is still selecting its tenant for LIVE sees the calls of the tenant selected under the name of the one before (`TenantPage.tsx:32`); README.md:211 says "LIVE shows only current calls for the selected tenant". |
| `MCTenantConfig_two_writers.cfg` | `ContextsDisjoint` | Without the single writer two saves both find a context free and both take it. docs/NATIVE_PBX_ADMINISTRATION.md:11 says without condition that contexts "belong to exactly one tenant". |
| `MCTenantConfig_retry.cfg` | `FailuresAreRetryable` | The PATCH to Identity fails after the profile is written; the form keeps the old revision and saving again is refused as another's modification (`id/repositories.ts:109` says "retryable"). |
| `MCPbxScreen_retry.cfg` | `RetryMeetsNoOwnAttempt` | A creation committed after the BFF gave up is answered "can be retried"; the retry is a duplicate and the credentials reach nobody. |
| `MCPbxScreen_forms.cfg` | `CreatedWhereStated` | The form names the inventory's context and sends the selector's (`ExtensionsScreen.tsx:274`). |
| `MCPbxScreen_forms.cfg` | `FormsUnmount` | The create form survives a change of context (docs/NATIVE_PBX_ADMINISTRATION.md:56). |
| `MCQueueMembers_drafts.cfg` | `EveryExtensionHasDraft` | An extension listed after the editor was opened has no draft; saving throws (`QueuesScreen.tsx:144`). |
| `MCQueueMembers_again.cfg` | `SaveAgainApplies` | A DELETE whose answer was lost is sent again and refused for ever; the changes after it are not applied (`QueuesScreen.tsx:176`). |
| `MCTenantShell_outside.cfg` | `TenantAdminNeverOutside` | The selected tenant is disabled between two introspections; an administrator of another tenant is shown none (`routes/session.ts:39`). |
| `MCLiveCalls_missing.cfg` | `OneTakeoverUnlessLost` | A refresh that does not show the call, because another tab had another tenant selected meanwhile, drops its takeover attempt (`OperationsScreen.tsx:170`); when the call is back a second press submits a second command while the first is undecided. The comment at `OperationsScreen.tsx:198` says "an attempt in flight (or awaiting its terminal state) never submits a second command". |
| `MCProfileRouting_cards.cfg` | `NoLostRouteEdit`, `NoLostAssignment` | A managed DID route, and an assignment, may be replaced by a form that has never seen it, with nothing overlapping: OfficePulse's routes carry no version and `allowedDid` (`pbx-routes.ts:238`) compares none; an assignment is written with the revision the server has just read itself (`repos.ts:401`), so the check of `NocoStore.update` that "the record was modified by someone else" (`repos.ts:144`) never sees the form's. |
| `MCTenantShell_two_tabs.cfg` | `EveryTabSettles` | Two tabs on the pages of two tenants keep selecting against each other (`TenantPage.tsx:22`). |

The modules were written to what the code does; where that surprises,
the properties of the runs say precisely how far they go:

- *Credentials.* They are in one answer and nowhere else. When that answer is
  lost between the BFF and the browser, or the screen is left before it comes,
  the extension exists and nobody has its password; the screen says only that
  the request failed (`ExtensionsScreen.tsx:93`). `SecretKept` lists every way.
- *Contexts that move.* `pbx-scope.ts` reads the tenant's contexts once, before
  OfficePulse is called; a mutation that waits while the context is given to
  another tenant is still carried out in it. `OnlyOwnContexts` goes up to the
  check.
- *Routes.* A card shows the routes of the selected context, but saving or
  clearing one names no context (`NumberRouting.tsx:117`, `:158`), and the BFF
  acts in the primary one. `TenantNumbersScreen.tsx:25` and
  `web/src/api/admin.ts:280` say the selection is what is acted in.
  `ForeignRouteKept` holds because the BFF checks the primary context's own list.
- *Drafts.* `NumberRouting.tsx:72` says managed settings must replace the
  defaults. A route that is deleted and created again, the same, between two
  refreshes leaves the emptied draft; `DraftOfShownRoute` excepts it.
- *Brand and logo.* An upload writes the record it read (`config-routes.ts:278`):
  a brand saved meanwhile is lost. `NoLostBrand` says an upload loses a brand only
  so. A brand saved from a form filled long ago replaces a newer one.
- *Duplicates.* Two overlapping first saves of an assignment or a brand leave two
  rows, and `assertUnique` then refuses every update. `DuplicateNeedsOverlap`
  says this is the only way.
- *Moved contexts.* A tenant that loses a context keeps its rows: the new
  holder's screen says callers stay on the PBX queue while the former holder's
  assistant answers, and saving one is refused (409).
- *Disabled tenants.* A tenant created disabled is enabled until Identity has
  answered the PATCH, and stays so when that fails (`id/repositories.ts:91`).
- *Profiles.* After a save the old list, with its Edit buttons, stays until the
  reload has been answered. After a conflict the list is not loaded again, so the edit stays
  stale until it is reopened; saving a disabled profile enables it.
- *Sessions.* Two tabs that sign in at once spoil each other's login. Signing in
  again, a sign-out that overlaps a login, or a failure after the code is
  redeemed leaves a session at Identity nobody holds; `NoStraySession` lists the
  causes.
- *Users.* The form sends the role it was filled with: renaming a member undoes
  another administrator's change of role, or adds a removed member again, because
  Identity keeps no version. `NoBlindSave` bounds what a save may undo to what
  happened since its form's list. An older list may replace a newer one when
  calls overlap; `ListSettles` says it is right again after a load that overlaps
  nothing.
- *Takeovers.* A takeover whose answer is lost, whose call was missing from a
  refresh, or whose screen was left can be pressed again with a new key; what
  keeps OfficePulse from running both is its own version check. `OneTakeover` is
  about the attempts LIVE remembers. After a
  takeover that failed, the attempt blocks a retry until the page is left.

## 7. What is not modelled

- Startup. A process that cannot migrate exits before it serves, and every
  statement of the migration may be repeated, so overlapping and interrupted
  migrations leave the same tables. The resolver of the base caches one answer
  and forgets a failure. What boot means to the event inbox is in
  `IdentityEvents`.
- Handsets: listed and revoked in one call each, through the hook that
  `PbxInventory` models. Creating and deleting queues: single mutations shaped
  like those of `PbxScreen`.
- `RuntimeScreen`'s sections (history, issues, dependencies, deliveries,
  orphans): each shows the last answer of one read, of the tenant its selector
  asks for. Participants.
- The directory search of the Users screen, and the routes of the directory no
  screen calls; the CSRF token, which is read and sent in one step.
- The request pipeline: a fixed chain of handlers; the modules take the order
  from it.
- Environment and availability notices: each shows the last answer of one
  periodic read.
- Configuration, diagnostics, network policy: pure functions of the environment
  at start.
- Wire clients: one HTTP call and a schema check per method; in the modules a
  call succeeds, is refused or fails.
- Wording, formats, layout, logging, audit records.

## 8. The plan

Done, in this order: the event inbox with its contract and proofs; the live
transcript; the tenant configuration with proofs; the inventory and the
extensions; the queue members; the shell; the live calls; profiles, assignments,
appearance, numbers and routes; signing in and the users.

What of the system is left is listed in section 7, with the reason.

Proved: the event inbox and its refinement, the tenant configuration, the live
transcript, the extensions, the queue members, signing in and the users, the
shell, and the profiles, assignments, appearance, numbers and routes.

One modelled component is left without theorems: `LiveCalls`. `OneTakeover` and
`OneTenantShown` should be provable with what is shown of a call taken as given;
the rest of its safety stays with TLC, for the reason in section 5.

`RECURSIVE` operators are avoided in every module the theorems use.

# A formal model of Flagward

Flagward is a feature-flag server: a Django application (REST API, SDK API,
server-sent events) with a Next.js dashboard. This directory holds TLA+ modules
that model its core logic, TLC configurations that check them on small
instances, and TLAPS proofs of the properties that matter most.

## 1. The system: parts, state, interaction

| part | state it keeps | operations | what is hard | what makes it correct |
|---|---|---|---|---|
| **tenancy: members** (`tenancy/api/views.py`, `models.py`) | organization, membership rows, invitations | create, rename and delete an organization; change a role, remove a member; invite, revoke, accept | requests interleave between a check and the write it guards; locks only where the code takes them; workers die | an administrator always exists, seats stay within the plan, a link admits one person, deletion spares others |
| **tenancy: grants** (`models.py`, `scoping.py`, `permissions.py`, `capabilities.py`) | project and environment grants | grant, change, revoke; the cascade when a member leaves | check of membership and insert of the grant are two statements | no grant outlives its membership; per-object and queryset answers agree |
| **overrides** (`core_flags/models.py`, `core_flags/api/views.py`) | the trail of overrides of a flag, the flag's own switch | record, lift, switch | a recording lifts the active ones row by row inside a transaction that locks nothing first; a lift decides on an unlocked read | one override forces a flag, a recording supersedes, a lift restores the configuration |
| **variant sets** (`core_flags/api/views.py`, `serializers.py`) | variants of a flag, the variant a rule rolls out | create or replace a set; create, edit, move, delete one row; point a rule at a variant | two kinds of endpoints edit the same rows, each reads, decides and writes without a lock | one control, weights that share the 100 after every write of them, a rule's variant is there |
| **flags and rules** (`core_flags/`) | flags, environments, rules, conditions | single-row CRUD, key rotation | each write has to reach the streams | rules are evaluated in the order the dashboard shows |
| **evaluation** (`core_flags/services.py`, `sdk_api/payloads.py`) | none | evaluate a flag on the server; ship the rules to an SDK | two code paths must agree | the wire payload means what the server answers |
| **live updates** (`core_flags/signals.py`, `notifications.py`, `sdk_api/views.py`) | Redis channel, one loop per stream | publish on save; subscribe, wait, re-read | publish before commit, subscribe after read, lost messages | every stream eventually shows the latest flags |
| **SDK registration** (`sdk_api/`) | registrations, tokens | register, authenticate | concurrent registration | one row per environment and platform |
| **accounts** (`authentication/`) | users, reset tokens, sessions (JWT) | register, log in, refresh, reset | tokens outlive password changes | a reset link works once; a changed password ends sessions |
| **telemetry** (`telemetry/`) | the claim of the daily slot | claim, send, `telemetry --send` | several processes | at most one send in 24 hours |
| **analytics** (`analytics/`) | evaluation logs | aggregate | textual results | counts add up |
| **dashboard: session** (`frontend/src/lib/api.ts`, `auth-context.tsx`) | the user, one refresh in flight, cookies | log in, ask, refresh, log out, redirect | requests fail together, answers outlive their provider | one refresh for a burst of 401s; only a logout or a failed refresh signs out |
| **dashboard: selection** (`lib/tenant-context.tsx`, `components/layout/dashboard-nav.tsx`, `components/dashboard/*`) | organizations, projects, the current ones, local storage | load, select, create, rename, delete | a load lands after a newer selection | organization and project belong together and are what the user chose; a deletion shows what it takes |
| **dashboard: pages** (`app/dashboard/**`) | lists, filters, dialogs, drafts | load, create, edit, delete, toggle, preview | loads and writes overlap, nothing is cancelled, the selection changes under an open dialog | at rest a page shows what is stored; a dialog saves what it was opened on and what it showed |

The API parts share one database (PostgreSQL or SQLite, `config/settings.py`);
no request runs in a transaction of its own unless the handler opens one. Core
flags publish to live updates through Django signals; streams read the same
tables. Tenancy answers every permission question of the others. The dashboard
reaches everything over HTTP, and each of its pages keeps its own copy of what it
loaded. `PROJECT.json` lists every part with its status,
and under `hazards` the places where this code can go wrong in a way a test
would hardly reach, each with the properties that watch it, or with the reason why none
does: in most of these the code does go wrong, which section 5 reports.

## 2. The modules

| module | models | state | extended by |
|---|---|---|---|
| `Capabilities` | role tables, `resolve_capabilities`, plan ceilings (`tenancy/capabilities.py`) | none | `Membership`, `Grants` |
| `Admission` | abstract: what an invitation link promises | issued, withdrawn, admitted | implemented by `Membership` |
| `Membership` | organization, members, invitations, seats | rows and what each worker is doing | `MCMembership`, `MembershipRequests`, `TenancyRequests` |
| `MembershipRequests` | the same requests, one at a time or overlapping, and what holds in either case | the same, and which case it is | `MCMembershipRequests`, `TenancyProofs` |
| `Grants` | project and environment grants, the cascade, scoping and per-object resolution | rows and what each worker is doing | composed by `TenancyRequests` |
| `TenancyRequests` | `Membership` and `Grants` side by side on the same tables | rows of both, and what each worker is doing | `MCTenancyRequests`, `TenancyProofs` |
| `KillSwitch` | abstract: what the README says of overrides | configured, recorded, forcing, effective | implemented by `Overrides` |
| `Overrides` | recording and lifting overrides of one flag | rows and what each worker is doing | `MCOverrides`, `OverridesProofs` |
| `LiveUpdates` | signals, Redis channel, `sdk_stream` | committed versions, writers, streams, messages | `MCLiveUpdates`, `LiveUpdatesProofs` |
| `VariantSets` | variants and rollout rules | rows and what each worker is doing | `MCVariantSets`, `MCVariantRequests`, `VariantSetsProofs` |
| `Evaluation` | what a flag answers, on the server and in an SDK, and the edits that change it | the flag, its override, variants and rules | `MCEvaluation`, `EvaluationProofs` |
| `Lists`, `Calls`, `VariantDrafts` | what dashboard pages share: lists and their loads, writes in flight, the rows of a variant editor | none | the pages |
| `MembersPage` | members, invitations, grants and their preview | the page, what is stored, writes in flight | composed by `Dashboard` |
| `RulesPage` | rules, conditions and variants of one flag | the same | composed by `Dashboard` |
| `FlagsPage`, `MonitoringPage`, `EnvironmentsPage`, `OverviewPage` | the other pages | the same | composed by `Dashboard` |
| `Tenancy` | the current organization and project, and the header's dialogs | the same | composed by `Dashboard` |
| `Session` | requests, the refresh they share, the user, the cookies | the same | composed by `Dashboard` |
| `Dashboard` | the pages, the header and the session, one of which is open in a behaviour | theirs, and which it is | `MCDashboard`, `PagesProofs`, `DashboardProofs` |
| `SumTheorems` | lemmas: sums over finite sets of rows | none | `VariantSetsProofs`, `PagesProofs` |

### Requests as processes

A request is an element of `Requests` (a worker that serves one at a time). It
takes one step per statement whose result it uses later; its record holds the
locals of the handler that are still needed. A handler that loads an instance,
checks a permission, opens a transaction, counts and writes has four or five
steps, and every other request may take its own between them. `Fail` ends a
request anywhere: a worker dies, or the database aborts the statement, and
nothing of an open transaction remains. Where a handler only reads before it
decides (`VariantSets`), its reads in a row are one step.

Names, timestamps and formatted text are left out, except where they decide
something: the order of `created_at` is `older` in `Overrides`, the expiry of an
invitation is a Boolean that becomes true at any moment (`Expire`).

### The database

`Database` says what excludes what.

* `"postgresql"`, READ COMMITTED. `select_for_update().get()` locks its rows until
  the transaction ends. `select_for_update().count()` locks **nothing**: Django
  removes FOR UPDATE from an aggregate query. A row that a transaction wrote is
  locked until its commit and invisible to others; an insert that references
  a locked row waits (foreign keys). Locks are not variables: a request holds
  them exactly while its `pc` is inside the atomic block (`HoldsRowLocks`,
  `InAtomic`, `Unlocked`).
* `"sqlite"`. There are no row locks, but a transaction that reads and then writes
  cannot commit across another writer, so an atomic block runs alone.

`LiveUpdates` and `VariantSets` need no such distinction. In the first a
transaction is the interval between its signal and its commit; in the second
a transaction is one step, because the row locks it takes make a second one on the
same rows wait, and two that wait for each other lose one, which is `Fail`.

### `Capabilities`

The dictionaries of `tenancy/capabilities.py` as records, the union of the three
levels as `resolve_capabilities`, the inverted maps of the queryset scoping as
`…_ROLES_GRANTING`. A ceiling is a set of at most one number, so that "no
ceiling" needs no special value. The seats a plan has and the comparison
`count >= limit` are `max_seats` and `Fits`.

### `Membership` and `Admission`

| code | here |
|---|---|
| `Organization` row | `organization`: none, live, deleted |
| `OrganizationMembership` rows | `membership`: row id → role. A row is named by its user and the invitation it came from, so that one who leaves and returns gets a new id |
| `Invitation` rows | `invitation`: issued, role, `accepted_by`, `revoked`, `expired` |
| `OrganizationViewSet.perform_create` | `CreateOrganization` |
| `OrganizationMembershipViewSet` update | `LoadForUpdate`, `RequireManagePermission`, `CountAdmins`, then `SaveRole`, `ReinsertRow` or `ReinsertRefused` |
| … destroy | `LoadForRemoval`, `RequireManagePermission`, `CountAdmins`, `DeleteRow` |
| `InvitationViewSet.create`, `revoke` | `AuthorizeInvitation`, `IssueInvitation`; `LoadForRevocation`, `SaveRevoked` |
| `InvitationAcceptView.post` | `ResolveToken`, `LockInvitation`, `CountSeats`, `Join` |
| `OrganizationViewSet.perform_destroy` | `AuthorizeDeletion`, `CountOtherMembers`, `DeleteOrganization` |

`serializer.save()` on a loaded row is Django's `Model.save()`: an UPDATE by
primary key, and an INSERT when that matched nothing. `ReinsertRow` is that
INSERT: a role change that overlaps a removal brings the removed member back.
`revived` is a history variable that remembers such rows, so that what the seat
lock does guarantee can be said precisely.

`Admission` knows links only: a link is issued, may be withdrawn, admits one
person, and nobody after it was withdrawn. `Links` maps it onto the invitation rows.

### `Grants`

| code | here |
|---|---|
| `ProjectMembership`, `EnvironmentMembership` rows | `grant`: id → target, user, role. The two tables differ in what their targets are |
| `create` of both viewsets | `ValidateGrant`, then `InsertGrant` or `InsertRefused` |
| `update`, `destroy` | `LoadForChange`, then `SaveGrant`, `ReinsertGrant` or `ReinsertRefused`; `LoadForRevoke`, `DeleteGrant` |
| `OrganizationMembershipViewSet.perform_destroy` and the `post_delete` receiver | `LoadForRemoval`, `DeleteMember` or `DeleteRefused`, `CascadeEnvironments`, `Commit` |
| `orgs_with`, `projects_with`, `environments_with`, `capabilities_for` | operators of these names |

A removal is one transaction. What it has deleted and not committed is `taken`: others
still read it, and whoever writes it, or inserts what its unique key holds, waits.
`DeleteMember` is the deletion with the receiver's first statement, because nothing else
can see between them. The receiver's statements find grants by user and organization, so
a removal of a row that is gone still takes whatever the person has by then. `raced`
and `stray` are history: a grant that was written while its holder was being removed.
How people join, and what overlaps do to the last administrator, is `Membership`'s
matter: here `Join` is one step.

### `Overrides` and `KillSwitch`

One flag. `override` holds the committed rows; an open recording keeps what it has
lifted and not committed in `lifted`. `ValidateOverride`, `ReadActive`,
`LiftPrevious` (one row a step, newest first, as `Meta.ordering` has them),
`InsertOverride` and `Commit` are `perform_create`; `LoadForLift` and `SaveLift` are
`lift`, which runs in no transaction and writes the row whatever it holds by
then. `saw` is history: the overrides a recording found active.
`effective_is_enabled` is what both the dashboard and the SDK payload compute
from the newest active row.

`KillSwitch` has no requests: `Force` supersedes, `Lift` restores the
configured state, an override that is over never comes back.

### `LiveUpdates`

What a stream serves is read by two queries, the active overrides first and then the
flags (`serialize_environment_flags`), so the tables are two counters: how many
changes of each are committed. A stream's `last` is what it has sent.

A write begins, commits, or is rolled back; its kind says where its signal is.
A lone `save()` and a lift send `post_save` after their statement committed. Django's
`delete()` and the recording of an override send theirs inside a transaction,
hence before the commit. Nothing listens to `Variant`. A signal adds a message
to each subscription (`Published`), or none where Redis is absent or its failure
is swallowed. `event_stream` is `ReadOverrides`, `ReadFlags`, `Subscribe`, and then
`Wake` with a message, or `Poll` without a subscription. `LoseMessages` is a broken
subscription that reconnects. `owed` is history: the latest change, of a kind
that is announced after its commit, that was committed while the stream was
subscribed; when the last message that would have told of it is lost, nothing is
owed any more (`Forgive`).

### `VariantSets`

| code | here |
|---|---|
| POST `/flags/{id}/variants/` | `ReadForPost`, `CreateSet` |
| PUT `/flags/{id}/variants/` | `ReadForPut`, then `ReplaceSet` or `ReplaceRefused` |
| `VariantViewSet` create, update, destroy | `ValidateCreate`, `InsertRow`; `ValidateUpdate`, `SaveRow`; `LoadForDestroy`, then `DeleteRow` or `DeleteRefused` |
| `StrategyRuleViewSet` create and update | `ValidateRule`, `SaveRule` |

`Whole` is the code's 100. `raced` is history: a request wrote variants after
another request had written some between its reads and its write. The guards of
the handlers are sound for requests that are not overtaken; nothing locks
the flag for those that are, and the properties say exactly that.
Weights may be negative, and nothing checks those of a flag when a row is deleted or
moved away. `WrittenWhole` therefore says of each write of a set or a row that it leaves
the flag with the whole, whatever the requests before it left. In a whole set clients may send
fractions: they count in the sum that is checked (`AddsUp`) and are then cut off (`cut`).
Items of a set may name an id twice, as the serializer allows; the last one wins
(`LastItem`). Names are left out: the unique name of a flag's variant refuses
statements, which `Fail` covers.

### `Evaluation`

| code | here |
|---|---|
| `FlagEvaluationService.evaluate_flag` | `Answers`, from `Outcomes`, `FirstMatching`, `RuleAnswer`, `Split`, `Control` |
| `_evaluate_rule`, `_evaluate_condition`, `_evaluate_percentage_split` | `MayMatch`, `MayFail`, `MayRaise`; `ConditionHolds`, `ConditionRaises`, `Under` |
| `serialize_flag` | `Payloads` |
| the local evaluation of the README's "flag payload" section | `LocalAnswer`, from `LocalHolds`, `LocalMatch`, `LocalVariant`, `LocalRollout`, `LocalSplit`, `LocalControl` |
| `FeatureFlagSerializer`, overrides, `StrategyRuleSerializer`, `ConditionSerializer`, both kinds of variant endpoints | `SaveFlag`, `RecordOverride`, `LiftOverride`, `SaveRule`, `DeleteRule`, `SaveCondition`, `SaveVariants`, `SaveVariant`, `DeleteVariant` |

The state is one flag's rows, and each edit is one step: how requests overlap is
`Overrides`' and `VariantSets`' matter, and what the rows then mean is this module's. A
context is the bucket the user falls in, if there is a `user_id`, and the value of one
attribute, if it is there; the hash is any function of the user. Rules of equal
priority come in any order, so the server has a *set* of answers for a context and
a flag a *set* of payloads. `get(is_control=True)` on a set with no control or two
raises, and so does `last()` of no variant: both are the answer `Error`. So does a condition
whose stored value does not wrap another one (`wrapped`), when the context has its attribute: the
API stores strings, numbers and lists as they are sent, and the code asks each for its `.get("value")`. The
conditions of a rule have no order either, and `all()` and `any()` stop early, so one that raises may or may
not be reached: a rule may match, may fail or may raise, in any combination. `IN_LIST` and
`CONTAINS` are left out; they compare as `EQUALS` does, with one value on either side. Comparisons of values of
unlike kinds, which raise as well, are left out too.

The SDK's side is written from the documentation and not from the server's code,
which is what makes the comparison worth making: its split walks the payload and
answers `Nothing` where the text does not say what to answer. A condition that is not wrapped, of which
the text says nothing, does not match there; `SdkAgrees` is about contexts for which the server cannot raise.

### The dashboard's pages

A page module has three variables. `page` is the React state of the mounted
component (only what is decided by), `server` is what the API has stored, with
a count of the writes it has carried out, and `flight` is the set of calls on
their way. A handler up to its `await` is one step (`handleSaveRule`), what the server
makes of the call is another (`HandleSaveRule`), and the rest of the handler, with
its toast, its resets and its reload, a third (`Return…`); an answer may be lost
after the server has acted. A call keeps the closure of its handler: what it was
about, and which selection it will reload for. The reads behind a page are
its module's `Stored`, of which no page sees more than the first page of results.

`Lists` has the pattern every page shares: `await` some requests, then replace the rows. No
load is ever cancelled, so loads of one list land in any order. `excused` is history: the
rows may be out of date for a reason this code does nothing about, such as an answer that
a newer one had overtaken, one for a selection left since, or a call that failed after the server
had acted. `Settles` then says that in every other case a page at rest shows what is stored.
It does not say that answers may come in any order: those that overtake one another, come for a
selection that was left or land while a switch is moved are excused, because no load is cancelled and the rows may
then be wrong until the next load that is answered in order. What it says is that each handler reloads
every list its write has touched, for the right selection, with other calls and loads under way. Section 5
lists what the excuses excuse.

| module | handlers | worth knowing |
|---|---|---|
| `MembersPage` | role changes, removals with their stray grants, invitations, the grant dialog | a preview's answer carries the signature of what it was asked for (`Signature`); every input that changes forgets it |
| `RulesPage` | the rule and condition dialogs, the variant editor | a condition's value is a text in the form: `Shown` and `Parsed` are the two conversions, over every kind of value the API stores: lists (`plain` if their items are plain words), splits, numbers, texts and the wrapped values of `README.md:1046`. `Formed` is what the dialog writes itself. `opened` and `variantsOpened` are history |
| `FlagsPage` | switches moved ahead of the answer, lifting, deleting, the dialog that creates or renames | a multivariate flag takes two calls; `abandoned` is history: the second was never made or failed. `crossed` is history, section 5 |
| `MonitoringPage` | filters and pages of the log, recording and lifting overrides | one load of five requests; a missing page of the log fails all of it |
| `EnvironmentsPage` | creating, deleting | a load only with a project |
| `OverviewPage` | the ranges and filters of the analytics | two loads, one of which the filters start again |
| `Tenancy` | `load`, selecting, creating, renaming, deleting | `Restored` is what `load` makes of local storage; a deletion first fetches its impact. A refresh is a load and a question of `/auth/me/`, both tagged with what they are for; its answer is a new user and loads once more, its failure keeps the user. A new organization is selected in the step in which its refresh ends, with the projects of the click |
| `Session` | `request`, `refreshSession`, `login`, `logout`, `me`, the guard | a request that met a 401 is `waiting` for the one refresh and goes out once more; cookies are written when an answer arrives. A redirect leaves the provider's requests behind, `mounted` no more |

`Dashboard` puts them side by side: a page keeps its state to itself and starts anew when it
is opened, so `route` chooses at the start which one a behaviour is about.

## 3. What is checked

Each run is a module, a configuration and the properties it names.

| run | instance | states | shows |
|---|---|---|---|
| `membership` | 4 users, 3 links, 2 workers, FREE, PostgreSQL, in every behaviour either one request at a time or the requests that move seats overlapping, with links that do not expire meanwhile | 220k | One at a time, the guards are right: `AdminAlone`, `SeatLimitAlone`, `RevokedOrAcceptedAlone`, `RowsAlone`, `DeletionAlone`. Overlapping acceptances never exceed the plan (`SeatsTakenWithinPlan`) and every row traces to the link its holder used (`JoinedThroughInvitation`), stale saves and failures included |
| `tenancy_requests` | every operation of 2 workers on PostgreSQL: on members and links (3 users, 1 link), or on grants (2 users, 1 project, 1 environment, 2 grants) | 82k | The requests implement `Admission` (`LinksAdmitOnce`); no set of waiting requests blocks itself (`RequestsAnswered`); a grant without a member was written during its holder's removal, and whoever leaves takes theirs along (`GrantsFollow`); querysets and per-object resolution give one answer, orphans included (`AccessAgrees`) |
| `overrides` | 4 overrides, 2 workers, SQLite or PostgreSQL | 156k | Where transactions run alone the requests implement `KillSwitch` (`IsKillSwitch`). On PostgreSQL two overrides are active together only when neither saw the other (`OnlyOverlappingActive`), and recordings that lift the same rows never wait in a circle (`RequestsEnd`) |
| `streams` | 1 stream, 2 writers, 4 changes of every kind, Redis fails at will | 239k | No wake-up is lost (`NoLostWakeup`); each announced change that was committed while a stream was subscribed reaches it unless its message is lost (`ReachesSubscribers`); a stream that has no subscription catches up (`PollersCatchUp`) |
| `variant_sets` | 3 variant ids, 1 rule, 2 workers, whose requests overlap on one flag or come one at a time on two | 1.1M | `RolloutsKept` whatever overlaps; no second control (`OneControl`) and no flag without a variant (`LastVariantStays`) by requests that were not overtaken; each of these that writes weights leaves the flag with the whole (`WrittenWhole`) |
| `evaluation` | 2 rules, 2 variants with weights from -1 to 3, 2 priorities, 4 conditions, of which 2 at a time, a whole of 2 | 77k | In every configuration of whole or no weights the SDK answers what the server does, unless the server may raise (`SdkAgrees`); raising a percentage only adds users (`RaisingOnlyAdds`); an edit of a rule reaches nobody who matches an earlier one (`EarlierRulesShield`) |
| `dashboard` | six pages, the header and the session, each on its own instance, two loads of a list in flight | 2.3M | Handlers reload each list their write touched (`Settles`) and at rest the selection belongs together (`SelectionSettles`); dialogs of the rules page, and but for section 5 those of the flags page, save what they were opened on (`EditsReach`), a rule, or a condition as the dialog writes it, that is saved untouched stays as it was (`UntouchedKept`), a grant is sent as previewed (`GrantsPreviewed`), the rules page's variant editor, opened on a set with one control and no more than the whole beside it, saves that set or one that shares the whole (`SharesAddUp`), a multivariate flag gets its variants unless a call failed (`VariantsFollow`), no page of the log is asked for that is not there by an up-to-date count (`PagesExist`); one refresh for a burst of 401s (`OneRefresh`), and nothing but a logout or a failed refresh signs out (`SessionKept`) |
| `last_admin_unlocked_count` | 2 users, 2 workers, PostgreSQL | | a disagreement, section 5 |
| `two_active_overrides` | 2 overrides, 2 workers, PostgreSQL | | a disagreement |
| `change_before_subscribe` | 1 stream, 1 writer | | a disagreement |
| `rollout_moved` | 2 flags, 2 variants, 1 worker | | a disagreement |
| `stale_impact` | the instance of `dashboard` | | a disagreement |

### Bounds, and why they are enough

* **FREE** has three seats, so that four users and three links fill it and one more
  asks; a plan without a ceiling could not show an overrun.
* **Two workers**: each hazard of sections 1 and 5 is between one request and one
  other that writes between its steps. A third worker repeats the role of one
  of the two. The invariants that were proved hold for any number.
* **Override ids**: three are enough for one active, one being recorded and
  one that supersedes both; the fourth lets two overlapping recordings leave two
  actives and two later ones lift both, which a circle of waiting needs.
* **`MaxWrites` = 4** bounds the changes of a behaviour and the messages that
  wait; two changes per table let a read mix old overrides with new flags and
  be overtaken again.
* **Variants**: three ids, weights from -1 to 2 of a whole of 1, so that "fits", "too
  much" and "too little" all occur, also by a negative weight whose row goes; submissions of one or two items,
  with and without ids, with a repeated id, one with a negative weight, one of two halves and one with two
  controls, which is refused.
  Ids are not handed out twice, so that a behaviour ends its creations after three.
* **Evaluation**: a whole of 2 has two buckets, one on each side of a percentage of 1;
  splits of 0 and 1 are "nobody" and "some", rollouts of 1 and 2 "some" and "everybody"; two variants split evenly,
  one has all, or one has more and the other less than nothing; a deleted variant leaves weights below the whole. Two rules
  with two priorities come in order or tie, and two conditions tell AND from OR: two splits, one wrapped value and
  one as the dashboard stores it, any two of which rules may have between them. With two rules the flag is on and not
  forced, and weights are 1 or 2; negative and empty ones come with one rule, which decides as much about a split
  as two do.
  `FlagTypes` lets a boolean flag with rules become multivariate; a multivariate one
  does not turn back in the run, since a boolean flag ignores its variants.
* **Grants**: one project with one environment have a grant on each level, two grants
  for one user or one for each of two; the worker that removes and the one that writes are the
  two of every hazard. What roles do is asked where requests come one by one, with
  all four of them; where they overlap a grant is an ADMIN's, because only
  managing members decides anything there. `MaxGrants` bounds what is stored or asked for.
* **Dashboard**: `Limits` gives, for each thing a user may be doing on a page, how many
  calls are in flight and how many writes the server carries out: two where answers of
  two writes can cross, else one. `MaxLoads` = 2 lets an older load land after a newer one,
  of one list of the page at a time (`live`); the others are answered at once. A filter of
  `MonitoringPage` has one match and none, with pages of one row. A whole of 4 with
  weights typed as 2 and 5 has drafts below, at and above it; the editor starts from sets that are whole, empty, short of
  the whole, and whole with a negative weight, and conditions from what the dialog writes and from wrapped values,
  empty lists and numbers where it writes texts. `Session` has two
  requests in flight and three access tokens, so that a burst meets one refresh, fails, and a
  new login follows.
* Users, invitations, overrides, rules and workers are interchangeable in the
  code, as are variants where their order does not matter, hence the symmetry sets; runs with liveness properties use none.

`CHECK_DEADLOCK FALSE` is set everywhere: clients need not send anything, ids run
out and writes are bounded, so a state in which nothing happens is no error. That
requests do not block each other is a liveness property of its own.

### Fairness

* `Membership`, `Grants` and `Overrides`: strong fairness of `Advance(r)`. A worker goes on with the
  request it serves; a step that waits for a lock is enabled only while the lock
  is free, and the database queues waiters, so one that is possible again and
  again is taken. Arrivals, `Fail` and `Expire` have no fairness.
* `LiveUpdates`: weak fairness of each stream's turn (the event loop returns to every
  generator that can go on; `POLL_SECONDS` passes) and of `SendSignal` (the
  statement after the commit). Writers need not begin or commit, Redis need not
  fail, clients need not disconnect.
* `VariantSets`, `Evaluation` and the dashboard have safety properties only: a user need
  do nothing, and `fetch` has no deadline, so nothing must ever be answered.

## 4. What is proved

Each theorem is about the specification that a run checks, and names the same formula.
It holds for every value of the constants that meets the named assumptions of the
modules, which TLC evaluates in every run:

* `MembershipAssumption`, `OverridesAssumption`, `LiveUpdatesAssumption`, `VariantSetsAssumption`,
  `EvaluationAssumption`, `AccessAssumption`: finite sets of users, ids that are not the null,
  a plan of the catalogue, one of the two databases, environments with their projects, finitely many
  rules and variants of a flag. Weights are any integers, negative ones too; of conditions only a split is known to be wrapped,
  because the serializer wraps it.
* `Dashboard` has one for each page, for the header and for the session: what is stored at first
  is what the API can store (`MembersAssumption`, `RulesAssumption`, `FlagsAssumption`,
  `MonitoringAssumption`, `EnvironmentsAssumption`, `OverviewAssumption`, `HeaderAssumption`): rows
  have their types, a flag of the flags page has its variants, a rollout has a variant and a share or neither, a condition has
  an attribute and a split, alone, the value of one, filters and the log are finite, no id reads "user" (they are UUIDs).
  What variants of the rules page weigh, whether they have a control, and what other conditions hold is free. `SessionAssumption`
  leaves room for one request and one token; `ListsAssumption`, `CallsAssumption` and
  `WholeAssumption` say that bounds and the whole are numbers. `StringsAssumption` names the texts
  that the pages put into forms, since the provers know nothing of strings.

### The server

* **`TenancyProofs`, members and links.** Overlapping: `TypeCorrect`, `SeatsHold`, `TraceHolds`, `LinksRefined`.
  Types alone are not inductive: that a role change holds a real row, and that
  an acceptance has an actor, are facts about locals (`LocalsSet`). `AcceptanceInv`
  adds what the locks keep true: one acceptance at a time (`OneAcceptance`), and
  the link it has locked stays usable until it is done (`LockedInvitationOpen`); from it follow
  the steps of `Admission`. `SeatInv` adds `CountedSeatFree`: between the count and the
  insert no other acceptance runs, and whatever else inserts a row marks it
  `revived`. `TraceInv` extends the trace to rows a stale role change still holds,
  because it may insert them again.
  One at a time: `AloneHolds`, and from it `AdminKept`, `SeatLimitKept`, `RevokedOrAcceptedKept`,
  `RowsFromAcceptance`, `DeletionSparesOthers`. `AloneInv` says what each request in progress has read
  and that it is still so (`ReadsStand`): the loaded row is the stored row, a count that let a demotion pass
  leaves another administrator, nobody has joined since the seats or the other members were counted.
  With the refuting run `last_admin_unlocked_count` this says where the guards fail: in the
  overlap, nowhere else.
* **`TenancyProofs`, grants.** `ScopesAgree`: the querysets of `tenancy/scoping.py` and the per-object
  `capabilities_for` give one answer in any state whatever, by the role tables alone
  (`ScopeOfCapability`, `RolesInverted`). `GrantsFollowMembers`, by `GrantsInv`: what a removal has
  deleted and not committed is held by it (`TakenHeld`), a writer that is not marked has a holder who is a
  member and whom nobody is removing (`WritersMarked`), so that a removal that is done has left only marked rows (`SweptLeavesStrays`).
* **`OverridesProofs`.** `TypeCorrect`, `InvHolds`, `OneActiveAlone`, `SeenAreLifted`,
  `KillSwitchRefined`. `RequestsInv` says what a recording's locals mean, `AloneInv`
  that on SQLite what the transaction read is still all that is active when it
  commits. `SeenAreLifted` is about both databases: a commit lifts everything it saw.
  `KillSwitchRefined` maps every step to `Configure`, `Force`, `Lift` or a stutter.
* **`LiveUpdatesProofs`.** `TypeCorrect`, `WakeupsKept`, whatever Redis does and whatever kinds of
  writes come. A stream that waits has sent what it owes, or a
  message is on its way, or a worker is about to send one; the middle of a read
  needs its own clause, because a change between its two queries is half in it.
* **`VariantSetsProofs`.** `InvHolds`, `TypeCorrect`, `RolloutsStay`, `OneControlHolds`, `LastVariantKept`,
  `WrittenWholeHolds`. `ReadsStand` carries what a request read from its first step to its write,
  unless it was overtaken; `PlacedRows` and `PlacedOneControl` say what a submitted
  set becomes as rows. `WeightsInv` does the same for weights: a validated row adds up to the whole with what the others of its
  flag sum to, and still does when it is written (`WeightsStand`); a whole set adds up by itself, if it
  names no row twice and nothing is cut off (`Exact`). Nothing is needed of the weights that earlier
  requests left.
* **`EvaluationProofs`.** `TypeCorrect`, `RaisingHolds`, `ShieldHolds`, `SdkAgreement`. Both action properties
  need only what types say: percentages and priorities are numbers, so that a bucket under
  one percentage is under a greater one, and a rule that precedes another keeps
  it from being reached. A rule that answers for sure, because it matches and nothing in it can raise, is what
  shields; where a split grows, the contexts in which nothing could raise still cannot. What a split of weights answers is never opened: it depends on the
  variants alone (`SplitKept`).
  `SdkAgreement` does open it. The server looks rules and the control up in sets and splits along ids; an SDK
  walks the lists of a payload. Any finite set can be listed in an order (`Listable`, `ListsAll`), rules of one
  priority in several, so the proof compares the sets of answers: the first rule of some list that
  matches is one of those that come first in the set, and each of those is first in some list (`ComesFirst`). Without
an error in the set of answers no rule that is reached can raise, and there the two ways to match agree. Where
  a split ends is a running total of the weights (`Totals`), which is the sum over
  the ids up to a place (`SumTheorems`), so that both walks stop at one variant (`SameSplit`).
* **`SumTheorems`.** Sums over finite sets are folds, and what a fold computes is an induction. It is done
  without an induction theorem: were a sum to depend on the order in which its members are taken, a
  set of least size would show it, and from that one a member can be taken away.

### The dashboard

`PagesProofs` (lists, the variant editor, the members, rules and flags pages) and `DashboardProofs` (the other pages,
the header, the session) prove eleven theorems about `Dashboard`'s `Spec`, whichever page is open. `DashboardInv`
is the invariant of the open page; `DashboardStep` says that no step breaks it and that no step does
what an action property forbids. The invariants, page by page:

* **Lists.** For any list, `Current` is the strengthening of "settled": with loads in flight, the last of them
  was overtaken, is still to be read, or has read what is stored; with none, the rows are what is stored or
  excused. Each operation of `Lists` keeps it or establishes it (`ReadCurrent`,
  `FetchCurrent`, …), once for all pages.
* **Settles** (`PagesSettle`). A list of a page is `Current`, or a call that was carried out is in flight
  whose answer reloads it (`MembersReloads`: for each call, the lists its write touches). A
  handler that forgot one of them would leave this invariant when its answer comes.
  On `FlagsPage` the rows are those of the server with the switches moved that calls in flight are about
  to move (`MovedFlags`), one of a flag at most, or excused.
* **Types** (`DashboardTypes`). On several pages they need more than themselves: on the overview the flags' environments
  exist, on the monitoring page a count was answered before it is paged by, in the header a
  create-project dialog is open in an organization (`Placed`), in the flags page's variant editor shares stay between
  0 and the whole because an edit cuts what is typed to what the rows without control leave.
* **Dialogs** (`PreviewedGrants`, `EditsReachTheirRow`, `UntouchedStays`). On the members page a kept signature and
  the result on the screen come from one preview (`Good`), and a preview in flight was asked
  with its own signature. On the rules page an open dialog's row is the one it was opened on,
  and a closed one leaves nothing for the next; what the dialog may have written (`Formed`) is shown as a text that parses
  to it again. Other stored values do not come back, and the theorem does not claim them. On the
  flags page the row is the opened one, but for a new flag that is typed into what an answer left (`crossed`).
* **The variant editor** (`SharesSavedWhole`). A set is fair if it has one control and the other rows, none of which weighs less than
  nothing, leave it something. Whatever the server stored, the drafts of a fair set are the set as it was opened or
  share the whole, since each edit gives the control what is left, for any number of rows (`RulesEdited`). The sums are
  `SumTheorems`', and removing a row is a bijection of the places that are left (`PastPlaces`).
* **`VariantsFollowFlags`.** A stored multivariate flag has its variants, or its creation was
  answered but not yet followed, or its set is on the way, or it was abandoned.
* **The selection** (`SelectionFits`). `HeaderInv` says that the header's list is `Current` or the answer of
  a write that was carried out will load it (`HeaderShown`), and that what is selected is what a load would restore
  of the listed rows, or a load is in flight (`Fits`). That alone is not inductive: a new organization is
  selected when its refresh has ended, with projects listed at the click, and by then the rows may hold another one
  first. `Waits` says why this does not last: until then `/auth/me/` is still to
  answer, which loads once more, or each load of that refresh is overtaken or followed by the one of the new user. So after the
  selection a load is to come, or an overtaken one has excused the list. The theorem holds for all `Limits`.
* **`PagesAskedExist`.** What a page of the log is asked by was counted by an answered load of the same
  filters (`Answered`, `CountedSame`).
* **The session** (`RefreshOnce`, `UserKept`). `OneByOne` ties the flag of the
  client to the one refresh in flight and to those who wait for it; `CheckAlone` says that
  while a provider's check is on its way there is no user for its failure to take away, and
  nothing else of this provider that would bring one.

### Only model-checked

* Liveness (`RequestsEnd`, `RequestsAnswered`, `ReachesSubscribers`, `PollersCatchUp`), which needs
  fairness and ENABLED. Every other property of a passing run is a theorem.

## 5. Where code and text disagree

With a run that shows it:

1. **The last administrator** (`last_admin_unlocked_count`). `tenancy/api/views.py:228`
   says the check and the write share one `select_for_update()` transaction. The
   count locks nothing, so two demotions of the last two administrators both see
   two and both commit.
2. **One active override** (`two_active_overrides`). `README.md:921` promises it;
   two overlapping recordings on PostgreSQL see no override of each other.
3. **A stream cannot drift** (`change_before_subscribe`). `README.md:1091` says so;
   a change between the first read and the subscription is not sent until another
   one comes.
4. **The rollout variant belongs to the rule's flag** (`rollout_moved`).
   `core_flags/api/serializers.py:135` says so; a PATCH of a variant's `flag` moves
   it away from the rule.
5. **A deletion shows what it takes** (`stale_impact`).
   `components/dashboard/delete-resource-dialog.tsx:40` and `:104` say that counts are exact and never
   left over from a previous look. The fetch of an earlier look is not cancelled, so its counts
   land in a later look at another organization and enable its deletion.

Seen in the same models without a run of their own:

* The last-admin guard also compares with the role the row had when it was loaded; a
  promotion in between makes it guard nobody.
* A role change that overlaps a removal brings the member back, above the plan's
  seats if someone took the seat (`revived`).
* A link revoked while it is being accepted ends up both revoked and accepted;
  nobody is admitted by it afterwards.
* The deletion of an organization counts other members without a lock; an acceptance
  in between loses its member with the organization.
* Two lifts of one override both stamp it: the first `cleared_at` is lost. With two
  active overrides, lifting the one the dashboard shows leaves the other forcing.
* A deletion and a recording send their signal before they commit: a stream that
  reads at once finds the old flags and is not told again. Edits of variants are
  not announced at all. A message lost with a broken subscription is not made
  up for.
* DELETE of one variant, or a PUT that names one id twice, leaves weights that do not
  sum to 100 (`README.md:379`), without any overlap. A sole variant may be PATCHed
  to be no control. A PUT that swaps two names meets the unique constraint halfway and
  is answered as a server error. Fractional weights that sum to 100 are truncated
  one by one, so that less is stored. Negative ones pass: 150 and -50 sum to 100, and deleting the row of
  -50 leaves 150.
* **Condition values.** `README.md:1046` and `:1056` have them wrapped as `{"type", "value"}`, and
  `core_flags/services.py:175` asks each for its inner `value`. The API checks and wraps those of
  PERCENTAGE_SPLIT alone (`core_flags/api/serializers.py:63`); the dashboard sends every other one as a plain string, number
  or list (`rules/page.tsx:372-385`). The evaluation of such a condition raises when the
  context has its attribute, and `/sdk/evaluate/` fails for every flag of the environment.
* With weights below 100 the server gives the last variant what is left
  (`core_flags/services.py:116`), and the walk that `README.md` asks of SDKs ends without
  an answer: `SdkAgrees` is about whole and empty sets only.
* Rules of equal priority have no order of their own (`core_flags/models.py:120`). Each
  query may bring them in another one, so that server and SDK agree on the set of
  answers, not on one of them.
* A multivariate flag that is enabled before it has variants, or whose sole variant is
  patched to be no control, raises in `evaluate_flag`; `/sdk/evaluate/` then fails for
  every flag of the environment.
* `tenancy/models.py:313` says that without the cascade a grant "outlives the membership that
  justified it, and keeps working". A grant validated before a removal and inserted after it, or
  a role change that inserts a row the cascade has taken, is such a grant: it counts for nothing
  (`AccessAgrees`) until the person rejoins. A second removal of one row takes the new grants
  of somebody who has rejoined.
* `tests/unit/test_scoping.py:34` says that scoping and resolution agree for every capability.
  For `project.view` they do not: a grant on one environment shows its siblings in
  `environments_with`. No view asks that. Of orphans, `capabilities_for` alone says more
  than the querysets do; every view that uses it has gone through one first.
* Dashboard, rows: an answer for a project that was left, or one overtaken by a newer one, is
  shown under the current one until the next load, though `lib/tenant-context.tsx:24` says that "the UI never shows
  one organization's data under another's name". `Settles` excepts these lists. A
  load that lands while a switch is being moved undoes it on the screen, and one
  `togglingFlagId` for all switches lets two of them cross.
* Dashboard, dialogs: a creation that is answered after a flag was opened for editing
  closes the dialog and keeps that flag (`flags/page.tsx:245`), so that "New flag" edits it
  (`crossed`); `EditsReach` excepts that dialog. An invite link that is answered after its dialog was closed is kept for the next time
  it opens (`members/page.tsx:445`). A project grant is changed in place by the form's row though
  the project was switched meanwhile. A rename is sent to whatever is current at "Save".
  A new organization is selected with the projects listed at the click (`dashboard-nav.tsx:242`): if
  the question of `/auth/me/` fails, nothing loads after that, and a project created in it meanwhile is not selected.
* Dashboard, values: the condition dialog unwraps the values of splits alone (`rules/page.tsx:349-360`). Opened and
  saved untouched, a wrapped value of another operator is stored as the text `[object Object]`, or sent as null and
  refused where the operator wants a number; an empty list comes back as a list of one empty word, a number or a list
  under an operator of texts as a text, numbers in a list and items with a comma as other items. A rule with a
  rollout whose flag is boolean by now loses it. `UntouchedKept` is about the values the dialog writes itself.
* Dashboard, weights: `rules/page.tsx:134` says that the control's percentage is always what the others leave. The editor
  opens a set as it is stored and recalculates it with the first edit, so that one short of 100 is sent, and
  refused, as it was opened; one without a control is never recalculated, and one with a negative weight is whole without being a
  split.
* `flags/page.tsx:223` says that an invalid split never creates an orphaned flag. Two
  variants of one name do: the flag is stored and the set refused.
* `MonitoringPage`: "Cancel" keeps the override form and Escape empties it; "next" is decided by
  the previous filter's count; after a switch of project the filters of the old one stay.
* `Session`: an answer of `me()` that arrives after a logout signs in again on the screen; an answer
  of a refresh restores the cookies a logout removed, and a late answer of a logout removes those of
  a new login. A failed refresh of a provider that is gone signs out the new one's user, because the handler is
  a module's variable. `auth-context.tsx:99` says the provider stays mounted from the login page to
  the dashboard: each layout has its own.

## 6. Not modelled

* **Projects and derived keys.** The ceiling is counted under the organization's lock exactly as
  seats are; a derived key is numbered text, offered again at most three times against a
  unique constraint, which unit tests reach.
* **SDK registration and authentication.** `update_or_create` on a unique row and a lookup.
* **Registration and password reset.** Reset links are rows that do not touch one another: using
  one leaves the others usable until they expire, and nothing promises otherwise.
* **Telemetry.** One UPDATE with its condition in the statement claims the day; a send
  that fails after it is given up. There is no second step to interleave.
* **Reads of mixed moments.** Overrides and flags of a payload are read by two queries, so an SDK
  may be sent a mixture no moment had. It is transient, since the second change's
  message starts another read (`NoLostWakeup`), and no text promises a snapshot.
* **Analytics.** Ratios and time buckets are SQL sums. What is asked for, and of whom, is in
  `OverviewPage` and `MonitoringPage`.
* **Conditions** IN_LIST and CONTAINS in `Evaluation`, and comparisons of values of unlike kinds
  (`"7" > 3`), which raise as values that are not wrapped do. The dashboard's side of all operators is in `RulesPage`.
* **Flags CRUD** beyond what evaluation and the pages tell apart: moving a rule to another flag, keys and
  descriptions, key rotation.
* **Preview of effective capabilities** (read-only), and the deletion of projects and environments with their
  grants, which foreign keys do.
* **Account pages, markup, translations, admin sites, settings, commands, packaging**: no state that
  outlives one form.

Composing further would join `Overrides`, `VariantSets` and `Evaluation` into what an SDK is served while
edits overlap, and prove that scoping and resolution agree for any tables.

# A formal model of the notarized action ledger

The repository is a ledger of what agents do: a person issues a grant, grants are
delegated to agents, an agent's actions are recorded in a session, and each
recorded action is sealed by a notary into an append-only log whose per-session
Merkle root is stored as an anchor. Receipts let an auditor check one action
offline. The server is Go over gRPC, every RPC is a goroutine, and the only shared
state is PostgreSQL. **No handler opens a transaction**: each store call is one SQL
statement that commits by itself, and almost every property worth stating here is
about what may happen between two of them.

The console is a React application beside it. There nothing is atomic either: every
component awaits its own calls, answers come in any order, and what an answer finds
when it comes (another tab, another row, another account) is decided by effects and
flags. The second half of this development is about that.

Modules (`*.tla`) hold the model, `MC*.tla` and `*.cfg` the instances TLC checks,
`*Proofs.tla` the theorems TLAPS checks, `PROJECT.json` the links from definitions
to source lines, the hazards and the findings.

## 1. Inventory

| Component | State | Operations | What is hard | What makes it correct |
|---|---|---|---|---|
| Notary core (`internal/service/notary.go`, `core/seal`) | events table, anchors table | `Notarize` = Last, Seal, Append, Checkpoint; `Checkpoint` = BySession, Root, Anchor | four statements, no transaction; any error of Last read as "empty"; retries | acknowledged means on record and anchored; the log only grows, by events that link back |
| Capture (`service/capture.go`) | sessions table: event_count, ended_at, project, root grant | BeginSession, RecordAction, EndSession | authority is checked grant by grant before the event is numbered; a number is spent before the event is on record | every event was authorized by a live chain, in one project; numbers unique, without gaps at rest |
| Delegation (`service/delegation.go`) | grants and revocations tables | IssueRootGrant, Delegate, Revoke, VerifyChain | check-then-put in Delegate; revocation of ancestors | chains end at a root, stay in a project, do not widen; a verdict changes only with the key |
| Verifier (`core/graph`) | none | VerifyChain, Authorizes | empty fields mean "unrestricted" | authority shrinks along a chain |
| Merkle tree (`core/merkle`) | none | Root, Path, Verify | odd levels | completeness, soundness, root binds the list |
| Ledger and receipts (`service/ledger.go`, `receipt`, `service/verify.go`) | none | GetInclusionProof, receipt Verify, VerifyProof | three reads while writers run; index derived from sequence | proofs of events on record verify; a good verdict means an anchor covers the event |
| Canonical encoding, signing (`core/canon`, `core/sign`) | notary key | Event, Grant, Sign, Verify | concatenated lists, time precision, key across restarts | encodings tell values apart, survive storage |
| Stores (`internal/adapters/store`, `db/query`, `db/migrations`) | the tables | one SQL statement each | keys, ON CONFLICT clauses, listing under inserts | statements are atomic |
| Tenancy: auth, projects, API keys (`service/auth.go`, `project.go`, `authz.go`, `app/grpc.go`) | users, projects, keys | login, create/revoke key, access checks | revoked keys, checks per service | access to a row is access to its project |
| Interceptors (`internal/interceptor`) | remote browser, session id | run action, snapshot, RecordAction, Close | the action happens before it is recorded | every acknowledged action is recorded |
| Pagination (`internal/pagination`, `frontend/src/lib/usePagination.ts`) | cursor; the hook's items, token, flags | page, loadMore, refresh, reset | overlapping fetches, rows added meanwhile | a list read page by page is the rows of its scope, each once |
| Console session (`frontend/src/lib/auth.tsx`, `router.tsx`, `api/client.ts`, `pages/auth`) | cookie; token, user, branding, isLoading; route; forms | start-up, sign-in, sign-up, sign-out, save profile, refreshMe | answers out of order, lost calls, other tabs of the browser | one identity at rest, signing out is final, no endless splash screen |
| Console shell (`App.tsx`, `DashboardLayout.tsx`, `lib/project.tsx`, `CommandPalette.tsx`, `theme.ts`) | selected project and its storage, palette, drawer, theme | navigate, select a project, search, toggle | everything mounts and unmounts with route and isLoading | nothing of another account on screen; Enter selects; the theme shown is the theme worn |
| Evidence tabs (`Sessions.tsx`, `ReplayModal.tsx`, `Activity.tsx`, `Receipts.tsx`, `Verify.tsx`) | list, selected row, its anchor, proof, replay or report | open, back, replay, fetch proof, verify | details answered after another row was opened | a detail is of the row it is shown for; every wait has a call |
| Delegations tab (`Delegations.tsx`) | selected grant, verdict, revocation | open, verify, revoke | the revocation has no guard against another selection | "revoked" is said of revoked grants |
| Projects tab (`Projects.tsx`) | projects, rows, keys, the secret just issued | create a project or key, revoke a key | a refresh unmounts the rows that asked for it | a row's keys stay the server's; the secret stays until put away |
| Account tabs (`Overview.tsx`, `Analytics.tsx`, `Settings.tsx`) | figures, notary key, profile form | read, open a section, save | failing reads, a save that unmounts its own page | figures shown are figures that came |
| Migrations (`db/accessor.go`) | advisory lock, schema version | Migrate | instances starting together | applied once, in order |
| Gateway, config, CLI, analytics, replay stream, external clients, public pages | none of their own | I/O, reads, rendering | - | not modelled |

Interaction: Capture calls the verifier and the grants store, then NextSequence, then
the notary core; EndSession calls Checkpoint; the Notarize RPC calls the notary core
with an event of its caller's making; GetInclusionProof reads what the others wrote.
All calls are synchronous inside a goroutine; goroutines meet only in the database.
The console's components meet in two contexts (AuthProvider, ProjectProvider), in the
browser's cookie and localStorage, and in the server's tables. `refreshMe` is the knot:
every caller of it raises `isLoading`, which unmounts the whole dashboard (`App.tsx:86`).

The hazards this gives rise to are listed, at their lines, in `PROJECT.json`.

## 2. Modules

```
NotarizedLedger   <-implements-  NotaryCore  <-EXTENDS-  Receipts  --EXTENDS-->  Merkle  <-EXTENDS-  MerkleLists
                                     ^
                                     +------EXTENDS----  Capture  --INSTANCE-->  Delegation --EXTENDS--> Graph
NotaryCoreProofs  --EXTENDS-->  NotaryCore
MerkleProofs      --EXTENDS-->  MerkleLists
ReceiptsProofs    --EXTENDS-->  Receipts, NotaryCoreProofs, MerkleProofs
DelegationProofs  --EXTENDS-->  Delegation
CaptureProofs     --EXTENDS-->  Capture, NotaryCoreProofs      --INSTANCE-->  DelegationProofs

ConsoleAuth, Paging  <-EXTENDS-  Dashboard  <-EXTENDS-  EvidencePages, DelegationsPage,
                                                        ProjectsPage, AccountPages, Shell
ConsoleAuth  <-implements-  Console  --EXTENDS-->  those five
ConsoleAuthProofs  --EXTENDS-->  ConsoleAuth
ConsoleProofs      --EXTENDS-->  Console, ConsoleAuthProofs
ConsoleTabsProofs  --EXTENDS-->  ConsoleProofs
```

**NotarizedLedger** is what an auditor is promised: a log to which events are added,
each with an id and a place in its session of its own, each linking to nothing or to
an event of its session already on record; and anchors that commit to states the log
was in. It knows nothing of RPCs.

**NotaryCore** is the pipeline. `pc[r]` is the statement request `r` runs next, one
action per statement:

| Action | Code |
|---|---|
| `RecordAction`, `Notarize`, `EndSession` | an RPC arrives; what it was asked is in `draft[r]` |
| `NextSequence` | `UPDATE sessions SET event_count = event_count + 1 ... RETURNING` |
| `Last`, `LastFails` | `LastEventBySession` and Seal; every error is "no event" (`notary.go:25`) |
| `AppendEvent`, `AppendConflict` | the INSERT, with the primary key and UNIQUE (session_id, sequence) |
| `End` | `UPDATE sessions SET ended_at` |
| `BySession`, `UpsertAnchor` | the two statements of Checkpoint |
| `RequestFails` | a statement fails or the context is cancelled: the handler returns |
| `Crash` | the process stops: rows stay, RPCs are lost |

The log is the events table in commit order. A read returns a prefix of it, so what a
handler keeps in a variable is a prefix length (`snapshot`, and `anchors` after the
upsert) or a position (`prev`). Hashes are represented by what they are hashes of:
SHA-256 is taken to be injective and signatures to be sound. Event ids are 64 random
bits and taken to be distinct; the exception is a retry of the Notarize RPC, which
carries the earlier id. Payload, surface, state hashes and times play no part and are
left out. A step that only fails, such as a NotFound before the first change, is no
step at all.

**Merkle** translates `merkle.go` with hashes as free constructors. The loops over levels
and over a path's siblings are recursive functions of the number of rounds (`Levels`,
`Halved`, `Climb`), so that they can be reasoned about round by round. **MerkleLists** is a
list that grows by any leaf, of which the tree's three promises are stated; `MCMerkle` runs
it beside Receipts. **Receipts** adds a reader that runs GetInclusionProof in three
statements among the writers, and the inclusion and anchoring checks of `receipt.Verify`.
`Leaves` is the ORDER BY of `BySession`: the list of the session's rows by growing number. The content hash and the signature
of a receipt belong to an event that the log never changes; its delegation chain is
not in this module.

**Graph** translates the verifier: VerifyChain and Authorizes on records. **Delegation**
is the service over its two tables; a Delegate is two actions (the revocation check
with the signing, then the put), and `Restart` replaces the notary key when no seed is
configured. **Capture** composes Delegation and NotaryCore and adds RecordAction's
checks: what cannot change (a session's project, a chain of grants) is read when the
request arrives, revocations are read one grant at a time, root first, and the last
check hands over to `NotaryCore!RecordAction`. Project access is the constant `Access`.
The Notarize RPC is left out of the runs of Capture: it makes no authority checks.

### The console

**ConsoleAuth** is the session. `sent` holds its outstanding calls, each with the account
the server will take it for; an action either starts a call, up to the `await`, or is an
answer, with everything the code does up to the next `await`:

| Action | Code |
|---|---|
| `AuthInit`, `Reload` | the page is loaded: memory is empty, `refreshMe` is called (`auth.tsx:107`) |
| `MeAnswered` | the rest of `refreshMe`, and of the `login` or `save` that awaited it |
| `SubmitLogin`, `SubmitSignup`, `SubmitShortPassword`, `LoginAnswered`, `LoginRefused` | the forms, `login` and `signup` |
| `SendReset`, `ResetTimer` | the password form, which sends nothing |
| `SignOut`, `LogoutAnswered`, `LogoutLost` | `logout()` with `clearSessionCookie`, and the gateway's answer |
| `Save`, `SaveAnswered`, `SaveRefused` | Settings' `save()`; the good answer calls `refreshMe` |
| `Navigate` | links, tabs, the browser's history |
| `OtherTab` | another tab of the browser changes the cookie |

`Render` is what React does after each of them: `useRequireAuth` may move the route, a
page that was left loses its form, and its calls find nobody (`here` becomes FALSE). The
ghosts `mixed` (identity calls have overlapped) and `out` (a quiet sign-out) say when the
two identity properties are meant to hold.

**Paging** is `usePagination` as functions of the hook's record, and the server's keyset
listing. **Dashboard** has what the tabs share: the server's tables, `calls` (each with
the account it is made for, and whether its tab or row is still there), the selected
project, and `RefreshList`, the effect on `[project?.id]`. An effect that sets
`active = false` on clean-up is `Cancel`: its call leaves `calls`. A call without such a
guard stays and is answered to whatever is on screen. The tabs are one module each, an
action per handler and per answer; an answer is "ok", "error" (the server said no) or
"break" (the network failed: openapi-fetch throws, and most handlers have no `catch`, so
their flags stay up). Reads take effect when they are answered; writes that break may
have had their effect. **Shell** is sidebar, palette and theme. **Console** composes:
`RemountWith` says what a step of the session does to the dashboard, `Rescope` what a
change of project does to the list on screen.

Rows are numbers shared by sessions, events and grants, in the order the server lists
them. Field values, formatting, focus and scrolling are left out; so are the public pages
other than the landing page and the forms, which have no part in any of this. React's
StrictMode, which runs effects twice in development, is not modelled.

Definitions marked "Wrong variant" are the code with one plausible mistake. No
specification uses them; replacing the right definition by its variant makes the
property named in `PROJECT.json` fail, which shows that the property depends on it.

## 3. Runs

| Run | Shows |
|---|---|
| `notary_clients` | callers of Notarize choose numbers and retry; types; `AckedOnRecord`; `LedgerSpec` (the refinement); liveness: `RequestsEnd`, `CheckpointCoversRecord` |
| `receipts_sequential` | RPCs of a session do not overlap: `ChainLinked` and, without failures, `AnchorCurrentAtRest` and `ReceiptsVerifyAtRest`; and, of every list of up to five leaves, `PathVerifies`, `OnlyItsLeafVerifies`, `RootBindsList` |
| `receipts_concurrent` | three RPCs overlap and a proof is being read: `RecordNeverConflicts`, `GapFreeAtRest`, the inductive invariant `Inv`, `InclusionIffNoGapBelow`, `VerdictMeansAnchored` |
| `delegation_chains` | every forest of four grants: types, `ChainsKeepProject`, `CapabilitiesAttenuate`, and over a restart that changes the key `VerdictsKept` |
| `capture_authority` | RecordAction among delegations, revocations, faults and restarts: `RecordedUnderLiveGrants`, `RecordedWithinAuthority`, `OneProject` |
| `console` | the whole console, see below: types, thirteen invariants and the action property `KeysStayCurrent` |

The properties of `console`, over every order of answers the bounds allow:

| Property | Says |
|---|---|
| `IdentityAtRest` | with no profile call outstanding, user, branding and token are one account's, unless identity calls overlapped |
| `SignedOutStaysOut` | after a sign-out with no identity call under way, nothing brings user or token back |
| `SplashHasCall` | the splash screen over the dashboard always has a call that ends it |
| `DashboardHasUser` | no tab is on screen without a known user, also when the profile call after a sign-in fails |
| `ListIsTheScope` | a list read page by page, while rows are recorded, is its scope's rows: none twice, none foreign, none lost |
| `OwnedByUser` | header, selection and list show nothing of another account, whatever localStorage remembers |
| `DetailIsOfSelected` | anchor, verdict and proof are of the row they are shown for |
| `RevokedBannerTrue` | "Grant revoked." is said of a revoked grant, unless the user went to another one meanwhile |
| `WaitsForACall` | unless a connection broke, everything that waits on screen waits for an outstanding call |
| `EarlierReportIsExplained` | a report that is not of the proof asked about last stands only while that one is fetched, beside the error that refused it, or after a broken connection |
| `FiguresAreReal` | Analytics draws nothing before its figures came |
| `PaletteSelects` | Enter goes somewhere whenever the palette lists a place |
| `ThemeApplied` | the document wears the theme that is stored and shown |
| `KeysStayCurrent` | the keys of a row, once they are the server's, stay so, also over writes answered after the row unmounted; except after a write whose tab was left |

Their exceptions are behaviours of the code; section 6 lists them.

Six runs end in a violation. Each states what the documentation says and the code
does not do; the counterexample is the shortest one.

| Run | Statement | What happens |
|---|---|---|
| `notary_forked_chain` | `docs/architecture.md:175`: prev_hash links unbroken | two RecordActions read the same last event; both link to it |
| `notary_stale_anchor` | `README.md:33`: each session's Merkle root as an anchor | the older of two checkpoints is upserted last |
| `receipts_gap` | `ledger.proto:21`: an offline-verifiable inclusion proof | a number was spent by an RPC that failed; the index is past the leaves |
| `delegation_branch` | `delegation.proto:42`: Revoke a grant and its descendants | a descendant of a revoked grant delegates |
| `delegation_widens` | `Delegations.tsx:109`: authority attenuates monotonically | a child without a bound, under a parent with one, verifies and authorizes more |
| `console_secret` | `Projects.tsx:360`: the key is shown until this panel is closed | the refresh after the new key empties the list, the row unmounts, the secret is gone |

Three more differences were met and have no run. VerifyChain never looks at revocations
(`delegation.go:87`), while `Delegations.tsx:266` and `:284` say that a revocation invalidates
all authority beneath it and `delegation.proto:42` that it revokes the descendants: a chain
with a revoked grant still answers VALID, beside the banner that says it is revoked. So
`VerdictsKept` promises nothing of how long such a chain verifies; recording under it is
refused (`RecordedUnderLiveGrants`). RecordAction does not look at ended_at
(`capture.go:51`, while `capture.proto:36` says "Close a capture session"), and it
compares the session's project with the grant's but not the session's root grant with
the grant's chain (`capture.go:62`, while `capture.proto:18` says "bound to a root
grant"). All are in the model as they are in the code.

### Bounds

`Requests` bounds the number of RPCs (three; four when they do not overlap): a race of
the pipeline needs two writers, its effect on a later event a third. `MaxInFlight`
bounds how many of them overlap on a session; 1 means callers that wait for each
answer, which is how the interceptors in the repository behave. `MaxFaults` bounds
failed statements, cancelled RPCs, crashes and restarts (one: each kind then occurs at
every point, alone). Two sessions show that sessions do not disturb each other; the
other runs have one. Three grants give a root, a delegate and a sub-delegate, four a
fork or a third link. Each form in `MCDelegation` and `MCCapture` leaves out or sets
one of the fields a check looks at. `MaxKeys` bounds notary keys: `delegation_chains` has no
seed and one restart that changes the key. Five leaves give
Merkle trees with an odd level at each height. Every run sets `CHECK_DEADLOCK FALSE`:
requests are finitely many, and a system whose requests are all answered stops.

The console's instance: Ann owns projects 1 and 2, Bob 3, and 4 is made in the run. Pages
have two rows and project 1 has three, four once row 4 is recorded, so a list takes two
pages, and a row can land between them. `Slots` bounds the outstanding identity calls
(two: every race of the session is between two of them). `MaxMoves` bounds sign-ins, sign-outs,
navigations, saves and reloads (two), `MaxFaults` lost identity calls and changes of
other tabs (one), `MaxClicks` uses of the tabs and the shell (four), `MaxRefused` calls
of the tabs that fail (one). `MaxEvents` bounds their sum (four: go to a tab, open a row,
go back, open another; or sign out, sign in, open; or any with one failure), one less
once the shell was touched (`FewEvents`, a state constraint). Answers that come as they
should, pages and recorded rows are not counted, so every order of them is explored. The
start is every route with Ann's cookie or none, and no remembered project or one of
Bob's. `Proofs`, `Tallies`, `Queries`, `MaxKeys` and `MaxFrames` name the inputs.
`console_secret` needs one move and no fault. A console at rest with nobody using it
stops: `CHECK_DEADLOCK FALSE`.

Symmetry is used over requests, grants and call slots in runs without liveness properties;
nothing in the specifications tells them apart. It is not used over sessions, because Init
chooses one.

### Fairness

`FairSpec` has weak fairness of `Step(r)` for every request: Go schedules goroutines
and PostgreSQL answers each statement or fails it. No fairness is put on arrivals or on
faults. `CheckpointCoversRecord` excuses executions with a fault, since a failed
checkpoint is not retried by anything. `Delegation!FairSpec` likewise has weak fairness
of the put only. The console's specifications assume no fairness: users and networks owe
nothing. What would be a liveness property there, that every wait ends, is stated as the
safety property it rests on: whoever waits has a call outstanding (`SplashHasCall`,
`WaitsForACall`).

## 4. Proofs

`NotaryCoreProofs` proves, for all sets of sessions and requests, all caller-chosen
numbers and all bounds, from `NotaryAssumption` alone:

| Theorem | Statement |
|---|---|
| `TypeCorrect` | `Spec => []TypeOK` |
| `Invariance` | `Spec => [](TypeOK /\ Inv)` |
| `AckedIsOnRecord` | `Spec => []AckedOnRecord` |
| `RecordAlwaysFits` | `Spec => []RecordNeverConflicts` |
| `NoGapsAtRest` | `Spec => []GapFreeAtRest` |
| `ImplementsLedger` | `Spec => LedgerSpec` |

`MaxInFlight` and `MaxFaults` may be any naturals there, so the theorems cover every
interleaving and any number of faults.

The argument. None of the safety properties is inductive. `Inv` strengthens them by
what a handler's local variables mean at each `pc`: a `prev` held for Append is a
position of an event of the session (`LinkInv`); from BySession on the draft is on the
log, and from Anchor on it is inside the snapshot (`PersistInv`); an id not yet recorded
is on no event (`IdInv`); a number held by a RecordAction is at most event_count, on no
event and held by no other (`SequenceInv`); without faults each number handed out is
held or on record (`GapInv`). The last three hold only when no caller brings numbers of
its own, and are stated so. The log only ever grows (`LogGrows`), which carries
positions and snapshots from one state to the next; `OthersKeep` says that a step
changes the local state of the request that takes it. Each part of `Inv` has a lemma
with one step per action. The refinement is step by step: `AppendEvent` is `Record`,
`UpsertAnchor` is `Anchor`, and everything else leaves log and anchors unchanged;
`LinksBack` is `LinkInv`, and `Fresh` is the guard of the INSERT.

### Sessions whose RPCs do not overlap

Overlapping RPCs fork the chain and leave stale anchors (`notary_forked_chain`,
`notary_stale_anchor`). The second part of `NotaryCoreProofs` proves that overlap is all it takes, from
`MaxInFlight = 1`, for any number of sessions beside each other:

| Theorem | Also assumed | Statement |
|---|---|---|
| `AnchorsAreCurrent` | - | `Spec => []AnchorCurrentAtRest` |
| `ChainStaysLinked` | `ClientSequences = {}`, `~ LastMayFail` | `Spec => []ChainLinked` |

`Alone`, that two requests in flight are in two sessions, is proved first, from the bound
on the cardinality. Then what a checkpoint has read of its session is all there is
(`SnapshotsCurrent`), and every recorded row is anchored or has a checkpoint under way
(`Covered`). For the chain, a number that is held is the session's last (`NumbersNewest`),
the event a draft links to is the session's last (`LinksNewest`), and `SequenceInv` of the
pipeline's own proof keeps recorded numbers below the one that is held; `ChainLinked`
itself turns "greatest number" into "latest position". `ClientSequences = {}` and
`~ LastMayFail` are needed: a caller's number can be any, and a failing Last makes an event
the first of its session.

### The Merkle tree

`MerkleProofs`, for any set of data, lists of any length, and with no assumption beyond
hashes being free constructors:

| Theorem | Statement |
|---|---|
| `EveryPathVerifies` | `ListSpec => []PathVerifies` |
| `PathsBindTheirLeaf` | `ListSpec => []OnlyItsLeafVerifies` |
| `RootsBindLists` | `ListSpec => []RootBindsList` |

The recursion is over the rounds of a loop, so what is needed is induction on a natural
number below a bound. The library's induction theorems take an operator and cannot be
instantiated here, but a set can take the operator's place: `Least` (a non-empty set of
naturals has a least member, from well-foundedness) gives `Induction` and
`DownwardInduction` over a set `S \subseteq Nat`, and each lemma applies one of them to the
set of rounds at which its claim holds. `HeightShape` shows that the levels end in one of a
single node. Completeness climbs: after `k` siblings Verify holds the node at the index
halved `k` times (`ClimbStep`, `PathOfLeafVerifies`). Soundness descends from the root: two
climbs that meet at the top, each step hashing two children in an order given by the parity
of its index, agree below (`HashesApart`, `PathVerifiesItsLeaf`). That a root binds its list
is not obvious: an odd last node is paired with itself, so lists of different lengths can
have one root (a, b, c and a, b, c, c). Of distinct leaves it does: distinct leaves make
distinct nodes in every level (`LevelsDistinct`), so a pair of equal children can only be an
odd end (`OddLast`), and equal levels have equal levels below (`ReduceInjective`); the
heights agree because a leaf's hash is no node's (`FirstOfLevel`, `LevelsBindList`).

### Receipts

`ReceiptsProofs`, on top of the pipeline's theorems (`WritersRun`: `RSpec => Spec`):

| Theorem | Also assumed | Statement |
|---|---|---|
| `GoodVerdictsAreAnchored` | - | `RSpec => []VerdictMeansAnchored` |
| `InclusionMeansNoGapBelow` | caller-chosen numbers are at least 1 | `RSpec => []InclusionIffNoGapBelow` |
| `ReceiptsAtRestVerify` | `MaxInFlight = 1`, `ClientSequences = {}` | `RSpec => []ReceiptsVerifyAtRest` |

`ReceiptsInv` says what the reader holds between its reads: a position that is on the log, a
length the log had at least the event in, an anchor the log is not behind (`ReaderInv`), and
that no two rows of a session share a number (`UniqueRows`). A finite set of rows with
distinct numbers has exactly one sorted list (`SortedListExists`, `LeavesShape`), of
distinct leaves, so `RootDeterminesList` makes the anchor's root and the proof's the root of
one list; the event is in it, hence under the anchor. Inclusion comes down to the row at
index `sequence - 1` being the event itself, which is so exactly if no number below it is
missing (`PositionIsKey`). That needs numbers to count from 1 (`CountFromOne`); with a
number below 1, which the Notarize RPC does not refuse (`notary.go:75`), the index is
negative and no proof is given, although no number from 1 on is missing. The third theorem puts
this together with `NoGapsAtRest` and `AnchorsAreCurrent`, and takes over their hypotheses.

### Delegations

`DelegationProofs`, from `DelegationAssumption` (`NoParent` is no grant; the requests' forms
have the fields of `Form` and an integer depth; users are callers; `Access` is a function):

| Theorem | Statement |
|---|---|
| `DelegationTypeCorrect` | `Spec => []TypeOK` |
| `ProjectsAreKept` | `Spec => []ChainsKeepProject` |
| `VerifiedAttenuates` | `Spec => []CapabilitiesAttenuate` |
| `VerdictsLast` | `Spec => VerdictsKept` |

The chain of a grant is a recursive function of the table, whose recursion follows the
parents and no number: there is no round to induct on, as there is in the Merkle tree, before
it is known that the parents end. What is known of it is proved by induction over the run: `Grounded`, that the equation of `Chain` has exactly one solution, holds of the
empty table and is kept by every put, because a put adds one grant whose parent is stored
(`Extends`). With it, a put leaves all chains as they are and makes one new one, its
parent's with one grant more, so that what is known of chains (`GoodChain`: distinct stored
grants of one project from a root to the grant, and `Narrows`, that a chain narrowing pair
by pair narrows end to end) is again kept step by step. `Restart` changes only the key, and only
without a seed. `VerdictsLast` has three parts. A refused chain stays refused because chains
never change and a new key is one no stored grant is signed with (`SignedByNow`); everything
under it is refused because the parent's chain is a prefix of the child's
(`AncestorsVerify`); and a chain that verifies ends only where the key changes.

### Capture

`CaptureProofs`, from `NotaryAssumption` and `CaptureAssumption` (`DelegationAssumption`
again, for Capture's constants):

| Theorem | Statement |
|---|---|
| `CaptureRunsThePipeline` | `CSpec => Spec` |
| `CaptureRunsTheDelegations` | `CSpec =>` the specification of Delegation |
| `NothingUnderRevoked` | `CSpec => []RecordedUnderLiveGrants` |
| `NothingBeyondAuthority` | `CSpec => []RecordedWithinAuthority` |
| `SessionsKeepProject` | `CSpec => []OneProject` |

Every step of Capture is one of the pipeline and one of the delegations or a stutter of
either, so both invariants are at hand. `CInv` adds what a request relies on across its
statements: the session and the grant it asked for are of one project of the caller's
(`InProject`); its chain narrows, and the grants it has checked so far were live when it
arrived (`CheckedLive`), where `before`, the revocations at its arrival, only ever
grows into `revoked`; it reaches the pipeline only granted, and in the session it asked for
(`RecordsGranted`); and the log holds only events of granted requests (`LogIsGranted`).
What makes these survive the other actors is that stored grants and their chains never
change and that a session row is written once. Capture names its instance of Delegation
`Authority`, the proofs have one of `DelegationProofs`; the first lemmas say that both
have the same definitions.

### The console

`ConsoleAuthProofs`, from `NoneAssumption` alone and for any accounts, slots and bounds:

| Theorem | Statement |
|---|---|
| `AuthTypeCorrect` | `AuthSpec => []AuthTypeOK` |
| `OneIdentityAtRest` | `AuthSpec => []IdentityAtRest` |
| `SignOutIsFinal` | `AuthSpec => []SignedOutStaysOut` |
| `SplashIsAwaited` | `AuthSpec => []SplashHasCall` |
| `DashboardIsGuarded` | `AuthSpec => []DashboardHasUser` |

`ConsoleProofs`, with the assumptions of the modules it extends:

| Theorem | Statement |
|---|---|
| `ConsoleImplementsSession` | `Spec => AuthSpec` |
| `ConsoleSessionSafe` | `Spec => [](IdentityAtRest /\ SignedOutStaysOut /\ SplashHasCall /\ DashboardHasUser)` |
| `PaletteAlwaysSelects` | `Spec => []PaletteSelects` |
| `ThemeAlwaysApplied` | `Spec => []ThemeApplied` |

The argument. `IdentityAtRest` speaks of states without profile calls, so the invariant
must say what an outstanding one will do: as long as calls have not overlapped there is
at most one identity call (`OneIdentityCall`), it is made for the account of the token
(`ProfileOfToken`), and so its answer makes all three agree; a token in memory comes with
a user (`TokenHasUser`). A sign-out is final because no call that could set anything is
outstanding then, nor can one start without ending `out` (`OutIsQuiet`). The splash
screen is raised only together with a profile call, and every answer of one lowers it.
`DashboardHasUser` is inductive together with `TokenHasUser`, because `RequireAuth` is
applied to the values after the step. All this is about ConsoleAuth's twenty-odd actions;
`ConsoleImplementsSession` carries it to the console, whose other fifty actions leave the
session's variables alone: each is a step of ConsoleAuth or a stutter. The palette needs
to know that the query is one whose results are known and the index at most the length of
its list (`PaletteInv`); the theme needs that `applied` follows `stored` unless another tab
wrote it (`ThemeInv`).

#### The tabs

`ConsoleTabsProofs`, with the assumptions of the modules it extends (`NoneAssumption`;
`PageSizeAssumption`: pages are not empty; `DashboardAssumption`: projects and rows are finite
sets of positive numbers; `ProofsAssumption`, `TalliesAssumption`, `QueriesAssumption`: the
inputs are of their kinds), for any number of calls, clicks, faults and overlaps:

| Theorem | Statement |
|---|---|
| `ConsoleTypeCorrect` | `Spec => []TypeOK` |
| `DetailsAreOfSelected` | `Spec => []DetailIsOfSelected` |
| `RevokedBannerIsTrue` | `Spec => []RevokedBannerTrue` |
| `ReportsAreExplained` | `Spec => []EarlierReportIsExplained` |
| `FiguresAreAlwaysReal` | `Spec => []FiguresAreReal` |
| `EveryWaitHasACall` | `Spec => []WaitsForACall` |
| `NothingOfOthers` | `Spec => []OwnedByUser` |
| `ListsAreTheScope` | `Spec => []ListIsTheScope` |
| `KeysFollowTheServer` | `Spec => KeysStayCurrent` |

What a tab shows depends on answers still to come, so none of these is inductive: each needs
to know what the outstanding calls are. `TabsInv` says it, in three parts.

- `SharedInv`: the calls are those of the tab on screen (`Fit`, `CallFits`), each with
  arguments of its kind, and whatever is left of other tabs is a write nobody waits for
  ("gone"); the server's tables, the list and the selected project are of their kinds; a list
  that is loading has its call (`Waits`), and so has the project selector unless a connection
  broke.
- `EveryTabInv`, a conjunct per tab: for each flag, the call that will lower it, unless a
  connection broke; for each call, what it was asked for, compared with what is selected now. A
  call whose effect has a clean-up (`Cancel`) is of the row on screen; one that has none may be
  of another, and there the invariant carries the exception that section 6 names.
- `ProjectsInv`, the same for each row of the projects: a row that loads or creates has a call of
  its own (`Here`, `RowAwaits`), no call finds a row that is gone, the keys a row holds are ones
  of its project in the server's table, and a project being created has its call or the list
  that follows it (`Creates`).

`calls` is a sequence from whose middle answers are taken, so most of the work is in what
`RemoveAt`, `Cancel`, `Abandon`, `Unrow` and `Append` do to the calls of one kind: lemmas about
them are stated once (`TakeOff`, `PutOn`, `CutOff`, `UnrowSet` and their like) and cited at every step.
`Place`, the position of a row in the server's listing, is a CHOOSE over a count; `PlaceOf` and
`Picks` say that it is well defined for finite sets of numbers. A step of the session reaches
the tabs only through `RemountWith`, which either keeps the tab or mounts one from nothing; a
step of one tab changes nothing another relies on. `TypeOK` adds the shell (`ShellInv`).

`NothingOfOthers` and `ListsAreTheScope` need to know whose calls these are. `VisitorInv`, proved of ConsoleAuth
and carried over by the refinement, says that while identity calls have not overlapped, none
was lost and no other tab changed the cookie, cookie and token are of the user shown and a
logout under way is the last call there is. So every read for the header and the list is made for the user shown (`CallsOfUser`), and
what it answers is that user's. `ScreenInv` has this and what a list page by page is
(`PagesInv`): as long as no two list calls have overlapped there is at most one, for the first
page or for the page at `next` (`PageCall`); the items descend, lie at or above `next`, are
listable rows of the scope, and include all of those there were when the first page came
(`PagesRead`). Rows recorded between two pages disturb none of this, whether they land above
or below the token: a page is what is below the token when it is answered (`FirstPage`,
`NextPage`).

`KeysFollowTheServer` is about steps. What the server lists of a project changes when a key is
made or revoked; the answer to that write leaves a reading of the keys with `then = "changed"`
among the calls, which keeps the row from being settled (`RowPending`), unless the write is
"gone". A reading that is answered sets the row to what the server has. All other steps leave
the row and its project's keys as they are, or unmount the row with a refresh, and a row that
is mounted anew has no keys until it asks for them. That a revocation changes the keys of the
project its row is of is `AimInv`: the key of every confirmation and of every call that revokes
is one of the call's project. `KeyStep` is proved an action at a time.

### What is proved and what is checked

Every invariant of a passing run is stated by a theorem, and so are the action properties
`VerdictsKept` and `KeysStayCurrent` and the refinement `LedgerSpec`. Left
to TLC is liveness, `RequestsEnd` and `CheckpointCoversRecord`: TLAPS has no ENABLED, and
so no fairness. Each property, and each part of the inductive invariants that can be
enumerated, was checked by TLC on the runs' instances before it was proved; `Inv` still is, by
`receipts_concurrent`. `Grounded` quantifies over all functions, which TLC cannot enumerate.
The theorems have hypotheses the runs do not have only where the tables say so, and no
assumption other than those on constants named here.

## 5. Plan

Done: NotarizedLedger, NotaryCore, Merkle, Receipts, Graph, Delegation and Capture with their
proofs; ConsoleAuth with its proofs, Paging, Dashboard, the tabs, Shell, and Console with the
refinement of the session and the proofs of tabs, lists and shell.

Left out, and why:

- **Receipts' authority and time.** Stored grants have no expiry and the check is made
  by whoever holds the receipt; without expiry there is nothing that changes.
- **Canonical encoding and signing.** Functions on bytes; the models take hashes as
  injective. Two places are known where the encoding is not: lists without a count
  (`canon.go:33`) and occurred_at through a microsecond column (`notary.go:67`).
- **Interceptors.** Two calls to two systems in a client's process. Between them an
  action is without evidence, and the code does not claim otherwise.
- **Migrations.** A library under an advisory lock.
- **Tokens, passwords, users.** Library calls; the session takes the server's answer as
  given. Project access in the server models is the constant `Access`.
- **Public pages, icons, error boundary.** No state that another part reads.

Every invariant the runs check has a theorem. What could be added is an abstract specification
of a list read page by page that `Dashboard` would implement, in place of the invariant that
says the same of its states.

## 6. Differences met in the console

Apart from the secret (`console_secret`), these are behaviours of the code that a comment,
a text on screen or a reader would not expect. The model has them as they are; the
properties above say where they end.

- Settings' "Profile saved." is never seen (`Settings.tsx:255`): `refreshMe` unmounts the
  dashboard, the tab with it, and what was typed meanwhile. A save in flight at sign-out
  calls `refreshMe` afterwards and, while the cookie lives, signs the user in again.
- The anonymous profile call of start-up, answered late, empties the memory of somebody
  who has signed in meanwhile; the late answer of a logout clears the cookie of a new
  sign-in; a logout that is lost leaves the cookie. Two logins under way can leave the
  token of one account and the user of the other. (`mixed`, `out`, `faults`.)
- With a selected project, loading a list page asks for its list twice, first without
  and then with the project (`project.tsx:47` runs after the page's first effect); the
  answers are not told apart, so the one that comes last stands, and "Load more" can
  append to the other's rows. (`listed.clean`.)
- The answer of a revocation sets "Grant revoked." on whatever grant is open by then
  (`Delegations.tsx:296`); the verdict of the chain stays beside it, and
  is VALID for a revoked grant too, also when the grant is opened again: VerifyChain does not
  look at revocations.
- A key that is created or revoked while its tab is being left and visited again is missing
  from, or live in, the row of the later visit: the answer reads the keys for the row that is
  gone (`Projects.tsx:185`, `:199`), and `toggle` does not ask for keys a row already has.
  (`LateWrite`.)
- A failed creation of a project is not shown: the comment at `Projects.tsx:58` leaves it
  to the hook's error, which nothing sets. The header's list is not refreshed after one.
- Most handlers have no `catch`: a broken connection leaves a spinner or a disabled
  button until the tab is left. (`broken`.)
- Overview shows zeros before and without figures, under "retrieved directly from the
  Babit ledger" (`Overview.tsx:108`); Analytics does not (`FiguresAreReal`).
- The earlier report of Verify stays on screen while the proof of the next one is fetched, and
  beside the error when that is refused (`Verify.tsx:64-73`; `EarlierReportIsExplained`), and "right here in your browser" (`Verify.tsx:102`) is a POST to the server.
- An error the gateway writes into a replay that has begun is one more line of the stream:
  it is appended as a frame and the end mark follows (`ReplayModal.tsx:51`). In the model it
  is a frame and an end. The grant tree shows the first root only (`GrantTree.tsx`).
- A theme chosen in another tab reaches the toggle and not the document (`theme.ts:50`).
- The password form reports a link as sent; nothing is sent (`ForgotPassword.tsx:23`).
- After another tab of the browser signs in as somebody else, a tab without a token
  mixes that account's rows with its own user's name.

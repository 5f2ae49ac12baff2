# Verification of the crime intelligence platform

The platform is a FastAPI backend (`src/apps/api/app`) on PostgreSQL and Neo4j
and a React frontend (`src/apps/web/src`). This directory holds TLA+ models of
its core logic, the TLC configurations that check them and proofs that TLAPS
checks. Paths below are relative to `src/apps/api/app` unless they say otherwise.

* [1. How the program runs](#1-how-the-program-runs)
* [2. Inventory](#2-inventory)
* [3. Modules and code](#3-modules-and-code)
* [4. What the runs check](#4-what-the-runs-check)
* [5. What is proved](#5-what-is-proved)
* [6. Where the code and its documents disagree](#6-where-the-code-and-its-documents-disagree)
* [7. Plan](#7-plan)

## 1. How the program runs

Endpoints are synchronous functions that a pool of threads runs, but for
`add_attachment`: it is `async def`, and after its `await file.read()` its body runs
on the event loop without another await. That keeps other coroutines out, not the threads
of the pool nor other processes, so its statements are interleaved like the others. A request
has one SQLAlchemy session (`core/database.py`: no autocommit, no autoflush) on
PostgreSQL at READ COMMITTED. The same rules are in every model:

* a request is a thread with a program counter and the rows its session has
  loaded; other threads run between any two of its statements;
* each SELECT is a step and reads what is committed at that moment; a row that
  is loaded stays as it was loaded until the session commits (identity map);
* `SELECT ... FOR UPDATE` (`with_for_update=True`) is a step that waits for the
  row and reads its latest committed version;
* flush and commit are one step. It writes the columns whose value differs from
  what the session loaded and no others (SQLAlchemy's unit of work), and it waits
  for rows that another transaction has locked;
* a broken connection or a dying process rolls back what was not committed. This
  is `ConnectionLost`, `Fail`, `FailDesk` or `Abandon` in the modules whose requests
  write;
* a request that is refused before it changes anything is an action only where
  the refusal is what a property is about; wording and HTTP status are left out.

A property may need to know how a state came about. Then the module has a
variable (or a field of `job`) that its comment marks HISTORY: the code has
nothing like it, no guard reads it, and it only tells requests that overlapped
from requests that did not.

## 2. Inventory

| Component | State it keeps | Operations | What is hard | What makes it correct |
|---|---|---|---|---|
| Entity resolution (`services/entity_resolution_service.py`, `services/sensitive_tag_service.py`) | `persons`, `entity_resolution_events` | merge, reverse, set and clear the sensitive tag | two rows locked in the order of the payload, a reversal without a lock, a merge between its read and its write | merged people form a forest; nobody is hidden without a merge in force; a survivor covers whom it hides; protected people are not merged |
| Confidence review (`services/confidence_review_service.py`, `alert_service.create_alert`) | `confidence_review_events`, scores of the disputed rows, alerts, audit | submit, accept, reject | no row lock, a commit in the middle, columns an UPDATE leaves out | every score is explained by a review; one alert and one audit row for a decision; nobody decides a dispute of their own |
| Access exceptions (`services/access_exception_service.py`, reads in `services/case_service.py`) | `access_exception_requests`, time | request, approve, deny, revoke, expire, read a case | two SELECTs and an INSERT without a lock, a read in two statements while the exception ends | a case of another district is served only in an approved and unrevoked window, never above the reader's tier; one request at a time |
| Officer hierarchy (`services/officer_service.py`) | `officers.manager_id` | assign and clear a manager, search the subordinates | a search of one SELECT for each level without a lock, a bound on its depth | the reporting lines are a forest; a search is exact |
| Sign-in and second factor (`services/auth_service.py`, `core/dependencies.py`, `core/security.py`) | `mfa_enabled`, `totp_secret`, `totp_enrolled_at`; signed tokens | login, verify, step-up, enroll, confirm, disable, logout | handlers that overlap on one row, enrolments abandoned half way | a factor that is on has a confirmed secret; no sign-in without its code |
| Session clocks (`core/middleware.py`, `core/dependencies.py`) and browser session (`src/apps/web/src/services/client.ts`, `context/AuthContext.tsx`) | token in memory and in `localStorage`, status, step-up token | sign in, call, receive a reissued token, log out, reload, 401 | answers that arrive late or out of order, three clocks | the absolute limit holds for every chain of reissued tokens; elevation needs a fresh password; the page shows whom it calls as |
| Browser alerts and loading (`context/AppContext.tsx`, `hooks/useApi.ts`) | alert feed | poll, dismiss, mark read, add, refetch | a poll under way while the feed is changed | not modelled (section 7); the timer is part of the browser session |
| Case workspace and documents (`services/case_service.py`) | `cases`, `case_team_members`, `case_pins`, `notes` | create, status, team, pins, notes, export | check-then-insert, audit rows from stale reads, a document put together by several SELECTs in two transactions | no error but by a race, one active membership, an audit trail that matches the changes, notes shown only to who could see them, labels that cover what is shown |
| Attachments (`services/attachment_service.py`) | `attachments`, files | upload, list, download | a crash between the file and the commit | no committed row without its file |
| Policies (`redaction_service.py`, `retention_service.py`, `data_source_service.py`) | policy tables | create, deactivate, apply, list candidates | deactivation without a lock, policies applied while they change | the audit log accounts for each row; a policy in force masks, whatever the branch |
| Network (`services/network_service.py`, `graph/`) | Neo4j edges, `relationship_edge_refs`, merge pointers | entities, relationships, paths | two stores that disagree, bounded walks over pointers that move | what is shown is what is related to one identity, behind its tier and the districts of addresses, and fails closed |
| Zone risk (`services/risk_service.py`) | `zone_risk_scores` | score a district | a commit for each zone | not modelled (section 7) |
| Alerts, audit, dashboard, search, districts, permissions | `alerts`, `audit_log` | mostly reads | - | filters by tier and district |

The components interact through the database, not by messages. Entity
resolution moves the pointers the network walks. Accepting a dispute writes the
scores the network shows and fires an alert the browser polls. An exception
widens what every case read shows. The hierarchy decides which notes of the
`supervisory_chain` a supervisor reads. Sign-in issues the tokens that every other
handler asks for, and the step-up assertion that exports, approvals and
switching the second factor off need.

## 3. Modules and code

| Module | What it is |
|---|---|
| `EntityResolution` | merges, reversals and the sensitive tag as concurrent requests with row locks |
| `MergeLedger` | abstract: an atomic ledger of who is merged into whom |
| `EntityResolutionProofs`, `MCEntityResolution` | proofs about both; values for TLC |
| `ConfidenceReview`, `ConfidenceReviewProofs`, `MCConfidenceReview` | disputes of a score and their decisions |
| `AccessExceptions`, `AccessExceptionsProofs`, `MCAccessExceptions` | exceptions, their review and the reads they open |
| `AccessGrants` | abstract: the life of a grant in atomic steps |
| `ReportingLines` | reference definition of who is below whom |
| `OfficerHierarchy`, `OfficerHierarchyProofs`, `MCOfficerHierarchy` | assignments of managers and searches of subordinates |
| `SecondFactor`, `MCSecondFactor` | signing in and changing the second factor |
| `BrowserSession`, `MCBrowserSession` | one tab, its calls under way and the clocks of the server |
| `SignInProofs` | proofs about the last two |
| `CaseWorkspace`, `CaseWorkspaceProofs`, `MCCaseWorkspace` | creation, status, pins, team and attachments of cases |
| `Policies` | registries of redaction policies, retention policies and data sources |
| `CaseDocuments`, `CaseDocumentsProofs`, `MCCaseDocuments` | composes `Policies` and `ReportingLines` with the notes of a case and the documents made of them |
| `NetworkIdentity`, `NetworkIdentityProofs`, `MCNetworkIdentity` | composes `MergeLedger` with a request to the network that reads statement by statement |

**EntityResolution.** `person` and `event` are the two tables, `lock` who holds a
person's row, `seen` the rows a session has loaded. `merge_entities` is
`MergeStart`, `LockPrimary`, `LockAbsorbed` (the two `db.get(...,
with_for_update=True)`) and one of `MergeReject`, `MergeWrite`,
`MergeIndexViolation` (the unique index of migration `7d2c1e4f9b3a`).
`reverse_merge` is `ReverseStart`, `ReadAbsorbed` (the unlocked reads that decide
whether the pointer is cleared) and `ReverseWrite`; the tag is `TagStart` and
`TagWrite`. `DeadlockAbort` is PostgreSQL's detector.

**ConfidenceReview.** `submit` is `Submit`. `decide_review` is `ReadReview` (the
read and the checks), then `Close` for a rejection or an accepted confirmation
(status and audit row in one commit); an accepted dispute goes on with `ReadTarget`,
`AlertCommit` (the commit inside `create_alert`, which also commits review and score)
and `Audit` (the second commit). `ServerError` is the `AttributeError` of a zone
score, which has no `classification`. `escalated` is a status that no decision of
the code reaches.

**AccessExceptions.** `request_exception` is `CheckPending`, `CheckActive` and
`Insert`; `scalar_one_or_none` over two rows is the outcome `raised`, and
`Refused` answers that or a duplicate.
`_transition` is `LockRow` and `Transition` or `TransitionRejected`. A case read is
`ReadExempt` (which exceptions are in force) and `QueryCase` (the funnel
`_visible_case_stmt` with them). `Tick` is time.

**OfficerHierarchy.** `set_manager` is `Assign` or `Reject`, a `Level` for each SELECT
of `get_subordinate_officer_ids`, and `Write`. The same `Level` serves the search
that `case_service._visible_notes` makes for a supervisor (`ReadNotes`,
`Answer`). `ReportingLines` defines, for the table at one moment, what a search is compared with.

**SecondFactor.** One officer. `Load` is `get_current_officer` (or the query of
`login` and `verify_mfa`), with the tokens the handler asks for; `Login`, `Verify`,
`StepUp`, `Enroll`, `Confirm`, `Disable` are the handlers' second half, after the
password and the code were verified against the row that was loaded. A code is
known by the secret it is made from. Tokens are known by their purpose and may expire at any
time (`Expire`), so every timing of the five-minute limits is covered. A wrong
password only writes an audit row and is left out.

**BrowserSession.** `token` is `accessToken` of `client.ts`, `stored` its copy in
`localStorage`, `status`, `user` and `challenge` are AuthContext's; `calls` is what is
under way. A call carries the token of the moment it was sent (`Send`, `UserCall`,
`PollTimer`, `SubmitLogin`, `SubmitCode`), is served at a later moment (`Serve`:
`get_current_officer` and its three limits, `require_step_up_auth`, the handler), and
its answer is processed later still, in any order (`Receive...`), with the reissued
token of the middleware (`Refreshed`). `Reload` loses what is under way and starts from
the copy. The step-up assertion is modelled as part of the elevated call that
`StepUpModal` sends right after it. What a second factor checks is in `SecondFactor`.

**CaseWorkspace.** A worker's `work` is the request it serves. Each operation is a
`Begin...` action (the endpoint, the gate and the service's checks, in the `May...`
guards) and the action that writes: `InsertCase`, `WriteStatus`, `InsertPin`,
`InsertMember`, `WriteRemoval`. The unique constraints are guards of the writes
(`Insertable`, `Joinable`, `Pinnable`), and a request that runs into one ends in `Fail` (500);
`pins` counts rows, and an insertion adds one. Which
workers lost the race for a row is the history variable `overtaken`. An upload
is `BeginUpload` (flush), `WriteFile`, `CommitRow`; a download is `BeginDownload`,
`AuditDownload` (commit), `SendFile`. `Fail` may come between any two, and in the middle
of the file. Size, type and tier of an attachment are left out.

**Policies, CaseDocuments.** `policies` holds the rows of the three tables (an id is a
position), `desk` what each administrator's request is doing. A document is put together
by one request, `reader`, in the SELECTs of the code: `SelectNotes`, `SelectTeam`, for a supervisor a `SelectLevel` for
each level of the chain of command, then `ListNotes` or `ExportCase` (which commits the audit row
of the export, with the number of its notes and its label), then `Redact` (the policies in force, the masks, their
audit row). An entity's detail goes to `Redact` at once. Notes, team, managers and
policies change between any two of these steps; how they change is in `CaseWorkspace`
and `OfficerHierarchy`, of which this module keeps what a reader can tell.

**NetworkIdentity.** `parent` and `rank` are the columns of `persons` that the network
reads; they change by `Merge` and `Reverse`, the steps of `MergeLedger`, which
`EntityResolution` is shown to implement. `Entity` holds the nodes of the graph: persons, and
rows of other tables, which are never merged; those of `Address` are shown only within the
districts of the officer (`covers`, a member of `Coverage`), as `Readable` has it. Reading an
entity that is not an address asks for its tier only. One request stands for all, since a reader
changes nothing others read. `Hop` is one SELECT of `_resolve_person_primary`, `See` and
`SeeEnd` the SELECT of the row in `_endpoint_summary`, `Root` the end of the second
resolution, `Level` one SELECT of `_merge_cluster_ids`, `Graph` the Cypher query and the mirror
rows of what it returns, `Take`, `SeeEnd` and `HideRecord` the loop over its records.
Filters of the list, paging and the limit of paths cut the answer and are left out.

## 4. What the runs check

Every passing run checks deadlock too, except `cr_decisions` and `cw_workspace`: their
reviews and requests are bounded by `MaxReviews` and `MaxRequests`, and when all have
ended nothing is left to do (`CHECK_DEADLOCK FALSE`). Bounds are constants of the modules and named BOUND
there.

| Run | Instance | States | Shows |
|---|---|---|---|
| `er_races` | 3 people, 3 threads, 2 events | 62 000 | `HiddenByActiveMerge`, `NoMergeCycle`, `MergesOnlyUnprotectedIndependents`, and that the tables implement `MergeLedger` |
| `er_fields` | 3 people with ranks, names, birth dates; 2 threads | 486 000 | `SurvivorCoversAbsorbed`, `NeverDowngraded`, `FieldsSurviveReversal` |
| `er_progress` | 2 people, 2 threads, 3 events, fairness | 19 000 | `RequestsEnd`: opposite merges do not wait for ever |
| `cr_decisions` | an edge and a zone, 2 officers, 2 threads, scores 39, 70, 80, 2 reviews | 80 000 | `ScoreExplained`, `DecisionsRecorded`, `BandMatchesScore`, `DecidedExactlyOnce` |
| `ax_exceptions` | a detective, a supervisor, 2 cases, 2 threads, 2 exceptions, time 0..1 | 1 950 000 | `AccessJustified`, `DecidedOnce`, `OneActive`, and that the table implements `AccessGrants` |
| `oh_hierarchy` | 4 officers, 2 threads, depth 2 | 971 000 | `ForestUnlessGuessed`, `SearchExact` |
| `sf_factor` | 2 threads, 3 secrets | 2 220 000 | `FactorHasSecret`, `EnrolledMeansConfirmed`, `SignInNeedsCode` |
| `bs_session` | 2 officers, one with a second factor; time 0..3, limits 1 (inactivity), 2, 2; 2 calls under way, 2 passwords | 4 700 000 | `SessionsEnd`, `ElevatedAfterPassword`, `UserMatchesToken` |
| `bs_reload` | the same | - | `ReloadRestores` is violated (section 6) |
| `cw_workspace` | 2 officers (one of another district, cleared for both), 2 numbers, 3 statuses, 2 workers, 4 requests | 1 110 000 | `ErrorsAreRaces`, `AuditTrail` (`StatusTrail` and `TeamTrail`), `FilesBehindRows` |
| `cd_documents` | a lead, a member of lower clearance, a supervisor of the lead; depth 3, 2 desks, 2 tiers, 2 notes, 2 policies, 3 changes | 2 010 000 | `LastingPoliciesMask`, `DocumentsAudited`, `LabelCovers`, `EntitledUnlessReshuffled`, `RegistryAccounted` |
| `nw_identity` | 4 people and an address, 3 edges (one without a mirror row), 2 tiers, an officer of its district or of another, walks of 2 hops and 2 levels, one change during a request | 2 010 000 | `AnswersExact`, `HigherTiersStayHidden`, `ConsistentUnderOneChange` |

Why the bounds are enough to be interesting. Three people and three threads give
chains of merges, two opposite merges and a reversal at once, and every ring of
waiting threads of length two and three. Two events are one merge and a
re-merge, which is what the reversal races with. Scores 39, 70 and 80 lie in
different bands and in one band, so a row may keep a stale band or a stale score.
Two exceptions for one case are the duplicate, and for two cases the independent
requests; one tick is enough for an expiry between any two statements because the
duration in use is one hour. Four officers and a depth of two give
searches that the bound cuts off while there is an officer left to find, cycles
of two to four officers and a branch that moves past a search; the true bound, 20, would
need 22 officers, and the proofs of section 5 hold for it. Three secrets are an
enrolment, another one, and one more that overlaps with either. Three ticks are enough for
a token to be reissued past the inactivity limit, past its own expiry and past the absolute
limit, and two calls under way for each to overtake the other; a second officer is what
another session's answer needs. Four requests are, for one membership, an addition, two removals
and another addition between them. Three changes are a note with its reader joining and leaving the team, a note
with two reassignments during a search, of one officer or of two, or one row of a registry with two requests
for it; of three officers a search takes up to three levels. Notes of `inter_unit_approved`, which all
may read, are left out of that run. Four people make a chain of three merges, one more than the two walks are
allowed in that run, so that chains that are cut off occur; the code's bounds, 10 and 20, would need
12 people. An address has one edge of the line, so that it is asked for, is an end, and is a node on a
path. One change during a request (`Change`, BOUND) is what `ConsistentUnderOneChange`
is about: with two, a person may be reversed out of one identity and merged into
another, and a request between them shows the edges of the second under the name of the
first.

Symmetry is used over threads, workers and desks, and over people or officers where all
that sets them apart is in the state; not in `bs_session` and `nw_identity`. It is never used with `RequestsEnd`, the only
liveness property.

**Fairness** (`er_progress` only). A thread that can run does (weak fairness of its
decisions). A row that is released again and again is granted in turn, because
PostgreSQL queues the waiters of a row (strong fairness of taking a lock and of an
UPDATE). The deadlock detector runs (weak fairness of `DeadlockAbort`). Nobody is
assumed to send a request, and no connection is assumed to break.

**Mutants.** Each property of a passing run has a mutant in `PROJECT.json`: a
definition of the model changed the way a bug in that code would (a lock not taken,
a check against the wrong rows, a column not reset). Mutants are the operators whose
name has a suffix after an underscore. TLC finds the property violated by it.

The type invariants of `BrowserSession`, `CaseWorkspace`, `CaseDocuments` and
`NetworkIdentity` are stated as `TypeOK` in the modules and proved (section 5). The runs list
the properties that say something about the code.

## 5. What is proved

TLAPS proves the following for every value of the constants: any number of people,
officers, cases, threads, events, scores and hours. What is assumed of the
constants is in the named ASSUMEs of the modules, which TLC evaluates in the
runs.

| Module | Theorems | Along which invariant |
|---|---|---|
| `EntityResolutionProofs` | `TypeCorrect`, `HiddenOnlyByActiveMerge`, `MergesAreGuarded`, `SurvivorsCover`, `LedgerImplemented` | `IInv`, in `EntityResolution` |
| | `LedgerAcyclic` (the ledger's pointers never form a cycle), `MergesNeverCycle` (nor do the tables', by the refinement) | the ledger's typing and `Acyclic` |
| | `TiersNeverFall`, `FieldsSurvive`: action properties | each step from `IInv` |
| `ConfidenceReviewProofs` | `Typing`, `ScoresExplained`, `DecisionsAreRecorded` | `IInv` |
| | `UndisturbedDecisions`, `BandsMatch` | `DInv` |
| `AccessExceptionsProofs` | `Typing`, `DecisionsHappenOnce`, `AccessIsJustified`, `Refinement` | `IInv` |
| | `OneRequestAtATime` | `AInv` |
| `OfficerHierarchyProofs` | `Typing`, `AssignmentsKeepForest`, `SearchesAreExact` | `IInv` |
| `SignInProofs` | of the browser: `Typing`, `SessionsAlwaysEnd`, `ElevationsNeedPasswords`, `PageShowsCaller` | `IInv` |
| | of the account: `AccountTyping`, `FactorsHaveSecrets`, `EnrolmentsAreConfirmed`, `SignInsNeedCodes` | `AccountInv` |
| `CaseWorkspaceProofs` | `Typing`, `ConflictsOnlyByRaces`, `AuditTrailHolds`, `FilesBehind` | `IInv` |
| `CaseDocumentsProofs` | `Typing`, `RegistryAlwaysAccounted`, `ShownUnlessReshuffled`, `LastingPoliciesAlwaysMask`, `DocumentsAlwaysAudited`, `LabelAlwaysCovers` | `IInv` |
| `NetworkIdentityProofs` | `Typing`, `AnswersAreExact`, `HigherTiersHidden`, `AnswersAreConsistent` | `IInv`: `Control`, `Way`, `Found`, `Calm`, `Exact` |

Why the properties are not inductive by themselves, and what is added:

* *Merges.* That a hidden person has an active merge depends on what a merge saw.
  `IInv` adds that the rows a merge has locked are still those it read
  (`LockedRowsCurrent`), that a running handler's job agrees with its event
  (`JobsWellFormed`), that there is one active event for an absorbed person
  (`OneActiveEvent`, the unique index), and that a reversal that decided to leave
  the pointer alone leaves an independent person (`SkippedPointerIsClear`). The
  refinement maps each step to one step of the ledger or to none, and
  the ledger's theorem about cycles then holds of the tables.
* *Decisions.* `IInv` says what a worker between two commits still owes. `DInv`
  adds the history: two workers with one target are both marked
  (`RivalsDisturbed`), and an unmarked worker still has the rows it loaded
  (`UndisturbedJobs`).
* *Exceptions.* `IInv` adds that a locked row is the row its session read and that the
  exceptions a reader collected were in force since the read began. `AInv` adds
  that two requests of one officer for one case are marked
  (`TwinsDoubled`) and that an unmarked request between its checks still sees
  nothing pending or in force (`CheckedRequests`).
* *Hierarchy.* `IInv` is the invariant of the breadth-first search: whoever reports to an
  officer that was expanded has been found, and only subordinates have been. Two lemmas
  about all hierarchies carry the rest: a set closed together with the root
  holds all subordinates, and putting an officer under somebody who is not below it
  closes no cycle.
* *Second factor.* An UPDATE over the row that was loaded leaves what was assigned
  (`WrittenOverLoaded`); a change that overlapped another is marked `outrun`.
* *Browser session.* That a served call is within its limits says nothing of the calls
  that come after it, because each answer may bring a token. `IInv` grounds every token there is (in
  the page, in `localStorage`, in a call under way) in a sign-in of its officer
  (`Grounded`) and every assertion in a password (`Earned`), and keeps of a served call what
  the server established when it served it, by the clock of that moment
  (`ServedRightly`).
* *Case workspace.* A request that was checked writes later. `IInv` says what it can rely on
  when it does: if its row is there already it was overtaken (`RacesInv`: only an insertion can
put the row there after the check, and that marks all who are about to insert the same),
the previous status it names is one the case had (`NamesHad`), nobody adds the lead
  (`NotTheLead`), an upload has its row and its file to itself until it commits (`Orderly`,
  `Apart`).
* *Case documents.* `IInv` says what the history of a request has seen: all its
  reader can see at this moment, and the policies in force now that were so from the beginning
  (`HistoryInv`). The heart is `NotesInv`: a member found in the team saw, at that moment, every
  note that had been selected before, so that what is decided later on that
  membership is entitled; read in the opposite order it would not be. For the chain of command, `SearchInv` explains
  whom a search has found through the one officer that was reassigned meanwhile: whoever is found is
  below the reader whatever that officer's manager is, or below that officer, who was found at a moment
  when the reader could see the notes of all below (`FoundUnder`). The second moment is not there if two officers are
  moved, which is why the property excepts it. `AuditInv` keeps what
  was logged before anything is masked. For the registries, `Fresh` says that a deactivation under
  way is of a row still active unless two requests overlapped. That the highest tier of a
  document exists, for any number of notes, is a lemma about bounded sets of naturals
  (`Greatest`) by the well-founded order of their differences from the bound.

* *Network.* What a walk of any length does is proved without an induction over its length: a
  chain of pointers (`Chain`) and a bounded walk (`Walked`) are the least sets that hold the
  start and are closed under a hop, and each lemma names a closed set. So all of a chain
  have one survivor (`SurvivorAlong`), ranks rise along it (`RanksAlong`), two walks from one
  place end at one place (`WalksAgree`), a walk with hops enough arrives
  (`WalkArrives`), and one level down from the people at distance n are those at n + 1
  (`OneLevelDown`). The invariant has five layers. `Control`: no circles, ranks that rise along
  pointers, and the phases of the handler. `Way` and `Found`: whatever was found is on a
  chain from what was asked, by `Wide`, the pointers of before and after the one change taken
  together; because `Wide` is always one of the two, the people that a walk connects
  are one identity before the change or after it. `Calm`: while nothing has changed, each lookup is
  a prefix of the one walk there is. `Exact`: within the bounds, clusters are identities and
  each record that is due is shown, hidden for its reason, or still to come. `HigherTiersHidden`
  needs no bound on the chains (and holds for addresses since these are in no chain), as the side that is read and the root of the
  cluster are cut off at the same person.

Only model-checked: `RequestsEnd`, because liveness under fairness is out of the prover's
reach, and `ReloadRestores`, which TLC refutes (section 6). No recursive operator is used.

## 6. Where the code and its documents disagree

One of them is a run that TLC refutes with a shortest counterexample:

* `bs_reload`. `client.ts` says "The access token is persisted so a page reload restores
  the session". The reissued tokens are assigned to the variable and not to
  `localStorage`, which keeps the token of the sign-in: after the inactivity limit a
  reload signs an active officer out.

The others are stated in the modules, each next to what remains true, and TLC refutes
them when they are put in the place of the INVARIANTS of the run that is named:

* `ActiveMergeHides` (`er_races`). `reverse_merge` reads without a lock. Two reversals of one
  merge, with a re-merge committed between, clear the pointer of the re-merge: its event
  is active and its absorbed person is not hidden. `HiddenByActiveMerge` is what remains
  true.
* `RejectedChangesNothing` (`cr_decisions`). One officer accepts, another rejects, both having
  read a pending review: it ends rejected with its score written and its alert fired.
  `DecidedExactlyOnce` is what remains true.
* `NoDuplicateActive` (`ax_exceptions`). An officer who asks twice at once gets two pending
  requests. `OneActive` is what remains true.
* `NoManagerCycle` (`oh_hierarchy`). Two assignments search for a cycle before either is
  written, and both are. `ForestUnlessGuessed` is what remains true.
* `EntitledAtOneMoment` (`cd_documents`). `get_subordinate_officer_ids` reads a level at a
  time. A supervisor's search finds an officer, who is then moved away; another
  officer is put below that one, and the next level finds the second, whose
  notes are shown although they were never below the supervisor. `EntitledUnlessReshuffled`
  is what remains true.
* `NeverLockedOut` (`sf_factor`). Beginning another enrolment while the factor is on replaces
  the secret at once; abandoning it locks the officer out.
* `OldEdgesOnlyByTheirId` (`nw_identity`). The docstring of `EntityResolutionEvent` (`models/governance.py:181-184`),
  `docs/decisions/011-entity-resolution.md:59-68` and `docs/decisions/999-final-project-state.md` (section
  2.8, item 8, and section 5) say that relationships of an absorbed person are reachable only by the id
  of that person. `network_service._merge_cluster_ids` (291-311) asks the graph about all who are
  merged into the survivor, so they are listed for the survivor and for each id of the identity,
  as `tests/integration/test_network_merge_repointing.py` expects. Neo4j itself is indeed not changed by a
  merge. `AnswersExact` is what the code does.

Smaller things the models show or rest on:

* the comment in `verify_mfa`, '"enabled but no secret" cannot occur via any data path',
  holds until a confirmation and a disabling overlap (`FactorHasSecret` is stated for
  `~outrun`);
* accepting the dispute of a zone score raises (`ServerError`) although
  `docs/decisions/010` counts on its alert;
* the timer of `AppContext` starts only when the page is loaded with a token, and never
  stops: after a reload its polls keep a session from ever being inactive, and after a
  sign-in without a reload nothing is polled. A wrong password in the step-up dialog is
  a 401 and signs the officer out. No page calls `logout` of AuthContext;
* pinning is documented as idempotent; of two pins at once the second is answered with
  500. A removal that overlaps another one is audited although the officer may be on the
  team again (`stale` in `TeamTrail`);
* the audit row of an export has the number of its notes, not their ids: which notes left the
  system cannot be told from the log (`DocumentsAudited` says what can);
* `RedactionPolicyDecision` says it "applies to exports only"; policies are applied to note
  lists and entity details too, as `CaseDocuments` has it;
* shortest paths are searched for each pair of nodes of the two identities, so a list may
  hold a longer path next to a shorter one, and a path may pass between two nodes of one
  identity, which `RELATIONSHIPS_OF_ENTITY` leaves out of a list of relationships;
* a zone without active cases scores at most 30, so the branch of `compute_zone_score` that
  lowers such a zone from verified to probable is never taken.

## 7. Plan

Done: the modules of section 3, and the proofs of section 5.

Every invariant and action property that a passing run checks is a theorem, and so are both
refinements. What could be added: the steps of zone scoring and of the alert feed
(components not modelled), which keep little state between two requests.

# Doppia in TLA+

Doppia stores annotated fragments of musical scores.  An editor marks a range of
a movement, tags it with concepts of a knowledge graph and submits it; other
editors approve or reject it; readers browse what was approved.  Beside that, a
movement carries a harmonic analysis, imported from a corpus and corrected by
hand, and every fragment under review has a preview image rendered in the
background.

This directory holds TLA+ models of the parts where requests, background tasks,
scripts, browser tabs and crashes can meet, and of the pure passes every score
goes through; the TLC runs that check them; and TLAPS proofs.  Paths below are
relative to `src/backend/` unless they start with `docs/`, `frontend/` or
`scripts/`.

## Contents

1. Inventory of the system
2. Modules
3. Runs: what each checks, its bounds, what it shows
4. Where the code and its documents disagree
5. Fairness
6. Proofs
7. What is only model-checked, and what is not modelled
8. Plan

## 1. Inventory of the system

One FastAPI process (async SQLAlchemy on PostgreSQL at READ COMMITTED, Neo4j for
the concept graph, Redis, S3-compatible object storage, Supabase for
authentication), a task runner, which is either a single thread in that process
or a Celery worker, a handful of scripts, and a React frontend.

| Component | State | Operations | Hard behaviour | What makes it correct |
|---|---|---|---|---|
| Fragment review (`services/fragments.py`, `fragment_validation.py`) | `fragment`, `fragment_concept_tag`, `fragment_review` rows | create, update, submit, approve, reject, delete | no row lock and no version check; `approve()` commits three times; the status written is decided by an earlier read | nobody approves their own work; approval is of the content shown; edits reopen review; sub-parts stay inside their parent |
| Movement harmony (`services/analysis.py`, `services/tasks/ingest_analysis.py`) | `movement_analysis.events`, one JSON array per movement | insert, delete, move, respell, confirm, confirm all; import with smart merge | whole-array writes; edits lock the row, the import does not | an edit undoes no other; the merge keeps what people have reviewed and replaces the rest |
| Previews (`services/tasks/render_fragment_preview.py`, `services/task_dispatch.py`, `services/celery_app.py`) | `preview_object_key`, an SVG per fragment, the task queue | dispatch, render, retry, redelivery | dispatch after commit, a long task with no transaction around it, crashes, overwritten objects | an active fragment's preview shows its range in the current score |
| Corpus ingestion (`services/ingestion.py`) | composer, corpus, work, movement rows; MEI objects; `pending_analysis` | upload, re-dispatch of pending analyses | object writes inside a transaction that may roll back; tasks of two uploads finish in any order | rows and objects agree; a movement whose analysis is outstanding says so |
| Incipits (`services/tasks/generate_incipit.py`) | `incipit_object_key`, an SVG per movement | generate, back-fill | as for previews | as for previews |
| MEI normalization (`services/mei_normalizer.py`, `corrections_overlay.py`, `mei_validator.py`) | none: pure | correct, normalize in eleven passes, validate | each pass rewrites what the next ones read, and normalized files are uploaded again | the file comes to rest; notes sound as printed; clefs keep their meaning; a correction is made once |
| Concept graph (`scripts/seed.py`, `graph/queries/`, `services/concepts.py`, `services/cache.py`) | Neo4j nodes and edges, translation rows, Redis copies of subtrees and trees | seed, read through the cache, page, search, invalidate | a run of several hundred statements without a common transaction, beside readers that fill the cache | the graph is what the files say; nothing stale is served for longer than the TTL; pages are whole in their language |
| Accounts (`services/users.py`, `account_deletion.py`, `api/dependencies.py`) | `app_user`, `user_role`, the provider's users | ensure, grant, revoke, delete | two systems without a common transaction; tokens outlive rows | a deleted account leaves nothing that points at it; the record survives; there is an admin |
| Moderation (`services/moderation.py`) | `moderation_report` rows | report, resolve | check, then write, unlocked | as above |
| Sign-in and sessions (`api/routes/auth.py`, `services/supabase_auth.py`, `frontend/src/components/auth/AuthContext.tsx`, `frontend/src/services/auth.ts`, `session.ts`) | the provider's refresh tokens, two cookies, an access token per page | bootstrap, sign in (password, OAuth, link), renew, sign out | the token rotates; calls of several tabs overlap on one cookie jar; an answer may be lost after the rotation | a session is neither lost nor brought back; a page leaves its loading state |
| Data repairs (`data_migrations/fix_*.py`, `clamp_subpart_bounds.py`, `services/mei_meter.py`) | fragment rows, `movement.meter` | four repairs of stored values | nothing records which encoding a row is in; runs repeat, fail and meet saves | positions in the score stay what they were; a second run changes nothing |
| Bar renumbering (`services/bar_renumber.py`, `data_migrations/renumber_movement_bars.py`) | MEI objects, bar columns | renumber | object put, then commit | as for ingestion |
| Reading (`services/browse.py`, `permissions.py`, `reading_history.py`, public routes) | reading history | list, filter, page | licence and status filters | drafts and restricted scores stay hidden |
| Text (`services/translation.py`, `i18n.py`, `data_export.py`) | translation overlays | sync, look up, export | none beyond seeding | |
| Object storage (`services/object_storage.py`) | MEI and SVG objects | put, get, sign | last writer wins | |
| Score viewer and annotator (`frontend/src/`) | annotator mode, stage boundaries, harmony panel | draw, drag, confirm | stale panels | stages tile their fragment |

How they meet: a route handler calls one service method.  `update()` and
`submit()` hand a preview task to the runner after their commit; `ingest_corpus`
normalizes the score and hands over, per movement, the analysis import, the
incipit and one preview task per active fragment.  The approval gate reads the
harmony events of the fragment's range and the concept tags; the preview task
reads the fragment row and the MEI.  Every authenticated request first ensures
its account's row.  The seeder is a process of its own that shares Neo4j,
PostgreSQL and Redis with the API; so are the repairs, with the rows and the MEI.

The hazards this gives rise to are in `PROJECT.json`, each with its line and
the properties that watch it.

## 2. Modules

| Module | What it is |
|---|---|
| `FragmentStatus` | the status column: what an edit leaves, how the ORM writes one column |
| `FragmentRules` | the pure rules: permissions, what an edit stores, counting, the two checks of the gate |
| `ReviewWorkflow` | abstract: every call of the review workflow is one step |
| `FragmentReview` | detailed: every call in the spans between its reads, writes and commits; implements `ReviewWorkflow` when calls do not overlap |
| `MCFragmentReview` | editors and payloads for TLC |
| `FragmentReviewProofs` | ten theorems about `FragmentReview` |
| `HarmonyTimeline` | pure: the event array, the editing primitives, the smart merge |
| `MovementHarmony` | edit requests with their row lock, analysis tasks without one |
| `MCMovementHarmony` | measures, analyses and requests for TLC |
| `MovementHarmonyProofs` | four theorems about `MovementHarmony` and the smart merge |
| `FragmentPreview` | requests, uploads, task runner, preview task, object storage |
| `FragmentPreviewProofs` | type correctness, keys have objects, previews are fresh |
| `CorpusIngestion` | uploads of one movement: row, MEI objects, analysis and incipit tasks, the pending flag |
| `MCCorpusIngestion` | symmetry of the uploads for TLC |
| `Accounts` | provider, rows, grants, the editorial record, reports, and requests that carry the roles they read |
| `MCAccounts` | two people for TLC |
| `AccountsProofs` | four theorems about `Accounts` |
| `MeiMeasures` | pure: bars, endings, repeats, split bars (passes 1 to 7) |
| `MeiPitch` | pure: ties across barlines, gestural accidentals (passes 8 and 9) |
| `MeiClefs` | pure: the clefs of one staff (pass 10) |
| `MeiNormalizer` | the corrections and the eleven passes in order, one step each, and the rounds of a file that is uploaded again |
| `MCMeiNormalizer` | families of small scores for TLC |
| `UploadProofs` | what becomes of an uploaded score: three theorems about `MeiNormalizer`, six about `CorpusIngestion` |
| `ConceptGraph` | pure: the graph, its queries, and the validation checks |
| `ConceptSeed` | pure: a run of the seed script as a sequence of statements |
| `ConceptBrowsing` | the seeder beside readers, the cache, its expiry and its failures |
| `MCConceptBrowsing` | two editions of a small ontology for TLC |
| `ConceptBrowsingProofs` | six theorems about `ConceptBrowsing` and the seeder's programs |
| `BrowserSession` | tabs, cookie jar, calls of `/auth`, the provider that rotates tokens |
| `BrowserSessionProofs` | two theorems about `BrowserSession` |
| `StoredRepairs` | the repairs over one movement, beside the annotators |
| `MCStoredRepairs` | two bars of 3/8 for TLC; the meter timeline as the code computes it, compared with the model's |
| `StoredRepairsProofs` | two theorems about `StoredRepairs` |

### FragmentReview

*State.*  `status` and `content` are the fragment row with its tags and
sub-parts; `reviews` the `fragment_review` rows; `unreviewed` the measures with
an unreviewed harmony event; `req` what each request in flight has read.
`reviews[..].current` and `endorsers` are history: the first says that the vote
came from a request that had read the content held now, the second collects all
who ever committed an approving vote.

*Actions.*  `Begin*` are the first reads and checks, as one snapshot;
`SaveProse`, `SaveAnalysis`, `SubmitDraft`, `RejectFragment` and
`DeleteFragment` are write and commit of a single-transaction call.  `approve()`
is `BeginApprove`, `RecordVote` (phase 1), `CountApprovals` or
`AwaitMoreApprovals` and `PassGate` or `FailGate` (phase 2), and
`FlipToApproved` (phase 3).  `Abort` is any early end, after which the phases
already committed stay.

*How a row is written.*  The ORM emits only the columns whose assigned value
differs from the value this session read (`Column`, `Overlay`); concept tags and
sub-parts are deleted and inserted again.  Two overlapping edits can therefore
leave a mix of both.  Phase 3 of `approve()` selects the row again, but the
session keeps the object of phase 1 because `expire_on_commit` is off
(`models/base.py`), so its guard sees the old status.

*Abstractions.*  One top-level fragment: fragments share no rows, and the model
has a concurrent request for every slot.  Sub-parts sit in one measure each and
are not reviewed on their own.  The summary is reduced to whether
`actual_key` needs review, the tags to whether a concept declares a harmony
gate.  A caller's roles are those loaded at the start of the request.  Votes on
an earlier version of a rejected fragment are kept, as in the code; with a
threshold of 1 a new vote is needed anyway.

*Refinement.*  `Workflow == INSTANCE ReviewWorkflow WITH ...` maps the four
variables of the abstract workflow to the status, the content, the votes and the
unreviewed measures of the detailed one; `RefinesWorkflow == Workflow!Spec` is
checked as a property and proved.

### HarmonyTimeline and MovementHarmony

*State.*  `events` is the array, `lock` the row lock that `_load` takes with
FOR UPDATE, `edit` and `task` what each request or task has read.

*Operators.*  `Inserted`, `Deleted`, `Moved`, `Respelled` and `Confirmed` are the
editing primitives with the sort that ends two of them.  `Merged` is
`_merge_events`: `Renewed` are the measures taken from the new analysis, `Kept`
is what becomes of a protected event, and `MergedBefore` is the order of the
final stable sort.

*Abstractions.*  The printed bar number and the volta are one number, `label`,
which may repeat in a movement, unlike the document-order index `mc`.  The chord
fields are one reading.  `auto` is always false in what reaches the merge.
Events outside the MEI are warnings only.

### FragmentPreview

*State.*  `row` holds what a preview depends on (status, range, whether a key is
noted), `mei` and `svg` are the object storage, `queue` and `work` the task
runner, `mode` is `TASK_EXECUTION_MODE`.  `lost` is history: fragments whose
newest task or dispatch was lost, and all fragments after an upload that stored
its MEI and then failed.  It is what the preview properties excuse, and a
fragment leaves it with its next dispatch.

*Actions.*  Requests read, commit, and `Dispatch` afterwards.  `StoreScore`,
`CommitUpload` and `EnqueuePreviews` are the upload.  `TakeTask`, `ReadScore`,
`StoreSvg` and `NoteKey` are the four steps of the task, `FailTask` its retry or
loss, `KillWorker` a redelivery (acks_late), `KillApi` the death of the API
process, which inline takes queue and thread with it.

*Abstractions.*  `mc_start` and `mc_end` are one range.  The phases of
`approve()` are one here: they touch nothing a preview depends on but the status.
A retried task goes to the tail of the queue, which stands for Celery's 60 second
countdown.  `mode` is read on every dispatch in the code, but set once in the
environment.  Fragment ids are never used again.

A worker that dies after a task's last commit and before its acknowledgement is
among the redeliveries.  Left out, here and in `CorpusIngestion`: a prefork child
killed alone, whose task Celery does acknowledge.  Its task is lost with retries
left, a loss like the others to the properties.

### CorpusIngestion

*State.*  `row` is the movement row (which upload wrote it, where its key
signature comes from, `pending_analysis`, whether it has an incipit);
`original` and `score` are the two MEI objects, `analysis` and `incipit` what
the tasks have written and from which inputs.  `up` are the uploads in flight,
`queue`, `work` and `mode` the runner as in `FragmentPreview`.  Three history
variables name what the properties excuse: `lost`, as there, for each of the
two kinds of task; `crossed`, an upload came upon an analysis that had still to
come; `stray`, an upload failed after it had stored a file.

*Actions.*  `BeginUpload` is the upserts of composer, corpus, work and movement.
The composer's ON CONFLICT DO UPDATE makes a second upload of the same corpus
wait for the first, so at most one is between there and its commit.
`StoreOriginal` and `StoreScore` are the object writes inside the transaction,
`Commit` its end, `DispatchAnalysis` and `DispatchIncipit` what follows;
`Abort` fails at any of these points.  An analysis task is `TakeTask` (the read
of the row), `ReadScore` (the MEI) and `FinishAnalysis` (the one transaction of
phase 3, which waits for the row lock of an upload); an incipit task is
`TakeTask`, `ReadScore`, `StoreSvg`, `NoteKey`.  `Redispatch` is the
administrator's endpoint, which has no harmonies to hand over.

*Abstractions.*  One movement.  No harmonies file and a corpus that is not from
DCML are the same: the task raises or returns at once.  Whether the harmonies
tell a key is left open.  What the merge keeps of an earlier array is
`MovementHarmony`'s concern; here an analysis is the pair of inputs it was
computed from.  Movements are never deleted.

### Accounts

*State.*  `provider` is the identity provider's side, `token` who still holds an
access token, `account` and `grants` the `app_user` and `user_role` rows;
`record` the attributions of fragments and reviews, `reports` the moderation
reports; `req` the requests, with the roles they read at their start.

*Actions.*  `Register`, `OpenSession` and `Expire` are the account's life outside
a request.  `Authenticate` is `get_current_user`: it ensures the row, which is
how a token brings back the row of a deleted account.  Then one handler acts:
`Contribute`, `GrantRole`, `RevokeRole`, `FileReport`; `ReadReport` and
`ResolveReport`, as the check and the write of a resolution are two statements;
and the deletion in four: `BeginDeletion`, `Reassign`, `DropAccount` (the DELETE
with its cascades, and the commit), `RemoveAuthUser`.  `Leave` is any early end.

*Abstractions.*  Between `Reassign` and `DropAccount` the rows are moved but not
committed: others see the old attribution, and statements that need these rows
wait.  A foreign key that neither cascades nor is moved makes the DELETE fail
(`Blockers`), and a second review by the system user makes the reassignment fail.
Profiles and the reading history go with the row and are left out.

### MeiMeasures, MeiPitch, MeiClefs and MeiNormalizer

*State.*  `source` is the upload, `tree` the score the passes rewrite, `before`
what the present round was given, `pass` and `round` where the pipeline stands,
`issues` the report.

*Actions.*  `ApplyCorrections` and the eleven passes `NormalizePickupBar` to
`NormalizeStaffPresentation`, each by the operators of the pure module that
stands for it; `NormalizeAgain` hands the written file in once more, which is
what a second upload of it does.  The pure modules do what the Python does in the
order it does it: the stack of open repeats, the run of bar numbers, document
order against time order, one explicit clef per event, the splitting of a space
for a clef that falls into it.

*Abstractions.*  A score is a sequence of bars with the attributes that passes
read, the events of each layer with durations in abstract ticks, and one staff of
clefs; the three parts do not read one another's data, in the code either.  A key
may be declared before a bar or within it (`Declare`, `DeclareInside`).  Grace
notes, tuplets and the arithmetic of meters are left out, so "the bar is too
short" is a flag of the bar.  The validator reports and changes nothing.

### ConceptGraph, ConceptSeed and ConceptBrowsing

*State.*  `graph` is Neo4j, `rows` and `open` the translation tables with the
seeder's transaction, `seeder` the run and the statement it is at, `cache` Redis,
`reader` the requests.  `done`, `settled` and `cleared` are history: what was
seeded last, and whether anything was written or the cache was cleared since.

*Actions.*  `ConceptSeed` turns files and arguments into the script's program of
statements: `MERGE` of a node, `MERGE` of an edge (which does nothing when an end
is missing), upsert of translation rows, commit.  `BeginRun` starts one whose
files pass the checks, `Answer` is the prompt about orphaned concepts, `Write` one
statement, `Fail` a failure at any of them, `ClearIds`, `ClearTrees` and
`ClearFails` the invalidation at the end.  A request reads store by store:
`Lookup`, the reads of each page and of both kinds of search, `Overlay` (the
translations), `Store` (the fill).  Any call to Redis may fail, which the code
takes as a miss.  What a page names is kept with the place in which it names it
(`ConceptGraph`, from the queries), and what a handler asks the translations for is
a list of its own, of the places it collects (`SearchIds`, `TreeIds`, `DetailIds`,
`IndexIds`, `SchemaIds`): `WholePageTranslated` compares the two.

*Abstractions.*  A name is the set of its words.  Aliases, definitions, the order
of rows and the live fragment counts are left out.

### BrowserSession

*State.*  Of the provider: the refresh tokens `issued`, those it would still
exchange (`live`), sessions it has `ended`, e-mail `links`, OAuth `flows`.  Of the
browser: the cookie `jar`, a page per `tab`, per tab and kind the `call` in
flight.  `due`, `turned` and `calm` are history: the session that was last signed
in to; whether since then a 401 has cleared a cookie that was good; whether since
then calls followed one another and no rotation was lost.

*Actions.*  `Load`, `LoadSigningIn` (a page that bootstraps and redeems a code or
link at once), `StartOAuth`, `SignIn`, `Renew`, `SignOut`, `Expire` are the page;
a call takes its cookie with it when it is sent.  `Exchange` is the route with the
provider: `Grant`, `Refuse` (a 401, 500 or 503 for any credential, a good one
included) or `Unheard` (the provider has made the exchange and the API does not
learn of it).  `Mirror` is the database work after it (the row and the roles; it may
fail), `Revoke` the end of a session.  `Receive` is the answer: first what it does
to the jar, then what the page makes of it.  `Lose` is a request or an answer
that does not arrive.  `Mail`, `Remove` and `ExpirePkce` are the outside.

*Abstractions.*  Tokens are numbered as they are issued, and a session is the
number of its first token.  A page begins no renewal while another of its own is
in flight.  The 30 days of the refresh cookie, the registration gate and password
changes are left out.

### StoredRepairs

*State.*  `rows` are the fragments with their outer stages, `meter` the movement's
record, `reading` how the deployed tagging tool counts 3/8, `run` the script in
progress with what it has read.  `tagged`, `clean` and `settled` are history: the
extent each row was given, the scripts that reported no problem, and those after
which nothing has changed.

*Actions.*  `Deploy` changes the reading, `Save` is an annotator, `Begin` a
script's SELECT, in the order that `data_migrations/README.md` documents;
`RepairMovementMeter`, `RepairSummaryMeter`, `RepairEighths` and `Clamp` are the
rest of each script up to its commit, with storage that answers or does not;
`Crash` ends a run without one.

*Abstractions.*  Beats are counted in sixths of a beat and positions in ticks, 24
to an eighth, so that both readings are exact for meters down to thirty-seconds.
A save gives the stages new ids, as the code deletes and inserts them, and the
UPDATE of a script goes by id.  `InForce` says which declaration of a meter holds
at a measure instead of building the timeline; `MCStoredRepairs` builds it as
`meter_timeline` does, and an `ASSUME` there compares the two on every list of up
to four declarations.  The tool counts in 4/4 where nothing is declared
(`Counted`).  A script has settled only if it saw rows and record as they are at
its commit, exited with 0 and could read the score.

## 3. Runs

| Run | Instance | Checks | Shows |
|---|---|---|---|
| `ReviewInterleaved` | 2 requests, 3 editors, 1 measure, 2 payloads | `TypeOK`, `EarnedApproval`, `GateNotBypassed` | what holds although nothing locks the row |
| `ReviewSerial` | calls one at a time, 3 editors, 2 measures, 4 payloads | `ApprovedContentReviewed`, `StagesContained`, `RefinesWorkflow`, `RejectionStands` | each call does what the workflow says |
| `HarmonyInterleaved` | 2 clients, 1 task, 2 measures with the same number, 2 beats, 2 analyses, arrays up to 3 | `TypeOK`, `MergeFollowsPolicy`, `EditsAreIsolated` | edits are isolated, the merge keeps to its policy on every reachable array |
| `PreviewOrderly` | 1 fragment, 2 ranges, 2 scores, 2 requests, 1 worker, 1 retry | `TypeOK`, `PreviewFresh`, `KeyHasObject`, `PreviewsSettle` | what is not owed is fresh, and everything settles |
| `IngestInterleaved` | 2 contents (both with harmonies, one with a key), 2 uploads, 1 worker, 1 retry | `TypeOK`, `FlagTruthful`, `PendingExplained`, `GivenKeyKept`, `ObjectsMatchRow`, `IncipitFresh` | row and objects are of one upload; flag, key and incipit are true unless uploads cross |
| `AccountsInterleaved` | 2 requests, 2 people (one the first admin), 1 fragment, 1 report, the admin role | `TypeOK`, `NothingOwnerless`, `RecordKept`, `LastAdminLeavesKnowingly` | deletions against everything the same account does meanwhile |
| `NormalizerPasses` | seven families of scores of at most four bars, up to 6 rounds | `ComesToRest`, `PlaysAsPrinted`, `CorrectionsSettle`, `ClefsKeepMeaning` | what the passes make of a score together, and again |
| `ConceptsSeeded` | 2 editions, 1 seed run (all domains or one), on a new or a seeded graph, 1 reader | `TypeOK`, `CacheFresh`, `FilesArrive`, `ReportsAreLeftovers`, `WholePageTranslated`, `LocaleWidensSearch`, `CacheConverges` | what a run leaves, wherever it stops, and what readers see of it |
| `SessionsOverlap` | 2 tabs, 1 user, 2 tokens, 1 OAuth round trip, 2 calls in flight | `TypeOK`, `SessionKept`, `LeavesLoading` | what overlapping and lost calls make of the cookies and the pages |
| `RepairsInterleaved` | 2 bars of 3/8, a fragment from before and one from after the change, 1 save, 4 script runs | `PositionsKept`, `RerunsChangeNothing` | the repairs keep every position, in the documented order |
| `ReviewStaleApproval`, `HarmonyReviewLost` | as above, overlapping | one property each | see section 4 |

*Bounds, and why they suffice.*  Every race in the code is between two requests
or a request and a task: two slots and one task show each of them, and the three
editors cover creator, other reviewer and admin.  The review instances differ in
size because two overlapping requests with four payloads have too many
states; the two payloads of `ReviewInterleaved` still differ in key, gate and
sub-parts.  Two measures with one printed number are the smallest movement where
bar number and document order disagree; `MaxEvents` bounds insertion and the
result of a merge.  In `PreviewOrderly`, `MaxQueue` holds back only the start of
new requests, never the runner: a request that started, and every retry and
redelivery, still goes to the queue.  In `IngestInterleaved` it does the same for
uploads and re-dispatches: they start when the queue is empty, which leaves a
task in hand and every task dispatched later for an upload to overlap with.  Two
contents suffice: the hazards are all of an older upload against a newer one.

`AccountsInterleaved` has an admin and somebody else, each of whom can be the one
that acts, is acted on, or deletes the account; both can become admins and revoke
each other.  `NormalizerPasses` varies per family what one group of passes reads;
six rounds are one more than a score of four bars may need, and a round in which
nothing changes is the last, so the run may stop.  In `ConceptsSeeded` one run on
a new graph and one on a graph that the first edition has left, with the second
edition or the same again, cover first run, repetition and change; the editions
hold edges that point forward to a later file, a stub and its definition, a stub
between a concept and its root, a renamed concept, stages in turned order, a
prerequisite turned round, and something for each kind of page.  Leaving a place
out of a handler's list violates `WholePageTranslated` there for ten of the sixteen
entries.  Five are redundant, in the code too: rows in the lists of search, tree and
index, and in that of the detail the concept itself and its parent, are on a path as
well.  The sixth, the children of a type refinement, do not occur in the instance;
`PagesTranslated` (section 6) is about all of them.
`SessionsOverlap`: every defect of a rotation is one old and one new token; a
single tab with four tokens has been checked too.  `RepairsInterleaved` starts
from every fragment with two outer stages that the old tool could place on its
grid, and four runs are the documented order once, or one script repeated around
the others.  The proofs drop the bounds of the modules they are about.

*The merge, compared with the code.*  `Merged` and the Python `_merge_events`
agreed on 200,000 random pairs of arrays.

Every property of a passing run is paired in `PROJECT.json` with a mutant, a
definition marked `Fault:` in the modules, under which TLC finds it violated.

## 4. Where the code and its documents disagree

Two runs check something a document of the repository says, and TLC finds a
counterexample:

- `ReviewStaleApproval`: ben's approval passes the gate; ann's edit commits,
  deletes the votes and stores new content; ben's phase 3 approves it.
  `docs/architecture/fragment-schema.md:359` says that prior approval does not
  survive a change.
- `HarmonyReviewLost`: the analysis task reads without a lock what edits lock, and
  writes its merge over an edit.
  `docs/adr/ADR-004-music21-pipeline-trigger.md:70`.

The following were met while modelling.  The models contain the behaviour; no run
is kept for each.

*Review, harmony, ingestion, previews.*

- A rejection commits before phase 3 of an approval, which writes "approved" over
  it (`services/fragments.py:2162`).
- Of two overlapping edits, one writes the range and the other the sub-parts
  (`docs/architecture/fragment-schema.md:92`).
- The merge decides per measure, the policy speaks of bar and beat
  (`docs/adr/ADR-004-music21-pipeline-trigger.md:73`).
- A second upload commits while the analysis of the first is running and the
  process dies before it dispatches its own; the running task clears the flag
  (`docs/adr/ADR-018-partial-failure-recovery-for-ingestion.md:74`).
- An edit that read the draft commits after the submitted preview was rendered
  and asks for no other (`docs/adr/ADR-008-fragment-preview-generation.md:60`).

`ReviewSerial`, `PreviewOrderly` and `IngestInterleaved` show the other half:
these promises hold as long as requests about one fragment do not overlap, and
no upload comes upon an analysis of its movement that is still to come.

*Normalization.*

- `normalize_mei` calls itself idempotent (`services/mei_normalizer.py:75`, `:2434`); it
  comes to rest, but not in one round.  Pass 7 marks the first bar as the complement
  of a short close whose repeat was never opened (`:1066`, `:1087`); the second
  normalization takes bar 1 for a pickup and renumbers the score.  (TLC finds it among
  `Repeats` of `MCMeiNormalizer` when a second round may change nothing.)  A note's
  accidental and its tied continuation settle one bar a round.  `ComesToRest` states
  the bound that holds.
- A correction of a gestural accidental may be undone by pass 9 of the same run,
  which resolves what the page says (`services/mei_normalizer.py:1692`), and is
  then made again in every round; `CorrectionsSettle` is about the other fields.
- `backfill_mei_normalization.py:109` (in `scripts/` beside `services/`) normalizes stored originals without
  the overlay of corrections that ingestion applies.

*Accounts and moderation.*

- An account that has resolved somebody's report cannot be deleted:
  `moderation_report.resolved_by` is neither moved nor set to null
  (`services/account_deletion.py:105`).
- Two moderators resolve one report: the second overwrites the first
  (`services/moderation.py:191`).

*Concept graph.*

- On a first run, an edge to a concept of a later file is not written, because
  `MERGE` matches both ends (`graph/queries/seed.py:179`); a second run brings it.
  `FilesArrive` states this; `scripts/seed.py:20` calls its order dependency-safe.
- `--domain X` ends with exit code 2 on references to concepts that an earlier run
  has seeded; the `references` of a property value are not checked at all; nothing
  is ever removed.
- What the files no longer say stays in the graph.  A prerequisite that an edition
  turns round closes a cycle, and the validation reports every concept on it, also
  those that the edition did not touch; `ReportsAreLeftovers` allows for them by
  name (`InCycleWith`).
- A failed run leaves what it has written to Neo4j, and the cache uncleared; a
  failing clear is a warning.  A reader that read before the run and stores after
  the clear leaves a stale entry until its TTL.
- The merged search of another locale has no total order over ties.

*Sessions.*

- The bootstrap's 401 clears the cookie (`api/routes/auth.py:278`), also one that
  a sign-in has set meanwhile, which
  `frontend/src/components/auth/AuthContext.tsx:160` means to leave alone; a
  renewal in flight undoes a sign-out in the same way.
- When the database fails after the provider has rotated the token, the answer is a
  500 without the new cookie: the session is gone.  The PKCE cookie stays, which
  `docs/architecture/security-model.md` describes as cleared on every failure.
- Two tabs that renew with one cookie: the loser's 401 clears the winner's.
- `api/routes/auth.py:286` says that the cookie is cleared "only when the token itself
  is bad (401)".  But every 4xx of the provider is such a 401
  (`services/supabase_auth.py:214`), the 429 of the rate limits that
  `docs/architecture/security-model.md:161` relies on included, and so is a success
  without tokens (`:166`, a 502, answered as a 401 at `api/routes/auth.py:204`): the
  cookie of a session that is alive is cleared at `:288`, with one call in flight and
  no rotation lost.  TLC finds it in eight states when `SessionKept` is stated without
  `turned`: sign in, reload, the bootstrap is refused.  `SessionKept` excludes this
  loss by name, and says that nothing else takes a session away.
- A renewal answered 503 makes the page anonymous although the cookie is kept; a
  late 401 for an old token drops a newer one.
- A sign-out during which the provider answers with a body that is not JSON is a 500
  and leaves the cookie where it is; `api/routes/auth.py:310` says that it is always
  cleared.

*Repairs.*  The first two were confirmed by TLC on variants of the instance; the
proofs of section 6 fail without the step and the hypothesis they stand for.

- `fix_summary_key_meter` calls itself idempotent (`:28`).  In a movement whose
  meter changes, a second run while storage is unreachable overwrites the local
  meter with the movement's first (`:113`).  `RerunsChangeNothing` excuses this
  step and no other.
- The clamp measures with the movement's opening meter, so in a movement that goes
  from 2/4 to 3/8 it leaves an overflow where it is, or fills in a wrong end.
- The clamp run before `fix_movement_meter`, with a wrong meter on record, leaves
  overflows; `data_migrations/README.md` only asks for the 3/8 conversion first.
- `fix_38_beat_coordinates` guesses the encoding per movement: rows tagged in the
  new reading before the conversion are converted with the old ones.  A half beat
  of the new reading (1.5) makes it say "old" and stop, with the comment that only
  the compound reading has such values (`:137`).  Values that fit both readings
  stay ambiguous, and are reported as converted once another row tells.
- A stage with null beats under a parent with explicit ones passes the clamp and
  fails `_assert_contained` at its next save.

## 5. Fairness

Three properties are about liveness.

- `PreviewsSettle` assumes weak fairness of every request in flight (the server
  ends each request: it commits, fails or is killed) and of every worker (the
  executor's thread and the Celery worker keep taking tasks, and a task ends: it
  has no unbounded loop and its I/O has timeouts).  Nothing is assumed about users,
  uploads, failures or crashes.  The property therefore speaks of behaviours in
  which requests and crashes come to an end.  A redelivery is such a crash, and a
  retry that did not count would look just like one, so that retries are counted is
  what keeps failures from being excused.
- `CacheConverges` assumes that a reader goes on, for the same reason, and that an
  entry of the cache expires: each is stored with a TTL.  The seeder need not do
  anything; the property speaks of behaviours in which seeding ends.
- `LeavesLoading` assumes that the bootstrap's call goes on: the route's httpx
  client has a timeout, and `fetch()` resolves or throws.  No other call is fair.

## 6. Proofs

Forty theorems in eight modules.  All hold for every value of the constants
that the `ASSUME`s of the modules allow: any number of editors, requests,
measures, clients, tasks, fragments, workers, retries, people, tabs, tokens, runs
and saves, any ontology files and any score.

`FragmentReviewProofs`.

- Overlapping requests (`Spec`): `TypeCorrect`, `Independence`,
  `NoOrphanReviews`, `ApprovalIsEarned`, `KeyGateHolds`.  The invariants are not
  inductive by themselves, because a vote is cast by a request that was admitted
  earlier.  `InterleavedInv` adds `RequestsInv`: what each stage of a request
  says about its user, the status it read, the votes it has committed and the
  key check it has passed.  What a request has read may be stale, but it stays
  what that request read; that is all these theorems need.
- Calls one at a time (`SerialSpec`): `ApprovalMatchesContent`,
  `StagesStayInside`, `RejectionHolds`, `CascadeIsConfirmed` and `Refinement`
  (to `ReviewWorkflow`, with the identity on its four variables).  `SerialInv`
  adds that at most one request is in flight and that the row is as it read it,
  so its checks still hold when it writes.  `Refinement` maps `SaveAnalysis`,
  `SubmitDraft`, `RecordVote`, `RejectFragment`, `FlipToApproved` and
  `DeleteFragment` to the abstract steps and all else to stuttering.
- `IndependentReview`, `ReviewsNeedFragment` and `CascadeConfirmed` are proved
  (`Independence`, `NoOrphanReviews`, `CascadeIsConfirmed`) and in no run.

`MovementHarmonyProofs`, for any number of clients, tasks, measures and analyses.

- `EditIsolation`.  The invariant is that an edit in flight holds the lock and has
  read the array as it still is: other edits need the lock to begin, the task needs
  it free to store.
- `TypeCorrect`: every edit and every merge makes an array of events of one.  The
  array is sorted by rank (`Ranked`), so this rests on `Ranks`: in a finite set
  under a strict order exactly one element has a given number of elements before
  it, which follows from counting them and needs no induction.
- `PolicyFollowed`: what the merge does with protected, stale and new events, for
  every array and every analysis (`MergeKeepsProtected`, `MergeDropsStale`,
  `MergeTakesOver`).
- `UndisturbedAnalysisKeepsReviews`: a task that stores its result over the array it
  had read keeps every protected event.  It is in no run, and is the other half of
  `HarmonyReviewLost`.

`FragmentPreviewProofs`.

- `TypeCorrect`, and `KeysHaveObjects` for any number of workers: a worker about
  to note a key has stored the object, and objects are never removed.
- `PreviewsAreFresh`, which assumes a single worker and `OrderlySpec`.  The
  invariant `OrderlyInv` says that a request holds its row as it read it, and
  that each active fragment not lost is fresh or covered: a dispatch is owed, a
  task is queued, or the worker's task has read what is current now.  With two
  workers the theorem is false: an older rendering can be stored last.  The
  single worker is `ThreadPoolExecutor(max_workers=1)` in
  `services/task_dispatch.py:45` and `--concurrency=1` in
  `docs/deployment.md:400`.  `regenerate_fragment_previews.py`, run beside an
  inline API process, is a second worker.

`UploadProofs`, first part: `MeiNormalizer`, for any score (any bars, staves,
layers, chords, durations, ties and keys; any tokens as accidentals) and any list of
corrections, in any round.  `NormalizerAssumption` only says what a score and a
correction are.

- `OnlyCorrectionsChangeThePrint` (`PrintIsKept`, in no run, but TLC agrees with it on
  the instance of `NormalizerPasses`).  `WholeInv`: the tree is a score and carries the
  corrections of its source.  `PassesKeepText` goes through the passes: each
  rewrites bars or notes in place (`SameBars`, `SamePage`), and folds keep what
  each of their steps keeps.
- `NotesPlayAsPrinted`.  `PlayInv`: once pass 9 is done, all notes but the ends of
  ties are resolved; passes 10 and 11 leave notes alone.  The work is
  `AccidentalsResolved`.  Notes of a staff are listed by rank, so each has its place
  and a note that governs another comes before it (`StaffOrderIs`).  The walk keeps in
  `acc.running` what the latest sign on each line says so far, be it of another voice
  (`WalkGoesOn`), which is what `Meant` asks for (`MeantIs`); staves do not disturb
  each other (`StaffResolved`).  A latest sign exists because a finite set of places
  has a greatest (`LatestSignExists`).  That is also why onsets must be comparable:
  the clock of a layer is a number wherever it is read (`ClockIs`).
- `CorrectionsAreMadeOnce`, under `NoReversal`: of two corrections of one attribute
  the later does not put back what the earlier expects.  Without it the two undo each
  other in every round, and the property is false.  An overlay lists errors of one
  source, each with the value that source has, so two such entries would contradict
  each other; the overlay in `seed/corrections/` names no attribute twice.  `ASSUME
  NoReversal` in `MCMeiNormalizer` shows TLC's lists to be such lists, chained
  corrections included.  `MadeInv`: once the overlay has been through, no correction
  but a gestural one finds the value it expects (`Quiet`), and the passes, which keep
  the print, leave it so; in later rounds each of them objects.
- What a recursive function makes of a list is described by its partial results
  (`Walks`, `Parts`, `Ties`, `Sections`, `Splits`, `Overlays`).  That these exist up to
  the end of the list is shown by taking the least place where they would not
  (`LeastNat`, `Climb`).

`UploadProofs`, second part: `CorpusIngestion`, for any number of contents, uploads
in flight and retries.

- `TypeCorrect`.  Not inductive alone: tasks write to a row and read an MEI that
  must be there.  `TypeInv` adds that whatever is in the runner follows a commit.
- `FilesAgree`: the locks exclude, and what an upload has stored so far is still
  what is stored (`FilesInv`).
- `FlagIsTruthful` and `GivenKeysStay`, for any number of workers.  `StepInv`:
  unless `crossed`, all harmonies on their way are of the newest upload, so is
  the stored MEI while there are any, and so is whatever a worker has read.
  `Flow` is the lemma behind it: nothing but a commit adds to the harmonies on
  their way.
- `PendingIsExplained`: harmonies on their way stay there, are stored or are
  lost (`Accounted`).
- `IncipitsAreFresh`, which assumes one worker for the reason given above.

`AccountsProofs`, for any number of people, addresses, roles, fragments, reports
and requests.

- `TypeCorrect`, and `NothingIsOwnerless`, which is inductive with it: a request
  writes nothing for an account that has no row, and an account goes only when
  nothing that was not moved points at it.
- `RecordIsKept` needs `RecordInv`: a fragment has one creator (`OneCreator`);
  what a deletion has moved is what its account still holds and finds its place
  with the system user free (`MovesFit`); two deletions under way have moved
  different things to different places (`MovesApart`).  Without the last two,
  reviews of one fragment by two deleted accounts would become one.
- `LastAdminIsKept`: only a revocation or a deletion takes a grant away, and a
  revoker cannot name their own admin role; so a revoker who takes the last one
  had none any more, though the roles of the request say so.

`BrowserSessionProofs`, for any number of tabs, users, tokens, round trips and
calls in flight.

- `TypeCorrect`.  `TypeInv` adds that a session is the number of an issued token
  and that an answer of 200 carries one, which is what makes a page that receives
  it an authenticated one.
- `SessionIsKept`.  `CarriedInv`: the token a call brings back is live or its
  session has ended; it is in no cookie, presented by no other call and carried by
  no other.  So nothing but its answer can put it into the jar, and nobody spends
  it before.  `CalmInv`: while calls follow one another there is at most one in
  flight, and it is on track (`OnTrack`): a call that was sent presents the cookie
  of the jar, one that was granted carries a token of the session that is due, and
  while a 401 or a 503 is on its way the jar is as it was.  When it ends the jar
  follows the session that is due (`Follows`), or is empty and `turned` says that a
  401 has cleared a good cookie.  A 401 is possible for every cookie here: what is
  proved is that, this loss apart, no failure takes the session away, and that the
  jar at rest never holds a token of another session than the one that is due.

`ConceptBrowsingProofs`, for any editions of the files, runs and requests.

- `CacheFreshness`, `PagesTranslated` and `SearchWidened` rest on `BrowseInv`: what
  a request at each of its steps holds, relative to graph and rows, unless it was
  overtaken (`late`); and what the cache holds while it is cleared.
- `PagesTranslated` rests on the handlers' lists: every place in which the queries of
  a page name a node is in the list of its handler (`Listed`; `SearchListed`,
  `RowsListed`, `DetailListed`, `SchemasListed`, from what the queries return), and only
  therefore nothing is left untranslated (`NothingUntranslated`).  Take an entry out
  of a list and the lemma of its page fails.
- `TypeCorrect` needs the programs of the seeder.  From the lists in the files
  follow, part by part, the facts about a run's list of statements: nodes come
  before what hangs on them (`Ready`, `Backed`), rows name nodes (`RowsBacked`), the
  last statement is a commit.  `SeedInv` says what graph and rows are after each
  statement of such a program, wherever runs before it failed.
- `FilesArrival` adds `ArriveInv`: a run of all files has written what its
  statements so far say.  Its hypotheses, `FilesAgree` and `EndsDeclared`, say
  that the files contradict themselves nowhere and declare the ends of their
  edges; the `ASSUME FilesInOrder` of `MCConceptBrowsing` shows TLC's editions to
  be such files.
- `OnlyLeftoversReported`, under the same hypotheses: each kind of report of the
  validation is traced back to the files or to a leftover.  Cycles need that
  `Reach`, a fold, is closed under its edges, which follows from counting the
  edges it has crossed.
- Folds and flattened lists are described by the sequence of their partial results
  (`Flattens`, `Leaves`, `Hops`); that the sequence exists up to the end of the list
  is shown by taking the least place where it would not (`LeastNat`, `Climb`).

`StoredRepairsProofs`, for any number of fragments, saves and runs and any score
with beat units down to the thirty-second.

- `RerunsAreIdle`, changes of meter included.  `TypeInv` says that rows are rows
  and come with their parents; `RestInv` that under a script that has settled
  nothing is left that it would write (`RestsIn`), and that such a script, if it
  runs again, has read what is there.  The clamp needs `ClampOnce` (what it has
  clamped lies within), the conversion that its results are whole beats.
- `PositionsStay`: for a movement that keeps its meter (`OneMeter`, as all but two
  of the corpus do; with a change it is false, see section 4).  `PlaceInv` has
  five parts.  `BeforeInv`: until the conversion succeeds rows are as the old tool
  left them, on thirds of the bar in 3/8, and nothing runs beside them but
  scripts.  `AfterInv`: then no row shows a third, so a second conversion finds
  none to convert; fragments are where they were tagged, stages too until the
  clamp.  `SnapshotInv`: a row whose id a script finds again is the row it read,
  and so is its parent, because a save gives stages new ids; a stage from before
  that no save replaced was read by whatever runs now.  `RecordInv`: the clamp
  measures with the meter of the score.  `TaggedInv`: each row has been tagged
  somewhere.

## 7. What is only model-checked, and what is not modelled

Only model-checked: `PreviewsSettle`, `CacheConverges` and `LeavesLoading`
(liveness under fairness is out of the prover's reach), and two properties of
`MeiNormalizer`.  `ComesToRest` bounds the rounds: all passes, that of the clefs
included, must be shown to undo nothing of what a round before has settled, and the
accidentals and ties to gain a bar with every round, an induction over rounds that
quantifies over scores.  `ClefsKeepMeaning` is about folds over the clef events of a staff, each
step of which splits and reorders the events of its layers; the run checks it for
staves whose copies of a clef do not precede it (`Late` in `MCMeiNormalizer`), and a
theorem would have to say for which staves at large.  That `InForce` is the meter timeline of
the code is compared, not proved.

Not modelled:

- in modelled components: prose and its translation overlay, dry runs of delete,
  concept-existence checks (they can only end a request: `Abort`), `update_draft`,
  which no route calls, `get_events` and other reads, parsing of the DCML table and
  the alignment warnings of the analysis task, unpacking and validation of an
  archive, profiles, the schema checks of the MEI validator, grace notes, tuplets
  and meter arithmetic, the order of search results and their cursor;
- the editorial renumbering of bars and the back-filling of harmony positions;
- `scripts/prepare_dcml_corpus.py`, which prepares a corpus offline;
- movement browsing, sitemap, reading history, moderation pages and the data
  export: single queries without state of their own;
- object storage and the HTTP layer, which add no behaviour to the calls modelled;
- the score viewer and the annotator: rendering and playback are out of a
  checker's reach, the annotator's modes are not (section 8).

## 8. Plan

1. Bar renumbering: the object is put before the rows are committed, as in
   `CorpusIngestion`.
2. The annotator: its modes, and the stage boundaries as a pure module.
3. `ClefsKeepMeaning` as a theorem, one step of `ReconcileClefs` at a time; then
   `ComesToRest` without the clefs.
4. `prepare_dcml_corpus.py`: what it leaves when it is interrupted and run again.
5. `CorpusIngestion` and `FragmentPreview` share a runner that each spells out;
   an abstract runner that both are shown to implement would state it once.

# Formal models of evidex-rag

evidex-rag answers questions over uploaded documents. Its API, worker and
maintenance processes share nothing but PostgreSQL and a directory of files:
there is no message broker, jobs are rows that consumers claim with
`FOR UPDATE SKIP LOCKED`, and the safety of the whole rests on compare-and-set
updates, on the order of transactions and on a reconciler that recovers what a
dead process left behind. Around that core are a tool-calling agent, a
retrieval service that reads a changing index in several statements, chunkers
and planners that are algorithms in their own right, a parser in a child
process, and two web pages whose requests are answered late. All of these are
modelled here. Paths below are relative to `src/`; `rag_kb/` stands for
`src/rag_kb/` and `web-chat/` for `apps/web-chat/src/`.

Contents: [Inventory](#inventory) · [Modules](#modules) ·
[From code to state and actions](#from-code-to-state-and-actions) ·
[Runs](#runs) · [Findings](#findings) · [Proofs](#proofs) ·
[Model-checked only](#model-checked-only) ·
[Not modelled](#not-modelled-and-why) · [Plan](#plan)

## Inventory

| Component | State | Operations | Hard behaviour | Correct when |
|---|---|---|---|---|
| Chat lane (`rag_kb/repositories/sqlalchemy_chat.py`, `scheduling/chat.py`, `answering/runner.py`, `services/chat_terminal.py`) | `chat_run` (status, attempt, heartbeat, next attempt, timing ledger), assistant message, citations | create, claim, load, complete, settle, heartbeat, reconcile | executors that outlive their lease, stops, crashes, lost acknowledgements, repeated settlements, batch reconciliation | answer, citations and status are of one attempt; one open turn per session; the ledger is complete; every turn is decided |
| Chat sessions and listings (`rag_kb/services/chat.py`, `apps/api/routers`) | sessions, runs, idempotency keys, keyset cursors | create a run, edit a scope, page through rows | repeats of one intent, two tabs of one session, rows that change under a cursor | one intent is one run with the history as it is at the commit; a reader sees every row that stayed |
| Indexing lane (`rag_kb/repositories/sqlalchemy_indexing.py`, `scheduling/indexing.py`, `indexing/pipeline.py`, `indexing/auto_qa.py`) | target (build status, serving status), job (status, attempt, heartbeat, continuation), derived rows with their manifests, asset files, vectors | claim, prepare, many derived-row writes, complete, promote, fail, settle, release, heartbeat, yield, retry, reconcile; batches, splits and repairs of embeddings | two executors of a job, versions that overtake each other, deletion during a build, a crash between finishing and promoting, retries that give two executors one token | one sound version served; searches only move forward; finished builds stay, whole and of one draft; nothing deleted returns; a vector is its unit's |
| Documents, versions, catalog (`rag_kb/repositories/sqlalchemy_content.py`, `services/content.py`) | bases, documents, versions, mutations (idempotency), source changes, vector spaces | create, rename and delete a base; reserve, activate, delete, compensate, fail pending | retries with one key, lost acknowledgements, deletion against activation | a key has one effect and every answer under it is that one |
| Source files and janitor (`rag_kb/services/files.py`, `adapters/file_store/local.py`) | staging and final directories, clean-up tasks | stage, finalize, activate; the janitor's pass | crashes between file and row, a pass that works on a snapshot | a live version has its file; nothing leaks for ever |
| Document processing (`document_processing/`, `adapters/parser/docling`) | the child process and its pipe, checkpoints of PDF segments, threads of cancelled calls | probe, convert, keep, resume; structural and semantic chunking, the plan of the cuts | late threads, a dead child, a checkpoint of an earlier slice; segment, page and section boundaries | an indexed document is its own segments in their places; chunks keep the text; a plan is the best there is |
| Worker process (`apps/worker/main.py`) | background tasks, stop flag, heartbeat file, exit code | start, supervise, drain, gather, close | one task failing while a signal arrives | all stop together, nothing is closed under a task that runs |
| Graph build (`repositories/sqlalchemy_graph.py`, `graph/service.py`, `adapters/graphiti`) | configuration, builds with their frozen input, episode mapping, leases with owner, token and expiry, one external graph per build | configure, retry, invalidate, claim, probe, ingest, map, finalize, fail, recycle, reconcile | leases expiring under a writer, an input that changes during the build, external writes before the rows | one build at a time, a whole and current one is published, its graph stays; every build is decided |
| Retrieval (`retrieval/`) | none of its own: it reads in several statements | lanes, generated questions, hydration, wider reads, graph search, chunk context; fusion, diversity, model order, paths, packing | the index changes between two statements; ties, empty lanes, limits | an answer was served, an exact one at one moment; ranks and packs are those of the definition |
| Agent loop (`rag_kb/answering/agent.py`, `runner.py`) | history, evidence pool, provided keys, fuses, images | model round, tool calls, absorb, compact, finish | fuses at their limit, bases that answer nothing, compaction of what a search counts as shown | withheld evidence is visible, citations were shown, rounds are bounded |
| Previews and delivery (`adapters/chat_preview/pg_notify.py`, `services/chat_delivery.py`, `services/chat_progress.py`, `answering/activity.py`) | recorder, worker's queue, notifications, bounded subscriptions, event stream | record, publish, listen, stream, merge | lost and late notifications, slow readers, an attempt that lost its lease and goes on reporting | the timeline never goes back and says when it may miss something |
| Model settings and secrets (`rag_kb/services/model_settings.py`, `services/secrets.py`, `repositories/sqlalchemy_model_settings.py`) | providers, profiles, their revisions, selection, key files | save, validate, select, disable, sweep | crash between file and row, edits between a check and a commit, a janitor with old references | a key that was answered for stays; a run's revision stands |
| Web client (`web-chat/App.tsx`, `KnowledgeBaseManagementPage.tsx`, `execution/activityState.ts`) | the chat page and the management page | choose, ask, follow, page back; upload, replace, delete, search | late answers, dropped streams, reloads that overtake writes | what is shown is of the view; what was acknowledged shows |
| Evaluation tool (`tools/evaluate_agent_complex_qa.py`, `agent_complex_qa_judge.py`) | checkpoint, judgement cache, report | ask, judge, arbitrate, rescore | processes that stop anywhere, files of earlier ones | a result is of its own case and answer |
| Maintenance (`services/maintenance.py`, `cleanup_retired`) | retired targets, their rows and files | retention clean-up | executors of a retired target | nothing of a served build is removed |
| Unit of work | one transaction | commit, roll back, lost acknowledgement | an exception after the commit | see `Catalog`, `ModelSettings`; elsewhere one transaction is one action |
| Admission limits, schemas, settings, logging, migrations, corpus builder | – | – | – | not modelled: see below |

The lanes interact through rows only. The API creates runs and activates
versions (each with its target and job); one worker process runs a consumer
per lane, a reconciler that calls `reconcile_once` of every lane at start and
every 30 s, and the janitor. The documentation
(`docs/architecture.md` 755-806) supports a single worker; a worker that is
restarted, suspended or cut off from the database still leaves an executor
that believes in its lease, so the models have several.

## Modules

| Module | Models | Composed in | Theorems in |
|---|---|---|---|
| `ChatTurns` | what a reader of a conversation is promised: a question becomes pending, then an answer or a failure, never torn, one pending per session | instance of `ChatRuns` | `ChatRunsProofs` |
| `ChatRuns` | the chat lane; implements `ChatTurns` | `MCChatRuns` | `ChatRunsProofs` |
| `AgentLoop` | what one execution of a run does: rounds, tools, evidence, fuses | `MCChatRuns` | `AgentLoopProofs` |
| `ChatAdmission` (extends `ModelSettings`) | `create_run` statement by statement, with several requests in flight | `MCChatAdmission` | `ChatRunsProofs` |
| `ModelSettings` | providers, profiles, revisions, selection, key files and their janitor | `MCChatAdmission` | `ChatRunsProofs` |
| `ChatStream` | the live progress of a run from its attempts to the page | `MCChatAdmission` | `AgentLoopProofs` |
| `SearchIndex` | what a search is promised about one document | instance of `IndexingJobs` | `IndexingJobsProofs` |
| `IndexingJobs` | the indexing lane of one document with all its versions; implements `SearchIndex` | `MCVersions`, `MCWorkers` | `IndexingJobsProofs` |
| `IndexArtifacts` | rows, manifests and files that the attempts of one build write | `MCVersions` | `BuildProofs` |
| `Representations` | vectors and generated questions of a build | `MCEvidence` | `SearchesProofs` |
| `Catalog` | knowledge bases, their idempotency keys and vector spaces | `MCVersions` | `IndexingJobsProofs` |
| `Listings` | keyset pagination over rows that change | `MCVersions` | `IndexingJobsProofs` |
| `WorkerProcess` | the worker around its lanes | `MCWorkers` | `BuildProofs` |
| `SourceFiles` | uploads, deletions and the janitor, over two directories and the rows that refer to them | `MCStorage` | `SourceFilesProofs` |
| `ParserCheckpoints` | the parser, its child process and its checkpoints | `MCStorage` | `BuildProofs` |
| `GraphBuilds` | the graph of a knowledge base: configuration, generations, leases, workers, external graphs, and the chunks that change under them | `MCGraphBuilds` | `GraphBuildsProofs` |
| `Searches` | every statement of every search against an index that changes between them | `MCEvidence` | `SearchesProofs` |
| `Ranking`, `GraphPaths`, `EvidenceFlow` | fusion, diversity, model order, context, paths, validation and packing as functions, and the order they are applied in | `MCEvidenceFlow`, `MCEvidence` | |
| `ChunkText`, `StructuralChunks`, `SemanticChunks`, `ChunkFlow` | both chunkers with tables, the plan of the cuts, and a document on its way through them | `MCChunks`, `MCEvidence` | |
| `Evaluations` | the evaluation tool | `MCEvidence` | `AgentLoopProofs` |
| `ChatClient` | the chat page of the web client | `MCChatClient` | `ManagementPageProofs` |
| `ManagementPage` | the management page of the web client | `MCChatClient` | `ManagementPageProofs` |

Each `MC` module gives the constants their values. Where it checks several
models that share no state, a variable `part` says which of them a behaviour is
about; the others stay in one initial state. Modules that only TLC uses may
declare recursive operators (`ChunkText`'s and `GraphPaths`' families do); those
with theorems reach none. Operators marked `\* mutant` are plausible bugs of the
operator that follows them and are used by no other definition.

## From code to state and actions

* A database action is one transaction (`execute_in_transaction` opens, commits
  or rolls back one unit of work). Where the code uses two transactions the
  model has two actions; where a transaction's statements matter one by one
  (`ChatAdmission`, `Catalog`, `ModelSettings`, `Searches`) each statement, or
  the part up to the next lock, is an action; a raise inside one is a disjunct
  that changes no row.
* Time is abstracted to the comparisons made with it. `heartbeat_at` is
  `"none"`, `"fresh"` or `"stale"` (older than the limit of the reconciler),
  `next_attempt_at` is `"now"` or `"later"`. `HeartbeatAges` and
  `BackoffElapses` let time pass at any moment, so a heartbeat may age while
  its executor is alive: late executors are the normal case of the models.
* The executor of a lane is a record per worker: its place in the pipeline,
  its lease (row and attempt) and the class of the error it is about to
  settle. A crash forgets it; the rows stay.

`ChatRuns`: `CreateRun` is `ChatService.create_run`; `ClaimRun` is `claim_run`
(any claimable row: `SKIP LOCKED`); `LoadExecutionContext`, `Generate` and
`PersistResult` are `NativeAgentRunner.execute` with the transaction
`complete_owned_run`; `Settle` is the failure settlement of
`ChatRunScheduler.execute`, with the repetition in its `CancelledError`
handler; `HeartbeatRun`, `Stop`, `Crash`, `ReconcileStaleRuns` as named. The
assistant message carries the attempt that wrote its text and its citations,
which is what tells a torn answer from a whole one.

`AgentLoop`: `BeginRound` is the head of the loop of `run` (fuses, compaction
of the older rounds, which tools are offered), `Respond` a response of the model
with its tool calls or its final answer, `FinishRound` the gathered calls, which
may fail one by one, with everything they do to the pool, the history, the
images and the fuses (`Absorb`), `Deadline` the end of its time. `history` is the
list of rounds as the model is sent them, `sent` what later searches withhold as
`already_provided`, `evidence` the pool. A chunk stands for its ref; the replies
of one base in a round are one reply because the round is absorbed as a whole.
The counters of the fuses are those of the code; `seen` is what the properties
remember.

`ChatAdmission`: `LockKey` to `InsertRun` are the statements of `create_run`: the
advisory lock of the key with the replay from an earlier run, the session row
`FOR UPDATE` with the look for an open run, the scope, the model revision (the
one the question asks for, else the selected one, else the configuration of the
process where `AllowLegacy` permits it, which the API does not), the history within its token budget, the insert. A lock is held
from the step that takes it to the end of the transaction, so it is read off the
requests' own steps. `ModelSettings` beneath it has providers and profiles with
immutable revisions; a validation leaves the database while it asks the provider;
a key file is written before its row and removed by a janitor that lists the
references first, the files later, and deletes later still.

`ChatStream`: `record` is the recorder of each attempt, `sink` the worker's
bounded queue, `wire` what is late and the subscription with its limit, `page`
the merged timeline. Events are numbered by their attempt; a dropped or late one
leaves a gap that the page must not hide. A poll that finds another status runs
the page's effect again and opens a stream without a word to the timeline
(`StatusChanges`).

`IndexingJobs`: `Reserve`, `ActivateVersion`, `SoftDelete`,
`DeleteKnowledgeBase`, `CompensateMissingFile`, `RetryFailed` are the content
operations with everything they do to targets and jobs; `Claim`, `Prepare`,
`Build`, `Complete`, `Promote`, `Fail` are the pipeline, each a transaction
(`Build` stands for the many compare-and-set writes of derived rows, with the
continuation that yields the lane after a page segment); `Settle` and
`Release` are the scheduler after the pipeline; `ReconcileStale` the
reconciler. The order of `source_change_seq` and `current_version_id` decide
in `Obsolete` which finished build may still be served.

`IndexArtifacts` looks inside `Build`: an attempt discards what the target has,
writes its draft (chunks, assets, relations, questions, lexical rows) in a chain
of transactions that compare the job's token, and of file operations that
compare nothing; `Complete` checks the manifests. A draft is what one run of
parsers and models came up with, so that two attempts may differ in text, keys
or images. `cleanup_retired` is here too.

`Representations` is one executor alone: batches of texts and images, a refused
batch cut in half and asked again, windows pooled into a vector, questions
asked, verified and repaired. A vector is the sequence of the windows pooled
into it, a window a triple of what, unit and number: so a vector says whose it is.

`Catalog`: a call takes the advisory lock of its key, answers from the record if
there is one, selects models, takes the foundation lock, finds or makes the
vector spaces and commits base, space and record together; the acknowledgement
may be lost, after which the call may be sent again. `Listings`: a listing is the
sorts it offers, whether its rows can vanish with what holds them, and how its
sort values may change; the reader asks for what follows the last row it saw.

`WorkerProcess`: all tasks share one event loop, so that a step is what runs
between two awaits: `serve` from its start to the exit code, with the supervisor
that gathers the tasks after the first has ended.

`SourceFiles`: `Stage`, `Reserve`, `Discard`, `Finalize`, `Activate` are the
steps of `SourceFileService.store_and_activate`, `Abandon` its cancellation or
crash, `SoftDelete` the deletion of a document or of its knowledge base, which
may come again and then cleans up what was uploaded since; `CleanupExpires` is
maintenance, after which a version can be scheduled for clean-up anew. Everything from `LoadPass` to `FinishPass` is
`FileReconciliationService.run_once`, one action per file operation or
transaction, whose local variables (`pending`, `references`, `tasks`,
`keepStaging`, `keepFinal`, `listed`) are variables of the model because they
are stale when used. Ages matter only against the grace period: files are
`"fresh"` or `"old"`, reservations in `recent` or not; `GracePeriodPasses` acts
between passes, since a pass compares everything with the time at which it
started, and not during a request of that upload (the grace period is 300 s by
default). The constant `Faults` says which file operations may raise and
whether a final file may be lost or damaged. `Documents` and `Keys` partition
the uploads; an upload stands for the content, so that its file's identity is
its own. Storage identities are always valid, a request with another hash under
the same key is one whose `Reserve` raises, and the rows of indexing are left
to `IndexingJobs`.

`ParserCheckpoints`: one call of the worker at a time asks the child for one
segment of pages and keeps it; the work on the directory (`folder`) is done by
threads which a cancelled call leaves running (`late`), and the pipe of a child
that was left may hold an answer nobody waits for. A lease slice converts one
segment and hands the job on.

`GraphBuilds`: `Configure`, `Disable`, `RetryInPlace`, `RetryRotates` are the
branches of `configure` and `retry`; `Rotate` is what they, promotion and
finalization share (`_ensure_graphiti_build`). `Claim`, `ClaimRetires` and
`ClaimRefuses` are the branches of `next_work_item`; `Preflight` to `Release`
are the steps of `process_work_item`, with the calls of the external graph as
actions of their own and `add_episodes_bulk` in its order: ask for completed
episodes, remove and save each of the others, extract, mark. A build's frozen
input is the set of chunks itself, which is what revision and digest stand for;
other profiles or extractors are the parameter of `Configure` and the field
`current`. A lease token is never issued twice and a worker has one work item at
a time, so worker and build identify it. `DeleteGraph` is one deletion of
`_recycle_graphiti_graphs`, any time after the commit, or never. The graph's
validation (self-loops, untyped edges) is one more way for a call to raise, and
the cache of a passed probe is left out. Exclusion, promotion, deletion and
purging of chunks are the operations of the other components with what they do
to the graph's rows: promotion rotates in its transaction, a purge cascades to
mappings and leases, the rest does nothing.

`Searches`: each statement of a search is a step; `Replace`, `ExcludeChunk`,
`DeleteKnowledgeBase` may come between any two. `moments` remembers what was
served at any time while the search ran. The orders of the lanes are constants: distances and
scores only decide which chunks come first. `Ranking`, `GraphPaths` and
`EvidenceFlow` are the functions that turn rows into evidence, in the order the
service applies them, `EvidenceFlow`'s properties comparing each with a
definition that says what it should choose. A reranker that is missing, fails or
breaks its contract ends the search of paths (`"unavailable"`).

`ChunkText`, `StructuralChunks`, `SemanticChunks`: a document is a sequence of
items (kind, sizes of rows or sentences, page, container), a text a sequence of
slices of items, so that a token is known by where it comes from. The planner's
dynamic program is compared with the best of all legal ways to cut. A semantic
plan is refused with too many units or tokens (`MaxUnits`, `MaxUnitTokens`), or
when an assembled chunk is over the limit; headings that end a document are
packed without being repeated.

`ChatClient` and `ManagementPage`: a page is a record, and a response with the
renderings and effects it causes is one function of it. A request is two steps,
handled by the server and answered later; instead of the number of its
generation it carries whether that generation still lasts, which is all that the
pages compare.

`Evaluations`: a process asks each case, keeps a checkpoint after each, has the
answers judged by a blind pair and an arbiter through a cache on disk, and
writes a report; it may stop anywhere, and a later one asks again or rescores.

## Runs

| Run | Instance | Shows |
|---|---|---|
| `chat_lane` | lane: two runs, sessions, workers and attempts. agent: two bases with three chunks (two of them a graph path, one an image), up to two calls a round, no base, the ready one or the other under the iterative strategy, the fuse at four tokens | the answer is of one attempt, stale executors write nothing, `ChatTurns` is implemented and every question is decided; withheld evidence stays visible, citations were shown, no base is shut out, the last rounds are bounded |
| `index_versions` | versions: two versions, one executor, one attempt, one segment yield. artifacts: two executors, three drafts, two attempts and a manual retry. catalog: two calls, two keys, two bases, two text revisions of one fingerprint. listings: three rows, two sort values, pages of one row, two events | one sound version is served and `SearchIndex` implemented; a finished build is of one draft; a key makes one base; readers see every row that stayed |
| `index_workers` | jobs: one version, two executors, two attempts, one segment yield. process: two consumers with janitor, reconciler and heartbeat | late executors restore nothing and tear down nothing; a finished build is promoted or retired; the worker ends as a whole |
| `files_janitor` | files: the upload that creates a document, by two concurrent requests, and one of a document with earlier versions, which may be deleted before, during and after it; lost files, clean-ups that raise, two attempts of a clean-up. parser: a document of three segments and one of one, takes of two sizes and a budget of four, two attempts, three mishaps | what is decided stands, no pass removes a committed file, uploads are decided, nothing leaks; an indexed document is its own segments, and every document is decided |
| `graph_builds` | one worker with two chunks in one batch, or one chunk and one that may come; or two workers and one chunk; two builds, two events | what is published is whole; one worker keeps the served graph; late workers change no row; an undisturbed build is decided |
| `chat_admission` | questions: four intents under three keys in one session at two connections, one of them for a given model revision, scopes and weights that differ, edits of the settings by two admins with two key files. progress: two attempts of one run, three events, queues of one and two | an intent is one run, with the history at its commit; an answered key survives; the timeline is faithful |
| `chat_client` | chat: two sessions, pages of two turns, one question, two clicks, one failure, two requests in flight. management: two bases, two documents, three acts, two requests in flight | the pages show what they say they show; acknowledged writes show; a followed run's answer is shown |
| `evidence` | search: seven chunks of two versions and a fixed document, every strategy. flow: eight chunks, every hit list of a small index, graphs of five edges. chunks: documents of up to three items from eleven on one or two pages; plans of five or six units. vectors: eight builds of up to three units. evaluation: two cases, two answers, two views, two processes | answers were served; evidence, chunks and plans are what their definitions say (`ChunksKeepTheDocument`, `PlansAreBest`); vectors are their own; a report is faithful |
| `evidence_unscored`, `chunk_headings`, `graph_late_writes`, `page_jumps` | as above | see Findings |

Bounds. Two attempts are needed for "not the last" and "the last"; two
executors for a late one and its successor; two runs of one session for the
open-turn rule; two versions for one overtaking the other. A third worker or
version adds no new comparison: every guard compares a lease with one row, or
one version with the newest. The theorems remove the bounds where they are
proved. For the janitor one upload is enough where a property is about one
file: once with two requests, so that one is late, and once of a document that
exists, so that its deletion can come before the upload and again during it.
Several versions of a document and bundles are left to the theorems. A clean-up attempt limit of two has
one attempt that is not the last. Two builds are one served and one being built,
or one retired and its successor, two chunks a batch of which one can be
rejected; an event of `GraphBuilds` is a change of the content, a crash, a stall
or a deployment. Three segments are a first, a resumed and a last one; three
mishaps let a late thread of one slice meet the next two. Three intents under
two keys of one session already have a repeat, a rival and a changed body; the
fourth has another weight against the token budget. The agent needs two bases
for one to starve the other and an image of the other base to compete for the
image budget; its token fuse of four is reached after any mix of rounds. Pages
of one row and of two turns put every row at a page's end. The inputs of the
pure functions are all lists over an alphabet in which each branch of the code
has a member: a text longer than a chunk, a table whose row is, headings
of one part and of more, pictures and captions between page turns, a record
projected on its own; documents that meet the limits of eight units and 24
tokens and some that exceed them; parallel edges, a loop and a chunk
shared by two edges.
`CHECK_DEADLOCK FALSE` is used where a system all of whose rows are terminal
really stops, or a page has nothing left to do.

Fairness. Consumers poll for ever (`consume_lane`), the reconciler loops
(`reconcile_lanes`), the pipeline has a hard deadline, and time passes; these
are weak fairness. Strong fairness is assumed where a row competes with others:
claims are ordered by due time and reconciliation by heartbeat, so none is
passed over for ever; and of infinitely many attempts to promote a finished
build, one is neither cut off by a crash nor by a failing database. Nothing is
assumed of crashes, stops, heartbeats or settlements: all of them may be lost
every time. The janitor is weakly fair as a whole (the worker starts a pass
every 30 s) and a request ends; the ageing of an upload is strongly fair since
passes and requests interrupt it. Its liveness properties state their own
hypotheses: that passes are not interrupted for ever (`CrashesCease`), and,
where a client could otherwise re-stage and abandon its file for ever, that
uploads cease. A graph worker is weakly fair in its steps and claims: the
indexing consumer claims graph work whenever no document is due, so what is
assumed is that documents do not come for ever. A model call may raise every
time, which decides the build too. The parser's worker and its child are weakly
fair; late threads are not, they may hang. On the chat page the server handles
and answers what it is sent, a run is decided (which is `EveryTurnIsDecided`) and
the poll and reconnection timers fire (`ClientFairness`); the user and the
failures are under no fairness.

## Findings

Four runs show a disagreement between the code and what the repository says of
it; each is in `PROJECT.json` with the line it quotes.

* `evidence_unscored`: with more paths than the reranker takes documents, those
  that were not scored make the service raise (`retrieval/service.py:966`),
  where the architecture document says that unscored paths are kept.
* `chunk_headings`: a page turn followed by a heading or a table flushes twice,
  so that a heading that waits for its content becomes a chunk of its own
  (`docling/structural.py:85`).
* `graph_late_writes`: of two workers, one of which stalls for the lease time,
  the late one removes and ingests again an episode that the other has mapped
  and published (`graphiti/client.py:508`): leases fence the rows, not the
  external graph.
* `page_jumps`: the acknowledgement of a description saved for one base
  replaces the selection the user has moved to (`App.tsx:1201`).

What follows was met while modelling and is registered as no run, mostly
because no document says otherwise.

Indexing. `prepare` looks at neither the job's status nor its heartbeat: an
executor whose attempt the reconciler has ended turns the job, even one that has
failed, back to running, with a null `heartbeat_at`; if the worker then dies,
neither the reconciler (`heartbeat_at <= stale_before`) nor the manual retry
(failed jobs only) reaches it. The failure of an attempt is recorded in one
transaction and settled in a second one; a deletion between them retires the
target and does not cancel the failed job, which the settlement then queues for
ever, and `cleanup_retired` never removes it. An executor that dies between the
two leaves the job failed although it could be retried. `fail` accepts a queued
job of the same attempt. The manual retry starts `attempt` at zero again, so
that two executors may hold one token; a late one that is at its lexical rows
can then seal and complete the build with lexical rows of its own draft beside
the other's chunks, since `complete` asks of them only that a manifest exists
(`sqlalchemy_indexing.py:1869`, `:2002`): hence `ReadyBuildsAreWhole` speaks of
lexical rows only where no manual retry happened. A late executor's discard
removes asset files of the current or the completed build (`pipeline.py:300`);
asset files of cancelled builds that have no rows stay; `cleanup_retired` leaves
the lexical manifest. Compensating the lost file of an old version records a
source change later than the newest version's, whose promotion then retires it.

Files. A final file whose inspection raised once is in no set of references; the
same pass sweeps it, and the next one fails the upload. Deleting a deleted
document again schedules the clean-up of a version that is being uploaded,
which is then published and loses its file. `activate_reserved_version` looks a
key up at the create-document endpoint first, so that a create-version request
with the same key answers with success and publishes nothing. With
`BatchSize = 1` and two uploads the sweep deletes the old files of pending
mutations beyond the batch; a Markdown bundle may reuse an old staged file,
commit after the snapshot of a pass and be swept by it. `CommittedFilesSurvive`
names the four of these that cost a published version its file (`LeftOut`,
`GivenUp`, `Doomed`, `StagedBefore`) and says that there is no fifth. What the
code does not have is stated in `SourceFiles` without a run:
`RestartRecoversPending` (it fails where file operations raise or the batch is
too small) and `UploadsArePublished` (where a key is shared). A pass also stops at a replay whose knowledge base was
deleted, since `_document_result_from_mutation` raises what the pass does not
catch; the next pass goes on.

Parser. Threads of a cancelled call keep writing: they can set a manifest back
(harmless: the segments are converted again) or poison a checkpoint whose digest
then never matches; the fixed temporary name `.name.tmp` is shared by writers; a
cancellation after a lost lease discards the checkpoint, while checkpoints of
failed versions are never removed; `_publish_progress` swallows the
cancellation its callback raises; a decoding failure resets the child outside
the request lock; a conversion has no deadline.

Graph. A batch of two chunks is ingested, one is excluded and the mapping of the
batch is rolled back; the other chunk is mapped later. No chunk is missing, the
ready probe passes, but the mapping has fewer than expected and
`finalize_graphiti_if_complete` returns before it compares the inputs: the
worker claims the same finalization for ever, and a plain retry answers with the
building configuration. A retired external graph stays for ever if its one
deletion raises, or if promotion retired its build.

Settings and catalog. Two concurrent validations can turn a valid revision
invalid (`ValidRevisionsStand` in `ModelSettings` does not hold); `update_profile`
with another provider does not change the row's `provider_id`; two updates of a
provider can lose one; a lost commit acknowledgement deletes a key that is
referenced; the janitor's batch, sorted by name, can starve orphans. Two profile
revisions with one compatibility fingerprint conflict in
`_find_or_create_embedding`, so that the second can never found a base; of a
create and a rename that race for one name both pass the check, and the loser
gets the unique index's error as a 500. The duplicate branch of the foundation
is unreachable under the scope lock.

Chat page. A scope edited while a restore is in flight leaves the run untracked
(`App.tsx:579`); sessions of more than 50 messages show their oldest page after a
reload; a list of sessions that is answered while one is being created is
discarded with `sessionsLoading` still true, and one answered during a first
submit replaces session and scope, so that the run is created, not followed, and
can be asked twice; a failed first load of messages shows the welcome page;
changing a mode after a lost reply gives the key up.

Management page. "Load more chunks" closes over the first page and never adds
one; the search button stays busy after a base switch during a search, the
upload button after an update of one document while another is inspected, the
chunk preview after it is closed while it loads; a quiet graph poll outdates a
manual refresh, whose indicator stays; a create or a description answered while
a deletion is in flight leaves the deleted base in the list; a write answered
after the user went to another base and back is not reloaded; polling stops
after one failed load of jobs; an inspection cursor does not name its target, so
that pages of two versions can be mixed.

Generated questions and evaluation. One invalid verifier answer fails the whole
build, unlike an invalid question answer, which is repaired; an optional image in
a batch with a required one fails the build, while optional-only batches are
skipped; `_lexical_rows` ignores the questions it is given. In the evaluation
tool an answer that completes after the client's timeout is reported failed (the
run goes on); a preflight checkpoint cannot be rescored; a judge error loses all
judgements but those in the cache and writes no report.

Chunking, worker, stream. Trailing regions of pictures only lose their
references; the planner's tie-break alternates its sign; a chunk's hierarchy is
emptied when sibling headings run together. A task that ended by cancellation at
the moment of a signal is not counted as a failure. Trimming in the recorder
leaves the page with more steps than the snapshot until the stored record
replaces it.

## Proofs

All theorems are about the specifications with the constants left open, under
the named assumptions of the modules (`ChatConstants`, `IndexConstants`, ...),
which say no more than that budgets are numbers, that a "no value" is not a
value, and that maps have their domains. Each inductive invariant was first
checked by TLC on the instance of its run.

`ChatRunsProofs` proves, for every number of runs, sessions, workers,
attempts and batch sizes, the type invariant, all safety invariants and action
properties of the chat lane, and that it implements `ChatTurns`. The inductive
invariant `ChatInv` joins three parts: per row (`RowInv`: status, attempt,
heartbeat, ledger, message and citations of one run fit together), per session
(one open turn, and runs in `asked` exist), and per lease (no two executors hold
the same attempt of a run, none is ahead of the row). None is inductive alone:
that a settlement finds its ledger slot free needs the row part, that a late
executor cannot write needs that its attempt is another than the owner's. The
action properties and the refinement follow from the invariant before a step.

The same module proves, of `ChatAdmission` and `ModelSettings`, for any requests,
connections, sessions, keys and admins, `AnsweredKeysSurvive`,
`RetriesAreOneTurn` and `ContextIsWhole`. `QuestionsInv` says what a lock is worth:
who holds a key or a session holds it alone (`KeysAreExclusive`,
`TurnsAreExclusive`), what it read under the lock is still so (`HoldersAreFirst`,
`HoldersAreAlone`, `ContextsAreCurrent`). `KeysInv` follows a key file: a file in
a request's hands is fresh and not yet answered for; what the janitor has doomed
is past its grace and was referenced by nobody when it looked; and these two
sets cannot come to meet, which is why an order of "references first, files
later" is enough without any lock.

`IndexingJobsProofs` proves, from `IndexConstants`, every invariant and action
property that the indexing runs check of the lane, and that it implements
`SearchIndex`. The invariant `IndexInv` adds to the types what holds between
the rows of a version (`Rows`): target and job exist together; a candidate or
served target has its source file, in a live document; a finished build has a
finished job; the job of a retired target does not run. The third is why a
promotion cannot serve a version whose file is lost (it compares only sequence
numbers), the last why a reconciliation, which looks at no target, cannot tear
down the build of one that was retired. `Leases` says that a consumer's job
exists. `Guarantee` then gives `Late`, `Frozen` and the abstract step of every
concrete one; only `ActivateVersion`, the three withdrawals and `Promote` are
not stuttering. Of `Catalog` it proves that one key makes one base
(`KeysAreAnsweredOnce`): whoever works on a key has it alone and finds it
unrecorded (`KeysAreLocked`), and one create at a time is between its look at
the vector spaces and its write (`SpacesAreLocked`). Of `Listings`, for any
rows, sort values and page limit, `ListingsAreFaithful`: what a reader has seen
is in order and ends at its cursor, and a row that stays is seen or still behind
the cursor (`ListInv`), because rows keep their places; that the last page, which
is as long as there are rows behind the cursor, has all of them is the
pigeonhole principle for injections (`LastPageHasAll`).

`SourceFilesProofs` proves, from `FileConstants`, the types, `OutcomesAgree`
and `DecisionsStand`. The types alone are not inductive: that the attempts of a
clean-up stay in their bound needs that the rows a pass has still to try are
due (`Cleaning`) and that a row that can become due has attempts left
(`Trying`), which holds although deletions and the compensation schedule
clean-ups during the pass, because a second row is not inserted. `Looking` and
`Requesting` say that a pass or a request at work has a version. `RowSteps`
reduces the action property to the five transactions that write mutations and
versions. The parts of the invariant are about disjoint variables where
possible, so that each action is proved about the parts it disturbs and `Frame`
gives the others.

`CommittedFilesSurvive` is proved for any documents with any number of versions,
bundles, raising inspections and backlogs (`CommittedFilesHold`). It excepts only
the uploads in `neglected`, a history variable which the four actions above add
to, each at the step at which it happens: the code does not have the property
for these (see Findings). What has to be carried through a pass is that it acts
on rows it read at its start (`KeepInv`): a version that is gone stays gone, and
only those, or neglected ones, are cleaned up or listed; a final file older than
the pass is of a version that the pass's snapshot protects, has still to handle,
knows to be gone, or has neglected; and an upload that began since has a file too
young to be swept.

`GraphBuildsProofs` proves, from `GraphConstants`, for any chunks, workers,
batch size and number of builds and events, all that the graph runs check but liveness, and
`ServedGraphSurvives` as long as no two workers are at work at once. `GraphInv`
adds three parts to the types. `Pointers`: a configuration that is not disabled and a worker at work name an
existing build. `Generations`: builds are numbered without a gap, nothing is
mapped in one that does not exist yet, the one being filled is building or
failed and hence is not the active one, and the active one is READY and not newer. `Inputs` is
the heart of it: while a generation is filled, what is eligible, what is mapped
and what any worker has in its batch is part of the frozen input. It is
inductive because exclusion, deletion and purging only remove from what is
eligible, and promotion, the only action that adds to it, rotates in the same
transaction. From it `MatchingIsWhole` derives, for `Publish`, that an equal
*count* of mappings (all that `finalize_graphiti_if_complete` compares) means
equal *sets*, which is `ActiveBuildIsWhole`. Every action falls into one of three
lemmas: `RotateStep` (a new generation), `StatusStep` (statuses change),
`RowsStay` (the rows stay while workers or content move). `GenerationSteps` says
which actions publish, resume or map, and gives the action properties.

`LoneWorkersHold` needs more than `GraphInv`, because the external graph is not
written in the transactions that map it. `KeptInv` says that the chunks a worker
has yet to write are not mapped, those it has written are in the external graph,
and a generation that is served, open or resumable is not handed over to be
deleted and holds every chunk mapped of it. `LifeGoesOn` is why a deletion that
comes late deletes nothing that lives: what is retired stays so, and only a new
generation comes to life. The hypothesis is used once, in `LoneSteps`: the
episodes that a second worker removes may be mapped by the first, which is the
finding `graph_late_writes`.

`SearchesProofs` proves that an answer was served, for any index and any changes
of it between the statements of a search. `MomentsAreWhole` is what makes it
inductive: a moment that is past held every chunk of its versions except those
excluded meanwhile, so that what a later statement adds to a version was served
then too; `ReadsAgree` says that the three reads of an exact search, which
compare versions and not times, saw one moment. Of `Representations` it proves
`VectorsAreOwn`: `VectorsAreTheirOwn` for every source of a build and all sizes of
batches, whatever is refused, cut or answered in parts. A provider's answer says
whose a vector is only by its place, so the inductive invariant
(`RepresentationInv`) keeps places: what was answered and what is still asked for,
joined, are the windows of the batch in its order (`Answering`); where nothing may
be left out, the rows, the batch and the rest, joined, are the whole list
(`Placed`, for the analysis and the questions); a row's vector pools its own windows
(`AnswersTo`). None is enough alone: that a batch which is done takes its own
windows needs `Answering`, and that the questions, whose rows are cut out of one
list again, get theirs needs `Placed`. It rests on lemmas about lists that are
joined: a part lies where those before it end (`PartLies`), every element is one
of a part (`ElementHasPart`), slices and halves joined are the list
(`SlicesTogether`, `HalvedTogether`). The joined list is a fold, so they follow its
partial joins, by well-founded induction on their number (`LeastOf`).

`AgentLoopProofs` proves the four properties of the agent, for any chunks, bases,
calls, usages and budgets and whatever the model answers. `HistoryCarriesSent`:
`sent` is the disjoint union of the rounds that are still sent in full, which
compaction keeps by taking a round's refs out of `sent` with its content.
`StaleWereAsked`: the rounds a base is counted stale for were rounds it answered
in. `FuseCounts` and `CloseCounts` weigh the rounds after a fuse with the stalls
and the one calculation left; `RoundsWereFew` is their bound. Of `Evaluations` it
proves `ReportIsFaithful`: results match the cases asked, the views under way are
those of the next one, and a file that is there came from the same benchmark.
Of `ChatStream` it proves `TimelineIsFaithful`, for any steps, stages, attempts and
limits. The recorder numbers a step after all it has numbered before, and can
update only a step it still keeps, and it keeps the newest (`RecordOK`,
`Recording`); so what is queued and on its way is genuine and in order, no step
twice (`QueuesOK`, `FlownOK`, `OrderOK`, `OnceOK`); a timeline that does not
call itself incomplete shows recorded steps from the first on (`StepsOK`), and
whatever is still on its way to it is newer than what it shows (`AheadOK`).

`BuildProofs` proves three things about what runs a build. That a worker process
ends whole: once it gathers its tasks one of them did not return and the
answer is a failure (`GatheringFailed`), and what it will answer is settled before
it closes (`ClosingKnows`). That a completed build is of one draft
(`ArtifactInv`): the rows of a target are those of the executor whose token the
job has, until a manual retry gives two of them one token, after which the
manifests carry the argument (`RowsAreTheHolders`, `TokensAreOwn`). And that an
indexed document is its own segments (`ParserInv`): a thread that was left
behind works on its own pages, and those it stores are of the first segment its
plan misses (`ThreadIsSound`); the child has nothing to answer unless a call
waits, and then at most that call's request (`ChildAnswersTheCall`), because a
child that was left is never asked again.

`ManagementPageProofs` proves that the page shows its base (`PageInv`: each
request in flight carries what its answer may change, and a request whose
generation lasts is about the base or document that is shown) and that
acknowledged writes show. For the latter `WritesInv` follows each upload and
deletion of this view into the lists: a list that was read before a write is
never the last one that counts (`FreshLists`), because every write ends in a
load that outdates the earlier ones, and there is one such flow at a time
(`OneFlow`). Of `ChatClient` it proves `ViewFollowsTheSession` from `ClientInv`:
what the page shows and follows is genuine and of the session it shows, and so
is what any call will answer for its session; turns only grow. At most one load
counts (`LoadsOK`), and what it will answer takes back nothing that is shown as
decided, because it was read when everything shown had already arrived.

## Model-checked only

* Liveness (`EveryTurnIsDecided`, `FinishedBuildsAreDecided`, `PendingIsDecided`,
  `NothingLeaks`, `ParsingIsDecided`, `UndisturbedBuildsAreDecided`,
  `AnswersAreShown`): fairness and ENABLED are out of the prover's reach.
* `ChunksKeepTheDocument` and `PlansAreBest`, and the functions of `EvidenceFlow`:
  they are recursive, and compared with their definitions on all inputs of the
  bounds.

## Not modelled, and why

What Docling reads out of a file, prompts, embeddings and scores are data: the
models see whether they succeed, how large they are and in which order they
come. The API's decoding, schemas, settings, logging and migrations have no
protocol of their own. Admission limits (`services/admission.py`) are semaphores
around single requests. The unit of work is the atomicity of every database
action above; its lost acknowledgement is modelled where a caller acts on it
(`Catalog`, `ModelSettings`). Chat: titles, feedback, the classic pipeline without
tools, previews of answer text. Indexing: the row locks of two transactions are one
action each, so that lock order (`sqlalchemy_content.py:1653`) is not seen.
Retrieval: the embedding of a query. Graph: the retrieval adapters' caches, the
validation of an ingested graph. Chunking: legacy profiles, limits of analysis
units, pictures before any chunk; a separator costs a constant (`Gap`). Web
client: rendering, the scope picker, the settings dialog. Tools: the corpus
builder and the diagnostic scripts.

## Plan

1. Done: the lanes and their theorems; admission, settings, stream; the build of
   a document from the parser to its vectors; catalog and listings; retrieval,
   agent and chunking; both pages; the evaluation tool; and a theorem for every
   safety property of a run but those under "Model-checked only".
2. Later: `ContentLocks` (lock order of content and lifecycle transactions); the
   functions of `SemanticChunks` as folds, so that what every plan covers can be
   proved; the schema profiles of the graph and the corpus builder.

# A verification of ai-search-v1

TLA+ models of this repository's two paths, documents in (multipart and S3 ingestion,
chunking, embedding, the stores, the importer's lock) and answers out (rewriting,
parallel recall, merging, streaming, paging of sources), the configurations that check
them with TLC, and theorems about them checked with TLAPS. Paths below are relative to
`src/`.

## 1. Inventory

### What the system is

An HTTP API (`cmd/api`) that searches chunks of documents and accepts documents, and
a worker (`cmd/importer`) that turns accepted documents into chunks. They share a
Redis server (queue, bodies, status), a MySQL table `ingest_job`, an Elasticsearch
index of *task* documents (one per file), an Elasticsearch index of *entity*
documents (one per chunk with `entity_keys`) and a Milvus collection (one row per
chunk).

| Component | State it keeps | Operations | Interacts with |
|---|---|---|---|
| Multipart handler, `internal/api/handler/ingest.go` | none between requests | `POST /v1/admin/ingest` | Redis, MySQL, ES (synchronous calls) |
| Remote handler, `internal/api/handler/ingest_remote.go`, `internal/ingest/meta/s3keys.go` | none | `POST /v1/admin/ingest/remote` | Redis, MySQL, ES |
| Redis broker, `internal/queue/redis_broker.go` | list of jobs; `ingest:p:{job}:{n}` bodies with TTL; `ingest:j:{job}` hash with TTL | `SetPayload`, `GetPayload`, `DelPayload`, `Enqueue`, `Dequeue`, `SetJobStatus` | API, consumers |
| Job rows, `internal/storage/mysqldb/ingest_job.go` | status and counters per job | `InsertQueued`, `MarkRunning`, `SetTotalFiles`, `AddFileOutcome`, `MarkTerminal` | through the metadata service |
| Task documents, `internal/storage/es/ingest_task.go` | status per file | `BulkIndexQueued`, `UpdateTaskPartial` | through the metadata service |
| Metadata service, `internal/ingest/meta/service.go` | none | `OnEnqueue*`, `OnWorkerJob*`, `OnTask*`, `AfterS3List` | rows and task documents, in this order of calls |
| Job worker, `internal/ingest/pipeline/job_worker.go` | the job it holds (local variables) | `ProcessJob`, `processMultipart`, `processS3` | broker, runner, metadata service |
| Runner, `internal/ingest/pipeline/runner.go` | none between files | `RunNDJSON`, `RunPlain`, `writeBatch`, `Flush` | embedder, Milvus, ES |
| Importer process, `cmd/importer/main.go` | one context for all consumer goroutines | start, consumer loops, SIGTERM | broker, job worker, lock |
| Singleton lock, `internal/queue/importer_lock.go` | a Redis key with TTL; a ticker goroutine | take, refresh, release | Redis |
| Milvus repository, `internal/storage/milvus/repository.go` | collection, and an "ensured" flag under a mutex | lazy ensure, upsert, insert, flush, search | runner, searcher |
| ES repository, `internal/storage/es/repository.go` | entity documents | bulk, search by keys | runner, recall |
| Chunk splitting, `internal/ingest/chunk` | none | `ParseTextChunkLine`, `SplitRecord` | runner |
| Embedder, `internal/model/embedding` | none | `Embed` in batches | runner, recall |
| Recall, `internal/query/recall` | none | `RunTextRetrieval`, parallel paths, merges | Milvus, ES, embedder |
| Rewriting, `internal/query/rewrite`, `internal/model/rewrite` | line buffer of one stream | `Rewrite`, `RewriteStream` | chat API, search handler (callback per line) |
| Search handler, `internal/api/handler/search.go`, `internal/query/pipeline` | none | `POST /v1/search`, JSON or event stream | rewriting, recall |
| Content paging, `internal/api/handler/content.go` | none | a page of bytes of a source | HTTP, S3 |
| Admin queries, configuration, entity keys, middleware, Python services, tools | none | reads | - |

### What makes them hard

* **No transaction spans the stores.** One file changes a task document, a Milvus row,
  an entity document and a counter, one after the other; one job changes a row and a
  hash. Any call may fail before or after its effect, and the code then returns,
  logs or ignores, differently at each call.
* **At-most-once delivery, sometimes more.** `BRPOP` removes the job before any work
  is done, so a crash loses it. The Redis client sends an `LPUSH` again whose reply it did not
  get, so a job may be queued twice.
* **Goroutines and processes share chunk ids.** Upserts are keyed by chunk id, and a
  `Flush` seals what anybody has written.
* **Cancellation.** SIGTERM cancels the context that every call of a job carries, the
  deferred call that records its end included.
* **Expiry.** Bodies and hashes disappear after a TTL while their job waits or runs.
* **A lease.** The lock is a key with 90 seconds to live; its owner never looks whether
  it still has it.
* **One rule, two pieces of code.** Which objects a remote job has is worked out by the
  handler for the task documents and by the worker for the files; which queries a
  model's answer holds is worked out line by line for the stream and as a whole for the
  search; where a chunk lies in its text is computed by looking for it again.
* **A shared flag.** Goroutines of a process share "the collection is ready" under a mutex
  that is held while Milvus answers; other processes create the same collection, and an
  operator may drop it.
* **Races with a cancellation.** The first error of a path cancels the others, whose own
  errors then come too; a client may leave at any event.
* **A moving listing.** A prefix is listed page by page while objects come and go.

### What makes each component correct

* *Pipeline*: a job that says `succeeded` has all its files in both indexes, sealed; the
  counters agree with the task documents; an accepted job ends; terminal records are
  final; a job is in one place at a time; a body is kept until it is not needed.
* *Consumer*: every path of `ProcessJob` returns to the loop.
* *Lock*: one importer at a time while refreshes arrive; nobody touches another's lock; a
  dead owner's lock is freed.
* *Milvus ensure*: nobody writes to a collection that no one has made; a dropped one is
  made again. *Splitting*: ids of one document are distinct, offsets grow. *Embedding*:
  vector *n* belongs to text *n*. *Merges*: no duplicates, Milvus order kept, at most
  `topK`, independent of who answers first. *Stream*: the queries sent are the queries
  searched. *Paging*: pages concatenate to the source.

## 2. Modules

| Module | What it is |
|---|---|
| `IngestQueue` | Multipart ingestion end to end: handlers, Redis, MySQL, both ES indexes, Milvus, consumer goroutines, processes, faults |
| `JobLifecycle` | Abstract specification: what a reader of `ingest_job` may rely on. `IngestQueue!Lifecycle` is the refinement mapping |
| `RemoteIngest` | One S3 job end to end: the two resolutions of its request, deferred task documents, the listing, the files |
| `Runner` | What `IngestQueue!WriteMilvus` and `WriteES` abstract: batches, the embedder, the lazy ensure with its mutex and flag, second attempts, the documents for ES |
| `ChunkSplit` | Pure functions: recursive splitting, protection of decimals, `SplitRecord` with its offsets |
| `ContentPaging` | `ChunkSplit` and `GET /v1/content` over the same document: split at one end, read page by page at the other |
| `Search` | `POST /v1/search`: rewriting with its stream, embedding, parallel paths, both merges, the answer |
| `ImporterLock` | The singleton lock with discrete time |
| `MC...` | The instances for TLC of the module they are named after |
| `IngestQueueProofs`, `ImporterLockProofs`, `RunnerProofs`, `SearchProofs`, `RemoteIngestProofs`, `ContentPagingProofs` | Theorems about the module they are named after |
| `ChunkSplitProofs` | What splitting does to every text; `ContentPagingProofs` extends it |
| `Induction` | Lemmas the proofs share: induction up to a bound, functions by recursion, least elements, concatenations and parts of sequences |

The models meet where the components do. `IngestQueue` takes the writing of a file as two
calls, and `Runner` shows what these amount to; `RemoteIngest` follows one job, because
`IngestQueue` shows that a job is with one goroutine; the offset that `ChunkSplit`
computes is what `Search` returns with a hit and `ContentPaging` reads from.

### `IngestQueue`

One action per call to a store, so anything may happen between two calls.

*Handler* (`api[j]`, `stored[j]`): `RejectFile`, `SetPayload` once per file, then, if the
metadata is on (`ApiMeta`), `InsertQueued` and `BulkIndexQueued`, then the three commands
of `Enqueue`: `HSet`, `Expire`, `LPush`. Any error ends the request; what it has written
stays. A bulk request that fails may have indexed any of its documents.

*Goroutine* (`pc`, `job`, `file`, `failed`): `Dequeue` and the ways it fails,
`SetJobRunning` (its error is ignored), then `ProcessJob`: `MarkRunning`, and per file
`GetPayload`, `OnTaskRunning`, `WriteMilvus`, `WriteES`, then either `TaskSucceeded`
and `CountSuccess` or `TaskFailed` and `CountFailure`; after the last file `Flush` and
`DelPayload`; then `MarkTerminal`, which is the deferred function of `ProcessJob`, and
`SetJobTerminal`. `Return`, `FileFailed`, `FileRan` and `NextFile` are the
places control goes to from several calls. An error of `MarkRunning` returns before the deferred
function exists, so `MarkTerminal` is skipped, as in the code.

*Stores*: `list`, `payload`, `hash`, `hashTTL` (Redis), `status`, `totalFiles`,
`successFiles`, `failFiles` (the row), `task`, `entity` (ES), `milvus` (which file's row
each chunk id holds) and `sealed` (the same as of the last `Flush`).

*Faults*, chosen by the constant `Faults`: a call fails before its effect (`err`) or after
it (`lost`); a pop is lost with its reply; `LPUSH` is sent twice (`resend`); keys expire (`expire`);
a process dies (`crash`) or is told to stop (`shutdown`), after which every call it
starts fails, while a `BRPOP` it already waits in may still return a job.

*Data that is abstracted.* A file writes one chunk, whose id is `ChunkOf[file]`: distinct ids
model records with ids of their own, shared ids model plain files under one `doc_id`.
Whether a chunk has `entity_keys` is the constant `Keyed`. Parsing, splitting and
embedding are part of `WriteMilvus`, whose `err` outcome stands for their errors too;
`Runner` and `ContentPaging` have them in detail. Texts,
titles, error messages, document counts and times are left out, and so is
`upsert=false`, where Milvus keeps two rows of one id.
MySQL reports *changed* rows, and its timestamps have seconds, so an update of a row that
says `running` may or may not change it: `MarkRunning` allows both.

### `ImporterLock`

`key` and `ttl` are the Redis key; `pc`, `due` and `misses` are each process: where it is,
when its ticker fires, how many refreshes in a row have failed. `Acquire` is `SETNX`,
`Start` and `StartFails` the startup that follows it (`log.Fatalf` skips deferred calls),
`Refresh` and `Release` the two scripts, `Elapse` one unit of time. A due ticker fires
before time goes on unless `stall` is allowed, in which case it may be late by any amount. A ticker
and an expiry due at the same instant may come in either order. A process is a start
of the program; a process that has exited does not come back under the same token.

### `RemoteIngest`

One action per call, from `Post` to `MarkTerminal`. `Post` is the handler up to its first
call, with `Malformed`, `Deferred` and `EnqueueFails` as its tests; `InsertQueued`,
`BulkIndexQueued` and `Enqueue` follow. `Resolve` is the worker's own reading of the
request (`ResolveFails`, `Bucket`); `ListKeys` is one page of the listing, which returns
the smallest key that is there now and was not passed, as S3 does; `Start` is what follows
when the keys are known, `BulkS3Queued` and `SetTotalFiles` are `AfterS3List`. Then
per object `OnTaskRunning`, `GetObject`, `RunFile` and the outcome, and `Flush`. `Change` is
another client of the bucket. The metadata switches of API and worker and
Elasticsearch are chosen in `Init` (`config`), for each may be configured on its own.
Keys are numbers in their order, and are the names that trimming leaves (`s3keys.go:37`, `job_worker.go:177` and `:195`): of two objects
whose keys differ in surrounding white space only, the code reads the trimmed one, once. An entry of a list of keys that is
all white space is `Blank`: both resolutions drop it, while the handler's tests (`ingest_remote.go:54` and `:74`) look at the
length of the list as it came. A page has one key. `steady` are the objects that
have been there since the request, the only ones a listing owes. The steps that queue the job,
its status hash and cancellation are in `IngestQueue`.

### `Runner`

A worker's file is `RowsOf[w]`, its chunk rows. Three sizes of batches are nested as in the code:
`MaxBatch` rows per `writeBatch`, `EmbedBatch` texts per HTTP request, `InsertBatch` rows
per request to Milvus; `sent`, `vecs` and `put` are how far each has come. `Embed` takes any answer
in the embedder's format, in any order and perhaps too short; a vector is named by the text it was
made of. `Lock` takes `lazyWriteMu` unless the flag `ensured` says that nothing is to be done;
`HasCollection`, `CreateCollection`, `DescribeIndex`, `CreateIndex` and `LoadCollection` are
`ensureCollectionBody`, and `Unlock` its end, with or without an error. `HasPartition` and
`CreatePartition` come after the mutex, as in the code. `Upsert` writes; `UpsertFails` leads to
`Invalidate` and back to `Lock` if the collection was missing, once. `Bulk` is
`entityChunkDocsFromBatch` and `BulkIndexChunkDocs`. `Starters` are main goroutines, which
ensure the collection whatever the flag says and before their workers run. `Drop` is an operator.
`faulty` remembers that a call failed which no code could foresee, so that
`DropIsHealed` can speak of the others.

### `ChunkSplit`, `ContentPaging`

A text is a sequence of runes with a byte width each; lengths count runes, offsets count bytes, as
in the code. Operators have the names of the functions they stand for (`SplitText`,
`MergeSplits`, `ShouldPopChunk`, `ProtectDecimalPeriods`, `SplitRecord`). A loop of the code is a function
over the elements it has passed, and its body an operator of its own: `AddSplit` of `MergeSplits`, `AddPiece` of `SplitText`,
`AddChunk` of `KeptChunks`, `AddRow` of `Located`, `CutAt` of `strings.Split`. The recursion of `splitText` goes
from a list of separators to the rest of it, so `SplitText` is a function of how many of them are left. In `ContentPaging` an uploader
writes the document rune by rune, so every document up to the bound is a state;
`ReadFirst` and `ReadNext` are one request of a client each, from the start or from a chunk's offset,
and `Serve` is `ContentHandler.ServeHTTP` with `FetchRange`, `HasMore` and `ToValidUTF8`.
A source honours `Range` (206, and 416 past its end) or ignores it (200, which the code accepts).

### `Search`

`StreamLine`, `StreamEnds`, `Complete` and `RewriteFails` are the model's answer as it comes; `FallBack` is
`RunTextRetrievalWithOptionalRewrite` without it. `Parsed` and `Dedupe` turn an answer into queries:
a text that is a JSON object with queries, in however many lines (`QueriesOf`), gives these, any other its lines. `Streams` decides which
line is sent, by whether that line alone looks like such an object (`JSONLines`). `Recall` and `Embed` are the calls made for all queries, `SearchVectors(i)`
and `SearchByEntityKeys(i)` those of the goroutine of query `i`, `GroupError` and `Wait` the
errgroup, `Merged` and `MergeSequential` the two merges, `Answer` and `Finish` the events. `Leave` is
the client going away, after which any call may fail as cancelled and any event may still be sent.
A query is a name, its lower case and its keys are constants; a ranking is what a store may return, more
than one where files are being ingested meanwhile. A search without a rewriter is one whose
answer is empty: both go on with the question.

## 3. Runs

| Run | Bounds | Properties | What it shows |
|---|---|---|---|
| `IngestQueue_faults` | 2 jobs (2 files, 1 file), 2 goroutines, 1 process; `err`, `lost`, `crash` | `TypeOK`, `SucceededIsIndexed`, `WorkIsWritten`, `SucceededIsCounted`, `CountersTrailTasks`, `PayloadUntilIndexed` | a success is never hollow, the counters never drift, bodies outlive the work |
| `IngestQueue_shutdown` | the same jobs with shared chunk ids, 2 processes; `lost`, `shutdown` | `SingleDelivery`, `RowFinal`, `TaskFinal`, `KeepsLifecycle` | one goroutine per job, records are final, refinement of `JobLifecycle` |
| `IngestQueue_resend` | 1 job of 2 files that share a chunk id, delivered once or twice; `err`, `resend`, `shutdown`; fair | `SucceededIsIndexed`, `JobPutDown` | two goroutines on one job do not produce a hollow success, and no error path is a dead end |
| `IngestQueue_ends` | 2 jobs, 2 goroutines; `expire`; fair | `AcceptedEnds` | every accepted job ends |
| `ImporterLock_timely` | 3 starts, TTL 6, one miss in a row; `err`, `lost`, `crash` | `TypeOK`, `SingleImporter` | mutual exclusion while refreshes arrive |
| `ImporterLock_lapse` | 3 starts, TTL 3, two misses; all faults; fair | `OwnLockOnly`, `LockFreed` | a lapsed owner is harmless to the lock, and no lock is stuck |
| `RemoteIngest` | 13 requests of every form, with blank keys too, 2 buckets, 4 keys (3 under the prefix, 1 unsupported), 2 stores, 8 configurations; `err`, `lost`, `change` | `TypeOK`, `AskedIsIndexed`, `TasksAreFiles`, `CountersAgree` | a job that ends well has ingested what was asked for and nothing else, and the two resolutions agree unless something is listed beside a prefix |
| `Runner` | 3 files (6, 2 and 1 rows) in 2 processes, 1 starter, batches 3 / 2 / 2; all faults, one drop | `TypeOK`, `OneEnsures`, `FlagIsHonest`, `WrittenIsStored`, `EntityHasVector`, `DropIsHealed` | what is counted is stored under the right vector, the flag never lies, no mutex is kept, a drop is healed |
| `ContentPaging` | every document of up to 5 runes of 5 kinds, 3 option sets, 2 limits | `TypeOK`, `FoundWithoutOverlap`, `SplitLosesNothing`, `HitReadsItsChunk`, `PagesAreTheSource` | nothing of a text is lost, a hit leads back to its text, pages concatenate to the source |
| `Search` | 3 modes, 10 answers of a model (plain lines, a code block, JSON in one line and in two, empty, broken), 3 paths, 3 values of `top_k`, with and without embedder and ES; `err`, `gone`; fair | `TypeOK`, `AnswerIsMerge`, `SourcesAreTrue`, `StreamedAreSearched`, `OneOutcome`, `ErrorIsCause`, `NothingOutlives`, `SearchEnds` | the answer does not depend on who comes first, errors are causes, and the stream tells what is searched |

Two runs are expected to find a violation:

| Run | Property | Said at | What happens |
|---|---|---|---|
| `IngestQueue_v_running` | `RunningIsHeld` | `plan/ingest-metadata-mysql-es.plan.md:362` | SIGTERM cancels the context of the deferred terminal update; the row says `running` for ever |
| `ContentPaging_v_found` | `EveryChunkIsFound` | `internal/ingest/chunk/ndjson.go:109` | with an overlap two chunks may begin at one place; the second is looked for behind the first, is not found, and the whole file fails with "part N not aligned" |

The second is a defect of the code. `shouldPopChunk` (`recursive_split.go:194`) does not count the separator
in front of the next piece once only one piece is left, and `TrimSpace` takes leading white space
off a chunk afterwards, so the overlap kept for the next chunk can be all that the last one was.
`FoundWithoutOverlap` shows that without an overlap it cannot happen.

Disagreements that need no run of their own, for they are plain from the code and the
models behave as the code does:

* The row and the hash of a job are written one after the other and may tell different ends
  when the first call fails (`plan/ingest-metadata-mysql-es.plan.md:131`, `job_worker.go:49`).
* `SetJobStatus` on an expired hash makes it again without a TTL (`redis_broker.go:111-112`).
* With the metadata off on the API and MySQL on the importer, every job fails at `MarkRunning`
  (`cmd/importer/main.go:258`).
* Plain files of one form share a chunk id, and the later replaces the earlier (`design.md:53`,
  `job_worker.go:115`).
* After two failed refreshes in a row two importers consume (`cmd/importer/main.go:127`,
  `importer_lock.go:71`).
* `search-api.md:104` has the question first among the queries; the code sends the rewritten ones only.
* The resolution of S3 keys is said to agree with the worker's (`s3keys.go:11`); it does not for a bucket
  beside URIs of another one, where the handler makes documents for a job that the worker refuses.
* With keys or URIs beside a prefix, were it one blank key, `s3_defer_task_es` is off and nobody makes documents for what is
  listed, so the first update of one answers 404 and the job fails (`ingest_remote.go:73`, `job_worker.go:217`). The plan has a document for each
  file, after the listing where there is one (`plan/ingest-metadata-mysql-es.plan.md:307` and `:311`). `RemoteIngest` behaves as the code does, and `TasksAreFiles` leaves such requests out (`Mixed`).
* A bucket with blank keys and no prefix is accepted, although it names no object: the job is queued with no files and
  the worker fails it (`ingest_remote.go:54`, `job_worker.go:206`).
* A `{"queries": ...}` answer over several lines is streamed line by line and then searched as the queries in it; one that
  is broken or empty is not streamed and then searched as a line (`lines.go:96`, `lines.go:106-115`). `StreamedAreSearched` is about plain lines.
* A hit's offset counts from the trimmed text (`runner.go:178`), a page from the raw object;
  `HitReadsItsChunk` is about documents without leading white space.
* A drop loses what earlier batches of a running file wrote, and the named partition of a
  goroutine that is past `EnsurePartition` is not made again.
* A chunk may pass `chunk_size` by a separator that is not kept: an empty or short piece stays in the list whose
  separator `shouldPopChunk` does not count (`recursive_split.go:194`). `SplitLosesNothing` allows for it, and for no more.
* `unprotectDecimalPeriods` also turns a U+E000 of the document into a full stop (`decimal.go:19`): its chunk is then not in the
  text, and the file fails. The documents of `ContentPaging` do not have that rune (`RunesAssumption`).
* Rows of one chunk id in different batches of a file replace each other's entity keys (`es/repository.go:178`).

### Why the bounds are enough

Two jobs and two goroutines are what it takes for a goroutine to disturb another job's
records, list position or chunks; a file that is not the last and one that is last take
the two branches of the loop, so one job has two files. Two processes are there where a
cancelled one must be told from a live one. Three starts of the importer give the lock an
owner, a former owner and a successor. TTL 6 makes a refresh period of two units, so
that time can pass between a ticker and its period's end, and TTL 3 makes it one, the
shortest the code's division allows.

`RemoteIngest` has a key outside the prefix, an unsupported one under it and two more, so that a listing has
three pages and objects come and go before, at and behind the page it is at. `Runner` needs two goroutines of one
process for the mutex and the flag, and a goroutine of another for a collection made or found missing elsewhere;
six rows are two batches of three, and three is not a multiple of two, so every inner batch has a full and a partial request.
`ContentPaging` takes chunk sizes of 3 (4 in the violation) and pages of 2 to 4 bytes: five runes are more than a chunk and an overlap, and a
rune of two bytes straddles a page. `MaxRead` is where a client of a source that ignores `Range`, which never
says it is at the end, gives up. `Search` has 3 paths for 5 in the code and `PathCap` 3 for 50, with one `top_k`
above it and two below; `MergedCap` never bites, as 5 * 50 = 250 does not in the code either.

Goroutines (resp. starts) are symmetric where
no liveness property is checked and all goroutines belong to one process. What
the bounds leave open, the theorems close for the properties of section 4.

### Fairness

`IngestQueue!Fairness` is weak fairness of each goroutine's next call: goroutines of a
live process are scheduled, and every client call has a timeout or a server that answers,
so a call that has started returns. Nothing is assumed of requests (they need not come),
of faults, or of restarts. `ImporterLock!Fairness` is that time passes and the goroutine behind a ticker is
scheduled. `Search!FairSpec` is weak fairness of the request's next step: the clients of the embedder and of
Elasticsearch have timeouts, but the model is assumed to end its stream, for which the code
sets no timeout (`internal/model/rewrite/stream.go:71-75`), and Milvus to answer, to which it gives no deadline.
`AcceptedEnds` allows no fault but expiry on purpose: a crash or an error
really does leave a job without an end, as `IngestQueue_v_running` shows.

## 4. Theorems

All are proved for every value of the constants, from the named assumptions of the modules
only: `NFilesAssumption` (a job has a file), `ChunkOfAssumption`, `ProcOfAssumption`,
`ConfigAssumption`, `NoneAssumption` of `IngestQueue`; `TTLAssumption`, `FaultAssumption`,
`TokenAssumption` of `ImporterLock`; `GoroutineAssumption`, `BatchAssumption` (the three sizes of a batch
are positive), `FileAssumption` (a file is a sequence of rows) and `FaultAssumption` of `Runner`; `NoneAssumption`,
`AnswerAssumption` (answers, and the lists in JSON objects, are sequences of lines, each of which may be searched),
`RankAssumption` (a store returns a chunk once: it is the primary key in Milvus, the `_id` in ES) and `CapAssumption` of
`Search` (the caps are positive, and `MaxPaths * PathCap <= MergedCap`, which `parallel.go:13-17` makes 5 * 50 <= 250);
`KeyAssumption` (the keys and buckets are finitely many), `RequestAssumption` (a request lists keys, blank or not, and objects or what is no URI) and `NameAssumption` of
`RemoteIngest`; `WidthAssumption` (a rune has at least one byte), `SeparatorsAssumption` (the last separator is the empty one, as in
`DefaultRecursiveSeparators`) and `PlaceholderAssumption` (U+E000 is neither white space nor in a separator) of `ChunkSplit`;
`OptionsAssumption` (what `ChunkTextRecursively` makes of the configured options), `LimitsAssumption`, `BoundsAssumption` (the bounds are numbers) and
`RunesAssumption` (no document has U+E000 in it) of `ContentPaging`. A hypothesis that a theorem has beyond these is in its row.

| Theorem | States |
|---|---|
| `IngestQueueProofs!TypeCorrect` | `Spec => []TypeOK` |
| `IngestQueueProofs!WorkIsWrittenHolds` | `Spec => []WorkIsWritten` |
| `IngestQueueProofs!SucceededIsIndexedHolds` | `Spec => []SucceededIsIndexed` |
| `IngestQueueProofs!SingleDeliveryHolds` | `Spec => []SingleDelivery` if no `LPUSH` is sent twice |
| `IngestQueueProofs!PayloadUntilIndexedHolds` | `Spec => []PayloadUntilIndexed` |
| `IngestQueueProofs!CountersTrailTasksHolds` | `Spec => []CountersTrailTasks` if no `LPUSH` is sent twice |
| `IngestQueueProofs!SucceededIsCountedHolds` | `Spec => []SucceededIsCounted` if no `LPUSH` is sent twice |
| `IngestQueueProofs!RowFinalHolds` | `Spec => RowFinal` if no `LPUSH` is sent twice |
| `IngestQueueProofs!TaskFinalHolds` | `Spec => TaskFinal` if no `LPUSH` is sent twice |
| `IngestQueueProofs!KeepsLifecycleHolds` | `Spec => KeepsLifecycle` (the refinement of `JobLifecycle`) if no `LPUSH` is sent twice and the importer has its metadata on |
| `ImporterLockProofs!TypeCorrect` | `Spec => []TypeOK` |
| `ImporterLockProofs!SingleImporterHolds` | `Spec => []SingleImporter` if at most one refresh in a row fails and no ticker stalls |
| `ImporterLockProofs!OwnLockOnlyHolds` | `Spec => OwnLockOnly` |
| `RunnerProofs!EnsuresAlone` | `Spec => []OneEnsures` |
| `RunnerProofs!FlagTellsTheTruth` | `Spec => []FlagIsHonest` |
| `RunnerProofs!TypeCorrect` | `Spec => []TypeOK` |
| `RunnerProofs!WrittenIsStoredHolds` | `Spec => []WrittenIsStored` |
| `RunnerProofs!EntityHasVectorHolds` | `Spec => []EntityHasVector` |
| `RunnerProofs!DropIsHealedHolds` | `Spec => []DropIsHealed` |
| `SearchProofs!CauseIsTold` | `Spec => []ErrorIsCause` |
| `SearchProofs!NoneIsLeft` | `Spec => []NothingOutlives` |
| `SearchProofs!TypeCorrect` | `Spec => []TypeOK` |
| `SearchProofs!AnswerIsMergeHolds` | `Spec => []AnswerIsMerge` |
| `SearchProofs!SourcesAreTrueHolds` | `Spec => []SourcesAreTrue` |
| `SearchProofs!StreamedAreSearchedHolds` | `Spec => []StreamedAreSearched` |
| `SearchProofs!OneOutcomeHolds` | `Spec => []OneOutcome` |
| `RemoteIngestProofs!TypeCorrect` | `Spec => []TypeOK` |
| `RemoteIngestProofs!AskedIsIndexedHolds` | `Spec => []AskedIsIndexed` |
| `RemoteIngestProofs!TasksAreFilesHolds` | `Spec => []TasksAreFiles` |
| `RemoteIngestProofs!CountersAgreeHolds` | `Spec => []CountersAgree` |
| `ChunkSplitProofs!ChunksTile` | the chunks of every text are parts of it, fit, leave out only what may be lost, and without overlap follow each other |
| `ChunkSplitProofs!AllFound` | `SplitRecord(t, o).ok` for every text if `o.overlap = 0` |
| `ChunkSplitProofs!NothingLost` | what the rows of a record say of its text, for every text and all options |
| `ContentPagingProofs!TypesHold` | `Spec => []TypeOK` |
| `ContentPagingProofs!PagesHold` | `Spec => []PagesAreTheSource` |
| `ContentPagingProofs!FoundHolds` | `Spec => []FoundWithoutOverlap` |
| `ContentPagingProofs!SplitHolds` | `Spec => []SplitLosesNothing` |
| `ContentPagingProofs!HitHolds` | `Spec => []HitReadsItsChunk` |

**A success is never hollow.** `SucceededIsIndexed` is not inductive: the status is written
several calls after the stores, by a goroutine whose local variables are all that
connects the two. The strengthening is `WorkIsWritten`: for each goroutine, the files
before the one it is at are written (`Passed`), the current one as far as its `pc`
says, all of them at `Flush`, and all of them sealed once the result is known and is
not an error (`Succeeding`); and what is sealed is written. `IndexInv` is the
conjunction of `TypeOK`, `WorkIsWritten` and `SucceededIsIndexed`. The proof has three
parts: stores only grow, in the sense that a chunk id once held stays held
(`StoresGrow`, `WrittenStays`); a step of one goroutine leaves what the others have
passed (`OthersStay`); and each call takes its own goroutine from `Passed` to `Passed`
(`PassedStep`, with one lemma per place control goes to). The theorem holds
with re-deliveries, shared ids, crashes and expiry, which TLC can only sample.

**One delivery.** `SingleDelivery` is inductive together with `TypeOK`: the list holds a job once,
only after its request has reached `LPUSH`, and not while a goroutine holds it.

**A body outlives the need for it.** `PayloadUntilIndexed` speaks of accepted jobs, and a body is deleted by whichever
goroutine ends a job. `BodiesKept` adds to `IndexInv` that a request past `SetPayload` has stored all its bodies, and that
these are all there or else all the job's chunks are sealed. `DelPayload` comes after `Flush`, where `WorkIsWritten`
has every file of the job sealed; and what is sealed stays sealed, so a second delivery of the job may delete too.

**Rows, documents and the place of a goroutine.** The five properties of the records follow from `RecordsInv`. A job
that waits, or has no goroutine yet, is `Untouched`: its documents say nothing but `queued`, and its counters are zero.
For a goroutine that holds a job, `RecordsAt` says what the row and each document tell, from the call the
goroutine is at and the file it is in: the files before it have succeeded and are counted, its own file is in between,
the rest is untouched, and the row is `running` until `MarkTerminal`. Each call is shown to owe this once (`Owed`): to leave an ended row and
ended documents alone, to keep `Trails` and `AllCounted`, and to bring its goroutine to a place where `RecordsAt` holds again.
That nobody else writes these records is `SingleDelivery`, which is where the hypothesis comes from: with an `LPUSH`
sent twice two goroutines do count one job twice, and the properties are then false.

**The lifecycle.** A step of `IngestQueue` that moves a status is one of three kinds (`StatusMoves`) and touches no index; a step
that writes or seals a chunk moves no status. The abstract `Persist` takes chunks of jobs that have begun, and
`MilvusStarted`, in `LifecycleInv`, says that a chunk in Milvus is of such a job; that a success is claimed
when the chunks are durable is `SucceededIsIndexed`. With the importer's metadata off a status never moves while chunks are
written, and the refinement is false: hence the hypothesis.

**One importer.** The strengthening `Leased` says that a process past the lock has the key,
with enough time left: what remains until its ticker, plus one period for
each miss that may still happen. It needs `3 * Period <= TTL`, which is why
dividing the TTL by two instead of three breaks it (a mutant does).

**A job that ends well has what was asked for.** `AskedIsIndexed` says what a job that has ended has sealed; what
connects it to the listing is the invariant of `RemoteIngestProofs`: `InScope` (one bucket, and only keys that are named or under
the prefix), `InOrder` (while the prefix is listed, an object that has been there all along is on a page read or has a key
greater than all of them), `NoneSkipped` (a key that is wanted is in `rest` or in Milvus) and `EndsSealed`. A page
brings the smallest key ahead, and so skips none: `LeastIsLeast`, by well-founded
induction over the numbers of the keys, from the library's `WFMin`.

**The flag is honest.** `IInv` of `RunnerProofs` is `EnsureOK` (the types of what the ensure touches), `OneEnsures` and `FlagIsHonest`. A
step is of one of four kinds, with a lemma each: outside the mutex, taking it, inside it, giving it back.
The flag is set by the last step only, which loads the collection, and until a drop nothing takes that back, in whatever process.

**What is counted is stored.** `WrittenIsStored` speaks of batches that are done; `FileInv` says what holds inside one. `AtBatch` ties
the local variables of `writeBatch` to its call: the vectors so far are those of the texts so far, in their order,
because `Embed` sorts a response by its index and refuses one that is too short (`SortedIsTexts` is
the lemma, for whichever order the embedder answers in); as many rows are put as were answered for. `PutIsStored` and
`KeysAreStored` say that the rows that are put, and the documents of the batches that are done, are in the
stores. `VectorsAreOwn` holds of every row in Milvus: its vector is that of a text of its own id, never of another
place in the batch. The sizes of the three batches need only be positive.

**A drop is healed.** While no call has failed that the code could not foresee, a drop is the only thing that can go wrong. `HealInv` says
of each goroutine inside `ensureCollectionBody` that what it has looked for is there or may still be made
(`BodyReady`), and of each worker that its second attempt comes only after the one drop (`WriteReady`), which makes
the write after it succeed; a worker that failed has one of the reasons of `Excusable`.

**Task documents are files.** `Mixed` tells the requests that list anything beside a prefix, as the handler's own test does, blank keys included; any other request
with a prefix is left to the worker (`PrefixIsDeferred`). The handler's resolution of a request and the worker's are connected by `Roles` (who makes which call
and for which requests) and by `TaskInv`, which has three phases. Until the first file (`Early`), nothing is worked on and
the documents are those of the keys the request names, or none if they are left to the worker (`Recorded`). At a
file (`AtFile`) the total is the number of documents, the keys that are not in `rest` have succeeded or have no document, those after the one in
hand are untouched, and that one's document says what its call requires (`InHand`). At the end (`Over`) the counters trail the documents, and a
job without an error has none left.

**The error is the cause.** `IInv` of `SearchProofs` adds to `ErrorIsCause` that goroutines run only while the request waits
for them (`PathsRun`), which is what makes `NothingOutlives` inductive too. A goroutine fails as cancelled only when
there is an error already, which `GroupError` keeps, or when the client has left.

**The answer is the merge.** What a store returns is `FoundBy` (its own source, no chunk twice, at most `PathK` hits), and
`Merged` of two such lists is a `TrueMerge` (`MergedIs`), which is `SourcesAreTrue` of one query. That goes into
`HitsInv`, with the hits of an answered search being `Take(Found, topK)`. The merge of all the lists is a `MergeOf` them: there are
functions that give for each hit the list it is from and its place there, growing with the hit, and no list before has its chunk (`MergeIs`).
They are found in two steps: `Joined` lines the lists up (`JoinedIs`), and `FirstOf` keeps the first place of each key (`FirstOfIs`, `FirstsCover`).
`AnswerIsMerge` follows because in lists without repetitions `FirstPath` and `Rank` are those functions. That the merge is short only when nothing is
left needs `MergedCap` to hold all the lists: with a smaller one it is false.

The operators under this are defined by recursion over a sequence, which the library's induction theorems cannot reach here; `UpTo`
of `Induction` is induction over an interval from the library's well-founded minimum, and `Recursion` has from it that a function defined by recursion on an
interval exists and satisfies its equation. `Selection` and `Joined` get theirs from `Recursion` (`SelectionRec`, `JoinedRec`).

**What is streamed is searched.** While lines come, what has been sent is the first `MaxPaths` of the lines so far that are not blank (`ShownInv`):
one more line is one more step of the same `Selection`, cut or not (`LineShown`, `TakeMore`), and for an answer in plain lines `Parsed` is that
selection at the end (`PlainParsed`). Nothing sent later is a line (`OutcomeSentIs`).

**One outcome.** `EventsInv` splits the events where the lines end (`Leads`) and says of the rest what it is at each `pc`: nothing, the queries, or as much of `Whole`
as a client that may have gone was sent.

**Chunks tile their text.** `Tiled(r, p, lo, hi, o)` says of the chunks `r` of a text `p`: there are places, one for each chunk,
where it stands in `p` between `lo` and `hi`; none is empty; each fits (`Fits`: the size, and a separator of `Slack`); a rune that no place holds is white
space or of a separator that is not kept (`Lossy`); and without overlap each place ends before the next begins.
`JoinTiles` puts two tilings side by side, and each function of the splitter is shown to tile what it is given. `PiecesAre`: the pieces of
a split, glued with the separator, are the text. `MergeTiles` follows `MergeSplits` piece by piece: what is done tiles
the text up to the piece that is open (`OpenAt`), and what `Popped` leaves of it still ends where the text read so far does. `RoomFits` is why a chunk
passes the size by a separator at most. `SplitByTiles` does the same for the loop over long and short pieces, and `SplitTextTiles` is induction over
the separators that are left; the last one is empty and cuts into single runes. Hiding decimal points changes no place
(`Restored`), and trimming gives up white space only, so the chunks tile the text itself: `ChunksTile`.

**Every chunk is found, and nothing is lost.** Without overlap the search for a chunk starts behind the start of the one before, hence not behind the place the chunk
was cut from: it is found there or earlier, and by induction never too late (`AllFound`). With an overlap places may coincide,
and this is where the run `ContentPaging_v_found` finds its violation. When a chunk occurs once, the place found is the place it was cut from, so the
offsets cover all that the tiling covers (`NothingLost`).

**A hit reads its chunk.** `Bytes` of a text is the concatenation of its runes' bytes, so the bytes before a place are as many as the offset says
(`OffsetIs`), and `ToValidUTF8` of the bytes of whole runes gives the runes back (`WholeTextIs`, by induction over the runes). A document without leading
white space agrees with its trimmed text up to that text's end, so the offset leads to the same bytes in both.

**Pages are the source.** `PagesAreTheSource` is not inductive: that an answer says `more` only after a full page is what the next page needs. `Inv` adds `Reading`:
while the pages are those the client has asked for (`Aimed`), what it has read stands in the document's bytes from its first offset on, ends at the document's end unless
there is more, and consists of whole pages but for the last. TLC checked `Inv` on the states of the run `ContentPaging` before it was proved.

Model-checked only: the liveness properties `JobPutDown`, `AcceptedEnds`, `LockFreed` and `SearchEnds`. Liveness under fairness is out of the prover's reach.
`EveryChunkIsFound` and `RunningIsHeld` do not hold. Every other property of a run is the subject of a theorem, some under a hypothesis that its row names.

## 5. What is not modelled

* **`searchChunkLookup`** of the search handler and the **admin queries**: chains of read requests,
  without state between them. The same holds of the queries and deletes of the Milvus repository.
* **`EnsureIndex`** of both Elasticsearch indexes: once, before anything else runs.
* **Entity keys of a query**: tokenizing is tables of words; `Search` takes the queries without a key as a constant.
* **Configuration**: the switches that change control are constants or chosen in `Init`; parsing is not modelled.
* **Documents that are not UTF-8**: a text is a sequence of runes, so what `ChunkSplit` and `ContentPaging` show, `FoundWithoutOverlap` and its
  theorem included, says nothing of invalid bytes in an ingested document. A page that ends inside a rune is modelled.
* **One-shot import** (`-input`) and the health server of the importer, which share no state with the consumers but the indexes.
* **Middleware, Python services, command-line tools**: no state of their own.
* **A fatal error of the startup** (`cmd/importer/main.go:207-323`) skips the deferred release of the lock, so the next start is
  refused until the key expires; `StartFails` is that exit, and `LockFreed` shows that the key does expire.
* **Collisions of `chunk_no`** in records that give their own (`ndjson.go:136`): `Runner` has rows that share an id, and
  which records share one is data.

## 6. What is left

1. A rule for documents that contain U+E000, and one for overlapping chunks that begin at one place: both fail their file today, and
   `FoundWithoutOverlap` could drop its hypothesis if the second were repaired.
2. `searchChunkLookup` as a chain of calls, if it ever changes state.

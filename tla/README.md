# Verification of ai-api-unified-http

TLA+ models of the service in `src/ai_api_unified_http`, the TLC configurations
that check them on small instances, and theorems proved with TLAPS for every
value of the constants. The code is the reference: every definition was
translated from it, and `PROJECT.json` names the lines each one stands for.

## The system

The service puts an HTTP API in front of a Python library of AI providers. It is
one FastAPI application on one event loop per process; several processes may run
beside each other and share one Redis and one bucket of artifacts. Blocking
library calls run on worker threads.

    request -> CORS -> envelope -> size guard -> ApiKeyAuth -> RateLimit -> CallerContext -> route
                                                     |
    run grants (Redis) <-----------------------------+------------------------------------> route

    route --> tokens and results --> client pool --> library --> provider
      |                                           (chain of fallbacks)
      +--> stream bridge --> SSE client                 +--> cost events --> sink
      +--> job thread --> artifact store --> delivery

| Component | State it keeps | Operations | What is hard about it |
|---|---|---|---|
| Run grants (`run_grants.py`, `routes_run_grants.py`) | four Redis keys per grant: record, key digests, set of keys, spend | issue, revoke, read; per turn: find, check, charge | every Redis round trip interleaves with other requests and processes; two clocks; expiry; a process may die in between |
| Authentication (`auth.py`, `paths.py`) | none | classify a key and a path; look up a grant | what is counted, and for whom, when the store is down |
| Rate limiting (`rate_limit.py`) | one fixed window, a count per caller | hit | the window's boundary, rounding, callers of one name |
| Client pool (`clients.py`) | three dicts | five lookups, reset | an unlocked read, a slow build, `setdefault`; keys that leave things out |
| Video jobs (`jobs.py`, `create_video`) | a record shared by a request and a thread | create, run | a record rewritten in place while it is polled; failing writes; nothing resumes a job |
| Artifact store (`artifacts.py`) | two files per artifact, one per job | store, read, read a range | a reader between two writes; the bucket deletes by itself |
| Artifact delivery (`delivery.py`) | none | parse a Range, stream a file | inclusive bounds, zero sizes, a length promised before the file is opened |
| Streaming (`streaming.py`) | a count per stream | bridge an iterator, follow a job | threads shared by streams; failure after the 200; clients that leave |
| Fallback routing (`fallback.py`, `fallback_chain_for`) | none (the library's chain keeps which models rest) | build a chain, say who served | the answer must be attributed although the chain is shared |
| Routes (`routes_v1.py`, `routes_admin.py`) | none | one handler per endpoint | errors after the provider was paid |
| Errors (`errors.py`) | none | exception to status | overlapping exception classes |
| Conversation state (`conversation_token.py`, `tool_results.py`, `_expand_conversation_tokens`) | none (the token travels with the caller) | issue, expand, validate, shape | what a caller may send back, of which version; shapes of an engine the chain may have forgotten; merging over passes of a loop |
| Application (`app.py`, `config.py`, `caller_context.py`, `request_limits.py`, `cost.py`, `logging_setup.py`) | a context per request, a handler on a logger of the process | start, stop, six layers, cost events | an order each layer relies on; a context reset around streams, pool threads and jobs; a start in a process that started before |
| Schemas, TypeScript schema, scripts | none | | declarations and generated code |

What makes each correct: a run's spend is bounded and its keys end with it; a
budget is nobody else's and holds in each window; one client per key; a job that
reads as ready can be read, goes forward, and its readers' requests end; a
resumed download is the artifact, byte for byte; an answer names the
model that gave it and is priced at no other; a stream says how it ended; every request ends; a
conversation is replayed in the order, and in the shapes, in which it happened;
a call is made only for a caller that was known and counted, and leaves one
event that names it; a browser can read every failure.

## Modules

| Module | Models | State and actions |
|---|---|---|
| `RunGrants`, `GrantPromise` | grants in Redis and the handlers that use them | `grant`, `keyRun`, `keySet`, `spend` are the four kinds of key, each with its expiry; `now` and `rnow` are the service's and Redis's clocks. One action per round trip: issue is `set`, `get`, `set2`, `get2`, `key`; revoke `own`, `members`, `delete`; a turn `find`, `grant`, `check`, `provider`. `Abort` is a Redis error or the death of a process at any of them. `minted`, `keyFor`, `charged`, `revoked` and `stray` are history. `GrantPromise` is the abstract specification, for whoever pays for a run: which grant stands, which keys are good, which turns are let in and what they come to, without Redis, clocks, or anything between two round trips |
| `ClientPool`, `PoolPromise` | `clients.py` | one action per part of a lookup no other thread sees half done: the unlocked read, the construction (which may fail), `setdefault` under the lock; `Reset` is `reset_pools`. `PoolPromise` is the abstract specification: a key stands for one client or none. `ClientPool` implements it under the mapping at the end of its module |
| `Admission` | `auth.py`, `rate_limit.py` | a request passes authentication and then the limiter, with others and a grant lookup in between. `hit` has no await in it and is one step. Time is in ticks, several to a second. `recent` is history: for each number of ticks, how many of one caller's hits were let through in that many ticks up to now |
| `VideoJobs`, `JobPromise` | `jobs.py`, `create_video`, `store_artifact`, `write_job`, `read_job`, `sse_job_progress` | `wpc` is the thread, `then` where a write returns to; a write is two steps (truncate, fill), because `Path.write_text` is; `record` is the object that thread and request share, `saved` what the file last held. `JobPromise` is the abstract specification, for those that hold a job's id: a word that goes forward, a shelf of artifacts, and what each was told |
| `Delivery`, `DownloadPromise` | `delivery.py`, `read_record`, `read_range`, `artifact_content` | one client, which saves (and resumes what broke) or looks (any Range); bytes are positions. `Open` comes with the first chunk, after the headers. `DownloadPromise` is the abstract specification: one transfer, without ranges, chunks or breaks |
| `Completions`, `AnswerPromise` | `completions`, `structured`, `conversation_turn`, `fallback.py`, `fallback_chain_for`, `_build`'s failures, `_pricing_client`, `sse_from_sync_iterator` | several requests share the library's chain (`resting`) and the worker threads (`line`). `answer` is history: the model that really answered. An answer may come from the response cache, at no cost. `AnswerPromise` is the abstract specification: the pieces of one model, then one closing; no chain, no threads, no line |
| `Turns` | `conversation_turn` but for its grant and its answer's route, `conversation_token.py`, `tool_results.py` | one conversation: `turns` is what the caller was given, `request` what it sends back of that, in any order, to the `engine` that request names, `chained` or not. `Expand`, `Check` and `Shape` take the handler's two loops a message at a time; `built` is what each pooled chain of this process has built, which `BuildBackup` adds to at any moment and `Restart` empties |
| `Service` | `app.py`, `caller_context.py`, `request_limits.py`, `cost.py`, `ErrorEnvelopeMiddleware`, and where `auth.py` and `rate_limit.py` stand among them | `work` has, for each slot, how far in the request is, whom its state (`who`) and its route's context (`task`) name, and what it left behind. One action per layer, inwards; an answer or an exception goes out at once, through the layers it passed. `Start` is the lifespan's checks; `sinks` outlives a stop |

`MC*` modules give the constants that a configuration cannot write down. A
`*Proofs` module extends the module it proves theorems about. Definitions called
"Mutant of X" are X with a plausible bug in it; no specification uses them. Each
property of each passing run has one, and is violated when X is replaced by it.

### External parts

Redis, the bucket, the ASGI server and its clients, and the library are modelled
from how the code uses them, and marked external. Redis runs one command or one
MULTI at a time and drops a key when its own clock reaches the key's expiry. The
bucket deletes whatever it likes when it likes. The library's chain asks models
in order, may skip any that rest, and reports in each call's own envelope who
answered; which failures bench a model, and for how long, is left open. A chain
that reports nothing, which `fallback.py:81-84` provides for, is a test's double
(`fallback.py:108-125`) and left out. The response cache may answer any buffered
call before a model has failed it, with what some model of the call's chain
answered once, and names that model. The chain knows
the shape of an engine's messages once it has built that engine, and keeps a
conversation with the engine whose messages it finds in it. It emits an event
for each call, in the context of the thread that makes it. Starlette runs layers
in the order `create_app` gives them, a layer's own handler of last resort
outside all of them, and the route in a task with a copy of the context.

## Runs

| Run | Instance | Shows |
|---|---|---|
| `run_grants` | 2 requests at a time, 2 issuers, 1 run id, 2 grants, 2 keys, times up to 2, clocks 1 apart | the store keeps `GrantPromise`; overshoot, keys, terms and expiry, for a grant no stale request writes to |
| `client_pool` | 2 threads, 3 clients, plain engine and chain, voice, video with and without an engine, resets | the pool keeps `PoolPromise`; no client stands for what it was not made for |
| `admission` | 2 slots, windows of 4 ticks (2 seconds), limit 2; an address, a label and a run of one name | budgets, the burst at a boundary, `Retry-After` |
| `video_jobs` | 2 artifacts, 1 caller, 2 reads of a stream, 2 failing writes | the job keeps `JobPromise`; readiness, wholeness, recorded outcomes, ends |
| `delivery` | sizes 0 to 4 in chunks of 2, 3 breaks, every Range from none to one past the end | a saved copy keeps `DownloadPromise`; honest lengths (of reversed ranges no), exact ranges, ends |
| `completions` | 2 requests of 12 kinds, a chain of 2, cache hits, 1 thread, 2 pieces per stream | every caller has what `AnswerPromise` says; attribution, prices, chains, streams, ends |
| `turns` | 3 turns, up to 4 messages, 3 engines (results joined, results apart and turns of two messages, no tools); each request asks for the first, with its chain or without, or for the last | order, checks, merging, shapes, refusals |
| `service` | 2 slots, 13 kinds of request, 10 deployments, 1 call each, stops, starts and new processes | attribution of all but jobs, one event per call, paid-for calls, readable failures |

Type invariants (`TypeOK`) are proved for every instance and are not in the runs.
Nor are `GrantNeverReplaced`, `AnswersAdvance`, `NeverStartsOver` and
`SavedIsTheArtifact`: each is a part of its module's promise, which a run checks,
and has a theorem of its own.

Why these bounds are enough for the cases that matter: two requests give every
pairwise interleaving (a check and a charge, a read and a MULTI, an issue and a
revoke); two grants of one run id give a successor for stale requests to meet;
two keys, one that a revoke read and one it did not. A window of two seconds of
two ticks has an inside, an end and a rounding. Two artifacts give a failure
after the first. Four bytes in chunks of two give a last chunk that is whole,
one that is short, and an artifact of no bytes. In `completions` one model is at
once an engine's default and the first fallback, the second fallback has the same name on another
engine, one spelling is not the library's token, and one thread makes two
streams wait for each other. In `turns` four messages hold a turn, two results
for it and one more on either side; the third turn answers a conversation in
which two engines have spoken. In `service` two slots interleave every pair of
kinds: an application's user with a run's sandbox that claims to be another, a
stream with a job, a call with an anonymous one. A second call by the same
request would repeat the first: its context is not touched in between.

Four runs show what the code does against what it says:

| Run | What happens | What is said |
|---|---|---|
| `limit_while_stored` | a turn admitted under an earlier grant of the run id sets the counter's expiry to that grant's, Redis drops the new grant's counter, and turns are admitted past the limit | `run_grants.py:38-39` |
| `revokes_only_own` | the run id changes hands between the issuer check and the delete | `routes_run_grants.py:7-8` |
| `found_once_written` | a poll that meets the job's file truncated answers that there is no such job | `artifacts.py:300` |
| `every_exit_recorded` | the thread's first write is outside its `try`; if it fails no outcome is recorded | `jobs.py:89-90` |

Other places where code and words part, which the models take as the code has them:

- A key added between revoke's SMEMBERS (`run_grants.py:314`) and its MULTI
  survives, and opens the run id's next grant; `run_grants.py:29` says revoking
  ends all of them. `UnrevokedKeyOpensItsGrant` is therefore not about `stray` grants.
- `bytes=-0` gets a 206 of no bytes, and `bytes=5-2` one whose `Content-Length` is
  -2 (`delivery.py:64-69`, `:88`). `delivery.py:49-50` says that a range that cannot be
  satisfied is answered with the whole, and `:8-9` that the length is always
  honest. `HonestLength` leaves out the answers to such reversed ranges,
  `AnswersRange` all ranges that cannot be satisfied.
- A tool result for a turn a fallback answered takes the primary's shape when
  this process's chain has not built that fallback; `docs/technical-design.md:436`
  says it takes the fallback's. `ResultsFit` has the condition.
- What a route raises as `HTTPException`, and a body that does not validate,
  leave as FastAPI's `{"detail": ...}`; `errors.py:433-434` says every failure
  leaves in the service's shape. `FailuresAreReadable` does not ask for it.
- A video job's provider calls are made on a thread that was given no context
  (`routes_v1.py:1470`), so their events name nobody; `README.md:276-277` of the
  repository says events carry the caller. `EventsNameTheirCaller` is about all other requests.
- Pricing a fallback's answer may build a client (`routes_v1.py:469`), outside
  the `try` that keeps pricing from failing a request (`routes_v1.py:379-427`): if
  it raises, an answer that was paid for is lost, while `routes_v1.py:390` says a
  failure to price never fails the request. `NoPrice` lets it happen to every
  fallback's answer, the cache's included; `PricedAtTheAnswers` is about the
  answers that are given.

The properties of `run_grants` are stated for grants outside `stray`, those no
earlier request disturbs; `limit_while_stored`, `revokes_only_own` and the key
that survives a revoke are why.

### Fairness

Safety is checked and proved without any. Liveness assumes:

- `VideoJobs`: the event loop and the job's thread go on. Nothing is assumed of
  the provider: `OutcomeFollows` starts where the loop of polls ends, and
  `ReadsEnd` holds although the thread may die or poll for ever, because
  `sse_job_progress` has a limit of its own.
- `Delivery`: the server goes on serving, and a client that saves goes on asking
  until it has all or is told 404. `MaxBreaks` says the connection does not break for ever.
- `ClientPool`, `Turns` and `Service` assume none: they are about safety only. A
  lookup waits for nobody: the lock is held for one `setdefault`.
- `Completions`: each request's own next step is taken (weak fairness per
  request). Providers answer or fail in the end, since the library puts a
  deadline on each call; worker threads are handed out first come, first served,
  as the capacity limiter of `iterate_in_threadpool` does. That a step becomes
  possible is not assumed but follows: whoever holds a thread gives it back.
  A client's leaving and the chain's moving on or recovering are not assumed to happen.

`VideoJobs` may stop (a dead thread, no more polls), so its runs do not look for
deadlock. `Delivery` and `Completions` say when all is done, and any other
stop would be reported. `Turns` says so too, when a conversation has its three
turns; `Service` never stops.

## Theorems

Each `*Proofs` module has an inductive invariant, `Init => IInv`, one lemma per
action, and the properties from it. Five components also implement an abstract
specification, what the component promises its callers (`PoolPromise`,
`GrantPromise`, `JobPromise`, `DownloadPromise`, `AnswerPromise`): its
initial states map to initial states, and each step, in a state of the
invariant, to one abstract step or none.

| Module | Proved for every value of the constants | The invariant, and why it is needed |
|---|---|---|
| `RunGrantsProofs` | types, the safety properties of `run_grants`, and that `RunGrants` implements `GrantPromise` | what is stored is unexpired and was minted for its run; keys, sets and counters expire with a grant of their run; the counter covers what the stored, undisturbed grant was charged. Without the link between expiries a counter might vanish before its grant. For the promise also `OwnKeys`: the keys in a run's set, and those a revoke has read, were made for that run, so that a revoke stops none of another's |
| `ClientPoolProofs` | types, `PooledForItsKey`, and that `ClientPool` implements `PoolPromise` | every pooled client was made for a request of its key: so no client stands for two, which is what the abstract step asks |
| `AdmissionProofs` | types and all properties of `admission` | a bucket's count is one caller's own hits, because the prefixes keep buckets apart; what is let through is within it. For `BurstBound`, what was let through in the last ticks of this window is within this window's count, and what was in any stretch that reaches further back is within that and one limit more |
| `VideoJobsProofs` | types, the safety properties of `video_jobs`, and that `VideoJobs` implements `JobPromise` | where the thread is decides what record, file and artifacts may be, and what a reader may have seen |
| `DeliveryProofs` | types, `SavedIsTheArtifact`, `HonestLength`, `AnswersRange`, `NeverStartsOver`, that `Delivery` implements `DownloadPromise`, and that a transfer runs out | what has arrived is a run of positions from the span's first to the reader's cursor, and what is kept a run from 0 |
| `CompletionsProofs` | types, the safety properties of `completions`, that `Completions` implements `AnswerPromise`, three facts about the line for threads, and that a request's steps run out | a request stands at a place of its own chain and has asked only places before it; whatever is told agrees with who answered. `Queued`: the line holds just those that wait, each once, and no more steps run than there are threads. From it, whoever is in front can go or someone is about to give way, and nobody overtakes. For the promise, a request that has had pieces still stands at the model they came from |
| `TurnsProofs` | types and all properties of `turns` | the history is what the messages taken so far stand for, what is sent covers the part of it that is done, and `in_run` says whether the last message sent is a result; every shape in it is that of the engine asked for or a turn's. The last message readable is stated for any set of engines, since the chain may build more while results are shaped |
| `ServiceProofs` | types and all properties of `service` | at each place between two layers, what those outside have made sure of: past authentication a request is entitled to its route and its name is whom it bills, past the limiter it is counted, in the route its task names its caller. A started service has one sink |

They rest on the named assumptions beside the constants (kinds, positive
durations, finite slots), which TLC evaluates on its runs.
In `ServiceAssumption`, that `NoName` is no label and no run is what a missing
name means. In `AdmissionAssumption`, that no label is called "anonymous" is of a
deployment, not of the code; so is, in `CompletionsAssumption`, that a
guardrail's block moves no request, which is the library's.

Only model-checked: all liveness (`OutcomeFollows`, `ReadsEnd`,
`DownloadEnds`, `EveryRequestEnds`), which needs fairness and ENABLED. What in
them needs neither is proved of two. For `EveryRequestEnds`, `NobodyWaitsInVain`
(whenever a stream waits, a thread is free for the first in line, or has a step to
finish), `LineIsFair` (nobody overtakes) and `RequestsRunOut` (a number that each
step of a request lowers, none raises, and that is 0 just when it has ended). For
`DownloadEnds`, `DownloadsRunOut`: the same, but that a break may raise it, and
there are at most `MaxBreaks`. What is left to fairness is that steps are taken.

## What is not modelled, and why

- Parsing, wording, logging and layout: keys are kinds, prompts are nothing,
  headers are what they parse to. Malformed input stands for the refusal it gets.
- A job's percentages: they decide nothing. A failed write of one is
  a failed write of the record.
- gcsfuse's delays: the store is a file system whose writes are seen at once,
  which is what `ARTIFACTS_DIR` on a local disk gives. A mount that publishes on
  close would show fewer states.
- Provider statuses other than overload, timeout and block: no behaviour here
  depends on which of the rest it is. Prompt-cache hits and guardrail flags pass through.
- The run grant of a conversation turn is in `RunGrants`, its tokens and results
  in `Turns`, its answer in `Completions`; they share no state but the chain and
  are not composed. That a client may not be built is in `Completions` without
  the pool: `ClientPool` says who else meets the failure.
- What is inside a provider's message, a token or a schema: `Turns` tells
  messages apart by where they came from, whose shape they have and whether
  they are well formed.
- Which handler finds an exception of overlapping classes: Python's resolution
  order, which a model would only repeat.
- Configuration files, environment and logging set-up: `Service` starts from
  what they come to (whose profile, what it says of events, whether there are
  keys, whether the chain names what exists).
- The TypeScript client's reading of frames, and generated code.
- Embeddings, token counts, batches and listings: one library call between a
  schema and a response, no state of their own. Images and speech are that too, but
  store what they are given as artifacts: `store_artifact` is in `VideoJobs`, where
  the thread that calls it has more to do around it.
- GET of a run grant, `ping` and `pool_sizes` change nothing.

The hazards in `PROJECT.json` are the list of what is hard to test here; those
without a property say why.

## Plan

Done, in the order of what money and data depend on: run grants, pool,
admission, jobs, delivery, completions, turns, service. What would come next:

1. `SseClient`: the TypeScript client's framing of events cut at any point of
   the transport, composed with the bridge. Abstract specification: the events
   sent, in order, each once. The split is data, so the framing is a recursive
   function; its theorem is a step invariant of the buffer.
2. Composition: `Completions` with the pool of `ClientPool` and the charge of
   `RunGrants`; several jobs over the threads they share with
   the streams. Property: what a provider was paid for is charged or reported.
3. Proofs: a measure like those of `Completions` and `Delivery` for `ReadsEnd`; abstract specifications of `Turns` (a conversation is replayed
   as it happened) and `Service` (known, counted, called, named).
4. `Service` with `Admission` in place of its open choices of who is known and
   whose budget is used up.

Bounds for new runs follow the present ones: two actors, two of whatever may
be confused, and one more than the limit.

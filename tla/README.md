# A TLA+ verification of the Barq SDK engine

The Barq SDK (`engine/`, re-exported by `barq_sdk/`) runs a tool-using model in
a loop: it asks the model, gates and executes the tool calls, keeps the
transcript on disk so that a crashed run resumes, writes a hash-chained audit
log, and keeps memories between runs.  This directory models the parts of it
whose correctness depends on interleavings, crashes and long sequences of
calls, checks them with TLC on small instances, and proves the most important
invariants with TLAPS.

## The system

| component | state | operations | what is hard | what makes it correct |
|---|---|---|---|---|
| session store (`session.py`) | the JSONL file; `_written`, `_done`, `_synced` | load, save (append or rewrite), clear | a crash inside a save; files of the previous version; a transcript that was replaced | what `save` stored is what `load` finds |
| tool journal (`session.py`) | the JSONL file, `_done` by id | get, record | a crash between effect and record; ids that repeat | a call's side effect happens once |
| coordinator, tools (`coordinator.py`) | tasks, semaphore, approval lock, `_seen_tool_ids` | `_run_tool_blocks`, `_handle_tool_use` | parallel calls, cancellation, resumption | every call is answered, by its own result |
| coordinator, loop (`coordinator.py`) | transcript, counters, flags, output | run, send, `_drive` | resumption, compaction, interjections, early exits, all together | the transcript is valid, on disk and bounded; an output or a word why not |
| event stream (`coordinator.py`), telemetry | queue of 256, sink, token; open spans | astream, `_emit`, the exporter | a consumer that stops; parallel emitters; cut runs | everything is delivered, everything ends |
| audit log (`audit/log.py`) | the file; head, count, last size of each object | open, `_append`, seal, close, verify | several writers; crashes; buffering | the file verifies, and its anchors hold |
| memory store (`memory/memdir.py`) | a file per memory, MEMORY.md; a cache and postings | save, delete; recall | read-modify-write by several writers; a cache shared without a lock | files and index agree; a recall finds what is on disk |
| permission engine, hooks | rules, mode, hooks | check | the order in which verdicts are taken | an allow has a reason and no objection |
| MCP handler | sessions, tools by name | connect, call, reconnect | servers that fail while called | a name reaches its own server |
| provider client (`openai_compat.py`) | the structured output mode, usage | create, stream | retries and degrading of a mode that parallel calls share; broken streams | a dialect that both sides speak; no half call is executed |
| agent facade (`agent.py`), subagents | coordinator, audit, MCP handler; spawns counted | build, run, cancel, aclose; spawn | a build that awaits; parallel delegations; closing under a run | everything opened is closed; the budget holds |
| HTTP tool, rate limiter | next slot, lock; pooled client | `http_request`, acquire, aclose | parallel calls, early and cancelled waits, chains of redirects | requests are spaced; credentials stay with their origin |
| loop guard, compaction, structured output, file tools, sandbox, classifiers | see `PROJECT.json` | | | |

The loop calls the session store at every turn boundary, the journal around
every tool call, the audit log at every decision; the stream, the callbacks and
the cancel token let other tasks interfere at every `await`.

## Modules

| module | models | code |
|---|---|---|
| `AppendLog` | a JSON-lines file: appends, cuts by a crash, unterminated lines | `session.py`, `audit/log.py` |
| `DurableTranscript` | abstract: what the session file promises | `session.py:4-26` |
| `SessionStore` | the store over that file; implements `DurableTranscript` | `session.py` |
| `SessionStore_proofs` | theorems about it, the refinement among them | |
| `ToolExecution` | the tool half of a turn, with journal, token, crash and resumption | `coordinator.py`, `session.py` |
| `ToolExecution_proofs` | theorems about it | |
| `TurnLoop` | the loop of a run over a durable session | `coordinator.py`, `loopguard.py`, `compact.py`, `agent.py` |
| `TurnLoop_proofs` | theorems about it | |
| `EventStream` | `astream` over a bounded queue, and telemetry's spans | `coordinator.py`, `telemetry.py` |
| `AuditLog` | the hash chain, several `AuditLog` objects over one file | `audit/log.py` |
| `Reporting_proofs` | theorems about `AuditLog` and `EventStream` | |
| `MemoryStore` | files, index and lock of the memory store | `memory/memdir.py`, `filelock.py` |
| `MemoryRecall` | the cache and the postings behind recall, without a lock | `memory/memdir.py` |
| `MemoryStore_proofs` | theorems about `MemoryStore` and `MemoryRecall` | |
| `PermissionGate` | the stages in which the verdict on one call is reached | `permissions/engine.py`, `hooks/engine.py` |
| `MCPHandler` | the table of the tools that mounted servers publish | `mcp/handler.py` |
| `Provider` | one client shared by several runs: retries, dialects, streams, parsing | `providers/openai_compat.py` |
| `Provider_proofs` | theorems about it | |
| `Agent` | build, use, cancel and close of one agent, and its delegations | `agent.py`, `subagents/subagent.py` |
| `Agent_proofs` | theorems about it | |
| `HttpTool` | parallel HTTP calls behind one rate limiter | `tools/http.py`, `ratelimit.py` |
| `ToolBoundary_proofs` | theorems about `PermissionGate`, `HttpTool` and `MCPHandler` | |
| `MC*` | values for TLC | |

`AppendLog` has no state; `SessionStore` and `AuditLog` extend it.  `TurnLoop`
uses a session that keeps what it is given, which is what `SessionStore` is
shown to be by its refinement of `DurableTranscript`; it takes the tools of a
turn as one step, and `ToolExecution` looks inside that step.  Where a module
defines the mutated form of a definition, its comment says `Mutant`; nothing
else uses those.

An action is what one task, thread or process does up to the next point at
which another can interfere: an `await` in the coroutines, a look at the disk
for processes that share a file.

### SessionStore

`file` is the JSONL file, `store` the three fields of the Python object
(`_written`, `_done`, `_synced`), `mem` the loop's transcript.  `SaveOutcome`
is `save` after `_reconcile`: nothing to do, append what is new, or rewrite
when the transcript got shorter.  `CrashInSave` leaves every prefix of the
lines of an append, or either of the two files around an `os.replace`.
`LoadResult` is `load` with `_load_v1`; `Scanned` is its loop over the lines.
`astray` is history: since the store last read or rewrote the file, it added to
an unterminated line or to messages that are not the beginning of its
transcript.  A message is one of two values, enough to tell a transcript from
its replacement.

### ToolExecution

A call is a `tool_use` block, numbered as the model made it; its id is drawn
from a smaller set, so ids repeat.  `task[n]` is the place of the call's
coroutine inside `_handle_tool_use`: behind the semaphore (`queued`), in
`check_async` (`deciding`), before and under `_elicit_lock` (`waiting`,
`asking`), between the cancellation check and the dispatch (`starting`), and
after it (`executed`, `failed`).  `journal` is the `ToolJournal` object,
`journalFile` what a new one would read.  `Abort` is `asyncio.gather` handing
the first `CancelledRun` to the run: the sibling calls stay, as `stray`, and go
on beside the run that resumes the session (`ResumeAborted`, by a new agent).
`effects`, `lost` and `overtaken` are history: side effects taken, effects hit
by a crash before they were recorded, calls still under way when the next run
began.

### TurnLoop

`pc` is what the run awaits.  `Run` and `Send` are `_run_inner` and
`_send_inner` up to the loop; `NextTurn`, `CallModel`, the four answers
(`Degenerate`, `Truncated`, `EndTurn`, `ToolUse`) and `ToolsDone` are `_drive`
with `_append_interjection`, `_persist`, `_guard_status` and
`_finalize_output`; every way out of the loop goes through `Returns`
(`_note_missing_output`) or is an exception.  An assistant message has tool
calls or a text, which the output schema accepts or not; the final text is
looked for through the whole transcript, as `last_assistant_text` does.  What
the model answers, whether the guard finds it degenerate and whether the budget
is spent are any they could be.  `Cancel` may come at every await, `Crash` at
any time.

### EventStream

`at[t]` is the next event of a task (the run, or one of a turn's tool calls),
`how[t]` whether it runs, waits as a putter of the queue, or was woken.
`asyncio.Queue` is external and modelled with the two properties that matter:
putters are woken in order, and a task that comes first takes the place of one
that was woken and has not resumed.  `Leave` is `astream`'s `finally`: with a
token it sets it, without one it cancels the task (`Killed`); `Join` is its
`await task`.  `spans` are the spans `OTelExporter` has open; `Handled` is its
callback, which is called after each put.

### AuditLog

An entry's hash is a serial number: content holds a fresh uuid, nobody edits
the file, so no two hashes are equal.  `writer[w]` has the fields of an
`AuditLog` object (head, count, size after its own last append, entries since
the last seal); `Open` reads the file outside the lock as `_bootstrap` does,
`AppendEntry` is `_append` under both locks.  `Verified` is
`verify_audit_file`, `VerifiedAgainst` the same with an anchor.

### MemoryStore

`files` and `index` are the disk; `op[c]` is how far a saver or deleter is.
The index is read and written in two steps under the lock, and `delete` looks
and unlinks before it takes the lock, as in the code.

### MemoryRecall

`cache` and `postings` are the two dictionaries, `dirSig` whether the directory
time kept with them is that of now.  A sweep (`_sync`) is split wherever
another thread can run: the look at the directory (`Gate`, `Stat`), the scan
(`Scan`), each file's signature and content (`Keep`, `Read`, `Store`), what is
gone (`FindGone`, `Drop`), the rebuilding of the postings (`Rebuild`, `Assign`)
and the query over both (`Query`).  A save writes the file, then the index, then
forces a sweep (`BeginWrite`, `IndexWritten`, `Invalidate`); another process writes files
without one (`ForeignWrite`).  A version of a file stands for its signature and
for its words.

### PermissionGate

The stages of `_deterministic` in their order: hooks, hard danger, network,
the verdict of the hooks, rules, soft danger; then the classifier and
`_finalize`.  Every hook has run before `_resolve_gate` looks at the first
outcome.  What each stage finds is drawn when it is first looked at.

### MCPHandler

`table` stands for `_specs`, `_owner` and `_bare`, which are written together:
the server and the tool behind each public name.  `Installs` is
`_install_tools` after `list_tools` answered; `Refreshed` is one server of the
loop in `refresh`, which raises if `add_server` was called meanwhile
(`NextServer`).  `Install` names the listed tools one after the other, each by
its base or that with the first free suffix.  The connections are external:
they answer, raise or time out, and a server lists no tool twice.  `MaxSuffix`
is at least the number of tools of a base, over all servers, so that the search
for a suffix ends as it does in the code.

### Provider

`mode` is `structured_output_mode`, which every call of the client shares;
`call[c]` holds the local variables of a `create` (attempt, the format of its
payload) or a `stream` (what it has received).  What `create` does with a reply
and its next request are one action, since nothing is awaited between them.
The endpoint is external: it speaks some of the two formats, and may be busy,
lose a request, refuse or break off.  `parts[c]` is what a
stream has brought so far (`text_parts`, `tool_calls`, `finish`), and `Added`
what a chunk adds to it; `Assembled` and `Parsed` are the pure part: the end of
a stream, and `parse_openai_response` with its uniform ids.  An id is a sequence, so
that a suffix can be told from what it is appended to.

### Agent

`coord`, `audit`, `handler` are the facade's three fields, by the number of the
build that made them; `open` is what has to be closed.  `Build` is `_build` up
to `await handler.refresh()`, `Built` what follows.  A run is only its turns of
parallel delegations: `sub[t][k]` is a `spawn` call between its first look at
the token and its result.  `Close`, `CloseHandler` and `CloseAudit` are
`aclose` between its awaits.

### HttpTool

`call[c]` is where a call of `http_request` awaits, whether its next request
carries the caller's credentials, and the requests it has sent so far
(`chain`).  `Acquire` and `Wake` are the two halves of `RateLimiter.acquire`
around its sleep; a sleep may end up to `Early` too soon, by the clock's
resolution, or any time late.  `Redirected` is one round of the redirect walk.
`Close` and `Closed` are the two halves of `aclose`; a call whose client was
closed under it (`cut`) only ends.

## What the runs check

Every run passes; the number is that of distinct states (up to symmetry, where a
`.cfg` names one), all of them explored.

| run | states | instance | what it shows |
|---|---|---|---|
| `session` | 5,280 | transcripts of at most 3 messages, 6 lines, 2 crashes | what `save` stored is what `load` finds (`SavedIsLoaded`), also after crashes between the lines of a save; the store implements `DurableTranscript`, so a crash loses nothing stored before |
| `tools` | 358,600 | 3 calls with 2 ids, 2 at a time, 2 runs, 1 crash | a side effect happens once but for the two windows of the journal (`OnceButForTheWindows`); a call is never handed a result this run produced for another (`NoResultOfThisRunReused`); transcript and journal file agree; the phase ends |
| `turn_loop` | 792,058 | 2 turns, 2 runs or sends, 1 crash, 1 output retry, all options | every transcript sent to a model pairs calls and results (`WireValid`); a crash at any await loses nothing (`DiskIsCurrent`), nor does a resumption (`OnlyCompactionForgets`); the turn budget holds over resumptions; a run that was to give an output gives one, stored as done, or says why not (`OutputOrError`) |
| `audit` | 1,076,870 | 2 writers, 5 lines after 0 or 2 legacy ones, a seal every 2 entries, 1 crash, torn lines, entries larger than the tail window | the file of several writers verifies, links and seals (`FileVerifies`); acknowledged entries stay (`AckedIsKept`); anchors hold (`AnchorVerifies`) |
| `event_stream` | 440,831 | 2 tool calls, 2 turns, a queue of 2 | a consumer that goes on is given everything, in order and paired (`StreamIsComplete`), and the run ends; one that stops while the queue has room gets out; every span is ended (`SpansEnd`) |
| `memory` | 287,440 | 2 clients, 4 operations on 2 names, 1 crash | files and index agree but for the named gaps (`PointersAgree`); a save never replaces a memory it was not asked to (`NothingOverwritten`); the lock is always released |
| `memory_recall` | 3,336,409 | 2 recalling threads, 1 saving or deleting one, another process, 2 memories, 3 writes | a recall returns each memory as it is on disk (`RecallsWhatWasSaved`), whatever sweeps overlap, but for the torn ones |
| `permissions` | 52,140 | 2 hooks, 2 destinations | the strictest hook decides (`GateIsStrictest`); a call is allowed only with a reason, and never where a stage objected or failed (`AllowIsJustified`) |
| `mcp` | 540,525 | 2 servers whose tools collide, 2 tasks, 4 operations, 1 change of a list or filter | every server's tools are all published, once, or it is a failure (`ServersAccountedFor`); a name keeps its tool (`NameKeepsItsTool`) |
| `provider` | 314,440 | 2 tasks, 3 calls of 3 attempts, an endpoint that speaks any of the formats | a refusal of the format reaches the caller only if another call moved the shared mode, and attempts run out only by busy or lost replies (`FormatIsNegotiated`); a stream gives what `create` gives, and no half call is executed (`ResponsesAreSound`) |
| `agent` | 851,973 | 2 tasks, 2 parallel delegations, a budget of 2, 2 builds, 3 runs | `aclose` leaves nothing open and no delegation at work with a closed log, but for the named cases (`ClosingReleases`); at most `max_spawns` subagents start (`SpawnBudget`) |
| `http` | 930,949 | 3 parallel calls, 2 origins, 2 redirects, an interval of 2 ticks, wakes 1 tick early, 5 ticks | grants are spaced, and an early wake does not add up (`RequestsAreSpaced`); only accepted origins are addressed and credentials stay with the first (`CredentialsStayHome`) |

Each property has a mutant in its module: the definition as it would be with a
plausible bug, under which the run finds the property violated.

### Bounds

The bounds are constants, named in each module and given values in the `.cfg`
files.  They are chosen so that every interesting case happens inside them:

- A second crash can only meet what the first left on disk, and two are enough
  for a crash in the first save after a resumption (`session`).
- Three calls with two ids give two calls of one turn with one id, the same in
  two turns, and a turn in which a semaphore of two is contended (`tools`).
- With a budget of two turns and two runs a run is resumed before, at and
  after its last turn; `AbortAfter` is 2, so the guard nudges and aborts;
  the wrap-up notice, one recovery and one output retry all fit (`turn_loop`).
- Five lines give two headers, a seal by one writer between two entries of the
  other, and a reopened log that appends; a "big" entry stands for any that
  fills the 64 KB window (`audit`).
- A queue of two with three putters is full at nearly every event; the real one
  has 256 places, and its size enters only through "full" and "has room".
- Four memory operations are two racing pairs; `MaxSuffix` is as large as
  `MaxOps`, so a save never runs out of suffixes because of the bound.
- Three writes give a memory that is saved, changed by another process and
  deleted between the steps of two overlapping sweeps (`memory_recall`); a
  third thread could only repeat what the second does to the first's tables.
- Two hooks give both orders of two outcomes, and `ToolBoundary_proofs`
  covers any number.
- Three attempts are one more than there are dialects below the first, so a
  call that falls from `json_schema` to `none` succeeds with its last; three
  calls let two of them degrade the mode under the third.  The answers have up to
  three calls with repeated or missing ids, one of them the id another would be
  renamed to, and arguments in two pieces; the streams interleave the pieces in
  two ways (`provider`).
- Two delegations against a budget of two, twice, in two runs, exceed it
  whichever is counted late (`agent`); two builds are one overlap.
- Three calls give a waiter behind a waiter and two grants after an early wake;
  two redirects are away and back; five ticks hold three grants and one more
  wait (`http`).  `ToolBoundary_proofs` covers any number of each.

`MaxLines`, `MaxOps`, `MaxCalls`, `MaxWrites`, `MaxChanges`, `MaxRuns`,
`MaxBuilds`, `MaxTime` and `MaxCrashes` limit how long a behaviour is; deadlock
checking is off where a model stops at such a bound or where the program ends.

### Fairness

Liveness is checked under weak fairness of what the program's scheduler does,
never of what a caller, a model, an operator or a crash chooses to do.

- `ToolExecution`: the event loop runs a task that can go on; a tool ends, by
  `tool_timeout` at the latest; the operator answers an approval request.  The
  three alternatives of one step (approve or refuse, effect or not) share one
  fairness condition, so none of them is promised.
- `EventStream`: the event loop, and a consumer that has not stopped comes back
  for the next event or stops.  Nobody is made to cancel.
- `MemoryStore`: each client is scheduled, and a lock that stays free is handed
  over.  Nothing makes anyone begin an operation.

The other modules state safety only: what they wait for (a model, an endpoint, a
server) is bounded by timeouts of the code or not at all.

### What the properties leave out, and why

Some properties are true only away from states the code is known to reach.
These states are in the models, and are recorded as they are entered:

- `AuditLog`, `gaps`: `glued` (an entry appended to a torn line; both are lost
  and the log verifies as broken from then on), `window` (another writer's
  entry is larger than the tail window, the head is not found and the chain
  forks), `unflushed` (durability `"os"`: the entry is still buffered when the
  lock is released), `prefix` (a log reopened over legacy lines counts them,
  its seals attest too many), `shared` (another writer came in between, so a
  count is not the file's).  With durability `"os"` an entry may be in the
  buffer only, so `AckedIsKept` and `AnchorVerifies` are about the other two.
- `MemoryStore`, `gaps`: memories whose file and pointer the code lets come
  apart: a save between `delete`'s look, unlink and lock; a description that
  contains `(other.md)`; a crash between file and index.
- `MemoryRecall`, `torn`: a sweep failed half-way or met another's; cache and
  postings are changed one after the other, and a later sweep that finds the
  cache current leaves the postings as they are.
- `MCPHandler`, `unstable`: a base name shared by tools of two servers, or of a
  server whose list or filter changed; there a name may come to stand for
  another tool.  `skipped`: servers a refresh did not reach because
  `add_server` was called during it.
- `Provider`, `moved` and `setbacks`: a call during which others degraded the
  mode may be refused a format the endpoint was never asked for, or pass over
  one it speaks; busy and lost replies take attempts from the negotiation.
- `Agent`, `troubled` (two builds overlapped, or one was cancelled: what the
  first opened is not closed), `early` (`aclose` during a delegation) and
  `left` (delegations a cancelled run left behind).
- `SessionStore`, `astray`: what the store appends to a torn line, to a version
  1 file, or to messages it did not see replaced, is not found again.  Such a
  save is lost; from the next load, rewrite or restart on the store and the
  file agree again.  The run has lines that are written whole (`TornWrites`),
  replacements that are shorter (`Diverging`) and no version 1 file
  (`V1Files`), which is where the store implements `DurableTranscript`; the
  theorem `SavesAreLoaded` is for all of them, and so does `SavedIsLoaded` hold
  in TLC with `TornWrites` and `Diverging` `TRUE` and `V1Files <- MCV1Files`
  (185,712 states).
- `ToolExecution` resumes an aborted run with a new agent.
  `TranscriptAgreesWithJournal` is about ids no other call has.
- `EventStream`, `orphaned`: runs cancelled with a call under way, whose events
  may come after `RUN_END`.  `NobodyWaitsForever` has a consumer that stops
  while the queue has a free place; see below for the full one.

### Other observations

Met in the code while it was modelled, without a run of their own.

Session and loop:

- `session.py:98` says that a version 1 file is rewritten by the next save; the
  next save appends.  The v1 object has no newline, the first message continues
  its line, and both are lost.
- `session.py:18` says that a transcript that diverges is rewritten; `save`
  rewrites only one that is shorter (`session.py:110`).  After a run that saved
  its first message and failed, another task's `run()` on the same store leaves
  the first task's message in the file.
- `session.py:168` promises each call at most once.  Without any crash, one of
  two parallel calls raises, the other is still under way when the session is
  resumed, and runs twice (`overtaken`).
- `coordinator.py:700-702` means `max_turns` as a total over all resumptions; a
  compaction removes the assistant messages the count is taken from.
- `CancelToken` is never cleared (`events.py:97`), so a cancelled coordinator
  ends every later run at once; `agent.py:473` speaks of the current run.
- `last_assistant_text` walks back over the transcript, so an empty final
  answer can have the JSON of an older message validated
  (`coordinator.py:266`).  A `run` with an `output_type` over a session that is
  already done returns no output and no word why.
- The tool specifications a coordinator offers are taken once, when the agent
  is built; tools the MCP handler withdraws later (`handler.py:87-89`) are
  still offered to the model.

Stream and telemetry:

- `agent.py:463-464` says to stop consuming in order to cancel.  With the queue
  full the run waits to put and `astream` waits for the run
  (`coordinator.py:847`), for ever.
- A call that outlives its run opens a span after `RUN_END` that nothing ends;
  a second run counts the usage of the first again; tool spans are never
  children of the chat span.

Permissions:

- `PermissionEngine` asks at the first public destination a policy with
  `network_ask` rejects, and does not look at the destinations after it, which
  the policy may deny.
- A hook that asks, or fails, decides before the deny rules are looked at, so
  an operator may approve what a rule would have denied.

Provider:

- The line after the retry loop is marked unreachable
  (`openai_compat.py:487-490`); a degrade in the last attempt reaches it.
- Any 4xx whose text looks like a refusal degrades the mode, for every later
  call of the client.
- `stream` neither retries nor degrades, drops an answer that is reasoning
  alone, and takes a stream that is cleanly cut for an answer that ended.

Agent and subagents:

- Two uses that overlap in `_build`, or one cancelled in it, leave an MCP
  handler and an audit log open; a `cancel` before or during the build is lost;
  a closed agent cannot be used again.
- `max_spawns` counts from each build.  Two delegations of the same type and
  task share a session; with `resume=False` no journal is attached.
- Subagents are not given the cancel token, and their usage is not part of the
  parent's token budget.

Memory, HTTP and files:

- A sweep that keeps failing leaves the postings stale.
- Only the first request of a redirect chain passes the rate limiter.
- Overlapping `aclose` calls of the HTTP tool can lose a client made between.
- `EditFile` (`files.py:169-182`) reads, awaits and writes: of two parallel
  edits of one file one is lost.

## What is proved

The proofs are for every value of the constants, from the named assumptions on
them alone (the `ASSUME` of each module) and the library's facts about
finite sets, functions, sequences and well-founded relations.

### `SessionStore_proofs`

For any messages, lengths, crashes and version 1 files,

- `Typing`: `Spec => []TypeOK`;
- `SavesAreLoaded`: `Spec => []SavedIsLoaded`, with crashes inside a line and
  transcripts that diverge;
- `Refinement`: `Spec => ImplementsDurableTranscript`, assuming `~TornWrites`,
  `~Diverging` and `V1Files = {}`.

What `save` does depends on three fields and not on the file, so the proof is
about when the fields describe it: once the store has looked at the file, and
as long as nothing went astray, `written` is the number of messages `load`
would find and `done` the flag, if there are lines to find them in
(`KnowsInv`).  `TypeInv` adds to `TypeOK` that no file begins with a message:
`load` takes a single line for version 1, and only because the first line is
never a message is an append always read in full.  `CountInv` bounds what is
stored by what is counted, and so the file by `MaxLen`.

`Scanned` is a recursive function, and what it gives for a concatenation
(`ScannedTwo`) is the fact on which all others rest: an append adds its
messages to what is found, a cut of it a beginning of them (`CutsAre`), and a
line that is continued takes itself and its continuation with it.  It is proved
with a least-number principle (see below).  `Refinement` needs one
invariant more (`RInv`): with the three assumptions the file always ends in a
newline, nothing is astray, and `mem` continues what is stored unless it was
put in its place and is shorter.  The three assumptions are needed: without any
of them the code loses a save that returned, as the observations above say.

### `ToolExecution_proofs`

For any number of calls, ids, slots, crashes and runs,

- `Typing`: `Spec => []TypeOK`;
- `ExactlyOnce`: `Spec => []OnceButForTheWindows`;
- `JournalAgrees`: `Spec => []TranscriptAgreesWithJournal`;
- `NotReused`: `Spec => NoResultOfThisRunReused`.

`OnceButForTheWindows` is not inductive: that a call has taken effect no more
often than allowed says nothing of a call that is about to.  The strengthening
follows a call's debt (`Debt`: the effects it had, and the one a call left
behind may still have) against its allowance (`Allowance`: what the windows
have cost it).  A call that may still be dispatched owes at most its allowance,
any other at most one more (`DebtInv`).  The only call that owes more and has
not ended is one that a resumption has queued again, and that one is answered
from the journal when its turn comes (`QueueInv`), because the result it
recorded reached the file a resumption reads (`FileInv`) and no call of its id
is under way or has recorded a result in this run.  `PhaseInv` (tasks are those
of the pending calls) and `FreshInv` (a call not yet made has done nothing)
carry the argument over a new turn.  A crash moves an unrecorded effect from
the debt to `lost`; a resumption moves a call under way to `overtaken`.

`JournalAgrees` follows a result from the journal to the transcript.  Both
journals give an id only the result of a call with that id (`OwnInv`), so a
call whose id is its own finds its own result or none; from when its task is
done the file has the result it was given (`AgreeInv`), and neither another
call, nor one left behind, nor a resumption can write under its id.
`NotReused` is about every id: a call that recorded a result in this run is of
this run, over, and its id is one the run has seen (`HereInv`), so no lookup
that follows is allowed to find it.

### `TurnLoop_proofs`

For any `max_turns`, output retries, options, runs and crashes,

- `Typing`: `Spec => []TypeOK`;
- `Current`: `Spec => []DiskIsCurrent`;
- `Budget`: `Spec => []TurnBudget`;
- `Outputs`: `Spec => []OutputOrError`;
- `Growth`: `Spec => OnlyCompactionForgets`;
- `WireAlwaysValid`: `Spec => []WireValid`.

`TurnBudget` is kept by a sum that no step may raise (`CountInv`): the assistant
turns of the transcript and what the loop has left of its budget are at most
`max_turns`.  A run that resumes takes what the transcript leaves, so the sum
starts below it; an answer moves one from the budget to the transcript when the
loop goes on; while the tools of a turn run, that turn counts on both sides,
and `budget > i` pays for it; a compaction only lowers the sum.  `FlowInv` says
that a run under way has neither ended nor given an output, and that a
conversation kept in memory has had a run, so what `send()` goes on with is
what is on disk: `DiskIsCurrent` needs it at the next `send()`, `OutputOrError`
at every early exit.  The lemmas on transcripts (`TurnsOfAppend`,
`TurnsOfInterjected`, `Grown`) count their turns by cardinality, and say what
they are prefixes of.

`WireValid` is about the request, in which `to_openai_messages` puts each
result behind the message before it.  `WireInv` says it of the transcript: the
results of a turn's calls are the next message, and no results are anywhere
else (`Paired`), in memory and on disk; calls without results are at the end
only, and only while the tools run, or in what a crash left for `_run_inner`
to repair.  Each way out of a turn (a nudge, a recovery, an abort, a cut
answer, an output that is retried) has to answer the calls before it adds
anything.

### `Reporting_proofs`

What a run leaves behind and what it hands out.  For any number of writers,
entries, seals and crashes (`AuditLog`),

- `AuditTyping`: `Spec => []TypeOK`;
- `UntouchedFileVerifies`: `Spec => []FileVerifies`;
- `AcknowledgedIsKept`: `Spec => []AckedIsKept`;
- `AnchorAlwaysVerifies`: `Spec => []AnchorVerifies`.

A file that verifies need not go on doing so: the next entry continues the head
its writer holds, and that is the file's only if the writer has noticed what
came in between.  `HeadInv` says that it has where its `lastSize` is the file's
size, and that is all `_append` compares.  With durability `"os"` the tail may
still be in a buffer, so the chain is stated of the file and of what each
writer sees ahead of it (`Ahead`, `ChainInv`), and `AloneInv` says that unless
a gap was recorded only one writer has anything buffered, over a file nobody
has added to since.  `CountInv` bounds each seal and each writer's count by the
entries from the header on; `AckInv` says that the hashes in the file are
distinct and the acknowledged ones among them; `AnchorInv` that the count of a
writer is the place of its head in the chain, which makes an anchor verify.

For any tool calls, capacity of the queue and number of turns (`EventStream`),

- `StreamsAreComplete`: `StreamSpec => []StreamIsComplete`;
- `NoSpanLeft`: `StreamSpec => []SpansEnd`.

What the consumer has been given says little of what it will be given; what it
has with what is still in the queue (`Sent`) is what the run has emitted, and no
`get` changes that.  While the consumer reads, `SentInv` says how `Sent` begins,
that the sentinel is not in it before the run is over and then only at its end,
behind `RUN_END`, and that each call that is not between its start and its end
has both in it or neither.  The consumer that is given the sentinel has
therefore emptied the queue (`SentinelIsLast`).  It needs that a run which goes
on from its calls has none of them under way (`LeftInv`), and that a task whose
event goes nowhere has no reader (`ConsumerInv`).  `OpenInv` follows telemetry's
spans along the places of the run, `Killed`'s short cuts among them.  Tasks may
wait and be woken in any order; the invariant does not depend on it.

### `MemoryStore_proofs`

For any clients, names, bodies, descriptions and crashes,

- `MemoryTyping`: `Spec => []TypeOK`, with the mutual exclusion of the lock;
- `Agreement`: `Spec => []PointersAgree`;
- `NoOverwriting`: `Spec => NothingOverwritten`.

A memory that agrees with its pointer says nothing of the operations that have
changed one of the two and not yet the other.  `SettleInv` follows each memory
that is not a gap: while nobody is on the way to its pointer the two agree; the
saver or deleter inside the lock carries the body the file has, or the file is
gone and a deleter waits behind it that will remove the pointer; and while a
deleter waits for the lock the file stays gone, or the memory is a gap.
`ReadInv` says that the copy of the index a client writes back is the index, so
nobody's line is lost, and `FreeInv` that a slug found free stays free until
the write; both hold because only one client is inside the lock (`Alone`).
That the first free suffix exists is the well-ordering of the naturals
(`Smallest`).

For any memories, number of writes, and threads that recall, save and delete
(`MemoryRecall`),

- `RecallTyping`: `RecallSpec => []RecallTypeOK`;
- `RecallsAreCurrent`: `RecallSpec => []RecallsWhatWasSaved`.

What a recall finds is decided by sweeps that came before it, of itself and of
others, so `RecallInv` says of every place of a sweep what it knows.  It has
two halves.  The first holds always: an entry's content is no older than its
signature (`EntryInv`), for a file is read after its signature was taken, and
signatures and contents in a recall's hands are what is stored or came before
it (`Reader`).  So an entry that has the signature of now has the content of
now.  The second (`Undisturbed`) holds until a sweep fails or meets another:
one recall sweeps at a time (`Lone`); the postings are those of the cache, but
while a sweep has changed it (`Indexed`, `BuiltInv`); of each memory that
nobody has written since the sweep took the directory's time (`Calm`), the
cache already has what is stored if the sweep is done with it (`Swept`); hence
while the time kept is that of now the cache has everything as it is
(`DirInv`), which is what lets the next recall skip its sweep.  A memory a
recall asks for stays calm while it sweeps and while it waits to query
(`QueryInv`), whatever is written beside it.  TLC checked these conjuncts on the states
of `memory_recall` before they were proved.

### `Agent_proofs`

For any tasks, calls and bounds,

- `Budget`: `Spec => []SpawnBudget`, with the types;
- `Release`: `Spec => []ClosingReleases`.

The count of started subagents is a number, the budgets are one for each build:
`StartedInv` makes the places taken a set of pairs (build, place) and says that
`started` is its cardinality, so a spawn adds one pair that was not there
(`OneMoreTaken`), and the set lies in the product of the builds begun and the
`max_spawns` places of each.  `Untroubled` says what the code relies on without
saying it: as long as no two builds overlapped and none was cut short there is
one build, all that is open is its own, and an `aclose()` that looked the
handler up has closed it before it closes the log.  `EarlyInv` (an `aclose()`
that did not come early is alone) and `WaitInv` (a delegation that is not over
has its run waiting, or was left behind) give that no delegation goes on with a
closed log.

### `Provider_proofs`

For any number of callers and attempts, an endpoint that speaks any of the
formats, and any answers and streams of them,

- `Typing`: `Spec => []TypeOK`;
- `Negotiated`: `Spec => []FormatIsNegotiated`;
- `SoundResponses`: `Spec => []ResponsesAreSound`.

The mode is shared and only goes down, so what a call may conclude from a
refused format depends on whether another has moved the mode under it.
`Negotiates` says of each call that its request asks for the mode's format
unless others moved it, and that the attempts it has spent without a setback,
with what the mode can still go down (`Rank`), are two at the most: two attempts
of a call pay for the whole descent, whoever made it.  `OneCaller` reduces each
step to its own caller and to what a lower mode means for the others.

`SoundResponses` needs to know a stream at every chunk: what a caller has is
what the chunks so far bring (`PartOf`: the text and the finish reason if they
were among them, and of each call the pieces that were, in their order), so
that at the last chunk it is the answer (`Accounts`), and before it a finish
reason that makes a call one to be executed cannot be there.  That `Unique`
gives distinct ids is an induction over the calls: each is suffixed until it is
none of those before it, and it cannot fail, since the suffixes of one id are
of different lengths and there is one more of them than calls before it
(`NewId`).  `CountInv` says that the answers counted and the calls under way
are no more than the calls begun.

### `ToolBoundary_proofs`

What a call must pass before it reaches anything.  For any number of hooks and
destinations (`PermissionGate`),

- `GateTyping`: `GateSpec => []GateTypeOK`;
- `StrictestHookDecides`: `GateSpec => []GateIsStrictest`;
- `NothingIsAllowedWithoutReason`: `GateSpec => []AllowIsJustified`.

The inductive invariant says of each stage what those before it have found
(`StageInv`), of `_resolve_gate`'s loop that what it holds is what the first
`k` outcomes said (`HeldInv`), and of an allow why it was given (`AllowInv`).

For any calls, origins, interval, clock resolution below it and chain length
(`HttpTool`),

- `Spacing`: `Spec => []RequestsAreSpaced`;
- `Credentials`: `Spec => []CredentialsStayHome`.

The distance of two grants (`SpacedInv`) follows from that of each grant to the
next slot (`SlotInv`): the slot is counted from the later of the last slot and
now, so a wake that came early shortens one distance and no sum of them.  Where
credentials were sent follows from what the end of a chain still carries
(`HomeInv`): if it carries them, every request of the chain went to its first
origin with them, so a chain that has left never carries them again.
`ChainInv` says that a call under way has a chain.

For any servers, tools, lists a server may come to publish, and tasks
(`MCPHandler`),

- `McpTyping`: `McpSpec => []McpTypeOK`;
- `ServersAccounted`: `McpSpec => []ServersAccountedFor`;
- `NamesKept`: `McpSpec => NameKeepsItsTool`.

`ServersAccountedFor` speaks of the moments at which no listing is under way;
inductive is that it holds of every server that has neither failed nor is still
to be listed (`AccountInv`), with no two names for one tool (`IsTable`), and a
name standing for nothing its server did not expose (`KnownInv`).  A name keeps
its tool because a listing is a function of the list: what `Install` calls a
tool depends on the names of the tool's base alone (`InstallAgrees`), and while
no other server exposes a tool of that base it finds none there but those it has
just dropped (`ListingSettles`).  So `SettledInv` can say of every name of a
stable base that it is the one the server's list is given in an empty table,
whatever was evicted, and in whatever order the servers were listed.  That a
suffix is always found is a count (`FreeSuffix`): a base whose every name is
taken would have more entries than tools.  TLC agreed that these conjuncts hold
in every state of `mcp` before they were proved.

### Induction over data

The library's induction theorems take an operator, which the installed provers
cannot instantiate.  Where a recursive function of the model is reasoned about
(`Scanned`, `Unique`, `Install`, `Without`), the induction is over a set: `LeastNumber` (from the
library's well-foundedness of `<` on the naturals; `FirstFailing`) gives the least element of
the set of the lengths for which the claim fails, and the proof shows that it
is neither zero nor the successor of a length for which the claim holds.  The
same argument first gives that such a function exists (`Scans`, `Made`,
`Tables`,
`LeavesExist`).

### Only model-checked

Liveness everywhere: fairness and `ENABLED` are outside the prover.  Every
invariant and every action property that a run checks is stated by a theorem.

## Not modelled

`PROJECT.json` lists every component with its status.  Left out for good:
classification of shell text and URLs (`permissions/danger.py`, `lexer.py`,
`network.py`, `readonly.py`: tables and regular expressions; the gate takes
their verdict as any), audit export and redaction (formatting), structured
output and validation (pure functions over JSON; the loop takes their verdict
as any), the file system sandbox and the file tools (path resolution against a
real file system), the conversion of messages to the provider's format but for
its pairing of calls and results, provider configuration, and the `barq_sdk`
package (re-exports).  The stdio connection of MCP, the model's endpoint,
`asyncio` and the operating system's locks are external, modelled by what the
code relies on.

Within the modelled components: which texts are degenerate, how many tokens a
transcript has and what a summary says are any; signatures and keys of the
audit log are not told apart, since nobody edits the file; a glob that matches
or does not is drawn; every memory counts as relevant to a recall; a
subagent's own run is that of `TurnLoop`; telemetry's attributes and counters
are not kept.

## Plan

Modelled in this order: what a run must not lose or do twice (session, tools,
loop), what it reports (stream, telemetry, audit), what it remembers (memory
and its recall), what it may do (permissions, MCP), whom it asks (provider,
HTTP), and who owns it all (agent, subagents).

What would come next:

1. `EditFile`'s read-modify-write under parallel calls, over a file system
   module of its own.
2. The sessions of subagents, composed with `SessionStore`: two delegations
   that share one.

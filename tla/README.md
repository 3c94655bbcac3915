# A formal model of the FDE Context Platform

The repository (`src/`) is a multi-tenant context platform: connectors and
webhooks bring artifacts of a customer engagement (tickets, pull requests,
meeting transcripts) into Postgres, encrypted under a data encryption key (DEK)
of the engagement; Temporal workflows sync, capture, extract and purge; a
canonical graph of entities and relationships grows out of the artifacts; an API
serves it under row-level security and an audit trail, to a web application and
to a question-answering loop over MCP tools.  This directory holds TLA+ modules
of the parts whose correctness depends on interleavings, retries, crashes and
boundaries, the TLC configurations that check them, and proofs about them.

## 1. The system

| Component | State it keeps | Operations | Hard behaviour | Modules |
|---|---|---|---|---|
| Engagement key (`packages/db/src/engagement.ts`, `packages/crypto`) | the `engagements` row: status, wrapped DEK, BYOK ARN; encrypted columns | `withEngagement`, `rotateEngagementKey`, `shredEngagement` | row locks, KMS calls in the middle of a transaction | `EngagementLifecycle`, `EngagementKey` |
| Crypto-shred purge | ciphertext rows, audit rows, workflow execution | HTTP handler, two activities, batched blanking | retries beside attempts that were given up on, batch boundaries | `CryptoShred` |
| Source landing (`connector-source.ts`, `ingestArtifact`) | `sources`, `acl_snapshots`, graph rows | dedupe, land, link ACL, write graph | two writers of one artifact, a crash in the middle | `SourceLanding` |
| Connector sync | `connector_sync_state` (cursor, status) | backfill, incremental, checkpoint, start extractions | activity retry, worker crash, abandoned attempts | `ConnectorSync` |
| Connectors (GitHub, Linear, Granola) | the origin; a walk over it | `stream`, `toArtifact`, `normalize`, `detectStatusChange` | an origin edited during the walk; versions out of order | `ConnectorPaging`, `WorkItems` |
| Extraction pipeline | `extraction_runs`, `facts`, `evidence`, `purge_raw_after` | cut the transcript, run one extraction, purge the raw body | concurrent runs over one source, the retention clock; windows that must cover the text | `ExtractionPipeline`, `TranscriptChunks` |
| Capture session | `capture_sessions`, the recording bot | schedule, nudge, poll, store, hand off | an external call between two transactions, signals racing polls | `CaptureSession` |
| Graph writes and identity matching (`packages/identity`) | `entities`, `relationships`, status-change facts | upsert by reference, resolve, queue candidates | read then insert, read then update | `GraphWrite`, `NameMatching` |
| Identity review | `identity_review_queue` | merge, reject | decisions over overlapping pairs | `IdentityReview` |
| Webhooks and agentic linking | workflow executions, `relates_to` edges | land a delivery, scan, judge, write | fire-and-forget starts, repeated deliveries | `AgenticLinking` |
| Break-glass and audit (`packages/audit`) | `break_glass_grants`, `access_log` | request, approve, revoke, list pages | two approvers, revoke racing approve, keyset pages | `BreakGlass`, `AccessPages` |
| Authentication and authorisation | `users`, sessions in memory, API keys, tuples | login, deprovision, issue a key, admit, list | a login beside a deprovision, a restart | `Access` |
| Connector administration | `connector_config`, the Temporal schedule | put, enable, disable | two systems changed by one request, rollback | `ConnectorAdmin` |
| Custom integrations | `custom_integrations`, secrets | create, map, rotate, toggle, remove, push | a push racing an edit; replies lost to the panel | `CustomIntegrations`, `IntegrationsPanel` |
| Lineage, retrieval (`lineage`, `retrieval`) | nothing of their own | provenance, graph, fact list, context | several READ COMMITTED statements to an answer, caps, pages | `EngagementViews` |
| Question answering, model gateway, MCP tools | the loop's history, its trace, its event queue | ask, tool calls, fallback, stream | budgets, a tool that dies, a reader that waits | `AnswerStream`, `AgenticAnswer`, `ModelGateway` |
| Web application | panels' state | ask, explore, page, edit settings | effects and replies that cross | `AskPanel`, `GraphPanel`, and parts of `EngagementViews`, `ConnectorAdmin`, `IntegrationsPanel` |
| Demo seeding script | an engagement and what it ingests | seed, reset | stops between any two transactions, a second script | `SeedDemo` |
| Review tool (`tools/review`) | threads, verdict and summary on a pull request | load, review, reconcile | a failed call, a cancelled run, people in between | `ReviewTool` |

The components that are not modelled, with the reason, are in section 7 and, with
everything else, in `PROJECT.json` under `components`.

How they interact.  Sync attempts, webhooks and pushes all land through source
landing, inside a session of the engagement key; landing writes the graph in the
same transaction.  A landed transcript starts an extraction, a landed work item a
linking workflow.  Reviewers and the linking workflow write the graph that
landing wrote.  The read side sees whatever of this is committed when each of its
statements runs.  A shred ends all of it.

## 2. Plan

Order: what can lose or expose customer content first, then what can lose work,
then what can show wrong data.

| Step | Modules | State |
|---|---|---|
| 1 | `EngagementLifecycle` (abstract), `EngagementKey` (refines it), `CryptoShred` (composes the key with the purge workflow), `CryptoShredProofs` | done |
| 2 | `SourceLanding`, `ConnectorSync` (composes landings with the workflow), `ConnectorSyncProofs`, `ConnectorPaging`, `WorkItems` | done |
| 3 | `ExtractionPipeline`, `CaptureSession` (composes extraction with the capture workflow), `CaptureProofs` | done |
| 4 | `BreakGlass`, `AccessPages` (composes the audit's writers with a reader) | done |
| 5 | `GraphWrite`, `IdentityReview`, `AgenticLinking` | done |
| 6 | `Access` | done |
| 7 | `ConnectorAdmin`, `CustomIntegrations`, `IntegrationsPanel` (composes the API with the panel), `AdministrationProofs` (steps 4, 6 and 7) | done |
| 8 | `AnswerStream` (abstract), `AgenticAnswer` (refines it), `AskPanel` (composes the panel with the stream), `ModelGateway` | done |
| 9 | `EngagementViews`, `GraphPanel`, `ReadsProofs` (these and step 8) | done |
| 10 | `SeedDemo`, `ReviewTool`, `OriginsProofs` (these, `WorkItems` and `ConnectorPaging`) | done |
| 11 | `NameMatching`, `TranscriptChunks`, `GraphProofs` (steps 5 and 11), `FiniteOrders` (lemmas) | done |
| 12 | proofs of the remaining safety properties of sections 3 and 4 | done, but for `RemovalLeavesNoEnds` |

What the plan has left are the four liveness properties and `RemovalLeavesNoEnds`;
section 5 says what keeps each of them from a proof.

## 3. What is modelled

Conventions.  One Postgres transaction is a process that locks, reads, buffers
its writes and commits or rolls back; everything it wrote becomes visible in one
step.  READ COMMITTED is modelled: each statement reads what is committed then.
A Temporal activity attempt is a process of its own: an attempt the server gave
up on (a missed heartbeat, a timeout) is never stopped, it may run on beside its
retry.  A definition named `Mut...` is a deliberately wrong form of the
definition after it; it is used nowhere, and substituting it must break the
property named beside it in `PROJECT.json` (`mutants`).

### EngagementLifecycle, EngagementKey

`EngagementLifecycle` is the promise: content is sealed while the engagement is
live, a shred is final, and only dead content is blanked.  `EngagementKey` is the
code: a session (`withEngagement`) is `SessionLock` (FOR SHARE read),
`SessionUnwrap` (KMS Decrypt), `SessionWrite`, `SessionCommit` or
`SessionRollback`; a rotation is `RotateLock`, `RotateRewrap` (KMS, before any
write), `RotateCommit` or `RotateRollback`; a shred is `ShredUpdate` (waits for
every lock), `ShredCommit` or `ShredRollback`.  Lock waits are the guards
`ShareLockFree` and `UpdateLockFree`.  Ciphertext is abstracted to the DEK that
sealed it, KMS to the key an encrypted DEK names.  `KeepsLifecycle` is the
refinement.

### CryptoShred

Composes the shred transaction with `POST :id/crypto-shred` (`RequestShred`,
`RequestFails`, `RequestStartsPurge`), the Temporal execution
(`ShredActivityCompletes`, `PurgeActivityCompletes`, the two `...Fails` with
`NextAttempt`) and the purge activity (`PurgeCheck`, `PurgeSelect`,
`PurgeUpdate`, `PurgeAudit`, `PurgeDies`).  `ExternalStart` starts the workflow
on an engagement nobody shredded.

### SourceLanding, ConnectorSync

A lander is one call of `ingestArtifact` or `landConnectorArtifactWithGraph` for
one version (content hash) of an artifact: the pre-check outside a transaction,
the look inside it, the `INSERT ... ON CONFLICT DO NOTHING` that waits for an
uncommitted rival, the ACL link, the graph, the commit.  `ConnectorSync` makes
the landers the attempts of `runConnectorSyncActivity`: `StartSync`, `AttemptReads`
the cursor, `AttemptMarksRunning`, then ingests and collects, `Checkpoints`, ends
or dies; the workflow retries it and starts an extraction for each transcript the
attempt reports.

### ConnectorPaging, WorkItems

`ConnectorPaging` is the three `stream` generators against an origin that is
edited while they walk it: how a page is found (by number, behind a relay cursor,
behind an opaque cursor), in which order, and when a checkpoint is emitted.
`Stamp` gives several consecutive versions one `updatedAt`.  A page is told by the
ranks of its items, `Before`, and not by sorting them.

`WorkItems` is what becomes of the versions.  An item of the origin is a record of
its type, text, state and people; `GithubArtifact`, `LinearArtifact`,
`GranolaArtifact` are `toArtifact` and the `*FromWebhook` forms, `ContentHash` the
dedupe key (the text alone when there is one), `RecordsOf` is `normalize`,
`StatusChange` is `detectStatusChange`, `Acl` the access list.  `SyncLands` and
`HookLands` land any version still under way, in any order, once or again.  What
the models of it leave true and a reader may not expect: a Granola document that
gains a transcript changes its type and becomes a second entity; text that returns
to an earlier form is a duplicate; a late webhook overwrites the attributes of a
newer version and they stay.  `ConnectorPaging` and `WorkItems` keep the ACL of a
run exact; the code memoises memberships per run.

### ExtractionPipeline, TranscriptChunks, CaptureSession

`ExtractionPipeline` is `runExtractionActivity` (reads, wipes what its run wrote,
registers the run, writes, commits), its retries, the durable timer and
`purgeRawBodyActivity`.  `TranscriptChunks` is `chunkTranscript`, which the
extraction reads a transcript through: a text is its length and where its line
breaks are, one step is one turn of the loop.  `CaptureSession` puts the capture workflow in front:
scheduling a Recall bot between two transactions, the poll loop with the
`transcriptReady` signal (`nudged` is the flag that the loop clears before a poll,
not after), storing the transcript, starting the extraction.  Time is kept as the
ticks left until a deadline.

### GraphWrite, NameMatching, IdentityReview

`GraphWrite` has one process per artifact, its engagement transaction in
`persistGraph`: each person or organisation is matched by tier (`Hits`), updated
or inserted and scanned for candidates, then the other records, then the edges.
The row a statement SELECTs (`seen`) and the UPDATE computed from it are two
steps, which is where deliveries race.  Names are equal or they are not;
organisations take the same path as people.

`NameMatching` is the scan for candidates itself (`findMatchCandidates`): the
Jaro-Winkler similarity of two names, letter by letter as the code goes (`Matched`
has the pairs of places that the greedy loop takes, `Misplaced`, `CommonPrefix`), what
a shared domain or organisation adds
(`ScoreMatch`), the band (`ShouldQueue`), the oldest others that a scan reads
(`Compared`).  Floating point is replaced by fractions.  Every person has an email
of their own, so that nobody shares a reference (those are `GraphWrite`'s).  A
landing is one step: the scan of the new person, then their `member_of` edge, as
`persistGraph` orders them.  No connector emits `member_of` edges yet.

`IdentityReview` is `applyMatchDecision`: one process per decision, one step per
statement, each UPDATE or DELETE waiting for the row's holder and touching nothing
when that one deleted it.  Which rows were SELECTed before the wait is kept, as the
code keeps it.  `QueuesAgain` is a landing that queues a pair while reviewers work.
No endpoint calls `applyMatchDecision` yet.

### AgenticLinking

A delivery is received, routed by its scope, and landed item by item, each item's
transaction followed by a fire-and-forget start of its workflow (`Starts`, which
may be lost); a delivery that fails is sent again.  The workflow's activity is
`Extracts`, `Loads`, `Gathers`, `Judges` or `JudgmentFails`, `Writes`, with
`AttemptFails` and its retries.  A model judgment is any subset of the candidates.

### BreakGlass, AccessPages

`BreakGlass` is `requestBreakGlass`, `approveBreakGlass` (SELECT FOR UPDATE, the
second-person rule, the conditional UPDATE) and `revokeBreakGlass` as concurrent
transactions, with the audit row of each.  `AccessPages` adds a reader that pages
through the log by the keyset cursor of `listAccess`; its page and the row it logs
about itself are one step.  `Precision` is the number of clock ticks that a
millisecond of the cursor holds: the column has microseconds, so it is never 1, and
the runs take 2, the least that shows the rounding.  `assertBreakGlass` only reads, and nothing calls
it yet.

### Access

Logins (WorkOS and the development login), the directory's deprovision webhook,
restarts of the API (which lose every session), the script that issues a key,
admission of a member and the list of engagements are calls of several steps over
the `users` rows, the sessions in memory and the tuples.  `Rules` is the schema's
rewriting (`packages/authz/src/schema.ts`), `Resolve` the in-memory evaluation,
`LookupResources` the list built on it.  WorkOS and SpiceDB usersets are abstracted
to ids and subjects.

### ConnectorAdmin, CustomIntegrations, IntegrationsPanel

`ConnectorAdmin`: a PUT is `Puts` (the upsert, holding the row, a scope claim
waiting for its unique key), `Schedules` (the call to Temporal, from the row as
read back) and `Commits`; either call may fail after the other took effect.

`CustomIntegrations`: the administrator's operations and the push endpoint.  A
payload stands for the paths that resolve in it, so `Issues` and `Records` are
`normalizeCustomArtifact` on sets.  A push goes by one read of the row (`Arrives`)
and lands in a later transaction (`Lands`).

`IntegrationsPanel` extends it with the cards of the web panel: one request at a
time and card, replies that cross or are lost, the one reveal box, and the form
with its draft (`DraftFromMapping`, `MappingFromDraft` and the edits).

### AnswerStream, AgenticAnswer, ModelGateway, AskPanel

`AnswerStream` is what one question's event stream promises: tool steps, then one
terminal event, then the end.  `AgenticAnswer` is the service: the loop with its
budgets, each tool call in a transaction of its own (`ToolOpens`, `ToolReads`, then
success, a tool error, or a throw), the one-shot fallback, the trace, and the queue
that hands events to a reader which may be parked (`Push`, `Close`,
`ReaderPulls`, `ReaderResumes`).  `StreamKept` is the refinement: what the reader
has pulled is an `AnswerStream`.  Shredding the engagement and revoking the
caller's role happen between any two steps.

`ModelGateway` is the message history that the loop resends every turn, in either
provider's form, and which one-shot calls are metered.  `AskPanel` composes
`AnswerStream` with the panel: two submissions can be in flight, because Enter
submits whatever the button says.

### EngagementViews, GraphPanel

`EngagementViews`: a request is one transaction of several statements, and the
database changes between any two of them by landings, links and extraction runs
that replace a run's facts.  Requests are the provenance of a fact and of an
entity, the graph under its caps, a page of facts, and the context of an answer.
The reader of the list keeps what it has shown (`walk`), pages by the cursor, and
filters.  `Commits` precedes `Responds`, as the interceptor does it.

`GraphPanel`: the fetched graph, two filters, the nodes in view, the selection and
the provenance fetch, each event with the effects React runs for it.  A fetch may
come back after the selection moved (`FetchReturns`).

### SeedDemo, ReviewTool

`SeedDemo`: every transaction of the script is a step, the script may stop after
any of them (`SeedStops`), a second one may reset what the first builds, and the
worker that extracts does not stop with it.

`ReviewTool`: a run `Loads` the threads, `RunsPasses`, then withdraws,
acknowledges, posts, resolves, reopens, `Submits` its verdict and `WritesSummary`,
in that order, each call failing or losing its reply, the run `Cancelled` between
any two; `PersonAnswers` between any two as well.  A finding stands for its key.

### Compositions

`MCGraph`, `MCReads`, `MCAdministration` and `MCOrigins` check several modules in
one run.  Where these share no state a behaviour runs one of them (the variable
`side`): the run is then several checks with one set of constants, not an
interleaving of them.  True compositions, with shared state and steps of both, are
`CryptoShred` (over `EngagementKey`), `ConnectorSync` (over `SourceLanding`),
`CaptureSession` (over `ExtractionPipeline`), `AccessPages` (over `BreakGlass`),
`IntegrationsPanel` (over `CustomIntegrations`) and `AskPanel` (over
`AnswerStream`).

## 4. Runs, bounds and fairness

| Run | Shows | Bounds and why they are enough |
|---|---|---|
| `shred` | No writer outlives the key, no rotation loses content, the lifecycle is kept; what the audit says of the purge is true; a started purge ends | one session, one rotation to a usable or a refused key, two shred requests, one execution with two attempts of each activity, three rows in two tables with batches of one: a short batch, a full last batch, an abandoned attempt beside its retry |
| `sync` | Rows land once, the cursor stands for landed rows, extractions start once, a sync ends | a manual sync beside a scheduled one with one attempt each, or one sync of two attempts, over two versions; an attempt may die with a transaction open |
| `origins` | The cursor is a low-water mark (Linear, Granola) and a quiet run lands all; a merge is recorded once; no decision marker dangles; a finding of the review tool has one thread, an approval is earned, silence is no fix | three documents, five versions, two versions to a stamp, pages of one, two runs; one item of each connector, three edits, sync and webhook, each policy; two scripts over two meetings, one note, an issue, a pull request, a push; three findings in two passes, two close to each other; two runs of the tool, or a third after two that went well; all three findings where a thread is there, two at a time elsewhere (without that bound, `FewAtWork`, the run holds as well and takes twice the time) |
| `capture` | No signal is missed, no output lost to a purge, workflows end | one bot, two store and two extraction attempts, two purge attempts, two polls, a window of one tick, every policy |
| `graph` | Rows gather only what their keys tie; serial deliveries converge; serial decisions hold; a completed linking has its mentions; who is suggested as a duplicate does not hang on who landed first; the windows cover a transcript | five artifacts with a person behind four refs and two work items; five decisions over three people; two deliveries of an item each, one of them repeated, two attempts; two people with any names of up to four of two letters, the shortest where the matching window reaches a neighbour; texts of up to eight characters, windows of up to four, any overlap |
| `administration` | Only real changes audited, each once, revocation final, pages of the log repeat nothing and lose at most rows of a cursor's millisecond; a deprovisioned person stays out; the schedule follows the configuration; pushes land whole; the panel shows the rows | a grant with six calls within two ticks; four of them within three ticks, two to a millisecond, and three pages of two rows; three logins, a deprovision, a restart, two keys, an admission, a list; two administrators over two engagements; two integrations, three mappings, one push at a time |
| `reads` | The stream keeps its promise and ends, what a model read is logged but for a read whose model call failed, the composer is freed, the history answers every call; the graph is complete or flagged, no fact is shown twice and none skipped outside a cursor's millisecond, the panel is about the selection | three turns, two tool calls, two questions at once; two sources with two facts a run, caps below, at and above what is there, pages of three, three extraction runs over four ticks, two to a millisecond; graphs of four nodes, two fetches in flight |
| `sync_handoff`, `paging_github`, `unchanged_text`, `saved_despite_outage`, `fact_pages` | expected to fail: section 6 | the instance of the passing run of the same module, or smaller |

Bounds in the modules' guards (`Max...`, `...Attempts`, `...Tries`) cap attempts,
runs, edits and ticks; each stands in a CONSTANT.  A bound that stops a process
leaves it where an idle one would be, so that no property is kept by it alone: the
liveness properties speak of processes that were started.

`CHECK_DEADLOCK FALSE` is given where every process may be over or all bounds
reached; in `sync` and `shred` a named step (`Quiescent`) stands
for the end, so that a real standstill is still found.

Fairness.  A transaction that may go on does so (Postgres wakes lock waiters, a
rolled-back client releases its locks); Temporal dispatches the current attempt
of an open execution and learns of one that returned or whose heartbeat stopped;
timers fire; the loop and the reader of a question run on the event loop of one
process.  Nothing is assumed about failures, about a meeting ending, a webhook
arriving, or an abandoned attempt being slow: those steps are never obliged to
happen.  `SyncEnds` holds because a death releases the row locks of the attempt;
`WorkflowsEnd` because the poll loop is bounded and its wait has a timeout;
`QuestionEnds` because the loop's budgets are finite and `Close` wakes a parked
reader.

Properties that the modules state and no listed run checks hold when added to the
run named; those marked * are theorems of section 5 as well:
`CompletedMeansAuditedPurge`\*, `PurgeOnlyDeadCiphertext`\* (`shred`);
`CompletedMeansLanded`\*, `LandedWhole`\* (`sync`); `EdgesHaveEnds`\*,
`TextlessItemsCurrent`\*, `SummaryMeansWhole`\*, `OneDemo`\*,
`WavedOffStaysDown`\* (`origins`);
`WindowKept`\* (`capture`); `EdgesJoinNodes`\*, `EdgesJustified`\*,
`FactsNeedPriorRow`\* (`graph`); `ResolutionFollowsSchema`\*, `RolesHangOffTenant`\*,
`ShownKeyWorks`\*, `ScopeClaimedOnce`\*, `OmittedFieldsKept`\*, `RemovalLeavesNoEnds`
(`administration`); `QuestionBounded`\*,
`TraceNeverDangles`\*, `DerivationsComplete`\*, `QuotesWholeOrNone`\*,
`ServedReadsLogged`\*, `DrawnHangsTogether`\* (`reads`).

## 5. What is proved

TLAPS checks every theorem for every value of the constants, under the named
assumptions of the modules: finite sets and numbers where the code has tables and
counters, and a few facts about the code named where they are used below.  The
argument is the same throughout: an inductive invariant (`...Inv`) that holds
initially, is kept by every action, and implies the property.  What follows says, of
each, what the invariant adds to the property and why the property does not hold
itself up.

**CryptoShredProofs** (`EngagementKey`, `CryptoShred`).

- `KeyTypeCorrect`, `ContentStaysReadable`, `OpenSessionsAreLive`,
  `ShredIsAuditedOnce`, over `KeyInv`: while a session or a rotation holds the row,
  the wrapped DEK it read is the one in the row (`LockInv`, `SessionInv`,
  `RotationInv`).  Without it a rotation could write back a key that a shred has
  destroyed.
- `PurgeAuditIsTrue` (`PurgeAuditMeansClean`), `CompletionIsAPurge`,
  `PurgeAfterTheKey`, over `ShredInv`.  The audit is written by whichever attempt
  gets there, so `PurgeInv` follows every attempt: the tables before its own are
  clean, and a batch that comes out short holds all that its table has left.  It
  rests on `PurgeAfterTheKey`: no session is open once a purge has begun, so what is
  clean stays clean.
- `KeyImplementsLifecycle` and `ShredImplementsLifecycle`: both refine
  `EngagementLifecycle`, step by step; `ShredKeepsTheKeysPromises` carries the
  theorems on the key over to the workflow that destroys it.

**ConnectorSyncProofs** (`SourceLanding`, `ConnectorSync`).

- `LandTypeCorrect`, `VersionLandsOnce`, `SourcesLandWhole`, `AnswersAreTrue`
  (callers are told the truth), over `LandInv`: a row in flight has no rival,
  committed or not, which is what the unique key buys.
- `SyncTypeCorrect`, `CursorStaysSound`, `TranscriptExtractedOnce`,
  `CompletedSyncLandedAll`, `SyncLandsSoundly`, over `SyncInv`.  A cursor is written
  long after what it stands for landed, so `AttemptSound` follows each version from
  the listing through the stream to its row.  An extraction is started by a
  workflow, from what an attempt remembers; `ExtractionSound` ties it to the one row
  that attempt wrote, and so to one workflow: two syncs never report one
  transcript.  `RowsOnlyGrow` is the action property under both.

**CaptureProofs** (`ExtractionPipeline`, `CaptureSession`), over `CaptureInv`.

- `NoSignalIsMissed`: `SignalInv` says that a signal leaves a trace in every phase,
  the flag or a poll that has seen the bot done, because the flag is cleared before
  the poll.
- `PurgeIsAfterOutput`: a body blanked for an ephemeral policy, or about to be, has
  a registered run, and a registered run has its output, whatever abandoned attempts
  wipe (`OutputInv`).
- `WindowIsKept`: no deadline in memory, in the session, a run or a timer, is nearer
  than the end of the window that began with the row (`DeadlineInv`).

**GraphProofs** (`GraphWrite`, `IdentityReview`, `TranscriptChunks`,
`AgenticLinking`, `NameMatching`).

- `RowsStayTied` (`RowsGatherOnlyTied`): a transaction overwrites rows with what it
  computed from rows it read earlier, so `RowsInv` speaks of every copy of a row:
  committed, written and not committed, or merely read.  Each has the refs of
  records tied by shared keys.  `EdgesAreJoined` says the same of edges.
- `SerialConverges` (`SerialWritesConverge`), over `SerialInv` and `ItemsInv`, which
  say what each transaction has done so far as long as nothing has overlapped:
  every record written can be found, and a work item has one row.  The second uses
  `ItemsKnownByOneRef`, as a connector gives an item one ref
  (`linear-connector.ts:178`, `github-connector.ts:225`).  `GraphAssumption` says
  that `Plan` yields sequences of records, since tlapm knows no `SelectSeq`.
- `SerialReviewHolds` (`SerialDecisionsHold`): while no other decision is under way
  what a merge read and computed is still so when it commits (`StillRead`).
- `ChunksCoverTheText`: the next chunk starts past the start of the last one and ends
  no sooner.  The second half is the hard one: a line break that would cut the later
  window sooner lies far enough into the earlier one to have cut it.
- `FactsAreAboutOlderRows` (`FactsNeedPriorRow`), over `FactInv`: a row that only its
  own transaction can see has no refs but those of records the transaction has
  written, so the merged item it writes next cannot meet such a row and report it as
  changed.  This needs `MergedItemsComeOnce`: an artifact brings a merged item at most
  once, as GitHub's `normalize` makes one entity of a pull request
  (`github-connector.ts:207-275`).
- `CompletedLinked` (`CompletedLinksMentions`): from the scan on, what a text names
  and an older landing stored is among the matches, and a retry starts over
  (`LinkingInv`).
- `EdgesAreJustified`, over `GroundedInv`: what an attempt holds and has not written
  yet is named by its item's text, or was approved for that item.  An edge outlives
  the attempt that justified it, so the approvals are never taken back.
- `SuggestionsAreMutual` (`SuggestedEitherWay`): for any names over any letters a pair
  is suggested, or is not, whoever landed first.  The loop of `jaroWinkler` runs over
  the letters of its first argument and is greedy, so it is not symmetric by its text.
  The proof shows that its pairs are a stable matching (`MatchedIsStable`): no two
  equal letters within the window would both rather have had each other than what they
  got, where each prefers an earlier place.  There is only one such matching: of two
  that differ, a pair in one and not in the other with the least sum of places gives
  each a better partner than the other allows.  Turning a stable matching round gives a
  stable matching (`MatchedTurns`), hence the same pairs from either side, the same
  number of misplaced letters and the same prefix; `MatchInv` then says that the
  queue has what a scan saw of both.

**AdministrationProofs** (`BreakGlass`, `AccessPages`, `Access`, `ConnectorAdmin`,
`CustomIntegrations`, `IntegrationsPanel`).

- `SecondPersonAlways`, `AuditExact`, `RevokedStaysRevoked`, over `GrantInv`: the row
  that an approval read under FOR UPDATE is the row it writes (`LockInv`).  A
  `SELECT` without the lock breaks exactly this part.
- `PagesLostAreTies` (`PagesLoseOnlyTies`), over `PagesInv`: the cursor divides the
  log, no row returned lies past it, and every row promised does, was returned, or
  was lost to rounding.  It holds for every `Precision`.  That no row is lost at all
  (`EachRowOnce`) is false of a cursor coarser than the column (section 6), and the
  theorem says that its rounding is the only way to lose one.
- `ScheduleIsAsConfigured`, `ScopesAreClaimedOnce`, `FieldsAreKept`, over `AdminInv`:
  a request holds its row from the upsert on, so what it read, and what it told
  Temporal, is still so when it commits.
- `OutStaysOut` (`DeprovisionedStaysOut`), over `AccessInv`: once the event has
  disabled a person's rows, with none of their logins under way, nothing that is
  under way can open a session or make an account active (`Gone`), across restarts.
- `RolesAreUnderTenant` (`RolesHangOffTenant`), `ShownKeysWork` (`ShownKeyWorks`) and
  `ClientFollowsSchema` (`ResolutionFollowsSchema`), over `GrantsInv`.  Tuples are
  written one by one between failures and restarts: every engagement with a role on it
  has its parent tuple (`TuplesInv`), and a run that issues a key has granted it every
  engagement that is not still to do (`KeyInv`), which is what is left when the key is
  printed.  The in-memory client walks a table of rules where SpiceDB follows its
  schema; the two agree on every permission for whatever tuples there are, as long as
  they have these shapes.  `AccessAssumption` says that the roles granted are the
  schema's: `parseAddMemberBody` refuses others, SpiceDB does for the script, whose
  usage names no other.
- `PushLandsWhole` (`PushesLandWhole`): a push is checked whole, and against one
  mapping, before anything is written (`PushInv`).  `PanelShowsTheRows`: between the
  API's answer and the panel's hearing of it the reply has the row as it is
  (`CardsInv`).

**ReadsProofs** (`AgenticAnswer`, `AskPanel`, `ModelGateway`, `EngagementViews`,
`GraphPanel`).

- `AnswerImplementsStream` (`StreamKept`), over `AnswerInv`: an event is in the queue,
  in the hand of a reader that was parked, or seen, and the three laid end to end
  are one stream of the kind `AnswerStream` promises.  `OnlyFailureLosesARow`
  (`ReadsLoggedOrFailed`) on top of it: nothing follows the fallback's read but its
  answer, which commits the read's row, or the error that the user is told of, so at
  most one row is ever lost and never behind an answer (`ReadsLogged`).
- `QuestionsAreBounded` (`QuestionBounded`), over `CostInv`: an outcome is seen, in the
  hand or in the queue, and what the three places hold together is never more than the
  calls that the loop has counted, so what the user sees cannot exceed the budget even
  though it is the loop that counts.  `TracesAreClosed` (`TraceNeverDangles`): a trace
  is open only inside the scope that closes it on the way out (`TraceInv`).
- `ComposerIsFreed`: what the panel shows is of some stream in flight, not
  necessarily of the last one asked.  `HistoryIsAnswered`: the results of a turn and
  its calls not yet made are, laid end to end, the calls of the last message
  (`GatewayInv`).  `PanelStaysOnSelected`: a fetch that is not cancelled is about the
  selection (`FetchInv`).  `DrawingHangsTogether` (`DrawnHangsTogether`): filters and
  resets take the selection along with its node (`SelectedDrawn`).
- `GraphWholeOrFlagged`, `EntityDerivations`, `QuotesShownWhole`, `ReadsAreLogged`,
  `FactsLostAreTies` (`FactsLoseOnlyTies`), over `ViewsInv`: what was there when a request began and still is (`steady`) is in what
  its statements read so far, each part leading to the next (`ReqInv`); and the walk
  through the fact list divides it as the log's pages do (`WalkInv`, `ListInv`),
  and loses no more.

**OriginsProofs** (`ConnectorPaging`, `WorkItems`, `SeedDemo`, `ReviewTool`).

- `CheckpointsAreSafe` (`CheckpointSafe`) and `QuietRunsLandAll` (`QuietRunLandsAll`),
  over `PagingInv`, for any documents and page size.  `WalkInv` says what a walk leaves
  behind it: a document that it will not list any more is landed, is about to be, or
  is as new as all that the walk has met, so that no checkpoint of it can pass that
  document.  Granola checkpoints in mid-walk and needs `OldestFirst` as well: what is
  edited while there are more pages comes behind the last item of the page.  That
  holds with at most two versions to an `updatedAt` and fails with three (section 6),
  so both theorems carry the condition `Keeps`: Linear, or Granola with
  `Granularity <= 2`, which is what the run checks.  GitHub is left out because it
  fails (`paging_github`).

- `MergeIsRecordedOnce` (`OneMergeFact`), over `ItemsInv`.  Versions are copied into
  webhooks and pages that arrive late, so `VersionInv` speaks of every copy of a
  version there is: none of them is merged and older than another that is not.
  `MergeInv` then ties the fact to what `detectStatusChange` compares with: once a
  merge is on record the item's entities say merged, as long as none of its
  deliveries was overtaken.  With one that was, the property fails: a late version
  reopens the entity and the next records the merge again.
- `TextlessItemsFollow` (`TextlessItemsCurrent`), over `RowsInv`: of an item none of
  whose deliveries was overtaken no row is newer than the last delivery, equal versions
  have equal states, and the entity shows the newest row's.  A delivery with no text to
  keep is hashed by its version, so it is not taken for an older row and dropped; one
  with a text may be (`unchanged_text`, section 6), which is why the theorem speaks of
  textless ones.  `EdgesAreWhole` (`EdgesHaveEnds`): an edge runs from a person of the
  same artifact, or from a decision that its text marks; nobody's name is the missing
  one (`ItemsAssumption`).
- `SummaryIsOfAWholeDemo` (`SummaryMeansWhole`), over `WholesInv`: from each stage of a
  script on, everything its data set has for the stages before is in its demo, unless a
  reset took the demo away.  `OneDemoIsLeft` (`OneDemo`), over `AloneInv`: while
  scripts do not overlap, what a script has looked for and not found is still not
  there when it inserts it.
- `MarkersNeverDangle` (`MarkersPoint`), over `SeedInv`: a decision that a run of the
  script has picked is of that run's own demo, and cannot go sooner than the demo
  does, so a run that writes a marker after its demo was reset away fails instead.
  `SeedAssumption` says what the datasets do: only tickets and pull requests carry
  markers, each for a meeting, and no artifact is of two kinds.
- `FindingHasOneThread`, `SilenceNeverFixes`, `WavedOffIsKept`, `ApprovalIsEarned`, over
  `ToolInv`.  A run acts on what it read at its start.  `SeenInv`: the threads it read
  are still the first of those there, each with its finding and with marks that only
  grew.  `PlanInv`: the calls left are among those planned.  `PostInv`: a finding
  about to be posted has no thread.  `ClosedInv`: a thread that was read closed is
  closed unless its finding stands.  The three action properties compare a thread
  with what the run knew of it, which `ToolInv` ties together.  They need one run at
  a time, which the workflow's `concurrency` gives.

**FiniteOrders** has the lemmas that stand in for induction over data: in a finite
set a strict order has a first element (`FirstOf`), integers have a least and a
greatest one, and what a page of a table has is before what it lacks (`PageFacts`).
For what the code computes by looping, a set of numbers that has 0 and with each number
the next one up to a bound has them all (`UpTo`), and a function built by a step from
what it was before exists and obeys the step (`Iterates`): the loops of `NameMatching`
are written as such steps and what holds of them is proved for names of every length.

`PROJECT.json` lists the results under `theorems`; the modules hold, besides, the
invariants and lemmas they rest on and some smaller theorems named above.

What stays with TLC.

- `StartedPurgeEnds`, `SyncEnds`, `WorkflowsEnd`, `QuestionEnds`: liveness.  Fairness
  speaks of ENABLED, which the prover does not handle.
- `RemovalLeavesNoEnds`: an edit of a draft filters its relationships with `SelectSeq`,
  which takes an operator; the library has no fact about it and the provers cannot
  expand it.  `Plan` of `GraphWrite` is a `SelectSeq` as well, which is why
  `GraphAssumption` states what it yields and TLC evaluates that on each instance.
- The runs of section 6, each of which shows a behaviour that exists.

## 6. Where code and claims differ

Shown by a run (`PROJECT.json`, `findings`):

- `sync_handoff`: the transcripts to extract are kept in the attempt.  A sync that
  fails after landing one finds it as a duplicate on retry and reports nothing; the
  transcript is never extracted.
- `paging_github`: pages by number over a list ordered by update time.  A pull
  request edited mid-walk shifts the rest by one; the one skipped is behind the next
  page's checkpoint.
- `unchanged_text`: the dedupe hash covers the text alone, so a merge that leaves
  the description as it was is a duplicate: its state is never stored and its fact
  never written.
- `saved_despite_outage`: a 503 from Temporal rolls the request's transaction back,
  and the configuration that the comment calls saved with it.
- `fact_pages`: the cursor of the fact list has milliseconds, `created_at`
  microseconds, and all facts of one extraction share theirs.  Where a page ends among
  them the rest of them is newer than the cursor and on no page.  The facts of the
  integration test are seconds apart.

Refuted in the same way by adding the definition to the run named, with the change
of a constant where one is given:

| Definition | Run | What it shows |
|---|---|---|
| `NoDuplicatePurge` | `shred`, `MaxExecutions = 2` | a repeated shred request starts a second purge once the first has closed |
| `BackfillIsFull` | `sync` | worker shutdown ends a backfill as if it had drained |
| `EphemeralRawPurged` | `capture` | an abandoned store attempt moves the deadline after the extraction read it; the purge declines once and the body stays |
| `RunWrittenOnce` | `capture` | the wipe that makes a retry safe runs before the insert that waits for the abandoned attempt; a run's facts are written twice |
| `EachRowOnce` | `administration` | the same cursor in the access log: a row written in the millisecond of the last row of a page is on no page (`list-access.ts:57-64`), where the integration test pages through nine rows to nine ids (`break-glass.integration.test.ts:158-200`) |
| `ReadsLoggedRegardless` | `reads` | the rows that `retrieval.service.ts:240-242` logs "whether or not a model call over it succeeds" are in the transaction of the fallback's model call, and roll back with it |
| `OneMergeFactEver` | `origins` | a version that another overtook reopens the merged item, and the next one records the merge again |
| `CheckpointSafe` | `origins`, `Providers = {"granola"}`, `Granularity = 3`, `MaxVersion = 6` | an edit that shares its `updatedAt` with the last item of a page and sorts before it falls behind the walk, and the next checkpoint passes it; the dedupe key of `granola-connector.ts:204-205` absorbs what is emitted again, not what is left out |
| `LandedFindable`, `OneRowPerItem` | `graph` | overlapping deliveries lose refs or insert an item twice |
| `EveryPairSuggested` | `graph`, `MaxPersons = 3`, `MaxLength = 2` | a scan compares with the oldest 500 people only (one in the run): a later pair is never suggested (`candidates.ts:66` against `:26-27`) |
| `ColleaguesSuggested` | `graph` | the scan runs before the organisation edge of the same artifact is written: a borderline pair of colleagues is not suggested until one is seen again (`matching.ts:193-194`) |
| `CeilingKept` | `graph` | `lastIndexOf` looks at the character behind the window too: a chunk that ends in a line break there is one longer than the ceiling (`chunk-transcript.ts:65` against `:9`) |
| `MergesFold` | `graph` | two merges over one person: the second writes the refs it read before the first |
| `StartsAfresh` | `reads` | "New conversation" while a question is in flight: its answer is the first turn of the new one |
| `OneUsagePerTurn`, `NeverMissesBilledCall` | `reads` | a billed response that does not parse, is cut off or empty is not metered (`openai-compatible.ts:70` against the comment at `:123`) |
| `OnlyPeopleDismiss` | `origins`, `Findings = {"crash"}`, `MaxRuns = 3` | a thread the tool resolved while its reply was lost reads as dismissed by a person (`github.ts:620` against `:125-127`) |
| `VerdictOnRecord` | `origins`, `Findings = {"crash"}`, `MaxRuns = 3` | the summary lost after a verdict leaves the next run comparing with the wrong one (`github.ts:650-653`) |

Seen while modelling, without a definition of their own:

- Graph: a person bridged by a lower tier leaves two rows that share a ref; the pass
  that `resolve-entity.ts:56` counts on skips pairs that share a ref
  (`candidates.ts:78`).  A merge's `repointEntityEdges` drops the confidence of an
  edge it moves.  A linking start that is lost is never repeated, and an edge to a
  fact that an extraction rerun replaces is left dangling.
- Access: `workos_user_id` has no unique index; overlapping first logins under two
  addresses make two rows, after which every login fails on the unique address.  A
  deprovision revokes the sessions of one process and leaves keys and tuples;
  nothing revokes a tuple.  `DeprovisionedStaysOut` leaves out a login that overlaps
  the event.
- Settings: workers never read `enabled`; no request clears a credential; two manual
  syncs of one millisecond share a workflow id; a push that has read its row is not
  stopped by a rotation or a switch-off; a second secret overwrites one that is
  still shown; adding an entity after removing one reuses its key, which the API
  refuses; blank and untrimmed attribute names are lost through the form.
- Questions: text the model writes beside tool calls can become the answer; the stop
  reason `max_tokens` is ignored; the call of the fallback is in no trace;
  an answer of blanks makes the next question's history invalid.
- Views: `graph-layout.ts:153-164` does not hold of a graph truncated by a cap; a
  component without a seed node cannot be reached by clicks; a link to a fact may be
  dead after a rerun.
- Capture: a crash between creating the bot and recording it makes a second bot
  (documented); an extraction that fails for good never purges an ephemeral body; a
  retried store whose transcript changed inserts a second source.
- Demo: a rerun over a half-built demo without `--reset` calls it complete; two
  scripts at once can make two of it, and `--reset` deletes one; a decision marker
  written before its fact is dropped for good.
- Review tool: a summary that could not be read is written again; a person tidying a
  fixed thread makes a later regression count as dismissed; a `--comment` run does
  not withdraw an approval; a thread with over thirty comments is read in part.

## 7. What is not modelled

- Pure data: the encryption primitives and AAD (`EngagementKey` takes a sealed value
  as the key that sealed it), pricing, embeddings and the vector ranking, Unicode
  folding of names (`NameMatching` starts from folded ones), the demos' fixtures.
- I/O: HTTP clients, rate limits, Nango's credentials, signature checks, the OAuth
  exchange, stdio serving of the MCP server, tracing.
- The plumbing of endpoints that hand on to an operation modelled elsewhere (the BYOK
  endpoint, the question and MCP endpoints); `getPipeline`.
- SpiceDB's `minimize_latency` reads, whose staleness the repository does not bound.
- Of the web application: layout, routing, the key and danger panels.  Of the review
  tool: the diff, the model calls, configuration, `--fail-on`.
- The evaluation harness (offline) and the schema (declarative: its unique keys,
  foreign keys and policies are the tables of the other models).

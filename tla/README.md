# OpenCS in TLA+

OpenCS (`src/`) is a customer-service agent: customers write over a channel, LLM
workers propose *action plans*, a harness decides which plans may be carried out
at once and which wait for a human, and an evolution layer lets the system change
its own skills, memory and tools through reviewed proposals.  This directory holds
TLA+ models of that code, the TLC runs that check them and the TLAPS proofs about
them.  Paths below are relative to `src/src/opencs/` unless they start with `src/`.

## 1. Inventory of the system

One Python process, one asyncio event loop.  The stores are SQLite files that commit
on every call, or plain dictionaries of the process.  A coroutine can be interrupted
only at an `await` that really suspends (LLM call, HTTP call, socket); everything
between two of them is atomic for the other coroutines, but not for a crash and not
for an exception.

| Component | State | Operations | Talks to | Hard behaviour | What makes it correct |
|---|---|---|---|---|---|
| Orchestrator `agents/orchestrator.py` | local variables of each running `handle` | `handle`, `_execute_plan` | workers, guard, channel registry, tool executor, memory | concurrent calls on one conversation, an exception at any statement, crash | plans are decided in order, each takes effect at most once and only when approved; every message is dealt with |
| Workers `agents/cs_reply.py`, `llm_client.py` | none | `run` | LLM | slow or failing LLM | a free-text reply is always Orange-C |
| ActionGuard `harness/action_guard.py` | none of its own | `evaluate` | token factory, HITL queue, audit log | the audit insert fails after the decision was taken | exactly one decision per plan, audited before anything happens |
| Tokens `harness/token.py` | none | `issue`, `verify` | adapters, executor | expiry | an effect verifies a token of its own action |
| HITL queue `harness/hitl_queue.py` | dict in memory | `enqueue`, `approve`, `reject` | guard, reviewers | two reviewers, restart | one verdict per held plan, nothing lost |
| Audit log `harness/audit_log.py` | SQLite table | `append`, `recent`, `list`, `count` | both guards, admin API | rows of one time stamp, filters, totals | append only; every decision is there |
| Memory L0/L1/L2 `memory/` | event table, session dict, versioned notes with FTS | `record_inbound`, `load_context`, `write_l2` | orchestrator, replay, evolution | read-modify-write of the turn counter, restart | log brackets every tool call; turn counter counts |
| Tools `tools/` | registry dict | `register`, `deregister`, `execute` | orchestrator, evolution handler | tool removed between approval and call, HTTP errors | a call needs a valid token and a registered tool |
| Channels `channel/` | subscribers of WebChat | `send`, `parse_inbound`, `subscribe` | gateway, orchestrator | socket closes before the push runs, batch of messages, repeated callbacks | replies go to the sockets of their conversation |
| Gateway `gateway/routes_*.py`, `app.py` | open sockets | websocket loop, webhook, replay and admin routes | channels, orchestrator, evolution, replay | retry of a slow webhook, handler exception closes the socket | one `handle` per message |
| Evolution store and queue `evolution/proposal_store.py`, `persistent_queue.py` | SQLite table of proposals | `save`, `update_*`, `list`, `enqueue`, `approve`, `reject` | admin API, pipeline | stale snapshot overwrites a newer row, two reviewers, order of the queue | one verdict per queued proposal, first in first out |
| Evolution gate, shadow runner, handlers `evolution/gate.py`, `shadow_runner.py`, `handlers/` | skills directory, L2, tool registry | `evaluate`, `run`, `apply` | store, replay, audit log | proposal changes while its replay runs, crash between apply and the status update | nothing risky is applied without a reviewer |
| Replay `replay/` | none of its own | `ReplayEngine.replay`, `diff` | L0, doubles for LLM, tools, channel | order of events read back, cache keys that never hit | a replay has no outside effect; verdict fits the differences |
| CRM configuration `evolution/crm_config_store.py` | one SQLite row | `save`, `get` | admin API, wizard of the web UI | edits while a validation is on its way, lost answers | what is exposed is in the stored schema |
| Admin API, web UI `gateway/routes_admin.py`, `src/web-ui` | browser cache | list, approve, reject, statistics | store, queue, audit log | pages by offset while the tables change, cached pages, totals | a reader who comes to the last page has seen what there was |
| Skills, tracing, approval router | read-only | `match` | orchestrator | - | - |

`PROJECT.json` lists the same components with the modules that model them, and every
place of the code that is hard to test (`hazards`).

## 2. Modules

| Module | Models |
|---|---|
| `Harness` | risk tiers, the automatic tiers, the guard's decision (`harness/action_plan.py`, `harness/action_guard.py`) |
| `GuardedExecution` | abstract: one decision per action, an effect only for an approved request and only once |
| `Conversation` | `Orchestrator.handle` and everything it calls, for any number of concurrent calls: workers, guard, audit log, HITL queue and its reviewers, adapters, tool registry and executor, L0 and L1, exceptions, restarts |
| `ReviewQueue` | abstract: a first-in first-out queue in which a verdict is accepted once |
| `ProposalStore` | the table of proposals and the persistent review queue, which is a view of it (`evolution/proposal_store.py`, `persistent_queue.py`) |
| `EvolutionGate` | `EvolutionGate._policy` for the three dimensions, pure |
| `Evolution` | drivers that take proposals through shadow replay, gate, handler or queue, and the reviewers of the admin API; composes `ProposalStore` and `EvolutionGate` |
| `ReplayDiffer` | `replay/differ.py`, pure |
| `Replay` | a conversation that goes on logging, and one `ReplayEngine.replay` of it with the doubles for LLM and tools; uses `ReplayDiffer` |
| `ReplyFeed` | abstract: the replies of a conversation as a feed that readers join |
| `WebChat` | the sockets, their endpoints, the subscriptions of `WebChatAdapter` and the push tasks |
| `WecomInbound` | the WeCom platform and the webhook: callbacks, attempts, `parse_inbound`, the handler, restarts |
| `AdminListings` | a client that pages through the audit log or the proposals while the tables change; uses `ProposalStore` |
| `CrmConfig` | the CRM wizards of the web UI, validation, and the one row of the configuration |
| `MC...` | instances for TLC |
| `...Proofs` | theorems about the seven components |

Definitions that a comment calls a mutation are variants with a plausible bug; no specification
uses them, they show that a property can fail.

### Conversation

A call of `handle` is a `Task`.  Its program counter `pc` names the place in the code:

| `pc` | The coroutine is |
|---|---|
| `idle` | not started |
| `worker` | suspended in `worker.run` (the LLM call) |
| `guard` | at the head of the loop over `all_plans` |
| `audit` | in `ActionGuard.evaluate`, before `AuditLog.append` |
| `execute` | at the start of `_execute_plan` |
| `call` | after the `tool_call` event, before `ToolExecutor.execute` |
| `tool` | suspended in the HTTP request of the tool |
| `done`, `raised`, `lost` | returned, left by an exception, gone with the process |

`Running` are the places between which a coroutine cannot be interrupted by another
one (`LoopFree` guards every other action), and `Restart` may happen at all of them.
`at` is the index of the current plan, `token` the action id of the token it holds.
`audit` and `l0` are SQLite tables (they survive `Restart`, as in a deployment that gives
both stores a file), `hitl`, `l1` and `tools` are dictionaries of the process (they do
not).  `effects` and `reviews` record what happened outside: replies delivered and
tool requests sent, verdicts given.

Action ids are fresh uuids in the code; here an action is the pair of its task and its
index among the plans.  Rows, events and queue items are sets, because their ids make
them unique; the order in which L0 is read back matters to replay only.  Every statement
that can raise has a branch to `raised`: a message that L0 refuses, context that cannot
be read, LLM failure, audit insert failure, missing adapter, an adapter that needs metadata
the orchestrator does not set (WeCom), an expired token, a tool that is gone, HTTP failure.

Two things the model shows that have no property of their own: after an exception of a tool,
or a restart, the `tool_call` event stays in L0 without a `tool_result`; and a restart empties
the HITL queue while the audit log goes on saying `hitl_queued`.

`wiring` is what `create_app` and the orchestrator were built with: a tool executor or none, a
memory store or none (the constructor defaults to none), and the registered adapters.  It is chosen
in the initial state and never changes.  Without a memory store nothing is read from memory and `Log`
keeps nothing: L0 and L1 stay empty, and a tool is called with no trace of it but the audit row.
So `ToolCallsLogged` (no request without its `tool_call` event) and `TurnCounts` speak of wirings with a
store; that no result is logged of a call that was not made, and all other properties, hold in every wiring.
`TurnCounts` is an equation until the first restart and an upper bound after it, because L1 starts
again from zero and L0 does not.

### Evolution

A row of the table is `rows[p]`; `older` holds the pairs of proposals in the order of their
rowids.  `Save` is `INSERT OR REPLACE`: it writes the whole snapshot its caller holds and gives
the row a new rowid, hence a new place in the queue.  `UpdateStatus` looks at nothing; only
`Decide`, the reviewers' approve and reject, looks for a pending row.

No code in the repository drives the pipeline.  The driver modelled here follows the
hand-off contract in `src/docs/superpowers/phases/2026-05-03-phase6-evolution-layer.md`, in the order of
`src/tests/test_e2e_evolution.py`: save, shadow run, gate, then `enqueue` or `apply` and the
record of it.  The steps that are not in `src/` code as a sequence are still calls of its
functions; only their order is the contract's.  A run is a coroutine; it suspends only in the
replay (`pc` `shadow`).  Several runs may drive one proposal: who was cut off tries again, with
the snapshot he created.  Every step may raise, and a restart loses all runs and nothing else:
table, audit log, skills and L2 memory are files.  What a handler writes is one fact per run
(`applied`); a tool registration does not survive a restart, `applied` says that it was made.
Gate rows carry the first twelve characters of a proposal's id (`AuditId`); the instances let
all proposals share one.

### Replay

Each log is kept in the order in which L0 lists it: by time stamp, ties in the order written.
Time is the number of events written.  An inbound message has the stamp its sender gave
it: web chat gives 1970 to one that names none (`Sent` is `Epoch`).  The live side is
`Conversation` reduced to what it logs, and goes on after the snapshot was taken; the replay
shares nothing with it but that one listing, so one replay is enough.

Action ids are `<<"live", m>>` and `<<"replay", row>>`, because the replay's workers generate
new ones: the cached branch of `Execute` is in the model and never taken, which is the finding
`served_from_cache`.  Nothing in `src/` writes `llm_call` events, only the tests do; whether
messages have one is a choice (`Recorded`, `LiveAnswer`: external).  Replies are in neither log:
a `CSReplyWorker`'s reply is Orange-C and stays in the queue.

A message without text (an image) is logged without one, and the text part that the replay builds for it
may not be empty (`Accepted`, `channel/schema.py`): `Said` puts a dot in its place.  A replay whose
message were refused would stand at `refused`, apart from the ends the LLM and the tool may
bring about (`raised`); `Ends` and the theorem `NoMessageIsRefused` say that none does.

The differ is applied as the engine does it, with no bad case named; `VerdictMeans` also asks it, on
the logs of every replay that is done, for each event that could be named.  Its rules are
documented in `replay/differ.py` and in the phase 5 note.  Where they agree with the code, `VerdictMeans`
states them: a regression goes first, then the bad case, and equal logs without one are a fix.  They
disagree where the logs differ, no success became a failure, and no bad case is named: the documents say
`INCONCLUSIVE`, which the code never returns.  `VerdictMeans` leaves this out,
`otherwise_inconclusive` is the finding.

### WebChat

A `Socket` is one connection, its endpoint one coroutine: `accept`, subscribe, then a
loop of `receive` and `handle`, and a `finally` that unsubscribes.  Each endpoint subscribes a closure of its own,
so the subscribers of a conversation are a set of sockets.  `Send` creates one push task per
subscriber; the event loop runs tasks in the order of their creation, so the tasks of a socket
are a queue (`pending`).  The client and the server in front of the endpoint are external.
That a client has left is noticed only where the endpoint waits for a message, after the
messages that came before.  A payload that does not parse, a raising handler and a restart
also end endpoints.  `feed` and `from` are history: the replies of each conversation, and
how many there were when a socket subscribed.  In both entry points (`main.py`) the
endpoint is wired without a handler; then `Receive` drops what it parsed (`HasHandler = FALSE`).
The runs wire one, as the tests do.

### WecomInbound

The platform is external: a callback carries no message, only a token with which the
gateway fetches those behind it (`behind`).  A callback is named by the first message behind
it; a request is a callback and the number of the attempt.  `pc` of a request:

| `pc` | The coroutine of `callback` is |
|---|---|
| `decrypt` | before or in `decrypt_message` and the reading of the XML |
| `fetch` | suspended in `parse_inbound`, in the call of `kf/sync_msg` |
| `handle` | suspended in the wired handler |
| `answered`, `failed`, `lost` | answered "success", answered by an error, gone with the process |

`platform` is what the platform knows of the latest attempt.  It may stop waiting at any time
(`TimesOut`), and then an earlier attempt runs on beside the next.  The gateway stores nothing
about messages it has seen, so the handler runs again on each attempt; `runs` counts that.
`Conversation` shows what each run of the handler does.  No cursor is kept between callbacks.

### AdminListings

One query of one client is followed: the audit log page of the web UI, whose cache has an
entry per filter and page, or a client that pages through the proposals in the same manner (the
review page of the web UI asks only for the newest 50).  `AnswerPage` is a handler of the gateway, which
has no `await`, so rows and total come from one state; the answer travels (`answers`) and may be
displayed late, again, or never.  `pages` is the browser's cache, which may show old pages
(`staleTime`, no invalidation) and may refetch any time; that it also forgets pages is left out, such a page
is fetched like a new one.  The tables change by the operations of
`ProposalStore` (every one that the pipeline and the reviewers use, in any order) and by appended audit rows.  `Total` has the differences between the page and
its total that the code has.  Times are numbers that stand for the texts SQLite compares.
`begun` and `seen` are history, `changes` counts the changes made to stored proposals since the
first answer.

### CrmConfig

A wizard is one open `/crm` page, its state the four `useState` values (the base URL is
left out: no step after the first depends on it).  `checks`, `puts` and `acks` are requests and answers on
their way, each under a `Call` of its own, so that a button clicked twice makes two.  An answer acts on whatever the wizard shows by then: `Validated` puts it on step 3 wherever it stands.
`DetectOperations` is the gateway's function; a text is reduced to what that function tells
apart (JSON or not, with `paths` or not, the operation ids, entries without one).  `detour` marks
wizards that edited the schema during a validation or went back from a selection; `straight`
says of which kind the stored row is.

## 3. Runs

| Run | Result | What it shows |
|---|---|---|
| `conversation` | passes | the type invariant, seven safety invariants, the refinement of `GuardedExecution`, and `Settles`, for a full wiring, one without tool executor and web chat, and one without memory store |
| `approved_is_executed` | violated | finding: nothing executes a plan a reviewer approved |
| `evolution` | passes | what is applied was cleared, the status column is backed by what happened, verdicts stand, the refinement of `ReviewQueue`, every run ends |
| `approved_is_applied` | violated | finding: nothing calls the handler of an approved proposal |
| `replay` | passes | a replay deals with its whole snapshot, in order, gives out each recorded answer once, refuses no message, reports no regression out of nothing, and ends; the differ's verdict against a direct reading of its logs |
| `regression_detected` | violated | finding: with two messages a regression may go unseen |
| `served_from_cache` | violated | finding: recorded tool results are never served |
| `otherwise_inconclusive` | violated | finding: a replay that differs without a bad case to judge by is called a fix |
| `webchat` | passes | no subscription outlives its endpoint, no reply is missed, doubled or out of order for a client that stays; the refinement of `ReplyFeed` |
| `wecom` | passes | "success" means handled, one run of the handler per attempt at most, and the only ways to lose a message |
| `admin_listings` | passes | the audit log is read in full; a reader of the proposals misses at most a row per change |
| `crm_config` | passes | a wizard on the straight way stores only operations of its own valid schema |

`findings` in `PROJECT.json` quotes the document each violated property comes from.

Bounds, and why they are enough:

* `conversation`: two messages of one conversation, handled concurrently by two workers, the
  first a `CSReplyWorker`, the second a worker of automatic replies over webchat or WeCom, or of
  none; one restart.  Calls interact only through stores that are updated per action, so two
  give every pairwise interleaving; two workers give lists of one to three plans of every
  kind that guard and `_execute_plan` tell apart; with one restart there is work before, during
  and after it.
* `evolution`: two runs of one proposal and one of another, six kinds of proposals on
  both sides of each rule of the gate, two reviewers, one restart.  Two runs of one proposal are what can
  overwrite each other, the other proposal gives the queue an order.  The violated runs have
  three proposals driven once each.
* `replay`: one message with a lookup and one without text, every mode, listing limit 5 (1000
  in the code), which cuts the log of two messages and that of its replay.  Logs of up to five events differ at several
  places, so that one rule of the differ can hide another, at every index up to one past the limit.  The violated runs have
  a limit that cuts nothing.
* `wecom`: two messages, three attempts, one restart.  Two messages are a batch or two callbacks
  in a row; three attempts let a late answer meet a platform that waits for another attempt, one
  that has given up, and one that was answered.
* `admin_listings`: pages of one row, four audit rows, three proposals of two dimensions, two changes
  of stored proposals, seven queries, with every filter, among them those whose total differs from the listing.  A page of one row has
  every boundary a longer one has.  `TotalCap` is 2 (10,000 in the code), so that the table can outgrow it.
* `crm_config`: one wizard with two calls on their way, interchangeable (`SYMMETRY`), and four texts: a schema with two
  operations and an unnamed entry, one with one of these operations, a document without paths, the empty field.  Wizards meet only in the row, which is replaced
  whole; that any number of them is as good as one is left to the proof.
* `webchat`: two sockets of one conversation, two messages each, two replies to the
  conversation.  One socket leaves while the other's handler sends; two replies have an order.  That
  conversations do not mix is left to the proofs, which hold for any.

Fairness is weak fairness of each coroutine's own steps: the event loop runs every
runnable coroutine and task, and both the LLM client and `httpx` end a request by an
answer or by a timeout of their own.  `Replay` needs it of a replay that was begun, `WebChat`
of endpoints, handlers (`Conversation`'s `Settles`), push tasks and the server that closes the
connection of an endpoint that ended, `WecomInbound`
of each request, of the platform's new callbacks and of its retries; how long the platform waits is open.  Nothing is assumed of customers, reviewers, tool
registration or restarts.

The runs with `CHECK_DEADLOCK FALSE` are those of systems that stop when their bounds are
reached: all runs driven, all messages sent, all sockets gone.

## 4. Proofs

All theorems hold for every value of the constants under the named assumptions, which say that
the constants have their types (and, in `Conversation`, that tools and channels are what their names say;
in the replay modules, that `NoEvent` is no event).  Every invariant the runs check is proved.

`ConversationProofs`: `TypeCorrect`, `EffectsAreAuthorised` (`Spec => []EffectsAuthorised`),
`EffectsAtMostOnce` (`[]AtMostOnce`) and `Refinement` (`ImplementsGuarded`).  None of them is
inductive alone.  The invariant `IInv` adds: a call past the guard stands at
one of its plans (`PlanReached`; otherwise an audit row could have no type); a call that is
about to execute holds an automatic tier and its row is in the log (`Cleared`); and the two
that carry the argument, `AuditBehind` and `EffectsBehind`: every row and every effect lies at
a plan its call has left behind or is just past.  Calls only move `Forward`, so what lies
behind stays behind (`BehindKept`), and a call that decides or executes a plan finds no row
and no effect of it yet.  `NotYetDecided` is what the refinement needs for the same reason.

On top of it stand three further invariants.  `OrderInv` gives `ToolCallsAreLogged`,
`PlansAreTakenInOrder` and `DoneIsDecided`: what a call has left behind was decided and, if a
tool was called, has its result (`LeftDealtWith`); a logged tool call lies behind its call or at the
execution (`CallsBehind`), so that going on to the next plan leaves no unanswered one; a call is done only
past its last plan (`DoneAtEnd`).  `HeldInv` gives `HeldPlansAwaitOneVerdict`: a request is what the plan says
that its action names (`Planned`), so that rows, queue items and verdicts of one action agree on
it, and a held or judged one is past its decision (`Waited`), so that the guard does not put it
back.  It also gives `ReviewedNeverTakesEffect`: no plan a reviewer has judged is ever executed,
which is the finding `approved_is_executed` for every instance.  `TurnInv` gives `TurnsAreCounted`: a call
that has not begun has no inbound event, and turns given out are not above the counter.

`EvolutionProofs`: `TypeCorrect`, `AppliedAreCleared`, `StatusIsExplained`, `LimboIsFailure`,
`VerdictsStand` and `QueueRefinement`.  `PolicySound` is the lemma about the gate: what it
promotes is not sensitive.  `Replayed` and `Gated` say what a run that has reached a place in
the pipeline has behind it (a conclusive replay, a row of the gate), `AppliedPast` that a run
which applied is at its record or past it, `LimboDriven` that a half-way row has a driver or a failed one.
A step changes the row of one proposal, so every lemma has a part for that row and one
for the others.  For verdicts the strengthening is `NotYetJudged`: while the single run of a
proposal is under way, nobody has decided it.  The refinement maps the queue to the
pending rows (`Pending`) in the order of rowids (`Ahead`).

`ReplayProofs`: `TypeCorrect`, `DoneReplaysAll`, `AnswersAreInOrder`, `RegressionsAreHonest`,
`CacheIsNeverHit`, `MessagesInOrder`, `RegressionsAreExact`, `PastStampsAreExact`,
`VerdictIsWhatItMeans`, `NoMessageIsRefused`.
`WrittenRows` says what an insertion in the order of time stamps does to a log of any
length: everything stays, one row comes.  With it, `LoopInv` carries which messages
have been taken, called and answered, `AtMessage` that the current row is one of the snapshot, `ResultsOwned`
that results of each side carry ids of that side, and `CacheServed` which answers were given out.
As ids of the two sides differ, no recorded result is ever found (`CacheIsNeverHit`, the
finding `served_from_cache` for every instance).

`MessagesInOrder` needs the places of rows.  `Shaped` says of a write where each row is
after it, `Shift` where an old row goes.  `InStep`: all logs are sorted by time stamp (`AllSorted`), the
replay's log has as many inbound messages as the trace has up to the current row, each a copy of
one of those (`CopiesBehind`), and the n-th of the one is the n-th of the other (`CopiesMatch`).  The
message taken next is no earlier than those before it, because the trace is sorted, so it
comes behind them (`InboundWrite`); any other write moves rows but not their order among the inbound
ones (`SilentWrite`).

`RegressionsAreExact` is about positions, because the differ compares position by position.
`Chained` says of a log that a lookup is called once, behind its message, and has one result, behind the call.
With one message and no recorded answer such a log has three rows at most, and a result stands
at the third place (`ThreeRows`), in both logs, and the listing limit has left it there in
the replay's log if it has in the trace.  `ChainInv` carries `Chained` through all steps, with
what the live side has logged of each lookup (`SoFar`), that each lookup in the replay's log belongs to a
message behind (`LookupsSoFar`), and that nothing in a log is of a time to come (`RowsBehind`).  The last needs a
hypothesis: `NoneAhead`, no message comes with a stamp above the server's time.  Without it the
property is false (TLC finds it for a stamp of 5: the message is listed behind its
lookup in the trace and before the result in the replay).  The theorem has `[]NoneAhead`
as its premise; `PastStampsAreExact` derives it where the stamps messages bring along are none above 0
(`NoneToCome`), as in the run.

`VerdictIsWhatItMeans` needs that the rows of the logs are events, so that what the differ canonicalises is
comparable: a regression is a success that stands against a failure at the same place
(`RegressedIff`), and that makes the place a divergence.  `NoMessageIsRefused` needs only that the stand-in
is a text (`MessagesAssumption`).

`WebChatProofs`: `TypeCorrect`, `SubscriptionsEnd`, `NoneMissed`, `FeedRefinement`.  The
invariant is subscriptions and types, that a socket nobody opened is idle, and a
window: what a served socket was given followed by what is on the way to it is the feed
from where it joined.  The refinement needs it also for sockets whose endpoint has ended and
which still have push tasks.

`WecomInboundProofs`: `TypeCorrect`, `AnsweredHandled`, `RunsBounded`.  A count is not
inductive; the invariant `RunsPast` replaces it by the attempts that are past the fetch, a set of
requests no larger than the number of attempts: a run of the handler takes one request past
the fetch, and a request passes it once.  `Shape` says that requests and answers belong
to attempts that were made and that a callback is the head of what is behind it.

`AdminListingsProofs`: `TypeCorrect`, `AuditRead`, `ProposalsAreRead`.  Appended rows only push matching rows down the
listing, so a row's `Rank` only grows.  `NotBehind` says that every row of the beginning that was not displayed yet
has at least the client's offset as its rank, `Beyond` that an answer, displayed, leaves only
rows behind its page, and none when its total ends there.  Both hold although answers are old.
Proposals leave a filtered listing, come back to it, and get new places; what is inductive is a potential.
The rows of the beginning that were not displayed and have slipped before the client's offset (`Slipped`), or
before the end of an answer on its way, are at most `changes` (`Slips`), and so are all that
an answer which ends the listing leaves unseen (`LastPages`).  A change moves the other rows up by one
place at most, and a place holds one row (`ByRowid` makes ranks differ), so it adds one at most.

`CrmConfigProofs`: `TypeCorrect`, `StraightStored`.  `OnTheWay` says of a wizard on the straight way
what its requests, its validation and its selection have to do with its text; with `SentAsDetected` it
carries over to requests that outlive the state they were sent from.

Only model-checked: the liveness properties, `Settles` (twice), `Ends`, `Reaches`,
`Unsubscribes` and `Accounted` (fairness is out of the prover's reach), and the five findings, whose
counterexamples TLC gives.

## 5. Plan

1. `Conversation`, `Evolution`, `Replay`, `WebChat` with their proofs (done).
2. `WecomInbound`, `AdminListings`, `CrmConfig` with their proofs; the wiring of
   `Conversation` as a choice of its initial state (done).
3. Proofs of the remaining invariants of `Conversation`, `Replay` and `AdminListings` (done).
4. `NotesStore`: the versions of L2 memory (`memory/l2_store.py`) and what the memory handler writes.

## 6. Observations

What the models show or reading them side by side with the code showed, and no run states:

* A fix whose replay found a new regression enters the gate like any other: only an
  inconclusive replay blocks (`evolution/shadow_runner.py`, and the phase 6 note), while
  `src/docs/superpowers/specs/2026-04-30-open-cs-mvp-architecture.md:355` takes it back.
* The `badcase_event_index` of the replay route never reaches the differ (`replay/engine.py:100`).
* A restart empties the HITL queue; the plans that waited are gone.
* A run whose replay was inconclusive writes `rejected` over a verdict a reviewer gave meanwhile, and an
  enqueue of an older snapshot writes `hitl_pending` over it (`StatusExplained` accepts both).
* A CRM wizard that left the straight way may store operations the stored schema does not have:
  the selection outlives Back, the text can be edited while it is validated, and
  `put_crm_config` does not compare the two.  The administrator did see each operation detected,
  but in another schema.
* The messages behind the first of a WeCom callback are never handled (`Accounted` names this
  loss).
* An audit row's time is compared as text with `since` and `until`; with mixed time zones text
  order is not time order.
* `approved_today` of the statistics counts among the last ten audit rows, of whatever day, and
  `rejected_today` counts a decision that nothing writes to the audit log.
* The web UI's detail view of a proposal is not refreshed after a verdict: the mutations
  invalidate `["proposals"]`, the detail is cached under `["proposal", id]`.

## 7. Not modelled

The LLM's text, prompts and skill matching (read only); HMAC signatures and hashes of tokens
(`verify` is modelled by the comparison of action ids, expiry by the raising branch); encryption
of the WeCom callback and its URL handshake; versions of L2 memory and what handlers write; the
contents and layout of API responses, single reads (`get`, statistics); tracing; the deprecated in-memory
evolution queue; vendored front-end code.  `ApprovalRouter` returns no plans and is covered by
the empty list of a worker.

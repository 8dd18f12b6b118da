# SearchTrust-RD: a TLA+ verification project

SearchTrust-RD is a FastAPI service with Redis/ARQ workers. A client (a Next.js
application with a Supabase database) submits report tasks; the service
executes them over minutes, survives lost workers and lost answers, pays for
provider calls within limits, and reports progress and results back. What the
reports say is computed by pure algorithms over stored snapshots.

This project models the durable job machinery, the provider calls inside a job,
the services beside the jobs, and the algorithms that collect a site and a
market, judge the evidence and put a report together. TLC checks them on small
instances; TLAPS proves the central results for every value of the constants.

Paths below are relative to `src/app/`.

## 1. Inventory

| Part | State it keeps | Hard behaviour | What makes it correct | Module |
|---|---|---|---|---|
| Job store (`jobs_v22/store.py`) | per job: snapshot, request, lease; idempotency keys; indexes active, sync-pending, recovery-pending | optimistic transactions of many clients, key expiry, fencing by generation | finished jobs stay finished, a revision names one snapshot, indexes agree with snapshots, a key names its job | `JobStore` |
| Worker (`jobs_v22/worker.py`) | the run's own snapshot, lease token, heartbeat task | a stalled run beside its successor; a cancelled run; a crash between persist and transition | a superseded run publishes nothing; success means the report is persisted | `DurableJobs` |
| Reconciler (`jobs_v22/reconciler.py`) | the work list of one cron cycle | overlapping cycles, a crash between fence, callback and enqueue, two reads that are not atomic | the recovery barrier; every task ends and is reported | `DurableJobs` |
| Callbacks (`jobs_v22/callbacks.py`) | the snapshot read before the HTTP call | reordered, lost or repeated deliveries | an acknowledged revision was delivered; the database keeps a final outcome | `DurableJobs` |
| Capability dispatch and end (`capability_terminal.py`, `api/v2/runtime.py`) | SQL's row and the Redis snapshot | lost answers, lost Redis state | Redis never shows another outcome than SQL | `DurableJobs` |
| Checkpoints, provider calls, cost ledger | response checkpoint, attempt claims, cost claims | two runs of one job, a fenced run in the claim loop, the adapter's timeout, a crash between claim and answer | one request per attempt number, none beyond the limit, one canonical response, every run ends | `ProviderCalls` |
| Report jobs over their attempts (`executor.py`, `*_report_pipeline.py`, the stages) | checkpoints, report row | an attempt that stops anywhere and one that starts over | attempts agree with each other and with what is stored | `ReportPipelines` |
| Circuit breaker (`circuit_breaker.py`) | circuit record, probe lease, failure window | several awaits per operation, expiry of three keys, lost probes | callers that keep asking are admitted | `CircuitBreaker` |
| Cost outbox (`cost_persistence.py`) | queue of summaries | a refused entry at the head, a newer summary deleted | every summary arrives, unless a newer one of the same job raced it | `CostOutbox` |
| Live stream (`api/v2/runtime.py`) | subscription, last revision | lost publications, an event during the first read | the end is shown | `JobStream` |
| Competitor discovery (`competitors_v22/`) | a second job store without leases; a market snapshot that discoveries share | two runs of one generation, an expired snapshot deleted late | an outcome stays, a discovery ends, a discovery can be confirmed until it expires | `DiscoveryJobs`, `MarketSnapshots` |
| Google synchronisation, comparison collections, page checks (`google_connections_v22/`, `report_v22/*collection*`, `page_check_*`) | SQL rows with leases, ledger | lease lapse, timeout racing a committed end, a conflicting submission | the work ends, and ends once | `SourceJobs` |
| Preparations, first service discovery, paid review, attachment cleanup (`jobs_v22/`) | SQL rows with leases, wakeups in Redis, ledgers, credits | Redis loses either, a run outlives its lease, a lost answer | budgets are not given twice, a refund and an end exclude each other, files are gone before they are forgotten | `Preparations`, `ServiceDiscovery`, `ReviewJobs`, `AttachmentCleanup` |
| Site inventory (`collectors/site_inventory*.py`) | queue, records, limits of a crawl | addresses that name one page, limits, pages that change | a page is recorded once and within the limits | `SiteCrawl`, `SiteInventory` |
| SERP market (`collectors/serp_market*.py`) | none | answers spread over the runs of a job | the snapshot accounts for every request | `MarketCollection` |
| Candidates (`competitors_v22/candidates.py`) | none | weak results between two strong ones | no result joins two businesses | `CompetitorRanking` |
| Measurement (`comparison*.py`, `evaluate_health`) | none | time zones, days not over | windows leave the change out | `Measurement` |
| Website facts and alignment (`site_business_*.py`, `site_gbp_*.py`) | none | hidden text, other businesses' data | a difference is claimed only on the business's own evidence | `SiteFacts`, `SiteAlignment` |
| Public findings (`evidence_adapters/`, `*findings*.py`) | none | incomplete coverage | the validator accepts every outcome, each is real | `PublicFindings` |
| Findings of the client's sources (`first_party_*.py`, `cross_source_*.py`) | evidence ledger | sampled data, sources that disagree | what two sources say each says alone | `FirstPartyFindings`, `CrossSourceFindings` |
| Plans and reports (`actions.py`, `verified_reprioritization.py`, `version_diff.py`, `execution_plan.py`, `models.py`) | none | stages that recompute each other's results | the contract accepts what the stages give, or refuses it for a known reason | `PublicActions`, `VerifiedActions`, `VersionDiff`, `VerifiedReport` |
| Capability reports (`capability*.py`, `candidate_*.py`) | none | eighteen rulesets, a contract apart from the builder, lists without a limit in one and with one in the other | a report is refused for its limits, for want of anything to show or for sources that disagree, and for nothing else | `Capability` |
| Controlled copy (`copy_*.py`) | none | a provider that leaves facts out, texts that may not be long | the first answer that says all it must is the copy; an answer exists unless what must be said is too long | `CopyContract` |
| Preflight, review workspaces, data models, routes | none | | | not modelled, section 6 |

**How the parts interact.** A web request registers a job in the store and
enqueues it in ARQ under the physical id `job:generation`. A worker takes the
job's lease, moves the snapshot through queued, running, succeeded or failed,
and calls the database (HTTP callback, SQL result functions) on the way; a
heartbeat task renews the lease and the snapshot. The reconciler cron works off
three indexes: recoveries it has begun, callbacks not acknowledged, and jobs
whose snapshot is stale. Recovery of a stale job is a barrier of three steps:
raise the generation in Redis (which fences the old run), tell the database,
enqueue the new generation. Inside a run, stages save checkpoints through the
same fence, provider calls claim attempt numbers and costs in Redis first, and
a circuit breaker shared by all processes admits or rejects calls. Beside the
jobs, crons work off rows of the database under leases of their own.

## 2. Modules

| Module | Models | Notes |
|---|---|---|
| `JobStore` | every Redis transaction of `DurableJobStore`, with key expiry and the clock | `StoreSpec` is its most general client: any operation with any argument at any time |
| `JobStoreProofs` | | proofs about `StoreSpec` |
| `DurableJobs` (EXTENDS `JobStore`) | web dispatch, worker, heartbeat, reconciler, callbacks, capability decision | every store call, RPC and queue call is one step; its steps are steps of `StoreSpec` (`StoreIsRespected`) |
| `DurableJobsProofs` | | `DurableJobs` implements the store; recovery and the outcome of tasks |
| `ProviderCalls` | one planned search of one job by several runs | each action is the code between two awaits |
| `ProviderCallsProofs` | | proofs about `ProviderCalls` |
| `CircuitBreaker`, `CostOutbox`, `JobStream`, `DiscoveryJobs`, `MarketSnapshots`, `SourceJobs`, `Preparations`, `ServiceDiscovery`, `ReviewJobs`, `AttachmentCleanup` | one service each | an action per Redis command, SQL call or provider call |
| `OneOutcome` | what queued work promises | abstract: requested, taken, handed back, and then done or failed, once and for good. `SourceJobs` and `ReviewJobs` refine it |
| `ServicePromises` | | what the services promise together; the runs and the proofs state the same definitions |
| `ServiceProofs` | | proofs about the services, the cost outbox and `ReportPipelines` |
| `SiteInventory`, `SiteCrawl` | the algorithms of the inventory; the crawl built from them | what a page answers is chosen when it is asked |
| `Ordering`, `OrderingProofs` | `sorted` and list comprehensions | in a form that can be reasoned about; lemmas about them, about least and greatest members and about folds |
| `InventoryProofs`, `SiteCrawlProofs`, `MeasurementProofs` | | proofs about the algorithms of the inventory, about the crawl, and about `Measurement` and the run `algorithms` |
| `ReportPipelines` | a prospect or verified job over its attempts | the stages are its actions, their contents the algorithm modules |
| `CompetitorRanking`, `MarketCollection`, `Measurement`, `SiteFacts`, `SiteAlignment`, `PublicFindings`, `FirstPartyFindings` < `CrossSourceFindings`, `PublicActions` < `VerifiedActions` < `VersionDiff` < `VerifiedReport`, `Capability`, `CopyContract` | pure algorithms | operators over records; `<` reads "is extended by" |
| `MCDurableJobs`, `MCJobStore`, `MCProviderCalls`, `MCServices`, `MCAlgorithms` | TLC instances | `MCServices` and `MCAlgorithms` choose one service, or one algorithm with its input, in the initial state |

`PROJECT.json` maps each definition to its source lines.

**JobStore.** `job[j]` is the snapshot (status, revision, acknowledged
revision, generation, attempt, ...), `idem[k]` the idempotency record,
`lease[j]`, `recovery[j]` and the indexes are the Redis keys of the same names.
`left` and `expires` are what remains of the deadline and of the keys' expiry.
A `WATCH/MULTI` transaction that fails is retried by the code, so an action is
the transaction that succeeds; its early returns and exceptions are the named
predicates `Fenced`, `Settled`, `Disallowed`, `Refused`, ... which the callers
in `DurableJobs` branch on. The payload, the bytes of keys, and the limit of
100 items per listing are abstracted.

**DurableJobs.** `worker[w]` is an execution of `execute_v22_job` with its
program counter and what it remembers from its reads; `beat[w]` is its
heartbeat task; `rec[r]` is a `reconcile_once`; `sync[p]` is a callback under
way; `arq` is ARQ's record of a physical job; `db` and `outcome` are the
database row and the result SQL accepted. `Fault` marks every step in which
something fails (a crash, a cancellation, a failed call, a lost answer); their
number is bounded by `MaxFaults`. Outside the repository, and modelled from the
way the code uses them: ARQ (an enqueue of a known physical id is dropped, a
run is retried up to `max_tries`, an unfinished run is delivered again), the
callback receiver (it ignores older generations and revisions and keeps a final
status), the SQL functions (the result of a superseded generation is refused,
the first end of a capability task wins).

Three pairs of steps that the code separates are one step here, because
nothing can tell the difference: the read and the check in front of a discard
(`Recover`), the lease refresh and the read of a heartbeat (`BeatRefresh`), and
a web request's own reads. A Redis round trip and a web request take less than
a tick.

**ProviderCalls.** `claimed` are the attempt numbers with a checkpoint,
`response` the committed response, `ledger` the cost ledger of the operation,
`run[r]` an execution with its program counter. Runs may be fenced by a
takeover, overlap with a second delivery, or be lost anywhere. A response is
named by the attempt that produced it. `returned` collects what runs hand to
the stage while they are current.

**Services.** Each keeps its own keys or rows and none reads another's, so
`MCServices` lets one of them move in a behaviour. A lease or a key that expires
is an action; a call that fails, and one that is carried out while its answer is
lost, are disjuncts of it. In the circuit breaker times are what is left of
them; failures are kept by age; the number of openings beyond the last cooldown
makes no difference and is capped. The SQL functions behind `SourceJobs`,
`Preparations`, `ServiceDiscovery`, `ReviewJobs` and `AttachmentCleanup` are
external. A stored market envelope that cannot be decoded is a flag. In
`SiteCrawl` the three modes are the inventory schemas; a page that times out is
one that failed. Contact pages come from the home page and from the sitemaps, of a
site with few addresses only (`KnownLimit` for 20); a page has a size, of which as many
bytes are read as its purpose allows (`StructuralBytes`, `DeepBytes`, `ContactBytes`), so
that it is cut, refused or asked for again; what it answers names the address it came from,
which decides whether a deep reading counts. In `ReviewJobs` a review is ruled out
only by an error that `review_worker.py` may give the credit back for: a time limit and a
lost lease are none.

**Algorithms.** Text is reduced to what the code compares: names and addresses
are small numbers or words, digests are the tuples they are made from, texts
are their size, rates are quotients of counts. Days have a few hours, windows a
few days, limits are 1 to 4. The order among candidates that the code settles by
name is the order of their numbers; limitation notes are left out.

In `Capability` the limits of the contract are constants next to the builder that does
not know them: `ListLimit` for 20 (evidence of a finding and of a material, findings of
an action), `ReportFindings` for 50, `ReportEvidence` for 500, `RenderedLimit` for 50 and
`TextTargets` for a text of 2000 characters, which is as many targets as fit in it. A pool
and a trace of 1000 candidates and 2 MB of JSON are not reached. In `CopyContract` a text
has the size of the facts in it, the rendered text and the result have limits
(`MaxRendered`, `MaxResult`). `PublicActions` checks a stored result as
`_validated_references` does: identities, evaluations, traces, what the evidence was found
at, rule versions and sources. `CompetitorRanking` knows the client by domain, name and
CID, scores each query and result type apart, and breaks ties as `_sort_key` does.
`Measurement` gives every refusal its reason, also those that all end in
`not_comparable`.

## 3. Runs

| Run | Question | Bounds and why |
|---|---|---|
| `store` | Does the store keep its promises to any client? | one job, two keys, three generations, four revisions, expiry after two ticks: enough to finish, reopen, take over, lose and register again. Two jobs never touch each other's keys except through an idempotency key; that case is covered by the proof, for any number of jobs |
| `workers` | What can a stalled worker do beside its successor, and are overlapping reconcilers safe? | no faults (stalling needs none), one execution per generation. Either two workers and one reconciler with two generations (one more repeats the same race) or, as long as no worker has taken a run, two reconcilers with three generations, so that one can be two behind (`OneCrew`). The proofs below have neither bound |
| `loss` | Does a capability task survive the loss of its Redis state and one more fault, and is every step an operation of the store? | keys live one tick, shorter than the deadline (the settings allow 3600 s against 7200 s), two dispatches, one fault, two generations. The keys of a job go together |
| `liveness` | Does every task end, and is it reported? | one fault, three generations, no expiry |
| `attempts` | (finding) Is a task executed at most `V22_JOB_MAX_ATTEMPTS` times? | limit 2 instead of 3 |
| `calls` | One request per attempt, within the cost limit, one response, and an end? | two runs, two attempts, two keys, two generations, any earlier use of the ledger by other calls |
| `services` | What may each service never do? | two processes for each service, two or three attempts, three jobs in the outbox of which one is refused, all six kinds of rows, a site of six addresses that name each other as canonical, with pages around each limit of bytes and sitemaps that name a contact page |
| `service_liveness` | Does the work of the services end? | as `services`, smaller where the graph is large: a failure window of one tick, two jobs in the outbox, one row with leases and attempts (`gbp`) and one without retries (`page`) |
| `algorithms` | Do the algorithms keep their promises on every input of a small set? | 22 algorithms and input sets, about 383,000 inputs; the sets hold ties, boundaries, missing fields, conflicting sources, and for each list of a report inputs at its limit and beyond it |
| `sampled` | (finding) Are sampled Analytics data judged? | the inputs of `client` |
| `sync_retry` | (finding) Is a synchronisation retried after a transient error? | three attempts, a ledger that never fails |
| `alias` | (finding) Are addresses merged by their canonical address? | the crawl of `services` |

`MaxRev`, `MaxAttempt` and `MaxGen` bound counters that have no bound in the
code; in the `DurableJobs` runs the first two are never reached, and a history
that needs a generation above `MaxGen` waits there. `MaxFinishes`, `MaxOutages`,
`MaxStalls`, `MaxDispatches`, `MaxClock` and `PipeClock` bound events of the
environment.

Deadlock is checked in the `DurableJobs` runs. `JobStore`, `ProviderCalls`, the
services and the algorithms stop when their bounds are used up or their work is
done.

**Properties.** Safety of the services: `SummaryLossNeedsARace` (a summary that
does not arrive was deleted with an entry that was replaced between two
commands), `ChoicesAreKept`, `SpendingIsAccounted`, `CrawlIsSound`,
`PipelinesAreSound`, `DiscoveryOutcomeIsFinal`, `ForgottenFilesAreGone`.
Algorithms are compared with a definition without short cuts where there is one
(groups of businesses against connected components, the order of actions against
all orders, limits against a sort of everything) and with their own validators
elsewhere: the validators are separate code, so that an output they refuse is a
report that is lost. The comment above each property names the functions.

**Fairness.** `DurableJobs!Fairness`: time passes, the cron starts a cycle again
and again (`worker.py` registers it every minute), and a cycle that has begun
goes on. Nothing is assumed of workers or of the web service, so the liveness
results hold when every worker is down. `ProviderCalls`: the event loop resumes
a coroutine whose await is over and the timer of `asyncio.timeout` goes off.
The circuit: callers keep asking and their coroutines go on; time passes even if
callers are often between two awaits (strong fairness of `Tick`, since the model
stops time during a Redis round trip), and not every process that is about to ask
for the probe lease dies just before (strong fairness of `ClaimProbe`). Outbox,
stream and rows: a coroutine that has begun goes on, the cron runs again, a lease
expires; outages are bounded. Discovery: coroutines go on, time passes, ARQ keeps
a result for a limited time and does not always happen to deliver a job just while
the reconciler is at work on it (strong fairness of `PickDiscovery`). Reviews: only
the deadline of the row, which SQL enforces, is assumed.

**Refinement.** `SourceJobs` and `ReviewJobs` instantiate `OneOutcome` with the
status of their row (`SourceEndsOnce`, `ReviewEndsOnce`), and the run
`service_liveness` checks its whole specification, fairness included
(`WorkEndsOnce`). The safety part (`OneOutcome!TaskSafety`: the row starts
pending and each step of the service is a step of the task or none) is also
proved. `StoreIsRespected` says that `DurableJobs` implements the store's
specification, step by step; the run `loss` checks it and `DurableJobsProofs`
proves it.

**Findings** (quoted in `PROJECT.json`).

- `attempts`: the design says a task is executed at most three times. ARQ's
  tries count per generation, the decision to retry uses the attempt of an older
  snapshot and a cancelled run goes back without a decision, so one more
  execution is possible.
- `sampled`: sessions on "(not set)" become evidence with medium confidence,
  and the same evidence with low confidence when data are sampled; the ledger
  refuses the second, and with it the findings of every source.
- `sync_retry`: the attempts of a synchronisation share a cost ledger with the
  limits of one attempt, so that a retry after the first request fails for good.
- `alias`: with resource limits a page whose canonical address is another
  address ends the crawl with a validation error.

**When a report is refused.** `CapabilityIsSound` does not say that every report is
accepted. The rules make a finding of each page with an error or a noindex directive
(`site_findings.py:38`, `:54`), the plan joins them in one action (`actions.py:299`), and the
contract lets an action have 20 findings (`capability.py:302`): a site with 21 such pages
gets no report, in the code and in the model. The same goes for a target text over 2000
characters, a material with more than 20 pieces of evidence (merged service work), 50
findings or 500 pieces of evidence, and a fourth candidate under a ruleset without
resource limits (below). `ListsTooMuch` and `JoinsTooMuch` state these
excesses in terms of the findings and sources alone, apart from the builder and the contract. The
property says that they, nothing to show, missing totals and sources that disagree are the
only reasons for which a report is refused. What is built can be delivered without
leaving a repair out, and what it shows by default rests on facts that were observed.

Two more disagreements have no run. One is in `Capability`: the priority trace is meant to
keep the candidates outside the three actions (`capability_priority.py:4-6`), but without
resource limits (the service reports, the public rulesets 2 to 8) every candidate becomes
a skeleton whose number may be at most 3 (`action_models.py:113`), so that a fourth one
refuses the report. `JoinsTooMuch` lists it among the reasons.
The other is in `VerifiedReport`: when no entry of a version difference results, `version_diff.py:509` returns an upgrade
without entries, which the contract of the report refuses (`models.py:706`),
though the design of the version difference says its result can enter the report
directly. `PlansAreSound` lists that refusal among the known ones.

## 4. Proofs

Every theorem holds for any sets of jobs, workers, reconcilers, callers, runs
and files and for any limits; its only assumptions are the named `ASSUME`s of
the modules (positive time limits, worker slots that are lease tokens, budgets
that are numbers), which TLC evaluates in the runs, and the hypotheses stated
below. "Invariant" means the inductive one, stronger than what is promised.

**`JobStoreProofs`** (`StoreSpec`: any client, any operation at any time)

- `StoreTypeCorrect`: `StoreSpec => []StoreTypeOK`;
- `IndexesAgree`: the indexes agree with the snapshots. `IndexAgreement` is not
  inductive: a job leaves the sync-pending index when the acknowledged revision
  equals its revision, so the invariant also needs that it never exceeds it
  (`SyncedWithinRevision`);
- `KeysNameTheirJobs`: a live idempotency key names a live job that was
  registered under it. It rests on the two expiring in step;
- `FinishedStaysFinished` and `RevisionsNameSnapshots`: the action properties
  `TerminalIsFinal` and `RevisionNamesSnapshot`, from the invariants above.

**`DurableJobsProofs`** (the whole job machinery)

- `SystemInvariant`: `SystemInv`, the type invariant and what each process knows
  where it stands (which job a worker, a reconciler or a callback is at work on,
  that a snapshot it will write is one it has read). `SystemTypeCorrect` is its
  first part.
- `SystemRespectsStore` and `SystemImplementsStore`: every step of a worker, a
  heartbeat, the cron, a callback or a web request is one operation of the store
  or leaves the store alone, so `Spec => StoreSpec`. Each action has its step in
  the proof; the invariant gives the arguments their ranges.
- `StorePromisesHold`: with that, what `JobStoreProofs` proves of the store holds
  in the system, crashes and stalled workers included.
- `SuccessIsPersisted`: a succeeded snapshot has a result that SQL accepted and
  keeps, also when the run is cancelled between the two and a later one restores it.
- `AcknowledgedDelivered`: an acknowledged revision was delivered. The invariant
  `Delivered` adds that a callback which is about to mark its event has delivered
  it.

**`DurableJobsProofs`, second part** (what the three steps of a recovery are for). `RecoveryInv`
relates three places a generation can be in: the snapshot, the row of the
database, and events and enqueued runs under way. The row and every event are
behind the snapshot (`Known`, `Told`); revisions order generations, between
events and against the row (`InOrder`, `AgreesWithRow`); a run that is offered,
and one about to be pushed, has a generation the database has
(`OfferedIsKnown`, `PushIsKnown`); a reconciler fails a capability job only after
SQL has (`FailureIsDecided`). From it: `BarrierHolds`, `CapabilityEndsAgree`,
`SupersededCannotPublish`, `FinishedRowsStay`.

These four have the hypothesis `KeysLast`: no snapshot and no request key is lost
while the job is there. It is not a convenience. With keys that expire, a job can
be registered again from generation 1 while the database is ahead, and a request
key can expire before its state key (section 5): then the properties fail in the
code too. `RecoveryIsSound` discharges the hypothesis when keys do not expire
(`StateTTL = 0`), as in the run `workers`. The case between, a capability job whose
keys expire together, is what the run `loss` checks.

**`ProviderCallsProofs`**, under `ProviderAssumption`: `CallTypeCorrect`,
`AttemptsPayOnce`, `ClaimsHaveNoHoles`, `ResponsesAgree`, `CorruptionHasARival`,
`RequestsArePaid`. The inductive invariant `IInv` adds what each run knows:

- `ClaimsArePrivate`: a claim that was saved and not yet spent is held by one run
  and has paid for nothing (needed for `OneRequestPerAttempt`);
- `ScansAreSound`: the numbers a run has read as claimed are claimed still, and
  the number it is about to claim is the next one (needed for
  `ClaimsAreContiguous`: reads are not atomic, but claims are never withdrawn);
- `ResponsesAreCommitted`: what was returned is the committed response, and a run
  that finds none when it reads again has been fenced (needed for
  `OneCanonicalResponse`).

Two more invariants rest on it:

- `RivalsAreKnown`: the first number that a current run has missed is claimed only
  if another run of its generation is or was there (`CorruptionNeedsRival`);
- `ChargesCover`: the ledger has a claim for every request sent or about to be
  sent, and the requests some run has still to complete are not counted as
  completed (`RequestsAreCharged`; since an attempt pays once, the sum over the
  attempts is the cardinality of a set).

**`ServiceProofs`**

- `DiscoveryOutcomeStays`: slow runs and reconcilers write what they decided
  earlier; every write goes through the transition, which keeps an outcome.
- `ForgottenFilesStayGone`: `GoneWhenFinishing`, a removal that the database is
  about to hear of has seen that the storage has no such file.
- `DiscoveriesStayConfirmable`: `MarketInv`, in three parts. The key does
  not outlive the discovery it is about (`MarketSound`); what a seeker read as expired is
  expired still, so a late delete removes nothing a discovery needs
  (`SeekerSound`, which also says that a result still valid is the stored one unless
  an eviction raced); a snapshot waiting to be saved is nobody else's (`Apart`).
- `AcceptedStaysStored`: `SourceInv`, an accepted browser's row exists and holds
  its selection; `ChoicesStayKept` joins the two.
- `SourcesEndOnce`, `ReviewsEndOnce`: the refinement of `OneOutcome`'s safety part.
  Each action of the service moves the status of the row as a task may
  (`RowGoes`, `ReviewGoes`) or leaves it.
- `SummariesAreLostByRacesOnly`: `OutboxInv`, the key holds the newest summary or
  none; a coroutine carries the newest one unless its job was raced, and deletes
  only what the database has; the newest summary of a job neither raced nor refused
  is in the database, or in its key and in the queue. `DropsOnlyItself` is the fact
  about sequences it rests on: removing the entry of one job keeps every other.
- `PreparationsStayWithinBudget`, `DiscoveriesStayWithinBudget` and
  together `SpendingStaysAccounted`. A budget would be given twice if a lost ledger
  were made anew after a request. `PrepInv` and `ServiceInv` say why it is not: a run
  makes the ledger only as the first attempt, it is then the only one, and nothing was
  claimed (`FirstPrepIsAlone`, `FirstWorkIsAlone`); requests made and requests claimed
  together stay within the claims of the ledger, and within the budget when the ledger
  is gone. That a refund and a saved report exclude each other is `ReviewsEndOnce`.
- `PipelinesStaySound`: `PipeInv`, what the attempt holds in memory is what the
  checkpoints hold (`Remembers`), pages it has read are saved (`ReadsAreSaved`), a
  manifest without an inventory is this attempt's or one's that stopped there
  (`ManifestKnown`), profiles are paid within their slots (`CheckpointsSound`), and
  a stored or pending report is made of the checkpoints (`Rightful`). Checkpoints
  are only added, so that a report that was rightful stays so (`RightfulStays`), and
  two rightful reports of one job agree (`RightfulReportsAgree`) up to what the
  property allows.

**`InventoryProofs`** (under `SiteInventoryAssumption`: limits are numbers and addresses
have an order): what the algorithms of the inventory promise on every input.

- `AddressesStayStable`: resolving a path leaves no segment that resolving again would
  change (`ResolvedIsClean`, `CleanResolves`), and the queries keep no key that is
  dropped. A default document inside another is left out, here and in the property:
  see the crawl's assumption below.
- `RequestsStayBounded`: every server before the one where the loop ends is of the site
  and redirects, and the loop ends at the latest after the limit. The one fact asked of
  the servers is that the modelled list of answers is long enough for that.
- `SitemapsAreAllRead`: `Reads` is the invariant of the loop over the queue. The queue is
  sorted by depth and holds two depths at most; every file within the depth of its head
  is visited or waits in it (`Level`); the pages are those of the files visited, up to the
  limit (`Taken`); and each step uses up an entry or a file not yet found, so that the
  queue is empty, or a limit is reached, at the step that the model stops at
  (`NothingIsLeft`). Breadth first is what makes it true: a file that is reached at the
  largest depth first is not opened for its children, and would not be again.
- `SelectionStaysBalanced`: `Covered` is the invariant of the pass over the types (one page
  for each type that has one, the home page first, as long as there is room), `Filled` that
  of the pass over the ranked pages (no type above its share, and no page passed over
  without a reason). `TypesAreWanted` says that the types are those that have a page.

`InventoryStaysSound`, in `MeasurementProofs`, derives the invariant of the run
`algorithms` from them. The loops are folds: `StepsExist` in `OrderingProofs` gives the
values they pass through.

**`SiteCrawlProofs`** (`CrawlSpec`: any site, answers, limits and mode):
`CrawlStaysSound` and `CrawlIsTyped`. A valid inventory needs what no step shows by
itself: that a batch records no address twice although its pages name each other as
canonical while they are under way. `CrawlInv` says why:

- `SoundState`: an address waits once, is in the queue and may be asked for; the
  pages have an address each;
- `LinksCovered`: a link of a page that may be followed waits, has a page, was asked for
  or is skipped, unless the crawl was cut or has failed; a candidate that is merged
  into a page disappears from the candidates, never from here;
- `AsksCounted`: an address was asked for, and is about to be, at most once for each page
  and three times more: merging gives an address a second request only when a further
  page names it;
- `AskedAllowed`: nothing disallowed was asked for but the home page;
- `DeepOnce`: the pages to read in depth and those that were read are checked pages,
  each of them once, and no more succeeded than may.

A batch is a fold over the queue and its records a fold over the batch. The library's
induction theorems cannot be used here, so `OrderingProofs` proves what is needed
from the well-foundedness of the numbers: `IterationSteps` says that a fold over a
sequence passes through values that each step of the fold relates, and `CountUp`
carries an invariant along them. `SiteCrawlAssumption` is what the proof needs of the
site: limits are positive, and the canonical form of an address is stable. The latter
holds for every address `canonicalize_inventory_url` returns but a default document
inside another (`/index.html/index.html`), which it strips once at a time.

**`MeasurementProofs`** (under `MeasurementAssumption`: a day has hours, limits are
numbers): `WindowsAreAccepted`, `ImplementationStaysOut`, `ComparisonsAreCovered`,
`ActivityStaysSteady`, `PercentsAreRounded` and `SessionsAreRounded` hold for every
day, zone, snapshot, source and count, and `MeasurementStaysSound` derives the
invariant of the run `algorithms` from them. They rest on two facts about days: a later
instant is on no earlier date, and a date before that of an instant was over
(`DatesFollowInstants`, `LaterDatesAreOver`).

**Only model-checked**

- Liveness, and the fairness part of `OneOutcome`: they need `ENABLED`.
- The other properties of `MCAlgorithms`: they compare nested folds and recursions
  over structured input with definitions of another form, one such proof per
  algorithm.
- `ServicesTypeOK`: it joins the type invariants of all services. The crawl's part
  is proved; elsewhere the types that a proof needs are a part of its invariant.
- `CircuitBreaker` and `JobStream`: what matters about them is liveness.

## 5. Hazards without a property

`PROJECT.json` lists the hazards with the properties that cover them. Open:

- a prospect task whose Redis state is lost is registered again from generation
  1, and the database ignores its callbacks;
- `mark_callback_synced` renews the state key but not the request key
  (`capability_terminal.py:40`): when the keys of a capability job expire apart,
  it can be failed without asking SQL. It takes a whole `STATE_TTL` without any
  transition or heartbeat.

## 6. Not modelled

- Preflight (`preflight_v22/`): one request whose substance is the extraction of
  names, addresses and services from text.
- Review workspaces and projections (`report_v22/review_*.py`), the assembly of
  prospect reports (`assembler.py`), wording, layout and prompts: fields are
  copied and put into words.
- Opening hours (`opening_hours.py`), patterns of phone numbers and addresses,
  the parsing of Google's and the search provider's answers: text formats.
- Pydantic schemas as such. The validators that decide something are in the
  modules of their components.
- Routing, authentication, settings (which appear as CONSTANTS), the set-up of
  worker processes.
- Checksums and signatures: a digest is the value it is made from, so that
  collisions do not exist; a stored object that does not decode is a flag.

## 7. Plan

- The type invariants of the remaining services as theorems of their own.
- Recovery under expiring keys: a hypothesis weaker than `KeysLast` for capability
  jobs, whose generation SQL restores, so that the run `loss` has its theorem.
- Further algorithms in the form of `InventoryProofs`: the plan of searches, the choice
  of evidence, the verdicts of the alignment.

--------------------------- MODULE ReportPipelines ---------------------------
(***************************************************************************)
(* A job that makes a report, over its attempts: a prospect report from    *)
(* pages, profiles and competitors it collects itself, or a verified       *)
(* report from sources that are frozen.  An attempt may stop anywhere; the *)
(* next one starts again and finds the checkpoints of the job, which the   *)
(* first writer fills (checkpoints.run_once).  The database keeps the      *)
(* first report of a job and refuses another one.                          *)
(***************************************************************************)
EXTENDS Naturals, FiniteSets, Sequences

CONSTANTS
    PipeKinds,      \* of "prospect" and "verified"
    PipeTries,      \* attempts of a job
    PipeClock,      \* the last instant
    MarketExpiry,   \* when the confirmed market and its discovery expire
    SitePages,      \* pages of the client's site, "home" among them
    GbpClaims,      \* lookups of the client's profile that the ledger allows
    Rivals,         \* competitors
    RivalSlots      \* requests for competitors' profiles that a job may make

ASSUME PipeAssumption == MarketExpiry \in Nat /\ RivalSlots \in Nat

VARIABLES
    pipe,       \* the attempt: where it is, and what it holds in memory
    pipeJob,    \* [kind, link, parent]: the request, fixed when the job is made
    saved,      \* the checkpoints of the job
    spent,      \* [gbp, slots, calls]: claims of the ledger and of the budget
    pipeTime,
    tries,
    reportRow,  \* the report in the database
    pipeEnd,    \* "none", "succeeded" or the code the job failed with
    cuts        \* of "manifest" and "persist", where attempts stopped, a history for the properties

pipeVars == <<pipe, pipeJob, saved, spent, pipeTime, tries, reportRow, pipeEnd, cuts>>

None == [none |-> TRUE]

NoAttempt ==
    [at |-> "idle", read |-> [p \in SitePages |-> "unread"], site |-> None, gbp |-> None, rivals |-> None,
     profiles |-> [r \in Rivals |-> "unread"], slot |-> 0, time |-> 0, stage |-> 0, report |-> None]

PipeInit ==
    /\ pipe = NoAttempt
    /\ pipeJob \in [kind : PipeKinds, link : {"same", "changed"}, parent : {"same", "changed"}]
    /\ saved = [pages |-> {}, manifest |-> None, site |-> None, gbp |-> None, profiles |-> {}, rivals |-> None,
                copy |-> {}, time |-> None, stages |-> {}]
    /\ spent = [gbp |-> 0, slots |-> 0, calls |-> 0]
    /\ pipeTime = 0 /\ tries = 0 /\ reportRow = None /\ pipeEnd = "none" /\ cuts = {}

-----------------------------------------------------------------------------
\* A deterministic error ends the job, a transient one the attempt.
Fail(code) ==
    /\ pipeEnd' = code /\ pipe' = NoAttempt
    /\ UNCHANGED <<pipeJob, pipeTime, tries, cuts>>

Again ==
    /\ pipe' = NoAttempt /\ cuts' = cuts \cup ({pipe.at} \cap {"manifest", "persist"})
    /\ pipeEnd' = IF tries = PipeTries THEN "RETRIES_EXHAUSTED" ELSE "none"
    /\ UNCHANGED <<pipeJob, pipeTime, tries>>

Goes(next) ==
    /\ pipe' = next
    /\ UNCHANGED <<pipeJob, pipeTime, tries, pipeEnd, cuts>>

\* The steps of the executors, in their order.
OnStep(step) == pipeEnd = "none" /\ pipe.at = step
Keeps == UNCHANGED <<saved, spent, reportRow>>
FirstSaved(old, new) == IF old = None THEN new ELSE old

Crash ==
    /\ pipe.at # "idle" /\ Again /\ Keeps

PipeTick == /\ pipeTime < PipeClock /\ pipeTime' = pipeTime + 1
            /\ UNCHANGED <<pipe, pipeJob, saved, spent, tries, reportRow, pipeEnd, cuts>>

\* V22ExecutorRouter.execute: the schema of the saved request selects the executor.
Route ==
    /\ pipe.at = "idle" /\ pipeEnd = "none" /\ tries < PipeTries
    /\ tries' = tries + 1
    /\ pipe' = [NoAttempt EXCEPT !.at = IF pipeJob.kind = "prospect" THEN "market" ELSE "resolve"]
    /\ UNCHANGED <<pipeJob, saved, spent, pipeTime, reportRow, pipeEnd, cuts>>

-----------------------------------------------------------------------------
(* Prospect: ProspectV22Executor.collect_confirmed_sources *)

\* The discovery that was confirmed, and its market while it has not expired.
CheckMarket ==
    /\ OnStep("market") /\ Keeps
    /\ CASE pipeJob.link = "changed" -> Fail("V22_COMPETITOR_DISCOVERY_INVALID")
         [] pipeJob.link = "same" /\ pipeTime >= MarketExpiry -> Fail("V22_COMPETITOR_MARKET_SNAPSHOT_INVALID")
         [] OTHER -> Goes([pipe EXCEPT !.at = "site"])

\* The inventory was saved by an earlier attempt.
ReuseSite == OnStep("site") /\ saved.site # None /\ Keeps /\ Goes([pipe EXCEPT !.at = "gbp", !.site = saved.site])

\* CheckpointedSiteFetcher.fetch: a page is asked for once in a job, unless it failed.
\* Without the home page there is no inventory.
ReadPage(p) ==
    /\ OnStep("site") /\ saved.site = None /\ pipe.read[p] = "unread"
    /\ p # "home" => pipe.read["home"] = "ok"
    /\ \/ /\ saved' = [saved EXCEPT !.pages = @ \cup {p}]
          /\ Goes([pipe EXCEPT !.read[p] = "ok"])
       \/ /\ p \notin saved.pages /\ UNCHANGED saved
          /\ IF p = "home" THEN Fail("V22_SITE_INVENTORY_SITE_UNREACHABLE") ELSE Goes([pipe EXCEPT !.read[p] = "failed"])
    /\ UNCHANGED <<spent, reportRow>>

PagesRead == {p \in SitePages : pipe.read[p] = "ok"}

\* The manifest and the selection of the inventory, before the inventory itself.
SaveManifest ==
    /\ OnStep("site") /\ saved.site = None /\ \A p \in SitePages : pipe.read[p] # "unread"
    /\ saved' = [saved EXCEPT !.manifest = FirstSaved(@, [pages |-> PagesRead])]
    /\ Goes([pipe EXCEPT !.at = "manifest"])
    /\ UNCHANGED <<spent, reportRow>>

\* The inventory is refused when an earlier attempt saved another manifest.
SaveInventory ==
    /\ OnStep("manifest") /\ UNCHANGED <<spent, reportRow>>
    /\ IF saved.manifest.pages # PagesRead
       THEN Fail("V22_SITE_INVENTORY_CHECKPOINT_INVALID") /\ UNCHANGED saved
       ELSE /\ saved' = [saved EXCEPT !.site = [pages |-> PagesRead, at |-> pipeTime]]
            /\ Goes([pipe EXCEPT !.at = "gbp", !.site = saved'.site])

ReuseGbp == OnStep("gbp") /\ saved.gbp # None /\ Keeps /\ Goes([pipe EXCEPT !.at = "rivals", !.gbp = saved.gbp])

\* CheckpointedCustomerPublicGbpStage: each key is claimed in the ledger before it is used.
ClaimGbp ==
    /\ OnStep("gbp") /\ saved.gbp = None
    /\ IF spent.gbp = GbpClaims
       THEN Fail("V22_COST_LIMIT_EXCEEDED") /\ UNCHANGED spent
       ELSE /\ spent' = [spent EXCEPT !.gbp = @ + 1]
            /\ Goes([pipe EXCEPT !.at = "gbp_call"])
    /\ UNCHANGED <<saved, reportRow>>

\* The answer: the profile, another key, an error of the provider
\* (500 and above, or no answer), a refusal or a profile of another business.
AnswerGbp ==
    /\ OnStep("gbp_call")
    /\ \/ /\ saved' = [saved EXCEPT !.gbp = [at |-> pipeTime]]
          /\ Goes([pipe EXCEPT !.at = "rivals", !.gbp = saved'.gbp])
       \/ UNCHANGED saved /\ Goes([pipe EXCEPT !.at = "gbp"])
       \/ UNCHANGED saved /\ Again
       \/ UNCHANGED saved /\ Fail("V22_CUSTOMER_PUBLIC_GBP_REJECTED")
       \/ UNCHANGED saved /\ Fail("V22_CUSTOMER_PUBLIC_GBP_IDENTITY_INVALID")
    /\ UNCHANGED <<spent, reportRow>>

\* CheckpointedCompetitorCollectionStage.collect: the discovery may have expired meanwhile.
CheckRivals ==
    /\ OnStep("rivals") /\ Keeps
    /\ IF pipeTime >= MarketExpiry THEN Fail("V22_COMPETITOR_DISCOVERY_INVALID")
       ELSE Goes([pipe EXCEPT !.at = IF saved.rivals # None THEN "build" ELSE "profiles", !.rivals = saved.rivals,
                              !.time = pipeTime])

\* SharedProviderAttemptBudget.claim: a slot of the job is taken, once, before a request.
ClaimSlot(r) ==
    /\ OnStep("profiles") /\ pipe.profiles[r] = "unread" /\ r \notin saved.profiles
    /\ IF spent.slots < RivalSlots
       THEN /\ spent' = [spent EXCEPT !.slots = @ + 1, !.calls = @ + 1]
            /\ Goes([pipe EXCEPT !.at = "profile_call", !.profiles[r] = "asked"])
       ELSE UNCHANGED spent /\ Goes([pipe EXCEPT !.profiles[r] = "unavailable"])
    /\ UNCHANGED <<saved, reportRow>>

ReuseProfile(r) ==
    /\ OnStep("profiles") /\ pipe.profiles[r] = "unread" /\ r \in saved.profiles
    /\ Keeps /\ Goes([pipe EXCEPT !.profiles[r] = "available"])

\* CheckpointedPublicProfileStage.collect_one: a profile that cannot be had is a limitation;
\* one that conflicts with the website is a competitor to be replaced.
AnswerProfile(r) ==
    /\ OnStep("profile_call") /\ pipe.profiles[r] = "asked"
    /\ \/ /\ saved' = [saved EXCEPT !.profiles = @ \cup {r}]
          /\ Goes([pipe EXCEPT !.at = "profiles", !.profiles[r] = "available"])
       \/ UNCHANGED saved /\ Goes([pipe EXCEPT !.at = "profiles", !.profiles[r] = "unavailable"])
       \/ UNCHANGED saved /\ Fail("V22_COMPETITOR_IDENTITY_UNTRACEABLE")
    /\ UNCHANGED <<spent, reportRow>>

SaveRivals ==
    /\ OnStep("profiles") /\ \A r \in Rivals : pipe.profiles[r] \in {"available", "unavailable"}
    /\ saved' = [saved EXCEPT !.rivals = [from |-> pipe.time, known |-> {r \in Rivals : pipe.profiles[r] = "available"},
                                          truncated |-> spent.slots >= RivalSlots]]
    /\ Goes([pipe EXCEPT !.at = "build", !.rivals = saved'.rivals])
    /\ UNCHANGED <<spent, reportRow>>

\* What evidence is bound to the case: the snapshots, and a market that may be stale by now.
BoundSources ==
    [site |-> pipe.site, gbp |-> pipe.gbp, rivals |-> pipe.rivals, stale |-> pipeTime >= MarketExpiry]

\* PublicProspectReportPipeline.build: the report is of the time it is built at; its text is
\* saved under what it was asked for, which no date is part of.
BuildProspect ==
    /\ OnStep("build")
    /\ LET written == {c \in saved.copy : c.sources = BoundSources}
       IN  \/ \E text \in IF written = {} THEN {"written", "template"} ELSE {c.text : c \in written} :
                /\ saved' = [saved EXCEPT !.copy = @ \cup {[sources |-> BoundSources, text |-> text]}]
                /\ Goes([pipe EXCEPT !.at = "persist",
                            !.report = [time |-> pipeTime, sources |-> BoundSources, text |-> text]])
           \/ written = {} /\ UNCHANGED saved /\ Again
           \/ written = {} /\ UNCHANGED saved /\ Fail("V22_COPY_PROVIDER_REJECTED")
    /\ UNCHANGED <<spent, reportRow>>

-----------------------------------------------------------------------------
(* Verified: VerifiedV22Executor.execute and VerifiedReportPipeline.build *)

\* The frozen sources are resolved; they must fit the request.
ResolveInput ==
    /\ OnStep("resolve") /\ Keeps
    /\ \/ pipeJob.link = "same" /\ Goes([pipe EXCEPT !.at = "parent"])
       \/ Again
       \/ pipeJob.link = "changed" /\ Fail("V22_VERIFIED_INPUT_INVALID")

\* _validate_parent_public: the frozen sources reproduce the report that is built upon.
ValidateParent ==
    /\ OnStep("parent") /\ Keeps
    /\ IF pipeJob.parent = "changed" THEN Fail("V22_VERIFIED_PARENT_PUBLIC_MISMATCH")
       ELSE Goes([pipe EXCEPT !.at = "time"])

\* Mutant: every attempt evaluates at its own time.
FreezeNoTime ==
    /\ OnStep("time") /\ Keeps
    /\ Goes([pipe EXCEPT !.at = "stages", !.time = pipeTime])

\* The time of the evaluation is the one the first attempt saved.
FreezeTime ==
    /\ OnStep("time") /\ UNCHANGED <<spent, reportRow>>
    /\ saved' = [saved EXCEPT !.time = FirstSaved(@, [at |-> pipeTime])]
    /\ Goes([pipe EXCEPT !.at = "stages", !.time = saved'.time.at])

\* The checkpointed stages.  A stage validates its input, looks for a result saved under
\* the digest of it, builds and saves one if there is none, and checks what it found: it is
\* a function of its input, which names the results before it.  So the input stands for the
\* result; public findings are of the time of the parent.
PublicStage == [stage |-> "public", parent |-> pipeJob.parent]
FirstPartyStage(time) == [stage |-> "first_party", evaluated |-> time, sources |-> {"gsc", "ga4"}]
CrossSourceStage(time) == [stage |-> "cross_source", evaluated |-> time, first |-> FirstPartyStage(time)]
ReprioritizationStage(time) ==
    [stage |-> "reprioritization", evaluated |-> time, public |-> PublicStage, cross |-> CrossSourceStage(time)]
DiffStage(time) == [stage |-> "diff", evaluated |-> time, verified |-> ReprioritizationStage(time)]
ExecutionStage(time) == [stage |-> "execution", evaluated |-> time, diff |-> DiffStage(time)]

VerifiedStages(time) ==
    <<PublicStage, FirstPartyStage(time), CrossSourceStage(time), ReprioritizationStage(time), DiffStage(time),
      ExecutionStage(time)>>

\* One stage after another, each built unless an attempt saved it for the same input.
BuildStage ==
    /\ OnStep("stages")
    /\ LET n == pipe.stage + 1
           input == VerifiedStages(pipe.time)[n]
       IN  /\ saved' = [saved EXCEPT !.stages = @ \cup {input}]
           /\ Goes([pipe EXCEPT !.stage = n, !.at = IF n = 6 THEN "persist" ELSE "stages",
                                !.report = IF n = 6 THEN input ELSE None])
    /\ UNCHANGED <<spent, reportRow>>

-----------------------------------------------------------------------------
\* The database stores the first report, repeats its answer for the same one and refuses
\* another one (persist_v22_prospect_result and persist_v22_verified_result).
Refuses == reportRow # None /\ reportRow # pipe.report

\* VerifiedRpcClient.post: an answer that does not come, or is not understood, is asked
\* for again with the next attempt, whether or not the database has committed.
PersistReport ==
    /\ OnStep("persist") /\ UNCHANGED <<saved, spent>>
    /\ \/ UNCHANGED reportRow /\ Again
       \/ Refuses /\ UNCHANGED reportRow /\ Fail("V22_RESULT_PERSISTENCE_REJECTED")
       \/ /\ ~Refuses /\ reportRow' = pipe.report
          /\ \/ Again
             \/ pipeEnd' = "succeeded" /\ pipe' = NoAttempt /\ UNCHANGED <<pipeJob, pipeTime, tries, cuts>>

PipeNext ==
    \/ Crash \/ PipeTick \/ Route
    \/ CheckMarket \/ ReuseSite \/ SaveManifest \/ SaveInventory \/ ReuseGbp \/ ClaimGbp \/ AnswerGbp
    \/ \E p \in SitePages : ReadPage(p)
    \/ CheckRivals \/ SaveRivals \/ BuildProspect
    \/ \E r \in Rivals : ClaimSlot(r) \/ ReuseProfile(r) \/ AnswerProfile(r)
    \/ ResolveInput \/ ValidateParent \/ FreezeTime \/ BuildStage \/ PersistReport

PipeSpec == PipeInit /\ [][PipeNext]_pipeVars

-----------------------------------------------------------------------------
PipeTypeOK ==
    /\ pipe.read \in [SitePages -> {"unread", "ok", "failed"}]
    /\ saved.pages \subseteq SitePages /\ saved.profiles \subseteq Rivals
    /\ spent.gbp \in 0..GbpClaims /\ spent.slots \in 0..RivalSlots
    /\ pipeTime \in 0..PipeClock /\ tries \in 0..PipeTries

\* A verified job never contradicts the report that it stored with an earlier attempt; a
\* prospect job does only if an answer of the database was lost, and then the sources
\* and the text are those of the stored report (VerifiedReportPipeline.build,
\* PublicProspectReportPipeline.build).
RetriesAgree ==
    /\ pipeEnd = "V22_RESULT_PERSISTENCE_REJECTED" => pipeJob.kind = "prospect" /\ "persist" \in cuts
    /\ pipe.report # None /\ reportRow # None /\ pipe.at = "persist" =>
         \/ pipe.report = reportRow
         \/ /\ pipeJob.kind = "prospect"
            /\ [pipe.report.sources EXCEPT !.stale = FALSE] = [reportRow.sources EXCEPT !.stale = FALSE]
            /\ pipe.report.sources.stale = reportRow.sources.stale => pipe.report.text = reportRow.text

\* What a job collects is collected once, within the budget of all its attempts, from a
\* market that had not expired; an inventory is refused only after an attempt that stopped
\* between the manifest and the inventory, and saw another site (CheckpointedSiteInventoryStage,
\* SharedProviderAttemptBudget, CheckpointedCompetitorCollectionStage).
CollectionIsSound ==
    /\ pipeEnd = "V22_SITE_INVENTORY_CHECKPOINT_INVALID" => "manifest" \in cuts /\ saved.manifest.pages # saved.pages
    /\ saved.rivals # None => saved.rivals.from < MarketExpiry
    /\ spent.calls <= RivalSlots
    /\ reportRow # None /\ pipeJob.kind = "prospect" =>
            /\ reportRow.sources.site = saved.site /\ reportRow.sources.gbp = saved.gbp
            /\ reportRow.sources.rivals = saved.rivals
=============================================================================

----------------------------- MODULE MCServices -----------------------------
(***************************************************************************)
(* The services beside the jobs: each keeps its own keys or rows and none  *)
(* reads another's.  One of them moves in a behaviour, the others stay     *)
(* where they start.                                                       *)
(***************************************************************************)
EXTENDS CircuitBreaker, CostOutbox, JobStream, SiteCrawl, ServicePromises

CONSTANT Parts      \* the services to look at

VARIABLE part

partVars == <<part, vars, outboxVars, streamVars, discVars, marketVars, sourceVars, prepVars, serviceVars,
              reviewVars, cleanVars, crawlVars, pipeVars>>

\* A tick of the circuit is half a minute: cooldowns of 60 and 120 seconds.
TwoCooldowns == <<2, 4>>

\* A site of four pages that name each other as canonical, and a login page.  Pages are
\* as large as the bytes that are kept of them, and larger.
Page(segment) == [path |-> <<segment>>, query |-> {}]
MCUrlOrder == <<Root, Page("about"), Page("contact"), Page("news"), Page("wp-login.php"), Page("hidden")>>
Answer(links, canonical, signals) ==
    [ok |-> TRUE, status |-> 200, truncated |-> FALSE, size |-> 1, robots |-> {}, signals |-> signals, canonical |-> canonical,
     links |-> [i \in DOMAIN links |-> LinkTo(MCUrlOrder[links[i]])], named |-> {}, final |-> LinkTo(Root)]
Large(answer, size) == [answer EXCEPT !.size = size]
MCAnswers(url) ==
    CASE url = Root -> {[Answer(<<2, 3>>, NoUrl, {"contact_page"}) EXCEPT !.size = 2],
                        Large(Answer(<<2>>, Page("news"), {"contact_page", "contact_details"}), 5),
                        [Answer(<<2, 3>>, NoUrl, {}) EXCEPT !.ok = FALSE], Answer(<<2, 5, 6, 3, 4>>, NoUrl, {}),
                        [Answer(<<2, 3>>, NoUrl, {}) EXCEPT !.named = {Page("about")}, !.size = 4]}
      [] url = Page("about") -> {Answer(<<3, 4>>, Page("contact"), {"about_path"}), Answer(<<4>>, Page("news"), {"about_path"}),
                                 Answer(<<4>>, NoUrl, {"contact_heading"}), [Answer(<<>>, NoUrl, {}) EXCEPT !.ok = FALSE],
                                 [Answer(<<1, 3, 4>>, NoUrl, {"about_path"}) EXCEPT !.final = LinkTo(Page("cart"))]}
      [] url = Page("contact") -> {Answer(<<2, 4>>, Page("about"), {"contact_path"}),
                                   Answer(<<4>>, NoUrl, {"contact_path", "contact_heading"}),
                                   [Answer(<<4>>, NoUrl, {"contact_page"}) EXCEPT !.final = LinkTo(Page("wp-login.php"))],
                                   Large(Answer(<<2>>, NoUrl, {"contact_path"}), 3)}
      [] url = Page("news") -> {Answer(<<2>>, Root, {"blog_path"}), [Answer(<<2>>, Page("contact"), {"blog_path"}) EXCEPT !.robots = {"noindex"}],
                                [Answer(<<2, 3>>, NoUrl, {}) EXCEPT !.robots = {"nofollow"}, !.status = 404]}
      [] OTHER -> {Answer(<<2>>, NoUrl, {})}
MCDisallowed == {Page("hidden")}
MCSitemapResults == {<<>>, <<Page("contact")>>, <<Page("news"), Page("contact")>>}
MCMapResults == {<<>>, <<LinkTo(Page("contact")), LinkTo(Page("news"))>>}

ServicesInit ==
    /\ part \in Parts
    /\ Init /\ OutboxInit /\ StreamInit /\ DiscInit /\ MarketInit /\ SourceInit /\ PrepInit /\ ServiceInit
    /\ ReviewInit /\ CleanInit /\ CrawlInit /\ PipeInit
    /\ part # "source" => kind = "page"
    /\ part # "crawl" => crawlMode = "v1"
    /\ part # "pipeline" => pipeJob = [kind |-> "verified", link |-> "same", parent |-> "same"]
    /\ part # "preparation" => prepKind = "acquisition"

Unless(p, v) == IF part = p THEN TRUE ELSE UNCHANGED v

Others ==
    /\ Unless("circuit", vars) /\ Unless("outbox", outboxVars) /\ Unless("stream", streamVars)
    /\ Unless("discovery", discVars) /\ Unless("market", marketVars) /\ Unless("source", sourceVars)
    /\ Unless("preparation", prepVars) /\ Unless("service", serviceVars) /\ Unless("review", reviewVars)
    /\ Unless("cleanup", cleanVars) /\ Unless("crawl", crawlVars) /\ Unless("pipeline", pipeVars)
    /\ UNCHANGED part

ServicesNext ==
    \/ part = "circuit" /\ Next /\ Others
    \/ part = "outbox" /\ OutboxNext /\ Others
    \/ part = "stream" /\ StreamNext /\ Others
    \/ part = "discovery" /\ DiscNext /\ Others
    \/ part = "market" /\ MarketNext /\ Others
    \/ part = "source" /\ SourceNext /\ Others
    \/ part = "preparation" /\ PrepNext /\ Others
    \/ part = "service" /\ ServiceNext /\ Others
    \/ part = "review" /\ ReviewNext /\ Others
    \/ part = "cleanup" /\ CleanNext /\ Others
    \/ part = "crawl" /\ CrawlNext /\ Others
    \/ part = "pipeline" /\ PipeNext /\ Others

\* The fairness of each service; nobody calls a circuit that is not looked at.
ServicesFairness ==
    /\ SF_vars(part = "circuit" /\ Tick)
    /\ \A c \in Callers : WF_vars(part = "circuit" /\ CallerStep(c)) /\ SF_vars(ClaimProbe(c))
    /\ OutboxFairness /\ StreamFairness /\ DiscFairness /\ SourceFairness /\ ReviewFairness

ServicesSpec == ServicesInit /\ [][ServicesNext]_partVars

FairServicesSpec == ServicesSpec /\ ServicesFairness

\* Every variable of every service stays in its range.
ServicesTypeOK ==
    /\ TypeOK /\ OutboxTypeOK /\ StreamTypeOK /\ DiscTypeOK /\ MarketTypeOK /\ SourceTypeOK /\ PrepTypeOK
    /\ ServiceTypeOK /\ ReviewTypeOK /\ CleanTypeOK /\ CrawlTypeOK /\ PipeTypeOK

\* A circuit that is looked at admits calls again and again (before_call).
CircuitAdmitsCalls == part = "circuit" => CallsAreAdmitted
=============================================================================

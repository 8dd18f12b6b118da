----------------------------- MODULE ServiceProofs -----------------------------
(***************************************************************************)
(* Proofs about the services beside the jobs: what has ended stays ended,  *)
(* what a person was told stays true, files are gone before they are       *)
(* forgotten, the attempts of a report job agree, a cost summary is lost   *)
(* only by a race, and nothing lost or overlapping gives a preparation or  *)
(* a discovery a second budget.                                            *)
(***************************************************************************)
EXTENDS ServicePromises, CostOutbox, FiniteSetTheorems, TLAPS

-----------------------------------------------------------------------------
(* Competitor discovery.                                                     *)

DiscSnapshots == [status : {"none", "queued", "running", "succeeded", "failed"}, gen : Gens,
                  attempt : Nat, retryable : BOOLEAN, stale : BOOLEAN]
DiscRuns == [pc : {"none", "check", "begin", "work"}, attempt : Nat]
DiscReads == [pc : {"idle", "act", "enqueue"}, status : {"none", "queued", "running", "succeeded", "failed"},
              attempt : Nat, gen : Gens]

DiscShape == disc \in DiscSnapshots /\ run \in [Gens -> DiscRuns] /\ recon \in DiscReads

\* A transition gives the snapshot a status that the old one admits.
LEMMA TransitionKeepsShape ==
    ASSUME DiscShape, NEW status \in {"queued", "running", "succeeded", "failed"}, NEW attempt \in Nat,
           NEW retryable \in BOOLEAN, DiscTransition(status, attempt, retryable)
    PROVE  disc' \in DiscSnapshots /\ (DiscTerminal => disc' = disc)
  <1>1. CASE DiscTerminal
    BY <1>1 DEF DiscTransition, DiscShape
  <1>2. CASE ~DiscTerminal
    <2>1. disc' = [disc EXCEPT !.status = status, !.attempt = attempt, !.retryable = retryable, !.stale = FALSE]
      BY <1>2 DEF DiscTransition
    <2> QED
      BY <1>2, <2>1 DEF DiscShape, DiscSnapshots
  <1> QED
    BY <1>1, <1>2

\* What one step does to the snapshot: nothing, if the discovery is over, but reopening a
\* failure under the next generation.
Stays == DiscTerminal => disc' = disc \/ (disc.status = "failed" /\ disc'.gen = disc.gen + 1)

\* Every step keeps the shape of the state and leaves an outcome alone.
LEMMA DiscStep ==
    DiscShape /\ [DiscNext]_discVars => DiscShape' /\ Stays
  <1> SUFFICES ASSUME DiscShape, [DiscNext]_discVars PROVE DiscShape' /\ Stays
    OBVIOUS
  <1>a. /\ disc \in DiscSnapshots /\ run \in [Gens -> DiscRuns] /\ recon \in DiscReads
        /\ disc.gen \in Gens /\ disc.attempt \in Nat /\ disc.retryable \in BOOLEAN
        /\ recon.attempt \in Nat /\ recon.gen \in Gens
        /\ disc.status \in {"none", "queued", "running", "succeeded", "failed"}
    BY DEF DiscShape, DiscSnapshots, DiscReads
  <1>b. \A g \in Gens : run[g] \in DiscRuns /\ run[g].attempt \in Nat
    BY <1>a DEF DiscRuns
  <1>c. NoRun \in DiscRuns /\ NoRecon \in DiscReads
    BY DiscoveryAssumption DEF NoRun, NoRecon, DiscRuns, DiscReads, Gens
  <1>d. \A g \in Gens : [run EXCEPT ![g] = NoRun] \in [Gens -> DiscRuns]
    BY <1>a, <1>c
  <1>1. CASE SubmitDiscovery
    <2>1. disc' = [disc EXCEPT !.status = "queued"] /\ disc.status = "none" /\ run' = run /\ recon' = recon
      BY <1>1 DEF SubmitDiscovery
    <2> QED
      BY <2>1, <1>a DEF DiscShape, DiscSnapshots, Stays, DiscTerminal
  <1>2. CASE RetryDiscovery
    <2>1. /\ disc.status = "failed" /\ disc.gen < DiscoveryGens /\ run' = run /\ recon' = recon
          /\ disc' = [disc EXCEPT !.status = "queued", !.gen = disc.gen + 1, !.retryable = FALSE, !.stale = FALSE]
      BY <1>2 DEF RetryDiscovery
    <2>2. disc.gen + 1 \in Gens
      BY <2>1, <1>a, DiscoveryAssumption DEF Gens
    <2>3. disc' \in DiscSnapshots /\ disc'.gen = disc.gen + 1
      BY <2>1, <2>2, <1>a DEF DiscSnapshots
    <2> QED
      BY <2>1, <2>3, <1>a DEF DiscShape, Stays
  <1>3. CASE GoesStale
    <2>1. /\ disc' = [disc EXCEPT !.stale = TRUE] /\ disc.status \in {"queued", "running"} /\ run' = run /\ recon' = recon
      BY <1>3 DEF GoesStale
    <2> QED
      BY <2>1, <1>a DEF DiscShape, DiscSnapshots, Stays, DiscTerminal
  <1>4. CASE ReadStale \/ EnqueueStale \/ LoseRecon \/ UNCHANGED discVars
    <2>1. disc' = disc /\ run' = run
      BY <1>4 DEF ReadStale, EnqueueStale, LoseRecon, discVars
    <2>2. recon' \in {recon, NoRecon, [pc |-> "act", status |-> disc.status, attempt |-> disc.attempt, gen |-> disc.gen]}
      BY <1>4 DEF ReadStale, EnqueueStale, LoseRecon, discVars
    <2>3. [pc |-> "act", status |-> disc.status, attempt |-> disc.attempt, gen |-> disc.gen] \in DiscReads
      BY <1>a DEF DiscReads
    <2> QED
      BY <2>1, <2>2, <2>3, <1>a, <1>c DEF DiscShape, Stays
  <1>5. CASE ActOnStale
    <2>1. run' = run
      BY <1>5 DEF ActOnStale
    <2>2. disc' \in DiscSnapshots /\ (DiscTerminal => disc' = disc)
      BY <1>5, <1>a, TransitionKeepsShape DEF ActOnStale
    <2>3. recon' \in {NoRecon, [recon EXCEPT !.pc = "enqueue", !.gen = disc.gen]}
      BY <1>5 DEF ActOnStale
    <2>4. [recon EXCEPT !.pc = "enqueue", !.gen = disc.gen] \in DiscReads
      BY <1>a DEF DiscReads
    <2> QED
      BY <2>1, <2>2, <2>3, <2>4, <1>a, <1>c DEF DiscShape, Stays
  <1>6. ASSUME NEW g \in Gens, PickDiscovery(g) \/ LoseRun(g) \/ ForgetResult(g) \/ CheckDiscovery(g)
        PROVE  DiscShape' /\ Stays
    <2>1. disc' = disc /\ recon' = recon
      BY <1>6 DEF PickDiscovery, LoseRun, ForgetResult, CheckDiscovery, EndRun
    <2>2. \/ run' = run \/ run' = [run EXCEPT ![g] = NoRun]
          \/ run' = [run EXCEPT ![g] = [pc |-> "check", attempt |-> 0]]
          \/ run' = [run EXCEPT ![g] = [pc |-> "begin", attempt |-> disc.attempt + 1]]
      BY <1>6 DEF PickDiscovery, LoseRun, ForgetResult, CheckDiscovery, EndRun
    <2>3. [pc |-> "check", attempt |-> 0] \in DiscRuns /\ [pc |-> "begin", attempt |-> disc.attempt + 1] \in DiscRuns
      BY <1>a DEF DiscRuns
    <2>4. run' \in [Gens -> DiscRuns]
      BY <2>2, <2>3, <1>a, <1>d
    <2> QED
      BY <2>1, <2>4, <1>a DEF DiscShape, Stays
  <1>7. ASSUME NEW g \in Gens, BeginDiscovery(g) \/ ReportProgress(g) PROVE DiscShape' /\ Stays
    <2>1. recon' = recon
      BY <1>7 DEF BeginDiscovery, ReportProgress, EndRun
    <2>2. disc' \in DiscSnapshots /\ (DiscTerminal => disc' = disc)
      BY <1>7, <1>a, <1>b, TransitionKeepsShape DEF BeginDiscovery, ReportProgress
    <2>3. run' = run \/ run' = [run EXCEPT ![g] = NoRun] \/ run' = [run EXCEPT ![g].pc = "work"]
      BY <1>7 DEF BeginDiscovery, ReportProgress, EndRun
    <2>4. [run EXCEPT ![g].pc = "work"] \in [Gens -> DiscRuns]
      BY <1>a, <1>b DEF DiscRuns
    <2> QED
      BY <2>1, <2>2, <2>3, <2>4, <1>a, <1>d DEF DiscShape, Stays
  <1>8. ASSUME NEW g \in Gens, FinishDiscovery(g) \/ \E transient \in BOOLEAN : FailDiscovery(g, transient)
        PROVE  DiscShape' /\ Stays
    <2>1. recon' = recon /\ run' = [run EXCEPT ![g] = NoRun]
      BY <1>8 DEF FinishDiscovery, FailDiscovery, EndRun
    <2>2. \/ disc' = disc
          \/ DiscTransition("succeeded", disc.attempt, FALSE)
          \/ DiscTransition("queued", run[g].attempt, FALSE)
          \/ \E transient \in BOOLEAN : DiscTransition("failed", run[g].attempt, transient)
      BY <1>8 DEF FinishDiscovery, FailDiscovery
    <2>3. disc' \in DiscSnapshots /\ (DiscTerminal => disc' = disc)
      BY <2>2, <1>a, <1>b, TransitionKeepsShape
    <2> QED
      BY <2>1, <2>3, <1>a, <1>d DEF DiscShape, Stays
  <1> QED
    BY <1>1, <1>2, <1>3, <1>4, <1>5, <1>6, <1>7, <1>8 DEF DiscNext, RunEnds

\* A succeeded discovery stays succeeded and a failed one is reopened only as the next
\* generation, though slow runs and reconcilers still write what they had decided.
THEOREM DiscoveryOutcomeStays == DiscSpec => DiscoveryOutcomeIsFinal
  <1>1. DiscInit => DiscShape
    BY DiscoveryAssumption
    DEF DiscInit, DiscShape, DiscSnapshots, DiscRuns, DiscReads, NoRun, NoRecon, Gens
  <1>2. DiscShape /\ [DiscNext]_discVars => DiscShape' /\ [Stays]_discVars
    BY DiscStep
  <1> QED
    BY <1>1, <1>2, PTL DEF DiscSpec, DiscoveryOutcomeIsFinal, Stays

-----------------------------------------------------------------------------
(* Attachments.                                                              *)

RemovalSteps == {"none", "delete", "look", "finish"}

\* A removal that the database is about to hear of has seen that the file is gone.
GoneWhenFinishing ==
    /\ removal \in [Cleaners -> [Files -> RemovalSteps]]
    /\ \A c \in Cleaners, f \in Files : removal[c][f] = "finish" => f \notin stored

\* One removal goes on, and the storage gets no file.
LEMMA RemovalGoesOn ==
    ASSUME GoneWhenFinishing, NEW c \in Cleaners, NEW f \in Files, NEW next \in RemovalSteps,
           Removing(c, f, next), stored' \subseteq stored, next = "finish" => f \notin stored
    PROVE  GoneWhenFinishing'
  <1>1. removal' = [removal EXCEPT ![c][f] = next] /\ removal[c] \in [Files -> RemovalSteps]
    BY DEF Removing, GoneWhenFinishing
  <1>2. removal' \in [Cleaners -> [Files -> RemovalSteps]]
    BY <1>1 DEF GoneWhenFinishing
  <1>3. \A d \in Cleaners, e \in Files : removal'[d][e] = IF d = c /\ e = f THEN next ELSE removal[d][e]
    BY <1>1 DEF GoneWhenFinishing
  <1> QED
    BY <1>2, <1>3 DEF GoneWhenFinishing

\* No step makes a removal finish while the storage has its file.
LEMMA GoneStays == GoneWhenFinishing /\ [CleanNext]_cleanVars => GoneWhenFinishing'
  <1> SUFFICES ASSUME GoneWhenFinishing, [CleanNext]_cleanVars PROVE GoneWhenFinishing'
    OBVIOUS
  <1>1. CASE removal' = removal /\ stored' = stored
    BY <1>1 DEF GoneWhenFinishing
  <1>2. ASSUME NEW c \in Cleaners, AbortRun(c) PROVE GoneWhenFinishing'
    <2>1. removal' = [removal EXCEPT ![c] = NoRemoval] /\ stored' = stored
      BY <1>2 DEF AbortRun
    <2>2. NoRemoval \in [Files -> RemovalSteps] /\ \A f \in Files : NoRemoval[f] = "none"
      BY DEF NoRemoval, RemovalSteps
    <2>3. removal' \in [Cleaners -> [Files -> RemovalSteps]]
      BY <2>1, <2>2 DEF GoneWhenFinishing
    <2>4. \A d \in Cleaners : removal'[d] = IF d = c THEN NoRemoval ELSE removal[d]
      BY <2>1 DEF GoneWhenFinishing
    <2> QED
      BY <2>1, <2>2, <2>3, <2>4 DEF GoneWhenFinishing
  <1>3. ASSUME NEW c \in Cleaners, NEW f \in Files,
               StartRemoval(c, f) \/ WriteOffFile(c, f) \/ RemovalFails(c, f)
        PROVE  GoneWhenFinishing'
    BY <1>3, RemovalGoesOn DEF StartRemoval, WriteOffFile, RemovalFails, RemovalSteps
  <1>4. ASSUME NEW c \in Cleaners, NEW f \in Files, DeleteFile(c, f) PROVE GoneWhenFinishing'
    <2>1. Removing(c, f, "look") /\ stored' \subseteq stored
      BY <1>4 DEF DeleteFile
    <2> QED
      BY <2>1, RemovalGoesOn DEF RemovalSteps
  <1>5. ASSUME NEW c \in Cleaners, NEW f \in Files, LookForFile(c, f) PROVE GoneWhenFinishing'
    BY <1>5, RemovalGoesOn DEF LookForFile, RemovalSteps
  <1>6. CASE UNCHANGED cleanVars
    BY <1>1, <1>6 DEF cleanVars
  <1>7. CASE RemoveAttachment \/ CleanLeaseExpires
    BY <1>1, <1>7 DEF RemoveAttachment, CleanLeaseExpires
  <1>8. ASSUME NEW c \in Cleaners, TakeCleanLease(c) \/ ListDue(c) \/ EndCleanup(c) PROVE GoneWhenFinishing'
    BY <1>1, <1>8 DEF TakeCleanLease, ListDue, EndCleanup
  <1> QED
    BY <1>2, <1>3, <1>4, <1>5, <1>6, <1>7, <1>8 DEF CleanNext

\* The database forgets a deleted file only when the storage has none: runs that outlive
\* their leases, deletions without effect and runs that stop half-way leave the row due.
THEOREM ForgottenFilesStayGone == CleanSpec => ForgottenFilesAreGone
  <1> DEFINE A == \A f \in due : f \notin due' => f \notin stored'
  <1>1. CleanInit => GoneWhenFinishing
    BY DEF CleanInit, GoneWhenFinishing, NoRemoval, RemovalSteps
  <1>2. GoneWhenFinishing /\ [CleanNext]_cleanVars => [A]_cleanVars
    <2> SUFFICES ASSUME GoneWhenFinishing, [CleanNext]_cleanVars, NEW f \in due, f \notin due' PROVE f \notin stored'
      OBVIOUS
    <2>1. PICK c \in Cleaners, e \in Files : WriteOffFile(c, e)
      BY DEF CleanNext, cleanVars, RemoveAttachment, CleanLeaseExpires, TakeCleanLease, ListDue, EndCleanup,
             RecordRun, AbortRun, StartRemoval, DeleteFile, LookForFile, RemovalFails
    <2>2. due' = due \ {e} /\ removal[c][e] = "finish" /\ stored' = stored
      BY <2>1 DEF WriteOffFile
    <2> QED
      BY <2>2 DEF GoneWhenFinishing
  <1> QED
    BY <1>1, <1>2, GoneStays, PTL DEF CleanSpec, ForgottenFilesAreGone

-----------------------------------------------------------------------------
(* The market snapshot that discoveries share.                               *)

Snapshots == [id : Nat, expires : Nat, gone : Nat]
SeekerPcs == {"idle", "get", "evict", "collect", "saveget", "saveevict", "set", "reread", "lastevict", "done", "failed"}
SeekerRows == [pc : SeekerPcs, now : Nat, read : Nat, own : Nat, result : Snapshots]

MarketShape ==
    /\ clock \in Nat /\ collected \in Nat /\ evictionRaced \in BOOLEAN
    /\ market \in Snapshots /\ seeker \in [Seekers -> SeekerRows]

Evicting == {"evict", "saveevict", "lastevict"}     \* read a snapshot that was over
Unsaved == {"saveget", "saveevict", "set"}          \* has a snapshot that was not saved yet

\* The key does not outlive the discovery it is about.
MarketSound == market.id <= collected /\ market.expires <= market.gone

\* What one discovery knows: it began in the past, its own snapshot is not the stored one
\* before it saves it, one it read as expired is over, and the result it gave is stored.
SeekerSound(s) ==
    /\ seeker[s].now <= clock
    /\ seeker[s].pc \in Unsaved => seeker[s].own # 0 /\ seeker[s].own # market.id /\ seeker[s].own <= collected
    /\ seeker[s].pc \in Evicting => /\ seeker[s].read # 0 /\ seeker[s].read <= collected
                                    /\ market.id = seeker[s].read => market.expires <= clock
    /\ seeker[s].pc = "done" => seeker[s].result.id # 0
    /\ seeker[s].pc = "done" /\ seeker[s].result.expires > clock /\ ~evictionRaced => market = seeker[s].result

\* A snapshot that waits to be saved is nobody else's, and none that was read before.
Apart(s, t) ==
    /\ seeker[t].pc \in Unsaved /\ seeker[s].pc \in Evicting => seeker[t].own # seeker[s].read
    /\ t # s /\ seeker[t].pc \in Unsaved /\ seeker[s].pc \in Unsaved => seeker[t].own # seeker[s].own

MarketInv ==
    /\ MarketShape /\ MarketSound
    /\ \A s \in Seekers : SeekerSound(s)
    /\ \A s, t \in Seekers : Apart(s, t)

\* One discovery goes on.
Seeks(s, x) == x \in SeekerRows /\ seeker' = [seeker EXCEPT ![s] = x]

\* The fields of the state have their types.
LEMMA MarketFields ==
    ASSUME MarketShape
    PROVE  /\ market.id \in Nat /\ market.expires \in Nat /\ market.gone \in Nat /\ clock \in Nat /\ collected \in Nat
           /\ \A s \in Seekers : /\ seeker[s] \in SeekerRows /\ seeker[s].now \in Nat /\ seeker[s].read \in Nat
                                 /\ seeker[s].own \in Nat /\ seeker[s].result \in Snapshots
                                 /\ seeker[s].result.id \in Nat /\ seeker[s].result.expires \in Nat
                                 /\ seeker[s].pc \in SeekerPcs
  <1>1. market.id \in Nat /\ market.expires \in Nat /\ market.gone \in Nat /\ clock \in Nat /\ collected \in Nat
    BY DEF MarketShape, Snapshots
  <1>2. \A s \in Seekers : seeker[s] \in SeekerRows
    BY DEF MarketShape
  <1>3. \A s \in Seekers : /\ seeker[s].now \in Nat /\ seeker[s].read \in Nat /\ seeker[s].own \in Nat
                           /\ seeker[s].result \in Snapshots /\ seeker[s].pc \in SeekerPcs
    BY <1>2 DEF SeekerRows
  <1>4. \A s \in Seekers : seeker[s].result.id \in Nat /\ seeker[s].result.expires \in Nat
    BY <1>3 DEF Snapshots
  <1> QED
    BY <1>1, <1>2, <1>3, <1>4

\* What a move of one discovery is.
LEMMA SeeksOne ==
    ASSUME MarketShape, NEW s \in Seekers, NEW x, Seeks(s, x)
    PROVE  /\ seeker' \in [Seekers -> SeekerRows] /\ seeker'[s] = x
           /\ \A t \in Seekers : t # s => seeker'[t] = seeker[t]
  BY DEF Seeks, MarketShape

\* A discovery that goes on without a result, and does not touch the market, knows no less.
LEMMA SeekerWalks ==
    ASSUME MarketInv, NEW s \in Seekers, NEW x, Seeks(s, x), UNCHANGED <<clock, market, collected, evictionRaced>>,
           x.now <= clock,
           x.pc \in Unsaved => /\ x.own # 0 /\ x.own # market.id /\ x.own <= collected
                               /\ seeker[s].pc \in Unsaved /\ x.own = seeker[s].own,
           x.pc \in Evicting => x.read # 0 /\ x.read = market.id /\ market.expires <= clock,
           x.pc = "done" => x.result = market /\ market.id # 0
    PROVE  MarketInv'
  <1>1. /\ seeker' \in [Seekers -> SeekerRows] /\ seeker'[s] = x
        /\ \A t \in Seekers : t # s => seeker'[t] = seeker[t]
    BY SeeksOne DEF MarketInv
  <1>2. MarketShape' /\ MarketSound'
    BY <1>1 DEF MarketInv, MarketShape, MarketSound
  <1>3. ASSUME NEW t \in Seekers PROVE SeekerSound(t)'
    <2>1. CASE t = s
      <3>1. x.read <= collected \/ x.pc \notin Evicting
        BY DEF MarketInv, MarketSound
      <3> QED
        BY <1>1, <2>1, <3>1 DEF SeekerSound
    <2>2. CASE t # s
      BY <1>1, <2>2 DEF MarketInv, SeekerSound
    <2> QED
      BY <2>1, <2>2
  <1>4. ASSUME NEW t \in Seekers, NEW u \in Seekers PROVE Apart(t, u)'
    <2>0. Apart(t, u) /\ SeekerSound(t) /\ SeekerSound(u)
      BY DEF MarketInv
    <2>1. CASE t # s /\ u # s
      BY <1>1, <2>0, <2>1 DEF Apart
    <2>2. CASE t = s /\ u # s
      BY <1>1, <2>0, <2>2 DEF Apart, SeekerSound
    <2>3. CASE t # s /\ u = s
      BY <1>1, <2>0, <2>3 DEF Apart
    <2>4. CASE t = s /\ u = s
      BY <1>1, <2>0, <2>4 DEF Apart
    <2> QED
      BY <2>1, <2>2, <2>3, <2>4
  <1> QED
    BY <1>2, <1>3, <1>4 DEF MarketInv

\* The program counter alone.
LEMMA SeekerGoesSeeks ==
    ASSUME MarketShape, NEW s \in Seekers, NEW pc \in SeekerPcs, SeekerGoes(s, pc)
    PROVE  /\ Seeks(s, [seeker[s] EXCEPT !.pc = pc])
           /\ [seeker[s] EXCEPT !.pc = pc].pc = pc
           /\ [seeker[s] EXCEPT !.pc = pc].now = seeker[s].now
           /\ [seeker[s] EXCEPT !.pc = pc].own = seeker[s].own
           /\ [seeker[s] EXCEPT !.pc = pc].read = seeker[s].read
           /\ [seeker[s] EXCEPT !.pc = pc].result = seeker[s].result
  <1>1. seeker[s] \in SeekerRows
    BY MarketFields
  <1>2. seeker' = [seeker EXCEPT ![s] = [seeker[s] EXCEPT !.pc = pc]]
    BY DEF SeekerGoes, MarketShape
  <1> QED
    BY <1>1, <1>2 DEF Seeks, SeekerRows

\* A discovery that has its result.
LEMMA SeekerHasSeeks ==
    ASSUME MarketShape, NEW s \in Seekers, NEW snapshot \in Snapshots, SeekerHas(s, snapshot)
    PROVE  /\ Seeks(s, [seeker[s] EXCEPT !.pc = "done", !.result = snapshot])
           /\ [seeker[s] EXCEPT !.pc = "done", !.result = snapshot].pc = "done"
           /\ [seeker[s] EXCEPT !.pc = "done", !.result = snapshot].result = snapshot
           /\ [seeker[s] EXCEPT !.pc = "done", !.result = snapshot].now = seeker[s].now
  <1>1. seeker[s] \in SeekerRows
    BY MarketFields
  <1>2. seeker' = [seeker EXCEPT ![s] = [seeker[s] EXCEPT !.pc = "done", !.result = snapshot]]
    BY DEF SeekerHas, MarketShape
  <1> QED
    BY <1>1, <1>2 DEF Seeks, SeekerRows, SeekerPcs

\* SharedMarketSnapshotStore.get finds nothing, a snapshot that is not over, or one that is.
LEMMA LookUpKeeps ==
    ASSUME MarketInv, NEW s \in Seekers, NEW missing \in SeekerPcs, NEW evict \in Evicting,
           LookUpMarket(s, missing, evict),
           missing \notin Evicting \cup {"done"},
           missing \in Unsaved \/ evict \in Unsaved => seeker[s].pc \in Unsaved
    PROVE  MarketInv'
  <1>0. MarketShape /\ SeekerSound(s) /\ MarketSound
    BY DEF MarketInv
  <1>u. UNCHANGED <<clock, market, collected, evictionRaced>>
    BY DEF LookUpMarket
  <1>1. CASE market.id = 0
    <2>1. SeekerGoes(s, missing)
      BY <1>1 DEF LookUpMarket
    <2> DEFINE x == [seeker[s] EXCEPT !.pc = missing]
    <2>2. Seeks(s, x) /\ x.pc = missing /\ x.now = seeker[s].now /\ x.own = seeker[s].own
      BY <1>0, <2>1, SeekerGoesSeeks
    <2> HIDE DEF x
    <2>3. x.now <= clock
      BY <1>0, <2>2 DEF SeekerSound
    <2>4. x.pc \in Unsaved => /\ x.own # 0 /\ x.own # market.id /\ x.own <= collected
                              /\ seeker[s].pc \in Unsaved /\ x.own = seeker[s].own
      BY <1>0, <2>2 DEF SeekerSound, Evicting, Unsaved
    <2> QED
      BY <1>u, <2>2, <2>3, <2>4, SeekerWalks
  <1>2. CASE market.id # 0 /\ market.expires > seeker[s].now
    <2>1. SeekerHas(s, market) /\ market \in Snapshots
      BY <1>0, <1>2 DEF LookUpMarket, MarketShape
    <2> DEFINE x == [seeker[s] EXCEPT !.pc = "done", !.result = market]
    <2>2. Seeks(s, x) /\ x.pc = "done" /\ x.result = market /\ x.now = seeker[s].now
      BY <1>0, <2>1, SeekerHasSeeks
    <2> HIDE DEF x
    <2>3. x.now <= clock
      BY <1>0, <2>2 DEF SeekerSound
    <2> QED
      BY <1>u, <1>2, <2>2, <2>3, SeekerWalks DEF Unsaved, Evicting
  <1>3. CASE market.id # 0 /\ ~(market.expires > seeker[s].now)
    <2>1. seeker' = [seeker EXCEPT ![s].pc = evict, ![s].read = market.id]
      BY <1>3 DEF LookUpMarket
    <2> DEFINE x == [seeker[s] EXCEPT !.pc = evict, !.read = market.id]
    <2>2. x \in SeekerRows /\ x.pc = evict /\ x.read = market.id /\ x.now = seeker[s].now /\ x.own = seeker[s].own
      BY <1>0, MarketFields DEF SeekerRows, SeekerPcs, Evicting
    <2>3. seeker' = [seeker EXCEPT ![s] = x]
      BY <1>0, <2>1 DEF MarketShape
    <2>4. Seeks(s, x)
      BY <2>2, <2>3 DEF Seeks
    <2> HIDE DEF x
    <2>5. x.now <= clock /\ market.expires <= clock
      BY <1>0, <1>3, <2>2, MarketFields DEF SeekerSound
    <2>6. x.pc \in Unsaved => /\ x.own # 0 /\ x.own # market.id /\ x.own <= collected
                              /\ seeker[s].pc \in Unsaved /\ x.own = seeker[s].own
      BY <1>0, <2>2 DEF SeekerSound
    <2>7. x.pc # "done"
      BY <2>2 DEF Evicting
    <2> QED
      BY <1>u, <1>3, <2>2, <2>4, <2>5, <2>6, <2>7, SeekerWalks
  <1> QED
    BY <1>1, <1>2, <1>3

\* DELETE of an expired snapshot, which does not compare: who loses a snapshot that is not
\* over by it has been raced.
LEMMA DeleteKeeps ==
    ASSUME MarketInv, NEW s \in Seekers, NEW next \in {"collect", "set", "failed"}, seeker[s].pc \in Evicting,
           next = "set" => seeker[s].pc \in Unsaved, DeleteMarket(s, next)
    PROVE  MarketInv'
  <1> DEFINE x == [seeker[s] EXCEPT !.pc = next]
  <1>0. MarketShape /\ MarketSound /\ SeekerSound(s)
    BY DEF MarketInv
  <1>1. Seeks(s, x) /\ x.pc = next /\ x.now = seeker[s].now /\ x.own = seeker[s].own
    <2>1. next \in SeekerPcs
      BY DEF SeekerPcs
    <2>2. SeekerGoes(s, next)
      BY DEF DeleteMarket
    <2> QED
      BY <1>0, <2>1, <2>2, SeekerGoesSeeks
  <1> HIDE DEF x
  <1>2. /\ seeker' \in [Seekers -> SeekerRows] /\ seeker'[s] = x
        /\ \A t \in Seekers : t # s => seeker'[t] = seeker[t]
    BY <1>0, <1>1, SeeksOne
  <1>3. /\ market' = NoMarket /\ clock' = clock /\ collected' = collected
        /\ evictionRaced' = (evictionRaced \/ market.id \notin {0, seeker[s].read})
    BY DEF DeleteMarket
  <1>4. NoMarket \in Snapshots /\ NoMarket.id = 0 /\ NoMarket.expires = 0 /\ NoMarket.gone = 0
    BY DEF NoMarket, Snapshots
  <1>5. evictionRaced' \in BOOLEAN
    BY <1>3, Zenon
  <1>6. MarketShape' /\ MarketSound'
    BY <1>0, <1>2, <1>3, <1>4, <1>5 DEF MarketShape, MarketSound
  <1>7. ASSUME NEW t \in Seekers PROVE SeekerSound(t)'
    <2>0. SeekerSound(t) /\ clock \in Nat /\ seeker[t].read \in Nat
      BY <1>0, MarketFields DEF MarketInv
    <2>1. CASE t = s
      BY <1>1, <1>2, <1>3, <1>4, <2>0, <2>1 DEF SeekerSound, Unsaved, Evicting
    <2>2. CASE t # s
      <3>1. ~(seeker[t].pc = "done" /\ seeker[t].result.expires > clock /\ ~evictionRaced')
        <4>1. SUFFICES ASSUME seeker[t].pc = "done", seeker[t].result.expires > clock, ~evictionRaced' PROVE FALSE
          OBVIOUS
        <4>2. ~evictionRaced /\ market.id \in {0, seeker[s].read}
          BY <1>3, <4>1
        <4>3. market = seeker[t].result /\ market.id # 0
          BY <2>0, <4>1, <4>2 DEF SeekerSound
        <4>4. market.id = seeker[s].read
          BY <4>2, <4>3
        <4>5. market.expires <= clock
          BY <1>0, <4>4 DEF SeekerSound
        <4>6. ~(market.expires > clock)
          BY <4>5, <1>0, MarketFields
        <4> QED
          BY <4>1, <4>3, <4>6
      <3>2. seeker'[t] = seeker[t]
        BY <1>2, <2>2
      <3>3. seeker[t].pc \in Evicting => seeker[t].read # market'.id
        BY <1>3, <1>4, <2>0 DEF SeekerSound
      <3> QED
        BY <1>3, <1>4, <2>0, <3>1, <3>2, <3>3 DEF SeekerSound
    <2> QED
      BY <2>1, <2>2
  <1>8. ASSUME NEW t \in Seekers, NEW u \in Seekers PROVE Apart(t, u)'
    <2>0. Apart(t, u)
      BY DEF MarketInv
    <2> QED
      BY <1>1, <1>2, <2>0 DEF Apart, Unsaved, Evicting
  <1> QED
    BY <1>6, <1>7, <1>8 DEF MarketInv

\* A discovery begins at the present time.
LEMMA BeginKeeps ==
    ASSUME MarketInv, NEW s \in Seekers, BeginDiscover(s)
    PROVE  MarketInv'
  <1> DEFINE x == [NewSeeker EXCEPT !.pc = "get", !.now = clock]
  <1>1. x \in SeekerRows /\ x.pc = "get" /\ x.now = clock
    BY MarketFields DEF MarketInv, NewSeeker, NoMarket, SeekerRows, SeekerPcs, Snapshots
  <1>2. Seeks(s, x) /\ UNCHANGED <<clock, market, collected, evictionRaced>>
    BY <1>1 DEF BeginDiscover, Seeks
  <1> HIDE DEF x
  <1>3. x.now <= clock
    BY <1>1, MarketFields DEF MarketInv
  <1> QED
    BY <1>1, <1>2, <1>3, SeekerWalks DEF Unsaved, Evicting

\* A discovery collects a snapshot that nobody has.
LEMMA CollectKeeps ==
    ASSUME MarketInv, NEW s \in Seekers, CollectMarket(s)
    PROVE  MarketInv'
  <1> DEFINE x == [seeker[s] EXCEPT !.pc = "saveget", !.own = collected + 1]
  <1>0. MarketShape /\ MarketSound /\ SeekerSound(s)
    BY DEF MarketInv
  <1>1. x \in SeekerRows /\ x.pc = "saveget" /\ x.now = seeker[s].now /\ x.own = collected + 1
    <2>1. collected + 1 \in Nat /\ seeker[s] \in SeekerRows /\ "saveget" \in SeekerPcs
      BY <1>0, MarketFields DEF SeekerPcs
    <2> HIDE DEF SeekerPcs
    <2> QED
      BY <2>1 DEF SeekerRows
  <1>2. Seeks(s, x) /\ UNCHANGED <<clock, market, evictionRaced>> /\ collected' = collected + 1
    BY <1>0, <1>1 DEF CollectMarket, Seeks, MarketShape
  <1> HIDE DEF x
  <1>3. /\ seeker' \in [Seekers -> SeekerRows] /\ seeker'[s] = x
        /\ \A t \in Seekers : t # s => seeker'[t] = seeker[t]
    BY <1>0, <1>2, SeeksOne
  <1>4. MarketShape' /\ MarketSound'
    BY <1>0, <1>2, <1>3 DEF MarketShape, MarketSound, Snapshots
  <1>5. \A t \in Seekers : SeekerSound(t) /\ seeker[t].own \in Nat /\ seeker[t].read \in Nat
    BY <1>0, MarketFields DEF MarketInv
  <1>6. ASSUME NEW t \in Seekers PROVE SeekerSound(t)'
    <2>1. CASE t = s
      <3>1. x.own # 0 /\ x.own # market.id /\ x.own <= collected'
        BY <1>0, <1>1, <1>2, MarketFields DEF MarketSound
      <3> QED
        BY <1>0, <1>1, <1>2, <1>3, <2>1, <3>1 DEF SeekerSound, Unsaved, Evicting
    <2>2. CASE t # s
      <3>1. /\ seeker[t].own <= collected => seeker[t].own <= collected'
            /\ seeker[t].read <= collected => seeker[t].read <= collected'
        BY <1>0, <1>2, <1>5, MarketFields
      <3> QED
        BY <1>2, <1>3, <1>5, <2>2, <3>1 DEF SeekerSound
    <2> QED
      BY <2>1, <2>2
  <1>7. ASSUME NEW t \in Seekers, NEW u \in Seekers PROVE Apart(t, u)'
    <2>0. Apart(t, u) /\ SeekerSound(t) /\ SeekerSound(u)
      BY DEF MarketInv
    <2>1. CASE t # s /\ u # s
      BY <1>3, <2>0, <2>1 DEF Apart
    <2>2. CASE t = s
      <3>1. seeker[u].pc \in Unsaved => seeker[u].own # collected + 1
        BY <1>0, <1>5, MarketFields DEF SeekerSound
      <3> QED
        BY <1>1, <1>3, <2>2, <3>1 DEF Apart, Unsaved, Evicting
    <2>3. CASE t # s /\ u = s
      <3>1. /\ seeker[t].pc \in Unsaved => seeker[t].own # collected + 1
            /\ seeker[t].pc \in Evicting => seeker[t].read # collected + 1
        BY <1>0, <1>5, MarketFields DEF SeekerSound
      <3> QED
        BY <1>1, <1>3, <2>3, <3>1 DEF Apart, Unsaved, Evicting
    <2> QED
      BY <2>1, <2>2, <2>3
  <1> QED
    BY <1>4, <1>6, <1>7 DEF MarketInv

\* SET NX EX stores the snapshot only where there is none.
LEMMA SetKeeps ==
    ASSUME MarketInv, NEW s \in Seekers, SetMarket(s)
    PROVE  MarketInv'
  <1> DEFINE mine == [id |-> seeker[s].own, expires |-> seeker[s].now + MarketTTL, gone |-> clock + MarketTTL]
             x == [seeker[s] EXCEPT !.pc = "done", !.result = mine]
  <1>0. MarketShape /\ MarketSound /\ SeekerSound(s) /\ seeker[s].pc = "set"
    BY DEF MarketInv, SetMarket
  <1>1. CASE market.id # 0
    <2>1. SeekerGoes(s, "reread") /\ UNCHANGED <<clock, market, collected, evictionRaced>>
      BY <1>1 DEF SetMarket
    <2> DEFINE y == [seeker[s] EXCEPT !.pc = "reread"]
    <2>2. Seeks(s, y) /\ y.pc = "reread" /\ y.now = seeker[s].now
      BY <1>0, <2>1, SeekerGoesSeeks DEF SeekerPcs
    <2> HIDE DEF y
    <2> QED
      BY <1>0, <2>1, <2>2, SeekerWalks DEF SeekerSound, Unsaved, Evicting
  <1>2. CASE market.id = 0
    <2>1. market' = mine /\ SeekerHas(s, mine) /\ UNCHANGED <<clock, collected, evictionRaced>>
      BY <1>2 DEF SetMarket
    <2>2. /\ mine \in Snapshots /\ mine.id = seeker[s].own /\ mine.expires = seeker[s].now + MarketTTL
          /\ mine.gone = clock + MarketTTL
      BY <1>0, MarketFields, MarketAssumption DEF Snapshots
    <2>3. Seeks(s, x) /\ x.pc = "done" /\ x.result = mine /\ x.now = seeker[s].now
      BY <1>0, <2>1, <2>2, SeekerHasSeeks
    <2> HIDE DEF x, mine
    <2>4. /\ seeker' \in [Seekers -> SeekerRows] /\ seeker'[s] = x
          /\ \A t \in Seekers : t # s => seeker'[t] = seeker[t]
      BY <1>0, <2>3, SeeksOne
    <2>5. mine.id <= collected /\ mine.id # 0
      BY <1>0, <2>2 DEF SeekerSound, Unsaved
    <2>6. mine.expires <= mine.gone
      BY <1>0, <2>2, MarketFields, MarketAssumption DEF SeekerSound
    <2>7. MarketShape' /\ MarketSound'
      BY <1>0, <2>1, <2>2, <2>4, <2>5, <2>6 DEF MarketShape, MarketSound
    <2>8. ASSUME NEW t \in Seekers PROVE SeekerSound(t)'
      <3>0. SeekerSound(t) /\ Apart(t, s) /\ Apart(s, t)
        BY DEF MarketInv
      <3>1. CASE t = s
        BY <1>0, <2>1, <2>3, <2>4, <2>5, <3>1 DEF SeekerSound, Unsaved, Evicting
      <3>2. CASE t # s
        <4>1. seeker[t].pc \in Unsaved => seeker[t].own # mine.id
          BY <1>0, <2>2, <3>0, <3>2 DEF Apart, Unsaved
        <4>2. seeker[t].pc \in Evicting => seeker[t].read # mine.id
          BY <1>0, <2>2, <3>0 DEF Apart, Unsaved
        <4>3. ~(seeker[t].pc = "done" /\ seeker[t].result.expires > clock /\ ~evictionRaced)
          BY <1>2, <3>0 DEF SeekerSound
        <4> QED
          BY <2>1, <2>4, <3>0, <3>2, <4>1, <4>2, <4>3 DEF SeekerSound
      <3> QED
        BY <3>1, <3>2
    <2>9. ASSUME NEW t \in Seekers, NEW u \in Seekers PROVE Apart(t, u)'
      <3>0. Apart(t, u)
        BY DEF MarketInv
      <3> QED
        BY <2>3, <2>4, <3>0 DEF Apart, Unsaved, Evicting
    <2> QED
      BY <2>7, <2>8, <2>9 DEF MarketInv
  <1> QED
    BY <1>1, <1>2

\* Time passes, and a key whose time is over is gone; its snapshot is over then.
LEMMA MarketTickKeeps ==
    ASSUME MarketInv, MarketTick
    PROVE  MarketInv'
  <1>0. MarketShape /\ MarketSound
    BY DEF MarketInv
  <1>1. clock' = clock + 1 /\ seeker' = seeker /\ collected' = collected /\ evictionRaced' = evictionRaced
    BY DEF MarketTick
  <1>2. NoMarket \in Snapshots /\ NoMarket.id = 0 /\ NoMarket.expires = 0 /\ NoMarket.gone = 0
    BY DEF NoMarket, Snapshots
  <1>3. market' = market \/ (market' = NoMarket /\ market.gone <= clock + 1)
    BY DEF MarketTick
  <1>4. MarketShape' /\ MarketSound'
    BY <1>0, <1>1, <1>2, <1>3 DEF MarketShape, MarketSound
  <1>5. ASSUME NEW t \in Seekers PROVE SeekerSound(t)'
    <2>0. SeekerSound(t) /\ clock \in Nat /\ seeker[t].now \in Nat /\ seeker[t].result.expires \in Nat
      BY <1>0, MarketFields DEF MarketInv
    <2>1. seeker[t].now <= clock' /\ (seeker[t].result.expires > clock' => seeker[t].result.expires > clock)
      BY <1>1, <2>0 DEF SeekerSound
    <2>2. CASE market' = market
      <3>1. market.expires <= clock => market.expires <= clock'
        BY <1>0, <1>1, MarketFields
      <3> QED
        BY <1>1, <2>0, <2>1, <2>2, <3>1 DEF SeekerSound
    <2>3. CASE market' = NoMarket /\ market.gone <= clock + 1
      <3>1. ~(market.expires > clock')
        BY <1>0, <1>1, <2>3, MarketFields DEF MarketSound
      <3>2. ~(seeker[t].pc = "done" /\ seeker[t].result.expires > clock' /\ ~evictionRaced)
        BY <2>0, <2>1, <3>1 DEF SeekerSound
      <3> QED
        BY <1>1, <1>2, <2>0, <2>1, <2>3, <3>2 DEF SeekerSound
    <2> QED
      BY <1>3, <2>2, <2>3
  <1>6. ASSUME NEW t \in Seekers, NEW u \in Seekers PROVE Apart(t, u)'
    BY <1>1 DEF MarketInv, Apart
  <1> QED
    BY <1>4, <1>5, <1>6 DEF MarketInv

\* Every step keeps the invariant.
LEMMA MarketStays == MarketInv /\ [MarketNext]_marketVars => MarketInv'
  <1> SUFFICES ASSUME MarketInv, [MarketNext]_marketVars PROVE MarketInv'
    OBVIOUS
  <1>1. ASSUME NEW s \in Seekers, GetMarket(s) \/ SaveGet(s) \/ Reread(s) PROVE MarketInv'
    <2>1. CASE GetMarket(s)
      BY <2>1, LookUpKeeps DEF GetMarket, SeekerPcs, Evicting, Unsaved
    <2>2. CASE SaveGet(s)
      BY <2>2, LookUpKeeps DEF SaveGet, SeekerPcs, Evicting, Unsaved
    <2>3. CASE Reread(s)
      BY <2>3, LookUpKeeps DEF Reread, SeekerPcs, Evicting, Unsaved
    <2> QED
      BY <1>1, <2>1, <2>2, <2>3
  <1>2. ASSUME NEW s \in Seekers, EvictMarket(s) \/ SaveEvict(s) \/ LastEvict(s) PROVE MarketInv'
    BY <1>2, DeleteKeeps DEF EvictMarket, SaveEvict, LastEvict, Evicting, Unsaved
  <1>3. CASE UNCHANGED marketVars
    BY <1>3 DEF marketVars, MarketInv, MarketShape, MarketSound, SeekerSound, Apart
  <1> QED
    BY <1>1, <1>2, <1>3, BeginKeeps, CollectKeeps, SetKeeps, MarketTickKeeps DEF MarketNext

\* A discovery can be confirmed until it is over, though discoveries of the same market start,
\* expire and save beside it, unless one of them deleted its snapshot for an older one.
THEOREM DiscoveriesStayConfirmable == MarketSpec => []ConfirmableUntilExpiry
  <1>1. MarketInit => MarketInv
    <2> SUFFICES ASSUME MarketInit PROVE MarketInv
      OBVIOUS
    <2>1. NewSeeker \in SeekerRows /\ NewSeeker.pc = "idle" /\ NewSeeker.now = 0 /\ NoMarket \in Snapshots
          /\ NoMarket.id = 0 /\ NoMarket.expires = 0 /\ NoMarket.gone = 0
      BY DEF NewSeeker, NoMarket, SeekerRows, SeekerPcs, Snapshots
    <2>2. MarketShape /\ MarketSound
      <3>1. clock \in Nat /\ collected \in Nat /\ market \in Snapshots /\ market.id = 0 /\ market.expires = 0
            /\ market.gone = 0
        BY <2>1 DEF MarketInit
      <3>2. evictionRaced \in BOOLEAN
        BY DEF MarketInit
      <3>3. seeker \in [Seekers -> SeekerRows]
        BY <2>1 DEF MarketInit
      <3> QED
        BY <3>1, <3>2, <3>3 DEF MarketShape, MarketSound
    <2>3. \A s \in Seekers : seeker[s] = NewSeeker
      BY DEF MarketInit
    <2>4. \A s \in Seekers : SeekerSound(s)
      BY <2>1, <2>3 DEF MarketInit, SeekerSound, Unsaved, Evicting
    <2>5. \A s, t \in Seekers : Apart(s, t)
      BY <2>1, <2>3 DEF Apart, Unsaved, Evicting
    <2> QED
      BY <2>2, <2>4, <2>5 DEF MarketInv
  <1>2. MarketInv => ConfirmableUntilExpiry
    BY DEF MarketInv, SeekerSound, ConfirmableUntilExpiry, Verifies
  <1> QED
    BY <1>1, <1>2, MarketStays, PTL DEF MarketSpec

-----------------------------------------------------------------------------
(* Rows that end once, and selections that were accepted.                    *)

RowFields == {"status", "lease", "tries", "expired", "code", "selection"}
AskerRows == [pc : {"idle", "submit", "accepted", "refused"}, selection : Selections \cup {"none"}]

\* An accepted selection is one of a row that is there.
SourceInv ==
    /\ DOMAIN row = RowFields
    /\ asker \in [Askers -> AskerRows]
    /\ \A a \in Askers : asker[a].pc = "accepted" => row.status # "none" /\ row.selection = asker[a].selection

\* How a row may go on: what ended stays, and what was selected stays.
RowGoes ==
    /\ DOMAIN row' = RowFields
    /\ row.status # "none" => row'.selection = row.selection
    /\ <<row.status, row'.status>> \in
          {<<"none", "queued">>, <<"queued", "running">>, <<"running", "queued">>, <<"running", "running">>,
           <<"queued", "failed">>, <<"running", "failed">>, <<"running", "succeeded">>}

\* What finish_... and fail_... of the database make of a row.
LEMMA RowIsHandedBack ==
    ASSUME DOMAIN row = RowFields, NEW w, row' \in {row, Finished(w), Failed(w)}
    PROVE  row' = row \/ RowGoes
  <1>1. CASE row' = Finished(w) /\ row' # row
    <2>1. row.status = "running" /\ row' = [row EXCEPT !.status = "succeeded", !.expired = FALSE]
      BY <1>1 DEF Finished, Holds
    <2> QED
      BY <2>1 DEF RowGoes, RowFields
  <1>2. CASE row' = Failed(w) /\ row' # row
    <2>1. /\ row.status = "running"
          /\ \/ row' = [row EXCEPT !.status = "queued", !.expired = FALSE]
             \/ row' = [row EXCEPT !.status = "failed", !.code = exec[w].error.code, !.expired = FALSE]
      BY <1>2 DEF Failed, Holds
    <2>2. CASE row' = [row EXCEPT !.status = "queued", !.expired = FALSE]
      BY <2>1, <2>2 DEF RowGoes, RowFields
    <2>3. CASE row' = [row EXCEPT !.status = "failed", !.code = exec[w].error.code, !.expired = FALSE]
      BY <2>1, <2>3 DEF RowGoes, RowFields
    <2> QED
      BY <2>1, <2>2, <2>3
  <1> QED
    BY <1>1, <1>2

\* claim_... of the database: a row that waits or whose lease ran out.
LEMMA RowIsClaimed ==
    ASSUME DOMAIN row = RowFields, NEW w, ClaimRow(w)
    PROVE  RowGoes
  <1>1. row.status \in {"queued", "running"}
    BY DEF ClaimRow
  <1>2. CASE row.tries = Tries
    <2>1. row' = [row EXCEPT !.status = "failed", !.code = "LEASE_EXPIRED"]
      BY <1>2 DEF ClaimRow
    <2> QED
      BY <1>1, <2>1 DEF RowGoes, RowFields
  <1>3. CASE row.tries # Tries
    <2>1. row' = [row EXCEPT !.status = "running", !.lease = row.tries + 1, !.tries = row.tries + 1, !.expired = FALSE]
      BY <1>3 DEF ClaimRow
    <2> QED
      BY <1>1, <2>1 DEF RowGoes, RowFields
  <1> QED
    BY <1>2, <1>3

\* Whatever moves, the row stays or goes on as it may.
LEMMA RowSteps ==
    ASSUME DOMAIN row = RowFields, [SourceNext]_sourceVars
    PROVE  row' = row \/ RowGoes
  <1>1. CASE RequestSync
    <2>1. row.status = "none" /\ row' = [row EXCEPT !.status = "queued"]
      BY <1>1 DEF RequestSync
    <2> QED
      BY <2>1 DEF RowGoes, RowFields
  <1>2. CASE LeaseExpires
    <2>1. row.status = "running" /\ row' = [row EXCEPT !.expired = TRUE]
      BY <1>2 DEF LeaseExpires
    <2> QED
      BY <2>1 DEF RowGoes, RowFields
  <1>3. ASSUME NEW a \in Askers, SubmitRow(a) PROVE row' = row \/ RowGoes
    <2>1. row' = row \/ (row.status = "none" /\ row' = [row EXCEPT !.status = "queued", !.selection = asker[a].selection])
      BY <1>3 DEF SubmitRow
    <2> QED
      BY <2>1 DEF RowGoes, RowFields
  <1>4. ASSUME NEW w \in Executions, FinishRow(w) \/ FailRow(w) PROVE row' = row \/ RowGoes
    <2>1. row' \in {row, Finished(w), Failed(w)}
      BY <1>4 DEF FinishRow, FailRow
    <2> QED
      BY <2>1, RowIsHandedBack
  <1>5. ASSUME NEW w \in Executions, EnsureLedger(w) \/ AccessToken(w) \/ ClaimRequest(w) \/ ReadAnswer(w)
                                     \/ RecordAttempt(w) \/ TimesOut(w) \/ LoseExecution(w)
        PROVE row' = row
    BY <1>5 DEF EnsureLedger, AccessToken, ClaimRequest, ReadAnswer, RecordAttempt, TimesOut, LoseExecution
  <1>6. ASSUME NEW a \in Askers, NEW selection \in Selections, AskRow(a, selection) PROVE row' = row
    BY <1>6 DEF AskRow
  <1>7. CASE UNCHANGED sourceVars
    BY <1>7 DEF sourceVars
  <1> QED
    BY <1>1, <1>2, <1>3, <1>4, <1>5, <1>6, <1>7, RowIsClaimed DEF SourceNext, ExecStep

\* A request of the row answers for the selection it was made with.
LEMMA AskersMove ==
    ASSUME SourceInv, NEW a \in Askers, NEW answer \in AskerRows, asker' = [asker EXCEPT ![a] = answer],
           row' = row \/ RowGoes,
           answer.pc = "accepted" => row'.status # "none" /\ row'.selection = answer.selection
    PROVE  SourceInv'
  <1>1. asker' \in [Askers -> AskerRows] /\ asker'[a] = answer /\ \A b \in Askers : b # a => asker'[b] = asker[b]
    BY DEF SourceInv
  <1>2. DOMAIN row' = RowFields /\ (row.status # "none" => row'.status # "none" /\ row'.selection = row.selection)
    BY DEF SourceInv, RowGoes
  <1>3. ASSUME NEW b \in Askers, asker'[b].pc = "accepted"
        PROVE  row'.status # "none" /\ row'.selection = asker'[b].selection
    BY <1>1, <1>2, <1>3 DEF SourceInv
  <1> QED
    BY <1>1, <1>2, <1>3 DEF SourceInv

\* Every step keeps the invariant.
LEMMA SourceStays == SourceInv /\ [SourceNext]_sourceVars => SourceInv'
  <1> SUFFICES ASSUME SourceInv, [SourceNext]_sourceVars PROVE SourceInv'
    OBVIOUS
  <1>0. row' = row \/ RowGoes
    BY RowSteps DEF SourceInv
  <1>1. CASE asker' = asker
    <2>1. DOMAIN row' = RowFields /\ (row.status # "none" => row'.status # "none" /\ row'.selection = row.selection)
      BY <1>0 DEF SourceInv, RowGoes
    <2> QED
      BY <1>1, <2>1 DEF SourceInv
  <1>2. ASSUME NEW a \in Askers, SubmitRow(a) PROVE SourceInv'
    <2>1. asker[a] \in AskerRows /\ asker[a].selection \in Selections \cup {"none"} /\ asker[a].pc \in {"idle", "submit", "accepted", "refused"}
      BY DEF SourceInv, AskerRows
    <2>2. PICK answer \in {"idle", IF row'.selection = asker[a].selection THEN "accepted" ELSE "refused"} :
              asker' = [asker EXCEPT ![a].pc = answer]
      BY <1>2 DEF SubmitRow
    <2> DEFINE x == [asker[a] EXCEPT !.pc = answer]
    <2>3. asker' = [asker EXCEPT ![a] = x]
      BY <2>2 DEF SourceInv
    <2>4. answer \in {"idle", "accepted", "refused"} /\ (answer = "accepted" => row'.selection = asker[a].selection)
      BY <2>2
    <2>5. x \in AskerRows /\ x.pc = answer /\ x.selection = asker[a].selection
      BY <2>1, <2>4 DEF AskerRows
    <2>6. row'.status # "none"
      <3>1. CASE row.status = "none"
        <4>1. row' = [row EXCEPT !.status = "queued", !.selection = asker[a].selection]
          BY <1>2, <3>1 DEF SubmitRow
        <4> QED
          BY <4>1 DEF SourceInv, RowFields
      <3>2. CASE row.status # "none"
        BY <1>0, <3>2 DEF RowGoes
      <3> QED
        BY <3>1, <3>2
    <2> HIDE DEF x
    <2> QED
      BY <1>0, <2>3, <2>4, <2>5, <2>6, AskersMove
  <1>3. ASSUME NEW a \in Askers, NEW selection \in Selections, AskRow(a, selection) PROVE SourceInv'
    <2>1. CASE row.status # "none"
      <3> DEFINE x == [selection |-> selection, pc |-> IF row.selection = selection THEN "accepted" ELSE "refused"]
      <3>1. asker' = [asker EXCEPT ![a] = x] /\ row' = row
        BY <1>3, <2>1 DEF AskRow
      <3>2. x \in AskerRows /\ x.selection = selection /\ (x.pc = "accepted" => row.selection = selection)
        BY DEF AskerRows
      <3> HIDE DEF x
      <3> QED
        BY <2>1, <3>1, <3>2, AskersMove
    <2>2. CASE row.status = "none"
      <3>1. PICK pc \in {"submit", "refused"} : asker' = [asker EXCEPT ![a] = [pc |-> pc, selection |-> selection]]
        BY <1>3, <2>2 DEF AskRow
      <3> DEFINE x == [pc |-> pc, selection |-> selection]
      <3>2. x \in AskerRows /\ x.pc # "accepted"
        BY <3>1 DEF AskerRows
      <3>3. asker' = [asker EXCEPT ![a] = x]
        BY <3>1
      <3> HIDE DEF x
      <3> QED
        BY <1>0, <3>2, <3>3, AskersMove
    <2> QED
      BY <2>1, <2>2
  <1>4. ASSUME NEW w \in Executions, ClaimRow(w) \/ ExecStep(w) \/ TimesOut(w) \/ LoseExecution(w) PROVE asker' = asker
    BY <1>4 DEF ClaimRow, ExecStep, EnsureLedger, AccessToken, ClaimRequest, ReadAnswer, RecordAttempt, FinishRow, FailRow,
                TimesOut, LoseExecution
  <1>5. RequestSync \/ LeaseExpires \/ UNCHANGED sourceVars => asker' = asker
    BY DEF RequestSync, LeaseExpires, sourceVars
  <1> QED
    BY <1>1, <1>2, <1>3, <1>4, <1>5 DEF SourceNext

\* It holds at the start.
LEMMA SourceBegins == SourceInit => SourceInv
  <1> SUFFICES ASSUME SourceInit PROVE SourceInv
    OBVIOUS
  <1>1. row = [status |-> "none", lease |-> 0, tries |-> 0, expired |-> FALSE, code |-> "none", selection |-> "none"]
    BY DEF SourceInit
  <1>2. asker = [a \in Askers |-> [pc |-> "idle", selection |-> "none"]]
    BY DEF SourceInit
  <1>3. asker \in [Askers -> AskerRows] /\ \A a \in Askers : asker[a].pc # "accepted"
    BY <1>2 DEF AskerRows
  <1> QED
    BY <1>1, <1>3 DEF SourceInv, RowFields

\* A browser that was told its comparison or page check is accepted sees that very selection
\* in the row (request_collection, request_check), however many requests there are.
THEOREM AcceptedStaysStored == SourceSpec => []AcceptedSelectionIsStored
  <1>1. SourceInv => AcceptedSelectionIsStored
    BY DEF SourceInv, AcceptedSelectionIsStored
  <1> QED
    BY <1>1, SourceBegins, SourceStays, PTL DEF SourceSpec

-----------------------------------------------------------------------------
(* What ends, ends once.                                                     *)

\* A move of a row is a step of the work it stands for, or none.
LEMMA RowIsWork ==
    ASSUME row' = row \/ RowGoes
    PROVE  [Row!TaskNext]_(CASE row.status = "none" -> "absent"
                             [] row.status = "queued" -> "waiting"
                             [] row.status = "running" -> "active"
                             [] row.status = "succeeded" -> "done"
                             [] row.status = "failed" -> "failed")
  <1>1. CASE row' = row
    BY <1>1
  <1>2. CASE RowGoes
    <2>1. CASE row.status = "none" /\ row'.status = "queued"
      BY <2>1 DEF Row!TaskNext, Row!Request
    <2>2. CASE row.status = "queued" /\ row'.status = "running"
      BY <2>2 DEF Row!TaskNext, Row!Take
    <2>3. CASE row.status = "running" /\ row'.status = "queued"
      BY <2>3 DEF Row!TaskNext, Row!HandBack
    <2>4. CASE row.status = "running" /\ row'.status = "running"
      BY <2>4
    <2>5. CASE row.status \in {"queued", "running"} /\ row'.status = "failed"
      BY <2>5 DEF Row!TaskNext, Row!GiveUp
    <2>6. CASE row.status = "running" /\ row'.status = "succeeded"
      BY <2>6 DEF Row!TaskNext, Row!Complete
    <2> QED
      BY <1>2, <2>1, <2>2, <2>3, <2>4, <2>5, <2>6 DEF RowGoes
  <1> QED
    BY <1>1, <1>2

\* A synchronisation, a comparison or a page check ends at most once (claim_, finish_ and
\* fail_ of the database): no execution that was taken over and no late error changes a row
\* that ended.  That it ends at all needs the fairness and is left to the runs.
THEOREM SourcesEndOnce == SourceSpec => Row!TaskSafety
  <1>1. SourceInit => Row!TaskInit
    BY DEF SourceInit, Row!TaskInit
  <1>2. SourceInv /\ [SourceNext]_sourceVars =>
            [Row!TaskNext]_(CASE row.status = "none" -> "absent"
                              [] row.status = "queued" -> "waiting"
                              [] row.status = "running" -> "active"
                              [] row.status = "succeeded" -> "done"
                              [] row.status = "failed" -> "failed")
    BY RowSteps, RowIsWork DEF SourceInv
  <1> QED
    BY <1>1, <1>2, SourceBegins, SourceStays, PTL DEF SourceSpec, Row!TaskSafety

ReviewFields == {"status", "token", "offered", "gen", "leased"}

\* How a review may go on.
ReviewGoes ==
    /\ DOMAIN review' = ReviewFields
    /\ <<review.status, review'.status>> \in
          {<<"none", "queued">>, <<"queued", "queued">>, <<"queued", "running">>, <<"running", "queued">>,
           <<"running", "running">>, <<"queued", "failed">>, <<"running", "failed">>, <<"running", "succeeded">>}
       \/ review'.status = review.status

\* Whatever moves, the review goes on as it may.
LEMMA ReviewMoves == DOMAIN review = ReviewFields /\ [ReviewNext]_reviewVars => ReviewGoes
  <1> SUFFICES ASSUME DOMAIN review = ReviewFields, [ReviewNext]_reviewVars PROVE ReviewGoes
    OBVIOUS
  <1>0. review' = review => ReviewGoes
    BY DEF ReviewGoes
  <1>1. CASE StartReview
    <2>1. review' = review \/ (review.status = "none" /\ review' = [review EXCEPT !.status = "queued"])
      BY <1>1 DEF StartReview
    <2> QED
      BY <1>0, <2>1 DEF ReviewGoes, ReviewFields
  <1>2. CASE DispatchReview \/ DispatchExpires \/ ReviewLeaseExpires
    <2>1. \/ review' = [review EXCEPT !.token = review.token + 1, !.offered = TRUE]
          \/ review' = [review EXCEPT !.offered = FALSE]
          \/ review' = [review EXCEPT !.leased = FALSE]
      BY <1>2 DEF DispatchReview, DispatchExpires, ReviewLeaseExpires
    <2> QED
      BY <2>1 DEF ReviewGoes, ReviewFields
  <1>3. CASE ReviewDeadline
    <2>1. /\ review.status \in {"queued", "running"}
          /\ review' = [review EXCEPT !.status = "failed", !.leased = FALSE]
      BY <1>3 DEF ReviewDeadline
    <2> QED
      BY <2>1 DEF ReviewGoes, ReviewFields
  <1>4. ASSUME NEW w \in Reviewers, ClaimReview(w) PROVE ReviewGoes
    <2>1. \/ review' = review
          \/ /\ review.status \in {"queued", "running"}
             /\ review' = [review EXCEPT !.status = "running", !.offered = FALSE, !.gen = review.gen + 1, !.leased = TRUE]
      BY <1>4 DEF ClaimReview
    <2> QED
      BY <1>0, <2>1 DEF ReviewGoes, ReviewFields
  <1>5. ASSUME NEW w \in Reviewers, CompleteReview(w) PROVE ReviewGoes
    <2>1. \/ review' = review
          \/ review.status = "running" /\ review' = [review EXCEPT !.status = "succeeded", !.leased = FALSE]
      BY <1>5 DEF CompleteReview, OwnsReview
    <2> QED
      BY <1>0, <2>1 DEF ReviewGoes, ReviewFields
  <1>6. ASSUME NEW w \in Reviewers, FinishReview(w) PROVE ReviewGoes
    <2>1. review' = review \/ review' = Finalized(w, reviewer[w].ruledOut)
      BY <1>6 DEF FinishReview
    <2>2. CASE review' # review
      <3>1. /\ review.status = "running"
            /\ \/ review' = [review EXCEPT !.status = "queued", !.leased = FALSE]
               \/ review' = [review EXCEPT !.status = "failed", !.leased = FALSE]
        BY <2>1, <2>2 DEF Finalized, OwnsReview
      <3>2. CASE review' = [review EXCEPT !.status = "queued", !.leased = FALSE]
        BY <3>1, <3>2 DEF ReviewGoes, ReviewFields
      <3>3. CASE review' = [review EXCEPT !.status = "failed", !.leased = FALSE]
        BY <3>1, <3>3 DEF ReviewGoes, ReviewFields
      <3> QED
        BY <3>1, <3>2, <3>3
    <2> QED
      BY <1>0, <2>2
  <1>7. ASSUME NEW w \in Reviewers,
               ResolveReview(w) \/ BeatReview(w) \/ InterruptReview(w) \/ RefuseHeartbeat(w) \/ LoseReviewer(w)
        PROVE review' = review
    BY <1>7 DEF ResolveReview, BeatReview, InterruptReview, RefuseHeartbeat, LoseReviewer
  <1>8. CASE UNCHANGED reviewVars
    BY <1>0, <1>8 DEF reviewVars
  <1> QED
    BY <1>0, <1>1, <1>2, <1>3, <1>4, <1>5, <1>6, <1>7, <1>8 DEF ReviewNext, ReviewStep

\* A move of a review is a step of the work it stands for, or none.
LEMMA ReviewIsWork ==
    ReviewGoes => [Reviewed!TaskNext]_(CASE review.status = "none" -> "absent"
                                         [] review.status = "queued" -> "waiting"
                                         [] review.status = "running" -> "active"
                                         [] review.status = "succeeded" -> "done"
                                         [] review.status = "failed" -> "failed")
  <1> SUFFICES ASSUME ReviewGoes
               PROVE  [Reviewed!TaskNext]_(CASE review.status = "none" -> "absent"
                                             [] review.status = "queued" -> "waiting"
                                             [] review.status = "running" -> "active"
                                             [] review.status = "succeeded" -> "done"
                                             [] review.status = "failed" -> "failed")
    OBVIOUS
  <1>1. CASE review.status = "none" /\ review'.status = "queued"
    BY <1>1 DEF Reviewed!TaskNext, Reviewed!Request
  <1>2. CASE review.status = "queued" /\ review'.status = "running"
    BY <1>2 DEF Reviewed!TaskNext, Reviewed!Take
  <1>3. CASE review.status = "running" /\ review'.status = "queued"
    BY <1>3 DEF Reviewed!TaskNext, Reviewed!HandBack
  <1>4. CASE review'.status = review.status
    BY <1>4
  <1>5. CASE review.status \in {"queued", "running"} /\ review'.status = "failed"
    BY <1>5 DEF Reviewed!TaskNext, Reviewed!GiveUp
  <1>6. CASE review.status = "running" /\ review'.status = "succeeded"
    BY <1>6 DEF Reviewed!TaskNext, Reviewed!Complete
  <1> QED
    BY <1>1, <1>2, <1>3, <1>4, <1>5, <1>6 DEF ReviewGoes

\* A review ends at most once: no run that was taken over, no late error and no deadline
\* undoes a saved report or a refund (complete_, finalize_v22_review_generation).
THEOREM ReviewsEndOnce == ReviewSpec => Reviewed!TaskSafety
  <1>1. ReviewInit => Reviewed!TaskInit /\ DOMAIN review = ReviewFields
    BY DEF ReviewInit, Reviewed!TaskInit, ReviewFields
  <1>2. ReviewGoes => DOMAIN review' = ReviewFields
    BY DEF ReviewGoes
  <1> DEFINE Shape == DOMAIN review = ReviewFields
  <1>3. ReviewInit => Shape /\ Reviewed!TaskInit
    BY <1>1
  <1>4. Shape /\ [ReviewNext]_reviewVars => Shape'
    BY <1>2, ReviewMoves
  <1>5. Shape /\ [ReviewNext]_reviewVars =>
            [Reviewed!TaskNext]_(CASE review.status = "none" -> "absent"
                                   [] review.status = "queued" -> "waiting"
                                   [] review.status = "running" -> "active"
                                   [] review.status = "succeeded" -> "done"
                                   [] review.status = "failed" -> "failed")
    BY ReviewMoves, ReviewIsWork
  <1> HIDE DEF Shape
  <1> QED
    BY <1>3, <1>4, <1>5, PTL DEF ReviewSpec, Reviewed!TaskSafety

-----------------------------------------------------------------------------
(* Together.                                                                 *)

\* What a person was told stays true: a discovery can be confirmed until it is over, and an
\* accepted comparison or page check is stored with its selection.
THEOREM ChoicesStayKept == MarketSpec /\ SourceSpec => []ChoicesAreKept
  BY DiscoveriesStayConfirmable, AcceptedStaysStored, PTL DEF ChoicesAreKept

-----------------------------------------------------------------------------
(* Attempts of a report job (ReportPipelines): what an attempt holds in      *)
(* memory is what the checkpoints of the job hold, and what a checkpoint     *)
(* holds stays.                                                              *)

PipeFields == {"at", "read", "site", "gbp", "rivals", "profiles", "slot", "time", "stage", "report"}
SavedFields == {"pages", "manifest", "site", "gbp", "profiles", "rivals", "copy", "time", "stages"}

PipeShape ==
    /\ DOMAIN pipe = PipeFields /\ pipe.read \in [SitePages -> {"unread", "ok", "failed"}]
    /\ DOMAIN saved = SavedFields /\ saved.pages \subseteq SitePages
    /\ DOMAIN spent = {"gbp", "slots", "calls"} /\ spent.slots \in Nat
    /\ pipeTime \in Nat

Prospect == pipeJob.kind = "prospect"
WithProfiles == {"profiles", "profile_call"}
WithGbp == {"rivals", "build"} \cup WithProfiles
WithSite == {"gbp", "gbp_call"} \cup WithGbp

\* What a stored report was made of, when every checkpoint it needs is there.
ProspectReport(s, report) ==
    /\ s.site # None /\ s.gbp # None /\ s.rivals # None
    /\ report.sources = [site |-> s.site, gbp |-> s.gbp, rivals |-> s.rivals, stale |-> report.sources.stale]
    /\ [sources |-> report.sources, text |-> report.text] \in s.copy
LastStage(parent, time) ==
    LET verified == [stage |-> "reprioritization", evaluated |-> time, public |-> [stage |-> "public", parent |-> parent],
                     cross |-> CrossSourceStage(time)]
    IN  [stage |-> "execution", evaluated |-> time, diff |-> [stage |-> "diff", evaluated |-> time, verified |-> verified]]
Rightful(job, s, report) ==
    IF job.kind = "prospect" THEN ProspectReport(s, report)
    ELSE s.time # None /\ report = LastStage(job.parent, s.time.at)

\* An attempt is of the executor that the job selects.
RightStep(step) ==
    /\ step \in {"market", "site", "manifest"} \cup WithSite => Prospect
    /\ step \in {"resolve", "parent", "time", "stages"} => ~Prospect

\* What the attempt read of the site is what the job has read of it.
ReadsAreSaved ==
    \A p \in SitePages : (pipe.read[p] = "ok" => p \in saved.pages) /\ (pipe.read[p] = "failed" => p \notin saved.pages)

\* A manifest without an inventory is this attempt's, or one's that stopped there.
ManifestKnown ==
    /\ pipe.at = "manifest" => /\ saved.site = None /\ \A p \in SitePages : pipe.read[p] # "unread"
                               /\ saved.manifest.pages = PagesRead \/ "manifest" \in cuts
    /\ saved.manifest # None /\ saved.site = None => pipe.at = "manifest" \/ "manifest" \in cuts \/ pipeEnd # "none"

\* What the attempt holds is what is saved.
Remembers(job, s, attempt) ==
    /\ attempt.at \in WithSite => attempt.site = s.site /\ s.site # None
    /\ attempt.at = "gbp_call" => s.gbp = None
    /\ attempt.at \in WithGbp => attempt.gbp = s.gbp /\ s.gbp # None
    /\ attempt.at \in WithProfiles => s.rivals = None /\ attempt.time < MarketExpiry
    /\ attempt.at = "build" => attempt.rivals = s.rivals /\ s.rivals # None
    /\ attempt.at = "stages" => s.time # None /\ attempt.time = s.time.at
    /\ attempt.at = "persist" => Rightful(job, s, attempt.report)

\* What is saved and spent.
CheckpointsSound(s, sp) ==
    /\ s.rivals # None => s.rivals.from < MarketExpiry
    /\ \A c, d \in s.copy : c.sources = d.sources => c.text = d.text
    /\ sp.calls = sp.slots /\ sp.slots <= RivalSlots

\* The stored report, and how the job ended.
RowSound ==
    /\ reportRow # None => Rightful(pipeJob, saved, reportRow) /\ ("persist" \in cuts \/ pipeEnd = "succeeded")
    /\ pipeEnd = "V22_RESULT_PERSISTENCE_REJECTED" => Prospect /\ "persist" \in cuts
    /\ pipeEnd = "V22_SITE_INVENTORY_CHECKPOINT_INVALID" => "manifest" \in cuts /\ saved.manifest.pages # saved.pages

PipeInv ==
    /\ PipeShape /\ RightStep(pipe.at) /\ (pipeEnd # "none" => pipe.at = "idle")
    /\ ReadsAreSaved /\ ManifestKnown /\ Remembers(pipeJob, saved, pipe) /\ CheckpointsSound(saved, spent) /\ RowSound

\* Checkpoints that stay while others are saved.
Grows(s, t) ==
    /\ s.site # None => t.site = s.site
    /\ s.gbp # None => t.gbp = s.gbp
    /\ s.rivals # None => t.rivals = s.rivals
    /\ s.time # None => t.time = s.time
    /\ s.copy \subseteq t.copy
-----------------------------------------------------------------------------
\* What was saved is not nothing.
LEMMA Something ==
    /\ \A x : [at |-> x] # None /\ [pages |-> x] # None
    /\ \A x, y : [pages |-> x, at |-> y] # None
    /\ \A x, y, z : [from |-> x, known |-> y, truncated |-> z] # None
  <1>1. DOMAIN None = {"none"}
    BY DEF None
  <1>2. \A x : DOMAIN [at |-> x] = {"at"} /\ DOMAIN [pages |-> x] = {"pages"}
    OBVIOUS
  <1>3. \A x, y : DOMAIN [pages |-> x, at |-> y] = {"pages", "at"}
    OBVIOUS
  <1>4. \A x, y, z : DOMAIN [from |-> x, known |-> y, truncated |-> z] = {"from", "known", "truncated"}
    OBVIOUS
  <1> QED
    BY <1>1, <1>2, <1>3, <1>4

\* A report that could be stored still can be while checkpoints are added.
LEMMA RightfulStays ==
    ASSUME NEW job, NEW s, NEW t, NEW report, Grows(s, t), Rightful(job, s, report)
    PROVE  Rightful(job, t, report)
  BY DEF Rightful, ProspectReport, Grows

\* An attempt that ended knows nothing.
LEMMA NothingHeld ==
    /\ NoAttempt.at = "idle" /\ DOMAIN NoAttempt = PipeFields
    /\ NoAttempt.read \in [SitePages -> {"unread", "ok", "failed"}] /\ \A p \in SitePages : NoAttempt.read[p] = "unread"
  <1>1. NoAttempt.read = [p \in SitePages |-> "unread"]
    BY DEF NoAttempt
  <1> QED
    BY <1>1 DEF NoAttempt, PipeFields

\* The attempt is over.
LEMMA Rests ==
    ASSUME PipeInv, pipeEnd = "none", pipe' = NoAttempt, UNCHANGED <<saved, spent, pipeJob, pipeTime>>, cuts \subseteq cuts',
           pipe.at = "manifest" => "manifest" \in cuts' \/ pipeEnd' # "none", RowSound'
    PROVE  PipeInv'
  <1>1. PipeShape'
    BY NothingHeld DEF PipeInv, PipeShape
  <1>2. pipe'.at = "idle"
    BY NothingHeld
  <1>3. RightStep(pipe.at)' /\ Remembers(pipeJob, saved, pipe)'
    BY <1>2 DEF RightStep, Remembers, WithSite, WithGbp, WithProfiles
  <1>4. ReadsAreSaved'
    BY NothingHeld DEF ReadsAreSaved
  <1>5. ManifestKnown'
    BY <1>2 DEF PipeInv, ManifestKnown
  <1>6. CheckpointsSound(saved, spent)'
    BY DEF PipeInv
  <1> QED
    BY <1>1, <1>2, <1>3, <1>4, <1>5, <1>6 DEF PipeInv

\* A deterministic error.
LEMMA FailKeeps ==
    ASSUME PipeInv, pipeEnd = "none", NEW code, Fail(code), Keeps,
           code \notin {"none", "V22_RESULT_PERSISTENCE_REJECTED"},
           code = "V22_SITE_INVENTORY_CHECKPOINT_INVALID" => "manifest" \in cuts /\ saved.manifest.pages # saved.pages
    PROVE  PipeInv'
  <1>1. /\ pipeEnd' = code /\ pipe' = NoAttempt /\ UNCHANGED <<saved, spent, reportRow, pipeJob, pipeTime, cuts>>
    BY DEF Fail, Keeps
  <1>2. RowSound'
    <2>1. reportRow # None => Rightful(pipeJob, saved, reportRow) /\ "persist" \in cuts
      BY DEF PipeInv, RowSound
    <2> QED
      BY <1>1, <2>1 DEF RowSound
  <1> QED
    BY <1>1, <1>2, Rests

\* A transient one, or a worker that is lost.
LEMMA AgainKeeps ==
    ASSUME PipeInv, pipeEnd = "none", Again, Keeps
    PROVE  PipeInv'
  <1>1. /\ pipeEnd' \in {"RETRIES_EXHAUSTED", "none"} /\ pipe' = NoAttempt
        /\ UNCHANGED <<saved, spent, reportRow, pipeJob, pipeTime>>
        /\ cuts' = cuts \cup ({pipe.at} \cap {"manifest", "persist"})
    BY DEF Again, Keeps
  <1>2. RowSound'
    <2>1. reportRow # None => Rightful(pipeJob, saved, reportRow) /\ "persist" \in cuts
      BY DEF PipeInv, RowSound
    <2> QED
      BY <1>1, <2>1 DEF RowSound
  <1> QED
    BY <1>1, <1>2, Rests

\* The attempt goes on.
LEMMA GoesOn ==
    ASSUME PipeInv, pipeEnd = "none", NEW x, Goes(x), reportRow' = reportRow,
           DOMAIN x = PipeFields, x.read \in [SitePages -> {"unread", "ok", "failed"}],
           DOMAIN saved' = SavedFields, saved'.pages \subseteq SitePages,
           DOMAIN spent' = {"gbp", "slots", "calls"}, spent'.slots \in Nat,
           Grows(saved, saved'), RightStep(x.at), ReadsAreSaved', ManifestKnown',
           Remembers(pipeJob, saved', x), CheckpointsSound(saved', spent')
    PROVE  PipeInv'
  <1>1. pipe' = x /\ UNCHANGED <<pipeJob, pipeTime, tries, pipeEnd, cuts>>
    BY DEF Goes
  <1>2. PipeShape'
    BY <1>1 DEF PipeInv, PipeShape
  <1>3. RightStep(pipe.at)' /\ Remembers(pipeJob, saved, pipe)' /\ CheckpointsSound(saved, spent)'
    BY <1>1 DEF RightStep, Prospect
  <1>4. reportRow # None => Rightful(pipeJob, saved', reportRow) /\ "persist" \in cuts
    BY RightfulStays DEF PipeInv, RowSound
  <1>5. RowSound'
    BY <1>1, <1>4 DEF RowSound
  <1> QED
    BY <1>1, <1>2, <1>3, <1>5 DEF PipeInv

\* The attempt goes on, and what is known of the site stays.
LEMMA Walks ==
    ASSUME PipeInv, pipeEnd = "none", pipe.at # "manifest", NEW x, Goes(x), reportRow' = reportRow,
           DOMAIN x = PipeFields, x.read = pipe.read, x.at # "manifest",
           DOMAIN saved' = SavedFields, saved'.pages = saved.pages, saved'.manifest = saved.manifest, saved'.site = saved.site,
           DOMAIN spent' = {"gbp", "slots", "calls"}, spent'.slots \in Nat,
           Grows(saved, saved'), RightStep(x.at), Remembers(pipeJob, saved', x), CheckpointsSound(saved', spent')
    PROVE  PipeInv'
  <1>1. pipe' = x /\ UNCHANGED <<pipeEnd, cuts>>
    BY DEF Goes
  <1>2. ReadsAreSaved'
    BY <1>1 DEF PipeInv, ReadsAreSaved
  <1>3. ManifestKnown'
    BY <1>1 DEF PipeInv, ManifestKnown
  <1>4. x.read \in [SitePages -> {"unread", "ok", "failed"}] /\ saved'.pages \subseteq SitePages
    BY DEF PipeInv, PipeShape
  <1> QED
    BY <1>2, <1>3, <1>4, GoesOn

\* The attempt goes on, and nothing is saved or spent.
LEMMA WalksOn ==
    ASSUME PipeInv, pipeEnd = "none", pipe.at # "manifest", NEW x, Goes(x), Keeps,
           DOMAIN x = PipeFields, x.read = pipe.read, x.at # "manifest", RightStep(x.at), Remembers(pipeJob, saved, x)
    PROVE  PipeInv'
  <1>1. UNCHANGED <<saved, spent, reportRow>>
    BY DEF Keeps
  <1>2. DOMAIN saved = SavedFields /\ DOMAIN spent = {"gbp", "slots", "calls"} /\ spent.slots \in Nat
        /\ CheckpointsSound(saved, spent)
    BY DEF PipeInv, PipeShape
  <1>3. Grows(saved, saved)
    BY DEF Grows
  <1> QED
    BY <1>1, <1>2, <1>3, Walks
-----------------------------------------------------------------------------
(* A prospect's attempt, step by step.                                       *)

\* The attempt as a record, whatever step it is at.
LEMMA AttemptFields ==
    ASSUME PipeInv
    PROVE  /\ DOMAIN pipe = PipeFields /\ DOMAIN saved = SavedFields /\ DOMAIN spent = {"gbp", "slots", "calls"}
           /\ spent.slots \in Nat /\ pipeTime \in Nat
           /\ pipe.read \in [SitePages -> {"unread", "ok", "failed"}] /\ saved.pages \subseteq SitePages
           /\ Remembers(pipeJob, saved, pipe) /\ CheckpointsSound(saved, spent)
           /\ pipe.at \in {"market", "site", "manifest"} \cup WithSite => Prospect
           /\ pipe.at \in {"resolve", "parent", "time", "stages"} => ~Prospect
  BY DEF PipeInv, PipeShape, RightStep

\* Route selects the executor.
LEMMA RouteKeeps ==
    ASSUME PipeInv, Route
    PROVE  PipeInv'
  <1> DEFINE x == [NoAttempt EXCEPT !.at = IF pipeJob.kind = "prospect" THEN "market" ELSE "resolve"]
  <1>1. /\ pipe' = x /\ UNCHANGED <<pipeJob, saved, spent, pipeTime, reportRow, pipeEnd, cuts>>
        /\ pipe.at = "idle" /\ pipeEnd = "none"
    BY DEF Route
  <1>2. /\ DOMAIN x = PipeFields /\ x.read = NoAttempt.read /\ x.at \in {"market", "resolve"}
        /\ x.at = "market" => Prospect
        /\ x.at = "resolve" => ~Prospect
    BY NothingHeld DEF NoAttempt, PipeFields, Prospect
  <1> HIDE DEF x
  <1>3. PipeShape'
    BY <1>1, <1>2, NothingHeld DEF PipeInv, PipeShape
  <1>4. RightStep(pipe.at)'
    BY <1>1, <1>2 DEF RightStep, Prospect, WithSite, WithGbp, WithProfiles
  <1>5. Remembers(pipeJob, saved, x)
    BY <1>2 DEF Remembers, WithSite, WithGbp, WithProfiles
  <1>6. ReadsAreSaved'
    BY <1>1, <1>2, NothingHeld DEF ReadsAreSaved
  <1>7. ManifestKnown'
    BY <1>1, <1>2 DEF PipeInv, ManifestKnown
  <1>8. RowSound' /\ CheckpointsSound(saved, spent)'
    BY <1>1 DEF PipeInv, RowSound, Prospect
  <1> QED
    BY <1>1, <1>3, <1>4, <1>5, <1>6, <1>7, <1>8 DEF PipeInv

\* collect_confirmed_sources looks at the market first.
LEMMA CheckMarketKeeps ==
    ASSUME PipeInv, CheckMarket
    PROVE  PipeInv'
  <1>1. pipeEnd = "none" /\ pipe.at = "market" /\ Keeps
    BY DEF CheckMarket, OnStep
  <1> DEFINE x == [pipe EXCEPT !.at = "site"]
  <1>2. \/ Fail("V22_COMPETITOR_DISCOVERY_INVALID") \/ Fail("V22_COMPETITOR_MARKET_SNAPSHOT_INVALID")
        \/ Goes(x)
    BY DEF CheckMarket
  <1>3. DOMAIN x = PipeFields /\ x.read = pipe.read /\ x.at = "site"
    BY AttemptFields DEF PipeFields
  <1> HIDE DEF x
  <1>4. RightStep(x.at)
    BY <1>1, <1>3, AttemptFields DEF RightStep
  <1>5. Remembers(pipeJob, saved, x)
    BY <1>3 DEF Remembers, WithSite, WithGbp, WithProfiles
  <1>6. CASE Goes(x)
    BY <1>1, <1>3, <1>4, <1>5, <1>6, WalksOn
  <1> QED
    BY <1>1, <1>2, <1>6, FailKeeps

\* The inventory of an earlier attempt.
LEMMA ReuseSiteKeeps ==
    ASSUME PipeInv, ReuseSite
    PROVE  PipeInv'
  <1> DEFINE x == [pipe EXCEPT !.at = "gbp", !.site = saved.site]
  <1>1. pipeEnd = "none" /\ pipe.at = "site" /\ saved.site # None /\ Keeps /\ Goes(x)
    BY DEF ReuseSite, OnStep
  <1>2. DOMAIN x = PipeFields /\ x.read = pipe.read /\ x.at = "gbp" /\ x.site = saved.site
    BY AttemptFields DEF PipeFields
  <1> HIDE DEF x
  <1>3. RightStep(x.at)
    BY <1>1, <1>2, AttemptFields DEF RightStep
  <1>4. Remembers(pipeJob, saved, x)
    BY <1>1, <1>2 DEF Remembers, WithSite, WithGbp, WithProfiles
  <1> QED
    BY <1>1, <1>2, <1>3, <1>4, WalksOn

\* A page is read, and kept for the attempts to come.
LEMMA ReadPageKeeps ==
    ASSUME PipeInv, NEW p \in SitePages, ReadPage(p)
    PROVE  PipeInv'
  <1>1. pipeEnd = "none" /\ pipe.at = "site" /\ saved.site = None /\ pipe.read[p] = "unread" /\ UNCHANGED <<spent, reportRow>>
    BY DEF ReadPage, OnStep
  <1>2. ASSUME NEW answer \in {"ok", "failed"}, Goes([pipe EXCEPT !.read[p] = answer]),
               answer = "ok" => saved' = [saved EXCEPT !.pages = saved.pages \cup {p}],
               answer = "failed" => saved' = saved /\ p \notin saved.pages
        PROVE  PipeInv'
    <2> DEFINE x == [pipe EXCEPT !.read[p] = answer]
    <2>1. DOMAIN x = PipeFields /\ x.read = [pipe.read EXCEPT ![p] = answer] /\ x.at = "site"
      BY <1>1, AttemptFields DEF PipeFields
    <2>2. Goes(x)
      BY <1>2
    <2> HIDE DEF x
    <2>3. /\ DOMAIN saved' = SavedFields /\ saved'.site = saved.site /\ saved'.gbp = saved.gbp /\ saved'.rivals = saved.rivals
          /\ saved'.time = saved.time /\ saved'.copy = saved.copy /\ saved'.manifest = saved.manifest
          /\ saved'.pages \subseteq SitePages
          /\ \A q \in SitePages : q \in saved'.pages <=> q \in saved.pages \/ (q = p /\ answer = "ok")
      <3>1. CASE answer = "ok"
        BY <1>2, <3>1, AttemptFields DEF SavedFields
      <3>2. CASE answer = "failed"
        BY <1>2, <3>2, AttemptFields
      <3> QED
        BY <3>1, <3>2
    <2>4. /\ x.read \in [SitePages -> {"unread", "ok", "failed"}] /\ x.read[p] = answer
          /\ \A q \in SitePages \ {p} : x.read[q] = pipe.read[q]
      BY <2>1, AttemptFields
    <2>5. pipe' = x /\ UNCHANGED <<cuts, pipeEnd>>
      BY <2>2 DEF Goes
    <2>6. ReadsAreSaved'
      <3>1. ASSUME NEW q \in SitePages
            PROVE  (x.read[q] = "ok" => q \in saved'.pages) /\ (x.read[q] = "failed" => q \notin saved'.pages)
        <4>1. CASE q = p
          BY <1>2, <2>3, <2>4, <4>1
        <4>2. CASE q # p
          BY <2>3, <2>4, <4>2 DEF PipeInv, ReadsAreSaved
        <4> QED
          BY <4>1, <4>2
      <3> QED
        BY <2>5, <3>1 DEF ReadsAreSaved
    <2>7. ManifestKnown'
      BY <1>1, <2>1, <2>3, <2>5 DEF PipeInv, ManifestKnown
    <2>8. Grows(saved, saved') /\ CheckpointsSound(saved', spent')
      BY <1>1, <2>3, AttemptFields DEF Grows, CheckpointsSound
    <2>9. RightStep(x.at) /\ Remembers(pipeJob, saved', x)
      BY <1>1, <2>1, AttemptFields DEF RightStep, Remembers, WithSite, WithGbp, WithProfiles
    <2> QED
      BY <1>1, <2>1, <2>2, <2>3, <2>4, <2>6, <2>7, <2>8, <2>9, AttemptFields, GoesOn
  <1>3. CASE saved' = [saved EXCEPT !.pages = @ \cup {p}] /\ Goes([pipe EXCEPT !.read[p] = "ok"])
    BY <1>2, <1>3
  <1>4. CASE p \notin saved.pages /\ UNCHANGED saved
    <2>1. CASE Fail("V22_SITE_INVENTORY_SITE_UNREACHABLE")
      BY <1>1, <1>4, <2>1, FailKeeps DEF Keeps
    <2>2. CASE Goes([pipe EXCEPT !.read[p] = "failed"])
      BY <1>2, <1>4, <2>2
    <2>3. Fail("V22_SITE_INVENTORY_SITE_UNREACHABLE") \/ Goes([pipe EXCEPT !.read[p] = "failed"])
          \/ Goes([pipe EXCEPT !.read[p] = "ok"])
      BY <1>4 DEF ReadPage
    <2> QED
      BY <1>3, <1>4, <2>1, <2>2, <2>3 DEF ReadPage
  <1> QED
    BY <1>3, <1>4 DEF ReadPage

\* The manifest is saved before the inventory; what an earlier attempt saved stays.
LEMMA SaveManifestKeeps ==
    ASSUME PipeInv, SaveManifest
    PROVE  PipeInv'
  <1> DEFINE x == [pipe EXCEPT !.at = "manifest"]
             m == FirstSaved(saved.manifest, [pages |-> PagesRead])
  <1>1. /\ pipeEnd = "none" /\ pipe.at = "site" /\ saved.site = None /\ \A p \in SitePages : pipe.read[p] # "unread"
        /\ saved' = [saved EXCEPT !.manifest = m] /\ Goes(x) /\ UNCHANGED <<spent, reportRow>>
    BY DEF SaveManifest, OnStep
  <1>2. DOMAIN x = PipeFields /\ x.read = pipe.read /\ x.at = "manifest"
    BY AttemptFields DEF PipeFields
  <1>3. m.pages = PagesRead \/ "manifest" \in cuts
    <2>1. CASE saved.manifest = None
      BY <2>1 DEF FirstSaved
    <2>2. CASE saved.manifest # None
      BY <1>1, <2>2 DEF PipeInv, ManifestKnown
    <2> QED
      BY <2>1, <2>2
  <1> HIDE DEF x, m
  <1>4. /\ DOMAIN saved' = SavedFields /\ saved'.site = saved.site /\ saved'.gbp = saved.gbp /\ saved'.rivals = saved.rivals
        /\ saved'.time = saved.time /\ saved'.copy = saved.copy /\ saved'.manifest = m /\ saved'.pages = saved.pages
    BY <1>1, AttemptFields DEF SavedFields
  <1>5. pipe' = x /\ UNCHANGED <<cuts, pipeEnd>>
    BY <1>1 DEF Goes
  <1>6. ReadsAreSaved'
    BY <1>2, <1>4, <1>5 DEF PipeInv, ReadsAreSaved
  <1>7. ManifestKnown'
    <2>1. PagesRead' = PagesRead
      BY <1>2, <1>5 DEF PagesRead
    <2> QED
      BY <1>1, <1>2, <1>3, <1>4, <1>5, <2>1 DEF ManifestKnown
  <1>8. Grows(saved, saved') /\ CheckpointsSound(saved', spent')
    BY <1>1, <1>4, AttemptFields DEF Grows, CheckpointsSound
  <1>9. RightStep(x.at) /\ Remembers(pipeJob, saved', x)
    BY <1>1, <1>2, AttemptFields DEF RightStep, Remembers, WithSite, WithGbp, WithProfiles
  <1> QED
    BY <1>1, <1>2, <1>4, <1>6, <1>7, <1>8, <1>9, AttemptFields, GoesOn

\* The pages that the attempt read are all that the job has read.
LEMMA PagesReadAreSaved ==
    ASSUME PipeInv, \A p \in SitePages : pipe.read[p] # "unread"
    PROVE  PagesRead = saved.pages
  <1>1. \A p \in SitePages : pipe.read[p] \in {"ok", "failed"}
    BY AttemptFields
  <1>2. \A p \in SitePages : pipe.read[p] = "ok" <=> p \in saved.pages
    BY <1>1 DEF PipeInv, ReadsAreSaved
  <1> QED
    BY <1>2, AttemptFields DEF PagesRead

\* The inventory, unless the manifest is another attempt's.
LEMMA SaveInventoryKeeps ==
    ASSUME PipeInv, SaveInventory
    PROVE  PipeInv'
  <1>0. /\ pipeEnd = "none" /\ pipe.at = "manifest" /\ UNCHANGED <<spent, reportRow>> /\ saved.site = None
        /\ PagesRead = saved.pages /\ (saved.manifest.pages = PagesRead \/ "manifest" \in cuts)
    BY PagesReadAreSaved DEF SaveInventory, OnStep, PipeInv, ManifestKnown
  <1>1. CASE saved.manifest.pages # PagesRead
    <2>1. Fail("V22_SITE_INVENTORY_CHECKPOINT_INVALID") /\ Keeps
      BY <1>0, <1>1 DEF SaveInventory, Keeps
    <2> QED
      BY <1>0, <1>1, <2>1, FailKeeps
  <1>2. CASE saved.manifest.pages = PagesRead
    <2> DEFINE site == [pages |-> PagesRead, at |-> pipeTime]
               x == [pipe EXCEPT !.at = "gbp", !.site = saved'.site]
    <2>1. saved' = [saved EXCEPT !.site = site] /\ Goes(x)
      BY <1>2 DEF SaveInventory
    <2>2. site # None
      BY Something
    <2> HIDE DEF site
    <2>3. /\ DOMAIN saved' = SavedFields /\ saved'.site = site /\ saved'.gbp = saved.gbp /\ saved'.rivals = saved.rivals
          /\ saved'.time = saved.time /\ saved'.copy = saved.copy /\ saved'.pages = saved.pages
      BY <2>1, AttemptFields DEF SavedFields
    <2>4. DOMAIN x = PipeFields /\ x.read = pipe.read /\ x.at = "gbp" /\ x.site = saved'.site
      BY AttemptFields DEF PipeFields
    <2> HIDE DEF x
    <2>5. pipe' = x /\ UNCHANGED <<cuts, pipeEnd>>
      BY <2>1 DEF Goes
    <2>6. ReadsAreSaved'
      BY <2>3, <2>4, <2>5 DEF PipeInv, ReadsAreSaved
    <2>7. ManifestKnown'
      BY <2>2, <2>3, <2>4, <2>5 DEF ManifestKnown
    <2>8. Grows(saved, saved') /\ CheckpointsSound(saved', spent')
      BY <1>0, <2>3, AttemptFields DEF Grows, CheckpointsSound
    <2>9. RightStep(x.at) /\ Remembers(pipeJob, saved', x)
      BY <1>0, <2>2, <2>3, <2>4, AttemptFields DEF RightStep, Remembers, WithSite, WithGbp, WithProfiles
    <2> QED
      BY <1>0, <2>1, <2>3, <2>4, <2>6, <2>7, <2>8, <2>9, AttemptFields, GoesOn
  <1> QED
    BY <1>1, <1>2

\* The client's profile of an earlier attempt.
LEMMA ReuseGbpKeeps ==
    ASSUME PipeInv, ReuseGbp
    PROVE  PipeInv'
  <1> DEFINE x == [pipe EXCEPT !.at = "rivals", !.gbp = saved.gbp]
  <1>1. pipeEnd = "none" /\ pipe.at = "gbp" /\ saved.gbp # None /\ Keeps /\ Goes(x)
    BY DEF ReuseGbp, OnStep
  <1>2. DOMAIN x = PipeFields /\ x.read = pipe.read /\ x.at = "rivals" /\ x.site = pipe.site /\ x.gbp = saved.gbp
    BY AttemptFields DEF PipeFields
  <1> HIDE DEF x
  <1>3. RightStep(x.at)
    BY <1>1, <1>2, AttemptFields DEF RightStep, WithSite
  <1>4. Remembers(pipeJob, saved, x)
    BY <1>1, <1>2, AttemptFields DEF Remembers, WithSite, WithGbp, WithProfiles
  <1> QED
    BY <1>1, <1>2, <1>3, <1>4, WalksOn

\* A lookup of the client's profile is claimed.
LEMMA ClaimGbpKeeps ==
    ASSUME PipeInv, ClaimGbp
    PROVE  PipeInv'
  <1>0. pipeEnd = "none" /\ pipe.at = "gbp" /\ saved.gbp = None /\ UNCHANGED <<saved, reportRow>>
    BY DEF ClaimGbp, OnStep
  <1>1. CASE spent.gbp = GbpClaims
    BY <1>0, <1>1, FailKeeps DEF ClaimGbp, Keeps
  <1>2. CASE spent.gbp # GbpClaims
    <2> DEFINE x == [pipe EXCEPT !.at = "gbp_call"]
    <2>1. spent' = [spent EXCEPT !.gbp = spent.gbp + 1] /\ Goes(x)
      BY <1>2 DEF ClaimGbp
    <2>2. DOMAIN spent' = {"gbp", "slots", "calls"} /\ spent'.slots = spent.slots /\ spent'.calls = spent.calls
      BY <2>1, AttemptFields
    <2>3. DOMAIN x = PipeFields /\ x.read = pipe.read /\ x.at = "gbp_call" /\ x.site = pipe.site
      BY AttemptFields DEF PipeFields
    <2> HIDE DEF x
    <2>4. RightStep(x.at)
      BY <1>0, <2>3, AttemptFields DEF RightStep, WithSite
    <2>5. Remembers(pipeJob, saved, x)
      BY <1>0, <2>3, AttemptFields DEF Remembers, WithSite, WithGbp, WithProfiles
    <2>6. Grows(saved, saved') /\ CheckpointsSound(saved', spent')
      BY <1>0, <2>2, AttemptFields DEF Grows, CheckpointsSound
    <2> QED
      BY <1>0, <2>1, <2>2, <2>3, <2>4, <2>5, <2>6, AttemptFields, Walks
  <1> QED
    BY <1>1, <1>2

\* The answer about the client's profile.
LEMMA AnswerGbpKeeps ==
    ASSUME PipeInv, AnswerGbp
    PROVE  PipeInv'
  <1>0. pipeEnd = "none" /\ pipe.at = "gbp_call" /\ saved.gbp = None /\ UNCHANGED <<spent, reportRow>>
    BY AttemptFields DEF AnswerGbp, OnStep, Remembers
  <1>1. CASE saved' = [saved EXCEPT !.gbp = [at |-> pipeTime]] /\ Goes([pipe EXCEPT !.at = "rivals", !.gbp = saved'.gbp])
    <2> DEFINE x == [pipe EXCEPT !.at = "rivals", !.gbp = saved'.gbp]
    <2>1. /\ DOMAIN saved' = SavedFields /\ saved'.gbp # None /\ saved'.site = saved.site /\ saved'.rivals = saved.rivals
          /\ saved'.time = saved.time /\ saved'.copy = saved.copy /\ saved'.pages = saved.pages
          /\ saved'.manifest = saved.manifest
      <3>1. saved'.gbp = [at |-> pipeTime]
        BY <1>1, AttemptFields DEF SavedFields
      <3> QED
        BY <1>1, <3>1, AttemptFields, Something DEF SavedFields
    <2>2. DOMAIN x = PipeFields /\ x.read = pipe.read /\ x.at = "rivals" /\ x.site = pipe.site /\ x.gbp = saved'.gbp
      BY AttemptFields DEF PipeFields
    <2>3. Goes(x)
      BY <1>1
    <2> HIDE DEF x
    <2>4. RightStep(x.at)
      BY <1>0, <2>2, AttemptFields DEF RightStep, WithSite
    <2>5. Remembers(pipeJob, saved', x)
      BY <1>0, <2>1, <2>2, AttemptFields DEF Remembers, WithSite, WithGbp, WithProfiles
    <2>6. Grows(saved, saved') /\ CheckpointsSound(saved', spent')
      BY <1>0, <2>1, AttemptFields DEF Grows, CheckpointsSound
    <2> QED
      BY <1>0, <2>1, <2>2, <2>3, <2>4, <2>5, <2>6, AttemptFields, Walks
  <1>2. CASE UNCHANGED saved /\ Goes([pipe EXCEPT !.at = "gbp"])
    <2> DEFINE x == [pipe EXCEPT !.at = "gbp"]
    <2>1. DOMAIN x = PipeFields /\ x.read = pipe.read /\ x.at = "gbp" /\ x.site = pipe.site
      BY AttemptFields DEF PipeFields
    <2>2. Goes(x) /\ Keeps
      BY <1>0, <1>2 DEF Keeps
    <2> HIDE DEF x
    <2>3. RightStep(x.at)
      BY <1>0, <2>1, AttemptFields DEF RightStep, WithSite
    <2>4. Remembers(pipeJob, saved, x)
      BY <1>0, <2>1, AttemptFields DEF Remembers, WithSite, WithGbp, WithProfiles
    <2> QED
      BY <1>0, <2>1, <2>2, <2>3, <2>4, WalksOn
  <1>3. CASE UNCHANGED saved /\ Again
    BY <1>0, <1>3, AgainKeeps DEF Keeps
  <1>4. CASE UNCHANGED saved /\ (Fail("V22_CUSTOMER_PUBLIC_GBP_REJECTED") \/ Fail("V22_CUSTOMER_PUBLIC_GBP_IDENTITY_INVALID"))
    BY <1>0, <1>4, FailKeeps DEF Keeps
  <1> QED
    BY <1>1, <1>2, <1>3, <1>4 DEF AnswerGbp

\* The market may have expired before the competitors' profiles are asked for.
LEMMA CheckRivalsKeeps ==
    ASSUME PipeInv, CheckRivals
    PROVE  PipeInv'
  <1>0. pipeEnd = "none" /\ pipe.at = "rivals" /\ Keeps
    BY DEF CheckRivals, OnStep
  <1>1. CASE pipeTime >= MarketExpiry
    BY <1>0, <1>1, FailKeeps DEF CheckRivals
  <1>2. CASE ~(pipeTime >= MarketExpiry)
    <2> DEFINE at == IF saved.rivals # None THEN "build" ELSE "profiles"
               x == [pipe EXCEPT !.at = at, !.rivals = saved.rivals, !.time = pipeTime]
    <2>1. Goes(x)
      BY <1>2 DEF CheckRivals
    <2>2. DOMAIN x = PipeFields /\ x.read = pipe.read /\ x.at = at /\ x.site = pipe.site /\ x.gbp = pipe.gbp
          /\ x.rivals = saved.rivals /\ x.time = pipeTime
      BY AttemptFields DEF PipeFields
    <2>3. pipeTime < MarketExpiry
      BY <1>2, AttemptFields, PipeAssumption
    <2>4. at \in {"build", "profiles"} /\ (at = "build" => saved.rivals # None) /\ (at = "profiles" => saved.rivals = None)
      OBVIOUS
    <2> HIDE DEF x, at
    <2>5. RightStep(x.at)
      BY <1>0, <2>2, <2>4, AttemptFields DEF RightStep, WithSite, WithGbp
    <2>6. Remembers(pipeJob, saved, x)
      BY <1>0, <2>2, <2>3, <2>4, AttemptFields DEF Remembers, WithSite, WithGbp, WithProfiles
    <2> QED
      BY <1>0, <2>1, <2>2, <2>4, <2>5, <2>6, WalksOn
  <1> QED
    BY <1>1, <1>2

\* What an attempt knows while it asks for the competitors' profiles.
LEMMA AsksForProfiles ==
    ASSUME PipeInv, pipe.at \in WithProfiles, NEW x, NEW s, x.at \in WithProfiles, DOMAIN x = PipeFields,
           x.site = pipe.site, x.gbp = pipe.gbp, x.time = pipe.time,
           s.site = saved.site, s.gbp = saved.gbp, s.rivals = saved.rivals
    PROVE  RightStep(x.at) /\ Remembers(pipeJob, s, x) /\ x.at # "manifest"
  <1>1. Remembers(pipeJob, s, x)
    BY AttemptFields DEF Remembers, WithSite, WithGbp, WithProfiles
  <1>2. RightStep(x.at)
    BY AttemptFields DEF RightStep, WithSite, WithGbp, WithProfiles
  <1> QED
    BY <1>1, <1>2 DEF WithProfiles

\* SharedProviderAttemptBudget.claim: a slot of the budget before a request.
LEMMA ClaimSlotKeeps ==
    ASSUME PipeInv, NEW r \in Rivals, ClaimSlot(r)
    PROVE  PipeInv'
  <1>0. pipeEnd = "none" /\ pipe.at = "profiles" /\ UNCHANGED <<saved, reportRow>> /\ pipe.at # "manifest"
    BY DEF ClaimSlot, OnStep
  <1>1. CASE spent.slots < RivalSlots
    <2> DEFINE x == [pipe EXCEPT !.at = "profile_call", !.profiles[r] = "asked"]
    <2>1. spent' = [spent EXCEPT !.slots = spent.slots + 1, !.calls = spent.calls + 1] /\ Goes(x)
      BY <1>1 DEF ClaimSlot
    <2>2. DOMAIN spent' = {"gbp", "slots", "calls"} /\ spent'.slots = spent.slots + 1 /\ spent'.calls = spent.calls + 1
      BY <2>1, AttemptFields
    <2>3. spent'.slots \in Nat /\ spent'.slots <= RivalSlots /\ spent'.calls = spent'.slots
      BY <1>1, <2>2, AttemptFields, PipeAssumption DEF CheckpointsSound
    <2>4. DOMAIN x = PipeFields /\ x.read = pipe.read /\ x.at = "profile_call" /\ x.site = pipe.site /\ x.gbp = pipe.gbp
          /\ x.time = pipe.time
      BY AttemptFields DEF PipeFields
    <2> HIDE DEF x
    <2>5. RightStep(x.at) /\ Remembers(pipeJob, saved, x) /\ x.at # "manifest"
      BY <1>0, <2>4, AsksForProfiles DEF WithProfiles
    <2>6. Grows(saved, saved') /\ CheckpointsSound(saved', spent')
      BY <1>0, <2>3, AttemptFields DEF Grows, CheckpointsSound
    <2> QED
      BY <1>0, <2>1, <2>2, <2>3, <2>4, <2>5, <2>6, AttemptFields, Walks
  <1>2. CASE ~(spent.slots < RivalSlots)
    <2> DEFINE x == [pipe EXCEPT !.profiles[r] = "unavailable"]
    <2>1. Goes(x) /\ Keeps
      BY <1>0, <1>2 DEF ClaimSlot, Keeps
    <2>2. DOMAIN x = PipeFields /\ x.read = pipe.read /\ x.at = "profiles" /\ x.site = pipe.site /\ x.gbp = pipe.gbp
          /\ x.time = pipe.time
      BY <1>0, AttemptFields DEF PipeFields
    <2> HIDE DEF x
    <2>3. RightStep(x.at) /\ Remembers(pipeJob, saved, x) /\ x.at # "manifest"
      BY <1>0, <2>2, AsksForProfiles DEF WithProfiles
    <2> QED
      BY <1>0, <2>1, <2>2, <2>3, WalksOn
  <1> QED
    BY <1>1, <1>2

\* A profile of an earlier attempt.
LEMMA ReuseProfileKeeps ==
    ASSUME PipeInv, NEW r \in Rivals, ReuseProfile(r)
    PROVE  PipeInv'
  <1> DEFINE x == [pipe EXCEPT !.profiles[r] = "available"]
  <1>0. pipeEnd = "none" /\ pipe.at = "profiles" /\ Keeps /\ pipe.at # "manifest" /\ Goes(x)
    BY DEF ReuseProfile, OnStep
  <1>1. DOMAIN x = PipeFields /\ x.read = pipe.read /\ x.at = "profiles" /\ x.site = pipe.site /\ x.gbp = pipe.gbp
        /\ x.time = pipe.time
    BY <1>0, AttemptFields DEF PipeFields
  <1> HIDE DEF x
  <1>2. RightStep(x.at) /\ Remembers(pipeJob, saved, x) /\ x.at # "manifest"
    BY <1>0, <1>1, AsksForProfiles DEF WithProfiles
  <1> QED
    BY <1>0, <1>1, <1>2, WalksOn

\* The answer about a competitor's profile.
LEMMA AnswerProfileKeeps ==
    ASSUME PipeInv, NEW r \in Rivals, AnswerProfile(r)
    PROVE  PipeInv'
  <1>0. pipeEnd = "none" /\ pipe.at = "profile_call" /\ UNCHANGED <<spent, reportRow>> /\ pipe.at # "manifest"
    BY DEF AnswerProfile, OnStep
  <1>1. ASSUME NEW answer, Goes([pipe EXCEPT !.at = "profiles", !.profiles[r] = answer]),
               saved' = saved \/ saved' = [saved EXCEPT !.profiles = saved.profiles \cup {r}]
        PROVE  PipeInv'
    <2> DEFINE x == [pipe EXCEPT !.at = "profiles", !.profiles[r] = answer]
    <2>1. /\ DOMAIN saved' = SavedFields /\ saved'.gbp = saved.gbp /\ saved'.site = saved.site /\ saved'.rivals = saved.rivals
          /\ saved'.time = saved.time /\ saved'.copy = saved.copy /\ saved'.pages = saved.pages
          /\ saved'.manifest = saved.manifest
      BY <1>1, AttemptFields DEF SavedFields
    <2>2. DOMAIN x = PipeFields /\ x.read = pipe.read /\ x.at = "profiles" /\ x.site = pipe.site /\ x.gbp = pipe.gbp
          /\ x.time = pipe.time
      BY AttemptFields DEF PipeFields
    <2>3. Goes(x)
      BY <1>1
    <2> HIDE DEF x
    <2>4. RightStep(x.at) /\ Remembers(pipeJob, saved', x) /\ x.at # "manifest"
      BY <1>0, <2>1, <2>2, AsksForProfiles DEF WithProfiles
    <2>5. Grows(saved, saved') /\ CheckpointsSound(saved', spent')
      BY <1>0, <2>1, AttemptFields DEF Grows, CheckpointsSound
    <2> QED
      BY <1>0, <2>1, <2>2, <2>3, <2>4, <2>5, AttemptFields, Walks
  <1>2. CASE saved' = [saved EXCEPT !.profiles = @ \cup {r}] /\ Goes([pipe EXCEPT !.at = "profiles", !.profiles[r] = "available"])
    BY <1>1, <1>2
  <1>3. CASE UNCHANGED saved /\ Goes([pipe EXCEPT !.at = "profiles", !.profiles[r] = "unavailable"])
    BY <1>1, <1>3
  <1>4. CASE UNCHANGED saved /\ Fail("V22_COMPETITOR_IDENTITY_UNTRACEABLE")
    BY <1>0, <1>4, FailKeeps DEF Keeps
  <1> QED
    BY <1>2, <1>3, <1>4 DEF AnswerProfile

\* The competitors' profiles are saved together.
LEMMA SaveRivalsKeeps ==
    ASSUME PipeInv, SaveRivals
    PROVE  PipeInv'
  <1> DEFINE rivals == [from |-> pipe.time, known |-> {r \in Rivals : pipe.profiles[r] = "available"},
                        truncated |-> spent.slots >= RivalSlots]
             x == [pipe EXCEPT !.at = "build", !.rivals = saved'.rivals]
  <1>0. pipeEnd = "none" /\ pipe.at = "profiles" /\ UNCHANGED <<spent, reportRow>> /\ pipe.at # "manifest"
        /\ saved' = [saved EXCEPT !.rivals = rivals] /\ Goes(x)
    BY DEF SaveRivals, OnStep
  <1>1. rivals # None /\ rivals.from = pipe.time
    BY Something
  <1> HIDE DEF rivals
  <1>2. /\ DOMAIN saved' = SavedFields /\ saved'.gbp = saved.gbp /\ saved'.site = saved.site /\ saved'.rivals = rivals
        /\ saved'.time = saved.time /\ saved'.copy = saved.copy /\ saved'.pages = saved.pages
        /\ saved'.manifest = saved.manifest
    BY <1>0, AttemptFields DEF SavedFields
  <1>3. DOMAIN x = PipeFields /\ x.read = pipe.read /\ x.at = "build" /\ x.site = pipe.site /\ x.gbp = pipe.gbp
        /\ x.rivals = saved'.rivals
    BY AttemptFields DEF PipeFields
  <1> HIDE DEF x
  <1>4. saved.rivals = None /\ pipe.time < MarketExpiry
    BY <1>0, AttemptFields DEF Remembers, WithProfiles
  <1>5. RightStep(x.at)
    BY <1>0, <1>3, AttemptFields DEF RightStep, WithSite, WithGbp, WithProfiles
  <1>6. Remembers(pipeJob, saved', x)
    BY <1>0, <1>1, <1>2, <1>3, AttemptFields DEF Remembers, WithSite, WithGbp, WithProfiles
  <1>7. Grows(saved, saved') /\ CheckpointsSound(saved', spent')
    BY <1>0, <1>1, <1>2, <1>4, AttemptFields DEF Grows, CheckpointsSound
  <1> QED
    BY <1>0, <1>2, <1>3, <1>5, <1>6, <1>7, AttemptFields, Walks

\* PublicProspectReportPipeline.build: one text for what a report was asked for.
LEMMA BuildProspectKeeps ==
    ASSUME PipeInv, BuildProspect
    PROVE  PipeInv'
  <1> DEFINE written == {c \in saved.copy : c.sources = BoundSources}
             entry(text) == [sources |-> BoundSources, text |-> text]
             report(text) == [time |-> pipeTime, sources |-> BoundSources, text |-> text]
             x(text) == [pipe EXCEPT !.at = "persist", !.report = report(text)]
  <1>0. pipeEnd = "none" /\ pipe.at = "build" /\ UNCHANGED <<spent, reportRow>> /\ pipe.at # "manifest"
    BY DEF BuildProspect, OnStep
  <1>1. ASSUME NEW text \in IF written = {} THEN {"written", "template"} ELSE {c.text : c \in written},
               saved' = [saved EXCEPT !.copy = saved.copy \cup {entry(text)}], Goes(x(text))
        PROVE  PipeInv'
    <2> DEFINE e == entry(text)
               rep == report(text)
               y == x(text)
    <2>1. /\ e.sources = BoundSources /\ e.text = text /\ rep.sources = BoundSources /\ rep.text = text
          /\ e = [sources |-> rep.sources, text |-> rep.text]
      OBVIOUS
    <2>2. DOMAIN y = PipeFields /\ y.read = pipe.read /\ y.at = "persist" /\ y.report = rep
      BY AttemptFields DEF PipeFields
    <2>3. /\ DOMAIN saved' = SavedFields /\ saved'.gbp = saved.gbp /\ saved'.site = saved.site /\ saved'.rivals = saved.rivals
          /\ saved'.time = saved.time /\ saved'.pages = saved.pages /\ saved'.manifest = saved.manifest
          /\ saved'.copy = saved.copy \cup {e}
      BY <1>1, AttemptFields DEF SavedFields
    <2>4. \A c \in saved.copy : c.sources = BoundSources => c.text = text
      <3>1. SUFFICES ASSUME NEW c \in saved.copy, c.sources = BoundSources PROVE c.text = text
        OBVIOUS
      <3>2. c \in written
        BY <3>1
      <3>3. PICK d \in written : text = d.text
        BY <1>1, <3>2
      <3> QED
        BY <3>1, <3>3, AttemptFields DEF CheckpointsSound
    <2>5. pipe.site = saved.site /\ saved.site # None /\ pipe.gbp = saved.gbp /\ saved.gbp # None
          /\ pipe.rivals = saved.rivals /\ saved.rivals # None /\ Prospect
      BY <1>0, AttemptFields DEF Remembers, WithSite, WithGbp
    <2>6. BoundSources = [site |-> saved.site, gbp |-> saved.gbp, rivals |-> saved.rivals, stale |-> BoundSources.stale]
      BY <2>5 DEF BoundSources
    <2>7. Goes(y)
      BY <1>1
    <2> HIDE DEF e, rep, y
    <2>8. ProspectReport(saved', rep)
      BY <2>1, <2>3, <2>5, <2>6 DEF ProspectReport
    <2>9. RightStep(y.at) /\ Remembers(pipeJob, saved', y)
      BY <2>2, <2>5, <2>8 DEF RightStep, Remembers, WithSite, WithGbp, WithProfiles, Rightful, Prospect
    <2>10. Grows(saved, saved') /\ CheckpointsSound(saved', spent')
      <3>1. Grows(saved, saved')
        BY <2>3 DEF Grows
      <3>2. \A c, d \in saved'.copy : c.sources = d.sources => c.text = d.text
        BY <2>1, <2>3, <2>4, AttemptFields DEF CheckpointsSound
      <3> QED
        BY <1>0, <2>3, <3>1, <3>2, AttemptFields DEF CheckpointsSound
    <2> QED
      BY <1>0, <2>2, <2>3, <2>7, <2>9, <2>10, AttemptFields, Walks
  <1>2. CASE UNCHANGED saved /\ Again
    BY <1>0, <1>2, AgainKeeps DEF Keeps
  <1>3. CASE UNCHANGED saved /\ Fail("V22_COPY_PROVIDER_REJECTED")
    BY <1>0, <1>3, FailKeeps DEF Keeps
  <1> QED
    BY <1>1, <1>2, <1>3 DEF BuildProspect
-----------------------------------------------------------------------------
(* A verified attempt, step by step.                                         *)

\* An attempt that has not looked for the frozen time knows nothing.
LEMMA EarlyVerified ==
    ASSUME PipeInv, pipeEnd = "none", pipe.at \in {"resolve", "parent"}, Keeps,
           NEW at \in {"parent", "time"}, Goes([pipe EXCEPT !.at = at])
    PROVE  PipeInv'
  <1> DEFINE x == [pipe EXCEPT !.at = at]
  <1>1. DOMAIN x = PipeFields /\ x.read = pipe.read /\ x.at = at /\ x.at # "manifest"
    BY AttemptFields DEF PipeFields
  <1>2. Goes(x)
    OBVIOUS
  <1> HIDE DEF x
  <1>3. RightStep(x.at) /\ Remembers(pipeJob, saved, x)
    BY <1>1, AttemptFields DEF RightStep, Remembers, WithSite, WithGbp, WithProfiles
  <1> QED
    BY <1>1, <1>2, <1>3, WalksOn

\* The frozen sources and the report they are built upon.
LEMMA ResolveKeeps ==
    ASSUME PipeInv, ResolveInput \/ ValidateParent
    PROVE  PipeInv'
  <1>1. CASE ResolveInput
    BY <1>1, EarlyVerified, AgainKeeps, FailKeeps DEF ResolveInput, OnStep
  <1>2. CASE ValidateParent
    BY <1>2, EarlyVerified, FailKeeps DEF ValidateParent, OnStep
  <1> QED
    BY <1>1, <1>2

\* The time of the evaluation is the one the first attempt saved.
LEMMA FreezeKeeps ==
    ASSUME PipeInv, FreezeTime
    PROVE  PipeInv'
  <1> DEFINE time == FirstSaved(saved.time, [at |-> pipeTime])
             x == [pipe EXCEPT !.at = "stages", !.time = saved'.time.at]
  <1>0. pipeEnd = "none" /\ pipe.at = "time" /\ UNCHANGED <<spent, reportRow>> /\ pipe.at # "manifest"
        /\ saved' = [saved EXCEPT !.time = time] /\ Goes(x)
    BY DEF FreezeTime, OnStep
  <1>1. time # None /\ (saved.time # None => time = saved.time)
    BY Something DEF FirstSaved
  <1> HIDE DEF time
  <1>2. /\ DOMAIN saved' = SavedFields /\ saved'.gbp = saved.gbp /\ saved'.site = saved.site /\ saved'.rivals = saved.rivals
        /\ saved'.time = time /\ saved'.copy = saved.copy /\ saved'.pages = saved.pages
        /\ saved'.manifest = saved.manifest
    BY <1>0, AttemptFields DEF SavedFields
  <1>3. DOMAIN x = PipeFields /\ x.read = pipe.read /\ x.at = "stages" /\ x.time = saved'.time.at
    BY AttemptFields DEF PipeFields
  <1> HIDE DEF x
  <1>4. RightStep(x.at) /\ Remembers(pipeJob, saved', x)
    BY <1>0, <1>1, <1>2, <1>3, AttemptFields DEF RightStep, Remembers, WithSite, WithGbp, WithProfiles
  <1>5. Grows(saved, saved') /\ CheckpointsSound(saved', spent')
    BY <1>0, <1>1, <1>2, AttemptFields DEF Grows, CheckpointsSound
  <1> QED
    BY <1>0, <1>2, <1>3, <1>4, <1>5, AttemptFields, Walks

\* One stage after another; the last one is the report.
LEMMA StageKeeps ==
    ASSUME PipeInv, BuildStage
    PROVE  PipeInv'
  <1> DEFINE n == pipe.stage + 1
             input == VerifiedStages(pipe.time)[n]
             at == IF n = 6 THEN "persist" ELSE "stages"
             rep == IF n = 6 THEN input ELSE None
             x == [pipe EXCEPT !.stage = n, !.at = at, !.report = rep]
  <1>0. pipeEnd = "none" /\ pipe.at = "stages" /\ UNCHANGED <<spent, reportRow>> /\ pipe.at # "manifest"
        /\ saved' = [saved EXCEPT !.stages = saved.stages \cup {input}] /\ Goes(x)
    BY DEF BuildStage, OnStep
  <1>1. at \in {"persist", "stages"} /\ (at = "persist" => rep = LastStage(pipeJob.parent, pipe.time))
    <2>1. CASE n = 6
      <3>1. input = ExecutionStage(pipe.time)
        BY <2>1 DEF VerifiedStages
      <3>2. ExecutionStage(pipe.time) = LastStage(pipeJob.parent, pipe.time)
        BY DEF ExecutionStage, DiffStage, ReprioritizationStage, PublicStage, LastStage
      <3> QED
        BY <2>1, <3>1, <3>2
    <2>2. CASE n # 6
      BY <2>2
    <2> QED
      BY <2>1, <2>2
  <1>2. /\ DOMAIN saved' = SavedFields /\ saved'.gbp = saved.gbp /\ saved'.site = saved.site /\ saved'.rivals = saved.rivals
        /\ saved'.time = saved.time /\ saved'.copy = saved.copy /\ saved'.pages = saved.pages
        /\ saved'.manifest = saved.manifest
    BY <1>0, AttemptFields DEF SavedFields
  <1>3. DOMAIN x = PipeFields /\ x.read = pipe.read /\ x.at = at /\ x.time = pipe.time /\ x.report = rep
    BY AttemptFields DEF PipeFields
  <1> HIDE DEF x, rep, at, input, n
  <1>4. saved.time # None /\ pipe.time = saved.time.at /\ ~Prospect
    BY <1>0, AttemptFields DEF Remembers
  <1>5. at = "persist" => Rightful(pipeJob, saved', rep)
    BY <1>1, <1>2, <1>4 DEF Rightful, Prospect
  <1>6. RightStep(x.at) /\ Remembers(pipeJob, saved', x) /\ x.at # "manifest"
    BY <1>1, <1>2, <1>3, <1>4, <1>5 DEF RightStep, Remembers, WithSite, WithGbp, WithProfiles
  <1>7. Grows(saved, saved') /\ CheckpointsSound(saved', spent')
    BY <1>0, <1>2, AttemptFields DEF Grows, CheckpointsSound
  <1> QED
    BY <1>0, <1>2, <1>3, <1>6, <1>7, AttemptFields, Walks

\* The database keeps the first report and refuses another one.
LEMMA PersistKeeps ==
    ASSUME PipeInv, PersistReport
    PROVE  PipeInv'
  <1>0. pipeEnd = "none" /\ pipe.at = "persist" /\ UNCHANGED <<saved, spent>> /\ Rightful(pipeJob, saved, pipe.report)
    BY AttemptFields DEF PersistReport, OnStep, Remembers
  <1>1. CASE UNCHANGED reportRow /\ Again
    BY <1>0, <1>1, AgainKeeps DEF Keeps
  <1>2. CASE Refuses /\ UNCHANGED reportRow /\ Fail("V22_RESULT_PERSISTENCE_REJECTED")
    <2>1. reportRow # None /\ reportRow # pipe.report /\ Rightful(pipeJob, saved, reportRow) /\ "persist" \in cuts
      BY <1>0, <1>2 DEF Refuses, PipeInv, RowSound
    <2>2. Prospect
      BY <1>0, <2>1 DEF Rightful, Prospect
    <2>3. /\ pipeEnd' = "V22_RESULT_PERSISTENCE_REJECTED" /\ pipe' = NoAttempt
          /\ UNCHANGED <<saved, spent, reportRow, pipeJob, pipeTime, cuts>>
      BY <1>0, <1>2 DEF Fail
    <2>4. RowSound'
      BY <2>1, <2>2, <2>3 DEF RowSound, Prospect
    <2> QED
      BY <1>0, <2>3, <2>4, Rests
  <1>3. CASE reportRow' = pipe.report /\ Again
    <2>1. /\ pipeEnd' \in {"RETRIES_EXHAUSTED", "none"} /\ pipe' = NoAttempt
          /\ UNCHANGED <<saved, spent, pipeJob, pipeTime>> /\ cuts \subseteq cuts' /\ "persist" \in cuts'
      BY <1>0, <1>3 DEF Again
    <2>2. RowSound'
      BY <1>0, <1>3, <2>1 DEF RowSound
    <2> QED
      BY <1>0, <2>1, <2>2, Rests
  <1>4. CASE reportRow' = pipe.report /\ pipeEnd' = "succeeded" /\ pipe' = NoAttempt /\ UNCHANGED <<pipeJob, pipeTime, tries, cuts>>
    <2>1. RowSound'
      BY <1>0, <1>4 DEF RowSound
    <2> QED
      BY <1>0, <1>4, <2>1, Rests
  <1> QED
    BY <1>1, <1>2, <1>3, <1>4 DEF PersistReport
-----------------------------------------------------------------------------
\* Every step keeps the invariant.
LEMMA PipeStays == PipeInv /\ [PipeNext]_pipeVars => PipeInv'
  <1> SUFFICES ASSUME PipeInv, [PipeNext]_pipeVars PROVE PipeInv'
    OBVIOUS
  <1>1. CASE Crash
    BY <1>1, AgainKeeps DEF Crash, PipeInv
  <1>2. CASE PipeTick
    <2>1. pipeTime' = pipeTime + 1 /\ pipeTime' \in Nat
          /\ UNCHANGED <<pipe, pipeJob, saved, spent, tries, reportRow, pipeEnd, cuts>>
      BY <1>2, AttemptFields DEF PipeTick
    <2>2. PipeShape'
      BY <2>1 DEF PipeInv, PipeShape
    <2>3. PagesRead' = PagesRead
      BY <2>1 DEF PagesRead
    <2>4. RightStep(pipe.at)' /\ ReadsAreSaved' /\ ManifestKnown' /\ RowSound'
      BY <2>1, <2>3 DEF PipeInv, RightStep, ReadsAreSaved, ManifestKnown, RowSound, Prospect
    <2>5. Remembers(pipeJob, saved, pipe)' /\ CheckpointsSound(saved, spent)'
      BY <2>1 DEF PipeInv
    <2> QED
      BY <2>1, <2>2, <2>4, <2>5 DEF PipeInv
  <1>3. CASE UNCHANGED pipeVars
    <2>1. UNCHANGED <<pipe, pipeJob, saved, spent, pipeTime, reportRow, pipeEnd, cuts>>
      BY <1>3 DEF pipeVars
    <2>2. PagesRead' = PagesRead
      BY <2>1 DEF PagesRead
    <2>3. PipeShape' /\ RightStep(pipe.at)' /\ ReadsAreSaved' /\ ManifestKnown' /\ RowSound'
      BY <2>1, <2>2 DEF PipeInv, PipeShape, RightStep, ReadsAreSaved, ManifestKnown, RowSound, Prospect
    <2>4. Remembers(pipeJob, saved, pipe)' /\ CheckpointsSound(saved, spent)'
      BY <2>1 DEF PipeInv
    <2> QED
      BY <2>1, <2>3, <2>4 DEF PipeInv
  <1> QED
    BY <1>1, <1>2, <1>3, RouteKeeps, CheckMarketKeeps, ReuseSiteKeeps, SaveManifestKeeps, SaveInventoryKeeps, ReuseGbpKeeps,
       ClaimGbpKeeps, AnswerGbpKeeps, ReadPageKeeps, CheckRivalsKeeps, SaveRivalsKeeps, BuildProspectKeeps, ClaimSlotKeeps,
       ReuseProfileKeeps, AnswerProfileKeeps, ResolveKeeps, FreezeKeeps, StageKeeps, PersistKeeps DEF PipeNext

\* It holds at the start.
LEMMA PipeBegins == PipeInit => PipeInv
  <1> SUFFICES ASSUME PipeInit PROVE PipeInv
    OBVIOUS
  <1>1. /\ pipe = NoAttempt /\ reportRow = None /\ pipeEnd = "none" /\ cuts = {} /\ pipeTime = 0
        /\ spent = [gbp |-> 0, slots |-> 0, calls |-> 0]
        /\ saved = [pages |-> {}, manifest |-> None, site |-> None, gbp |-> None, profiles |-> {}, rivals |-> None,
                    copy |-> {}, time |-> None, stages |-> {}]
    BY DEF PipeInit
  <1>2. PipeShape
    BY <1>1, NothingHeld DEF PipeShape, SavedFields
  <1>3. RightStep(pipe.at) /\ Remembers(pipeJob, saved, pipe) /\ pipe.at = "idle"
    BY <1>1, NothingHeld DEF RightStep, Remembers, WithSite, WithGbp, WithProfiles
  <1>4. ReadsAreSaved /\ ManifestKnown
    BY <1>1, <1>3, NothingHeld DEF ReadsAreSaved, ManifestKnown
  <1>5. CheckpointsSound(saved, spent) /\ RowSound
    BY <1>1, PipeAssumption DEF CheckpointsSound, RowSound
  <1> QED
    BY <1>2, <1>3, <1>4, <1>5 DEF PipeInv

\* Two reports that could both be stored differ only in their time and in whether the market
\* was stale; with the same sources they have the same text.
LEMMA RightfulReportsAgree ==
    ASSUME PipeInv, NEW a, NEW b, Rightful(pipeJob, saved, a), Rightful(pipeJob, saved, b)
    PROVE  \/ a = b
           \/ /\ Prospect /\ [a.sources EXCEPT !.stale = FALSE] = [b.sources EXCEPT !.stale = FALSE]
              /\ a.sources.stale = b.sources.stale => a.text = b.text
  <1>1. CASE ~Prospect
    BY <1>1 DEF Rightful, Prospect
  <1>2. CASE Prospect
    <2>1. ProspectReport(saved, a) /\ ProspectReport(saved, b)
      BY <1>2 DEF Rightful, Prospect
    <2> DEFINE made(stale) == [site |-> saved.site, gbp |-> saved.gbp, rivals |-> saved.rivals, stale |-> stale]
    <2>1a. \A stale, other : [made(stale) EXCEPT !.stale = other] = made(other)
      OBVIOUS
    <2>1b. a.sources = made(a.sources.stale) /\ b.sources = made(b.sources.stale)
      BY <2>1 DEF ProspectReport
    <2> HIDE DEF made
    <2>2. [a.sources EXCEPT !.stale = FALSE] = made(FALSE)
      BY <2>1a, <2>1b, ZenonT(60)
    <2>3. [b.sources EXCEPT !.stale = FALSE] = made(FALSE)
      BY <2>1a, <2>1b
    <2>4. a.sources.stale = b.sources.stale => a.sources = b.sources
      BY <2>1 DEF ProspectReport
    <2>5. a.sources = b.sources => a.text = b.text
      <3> DEFINE c == [sources |-> a.sources, text |-> a.text]
                 d == [sources |-> b.sources, text |-> b.text]
      <3>1. c \in saved.copy /\ d \in saved.copy
        BY <2>1 DEF ProspectReport
      <3>2. c.sources = d.sources => c.text = d.text
        BY <3>1, AttemptFields DEF CheckpointsSound
      <3> QED
        BY <3>2
    <2> QED
      BY <1>2, <2>2, <2>3, <2>4, <2>5
  <1> QED
    BY <1>1, <1>2

\* The attempts of a report job agree with each other (a verified job never contradicts the
\* report it stored, a prospect job only after a lost answer and with the same sources), and
\* what they collect is collected once, in budget and from a market that had not expired.
THEOREM PipelinesStaySound == PipeSpec => []PipelinesAreSound
  <1>1. PipeInv => RetriesAgree
    <2> SUFFICES ASSUME PipeInv PROVE RetriesAgree
      OBVIOUS
    <2>1. pipeEnd = "V22_RESULT_PERSISTENCE_REJECTED" => pipeJob.kind = "prospect" /\ "persist" \in cuts
      BY DEF PipeInv, RowSound, Prospect
    <2>2. pipe.at = "persist" => Rightful(pipeJob, saved, pipe.report)
      BY AttemptFields DEF Remembers
    <2>3. reportRow # None => Rightful(pipeJob, saved, reportRow)
      BY DEF PipeInv, RowSound
    <2> QED
      BY <2>1, <2>2, <2>3, RightfulReportsAgree DEF RetriesAgree, Prospect
  <1>2. PipeInv => CollectionIsSound
    <2> SUFFICES ASSUME PipeInv PROVE CollectionIsSound
      OBVIOUS
    <2>1. pipeEnd = "V22_SITE_INVENTORY_CHECKPOINT_INVALID" => "manifest" \in cuts /\ saved.manifest.pages # saved.pages
      BY DEF PipeInv, RowSound
    <2>2. saved.rivals # None => saved.rivals.from < MarketExpiry
      BY AttemptFields DEF CheckpointsSound
    <2>3. spent.calls <= RivalSlots
      BY AttemptFields DEF CheckpointsSound
    <2>4. reportRow # None /\ pipeJob.kind = "prospect" =>
             /\ reportRow.sources.site = saved.site /\ reportRow.sources.gbp = saved.gbp
             /\ reportRow.sources.rivals = saved.rivals
      BY DEF PipeInv, RowSound, Rightful, ProspectReport
    <2> QED
      BY <2>1, <2>2, <2>3, <2>4 DEF CollectionIsSound
  <1>3. PipeInv => PipelinesAreSound
    BY <1>1, <1>2 DEF PipelinesAreSound
  <1> QED
    BY <1>3, PipeBegins, PipeStays, PTL DEF PipeSpec

-----------------------------------------------------------------------------
(* Cost summaries (CostOutbox): what a coroutine inside sync knows of the    *)
(* summary it carries, and why a summary is lost only by a race.             *)

Carries(p) == syncer[p].pc \in {"persist", "delete"}     \* has read a summary

SyncerRows == [pc : {"idle", "read", "persist", "delete"}, job : OutboxJobs, rev : Nat]

OutboxShape ==
    /\ finished \in [OutboxJobs -> Nat] /\ summary \in [OutboxJobs -> Nat] /\ persisted \in [OutboxJobs -> Nat]
    /\ queue \in Seq(OutboxJobs) /\ flush \in Seq(OutboxJobs)
    /\ syncer \in [Syncers -> SyncerRows]

\* The key holds the newest summary or none, and the row is not newer than that.
SummariesSound(j) ==
    /\ summary[j] \in {0, finished[j]}
    /\ persisted[j] <= finished[j]
    /\ j \notin raced \cup Refused /\ finished[j] # 0 =>
          persisted[j] = finished[j] \/ (summary[j] = finished[j] /\ Pending(j))

\* A coroutine carries the newest summary of its job unless the job was raced, and deletes
\* only what the database has.
SyncerSound(p) ==
    Carries(p) => /\ syncer[p].job \notin Refused
                  /\ syncer[p].rev <= finished[syncer[p].job]
                  /\ syncer[p].job \notin raced => syncer[p].rev = finished[syncer[p].job]
                  /\ syncer[p].pc = "delete" => syncer[p].rev <= persisted[syncer[p].job]

OutboxInv ==
    /\ OutboxShape
    /\ \A j \in OutboxJobs : SummariesSound(j)
    /\ \A p \in Syncers : SyncerSound(p)
-----------------------------------------------------------------------------
\* Dropping the entry of one job (ZREM) leaves those of the others.
LEMMA DropsOnlyItself ==
    ASSUME queue \in Seq(OutboxJobs), NEW j
    PROVE  Dropped(j) \in Seq(OutboxJobs) /\ \A k : k # j /\ Pending(k) => Contains(Dropped(j), k)
  <1>1. CASE ~Pending(j)
    BY <1>1 DEF Dropped, Pending
  <1>2. CASE Pending(j)
    <2> DEFINE i == CHOOSE n \in 1..Len(queue) : queue[n] = j
    <2>1. i \in 1..Len(queue) /\ queue[i] = j
      BY <1>2 DEF Pending, Contains
    <2>2. Dropped(j) = SubSeq(queue, 1, i - 1) \o SubSeq(queue, i + 1, Len(queue))
      BY <1>2 DEF Dropped, RemoveAt
    <2> HIDE DEF i
    <2> DEFINE a == SubSeq(queue, 1, i - 1)
               b == SubSeq(queue, i + 1, Len(queue))
    <2>3. /\ a \in Seq(OutboxJobs) /\ Len(a) = i - 1 /\ \A n \in 1..(i - 1) : a[n] = queue[n]
          /\ b \in Seq(OutboxJobs) /\ Len(b) = Len(queue) - i
          /\ \A n \in 1..(Len(queue) - i) : b[n] = queue[i + n]
      BY <2>1
    <2> HIDE DEF a, b
    <2>4. a \o b \in Seq(OutboxJobs) /\ Len(a \o b) = Len(queue) - 1
          /\ (\A n \in 1..(i - 1) : (a \o b)[n] = queue[n])
          /\ (\A n \in i..(Len(queue) - 1) : (a \o b)[n] = queue[n + 1])
      <3>1. a \o b \in Seq(OutboxJobs) /\ Len(a \o b) = Len(a) + Len(b)
        BY <2>3
      <3>2. Len(a \o b) = Len(queue) - 1 /\ Len(queue) \in Nat /\ i \in Nat
        BY <2>1, <2>3, <3>1
      <3>3. ASSUME NEW n \in 1..(i - 1) PROVE (a \o b)[n] = queue[n]
        <4>1. n \in 1..Len(a) /\ n \in 1..(Len(a) + Len(b))
          BY <2>1, <2>3
        <4>2. (a \o b)[n] = a[n]
          BY <2>3, <4>1
        <4> QED
          BY <2>3, <4>2
      <3>4. ASSUME NEW n \in i..(Len(queue) - 1) PROVE (a \o b)[n] = queue[n + 1]
        <4>1. n \in 1..(Len(a) + Len(b)) /\ ~(n <= Len(a)) /\ n - Len(a) = n - i + 1
          BY <2>1, <2>3
        <4>2. (a \o b)[n] = b[n - i + 1]
          BY <2>3, <4>1
        <4>3. n - i + 1 \in 1..(Len(queue) - i) /\ i + (n - i + 1) = n + 1
          BY <2>1
        <4> QED
          BY <2>3, <4>2, <4>3
      <3> QED
        BY <3>1, <3>2, <3>3, <3>4
    <2>5. Dropped(j) = a \o b
      BY <2>2 DEF a, b
    <2>6. ASSUME NEW k, k # j, Pending(k) PROVE Contains(a \o b, k)
      <3>1. PICK n \in 1..Len(queue) : queue[n] = k
        BY <2>6 DEF Pending, Contains
      <3>2. CASE n < i
        <4>1. n \in 1..(i - 1) /\ n \in 1..Len(a \o b)
          BY <2>1, <2>4, <3>1, <3>2
        <4> QED
          BY <2>4, <3>1, <4>1 DEF Contains
      <3>3. CASE n > i
        <4>1. n - 1 \in i..(Len(queue) - 1) /\ n - 1 \in 1..Len(a \o b) /\ (n - 1) + 1 = n
          BY <2>1, <2>4, <3>1, <3>3
        <4> QED
          BY <2>4, <3>1, <4>1 DEF Contains
      <3>4. n # i
        BY <2>1, <2>6, <3>1
      <3> QED
        BY <2>1, <3>1, <3>2, <3>3, <3>4
    <2> QED
      BY <2>4, <2>5, <2>6
  <1> QED
    BY <1>1, <1>2

\* Adding the entry of a job leaves those of the others.
LEMMA AppendKeeps ==
    ASSUME queue \in Seq(OutboxJobs), NEW j \in OutboxJobs
    PROVE  /\ Append(Dropped(j), j) \in Seq(OutboxJobs) /\ Contains(Append(Dropped(j), j), j)
           /\ \A k \in OutboxJobs \ {j} : Pending(k) => Contains(Append(Dropped(j), j), k)
  <1> DEFINE q == Dropped(j)
  <1>1. q \in Seq(OutboxJobs)
    BY DropsOnlyItself
  <1>2. \A k : k # j /\ Pending(k) => Contains(q, k)
    BY DropsOnlyItself
  <1> HIDE DEF q
  <1>3. /\ Append(q, j) \in Seq(OutboxJobs) /\ Len(Append(q, j)) = Len(q) + 1 /\ Append(q, j)[Len(q) + 1] = j
        /\ \A n \in 1..Len(q) : Append(q, j)[n] = q[n]
    BY <1>1
  <1>4. Contains(Append(q, j), j)
    <2>1. Len(q) + 1 \in 1..Len(Append(q, j))
      BY <1>1, <1>3
    <2> QED
      BY <1>3, <2>1 DEF Contains
  <1>5. ASSUME NEW k \in OutboxJobs \ {j}, Pending(k) PROVE Contains(Append(q, j), k)
    <2>1. PICK n \in 1..Len(q) : q[n] = k
      BY <1>2, <1>5 DEF Contains
    <2>2. n \in 1..Len(Append(q, j))
      BY <1>1, <1>3, <2>1
    <2> QED
      BY <1>3, <2>1, <2>2 DEF Contains
  <1> QED
    BY <1>3, <1>4, <1>5 DEF q

-----------------------------------------------------------------------------
\* The fields of the state have their types.
LEMMA OutboxFields ==
    ASSUME OutboxShape
    PROVE  /\ \A j \in OutboxJobs : finished[j] \in Nat /\ summary[j] \in Nat /\ persisted[j] \in Nat
           /\ \A p \in Syncers : /\ syncer[p] \in SyncerRows /\ syncer[p].job \in OutboxJobs /\ syncer[p].rev \in Nat
                                 /\ syncer[p].pc \in {"idle", "read", "persist", "delete"}
  <1>1. \A p \in Syncers : syncer[p] \in SyncerRows
    BY DEF OutboxShape
  <1> QED
    BY <1>1 DEF OutboxShape, SyncerRows

\* A coroutine that enters sync carries nothing yet.
LEMMA Enters ==
    ASSUME OutboxShape, NEW p \in Syncers, NEW j \in OutboxJobs, EnterSync(p, j)
    PROVE  /\ syncer' \in [Syncers -> SyncerRows] /\ syncer'[p].pc = "read"
           /\ \A q \in Syncers \ {p} : syncer'[q] = syncer[q]
  BY DEF EnterSync, OutboxShape, SyncerRows

\* One that leaves it carries nothing any more.
LEMMA Leaves ==
    ASSUME OutboxShape, NEW p \in Syncers, LeaveSync(p)
    PROVE  /\ syncer' \in [Syncers -> SyncerRows] /\ syncer'[p].pc = "idle"
           /\ \A q \in Syncers \ {p} : syncer'[q] = syncer[q]
  <1>1. syncer[p].job \in OutboxJobs
    BY OutboxFields
  <1>2. IdleSyncer \in SyncerRows /\ IdleSyncer.pc = "idle"
    BY <1>1 DEF IdleSyncer, SyncerRows
  <1> QED
    BY <1>2 DEF LeaveSync, OutboxShape

\* A step that changes one coroutine, and neither a revision nor an entry, keeps the invariant
\* if that coroutine is sound after it.
LEMMA OneSyncerMoves ==
    ASSUME OutboxInv, NEW p \in Syncers, syncer' \in [Syncers -> SyncerRows],
           \A q \in Syncers \ {p} : syncer'[q] = syncer[q],
           UNCHANGED <<finished, summary, persisted, raced>>, flush' \in Seq(OutboxJobs),
           queue' \in Seq(OutboxJobs),
           \A j \in OutboxJobs : Pending(j) /\ summary[j] # 0 => Contains(queue', j),
           SyncerSound(p)'
    PROVE  OutboxInv'
  <1>1. OutboxShape'
    BY DEF OutboxInv, OutboxShape
  <1>2. ASSUME NEW j \in OutboxJobs PROVE SummariesSound(j)'
    <2>1. SummariesSound(j)
      BY DEF OutboxInv
    <2>2. Pending(j)' <=> Contains(queue', j)
      BY DEF Pending
    <2> QED
      BY <2>1, <2>2 DEF SummariesSound
  <1>3. ASSUME NEW q \in Syncers PROVE SyncerSound(q)'
    <2>1. SyncerSound(q)
      BY DEF OutboxInv
    <2>2. CASE q # p
      BY <2>1, <2>2 DEF SyncerSound, Carries
    <2>3. CASE q = p
      BY <2>3
    <2> QED
      BY <2>2, <2>3
  <1> QED
    BY <1>1, <1>2, <1>3 DEF OutboxInv

\* enqueue: the newest summary and its entry in one transaction.
LEMMA EnqueueKeeps ==
    ASSUME OutboxInv, NEW p \in Syncers, NEW j \in OutboxJobs, Enqueue(p, j)
    PROVE  OutboxInv'
  <1>0. OutboxShape
    BY DEF OutboxInv
  <1>1. /\ syncer' \in [Syncers -> SyncerRows] /\ syncer'[p].pc = "read"
        /\ \A q \in Syncers \ {p} : syncer'[q] = syncer[q]
    BY <1>0, Enters DEF Enqueue
  <1>2. /\ finished' = [finished EXCEPT ![j] = finished[j] + 1]
        /\ summary' = [summary EXCEPT ![j] = finished[j] + 1]
        /\ queue' = Append(Dropped(j), j) /\ persisted' = persisted /\ flush' = flush
        /\ raced \subseteq raced'
    BY <1>0 DEF Enqueue, OutboxShape
  <1>3. /\ finished[j] + 1 \in Nat /\ finished'[j] = finished[j] + 1 /\ summary'[j] = finished[j] + 1
        /\ \A k \in OutboxJobs \ {j} : finished'[k] = finished[k] /\ summary'[k] = summary[k]
    BY <1>0, <1>2, OutboxFields DEF OutboxShape
  <1>4. /\ queue' \in Seq(OutboxJobs) /\ Contains(queue', j)
        /\ \A k \in OutboxJobs \ {j} : Pending(k) => Contains(queue', k)
    BY <1>0, <1>2, AppendKeeps DEF OutboxShape
  <1>5. OutboxShape'
    BY <1>0, <1>1, <1>2, <1>3, <1>4 DEF OutboxShape
  <1>6. ASSUME NEW k \in OutboxJobs PROVE SummariesSound(k)'
    <2>1. SummariesSound(k) /\ finished[k] \in Nat /\ persisted[k] \in Nat
      BY <1>0, OutboxFields DEF OutboxInv
    <2>2. CASE k = j
      <3>1. persisted[j] <= finished[j] + 1
        BY <2>1, <2>2 DEF SummariesSound
      <3> QED
        BY <1>2, <1>3, <1>4, <2>2, <3>1 DEF SummariesSound, Pending
    <2>3. CASE k # j
      BY <1>2, <1>3, <1>4, <2>1, <2>3 DEF SummariesSound, Pending
    <2> QED
      BY <2>2, <2>3
  <1>7. ASSUME NEW q \in Syncers PROVE SyncerSound(q)'
    <2>1. CASE q = p
      BY <1>1, <2>1 DEF SyncerSound, Carries
    <2>2. CASE q # p /\ syncer[q].job # j
      <3>1. syncer[q].job \in OutboxJobs /\ SyncerSound(q) /\ syncer'[q] = syncer[q]
        BY <1>0, <1>1, <2>2, OutboxFields DEF OutboxInv
      <3> QED
        BY <1>2, <1>3, <2>2, <3>1 DEF SyncerSound, Carries
    <2>3. CASE q # p /\ syncer[q].job = j /\ Carries(q)
      <3>1. j \in raced'
        BY <2>3 DEF Enqueue, Carries
      <3>2. SyncerSound(q) /\ syncer'[q] = syncer[q] /\ syncer[q].rev \in Nat /\ finished[j] \in Nat
        BY <1>0, <1>1, <2>3, OutboxFields DEF OutboxInv
      <3>3. syncer[q].rev <= finished'[j]
        BY <1>3, <2>3, <3>2 DEF SyncerSound
      <3> QED
        BY <1>2, <2>3, <3>1, <3>2, <3>3 DEF SyncerSound, Carries
    <2>4. CASE q # p /\ ~Carries(q)
      BY <1>1, <2>4 DEF SyncerSound, Carries
    <2> QED
      BY <2>1, <2>2, <2>3, <2>4
  <1> QED
    BY <1>5, <1>6, <1>7 DEF OutboxInv

\* sync reads the key, and drops only the entry of a summary that is not there.
LEMMA SyncReadKeeps ==
    ASSUME OutboxInv, NEW p \in Syncers, SyncRead(p)
    PROVE  OutboxInv'
  <1> DEFINE j == syncer[p].job
  <1>0. OutboxShape /\ j \in OutboxJobs /\ UNCHANGED <<finished, summary, flush, persisted, raced>> /\ flush \in Seq(OutboxJobs)
    BY OutboxFields DEF OutboxInv, OutboxShape, SyncRead
  <1>1. CASE summary[j] = 0
    <2>1. queue' = Dropped(j) /\ LeaveSync(p)
      BY <1>1 DEF SyncRead
    <2>2. /\ queue' \in Seq(OutboxJobs)
          /\ \A k \in OutboxJobs : Pending(k) /\ summary[k] # 0 => Contains(queue', k)
      BY <1>0, <1>1, <2>1, DropsOnlyItself DEF OutboxShape
    <2>3. /\ syncer' \in [Syncers -> SyncerRows] /\ syncer'[p].pc = "idle"
          /\ \A q \in Syncers \ {p} : syncer'[q] = syncer[q]
      BY <1>0, <2>1, Leaves
    <2>4. SyncerSound(p)'
      BY <2>3 DEF SyncerSound, Carries
    <2> QED
      BY <1>0, <2>2, <2>3, <2>4, OneSyncerMoves
  <1>2. CASE summary[j] # 0
    <2>1. queue' = queue /\ queue \in Seq(OutboxJobs)
      BY <1>0, <1>2 DEF SyncRead, OutboxShape
    <2>2. \A k \in OutboxJobs : Pending(k) /\ summary[k] # 0 => Contains(queue', k)
      BY <2>1 DEF Pending
    <2>3. CASE j \in Refused
      <3>1. LeaveSync(p)
        BY <1>2, <2>3 DEF SyncRead
      <3>2. /\ syncer' \in [Syncers -> SyncerRows] /\ syncer'[p].pc = "idle"
            /\ \A q \in Syncers \ {p} : syncer'[q] = syncer[q]
        BY <1>0, <3>1, Leaves
      <3>3. SyncerSound(p)'
        BY <3>2 DEF SyncerSound, Carries
      <3> QED
        BY <1>0, <2>1, <2>2, <3>2, <3>3, OneSyncerMoves
    <2>4. CASE j \notin Refused
      <3> DEFINE x == [syncer[p] EXCEPT !.pc = "persist", !.rev = summary[j]]
      <3>1. syncer' = [syncer EXCEPT ![p].pc = "persist", ![p].rev = summary[j]]
        BY <1>2, <2>4 DEF SyncRead
      <3>2. syncer[p] \in SyncerRows /\ summary[j] \in Nat
        BY <1>0, OutboxFields
      <3>3. x \in SyncerRows /\ x.pc = "persist" /\ x.rev = summary[j] /\ x.job = j
        BY <3>2 DEF SyncerRows
      <3>4. syncer' = [syncer EXCEPT ![p] = x]
        BY <1>0, <3>1 DEF OutboxShape
      <3> HIDE DEF x
      <3>5. /\ syncer' \in [Syncers -> SyncerRows] /\ syncer'[p] = x
            /\ \A q \in Syncers \ {p} : syncer'[q] = syncer[q]
        BY <1>0, <3>3, <3>4 DEF OutboxShape
      <3>6. summary[j] = finished[j] /\ finished[j] \in Nat
        BY <1>0, <1>2, OutboxFields DEF OutboxInv, SummariesSound
      <3>7. SyncerSound(p)'
        BY <1>0, <2>4, <3>3, <3>5, <3>6 DEF SyncerSound, Carries
      <3> QED
        BY <1>0, <2>1, <2>2, <3>5, <3>7, OneSyncerMoves
    <2> QED
      BY <2>3, <2>4
  <1> QED
    BY <1>1, <1>2

\* upsert_v22_job_cost_summary: the row of the highest revision stays.
LEMMA SyncPersistKeeps ==
    ASSUME OutboxInv, NEW p \in Syncers, SyncPersist(p)
    PROVE  OutboxInv'
  <1> DEFINE j == syncer[p].job
             rev == syncer[p].rev
             x == [syncer[p] EXCEPT !.pc = "delete"]
  <1>0. OutboxShape /\ j \in OutboxJobs /\ rev \in Nat /\ UNCHANGED <<finished, summary, queue, flush, raced>>
        /\ persisted[j] \in Nat /\ finished[j] \in Nat /\ SyncerSound(p) /\ syncer[p].pc = "persist" /\ SummariesSound(j)
    BY OutboxFields DEF OutboxInv, SyncPersist
  <1>1. x \in SyncerRows /\ x.pc = "delete" /\ x.job = j /\ x.rev = rev
    BY <1>0, OutboxFields DEF SyncerRows
  <1>2. syncer' = [syncer EXCEPT ![p] = x]
    BY <1>0 DEF SyncPersist, OutboxShape
  <1> HIDE DEF x
  <1>3. /\ syncer' \in [Syncers -> SyncerRows] /\ syncer'[p] = x
        /\ \A q \in Syncers \ {p} : syncer'[q] = syncer[q]
    BY <1>0, <1>1, <1>2 DEF OutboxShape
  <1>4. /\ persisted' \in [OutboxJobs -> Nat]
        /\ \A k \in OutboxJobs \ {j} : persisted'[k] = persisted[k]
        /\ persisted'[j] = IF rev > persisted[j] THEN rev ELSE persisted[j]
    BY <1>0 DEF SyncPersist, OutboxShape
  <1>5. rev <= finished[j] /\ (j \notin raced => rev = finished[j])
    BY <1>0 DEF SyncerSound, Carries
  <1>6. /\ persisted[j] <= persisted'[j] /\ rev <= persisted'[j] /\ persisted'[j] <= finished[j]
        /\ persisted'[j] \in Nat
        /\ persisted[j] = finished[j] => persisted'[j] = finished[j]
    BY <1>0, <1>4, <1>5 DEF SummariesSound
  <1>7. OutboxShape'
    BY <1>0, <1>3, <1>4 DEF OutboxShape
  <1>8. ASSUME NEW k \in OutboxJobs PROVE SummariesSound(k)'
    <2>1. SummariesSound(k)
      BY DEF OutboxInv
    <2>2. Pending(k)' <=> Pending(k)
      BY <1>0 DEF Pending
    <2>3. CASE k = j
      BY <1>0, <1>6, <2>1, <2>2, <2>3 DEF SummariesSound
    <2>4. CASE k # j
      BY <1>0, <1>4, <2>1, <2>2, <2>4 DEF SummariesSound
    <2> QED
      BY <2>3, <2>4
  <1>9. ASSUME NEW q \in Syncers PROVE SyncerSound(q)'
    <2>1. CASE q = p
      BY <1>0, <1>1, <1>3, <1>6, <2>1 DEF SyncerSound, Carries
    <2>2. CASE q # p
      <3>1. SyncerSound(q) /\ syncer'[q] = syncer[q] /\ syncer[q].job \in OutboxJobs /\ syncer[q].rev \in Nat
        BY <1>0, <1>3, <2>2, OutboxFields DEF OutboxInv
      <3>2. syncer[q].rev <= persisted[syncer[q].job] => syncer[q].rev <= persisted'[syncer[q].job]
        BY <1>0, <1>4, <1>6, <3>1
      <3> QED
        BY <1>0, <3>1, <3>2 DEF SyncerSound, Carries
    <2> QED
      BY <2>1, <2>2
  <1> QED
    BY <1>7, <1>8, <1>9 DEF OutboxInv

\* The delete at the end of sync, which does not compare.
LEMMA SyncDeleteKeeps ==
    ASSUME OutboxInv, NEW p \in Syncers, SyncDelete(p)
    PROVE  OutboxInv'
  <1> DEFINE j == syncer[p].job
  <1>0. OutboxShape /\ j \in OutboxJobs /\ UNCHANGED <<finished, flush, persisted, raced>>
        /\ persisted[j] \in Nat /\ finished[j] \in Nat /\ SyncerSound(p) /\ syncer[p].pc = "delete" /\ SummariesSound(j)
    BY OutboxFields DEF OutboxInv, SyncDelete
  <1>1. /\ syncer' \in [Syncers -> SyncerRows] /\ syncer'[p].pc = "idle"
        /\ \A q \in Syncers \ {p} : syncer'[q] = syncer[q]
    BY <1>0, Leaves DEF SyncDelete
  <1>2. queue' \in Seq(OutboxJobs) /\ \A k : k # j /\ Pending(k) => Contains(queue', k)
    BY <1>0, DropsOnlyItself DEF SyncDelete, OutboxShape
  <1>3. summary' \in [OutboxJobs -> Nat] /\ summary'[j] = 0 /\ \A k \in OutboxJobs \ {j} : summary'[k] = summary[k]
    BY <1>0 DEF SyncDelete, OutboxShape
  <1>4. OutboxShape'
    BY <1>0, <1>1, <1>2, <1>3 DEF OutboxShape
  <1>5. j \notin raced => persisted[j] = finished[j]
    BY <1>0 DEF SyncerSound, Carries, SummariesSound
  <1>6. ASSUME NEW k \in OutboxJobs PROVE SummariesSound(k)'
    <2>1. CASE k = j
      BY <1>0, <1>3, <1>5, <2>1 DEF SummariesSound
    <2>2. CASE k # j
      <3>1. SummariesSound(k)
        BY DEF OutboxInv
      <3> QED
        BY <1>0, <1>2, <1>3, <2>2, <3>1 DEF SummariesSound, Pending
    <2> QED
      BY <2>1, <2>2
  <1>7. ASSUME NEW q \in Syncers PROVE SyncerSound(q)'
    <2>1. SyncerSound(q)
      BY DEF OutboxInv
    <2> QED
      BY <1>0, <1>1, <2>1 DEF SyncerSound, Carries
  <1> QED
    BY <1>4, <1>6, <1>7 DEF OutboxInv

\* Every step keeps the invariant.
LEMMA OutboxStays == OutboxInv /\ [OutboxNext]_outboxVars => OutboxInv'
  <1> SUFFICES ASSUME OutboxInv, [OutboxNext]_outboxVars PROVE OutboxInv'
    OBVIOUS
  <1>0. OutboxShape
    BY DEF OutboxInv
  <1>1. ASSUME NEW p \in Syncers, SyncFails(p) PROVE OutboxInv'
    <2>1. /\ syncer' \in [Syncers -> SyncerRows] /\ syncer'[p].pc = "idle"
          /\ \A q \in Syncers \ {p} : syncer'[q] = syncer[q]
      BY <1>0, <1>1, Leaves DEF SyncFails
    <2>2. SyncerSound(p)'
      BY <2>1 DEF SyncerSound, Carries
    <2>3. flush' \in Seq(OutboxJobs) /\ queue' = queue /\ queue \in Seq(OutboxJobs)
          /\ UNCHANGED <<finished, summary, persisted, raced>>
      <3>1. flush' = flush \/ flush' = <<>>
        BY <1>1 DEF SyncFails
      <3>2. flush \in Seq(OutboxJobs) /\ <<>> \in Seq(OutboxJobs) /\ queue \in Seq(OutboxJobs)
        BY <1>0 DEF OutboxShape
      <3>3. flush' \in Seq(OutboxJobs)
        BY <3>1, <3>2
      <3>4. UNCHANGED <<finished, summary, queue, persisted, raced>>
        BY <1>1 DEF SyncFails
      <3> QED
        BY <3>2, <3>3, <3>4
    <2>4. \A j \in OutboxJobs : Pending(j) /\ summary[j] # 0 => Contains(queue', j)
      BY <2>3 DEF Pending
    <2> QED
      BY <2>1, <2>2, <2>3, <2>4, OneSyncerMoves
  <1>2. CASE FlushRead
    <2> DEFINE n == IF Len(queue) < FlushLimit THEN Len(queue) ELSE FlushLimit
    <2>1. flush' \in Seq(OutboxJobs) /\ UNCHANGED <<finished, summary, queue, syncer, persisted, raced>>
      <3>1. flush' = SubSeq(queue, 1, n) /\ UNCHANGED <<finished, summary, queue, syncer, persisted, raced>> /\ queue \in Seq(OutboxJobs) /\ Len(queue) \in Nat
        BY <1>0, <1>2 DEF FlushRead, OutboxShape
      <3>2. n \in Nat /\ n <= Len(queue)
        BY <3>1, OutboxAssumption
      <3> HIDE DEF n
      <3>3. SubSeq(queue, 1, n) \in Seq(OutboxJobs)
        BY <3>1, <3>2
      <3> QED
        BY <3>1, <3>3
    <2> QED
      BY <1>0, <2>1 DEF OutboxInv, OutboxShape, SummariesSound, SyncerSound, Carries, Pending
  <1>3. CASE FlushNext
    <2>1. Flusher \in Syncers /\ Head(flush) \in OutboxJobs /\ Tail(flush) \in Seq(OutboxJobs)
      BY <1>0, <1>3, OutboxAssumption DEF FlushNext, OutboxShape
    <2>2. /\ syncer' \in [Syncers -> SyncerRows] /\ syncer'[Flusher].pc = "read"
          /\ \A q \in Syncers \ {Flusher} : syncer'[q] = syncer[q]
      BY <1>0, <1>3, <2>1, Enters DEF FlushNext
    <2>3. SyncerSound(Flusher)'
      BY <2>2 DEF SyncerSound, Carries
    <2>4. flush' \in Seq(OutboxJobs) /\ queue' = queue /\ queue \in Seq(OutboxJobs)
          /\ UNCHANGED <<finished, summary, persisted, raced>>
      BY <1>0, <1>3, <2>1 DEF FlushNext, OutboxShape
    <2>5. \A j \in OutboxJobs : Pending(j) /\ summary[j] # 0 => Contains(queue', j)
      BY <2>4 DEF Pending
    <2> QED
      BY <2>1, <2>2, <2>3, <2>4, <2>5, OneSyncerMoves
  <1>4. ASSUME NEW j \in OutboxJobs, SummaryExpires(j) PROVE OutboxInv'
    <2>1. /\ j \in Refused /\ summary' = [summary EXCEPT ![j] = 0]
          /\ UNCHANGED <<finished, queue, syncer, flush, persisted, raced>>
      BY <1>4 DEF SummaryExpires
    <2>2. summary' \in [OutboxJobs -> Nat] /\ summary'[j] = 0 /\ \A k \in OutboxJobs \ {j} : summary'[k] = summary[k]
      BY <1>0, <2>1 DEF OutboxShape
    <2>3. OutboxShape'
      BY <1>0, <2>1, <2>2 DEF OutboxShape
    <2>4. ASSUME NEW k \in OutboxJobs PROVE SummariesSound(k)'
      <3>1. SummariesSound(k)
        BY DEF OutboxInv
      <3> QED
        BY <2>1, <2>2, <3>1 DEF SummariesSound, Pending
    <2>5. ASSUME NEW q \in Syncers PROVE SyncerSound(q)'
      BY <2>1 DEF OutboxInv, SyncerSound, Carries
    <2> QED
      BY <2>3, <2>4, <2>5 DEF OutboxInv
  <1>5. CASE UNCHANGED outboxVars
    BY <1>5 DEF outboxVars, OutboxInv, OutboxShape, SummariesSound, SyncerSound, Carries, Pending
  <1> QED
    BY <1>1, <1>2, <1>3, <1>4, <1>5, EnqueueKeeps, SyncReadKeeps, SyncPersistKeeps, SyncDeleteKeeps DEF OutboxNext, SyncStep

\* It holds at the start.
LEMMA OutboxBegins == OutboxInit => OutboxInv
  <1> SUFFICES ASSUME OutboxInit PROVE OutboxInv
    OBVIOUS
  <1>1. /\ finished = [j \in OutboxJobs |-> 0] /\ summary = [j \in OutboxJobs |-> 0]
        /\ persisted = [j \in OutboxJobs |-> 0] /\ queue = <<>> /\ flush = <<>>
        /\ syncer = [p \in Syncers |-> IdleSyncer]
    BY DEF OutboxInit
  <1>2. IdleSyncer \in SyncerRows /\ IdleSyncer.pc = "idle"
    BY OutboxAssumption DEF IdleSyncer, SyncerRows
  <1>3. OutboxShape
    BY <1>1, <1>2 DEF OutboxShape
  <1>4. \A j \in OutboxJobs : SummariesSound(j)
    BY <1>1 DEF SummariesSound
  <1>5. \A p \in Syncers : SyncerSound(p)
    BY <1>1, <1>2 DEF SyncerSound, Carries
  <1> QED
    BY <1>3, <1>4, <1>5 DEF OutboxInv

\* The newest cost summary of a job is in the queue or in the database (CostSummaryOutbox.sync
\* deletes without comparing), unless the job finished again while a sync carried an older one.
THEOREM SummariesAreLostByRacesOnly == OutboxSpec => []SummaryLossNeedsARace
  <1>1. OutboxInv => SummaryLossNeedsARace
    BY DEF OutboxInv, SummariesSound, SummaryLossNeedsARace
  <1> QED
    BY <1>1, OutboxBegins, OutboxStays, PTL DEF OutboxSpec

-----------------------------------------------------------------------------
(* Preparations.  A ledger is made anew only by the first attempt, before    *)
(* any request: then nobody has claimed or made one.                         *)

\* Runs that have claimed a request and not made it yet.
Requesting == {w \in Preparers : prepRun[w].pc = "request"}

\* A run that may make the ledger.
Fresh(w) == prepRun[w].pc = "ensure" /\ ~prepRun[w].required

\* Nothing was claimed and no run is past the ledger.
Untouched ==
    /\ ~prepLedger.exists /\ prepSpent = 0
    /\ \A w \in Preparers : prepRun[w].pc \in {"idle", "ensure", "handoff"}

PrepWithinBudget ==
    /\ IsFiniteSet(Requesting)
    /\ prepSpent + Cardinality(Requesting) <= PrepBudget
    /\ prepLedger.exists => prepSpent + Cardinality(Requesting) <= prepLedger.claims

FirstPrepIsAlone ==
    /\ prep.tries = 0 => Untouched /\ \A w \in Preparers : prepRun[w].pc # "ensure"
    /\ \A w \in Preparers : Fresh(w) => Untouched /\ \A v \in Preparers : Fresh(v) => v = w

PrepInv == PrepTypeOK /\ PrepWithinBudget /\ FirstPrepIsAlone

\* The fields of the row, the ledger and a run have their types.
LEMMA PrepFields ==
    ASSUME PrepTypeOK
    PROVE  /\ prep.status \in {"none", "open", "ready", "closed"} /\ prep.tries \in 0..PrepTries
           /\ prep.tries \in Nat /\ prep.expired \in BOOLEAN /\ prep.counted \in BOOLEAN
           /\ prepLedger.exists \in BOOLEAN /\ prepLedger.claims \in 0..PrepBudget /\ prepLedger.claims \in Nat
           /\ prepSpent \in Nat
           /\ \A w \in Preparers : /\ prepRun[w] \in PrepRuns /\ prepRun[w].pc \in PrepPcs
                                   /\ prepRun[w].lease \in 0..PrepTries /\ prepRun[w].required \in BOOLEAN
  <1>1. prep \in PrepRows /\ prepLedger \in PrepLedgers /\ prepRun \in [Preparers -> PrepRuns] /\ prepSpent \in Nat
    BY DEF PrepTypeOK
  <1>2. /\ prep.status \in {"none", "open", "ready", "closed"} /\ prep.tries \in 0..PrepTries
        /\ prep.expired \in BOOLEAN /\ prep.counted \in BOOLEAN
    BY <1>1 DEF PrepRows
  <1>3. prepLedger.exists \in BOOLEAN /\ prepLedger.claims \in 0..PrepBudget
    BY <1>1 DEF PrepLedgers
  <1>4. prep.tries \in Nat /\ prepLedger.claims \in Nat
    BY <1>2, <1>3, PrepAssumption
  <1>5. \A w \in Preparers : prepRun[w] \in PrepRuns
    BY <1>1
  <1>6. \A w \in Preparers : /\ prepRun[w].pc \in PrepPcs /\ prepRun[w].lease \in 0..PrepTries
                             /\ prepRun[w].required \in BOOLEAN
    BY <1>5 DEF PrepRuns
  <1> QED
    BY <1>1, <1>2, <1>3, <1>4, <1>5, <1>6

\* One run moves and the others stay.
Moves(w, x) == x \in PrepRuns /\ prepRun' = [prepRun EXCEPT ![w] = x]

\* What a move does to the runs and to the requests under way.
LEMMA MovesOne ==
    ASSUME PrepTypeOK, NEW w \in Preparers, NEW x, Moves(w, x)
    PROVE  /\ prepRun' \in [Preparers -> PrepRuns]
           /\ prepRun'[w] = x
           /\ \A v \in Preparers : v # w => prepRun'[v] = prepRun[v]
           /\ Requesting' = IF x.pc = "request" THEN Requesting \cup {w} ELSE Requesting \ {w}
  <1>1. /\ prepRun' \in [Preparers -> PrepRuns] /\ prepRun'[w] = x
        /\ \A v \in Preparers : v # w => prepRun'[v] = prepRun[v]
    BY DEF Moves, PrepTypeOK
  <1>2. CASE x.pc = "request"
    BY <1>1, <1>2 DEF Requesting
  <1>3. CASE x.pc # "request"
    BY <1>1, <1>3 DEF Requesting
  <1> QED
    BY <1>1, <1>2, <1>3

\* The program counter of a run alone is a move.
LEMMA GotoMoves ==
    ASSUME PrepTypeOK, NEW w \in Preparers, NEW pc \in PrepPcs, PrepGoto(w, pc)
    PROVE  /\ Moves(w, [prepRun[w] EXCEPT !.pc = pc])
           /\ [prepRun[w] EXCEPT !.pc = pc].pc = pc
           /\ [prepRun[w] EXCEPT !.pc = pc].required = prepRun[w].required
  <1>1. prepRun[w] \in PrepRuns /\ prepRun \in [Preparers -> PrepRuns]
    BY PrepFields DEF PrepTypeOK
  <1>2. [prepRun[w] EXCEPT !.pc = pc] \in PrepRuns
    BY <1>1 DEF PrepRuns
  <1>3. prepRun' = [prepRun EXCEPT ![w] = [prepRun[w] EXCEPT !.pc = pc]]
    BY <1>1 DEF PrepGoto
  <1>4. [prepRun[w] EXCEPT !.pc = pc].pc = pc /\ [prepRun[w] EXCEPT !.pc = pc].required = prepRun[w].required
    BY <1>1 DEF PrepRuns
  <1> QED
    BY <1>2, <1>3, <1>4 DEF Moves

\* Retry(defer=30) ends the run.
LEMMA RetryMoves ==
    ASSUME PrepTypeOK, NEW w \in Preparers, RetryPrep(w)
    PROVE  Moves(w, IdlePrep) /\ IdlePrep.pc = "idle" /\ prepQueued' \in BOOLEAN
  BY PrepAssumption DEF RetryPrep, Moves, IdlePrep, PrepRuns, PrepPcs

\* Every step of a preparation keeps the types.
LEMMA PrepKeepsTypes == PrepTypeOK /\ [PrepNext]_prepVars => PrepTypeOK'
  <1> SUFFICES ASSUME PrepTypeOK, [PrepNext]_prepVars PROVE PrepTypeOK'
    OBVIOUS
  <1> DEFINE Kind == prepKind' \in {"acquisition", "first_service"}
             Rows == prep' \in PrepRows
             Ledgers == prepLedger' \in PrepLedgers
             Runs == prepRun' \in [Preparers -> PrepRuns]
             Queue == prepQueued' \in BOOLEAN
             Rest == prepSpent' \in Nat /\ handedOver' \in BOOLEAN
  <1>a. /\ prepKind \in {"acquisition", "first_service"} /\ prep \in PrepRows /\ prepLedger \in PrepLedgers
        /\ prepRun \in [Preparers -> PrepRuns] /\ prepQueued \in BOOLEAN /\ prepSpent \in Nat /\ handedOver \in BOOLEAN
    BY DEF PrepTypeOK
  <1>b. \A status \in {"open", "ready", "closed"} : [prep EXCEPT !.status = status] \in PrepRows
    BY <1>a DEF PrepRows
  <1>c. [prep EXCEPT !.counted = TRUE] \in PrepRows /\ [prep EXCEPT !.expired = TRUE] \in PrepRows
        /\ [prep EXCEPT !.status = "ready", !.counted = TRUE] \in PrepRows
    BY <1>a DEF PrepRows
  <1>d. 0 \in 0..PrepBudget /\ 0 \in 0..PrepTries
    BY PrepAssumption
  <1> USE DEF PrepTypeOK
  <1>1. CASE SubmitPrep \/ ResubmitFrozen \/ ReconcilePrep \/ PrepLeaseExpires \/ ClosePrep
    <2>1. Rows
      <3>1. prep' \in {prep, [prep EXCEPT !.status = "open"], [prep EXCEPT !.expired = TRUE], [prep EXCEPT !.status = "closed"]}
        BY <1>1 DEF SubmitPrep, ResubmitFrozen, ReconcilePrep, PrepLeaseExpires, ClosePrep
      <3> QED
        BY <3>1, <1>a, <1>b, <1>c
    <2>2. Kind /\ Ledgers /\ Runs /\ Queue /\ Rest
      BY <1>1, <1>a DEF SubmitPrep, ResubmitFrozen, ReconcilePrep, PrepLeaseExpires, ClosePrep
    <2> QED
      BY <2>1, <2>2
  <1>2. CASE LosePrepLedger
    <2>1. Ledgers
      BY <1>2, <1>d DEF LosePrepLedger, PrepLedgers
    <2> QED
      BY <1>2, <2>1, <1>a DEF LosePrepLedger
  <1>3. ASSUME NEW w \in Preparers, ClaimPrep(w) PROVE PrepTypeOK'
    <2>1. Kind /\ Ledgers /\ Rest
      BY <1>3, <1>a DEF ClaimPrep
    <2>2. CASE prep' = prep
      <3>1. Runs /\ Queue
        <4>1. CASE prepQueued' = FALSE /\ prepRun' = prepRun
          BY <4>1, <1>a
        <4>2. CASE RetryPrep(w)
          BY <4>2, RetryMoves, MovesOne
        <4>3. CASE prepQueued' = FALSE /\ PrepGoto(w, "handoff")
          BY <4>3, GotoMoves, MovesOne DEF PrepPcs
        <4>4. CASE prep' = [prep EXCEPT !.tries = @ + 1, !.lease = prep.tries + 1, !.expired = FALSE]
          <5>1. prep'.tries = prep.tries + 1 /\ prep.tries \in Nat
            BY <4>4, <1>a, PrepFields DEF PrepRows
          <5> QED
            BY <5>1, <2>2
        <4> QED
          BY <1>3, <4>1, <4>2, <4>3, <4>4 DEF ClaimPrep
      <3> QED
        BY <2>1, <2>2, <3>1, <1>a
    <2>3. CASE prep' # prep
      <3>1. /\ prep' = [prep EXCEPT !.tries = @ + 1, !.lease = prep.tries + 1, !.expired = FALSE]
            /\ ~(prep.status \in {"none", "closed"} \/ (prep.status = "open" /\ prep.expired /\ prep.tries = PrepTries))
            /\ ~(prep.status = "open" /\ ~prep.expired) /\ prep.status # "ready"
            /\ \/ /\ prepQueued' = FALSE
                  /\ prepRun' = [prepRun EXCEPT ![w] = [pc |-> "ensure", lease |-> prep.tries + 1,
                                                        required |-> prep.tries > 0 \/ prep.counted]]
               \/ RetryPrep(w)
        BY <1>3, <2>3 DEF ClaimPrep
      <3>2. prep.tries + 1 \in 0..PrepTries
        BY <3>1, PrepFields, PrepAssumption
      <3>3. Rows
        BY <3>1, <3>2, <1>a DEF PrepRows
      <3>4. [pc |-> "ensure", lease |-> prep.tries + 1, required |-> prep.tries > 0 \/ prep.counted] \in PrepRuns
        BY <3>2, PrepFields DEF PrepRuns, PrepPcs
      <3>5. Runs /\ Queue
        BY <3>1, <3>4, <1>a, RetryMoves, MovesOne
      <3> QED
        BY <2>1, <3>3, <3>5
    <2> QED
      BY <2>2, <2>3
  <1>4. ASSUME NEW w \in Preparers, EnsurePrep(w) \/ ClaimPrepRequest(w) PROVE PrepTypeOK'
    <2>1. Kind /\ Rows /\ Rest
      BY <1>4, <1>a DEF EnsurePrep, ClaimPrepRequest
    <2>2. Runs /\ Queue
      <3>1. \/ RetryPrep(w)
            \/ prepQueued' = prepQueued /\ \E pc \in PrepPcs : PrepGoto(w, pc)
        BY <1>4 DEF EnsurePrep, ClaimPrepRequest, PrepPcs
      <3> QED
        BY <3>1, <1>a, RetryMoves, GotoMoves, MovesOne
    <2>3. Ledgers
      <3>1. \/ prepLedger' = prepLedger
            \/ prepLedger' = [prepLedger EXCEPT !.exists = TRUE, !.claims = IF prepLedger.exists THEN @ ELSE 0]
            \/ prepLedger.claims < PrepBudget /\ prepLedger' = [prepLedger EXCEPT !.claims = @ + 1]
        BY <1>4 DEF EnsurePrep, ClaimPrepRequest
      <3>2. prepLedger.claims < PrepBudget => prepLedger.claims + 1 \in 0..PrepBudget
        BY PrepFields, PrepAssumption
      <3> QED
        BY <3>1, <3>2, <1>a, <1>d DEF PrepLedgers
    <2> QED
      BY <2>1, <2>2, <2>3
  <1>5. ASSUME NEW w \in Preparers, PulsePrep(w) \/ FreezePrep(w) \/ HandOver(w) \/ StopPrep(w) \/ MakePrepRequest(w)
        PROVE  PrepTypeOK'
    <2>1. Kind /\ Ledgers
      BY <1>5, <1>a DEF PulsePrep, FreezePrep, HandOver, StopPrep, MakePrepRequest
    <2>2. Rows
      <3>1. prep' \in {prep, [prep EXCEPT !.counted = TRUE], [prep EXCEPT !.status = "ready", !.counted = TRUE]}
        BY <1>5 DEF PulsePrep, FreezePrep, HandOver, StopPrep, MakePrepRequest
      <3> QED
        BY <3>1, <1>a, <1>c
    <2>3. Runs /\ Queue
      <3>1. \/ RetryPrep(w)
            \/ prepQueued' = prepQueued /\ \E pc \in PrepPcs : PrepGoto(w, pc)
        BY <1>5 DEF PulsePrep, FreezePrep, HandOver, StopPrep, MakePrepRequest, PrepPcs
      <3> QED
        BY <3>1, <1>a, RetryMoves, GotoMoves, MovesOne
    <2>4. prepSpent' \in {prepSpent, prepSpent + 1} /\ handedOver' \in {handedOver, TRUE}
      BY <1>5 DEF PulsePrep, FreezePrep, HandOver, StopPrep, MakePrepRequest
    <2>5. Rest
      <3>1. prepSpent' \in Nat
        BY <2>4, <1>a
      <3>2. handedOver' \in BOOLEAN
        BY <2>4, <1>a, Zenon
      <3> QED
        BY <3>1, <3>2
    <2> QED
      BY <2>1, <2>2, <2>3, <2>5
  <1>6. CASE UNCHANGED prepVars
    BY <1>6, <1>a DEF prepVars
  <1> QED
    BY <1>1, <1>2, <1>3, <1>4, <1>5, <1>6 DEF PrepNext

\* A step in which no run moves and at most the ledger gets lost.
LEMMA PrepRests ==
    ASSUME PrepInv, prepRun' = prepRun, prepSpent' = prepSpent, prep'.tries = prep.tries,
           prepLedger' = prepLedger \/ ~prepLedger'.exists
    PROVE  PrepWithinBudget' /\ FirstPrepIsAlone'
  <1>1. Requesting' = Requesting /\ (Untouched => Untouched') /\ \A w \in Preparers : Fresh(w)' = Fresh(w)
    BY DEF Requesting, Untouched, Fresh
  <1>2. PrepWithinBudget'
    BY <1>1 DEF PrepInv, PrepWithinBudget
  <1>3. FirstPrepIsAlone'
    BY <1>1 DEF PrepInv, FirstPrepIsAlone
  <1> QED
    BY <1>2, <1>3

\* A run that has no request under way moves on and touches neither ledger nor provider
\* (pulse, freeze, hand over, put off).
LEMMA PrepPasses ==
    ASSUME PrepInv, NEW w \in Preparers, NEW x, Moves(w, x),
           prepRun[w].pc # "request", x.pc \notin {"request", "ensure"},
           x.pc \in {"idle", "handoff"} \/ prepRun[w].pc \notin {"idle", "ensure", "handoff"},
           prepSpent' = prepSpent, prepLedger' = prepLedger, prep'.tries = prep.tries
    PROVE  PrepWithinBudget' /\ FirstPrepIsAlone'
  <1>1. /\ prepRun'[w] = x /\ \A v \in Preparers : v # w => prepRun'[v] = prepRun[v]
        /\ Requesting' = Requesting \ {w} /\ w \notin Requesting
    BY MovesOne DEF PrepInv, Requesting
  <1>2. Requesting' = Requesting
    BY <1>1
  <1>3. PrepWithinBudget'
    BY <1>2 DEF PrepInv, PrepWithinBudget
  <1>4. Untouched => Untouched'
    BY <1>1 DEF Untouched
  <1>5. \A v \in Preparers : Fresh(v)' => Fresh(v) /\ v # w
    BY <1>1 DEF Fresh
  <1>6. FirstPrepIsAlone'
    <2>1. prep'.tries = 0 => Untouched' /\ \A v \in Preparers : prepRun'[v].pc # "ensure"
      BY <1>1, <1>4 DEF PrepInv, FirstPrepIsAlone
    <2>2. \A v \in Preparers : Fresh(v)' => Untouched' /\ \A u \in Preparers : Fresh(u)' => u = v
      BY <1>4, <1>5 DEF PrepInv, FirstPrepIsAlone
    <2> QED
      BY <2>1, <2>2 DEF FirstPrepIsAlone
  <1> QED
    BY <1>3, <1>6

\* A run leaves its request, which was made or not.
LEMMA PrepAnswers ==
    ASSUME PrepInv, NEW w \in Preparers, NEW x, Moves(w, x),
           prepRun[w].pc = "request", x.pc \notin {"request", "ensure"},
           prepSpent' = prepSpent \/ prepSpent' = prepSpent + 1, prepLedger' = prepLedger, prep'.tries = prep.tries
    PROVE  PrepWithinBudget' /\ FirstPrepIsAlone'
  <1>1. /\ prepRun'[w] = x /\ \A v \in Preparers : v # w => prepRun'[v] = prepRun[v]
        /\ Requesting' = Requesting \ {w} /\ w \in Requesting
    BY MovesOne DEF PrepInv, Requesting
  <1>2. IsFiniteSet(Requesting') /\ Cardinality(Requesting') = Cardinality(Requesting) - 1
    BY <1>1, FS_RemoveElement DEF PrepInv, PrepWithinBudget
  <1>3. Cardinality(Requesting) \in Nat /\ prepSpent \in Nat /\ prepLedger.claims \in Nat
    BY FS_CardinalityType, PrepFields DEF PrepInv, PrepWithinBudget
  <1>4. prepSpent' + Cardinality(Requesting') <= prepSpent + Cardinality(Requesting)
    BY <1>2, <1>3
  <1>5. prepSpent' + Cardinality(Requesting') \in Int
    BY <1>2, <1>3
  <1>6. PrepWithinBudget'
    BY <1>2, <1>3, <1>4, <1>5, PrepAssumption DEF PrepInv, PrepWithinBudget
  <1>7. ~Untouched
    BY DEF Untouched
  <1>8. prep.tries # 0 /\ \A v \in Preparers : ~Fresh(v)
    BY <1>7 DEF PrepInv, FirstPrepIsAlone
  <1>9. \A v \in Preparers : ~Fresh(v)'
    BY <1>1, <1>8 DEF Fresh
  <1> QED
    BY <1>6, <1>8, <1>9 DEF FirstPrepIsAlone

\* claim_..._preparation counts an attempt; the run may have got no answer.
LEMMA PrepBegins ==
    ASSUME PrepInv, NEW w \in Preparers, NEW x, Moves(w, x), prepRun[w].pc = "idle",
           \/ x.pc = "idle"
           \/ x.pc = "ensure" /\ x.required = (prep.tries > 0 \/ prep.counted),
           prepSpent' = prepSpent, prepLedger' = prepLedger, prep'.tries = prep.tries + 1
    PROVE  PrepWithinBudget' /\ FirstPrepIsAlone'
  <1>1. /\ prepRun'[w] = x /\ \A v \in Preparers : v # w => prepRun'[v] = prepRun[v]
        /\ Requesting' = Requesting \ {w} /\ w \notin Requesting
    BY MovesOne DEF PrepInv, Requesting
  <1>2. Requesting' = Requesting
    BY <1>1
  <1>3. PrepWithinBudget'
    BY <1>2 DEF PrepInv, PrepWithinBudget
  <1>4. Untouched => Untouched'
    BY <1>1 DEF Untouched
  <1>5. prep.tries \in Nat
    BY PrepFields DEF PrepInv
  <1>6. prep'.tries # 0
    BY <1>5
  <1>7. CASE Fresh(w)'
    <2>1. x.pc = "ensure" /\ ~x.required
      BY <1>1, <1>7 DEF Fresh
    <2>2. ~(prep.tries > 0)
      BY <2>1
    <2>3. prep.tries = 0
      BY <1>5, <2>2
    <2>4. Untouched /\ \A v \in Preparers : prepRun[v].pc # "ensure"
      BY <2>3 DEF PrepInv, FirstPrepIsAlone
    <2>5. Untouched' /\ \A v \in Preparers : Fresh(v)' => v = w
      BY <1>1, <1>4, <2>4 DEF Fresh
    <2> QED
      BY <1>3, <1>6, <2>5 DEF FirstPrepIsAlone
  <1>8. CASE ~Fresh(w)'
    <2>1. \A v \in Preparers : Fresh(v)' => Fresh(v)
      BY <1>1, <1>8 DEF Fresh
    <2>2. \A v \in Preparers : Fresh(v)' => Untouched' /\ \A u \in Preparers : Fresh(u)' => u = v
      BY <2>1, <1>4 DEF PrepInv, FirstPrepIsAlone
    <2> QED
      BY <1>3, <1>6, <2>2 DEF FirstPrepIsAlone
  <1> QED
    BY <1>7, <1>8

\* ledger.ensure: a ledger that exists is kept, a missing one is made by a fresh run only.
LEMMA PrepEnsures ==
    ASSUME PrepInv, NEW w \in Preparers, NEW x, Moves(w, x),
           prepRun[w].pc = "ensure", x.pc = "pulse", prepLedger.exists \/ ~prepRun[w].required,
           prepLedger' = [prepLedger EXCEPT !.exists = TRUE, !.claims = IF prepLedger.exists THEN @ ELSE 0],
           prepSpent' = prepSpent, prep'.tries = prep.tries
    PROVE  PrepWithinBudget' /\ FirstPrepIsAlone'
  <1>1. /\ prepRun'[w] = x /\ \A v \in Preparers : v # w => prepRun'[v] = prepRun[v]
        /\ Requesting' = Requesting \ {w} /\ w \notin Requesting
    BY MovesOne DEF PrepInv, Requesting
  <1>2. Requesting' = Requesting
    BY <1>1
  <1>3. prep.tries # 0
    BY DEF PrepInv, FirstPrepIsAlone
  <1>4. prepLedger'.claims = IF prepLedger.exists THEN prepLedger.claims ELSE 0
    BY DEF PrepInv, PrepTypeOK, PrepLedgers
  <1>5. \A v \in Preparers : ~Fresh(v)'
    <2>1. SUFFICES ASSUME NEW v \in Preparers, Fresh(v)' PROVE FALSE
      OBVIOUS
    <2>2. v # w /\ Fresh(v)
      BY <1>1, <2>1 DEF Fresh
    <2>3. Untouched /\ ~Fresh(w)
      BY <2>2 DEF PrepInv, FirstPrepIsAlone
    <2>4. ~prepLedger.exists /\ prepRun[w].required
      BY <2>3 DEF Untouched, Fresh
    <2> QED
      BY <2>4
  <1>6. PrepWithinBudget'
    <2>1. CASE prepLedger.exists
      BY <2>1, <1>2, <1>4 DEF PrepInv, PrepWithinBudget
    <2>2. CASE ~prepLedger.exists
      <3>1. Fresh(w)
        BY <2>2 DEF Fresh
      <3>2. Untouched
        BY <3>1 DEF PrepInv, FirstPrepIsAlone
      <3>3. prepSpent = 0 /\ Requesting = {}
        BY <3>2 DEF Untouched, Requesting
      <3>4. Cardinality(Requesting) = 0
        BY <3>3, FS_EmptySet
      <3> QED
        BY <2>2, <3>3, <3>4, <1>2, <1>4 DEF PrepInv, PrepWithinBudget
    <2> QED
      BY <2>1, <2>2
  <1> QED
    BY <1>3, <1>5, <1>6 DEF FirstPrepIsAlone

\* A stage claims a request within the ledger.
LEMMA PrepClaims ==
    ASSUME PrepInv, NEW w \in Preparers, NEW x, Moves(w, x),
           prepRun[w].pc = "collect", x.pc = "request",
           prepLedger.exists, prepLedger.claims < PrepBudget, prepLedger' = [prepLedger EXCEPT !.claims = @ + 1],
           prepSpent' = prepSpent, prep'.tries = prep.tries
    PROVE  PrepWithinBudget' /\ FirstPrepIsAlone'
  <1>1. /\ prepRun'[w] = x /\ \A v \in Preparers : v # w => prepRun'[v] = prepRun[v]
        /\ Requesting' = Requesting \cup {w} /\ w \notin Requesting
    BY MovesOne DEF PrepInv, Requesting
  <1>2. IsFiniteSet(Requesting') /\ Cardinality(Requesting') = Cardinality(Requesting) + 1
    BY <1>1, FS_AddElement DEF PrepInv, PrepWithinBudget
  <1>3. Cardinality(Requesting) \in Nat /\ prepSpent \in Nat /\ prepLedger.claims \in Nat
    BY FS_CardinalityType, PrepFields DEF PrepInv, PrepWithinBudget
  <1>4. prepLedger'.claims = prepLedger.claims + 1
    BY DEF PrepInv, PrepTypeOK, PrepLedgers
  <1>5. prepSpent + Cardinality(Requesting) <= prepLedger.claims
    BY DEF PrepInv, PrepWithinBudget
  <1>6. PrepWithinBudget'
    BY <1>2, <1>3, <1>4, <1>5, PrepAssumption DEF PrepWithinBudget
  <1>7. ~Untouched
    BY DEF Untouched
  <1>8. prep.tries # 0 /\ \A v \in Preparers : ~Fresh(v)
    BY <1>7 DEF PrepInv, FirstPrepIsAlone
  <1>9. \A v \in Preparers : ~Fresh(v)'
    BY <1>1, <1>8 DEF Fresh
  <1> QED
    BY <1>6, <1>8, <1>9 DEF FirstPrepIsAlone

\* Every step keeps the invariant.
LEMMA PrepStays == PrepInv /\ [PrepNext]_prepVars => PrepInv'
  <1> SUFFICES ASSUME PrepInv, [PrepNext]_prepVars PROVE PrepWithinBudget' /\ FirstPrepIsAlone'
    BY PrepKeepsTypes DEF PrepInv
  <1>t. PrepTypeOK /\ prep \in PrepRows
    BY DEF PrepInv, PrepTypeOK
  <1>1. CASE SubmitPrep \/ ResubmitFrozen \/ ReconcilePrep \/ PrepLeaseExpires \/ ClosePrep \/ LosePrepLedger
             \/ UNCHANGED prepVars
    <2>1. prep'.tries = prep.tries
      <3>1. prep' \in {prep, [prep EXCEPT !.status = "open"], [prep EXCEPT !.expired = TRUE], [prep EXCEPT !.status = "closed"]}
        BY <1>1 DEF SubmitPrep, ResubmitFrozen, ReconcilePrep, PrepLeaseExpires, ClosePrep, LosePrepLedger, prepVars
      <3> QED
        BY <3>1, <1>t DEF PrepRows
    <2>2. prepRun' = prepRun /\ prepSpent' = prepSpent /\ (prepLedger' = prepLedger \/ ~prepLedger'.exists)
      <3>1. CASE LosePrepLedger
        <4>1. prepLedger' = [exists |-> FALSE, claims |-> 0] /\ prepRun' = prepRun /\ prepSpent' = prepSpent
          BY <3>1 DEF LosePrepLedger
        <4>2. ~prepLedger'.exists
          BY <4>1
        <4> QED
          BY <4>1, <4>2
      <3>2. CASE ~LosePrepLedger
        BY <1>1, <3>2 DEF SubmitPrep, ResubmitFrozen, ReconcilePrep, PrepLeaseExpires, ClosePrep, prepVars
      <3> QED
        BY <3>1, <3>2
    <2> QED
      BY <2>1, <2>2, PrepRests
  <1>2. ASSUME NEW w \in Preparers, ClaimPrep(w) PROVE PrepWithinBudget' /\ FirstPrepIsAlone'
    <2>1. prepRun[w].pc = "idle" /\ prepLedger' = prepLedger /\ prepSpent' = prepSpent
      BY <1>2 DEF ClaimPrep
    <2>2. CASE prep' = prep /\ prepRun' = prepRun
      BY <2>1, <2>2, PrepRests
    <2>3. CASE prep' = prep /\ RetryPrep(w)
      BY <2>1, <2>3, <1>t, RetryMoves, PrepPasses
    <2>4. CASE prep' = prep /\ PrepGoto(w, "handoff")
      <3>1. Moves(w, [prepRun[w] EXCEPT !.pc = "handoff"]) /\ [prepRun[w] EXCEPT !.pc = "handoff"].pc = "handoff"
        BY <2>4, <1>t, GotoMoves DEF PrepPcs
      <3> QED
        BY <2>1, <2>4, <3>1, PrepPasses
    <2>5. CASE /\ prep' = [prep EXCEPT !.tries = @ + 1, !.lease = prep.tries + 1, !.expired = FALSE]
               /\ \/ prepRun' = [prepRun EXCEPT ![w] = [pc |-> "ensure", lease |-> prep.tries + 1,
                                                        required |-> prep.tries > 0 \/ prep.counted]]
                  \/ RetryPrep(w)
      <3> DEFINE x == [pc |-> "ensure", lease |-> prep.tries + 1, required |-> prep.tries > 0 \/ prep.counted]
      <3>1. prep'.tries = prep.tries + 1
        BY <2>5, <1>t DEF PrepRows
      <3>2. CASE RetryPrep(w)
        BY <2>1, <3>1, <3>2, <1>t, RetryMoves, PrepBegins
      <3>3. CASE prepRun' = [prepRun EXCEPT ![w] = x]
        <4>1. PrepTypeOK' /\ prepRun'[w] = x
          <5>1. PrepTypeOK'
            BY PrepKeepsTypes DEF PrepInv
          <5> QED
            BY <5>1, <3>3, <1>t DEF PrepTypeOK
        <4>2. x \in PrepRuns
          BY <4>1 DEF PrepTypeOK
        <4>3. Moves(w, x)
          BY <4>2, <3>3 DEF Moves
        <4>4. x.pc = "ensure" /\ x.required = (prep.tries > 0 \/ prep.counted)
          OBVIOUS
        <4> QED
          BY <2>1, <3>1, <4>3, <4>4, PrepBegins
      <3> QED
        BY <2>5, <3>2, <3>3
    <2> QED
      BY <1>2, <2>2, <2>3, <2>4, <2>5 DEF ClaimPrep
  <1>3. ASSUME NEW w \in Preparers, EnsurePrep(w) PROVE PrepWithinBudget' /\ FirstPrepIsAlone'
    <2>1. prepRun[w].pc = "ensure" /\ prep' = prep /\ prepSpent' = prepSpent
      BY <1>3 DEF EnsurePrep
    <2>2. CASE RetryPrep(w) /\ prepLedger' = prepLedger
      BY <2>1, <2>2, <1>t, RetryMoves, PrepPasses
    <2>3. CASE /\ prepLedger.exists \/ ~prepRun[w].required
               /\ prepLedger' = [prepLedger EXCEPT !.exists = TRUE, !.claims = IF prepLedger.exists THEN @ ELSE 0]
               /\ PrepGoto(w, "pulse")
      <3>1. Moves(w, [prepRun[w] EXCEPT !.pc = "pulse"]) /\ [prepRun[w] EXCEPT !.pc = "pulse"].pc = "pulse"
        BY <2>3, <1>t, GotoMoves DEF PrepPcs
      <3> QED
        BY <2>1, <2>3, <3>1, PrepEnsures
    <2> QED
      BY <1>3, <2>2, <2>3 DEF EnsurePrep
  <1>4. ASSUME NEW w \in Preparers, ClaimPrepRequest(w) PROVE PrepWithinBudget' /\ FirstPrepIsAlone'
    <2>1. prepRun[w].pc = "collect" /\ prep' = prep /\ prepSpent' = prepSpent
      BY <1>4 DEF ClaimPrepRequest
    <2>2. CASE RetryPrep(w) /\ prepLedger' = prepLedger
      BY <2>1, <2>2, <1>t, RetryMoves, PrepPasses
    <2>3. CASE /\ prepLedger.exists /\ prepLedger.claims < PrepBudget
               /\ prepLedger' = [prepLedger EXCEPT !.claims = @ + 1] /\ PrepGoto(w, "request")
      <3>1. Moves(w, [prepRun[w] EXCEPT !.pc = "request"]) /\ [prepRun[w] EXCEPT !.pc = "request"].pc = "request"
        BY <2>3, <1>t, GotoMoves DEF PrepPcs
      <3> QED
        BY <2>1, <2>3, <3>1, PrepClaims
    <2> QED
      BY <1>4, <2>2, <2>3 DEF ClaimPrepRequest
  <1>5. ASSUME NEW w \in Preparers, MakePrepRequest(w) PROVE PrepWithinBudget' /\ FirstPrepIsAlone'
    <2>1. prepRun[w].pc = "request" /\ prep' = prep /\ prepSpent' = prepSpent + 1 /\ prepLedger' = prepLedger
      BY <1>5 DEF MakePrepRequest
    <2>2. CASE RetryPrep(w)
      BY <2>1, <2>2, <1>t, RetryMoves, PrepAnswers
    <2>3. ASSUME NEW pc \in {"collect", "pulse"}, PrepGoto(w, pc) PROVE PrepWithinBudget' /\ FirstPrepIsAlone'
      <3>1. Moves(w, [prepRun[w] EXCEPT !.pc = pc]) /\ [prepRun[w] EXCEPT !.pc = pc].pc = pc
        BY <2>3, <1>t, GotoMoves, ZenonT(60) DEF PrepPcs
      <3> QED
        BY <2>1, <2>3, <3>1, PrepAnswers
    <2> QED
      BY <1>5, <2>2, <2>3 DEF MakePrepRequest
  <1>6. ASSUME NEW w \in Preparers, PulsePrep(w) \/ FreezePrep(w) \/ HandOver(w)
        PROVE  PrepWithinBudget' /\ FirstPrepIsAlone'
    <2>1. prepRun[w].pc \in {"pulse", "freeze", "handoff"} /\ prepSpent' = prepSpent /\ prepLedger' = prepLedger
      BY <1>6 DEF PulsePrep, FreezePrep, HandOver
    <2>2. prep'.tries = prep.tries
      <3>1. prep' \in {prep, [prep EXCEPT !.counted = TRUE], [prep EXCEPT !.status = "ready", !.counted = TRUE]}
        BY <1>6 DEF PulsePrep, FreezePrep, HandOver
      <3> QED
        BY <3>1, <1>t DEF PrepRows
    <2>3. CASE RetryPrep(w)
      BY <2>1, <2>2, <2>3, <1>t, RetryMoves, PrepPasses
    <2>4. ASSUME NEW pc \in {"collect", "freeze", "handoff", "idle"}, PrepGoto(w, pc),
                 prepRun[w].pc # "handoff" \/ pc = "idle"
          PROVE  PrepWithinBudget' /\ FirstPrepIsAlone'
      <3>1. Moves(w, [prepRun[w] EXCEPT !.pc = pc]) /\ [prepRun[w] EXCEPT !.pc = pc].pc = pc
        BY <2>4, <1>t, GotoMoves, ZenonT(60) DEF PrepPcs
      <3> QED
        BY <2>1, <2>2, <2>4, <3>1, PrepPasses
    <2> QED
      BY <1>6, <2>1, <2>3, <2>4 DEF PulsePrep, FreezePrep, HandOver
  <1>7. ASSUME NEW w \in Preparers, StopPrep(w) PROVE PrepWithinBudget' /\ FirstPrepIsAlone'
    <2>1. RetryPrep(w) /\ prep' = prep /\ prepSpent' = prepSpent /\ prepLedger' = prepLedger
      BY <1>7 DEF StopPrep
    <2>2. CASE prepRun[w].pc = "request"
      BY <2>1, <2>2, <1>t, RetryMoves, PrepAnswers
    <2>3. CASE prepRun[w].pc # "request"
      BY <2>1, <2>3, <1>t, RetryMoves, PrepPasses
    <2> QED
      BY <2>2, <2>3
  <1> QED
    BY <1>1, <1>2, <1>3, <1>4, <1>5, <1>6, <1>7 DEF PrepNext

\* The requests of one paid analysis stay within its budget, whatever ledgers are lost and
\* whatever runs outlive their leases.
THEOREM PreparationsStayWithinBudget == PrepSpec => []PreparationSpendIsBounded
  <1>1. PrepInit => PrepInv
    <2> SUFFICES ASSUME PrepInit PROVE PrepInv
      OBVIOUS
    <2>1. PrepTypeOK
      <3>1. 0 \in 0..PrepTries /\ 0 \in 0..PrepBudget
        BY PrepAssumption
      <3>2. prep \in PrepRows /\ prepLedger \in PrepLedgers
        BY <3>1 DEF PrepInit, PrepRows, PrepLedgers
      <3>3. IdlePrep \in PrepRuns
        BY <3>1 DEF IdlePrep, PrepRuns, PrepPcs
      <3> QED
        BY <3>2, <3>3 DEF PrepInit, PrepTypeOK
    <2>2. \A w \in Preparers : prepRun[w].pc = "idle"
      BY DEF PrepInit, IdlePrep
    <2>3. Requesting = {} /\ Untouched
      BY <2>2 DEF PrepInit, Requesting, Untouched
    <2>4. IsFiniteSet(Requesting) /\ Cardinality(Requesting) = 0
      BY <2>3, FS_EmptySet
    <2>5. PrepWithinBudget
      BY <2>3, <2>4, PrepAssumption DEF PrepWithinBudget, Untouched
    <2>6. FirstPrepIsAlone
      BY <2>2, <2>3 DEF FirstPrepIsAlone, Fresh
    <2> QED
      BY <2>1, <2>5, <2>6 DEF PrepInv
  <1>2. PrepInv => PreparationSpendIsBounded
    <2> SUFFICES ASSUME PrepInv PROVE prepSpent <= PrepBudget
      BY DEF PreparationSpendIsBounded
    <2>1. Cardinality(Requesting) \in Nat /\ prepSpent \in Nat /\ prepSpent + Cardinality(Requesting) <= PrepBudget
      BY FS_CardinalityType, PrepFields DEF PrepInv, PrepWithinBudget
    <2> QED
      BY <2>1, PrepAssumption
  <1> QED
    BY <1>1, <1>2, PrepStays, PTL DEF PrepSpec

-----------------------------------------------------------------------------
(* The discovery of a first service.  Its ledger is made anew only by the     *)
(* first attempt of the row.                                                  *)

\* Executions that have claimed a request and not made it yet.
Asking == {w \in Discoverers : serviceRun[w].pc = "request"}

\* An execution that may make the ledger.
First(w) == serviceRun[w].pc = "ensure" /\ serviceRun[w].lease <= 1

\* Nothing was claimed and no execution is past the ledger.
Unused ==
    /\ ~serviceLedger.exists /\ serviceSpent = 0
    /\ \A w \in Discoverers : serviceRun[w].pc \in {"idle", "ensure"}

ServiceWithinBudget ==
    /\ IsFiniteSet(Asking)
    /\ serviceSpent + Cardinality(Asking) <= ServiceBudget
    /\ serviceLedger.exists => serviceSpent + Cardinality(Asking) <= serviceLedger.claims

FirstWorkIsAlone ==
    /\ work.tries = 0 => Unused /\ \A w \in Discoverers : serviceRun[w].pc # "ensure"
    /\ \A w \in Discoverers : First(w) => Unused /\ \A v \in Discoverers : First(v) => v = w

ServiceInv == ServiceTypeOK /\ ServiceWithinBudget /\ FirstWorkIsAlone

\* The fields of the row, the ledger and an execution have their types.
LEMMA ServiceFields ==
    ASSUME ServiceTypeOK
    PROVE  /\ work.tries \in 0..ServiceTries /\ work.tries \in Nat /\ work.lease \in 0..ServiceTries
           /\ found.tries \in Nat
           /\ serviceLedger.exists \in BOOLEAN /\ serviceLedger.claims \in 0..ServiceBudget /\ serviceLedger.claims \in Nat
           /\ serviceSpent \in Nat
           /\ \A w \in Discoverers : /\ serviceRun[w] \in ServiceRuns /\ serviceRun[w].pc \in ServicePcs
                                     /\ serviceRun[w].lease \in 0..ServiceTries /\ serviceRun[w].lease \in Nat
  <1>1. /\ work \in WorkRows /\ found \in Discoveries /\ serviceLedger \in ServiceLedgers
        /\ serviceRun \in [Discoverers -> ServiceRuns] /\ serviceSpent \in Nat
    BY DEF ServiceTypeOK
  <1>2. work.tries \in 0..ServiceTries /\ work.lease \in 0..ServiceTries /\ found.tries \in Nat
    BY <1>1 DEF WorkRows, Discoveries
  <1>3. serviceLedger.exists \in BOOLEAN /\ serviceLedger.claims \in 0..ServiceBudget
    BY <1>1 DEF ServiceLedgers
  <1>4. work.tries \in Nat /\ serviceLedger.claims \in Nat
    BY <1>2, <1>3, ServiceAssumption
  <1>5. \A w \in Discoverers : serviceRun[w] \in ServiceRuns
    BY <1>1
  <1>6. \A w \in Discoverers : serviceRun[w].pc \in ServicePcs /\ serviceRun[w].lease \in 0..ServiceTries
    BY <1>5 DEF ServiceRuns
  <1>7. \A w \in Discoverers : serviceRun[w].lease \in Nat
    BY <1>6, ServiceAssumption
  <1> QED
    BY <1>1, <1>2, <1>3, <1>4, <1>5, <1>6, <1>7

\* One execution moves and the others stay.
Steps(w, x) == x \in ServiceRuns /\ serviceRun' = [serviceRun EXCEPT ![w] = x]

\* What a move does to the executions and to the requests under way.
LEMMA StepsOne ==
    ASSUME ServiceTypeOK, NEW w \in Discoverers, NEW x, Steps(w, x)
    PROVE  /\ serviceRun' \in [Discoverers -> ServiceRuns]
           /\ serviceRun'[w] = x
           /\ \A v \in Discoverers : v # w => serviceRun'[v] = serviceRun[v]
           /\ Asking' = IF x.pc = "request" THEN Asking \cup {w} ELSE Asking \ {w}
  <1>1. /\ serviceRun' \in [Discoverers -> ServiceRuns] /\ serviceRun'[w] = x
        /\ \A v \in Discoverers : v # w => serviceRun'[v] = serviceRun[v]
    BY DEF Steps, ServiceTypeOK
  <1>2. CASE x.pc = "request"
    BY <1>1, <1>2 DEF Asking
  <1>3. CASE x.pc # "request"
    BY <1>1, <1>3 DEF Asking
  <1> QED
    BY <1>1, <1>2, <1>3

\* The program counter of an execution alone is a move.
LEMMA ServiceGotoSteps ==
    ASSUME ServiceTypeOK, NEW w \in Discoverers, NEW pc \in ServicePcs, ServiceGoto(w, pc)
    PROVE  Steps(w, [serviceRun[w] EXCEPT !.pc = pc]) /\ [serviceRun[w] EXCEPT !.pc = pc].pc = pc
  <1>1. serviceRun[w] \in ServiceRuns /\ serviceRun \in [Discoverers -> ServiceRuns]
    BY ServiceFields DEF ServiceTypeOK
  <1>2. [serviceRun[w] EXCEPT !.pc = pc] \in ServiceRuns /\ [serviceRun[w] EXCEPT !.pc = pc].pc = pc
    BY <1>1 DEF ServiceRuns
  <1>3. serviceRun' = [serviceRun EXCEPT ![w] = [serviceRun[w] EXCEPT !.pc = pc]]
    BY <1>1 DEF ServiceGoto
  <1> QED
    BY <1>2, <1>3 DEF Steps

\* The finally block ends an execution; the row keeps its attempts.
LEMMA LeaveSteps ==
    ASSUME ServiceTypeOK, NEW w \in Discoverers, LeaveService(w)
    PROVE  /\ Steps(w, IdleService) /\ IdleService.pc = "idle"
           /\ work' \in WorkRows /\ work'.tries = work.tries
  <1>1. IdleService \in ServiceRuns
    BY ServiceAssumption DEF IdleService, ServiceRuns, ServicePcs
  <1>2. work \in WorkRows /\ work' \in {work, [work EXCEPT !.expired = TRUE]}
    BY DEF ServiceTypeOK, LeaveService, Released
  <1>3. work' \in WorkRows /\ work'.tries = work.tries
    BY <1>2 DEF WorkRows
  <1> QED
    BY <1>1, <1>3 DEF LeaveService, Steps, IdleService

\* The outcome that the row takes leaves its attempts.
LEMMA OutcomeKeepsTries ==
    ASSUME ServiceTypeOK, RecordOutcome
    PROVE  work' \in WorkRows /\ work'.tries = work.tries
  <1>1. work \in WorkRows /\ work' \in {work, [work EXCEPT !.status = "failed"], [work EXCEPT !.status = "recorded"]}
    BY DEF ServiceTypeOK, RecordOutcome
  <1> QED
    BY <1>1 DEF WorkRows

\* An execution moves by its program counter, leaves, or is given a record of its type.
LEMMA RunsTyped ==
    ASSUME ServiceTypeOK, NEW w \in Discoverers,
           \/ serviceRun' = serviceRun
           \/ LeaveService(w)
           \/ \E pc \in ServicePcs : ServiceGoto(w, pc)
           \/ \E x \in ServiceRuns : serviceRun' = [serviceRun EXCEPT ![w] = x]
    PROVE  serviceRun' \in [Discoverers -> ServiceRuns]
  <1>1. CASE serviceRun' = serviceRun
    BY <1>1 DEF ServiceTypeOK
  <1>2. CASE LeaveService(w)
    BY <1>2, LeaveSteps, StepsOne
  <1>3. ASSUME NEW pc \in ServicePcs, ServiceGoto(w, pc) PROVE serviceRun' \in [Discoverers -> ServiceRuns]
    BY <1>3, ServiceGotoSteps, StepsOne
  <1>4. ASSUME NEW x \in ServiceRuns, serviceRun' = [serviceRun EXCEPT ![w] = x]
        PROVE  serviceRun' \in [Discoverers -> ServiceRuns]
    BY <1>4 DEF ServiceTypeOK
  <1> QED
    BY <1>1, <1>2, <1>3, <1>4

\* The record of an execution that has the ledger, with the attempts that are left.
LEMMA EnsuredRun ==
    ASSUME ServiceTypeOK, NEW w \in Discoverers,
           serviceRun' = [serviceRun EXCEPT ![w].pc = "lease", ![w].most = found.tries + ServiceTries + 1 - serviceRun[w].lease]
    PROVE  \E x : Steps(w, x) /\ x.pc = "lease"
  <1> DEFINE n == found.tries + ServiceTries + 1 - serviceRun[w].lease
             x == [serviceRun[w] EXCEPT !.pc = "lease", !.most = n]
  <1>1. serviceRun[w] \in ServiceRuns /\ serviceRun \in [Discoverers -> ServiceRuns]
    BY ServiceFields DEF ServiceTypeOK
  <1>2. n \in Nat
    BY ServiceFields, ServiceAssumption
  <1> HIDE DEF n
  <1>3. x \in ServiceRuns /\ x.pc = "lease"
    BY <1>1, <1>2 DEF ServiceRuns, ServicePcs
  <1>4. serviceRun' = [serviceRun EXCEPT ![w] = x]
    BY <1>1 DEF n
  <1> QED
    BY <1>3, <1>4 DEF Steps

\* The record of an execution that was given an attempt.
LEMMA ClaimedRun ==
    ASSUME ServiceTypeOK, NEW w \in Discoverers, work.tries < ServiceTries,
           serviceRun' = [serviceRun EXCEPT ![w] = [pc |-> "ensure", lease |-> work.tries + 1, most |-> 0]]
    PROVE  \E x : Steps(w, x) /\ x.pc = "ensure" /\ x.lease = work.tries + 1
  <1>1. work.tries + 1 \in 0..ServiceTries
    BY ServiceFields, ServiceAssumption
  <1>2. [pc |-> "ensure", lease |-> work.tries + 1, most |-> 0] \in ServiceRuns
    BY <1>1 DEF ServiceRuns, ServicePcs
  <1>3. Steps(w, [pc |-> "ensure", lease |-> work.tries + 1, most |-> 0])
    BY <1>2 DEF Steps
  <1> QED
    BY <1>3

\* Every step of a discovery keeps the types, and only a claim counts an attempt.
LEMMA ServiceKeepsTypes ==
    ASSUME ServiceTypeOK, [ServiceNext]_serviceVars
    PROVE  ServiceTypeOK' /\ ((\A w \in Discoverers : ~ClaimWork(w)) => work'.tries = work.tries)
  <1> DEFINE WorkRow == work' \in WorkRows /\ work'.tries = work.tries
             Rest == /\ found' \in Discoveries /\ serviceLedger' \in ServiceLedgers
                     /\ serviceQueue' \subseteq 1..ServiceTries /\ serviceSpent' \in Nat
             Runs == serviceRun' \in [Discoverers -> ServiceRuns]
  <1>a. /\ work \in WorkRows /\ found \in Discoveries /\ serviceLedger \in ServiceLedgers
        /\ serviceRun \in [Discoverers -> ServiceRuns] /\ serviceQueue \subseteq 1..ServiceTries /\ serviceSpent \in Nat
    BY DEF ServiceTypeOK
  <1>b. [work EXCEPT !.status = "pending"] \in WorkRows /\ [work EXCEPT !.status = "pending"].tries = work.tries
        /\ [work EXCEPT !.status = "expired"] \in WorkRows /\ [work EXCEPT !.status = "expired"].tries = work.tries
        /\ [work EXCEPT !.dispatched = TRUE] \in WorkRows /\ [work EXCEPT !.dispatched = TRUE].tries = work.tries
        /\ [work EXCEPT !.expired = TRUE] \in WorkRows /\ [work EXCEPT !.expired = TRUE].tries = work.tries
    BY <1>a DEF WorkRows
  <1>c. 0 \in 0..ServiceBudget
    BY ServiceAssumption
  <1>1. CASE ReserveService \/ WorkLeaseExpires \/ LoseServiceState \/ LoseServiceLedger \/ ExpireWork
    <2>1. WorkRow /\ Runs
      BY <1>1, <1>a, <1>b DEF ReserveService, WorkLeaseExpires, LoseServiceState, LoseServiceLedger, ExpireWork
    <2>2. found' \in Discoveries
      <3>1. found' \in {found, NoDiscovery}
        BY <1>1 DEF ReserveService, WorkLeaseExpires, LoseServiceState, LoseServiceLedger, ExpireWork
      <3> QED
        BY <3>1, <1>a DEF Discoveries, NoDiscovery
    <2>3. serviceLedger' \in ServiceLedgers
      <3>1. serviceLedger' = serviceLedger \/ serviceLedger' = [exists |-> FALSE, claims |-> 0]
        BY <1>1 DEF ReserveService, WorkLeaseExpires, LoseServiceState, LoseServiceLedger, ExpireWork
      <3>2. [exists |-> FALSE, claims |-> 0] \in ServiceLedgers
        BY <1>c DEF ServiceLedgers
      <3> QED
        BY <3>1, <3>2, <1>a
    <2>4. serviceQueue' = serviceQueue /\ serviceSpent' = serviceSpent
      BY <1>1 DEF ReserveService, WorkLeaseExpires, LoseServiceState, LoseServiceLedger, ExpireWork
    <2> QED
      BY <2>1, <2>2, <2>3, <2>4, <1>a DEF ServiceTypeOK
  <1>2. CASE ReconcileService
    <2>1. Runs /\ serviceLedger' = serviceLedger /\ serviceSpent' = serviceSpent
      BY <1>2, <1>a DEF ReconcileService
    <2>2. WorkRow
      BY <1>2, <1>a, <1>b, OutcomeKeepsTries DEF ReconcileService
    <2>3. found' \in Discoveries
      <3>1. found' \in {found, [status |-> "queued", tries |-> 0]}
        BY <1>2 DEF ReconcileService
      <3> QED
        BY <3>1, <1>a DEF Discoveries
    <2>4. serviceQueue' \subseteq 1..ServiceTries
      <3>1. \/ serviceQueue' = serviceQueue
            \/ serviceQueue' = serviceQueue \cup {1}
            \/ work.tries < ServiceTries /\ serviceQueue' = serviceQueue \cup {work.tries + 1}
        BY <1>2 DEF ReconcileService
      <3>2. 1 \in 1..ServiceTries /\ (work.tries < ServiceTries => work.tries + 1 \in 1..ServiceTries)
        BY ServiceFields, ServiceAssumption
      <3> QED
        BY <3>1, <3>2, <1>a
    <2> QED
      BY <2>1, <2>2, <2>3, <2>4, <1>a DEF ServiceTypeOK
  <1>3. ASSUME NEW w \in Discoverers, ClaimWork(w) PROVE ServiceTypeOK'
    <2>1. Rest
      BY <1>3, <1>a DEF ClaimWork
    <2>2. CASE work' = work /\ serviceRun' = serviceRun
      BY <2>1, <2>2, <1>a DEF ServiceTypeOK
    <2>3. CASE /\ work.tries < ServiceTries
               /\ work' = [work EXCEPT !.tries = @ + 1, !.lease = work.tries + 1, !.expired = FALSE]
               /\ \/ serviceRun' = [serviceRun EXCEPT ![w] = [pc |-> "ensure", lease |-> work.tries + 1, most |-> 0]]
                  \/ UNCHANGED serviceRun
      <3>1. work.tries + 1 \in 0..ServiceTries
        BY <2>3, ServiceFields, ServiceAssumption
      <3>2. work' \in WorkRows
        BY <2>3, <3>1, <1>a DEF WorkRows
      <3>3. Runs
        BY <2>3, <1>a, ClaimedRun, StepsOne
      <3> QED
        BY <2>1, <3>2, <3>3 DEF ServiceTypeOK
    <2> QED
      BY <1>3, <2>2, <2>3 DEF ClaimWork
  <1>4. ASSUME NEW w \in Discoverers, EnsureWork(w) \/ CheckLease(w) \/ StartWork(w)
        PROVE  ServiceTypeOK' /\ work'.tries = work.tries
    <2>1. WorkRow
      <3>1. work' = work \/ LeaveService(w)
        BY <1>4 DEF EnsureWork, CheckLease, StartWork
      <3> QED
        BY <3>1, <1>a, LeaveSteps
    <2>2. Runs
      <3>1. \/ LeaveService(w)
            \/ \E pc \in ServicePcs : ServiceGoto(w, pc)
            \/ serviceRun' = [serviceRun EXCEPT ![w].pc = "lease", ![w].most = found.tries + ServiceTries + 1 - serviceRun[w].lease]
        BY <1>4 DEF EnsureWork, CheckLease, StartWork, ServicePcs
      <3> QED
        BY <3>1, RunsTyped, EnsuredRun, StepsOne
    <2>3. found' \in Discoveries
      <3>1. found' \in {found, [found EXCEPT !.status = "failed"], [status |-> "running", tries |-> found.tries + 1]}
        BY <1>4 DEF EnsureWork, CheckLease, StartWork
      <3> QED
        BY <3>1, <1>a DEF Discoveries
    <2>4. serviceLedger' \in ServiceLedgers
      <3>1. \/ serviceLedger' = serviceLedger
            \/ serviceLedger' = [serviceLedger EXCEPT !.exists = TRUE, !.claims = IF serviceLedger.exists THEN @ ELSE 0]
        BY <1>4 DEF EnsureWork, CheckLease, StartWork
      <3>2. \A n \in 0..ServiceBudget : [serviceLedger EXCEPT !.exists = TRUE, !.claims = n] \in ServiceLedgers
        BY <1>a DEF ServiceLedgers
      <3>3. (IF serviceLedger.exists THEN serviceLedger.claims ELSE 0) \in 0..ServiceBudget
        BY <1>a, <1>c DEF ServiceLedgers
      <3> QED
        BY <3>1, <3>2, <3>3, <1>a
    <2>5. serviceQueue' = serviceQueue /\ serviceSpent' = serviceSpent
      BY <1>4 DEF EnsureWork, CheckLease, StartWork
    <2> QED
      BY <2>1, <2>2, <2>3, <2>4, <2>5, <1>a DEF ServiceTypeOK
  <1>5. ASSUME NEW w \in Discoverers, ClaimWorkRequest(w) \/ MakeWorkRequest(w) \/ FinishWork(w) \/ StopWork(w)
        PROVE  ServiceTypeOK' /\ work'.tries = work.tries
    <2>1. WorkRow
      <3>1. work' = work \/ LeaveService(w) \/ RecordOutcome
        BY <1>5 DEF ClaimWorkRequest, MakeWorkRequest, FinishWork, StopWork
      <3> QED
        BY <3>1, <1>a, LeaveSteps, OutcomeKeepsTries
    <2>2. Runs
      <3>1. LeaveService(w) \/ \E pc \in ServicePcs : ServiceGoto(w, pc)
        BY <1>5 DEF ClaimWorkRequest, MakeWorkRequest, FinishWork, StopWork, ServicePcs
      <3> QED
        BY <3>1, RunsTyped
    <2>3. found' \in Discoveries
      <3>1. found' \in {found, [found EXCEPT !.status = "succeeded"], [found EXCEPT !.status = "failed"]}
        BY <1>5 DEF ClaimWorkRequest, MakeWorkRequest, FinishWork, StopWork
      <3> QED
        BY <3>1, <1>a DEF Discoveries
    <2>4. serviceLedger' \in ServiceLedgers
      <3>1. \/ serviceLedger' = serviceLedger
            \/ serviceLedger.claims < ServiceBudget /\ serviceLedger' = [serviceLedger EXCEPT !.claims = @ + 1]
        BY <1>5 DEF ClaimWorkRequest, MakeWorkRequest, FinishWork, StopWork
      <3>2. serviceLedger.claims < ServiceBudget => serviceLedger.claims + 1 \in 0..ServiceBudget
        BY ServiceFields, ServiceAssumption
      <3> QED
        BY <3>1, <3>2, <1>a DEF ServiceLedgers
    <2>5. serviceQueue' = serviceQueue /\ serviceSpent' \in {serviceSpent, serviceSpent + 1}
      BY <1>5 DEF ClaimWorkRequest, MakeWorkRequest, FinishWork, StopWork
    <2> QED
      BY <2>1, <2>2, <2>3, <2>4, <2>5, <1>a DEF ServiceTypeOK
  <1>6. CASE UNCHANGED serviceVars
    BY <1>6, <1>a DEF serviceVars, ServiceTypeOK
  <1>7. CASE \E w \in Discoverers : ClaimWork(w)
    BY <1>3, <1>7
  <1> QED
    BY <1>1, <1>2, <1>4, <1>5, <1>6, <1>7 DEF ServiceNext

\* A step in which no execution moves and at most the ledger gets lost.
LEMMA ServiceRests ==
    ASSUME ServiceInv, serviceRun' = serviceRun, serviceSpent' = serviceSpent,
           work'.tries = work.tries \/ work'.tries = work.tries + 1,
           serviceLedger' = serviceLedger \/ ~serviceLedger'.exists
    PROVE  ServiceWithinBudget' /\ FirstWorkIsAlone'
  <1>1. Asking' = Asking /\ (Unused => Unused') /\ \A w \in Discoverers : First(w)' = First(w)
    BY DEF Asking, Unused, First
  <1>2. ServiceWithinBudget'
    BY <1>1 DEF ServiceInv, ServiceWithinBudget
  <1>3. work.tries \in Nat
    BY ServiceFields DEF ServiceInv
  <1>4. work'.tries = 0 => work.tries = 0
    BY <1>3
  <1>5. FirstWorkIsAlone'
    BY <1>1, <1>4 DEF ServiceInv, FirstWorkIsAlone
  <1> QED
    BY <1>2, <1>5

\* An execution that has no request under way moves on and touches neither ledger nor
\* provider (check the lease, start, finish, leave).
LEMMA ServicePasses ==
    ASSUME ServiceInv, NEW w \in Discoverers, NEW x, Steps(w, x),
           serviceRun[w].pc # "request", x.pc \notin {"request", "ensure"},
           x.pc = "idle" \/ serviceRun[w].pc \notin {"idle", "ensure"},
           serviceSpent' = serviceSpent, serviceLedger' = serviceLedger, work'.tries = work.tries
    PROVE  ServiceWithinBudget' /\ FirstWorkIsAlone'
  <1>1. /\ serviceRun'[w] = x /\ \A v \in Discoverers : v # w => serviceRun'[v] = serviceRun[v]
        /\ Asking' = Asking \ {w} /\ w \notin Asking
    BY StepsOne DEF ServiceInv, Asking
  <1>2. Asking' = Asking
    BY <1>1
  <1>3. ServiceWithinBudget'
    BY <1>2 DEF ServiceInv, ServiceWithinBudget
  <1>4. Unused => Unused'
    BY <1>1 DEF Unused
  <1>5. \A v \in Discoverers : First(v)' => First(v) /\ v # w
    BY <1>1 DEF First
  <1>6. work'.tries = 0 => Unused' /\ \A v \in Discoverers : serviceRun'[v].pc # "ensure"
    BY <1>1, <1>4 DEF ServiceInv, FirstWorkIsAlone
  <1>7. \A v \in Discoverers : First(v)' => Unused' /\ \A u \in Discoverers : First(u)' => u = v
    BY <1>4, <1>5 DEF ServiceInv, FirstWorkIsAlone
  <1> QED
    BY <1>3, <1>6, <1>7 DEF FirstWorkIsAlone

\* An execution leaves its request, which was made or not.
LEMMA ServiceAnswers ==
    ASSUME ServiceInv, NEW w \in Discoverers, NEW x, Steps(w, x),
           serviceRun[w].pc = "request", x.pc \notin {"request", "ensure"},
           serviceSpent' = serviceSpent \/ serviceSpent' = serviceSpent + 1,
           serviceLedger' = serviceLedger, work'.tries = work.tries
    PROVE  ServiceWithinBudget' /\ FirstWorkIsAlone'
  <1>1. /\ serviceRun'[w] = x /\ \A v \in Discoverers : v # w => serviceRun'[v] = serviceRun[v]
        /\ Asking' = Asking \ {w} /\ w \in Asking
    BY StepsOne DEF ServiceInv, Asking
  <1>2. IsFiniteSet(Asking') /\ Cardinality(Asking') = Cardinality(Asking) - 1
    BY <1>1, FS_RemoveElement DEF ServiceInv, ServiceWithinBudget
  <1>3. Cardinality(Asking) \in Nat /\ serviceSpent \in Nat /\ serviceLedger.claims \in Nat
    BY FS_CardinalityType, ServiceFields DEF ServiceInv, ServiceWithinBudget
  <1>4. serviceSpent' + Cardinality(Asking') <= serviceSpent + Cardinality(Asking)
    BY <1>2, <1>3
  <1>5. serviceSpent' + Cardinality(Asking') \in Int
    BY <1>2, <1>3
  <1>6. ServiceWithinBudget'
    BY <1>2, <1>3, <1>4, <1>5, ServiceAssumption DEF ServiceInv, ServiceWithinBudget
  <1>7. ~Unused
    BY DEF Unused
  <1>8. work.tries # 0 /\ \A v \in Discoverers : ~First(v)
    BY <1>7 DEF ServiceInv, FirstWorkIsAlone
  <1>9. \A v \in Discoverers : ~First(v)'
    BY <1>1, <1>8 DEF First
  <1> QED
    BY <1>6, <1>8, <1>9 DEF FirstWorkIsAlone

\* The claim of the row counts an attempt and gives it to an execution.
LEMMA ServiceBegins ==
    ASSUME ServiceInv, NEW w \in Discoverers, NEW x, Steps(w, x), serviceRun[w].pc = "idle",
           x.pc = "ensure", x.lease = work.tries + 1,
           serviceSpent' = serviceSpent, serviceLedger' = serviceLedger, work'.tries = work.tries + 1
    PROVE  ServiceWithinBudget' /\ FirstWorkIsAlone'
  <1>1. /\ serviceRun'[w] = x /\ \A v \in Discoverers : v # w => serviceRun'[v] = serviceRun[v]
        /\ Asking' = Asking \ {w} /\ w \notin Asking
    BY StepsOne DEF ServiceInv, Asking
  <1>2. Asking' = Asking
    BY <1>1
  <1>3. ServiceWithinBudget'
    BY <1>2 DEF ServiceInv, ServiceWithinBudget
  <1>4. Unused => Unused'
    BY <1>1 DEF Unused
  <1>5. work.tries \in Nat
    BY ServiceFields DEF ServiceInv
  <1>6. work'.tries # 0
    BY <1>5
  <1>7. CASE First(w)'
    <2>1. work.tries + 1 <= 1
      BY <1>1, <1>7 DEF First
    <2>2. work.tries = 0
      BY <1>5, <2>1
    <2>3. Unused /\ \A v \in Discoverers : serviceRun[v].pc # "ensure"
      BY <2>2 DEF ServiceInv, FirstWorkIsAlone
    <2>4. Unused' /\ \A v \in Discoverers : First(v)' => v = w
      BY <1>1, <1>4, <2>3 DEF First
    <2> QED
      BY <1>3, <1>6, <2>4 DEF FirstWorkIsAlone
  <1>8. CASE ~First(w)'
    <2>1. \A v \in Discoverers : First(v)' => First(v)
      BY <1>1, <1>8 DEF First
    <2>2. \A v \in Discoverers : First(v)' => Unused' /\ \A u \in Discoverers : First(u)' => u = v
      BY <2>1, <1>4 DEF ServiceInv, FirstWorkIsAlone
    <2> QED
      BY <1>3, <1>6, <2>2 DEF FirstWorkIsAlone
  <1> QED
    BY <1>7, <1>8

\* ledger.ensure: a ledger that exists is kept, a missing one is made by a first attempt only.
LEMMA ServiceEnsures ==
    ASSUME ServiceInv, NEW w \in Discoverers, NEW x, Steps(w, x),
           serviceRun[w].pc = "ensure", x.pc = "lease", serviceLedger.exists \/ ~(serviceRun[w].lease > 1),
           serviceLedger' = [serviceLedger EXCEPT !.exists = TRUE, !.claims = IF serviceLedger.exists THEN @ ELSE 0],
           serviceSpent' = serviceSpent, work'.tries = work.tries
    PROVE  ServiceWithinBudget' /\ FirstWorkIsAlone'
  <1>1. /\ serviceRun'[w] = x /\ \A v \in Discoverers : v # w => serviceRun'[v] = serviceRun[v]
        /\ Asking' = Asking \ {w} /\ w \notin Asking
    BY StepsOne DEF ServiceInv, Asking
  <1>2. Asking' = Asking
    BY <1>1
  <1>3. work.tries # 0
    BY DEF ServiceInv, FirstWorkIsAlone
  <1>4. serviceLedger'.claims = IF serviceLedger.exists THEN serviceLedger.claims ELSE 0
    BY DEF ServiceInv, ServiceTypeOK, ServiceLedgers
  <1>5. serviceRun[w].lease \in Nat
    BY ServiceFields DEF ServiceInv
  <1>6. ~serviceLedger.exists => First(w)
    BY <1>5 DEF First
  <1>7. \A v \in Discoverers : ~First(v)'
    <2>1. SUFFICES ASSUME NEW v \in Discoverers, First(v)' PROVE FALSE
      OBVIOUS
    <2>2. v # w /\ First(v)
      BY <1>1, <2>1 DEF First
    <2>3. Unused /\ ~First(w)
      BY <2>2 DEF ServiceInv, FirstWorkIsAlone
    <2> QED
      BY <2>3, <1>6 DEF Unused
  <1>8. ServiceWithinBudget'
    <2>1. CASE serviceLedger.exists
      BY <2>1, <1>2, <1>4 DEF ServiceInv, ServiceWithinBudget
    <2>2. CASE ~serviceLedger.exists
      <3>1. Unused
        BY <2>2, <1>6 DEF ServiceInv, FirstWorkIsAlone
      <3>2. serviceSpent = 0 /\ Asking = {}
        BY <3>1 DEF Unused, Asking
      <3>3. Cardinality(Asking) = 0
        BY <3>2, FS_EmptySet
      <3> QED
        BY <2>2, <3>2, <3>3, <1>2, <1>4 DEF ServiceInv, ServiceWithinBudget
    <2> QED
      BY <2>1, <2>2
  <1> QED
    BY <1>3, <1>7, <1>8 DEF FirstWorkIsAlone

\* A request is claimed within the ledger.
LEMMA ServiceClaims ==
    ASSUME ServiceInv, NEW w \in Discoverers, NEW x, Steps(w, x),
           serviceRun[w].pc = "collect", x.pc = "request",
           serviceLedger.exists, serviceLedger.claims < ServiceBudget,
           serviceLedger' = [serviceLedger EXCEPT !.claims = @ + 1],
           serviceSpent' = serviceSpent, work'.tries = work.tries
    PROVE  ServiceWithinBudget' /\ FirstWorkIsAlone'
  <1>1. /\ serviceRun'[w] = x /\ \A v \in Discoverers : v # w => serviceRun'[v] = serviceRun[v]
        /\ Asking' = Asking \cup {w} /\ w \notin Asking
    BY StepsOne DEF ServiceInv, Asking
  <1>2. IsFiniteSet(Asking') /\ Cardinality(Asking') = Cardinality(Asking) + 1
    BY <1>1, FS_AddElement DEF ServiceInv, ServiceWithinBudget
  <1>3. Cardinality(Asking) \in Nat /\ serviceSpent \in Nat /\ serviceLedger.claims \in Nat
    BY FS_CardinalityType, ServiceFields DEF ServiceInv, ServiceWithinBudget
  <1>4. serviceLedger'.claims = serviceLedger.claims + 1
    BY DEF ServiceInv, ServiceTypeOK, ServiceLedgers
  <1>5. serviceSpent + Cardinality(Asking) <= serviceLedger.claims
    BY DEF ServiceInv, ServiceWithinBudget
  <1>6. ServiceWithinBudget'
    BY <1>2, <1>3, <1>4, <1>5, ServiceAssumption DEF ServiceWithinBudget
  <1>7. ~Unused
    BY DEF Unused
  <1>8. work.tries # 0 /\ \A v \in Discoverers : ~First(v)
    BY <1>7 DEF ServiceInv, FirstWorkIsAlone
  <1>9. \A v \in Discoverers : ~First(v)'
    BY <1>1, <1>8 DEF First
  <1> QED
    BY <1>6, <1>8, <1>9 DEF FirstWorkIsAlone

\* Every step keeps the invariant.
LEMMA ServiceStays == ServiceInv /\ [ServiceNext]_serviceVars => ServiceInv'
  <1> SUFFICES ASSUME ServiceInv, [ServiceNext]_serviceVars PROVE ServiceWithinBudget' /\ FirstWorkIsAlone'
    BY ServiceKeepsTypes DEF ServiceInv
  <1>t. ServiceTypeOK /\ work \in WorkRows
    BY DEF ServiceInv, ServiceTypeOK
  <1>1. CASE ReserveService \/ WorkLeaseExpires \/ LoseServiceState \/ LoseServiceLedger \/ ExpireWork
             \/ ReconcileService \/ UNCHANGED serviceVars
    <2>1. work'.tries = work.tries
      <3>1. RecordOutcome \/ work' \in {work, [work EXCEPT !.status = "pending"], [work EXCEPT !.status = "expired"],
                                        [work EXCEPT !.dispatched = TRUE], [work EXCEPT !.expired = TRUE]}
        BY <1>1 DEF ReserveService, WorkLeaseExpires, LoseServiceState, LoseServiceLedger, ExpireWork,
                    ReconcileService, serviceVars
      <3> QED
        BY <3>1, <1>t, OutcomeKeepsTries DEF WorkRows
    <2>2. serviceRun' = serviceRun /\ serviceSpent' = serviceSpent
      BY <1>1 DEF ReserveService, WorkLeaseExpires, LoseServiceState, LoseServiceLedger, ExpireWork,
                  ReconcileService, serviceVars
    <2>3. serviceLedger' \in {serviceLedger, [exists |-> FALSE, claims |-> 0]}
      BY <1>1 DEF ReserveService, WorkLeaseExpires, LoseServiceState, LoseServiceLedger, ExpireWork,
                  ReconcileService, serviceVars
    <2>4. serviceLedger' = serviceLedger \/ ~serviceLedger'.exists
      BY <2>3
    <2> QED
      BY <2>1, <2>2, <2>4, ServiceRests
  <1>2. ASSUME NEW w \in Discoverers, ClaimWork(w) PROVE ServiceWithinBudget' /\ FirstWorkIsAlone'
    <2>1. serviceRun[w].pc = "idle" /\ serviceLedger' = serviceLedger /\ serviceSpent' = serviceSpent
      BY <1>2 DEF ClaimWork
    <2>2. CASE work' = work /\ serviceRun' = serviceRun
      BY <2>1, <2>2, ServiceRests
    <2>3. CASE /\ work.tries < ServiceTries
               /\ work' = [work EXCEPT !.tries = @ + 1, !.lease = work.tries + 1, !.expired = FALSE]
               /\ \/ serviceRun' = [serviceRun EXCEPT ![w] = [pc |-> "ensure", lease |-> work.tries + 1, most |-> 0]]
                  \/ UNCHANGED serviceRun
      <3>1. work'.tries = work.tries + 1
        BY <2>3, <1>t DEF WorkRows
      <3>2. CASE UNCHANGED serviceRun
        BY <2>1, <3>1, <3>2, ServiceRests
      <3>3. CASE serviceRun' = [serviceRun EXCEPT ![w] = [pc |-> "ensure", lease |-> work.tries + 1, most |-> 0]]
        <4>1. PICK x : Steps(w, x) /\ x.pc = "ensure" /\ x.lease = work.tries + 1
          BY <2>3, <3>3, <1>t, ClaimedRun
        <4> QED
          BY <2>1, <3>1, <4>1, ServiceBegins
      <3> QED
        BY <2>3, <3>2, <3>3
    <2> QED
      BY <1>2, <2>2, <2>3 DEF ClaimWork
  <1>3. ASSUME NEW w \in Discoverers, EnsureWork(w) PROVE ServiceWithinBudget' /\ FirstWorkIsAlone'
    <2>1. serviceRun[w].pc = "ensure" /\ serviceSpent' = serviceSpent
      BY <1>3 DEF EnsureWork
    <2>2. CASE LeaveService(w) /\ serviceLedger' = serviceLedger
      BY <2>1, <2>2, <1>t, LeaveSteps, ServicePasses
    <2>3. CASE /\ serviceLedger.exists \/ ~(serviceRun[w].lease > 1)
               /\ serviceLedger' = [serviceLedger EXCEPT !.exists = TRUE, !.claims = IF serviceLedger.exists THEN @ ELSE 0]
               /\ serviceRun' = [serviceRun EXCEPT ![w].pc = "lease",
                                                   ![w].most = found.tries + ServiceTries + 1 - serviceRun[w].lease]
               /\ work' = work
      <3>1. PICK x : Steps(w, x) /\ x.pc = "lease"
        BY <2>3, <1>t, EnsuredRun
      <3> QED
        BY <2>1, <2>3, <3>1, ServiceEnsures
    <2> QED
      BY <1>3, <2>2, <2>3 DEF EnsureWork
  <1>4. ASSUME NEW w \in Discoverers, LeaveService(w), serviceSpent' = serviceSpent, serviceLedger' = serviceLedger
        PROVE  ServiceWithinBudget' /\ FirstWorkIsAlone'
    <2>1. CASE serviceRun[w].pc = "request"
      BY <1>4, <2>1, <1>t, LeaveSteps, ServiceAnswers
    <2>2. CASE serviceRun[w].pc # "request"
      BY <1>4, <2>2, <1>t, LeaveSteps, ServicePasses
    <2> QED
      BY <2>1, <2>2
  <1>5. ASSUME NEW w \in Discoverers, CheckLease(w) \/ StartWork(w) \/ FinishWork(w)
        PROVE  ServiceWithinBudget' /\ FirstWorkIsAlone'
    <2>1. /\ serviceRun[w].pc \in {"lease", "run", "finish"}
          /\ serviceSpent' = serviceSpent /\ serviceLedger' = serviceLedger
      BY <1>5 DEF CheckLease, StartWork, FinishWork
    <2>2. ASSUME NEW pc \in {"run", "finish", "collect", "idle"}, ServiceGoto(w, pc), work' = work \/ RecordOutcome
          PROVE  ServiceWithinBudget' /\ FirstWorkIsAlone'
      <3>1. Steps(w, [serviceRun[w] EXCEPT !.pc = pc]) /\ [serviceRun[w] EXCEPT !.pc = pc].pc = pc
        BY <2>2, <1>t, ServiceGotoSteps, ZenonT(60) DEF ServicePcs
      <3>2. work'.tries = work.tries
        BY <2>2, <1>t, OutcomeKeepsTries
      <3> QED
        BY <2>1, <2>2, <3>1, <3>2, ServicePasses
    <2> QED
      BY <1>4, <1>5, <2>1, <2>2 DEF CheckLease, StartWork, FinishWork
  <1>6. ASSUME NEW w \in Discoverers, ClaimWorkRequest(w) PROVE ServiceWithinBudget' /\ FirstWorkIsAlone'
    <2>1. serviceRun[w].pc = "collect" /\ serviceSpent' = serviceSpent
      BY <1>6 DEF ClaimWorkRequest
    <2>2. CASE LeaveService(w) /\ serviceLedger' = serviceLedger
      BY <2>1, <2>2, <1>4
    <2>3. CASE /\ serviceLedger.exists /\ serviceLedger.claims < ServiceBudget
               /\ serviceLedger' = [serviceLedger EXCEPT !.claims = @ + 1]
               /\ ServiceGoto(w, "request") /\ work' = work
      <3>1. Steps(w, [serviceRun[w] EXCEPT !.pc = "request"]) /\ [serviceRun[w] EXCEPT !.pc = "request"].pc = "request"
        BY <2>3, <1>t, ServiceGotoSteps DEF ServicePcs
      <3> QED
        BY <2>1, <2>3, <3>1, ServiceClaims
    <2> QED
      BY <1>6, <2>2, <2>3 DEF ClaimWorkRequest
  <1>7. ASSUME NEW w \in Discoverers, MakeWorkRequest(w) PROVE ServiceWithinBudget' /\ FirstWorkIsAlone'
    <2>1. serviceRun[w].pc = "request" /\ serviceSpent' = serviceSpent + 1 /\ serviceLedger' = serviceLedger
      BY <1>7 DEF MakeWorkRequest
    <2>2. CASE LeaveService(w)
      BY <2>1, <2>2, <1>t, LeaveSteps, ServiceAnswers
    <2>3. ASSUME NEW pc \in {"collect", "finish"}, ServiceGoto(w, pc), work' = work
          PROVE  ServiceWithinBudget' /\ FirstWorkIsAlone'
      <3>1. Steps(w, [serviceRun[w] EXCEPT !.pc = pc]) /\ [serviceRun[w] EXCEPT !.pc = pc].pc = pc
        BY <2>3, <1>t, ServiceGotoSteps DEF ServicePcs
      <3> QED
        BY <2>1, <2>3, <3>1, ServiceAnswers
    <2> QED
      BY <1>7, <2>2, <2>3 DEF MakeWorkRequest
  <1>8. ASSUME NEW w \in Discoverers, StopWork(w) PROVE ServiceWithinBudget' /\ FirstWorkIsAlone'
    BY <1>4, <1>8 DEF StopWork
  <1> QED
    BY <1>1, <1>2, <1>3, <1>5, <1>6, <1>7, <1>8 DEF ServiceNext

\* Neither a lost state nor a lost ledger nor a takeover gives the discovery of a first
\* service a second budget.
THEOREM DiscoveriesStayWithinBudget == ServiceSpec => []DiscoverySpendIsBounded
  <1>1. ServiceInit => ServiceInv
    <2> SUFFICES ASSUME ServiceInit PROVE ServiceInv
      OBVIOUS
    <2>1. 0 \in 0..ServiceTries /\ 0 \in 0..ServiceBudget /\ 0 \in Nat
      BY ServiceAssumption
    <2>2. work \in WorkRows /\ found \in Discoveries /\ serviceLedger \in ServiceLedgers /\ IdleService \in ServiceRuns
      BY <2>1 DEF ServiceInit, WorkRows, Discoveries, NoDiscovery, ServiceLedgers, IdleService, ServiceRuns, ServicePcs
    <2>3. ServiceTypeOK
      BY <2>1, <2>2 DEF ServiceInit, ServiceTypeOK
    <2>4. \A w \in Discoverers : serviceRun[w].pc = "idle"
      BY DEF ServiceInit, IdleService
    <2>5. Asking = {} /\ Unused
      BY <2>4 DEF ServiceInit, Asking, Unused
    <2>6. IsFiniteSet(Asking) /\ Cardinality(Asking) = 0
      BY <2>5, FS_EmptySet
    <2>7. ServiceWithinBudget
      BY <2>5, <2>6, ServiceAssumption DEF ServiceWithinBudget, Unused
    <2>8. FirstWorkIsAlone
      BY <2>4, <2>5 DEF FirstWorkIsAlone, First
    <2> QED
      BY <2>3, <2>7, <2>8 DEF ServiceInv
  <1>2. ServiceInv => DiscoverySpendIsBounded
    <2> SUFFICES ASSUME ServiceInv PROVE serviceSpent <= ServiceBudget
      BY DEF DiscoverySpendIsBounded
    <2>1. Cardinality(Asking) \in Nat /\ serviceSpent \in Nat /\ serviceSpent + Cardinality(Asking) <= ServiceBudget
      BY FS_CardinalityType, ServiceFields DEF ServiceInv, ServiceWithinBudget
    <2> QED
      BY <2>1, ServiceAssumption
  <1> QED
    BY <1>1, <1>2, ServiceStays, PTL DEF ServiceSpec

\* What the services spend is accounted for.
THEOREM SpendingStaysAccounted == PrepSpec /\ ServiceSpec => []SpendingIsAccounted
  BY PreparationsStayWithinBudget, DiscoveriesStayWithinBudget, PTL DEF SpendingIsAccounted

=============================================================================

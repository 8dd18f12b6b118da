---------------------------- MODULE MarketSnapshots ----------------------------
(***************************************************************************)
(* The market snapshot that discoveries of one market share                *)
(* (competitors_v22/market_store.py, discovery_service.py).  A discovery   *)
(* looks it up, collects the market if there is none, and saves what it    *)
(* collected unless another one was first.  Later the client confirms      *)
(* competitors of a discovery, which needs the very snapshot it was made   *)
(* from (selection.py).                                                    *)
(***************************************************************************)
EXTENDS Naturals

CONSTANTS
    Seekers,        \* discoveries of the same market
    MarketTTL,      \* V22_COMPETITOR_MARKET_TTL_SECONDS, in ticks
    MaxClock        \* bound on the clock

ASSUME MarketAssumption == MarketTTL \in Nat /\ MaxClock \in Nat

VARIABLES
    clock,
    market,         \* the key: [id, expires, gone]; id 0 when there is none
    seeker,         \* [Seekers -> record] a run of discover
    collected,      \* number of snapshots collected so far
    evictionRaced   \* history: a get deleted another snapshot than the one it had read

marketVars == <<clock, market, seeker, collected, evictionRaced>>

NoMarket == [id |-> 0, expires |-> 0, gone |-> 0]
NewSeeker == [pc |-> "idle", now |-> 0, read |-> 0, own |-> 0, result |-> NoMarket]

MarketTypeOK ==
    /\ clock \in 0..MaxClock
    /\ market.id \in 0..collected
    /\ collected \in 0..(3 * MaxClock)
    /\ \A s \in Seekers :
        /\ seeker[s].pc \in {"idle", "get", "evict", "collect", "saveget", "saveevict", "set",
                             "reread", "lastevict", "done", "failed"}
        /\ seeker[s].result.id \in 0..collected

MarketInit ==
    /\ clock = 0 /\ market = NoMarket /\ collected = 0 /\ evictionRaced = FALSE
    /\ seeker = [s \in Seekers |-> NewSeeker]

-----------------------------------------------------------------------------
SeekerGoes(s, pc) == seeker' = [seeker EXCEPT ![s].pc = pc]
SeekerHas(s, snapshot) == seeker' = [seeker EXCEPT ![s].pc = "done", ![s].result = snapshot]

\* discover reads the clock once, at its start.
BeginDiscover(s) ==
    /\ seeker[s].pc \in {"idle", "done", "failed"}
    /\ seeker' = [seeker EXCEPT ![s] = [NewSeeker EXCEPT !.pc = "get", !.now = clock]]
    /\ UNCHANGED <<clock, market, collected, evictionRaced>>

\* SharedMarketSnapshotStore.get: a snapshot that is over by the caller's own time
\* is deleted by a second command, which does not compare.
LookUpMarket(s, missing, evict) ==
    /\ IF market.id = 0 THEN SeekerGoes(s, missing)
       ELSE IF market.expires > seeker[s].now THEN SeekerHas(s, market)
       ELSE seeker' = [seeker EXCEPT ![s].pc = evict, ![s].read = market.id]
    /\ UNCHANGED <<clock, market, collected, evictionRaced>>

DeleteMarket(s, next) ==
    /\ market' = NoMarket
    /\ evictionRaced' = (evictionRaced \/ market.id \notin {0, seeker[s].read})
    /\ SeekerGoes(s, next)
    /\ UNCHANGED <<clock, collected>>

GetMarket(s) == seeker[s].pc = "get" /\ LookUpMarket(s, "collect", "evict")
EvictMarket(s) == seeker[s].pc = "evict" /\ DeleteMarket(s, "collect")

\* The market stage: minutes of provider calls.
CollectMarket(s) ==
    /\ seeker[s].pc = "collect" /\ collected < 3 * MaxClock
    /\ collected' = collected + 1
    /\ seeker' = [seeker EXCEPT ![s].pc = "saveget", ![s].own = collected + 1]
    /\ UNCHANGED <<clock, market, evictionRaced>>

SaveGet(s) == seeker[s].pc = "saveget" /\ LookUpMarket(s, "set", "saveevict")
SaveEvict(s) == seeker[s].pc = "saveevict" /\ DeleteMarket(s, "set")

\* Mutant: SET without NX.
SetMarketAlways(s) ==
    LET mine == [id |-> seeker[s].own, expires |-> seeker[s].now + MarketTTL, gone |-> clock + MarketTTL]
    IN  /\ seeker[s].pc = "set"
        /\ market' = mine /\ SeekerHas(s, mine)
        /\ UNCHANGED <<clock, collected, evictionRaced>>

\* SET NX EX: the snapshot counts from the start of the run, the key from now.
SetMarket(s) ==
    LET mine == [id |-> seeker[s].own, expires |-> seeker[s].now + MarketTTL, gone |-> clock + MarketTTL]
    IN  /\ seeker[s].pc = "set"
        /\ IF market.id = 0 THEN market' = mine /\ SeekerHas(s, mine)
           ELSE UNCHANGED market /\ SeekerGoes(s, "reread")
        /\ UNCHANGED <<clock, collected, evictionRaced>>

\* Another run was first: its snapshot is the one, or the run fails.
Reread(s) == seeker[s].pc = "reread" /\ LookUpMarket(s, "failed", "lastevict")
LastEvict(s) == seeker[s].pc = "lastevict" /\ DeleteMarket(s, "failed")

MarketTick ==
    /\ clock < MaxClock
    /\ clock' = clock + 1
    /\ market' = IF market.id # 0 /\ market.gone <= clock + 1 THEN NoMarket ELSE market
    /\ UNCHANGED <<seeker, collected, evictionRaced>>

MarketNext ==
    \/ MarketTick
    \/ \E s \in Seekers :
        \/ BeginDiscover(s) \/ GetMarket(s) \/ EvictMarket(s) \/ CollectMarket(s)
        \/ SaveGet(s) \/ SaveEvict(s) \/ SetMarket(s) \/ Reread(s) \/ LastEvict(s)

MarketSpec == MarketInit /\ [][MarketNext]_marketVars

\* RedisDiscoveryVerifier.verify: the discovery has succeeded, it is not over, and
\* the snapshot under its digest is the one it was made from.
Verifies(s) ==
    /\ seeker[s].pc = "done"
    /\ seeker[s].result.expires > clock
    /\ market.expires > clock
    /\ market.id = seeker[s].result.id

-----------------------------------------------------------------------------
(* Properties *)

\* A discovery can be confirmed until it is over: runs of the same market that
\* start, expire and save beside it do not take its snapshot away, unless one of
\* them had read an expired snapshot and deleted the new one in its place.
ConfirmableUntilExpiry ==
    \A s \in Seekers :
        seeker[s].pc = "done" /\ seeker[s].result.expires > clock /\ ~evictionRaced => Verifies(s)
=============================================================================

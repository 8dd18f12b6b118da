---------------------------- MODULE CircuitBreaker ----------------------------
(***************************************************************************)
(* RedisCircuitBreaker: one circuit (a provider and an operation), shared  *)
(* by callers in several processes through three Redis keys.               *)
(*   - the circuit record, present while the circuit is open or half open, *)
(*     which expires Window after its cooldown;                            *)
(*   - the probe lease, claimed with SET NX and an expiry;                 *)
(*   - the failures of the last Window ticks.                              *)
(* Every await of before_call, record_success and record_failure is an     *)
(* action.  Times are what is left of them, so that nothing grows without  *)
(* bound; a Redis round trip takes less than a tick.  A call takes at most *)
(* CallLimit ticks, the caller's own timeout.                              *)
(***************************************************************************)
EXTENDS Naturals, Sequences, FiniteSets, Functions

CONSTANTS
    Callers,        \* calls that may be under way at a time
    Threshold,      \* failure_threshold
    Window,         \* window_seconds
    Cooldowns,      \* cooldown_seconds, one per consecutive opening
    ProbeTTL,       \* expiry of the probe lease
    CallLimit       \* the longest a call may take

ASSUME CircuitAssumption ==
    /\ Threshold \in Nat \ {0} /\ Window \in Nat \ {0}
    /\ Cooldowns \in Seq(Nat \ {0}) /\ Len(Cooldowns) > 0
    /\ ProbeTTL \in Nat \ {0} /\ CallLimit \in Nat

VARIABLES
    circuit,    \* the record: consecutive openings, time to open_until, time to expiry
    probe,      \* what is left of the probe lease; 0: nobody holds it
    failures,   \* recorded failures by age, up to Threshold of each age
    caller      \* the callers

vars == <<circuit, probe, failures, caller>>

Closed == [count |-> 0, left |-> 0, ttl |-> 0]
IsOpen == circuit.ttl > 0
Lesser(a, b) == IF a < b THEN a ELSE b
LongestCooldown == CHOOSE c \in {Cooldowns[i] : i \in DOMAIN Cooldowns} :
                       \A i \in DOMAIN Cooldowns : Cooldowns[i] <= c
Forgotten == LongestCooldown + Window

Idle == [pc |-> "idle", probe |-> FALSE, force |-> FALSE, age |-> 0, count |-> 0, seen |-> 0]
\* A job whose call was rejected, or whose process was lost, comes back a tick
\* later at the earliest (retry_delay_seconds, redelivery).
Away == [Idle EXCEPT !.pc = "away"]
InRedis == {"claim", "success", "ineligible", "failure", "immediate", "count", "current", "open", "unprobe"}
Caller == [pc : {"idle", "away", "calling"} \cup InRedis, probe : BOOLEAN, force : BOOLEAN, age : 0..CallLimit,
           count : 0..Threshold, seen : 0..Len(Cooldowns)]

Init ==
    /\ circuit = Closed /\ probe = 0
    /\ failures = [a \in 0..Window - 1 |-> 0]
    /\ caller = [c \in Callers |-> Idle]

At(c, pc) == caller[c].pc = pc
Go(c, new) == caller' = [caller EXCEPT ![c] = new]
Step(c, pc) == Go(c, [caller[c] EXCEPT !.pc = pc])

-----------------------------------------------------------------------------
\* Mutant: a rejected call keeps the circuit open for longer.
ReadCircuitSliding(c) ==
    /\ At(c, "idle")
    /\ \/ ~ IsOpen /\ Step(c, "calling") /\ UNCHANGED circuit
       \/ /\ IsOpen /\ Go(c, Away)
          /\ circuit' = [circuit EXCEPT !.left = Cooldowns[1], !.ttl = Cooldowns[1] + Window]
    /\ UNCHANGED <<probe, failures>>

\* before_call.  A closed circuit admits the call, an open one rejects it
\* until open_until; after that the caller asks for the probe lease.
ReadCircuit(c) ==
    /\ At(c, "idle")
    /\ \/ ~ IsOpen /\ Step(c, "calling")
       \/ IsOpen /\ circuit.left > 0 /\ Go(c, Away)
       \/ IsOpen /\ circuit.left = 0 /\ Step(c, "claim")
    /\ UNCHANGED <<circuit, probe, failures>>

ClaimProbe(c) ==
    /\ At(c, "claim")
    /\ \/ probe = 0 /\ probe' = ProbeTTL /\ Go(c, [caller[c] EXCEPT !.pc = "calling", !.probe = TRUE])
       \/ probe > 0 /\ UNCHANGED probe /\ Go(c, Away)
    /\ UNCHANGED <<circuit, failures>>

\* The call is over: it succeeded, or it failed in a way that counts, in one
\* that opens the circuit at once, or in one that is not the provider's fault.
CallEnds(c) ==
    /\ At(c, "calling")
    /\ \E outcome \in {"success", "failure", "immediate", "ineligible"} : Step(c, outcome)
    /\ UNCHANGED <<circuit, probe, failures>>

\* record_success deletes the three keys.
RecordSuccess(c) ==
    /\ At(c, "success")
    /\ circuit' = Closed /\ probe' = 0
    /\ failures' = [a \in DOMAIN failures |-> 0]
    /\ Go(c, Idle)

\* record_failure with eligible=False gives a probe lease back, whoever holds it by now.
RecordIneligible(c) ==
    /\ At(c, "ineligible")
    /\ probe' = IF caller[c].probe THEN 0 ELSE probe
    /\ Go(c, Idle)
    /\ UNCHANGED <<circuit, failures>>

\* record_failure: the failure joins the window, the window is counted, the
\* circuit is read, and only then is it decided whether to open.
AddFailure(c) ==
    /\ caller[c].pc \in {"failure", "immediate"}
    /\ failures' = [failures EXCEPT ![0] = Lesser(@ + 1, Threshold)]
    /\ Go(c, [caller[c] EXCEPT !.pc = "count", !.force = caller[c].probe \/ At(c, "immediate")])
    /\ UNCHANGED <<circuit, probe>>

CountFailures(c) ==
    /\ At(c, "count")
    /\ Go(c, [caller[c] EXCEPT !.pc = "current", !.count = Lesser(SumFunction(failures), Threshold)])
    /\ UNCHANGED <<circuit, probe, failures>>

ReadCurrent(c) ==
    /\ At(c, "current")
    /\ \/ /\ caller[c].force \/ caller[c].count >= Threshold
          /\ Go(c, [caller[c] EXCEPT !.pc = "open", !.seen = circuit.count])
       \/ /\ ~ caller[c].force /\ caller[c].count < Threshold
          /\ Go(c, Idle)
    /\ UNCHANGED <<circuit, probe, failures>>

\* Mutant: the number of openings is not capped by the cooldowns there are.
OpenCircuitUncapped(c) ==
    /\ At(c, "open")
    /\ LET count == caller[c].seen + 1 IN
           circuit' = [count |-> count, left |-> Cooldowns[Lesser(count, Len(Cooldowns))],
                       ttl |-> Cooldowns[Lesser(count, Len(Cooldowns))] + Window]
    /\ Step(c, "unprobe")
    /\ UNCHANGED <<probe, failures>>

\* The number of openings beyond the last cooldown makes no difference.
OpenCircuit(c) ==
    /\ At(c, "open")
    /\ LET count == Lesser(caller[c].seen + 1, Len(Cooldowns)) IN
           circuit' = [count |-> count, left |-> Cooldowns[count], ttl |-> Cooldowns[count] + Window]
    /\ Step(c, "unprobe")
    /\ UNCHANGED <<probe, failures>>

DeleteProbe(c) ==
    /\ At(c, "unprobe")
    /\ probe' = 0
    /\ Go(c, Idle)
    /\ UNCHANGED <<circuit, failures>>

\* The process is lost, or an exception the code does not record (a cost
\* limit, exhausted attempts, a cancelled task) leaves the call.
Lost(c) ==
    /\ caller[c].pc \notin {"idle", "away"}
    /\ Go(c, Away)
    /\ UNCHANGED <<circuit, probe, failures>>

\* A tick passes: keys expire and failures leave the window.
Down(n) == IF n = 0 THEN 0 ELSE n - 1

Tick ==
    /\ \A c \in Callers : caller[c].pc \notin InRedis /\ (At(c, "calling") => caller[c].age < CallLimit)
    /\ circuit' = IF circuit.ttl <= 1 THEN Closed
                  ELSE [circuit EXCEPT !.left = Down(@), !.ttl = Down(@)]
    /\ probe' = Down(probe)
    /\ failures' = [a \in DOMAIN failures |-> IF a = 0 THEN 0 ELSE failures[a - 1]]
    /\ caller' = [c \in Callers |-> IF At(c, "calling") THEN [caller[c] EXCEPT !.age = @ + 1] ELSE Idle]

CallerStep(c) ==
    \/ ReadCircuit(c) \/ ClaimProbe(c) \/ CallEnds(c) \/ RecordSuccess(c) \/ RecordIneligible(c)
    \/ AddFailure(c) \/ CountFailures(c) \/ ReadCurrent(c) \/ OpenCircuit(c) \/ DeleteProbe(c)

Next == Tick \/ \E c \in Callers : CallerStep(c) \/ Lost(c)

Spec == Init /\ [][Next]_vars

\* Jobs go on asking, coroutines go on when their await is over, time passes
\* even though callers are often between two awaits, and not every process
\* that comes to ask for the probe lease dies just before it does.
FairSpec == Spec /\ SF_vars(Tick) /\ \A c \in Callers : WF_vars(CallerStep(c)) /\ SF_vars(ClaimProbe(c))

-----------------------------------------------------------------------------
\* Every variable stays in its range.
TypeOK ==
    /\ circuit \in [count : 0..Len(Cooldowns), left : 0..LongestCooldown, ttl : 0..Forgotten]
    /\ probe \in 0..ProbeTTL
    /\ failures \in [0..Window - 1 -> 0..Threshold]
    /\ caller \in [Callers -> Caller]

\* A provider that callers keep asking for is called again and again: no
\* sequence of failures, lost processes and lost probes leaves the circuit
\* rejecting every call from some point on.
CallsAreAdmitted == []<>(\E c \in Callers : At(c, "calling"))
=============================================================================

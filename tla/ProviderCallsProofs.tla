-------------------------- MODULE ProviderCallsProofs --------------------------
(***************************************************************************)
(* Proofs about ProviderCalls for any number of runs, generations, keys    *)
(* and any limits.  The inductive invariant says what each run knows where *)
(* it stands: which claims it holds, which it has seen, and whether the    *)
(* response it is about to return can differ from the committed one.       *)
(***************************************************************************)
EXTENDS ProviderCalls, FiniteSetTheorems, TLAPS

\* A claim between the moment it is saved and the moment its request goes out.
Holds(r) == run[r].pc \in {"charge", "request"}

\* A claim that is held pays for nothing yet and is held by one run.
ClaimsArePrivate ==
    /\ \A r \in Runs : Holds(r) => run[r].claim \in claimed /\ sent[run[r].claim] = 0
    /\ \A r, q \in Runs : Holds(r) /\ Holds(q) /\ run[r].claim = run[q].claim => r = q

\* What run s has read of the attempt keys, and the number it takes from it.
ScanSound(s) ==
    /\ s.pc = "scan" =>
          /\ 1..s.found \subseteq claimed
          /\ s.found <= s.seen
          /\ ~ s.gap => s.found = s.seen
    /\ s.pc = "claim" => s.claim >= 1 /\ 1..(s.claim - 1) \subseteq claimed
    /\ s.pc # "scan" => s.seen = 0 /\ s.found = 0 /\ s.gap = FALSE

ScansAreSound == \A r \in Runs : ScanSound(run[r])

\* The response run s carries.  A run that will return its own response
\* because none is committed has been fenced, or its job is finished.
ResponseSound(s) ==
    /\ s.gen <= gen
    /\ s.pc = "hit" => s.value = response /\ response # 0
    /\ \/ s.pc \in {"save", "circuit_success", "reread"}
       \/ s.pc = "complete"
       \/ s.pc = "scan" /\ s.for = "audit"
       => s.value # 0
    /\ s.pc = "reread" => response # 0 \/ ~ (open /\ s.gen = gen)

ResponsesAreCommitted ==
    /\ returned \subseteq {response} /\ 0 \notin returned
    /\ \A r \in Runs : ResponseSound(run[r])

IInv == TypeOK /\ OneRequestPerAttempt /\ ClaimsAreContiguous
        /\ ClaimsArePrivate /\ ScansAreSound /\ ResponsesAreCommitted

USE DEF Attempts

\* A run that begins or has ended is a run.
LEMMA BegunRuns ==
    ASSUME NEW g \in 0..MaxGen, NEW pc \in Pcs
    PROVE  Begun(g) \in RunState /\ [Begun(g) EXCEPT !.pc = pc] \in RunState
<1>1. Begun(g) \in RunState
  BY ProviderAssumption DEF Begun, RunState, Pcs, Outcomes
<1>2. [Begun(g) EXCEPT !.pc = pc] \in RunState
  BY <1>1 DEF RunState
<1> QED
  BY <1>1, <1>2

\* A step of one run leaves the others alone.
LEMMA OneRunMoves ==
    ASSUME run \in [Runs -> RunState], NEW r \in Runs, NEW new \in RunState, Go(r, new)
    PROVE  /\ run' \in [Runs -> RunState]
           /\ run'[r] = new
           /\ \A q \in Runs : q # r => run'[q] = run[q]
  BY DEF Go

\* Initially nothing is claimed, sent or returned.
LEMMA InitIInv == Init => IInv
<1> SUFFICES ASSUME Init PROVE IInv
  OBVIOUS
<1>1. TypeOK
  <2>1. run \in [Runs -> RunState]
    <3>1. [Begun(0) EXCEPT !.pc = "none"] \in RunState
      <4>1. 0 \in 0..MaxGen /\ "none" \in Pcs
        BY ProviderAssumption DEF Pcs, Ended
      <4> QED
        BY <4>1, BegunRuns
    <3> QED
      BY <3>1 DEF Init
  <2>2. ledger \in Ledger
    BY ProviderAssumption DEF Init, Ledger
  <2>3. sent \in [Attempts -> Nat]
    BY DEF Init
  <2>4. gen \in 1..MaxGen /\ response \in 0..AttemptLimit /\ lives \in 0..Lives
    BY ProviderAssumption DEF Init
  <2>5. open \in BOOLEAN /\ claimed \subseteq Attempts /\ returned \subseteq 0..AttemptLimit
    BY DEF Init
  <2> QED
    BY <2>1, <2>2, <2>3, <2>4, <2>5 DEF TypeOK
<1>2. \A r \in Runs : run[r].pc = "none" /\ run[r].gen = 0 /\ run[r].seen = 0
                      /\ run[r].found = 0 /\ run[r].gap = FALSE
  BY DEF Init, Begun
<1>3. OneRequestPerAttempt /\ ClaimsAreContiguous
  BY DEF Init, OneRequestPerAttempt, ClaimsAreContiguous
<1>4. ClaimsArePrivate /\ ScansAreSound
  BY <1>2 DEF ClaimsArePrivate, ScansAreSound, ScanSound, Holds
<1>5. ResponsesAreCommitted
  BY <1>2 DEF Init, ResponsesAreCommitted, ResponseSound
<1> QED
  BY <1>1, <1>3, <1>4, <1>5 DEF IInv

\* A step of run r that changes neither claims, requests nor the committed
\* response, and returns no other one, keeps the invariant, if what the run
\* knows afterwards is right.
LEMMA QuietStep ==
    ASSUME IInv, NEW r \in Runs, NEW new \in RunState, Go(r, new),
           UNCHANGED <<gen, open, response, claimed, sent>>,
           returned' \subseteq {response}, 0 \notin returned',
           ledger' \in Ledger, lives' \in 0..Lives,
           new.pc \in {"charge", "request"} => Holds(r) /\ new.claim = run[r].claim,
           ScanSound(new), ResponseSound(new)
    PROVE  IInv'
<1>0. run \in [Runs -> RunState]
  BY DEF IInv, TypeOK
<1>1. /\ run' \in [Runs -> RunState]
      /\ run'[r] = new
      /\ \A q \in Runs : q # r => run'[q] = run[q]
  BY <1>0, OneRunMoves
<1>2. TypeOK'
  BY <1>1 DEF IInv, TypeOK
<1>3. OneRequestPerAttempt' /\ ClaimsAreContiguous'
  BY DEF IInv, OneRequestPerAttempt, ClaimsAreContiguous
<1>4. ClaimsArePrivate'
  <2>1. \A q \in Runs : Holds(q)' => Holds(q) /\ run'[q].claim = run[q].claim
    BY <1>1 DEF Holds
  <2> QED
    BY <2>1 DEF IInv, ClaimsArePrivate
<1>5. ScansAreSound'
  <2>1. \A q \in Runs : ScanSound(run'[q])
    BY <1>1 DEF IInv, ScansAreSound
  <2> QED
    BY <2>1 DEF ScansAreSound, ScanSound
<1>6. ResponsesAreCommitted'
  <2>1. \A q \in Runs : ResponseSound(run'[q])
    BY <1>1 DEF IInv, ResponsesAreCommitted
  <2> QED
    BY <2>1 DEF IInv, ResponsesAreCommitted, ResponseSound
<1> QED
  BY <1>2, <1>3, <1>4, <1>5, <1>6 DEF IInv

\* A run that has read all the attempt keys is still a run.
LEMMA ScannedRuns == ASSUME NEW r \in Runs, run[r] \in RunState PROVE Scanned(r) \in RunState
<1>1. 0 \in 0..AttemptLimit
  BY ProviderAssumption
<1> QED
  BY <1>1 DEF Scanned, RunState

\* CheckpointedSerpProvider.search looks for the committed response first.
LEMMA LookupStep == ASSUME IInv, NEW r \in Runs, Lookup(r) PROVE IInv'
<1>1. /\ run[r] \in RunState /\ ledger \in Ledger /\ lives \in 0..Lives
      /\ response \in 0..AttemptLimit /\ gen \in 1..MaxGen /\ claimed \subseteq 1..AttemptLimit
      /\ ScanSound(run[r]) /\ ResponseSound(run[r])
      /\ Holds(r) => run[r].claim \in claimed /\ sent[run[r].claim] = 0
      /\ returned \subseteq {response} /\ 0 \notin returned
  BY DEF IInv, TypeOK, ScansAreSound, ResponsesAreCommitted, ClaimsArePrivate
<1>2. run[r].pc = "lookup"
  BY DEF Lookup, At
<1>3. /\ UNCHANGED <<gen, open, response, claimed, sent>>
      /\ returned' \subseteq {response} /\ 0 \notin returned'
      /\ ledger' \in Ledger /\ lives' \in 0..Lives
  BY <1>1, <1>2, ProviderAssumption DEF Lookup, shared
<1>4. CASE response # 0
  <2> DEFINE new == [run[r] EXCEPT !.pc = "hit", !.value = response]
  <2>1. new \in RunState
    BY <1>1, ProviderAssumption, <1>2, <1>4 DEF RunState, Pcs, Ended, Outcomes
  <2>2. Go(r, new)
    BY <1>2, <1>4 DEF Lookup, At
  <2>3. /\ new.pc \in {"charge", "request"} => Holds(r) /\ new.claim = run[r].claim
        /\ ScanSound(new) /\ ResponseSound(new)
    BY <1>1, <2>1, <1>2, <1>4 DEF ScanSound, ResponseSound, Holds, RunState
  <2> HIDE DEF new
  <2> QED
    BY <1>3, <2>1, <2>2, <2>3, QuietStep
<1>5. CASE response = 0
  <2> DEFINE new == [run[r] EXCEPT !.pc = "scan", !.for = "count"]
  <2>1. new \in RunState
    BY <1>1, ProviderAssumption, <1>2, <1>5 DEF RunState, Pcs, Ended, Outcomes
  <2>2. Go(r, new)
    BY <1>2, <1>5 DEF Lookup, At
  <2>3. /\ new.pc \in {"charge", "request"} => Holds(r) /\ new.claim = run[r].claim
        /\ ScanSound(new) /\ ResponseSound(new)
    BY <1>1, <2>1, <1>2, <1>5 DEF ScanSound, ResponseSound, Holds, RunState
  <2> HIDE DEF new
  <2> QED
    BY <1>3, <2>1, <2>2, <2>3, QuietStep
<1> QED
  BY <1>1, <1>2, <1>4, <1>5, ProviderAssumption DEF Lookup, At, Ledger, RunState, Outcomes

\* ProviderAttemptLedger._existing reads one attempt key; claims are never
\* withdrawn, so what a run has read of them stays true.
LEMMA ScanNextStep == ASSUME IInv, NEW r \in Runs, ScanNext(r) PROVE IInv'
<1>1. /\ run[r] \in RunState /\ ledger \in Ledger /\ lives \in 0..Lives
      /\ response \in 0..AttemptLimit /\ gen \in 1..MaxGen /\ claimed \subseteq 1..AttemptLimit
      /\ ScanSound(run[r]) /\ ResponseSound(run[r])
      /\ Holds(r) => run[r].claim \in claimed /\ sent[run[r].claim] = 0
      /\ returned \subseteq {response} /\ 0 \notin returned
  BY DEF IInv, TypeOK, ScansAreSound, ResponsesAreCommitted, ClaimsArePrivate
<1>2. run[r].pc = "scan" /\ run[r].seen < AttemptLimit
  BY DEF ScanNext, At
<1>3. /\ UNCHANGED <<gen, open, response, claimed, sent>>
      /\ returned' \subseteq {response} /\ 0 \notin returned'
      /\ ledger' \in Ledger /\ lives' \in 0..Lives
  BY <1>1, <1>2, ProviderAssumption DEF ScanNext, shared
<1>4. CASE run[r].seen + 1 \in claimed /\ run[r].gap
  <2> DEFINE new == [Begun(run[r].gen) EXCEPT !.pc = "corrupt"]
  <2>1. new \in RunState
    <3>1. run[r].gen \in 0..MaxGen /\ "corrupt" \in Pcs
      BY <1>1 DEF RunState, Pcs, Ended
    <3> QED
      BY <3>1, BegunRuns
  <2>2. Go(r, new)
    BY <1>2, <1>4 DEF ScanNext, At, Ends
  <2>3. /\ new.pc \in {"charge", "request"} => Holds(r) /\ new.claim = run[r].claim
        /\ ScanSound(new) /\ ResponseSound(new)
    BY <1>1, <2>1, <1>2, <1>4 DEF Begun, ScanSound, ResponseSound, Holds, RunState
  <2> HIDE DEF new
  <2> QED
    BY <1>3, <2>1, <2>2, <2>3, QuietStep
<1>5. CASE run[r].seen + 1 \in claimed /\ ~ run[r].gap
  <2> DEFINE new == [run[r] EXCEPT !.seen = run[r].seen + 1, !.found = @ + 1]
  <2>1. new \in RunState
    <3>1. run[r].seen + 1 \in 0..AttemptLimit /\ run[r].found + 1 \in 0..AttemptLimit
      BY <1>1, ProviderAssumption, <1>2, <1>5, ScannedRuns DEF RunState, ScanSound
    <3> QED
      BY <1>1, <3>1 DEF RunState, Pcs, Ended, Outcomes
  <2>2. Go(r, new)
    BY <1>2, <1>5 DEF ScanNext, At
  <2>3. /\ new.pc \in {"charge", "request"} => Holds(r) /\ new.claim = run[r].claim
        /\ ScanSound(new) /\ ResponseSound(new)
    BY <1>1, <2>1, <1>2, <1>5 DEF ScanSound, ResponseSound, Holds, RunState
  <2> HIDE DEF new
  <2> QED
    BY <1>3, <2>1, <2>2, <2>3, QuietStep
<1>6. CASE run[r].seen + 1 \notin claimed
  <2> DEFINE new == [run[r] EXCEPT !.seen = run[r].seen + 1, !.gap = TRUE]
  <2>1. new \in RunState
    <3>1. run[r].seen + 1 \in 0..AttemptLimit
      BY <1>1, ProviderAssumption, <1>2, <1>6, ScannedRuns DEF RunState, ScanSound
    <3> QED
      BY <1>1, <3>1 DEF RunState, Pcs, Ended, Outcomes
  <2>2. Go(r, new)
    BY <1>2, <1>6 DEF ScanNext, At
  <2>3. /\ new.pc \in {"charge", "request"} => Holds(r) /\ new.claim = run[r].claim
        /\ ScanSound(new) /\ ResponseSound(new)
    BY <1>1, <2>1, <1>2, <1>6 DEF ScanSound, ResponseSound, Holds, RunState
  <2> HIDE DEF new
  <2> QED
    BY <1>3, <2>1, <2>2, <2>3, QuietStep
<1> QED
  BY <1>1, <1>2, <1>4, <1>5, <1>6, ProviderAssumption DEF ScanNext, At, Ledger, RunState, Outcomes

\* What count, claim and the audit do with the number of claims they read.
LEMMA ScanDoneStep == ASSUME IInv, NEW r \in Runs, ScanDone(r) PROVE IInv'
<1>1. /\ run[r] \in RunState /\ ledger \in Ledger /\ lives \in 0..Lives
      /\ response \in 0..AttemptLimit /\ gen \in 1..MaxGen /\ claimed \subseteq 1..AttemptLimit
      /\ ScanSound(run[r]) /\ ResponseSound(run[r])
      /\ Holds(r) => run[r].claim \in claimed /\ sent[run[r].claim] = 0
      /\ returned \subseteq {response} /\ 0 \notin returned
  BY DEF IInv, TypeOK, ScansAreSound, ResponsesAreCommitted, ClaimsArePrivate
<1>2. run[r].pc = "scan" /\ run[r].seen = AttemptLimit
  BY DEF ScanDone, At
<1>3. /\ UNCHANGED <<gen, open, response, claimed, sent>>
      /\ returned' \subseteq {response} /\ 0 \notin returned'
      /\ ledger' \in Ledger /\ lives' \in 0..Lives
  BY <1>1, <1>2, ProviderAssumption DEF ScanDone, shared
<1>4. CASE run[r].for \in {"count", "claim"} /\ run[r].found = AttemptLimit
  <2> DEFINE new == [Begun(run[r].gen) EXCEPT !.pc = "failed"]
  <2>1. new \in RunState
    <3>1. run[r].gen \in 0..MaxGen /\ "failed" \in Pcs
      BY <1>1 DEF RunState, Pcs, Ended
    <3> QED
      BY <3>1, BegunRuns
  <2>2. Go(r, new)
    BY <1>2, <1>4 DEF ScanDone, At, Ends, Fails
  <2>3. /\ new.pc \in {"charge", "request"} => Holds(r) /\ new.claim = run[r].claim
        /\ ScanSound(new) /\ ResponseSound(new)
    BY <1>1, <2>1, <1>2, <1>4 DEF Begun, ScanSound, ResponseSound, Holds, RunState
  <2> HIDE DEF new
  <2> QED
    BY <1>3, <2>1, <2>2, <2>3, QuietStep
<1>5. CASE run[r].for = "report"
  <2> DEFINE new == [Begun(run[r].gen) EXCEPT !.pc = "failed"]
  <2>1. new \in RunState
    <3>1. run[r].gen \in 0..MaxGen /\ "failed" \in Pcs
      BY <1>1 DEF RunState, Pcs, Ended
    <3> QED
      BY <3>1, BegunRuns
  <2>2. Go(r, new)
    BY <1>2, <1>5 DEF ScanDone, At, Ends, Fails
  <2>3. /\ new.pc \in {"charge", "request"} => Holds(r) /\ new.claim = run[r].claim
        /\ ScanSound(new) /\ ResponseSound(new)
    BY <1>1, <2>1, <1>2, <1>5 DEF Begun, ScanSound, ResponseSound, Holds, RunState
  <2> HIDE DEF new
  <2> QED
    BY <1>3, <2>1, <2>2, <2>3, QuietStep
<1>6. CASE run[r].for = "count" /\ run[r].found # AttemptLimit
  <2> DEFINE new == [Scanned(r) EXCEPT !.pc = "circuit"]
  <2>1. new \in RunState
    <3>1. Scanned(r) \in RunState /\ run[r].found \in 0..AttemptLimit
      BY <1>1, ProviderAssumption, <1>2, <1>6, ScannedRuns DEF RunState, ScanSound
    <3> QED
      BY <1>1, <3>1 DEF RunState, Pcs, Ended, Outcomes
  <2>2. Go(r, new)
    BY <1>2, <1>6 DEF ScanDone, At
  <2>3. /\ new.pc \in {"charge", "request"} => Holds(r) /\ new.claim = run[r].claim
        /\ ScanSound(new) /\ ResponseSound(new)
    BY <1>1, <2>1, <1>2, <1>6 DEF Scanned, ScanSound, ResponseSound, Holds, RunState
  <2> HIDE DEF new
  <2> QED
    BY <1>3, <2>1, <2>2, <2>3, QuietStep
<1>7. CASE run[r].for = "claim" /\ run[r].found # AttemptLimit
  <2> DEFINE new == [Scanned(r) EXCEPT !.pc = "claim", !.claim = run[r].found + 1]
  <2>1. new \in RunState
    <3>1. Scanned(r) \in RunState /\ run[r].found + 1 \in 0..AttemptLimit
      BY <1>1, ProviderAssumption, <1>2, <1>7, ScannedRuns DEF RunState, ScanSound
    <3> QED
      BY <1>1, <3>1 DEF RunState, Pcs, Ended, Outcomes
  <2>2. Go(r, new)
    BY <1>2, <1>7 DEF ScanDone, At
  <2>3. /\ new.pc \in {"charge", "request"} => Holds(r) /\ new.claim = run[r].claim
        /\ ScanSound(new) /\ ResponseSound(new)
    BY <1>1, <2>1, <1>2, <1>7 DEF Scanned, ScanSound, ResponseSound, Holds, RunState
  <2> HIDE DEF new
  <2> QED
    BY <1>3, <2>1, <2>2, <2>3, QuietStep
<1>8. CASE run[r].for = "audit"
  <2> DEFINE new == [Scanned(r) EXCEPT !.pc = IF run[r].found = 0 THEN "failed" ELSE "save"]
  <2>1. new \in RunState
    <3>1. Scanned(r) \in RunState /\ run[r].found \in 0..AttemptLimit
      BY <1>1, ProviderAssumption, <1>2, <1>8, ScannedRuns DEF RunState, ScanSound
    <3> QED
      BY <1>1, <3>1 DEF RunState, Pcs, Ended, Outcomes
  <2>2. Go(r, new)
    BY <1>2, <1>8 DEF ScanDone, At
  <2>3. /\ new.pc \in {"charge", "request"} => Holds(r) /\ new.claim = run[r].claim
        /\ ScanSound(new) /\ ResponseSound(new)
    BY <1>1, <2>1, <1>2, <1>8 DEF Scanned, ScanSound, ResponseSound, Holds, RunState
  <2> HIDE DEF new
  <2> QED
    BY <1>3, <2>1, <2>2, <2>3, QuietStep
<1> QED
  BY <1>1, <1>2, <1>4, <1>5, <1>6, <1>7, <1>8, ProviderAssumption DEF ScanDone, At, Ledger, RunState, Outcomes

\* JobCostLedger.claim admits or denies the request.
LEMMA ClaimCostStep == ASSUME IInv, NEW r \in Runs, ClaimCost(r) PROVE IInv'
<1>1. /\ run[r] \in RunState /\ ledger \in Ledger /\ lives \in 0..Lives
      /\ response \in 0..AttemptLimit /\ gen \in 1..MaxGen /\ claimed \subseteq 1..AttemptLimit
      /\ ScanSound(run[r]) /\ ResponseSound(run[r])
      /\ Holds(r) => run[r].claim \in claimed /\ sent[run[r].claim] = 0
      /\ returned \subseteq {response} /\ 0 \notin returned
  BY DEF IInv, TypeOK, ScansAreSound, ResponsesAreCommitted, ClaimsArePrivate
<1>2. run[r].pc = "charge"
  BY DEF ClaimCost, At
<1>3. /\ UNCHANGED <<gen, open, response, claimed, sent>>
      /\ returned' \subseteq {response} /\ 0 \notin returned'
      /\ ledger' \in Ledger /\ lives' \in 0..Lives
  BY <1>1, <1>2, ProviderAssumption DEF ClaimCost, shared, Ledger
<1>4. CASE ledger.claims < CostLimit
  <2> DEFINE new == [run[r] EXCEPT !.pc = "request"]
  <2>1. new \in RunState
    BY <1>1, ProviderAssumption, <1>2, <1>4 DEF RunState, Pcs, Ended, Outcomes
  <2>2. Go(r, new)
    BY <1>1, ProviderAssumption, <1>2, <1>4 DEF ClaimCost, At, Step, Ledger, RunState
  <2>3. /\ new.pc \in {"charge", "request"} => Holds(r) /\ new.claim = run[r].claim
        /\ ScanSound(new) /\ ResponseSound(new)
    BY <1>1, <2>1, <1>2, <1>4 DEF ScanSound, ResponseSound, Holds, RunState
  <2> HIDE DEF new
  <2> QED
    BY <1>3, <2>1, <2>2, <2>3, QuietStep
<1>5. CASE ledger.claims >= CostLimit
  <2> DEFINE new == [Begun(run[r].gen) EXCEPT !.pc = "failed"]
  <2>1. new \in RunState
    <3>1. run[r].gen \in 0..MaxGen /\ "failed" \in Pcs
      BY <1>1 DEF RunState, Pcs, Ended
    <3> QED
      BY <3>1, BegunRuns
  <2>2. Go(r, new)
    BY <1>1, ProviderAssumption, <1>2, <1>5 DEF ClaimCost, At, Ends, Fails, Ledger, RunState
  <2>3. /\ new.pc \in {"charge", "request"} => Holds(r) /\ new.claim = run[r].claim
        /\ ScanSound(new) /\ ResponseSound(new)
    BY <1>1, <2>1, <1>2, <1>5 DEF Begun, ScanSound, ResponseSound, Holds, RunState
  <2> HIDE DEF new
  <2> QED
    BY <1>3, <2>1, <2>2, <2>3, QuietStep
<1> QED
  BY <1>1, <1>2, <1>4, <1>5, ProviderAssumption DEF ClaimCost, At, Ledger, RunState, Outcomes

\* after_attempt completes the claim; the next key is tried, or the call ends.
LEMMA CompleteClaimStep == ASSUME IInv, NEW r \in Runs, CompleteClaim(r) PROVE IInv'
<1>1. /\ run[r] \in RunState /\ ledger \in Ledger /\ lives \in 0..Lives
      /\ response \in 0..AttemptLimit /\ gen \in 1..MaxGen /\ claimed \subseteq 1..AttemptLimit
      /\ ScanSound(run[r]) /\ ResponseSound(run[r])
      /\ Holds(r) => run[r].claim \in claimed /\ sent[run[r].claim] = 0
      /\ returned \subseteq {response} /\ 0 \notin returned
  BY DEF IInv, TypeOK, ScansAreSound, ResponsesAreCommitted, ClaimsArePrivate
<1>2. run[r].pc = "complete"
  BY DEF CompleteClaim, At
<1>3. /\ UNCHANGED <<gen, open, response, claimed, sent>>
      /\ returned' \subseteq {response} /\ 0 \notin returned'
      /\ ledger' \in Ledger /\ lives' \in 0..Lives
  BY <1>1, <1>2, ProviderAssumption DEF CompleteClaim, shared, Ledger
<1>4. CASE run[r].outcome = "success"
  <2> DEFINE new == [run[r] EXCEPT !.pc = "circuit_success"]
  <2>1. new \in RunState
    BY <1>1, ProviderAssumption, <1>2, <1>4 DEF RunState, Pcs, Ended, Outcomes
  <2>2. Go(r, new)
    BY <1>1, ProviderAssumption, <1>2, <1>4 DEF CompleteClaim, At, Step, Ledger, RunState
  <2>3. /\ new.pc \in {"charge", "request"} => Holds(r) /\ new.claim = run[r].claim
        /\ ScanSound(new) /\ ResponseSound(new)
    BY <1>1, <2>1, <1>2, <1>4 DEF ScanSound, ResponseSound, Holds, RunState
  <2> HIDE DEF new
  <2> QED
    BY <1>3, <2>1, <2>2, <2>3, QuietStep
<1>5. CASE run[r].outcome = "key_failure" /\ run[r].keys > 1
  <2> DEFINE new == [run[r] EXCEPT !.pc = "scan", !.for = "claim", !.keys = @ - 1, !.claim = 0, !.outcome = "none"]
  <2>1. new \in RunState
    <3>1. run[r].keys - 1 \in 0..KeyCount /\ 0 \in 0..AttemptLimit
      BY <1>1, ProviderAssumption, <1>2, <1>5, ScannedRuns DEF RunState, ScanSound
    <3> QED
      BY <1>1, <3>1 DEF RunState, Pcs, Ended, Outcomes
  <2>2. Go(r, new)
    BY <1>1, ProviderAssumption, <1>2, <1>5 DEF CompleteClaim, At, Ledger, RunState
  <2>3. /\ new.pc \in {"charge", "request"} => Holds(r) /\ new.claim = run[r].claim
        /\ ScanSound(new) /\ ResponseSound(new)
    BY <1>1, <2>1, <1>2, <1>5 DEF ScanSound, ResponseSound, Holds, RunState
  <2> HIDE DEF new
  <2> QED
    BY <1>3, <2>1, <2>2, <2>3, QuietStep
<1>6. CASE run[r].outcome = "key_failure" /\ run[r].keys <= 1
  <2> DEFINE new == [run[r] EXCEPT !.pc = "circuit_failure", !.outcome = "retryable"]
  <2>1. new \in RunState
    BY <1>1, ProviderAssumption, <1>2, <1>6 DEF RunState, Pcs, Ended, Outcomes
  <2>2. Go(r, new)
    BY <1>1, ProviderAssumption, <1>2, <1>6 DEF CompleteClaim, At, Ledger, RunState
  <2>3. /\ new.pc \in {"charge", "request"} => Holds(r) /\ new.claim = run[r].claim
        /\ ScanSound(new) /\ ResponseSound(new)
    BY <1>1, <2>1, <1>2, <1>6 DEF ScanSound, ResponseSound, Holds, RunState
  <2> HIDE DEF new
  <2> QED
    BY <1>3, <2>1, <2>2, <2>3, QuietStep
<1>7. CASE run[r].outcome \in {"retryable", "rejected"}
  <2> DEFINE new == [run[r] EXCEPT !.pc = "circuit_failure"]
  <2>1. new \in RunState
    BY <1>1, ProviderAssumption, <1>2, <1>7 DEF RunState, Pcs, Ended, Outcomes
  <2>2. Go(r, new)
    BY <1>1, ProviderAssumption, <1>2, <1>7 DEF CompleteClaim, At, Step, Ledger, RunState
  <2>3. /\ new.pc \in {"charge", "request"} => Holds(r) /\ new.claim = run[r].claim
        /\ ScanSound(new) /\ ResponseSound(new)
    BY <1>1, <2>1, <1>2, <1>7 DEF ScanSound, ResponseSound, Holds, RunState
  <2> HIDE DEF new
  <2> QED
    BY <1>3, <2>1, <2>2, <2>3, QuietStep
<1> QED
  BY <1>1, <1>2, <1>4, <1>5, <1>6, <1>7, ProviderAssumption DEF CompleteClaim, At, Ledger, RunState, Outcomes

\* The breaker hears of a failure.
LEMMA RecordFailureStep == ASSUME IInv, NEW r \in Runs, RecordFailure(r) PROVE IInv'
<1>1. /\ run[r] \in RunState /\ ledger \in Ledger /\ lives \in 0..Lives
      /\ response \in 0..AttemptLimit /\ gen \in 1..MaxGen /\ claimed \subseteq 1..AttemptLimit
      /\ ScanSound(run[r]) /\ ResponseSound(run[r])
      /\ Holds(r) => run[r].claim \in claimed /\ sent[run[r].claim] = 0
      /\ returned \subseteq {response} /\ 0 \notin returned
  BY DEF IInv, TypeOK, ScansAreSound, ResponsesAreCommitted, ClaimsArePrivate
<1>2. run[r].pc = "circuit_failure"
  BY DEF RecordFailure, At
<1>3. /\ UNCHANGED <<gen, open, response, claimed, sent>>
      /\ returned' \subseteq {response} /\ 0 \notin returned'
      /\ ledger' \in Ledger /\ lives' \in 0..Lives
  BY <1>1, <1>2, ProviderAssumption DEF RecordFailure, shared
<1> DEFINE new == [run[r] EXCEPT !.pc = "scan", !.for = "report"]
<1>4. new \in RunState
  BY <1>1, ProviderAssumption, <1>2 DEF RunState, Pcs, Ended, Outcomes
<1>5. Go(r, new)
  BY <1>2 DEF RecordFailure, At
<1>6. /\ new.pc \in {"charge", "request"} => Holds(r) /\ new.claim = run[r].claim
      /\ ScanSound(new) /\ ResponseSound(new)
  BY <1>1, <1>2, <1>4 DEF ScanSound, ResponseSound, Holds, RunState
<1> HIDE DEF new
<1> QED
  BY <1>3, <1>4, <1>5, <1>6, QuietStep

\* The breaker hears of a success.
LEMMA RecordSuccessStep == ASSUME IInv, NEW r \in Runs, RecordSuccess(r) PROVE IInv'
<1>1. /\ run[r] \in RunState /\ ledger \in Ledger /\ lives \in 0..Lives
      /\ response \in 0..AttemptLimit /\ gen \in 1..MaxGen /\ claimed \subseteq 1..AttemptLimit
      /\ ScanSound(run[r]) /\ ResponseSound(run[r])
      /\ Holds(r) => run[r].claim \in claimed /\ sent[run[r].claim] = 0
      /\ returned \subseteq {response} /\ 0 \notin returned
  BY DEF IInv, TypeOK, ScansAreSound, ResponsesAreCommitted, ClaimsArePrivate
<1>2. run[r].pc = "circuit_success"
  BY DEF RecordSuccess, At
<1>3. /\ UNCHANGED <<gen, open, response, claimed, sent>>
      /\ returned' \subseteq {response} /\ 0 \notin returned'
      /\ ledger' \in Ledger /\ lives' \in 0..Lives
  BY <1>1, <1>2, ProviderAssumption DEF RecordSuccess, shared
<1> DEFINE new == [run[r] EXCEPT !.pc = "scan", !.for = "audit"]
<1>4. new \in RunState
  BY <1>1, ProviderAssumption, <1>2 DEF RunState, Pcs, Ended, Outcomes
<1>5. Go(r, new)
  BY <1>2 DEF RecordSuccess, At
<1>6. /\ new.pc \in {"charge", "request"} => Holds(r) /\ new.claim = run[r].claim
      /\ ScanSound(new) /\ ResponseSound(new)
  BY <1>1, <1>2, <1>4 DEF ScanSound, ResponseSound, Holds, RunState
<1> HIDE DEF new
<1> QED
  BY <1>3, <1>4, <1>5, <1>6, QuietStep

\* A run that is lost holds nothing any more.
LEMMA CrashStep == ASSUME IInv, NEW r \in Runs, Crash(r) PROVE IInv'
<1>1. /\ run[r] \in RunState /\ ledger \in Ledger /\ lives \in 0..Lives
      /\ response \in 0..AttemptLimit /\ gen \in 1..MaxGen /\ claimed \subseteq 1..AttemptLimit
      /\ ScanSound(run[r]) /\ ResponseSound(run[r])
      /\ Holds(r) => run[r].claim \in claimed /\ sent[run[r].claim] = 0
      /\ returned \subseteq {response} /\ 0 \notin returned
  BY DEF IInv, TypeOK, ScansAreSound, ResponsesAreCommitted, ClaimsArePrivate
<1>2. run[r].pc \notin Ended
  BY DEF Crash, At
<1>3. /\ UNCHANGED <<gen, open, response, claimed, sent>>
      /\ returned' \subseteq {response} /\ 0 \notin returned'
      /\ ledger' \in Ledger /\ lives' \in 0..Lives
  BY <1>1, <1>2, ProviderAssumption DEF Crash, shared
<1> DEFINE new == [Begun(run[r].gen) EXCEPT !.pc = "crashed"]
<1>4. new \in RunState
  <2>1. run[r].gen \in 0..MaxGen /\ "crashed" \in Pcs
    BY <1>1 DEF RunState, Pcs, Ended
  <2> QED
    BY <2>1, BegunRuns
<1>5. Go(r, new)
  BY <1>2 DEF Crash, At, Ends
<1>6. /\ new.pc \in {"charge", "request"} => Holds(r) /\ new.claim = run[r].claim
      /\ ScanSound(new) /\ ResponseSound(new)
  BY <1>1, <1>2, <1>4 DEF Begun, ScanSound, ResponseSound, Holds, RunState
<1> HIDE DEF new
<1> QED
  BY <1>3, <1>4, <1>5, <1>6, QuietStep

\* A checkpoint hit returns the committed response.
LEMMA RecordCheckpointHitStep == ASSUME IInv, NEW r \in Runs, RecordCheckpointHit(r) PROVE IInv'
<1>1. /\ run[r] \in RunState /\ ledger \in Ledger /\ lives \in 0..Lives
      /\ response \in 0..AttemptLimit /\ gen \in 1..MaxGen /\ claimed \subseteq 1..AttemptLimit
      /\ ScanSound(run[r]) /\ ResponseSound(run[r])
      /\ Holds(r) => run[r].claim \in claimed /\ sent[run[r].claim] = 0
      /\ returned \subseteq {response} /\ 0 \notin returned
  BY DEF IInv, TypeOK, ScansAreSound, ResponsesAreCommitted, ClaimsArePrivate
<1>2. run[r].pc = "hit"
  BY DEF RecordCheckpointHit, At
<1>3. /\ UNCHANGED <<gen, open, response, claimed, sent>>
      /\ returned' \subseteq {response} /\ 0 \notin returned'
      /\ ledger' \in Ledger /\ lives' \in 0..Lives
  BY <1>1, <1>2, ProviderAssumption DEF RecordCheckpointHit, shared, Returns, ResponseSound
<1> DEFINE new == [Begun(run[r].gen) EXCEPT !.pc = "done"]
<1>4. new \in RunState
  <2>1. run[r].gen \in 0..MaxGen /\ "done" \in Pcs
    BY <1>1 DEF RunState, Pcs, Ended
  <2> QED
    BY <2>1, BegunRuns
<1>5. Go(r, new)
  BY <1>2 DEF RecordCheckpointHit, At, Ends
<1>6. /\ new.pc \in {"charge", "request"} => Holds(r) /\ new.claim = run[r].claim
      /\ ScanSound(new) /\ ResponseSound(new)
  BY <1>1, <1>2, <1>4 DEF Begun, ScanSound, ResponseSound, Holds, RunState
<1> HIDE DEF new
<1> QED
  BY <1>3, <1>4, <1>5, <1>6, QuietStep

\* A current run that reads the response again finds the committed one.
LEMMA ReadCanonicalStep == ASSUME IInv, NEW r \in Runs, ReadCanonical(r) PROVE IInv'
<1>1. /\ run[r] \in RunState /\ ledger \in Ledger /\ lives \in 0..Lives
      /\ response \in 0..AttemptLimit /\ gen \in 1..MaxGen /\ claimed \subseteq 1..AttemptLimit
      /\ ScanSound(run[r]) /\ ResponseSound(run[r])
      /\ Holds(r) => run[r].claim \in claimed /\ sent[run[r].claim] = 0
      /\ returned \subseteq {response} /\ 0 \notin returned
  BY DEF IInv, TypeOK, ScansAreSound, ResponsesAreCommitted, ClaimsArePrivate
<1>2. run[r].pc = "reread"
  BY DEF ReadCanonical, At
<1>3. /\ UNCHANGED <<gen, open, response, claimed, sent>>
      /\ returned' \subseteq {response} /\ 0 \notin returned'
      /\ ledger' \in Ledger /\ lives' \in 0..Lives
  BY <1>1, <1>2, ProviderAssumption DEF ReadCanonical, shared, Returns, ResponseSound, Current
<1> DEFINE new == [Begun(run[r].gen) EXCEPT !.pc = "done"]
<1>4. new \in RunState
  <2>1. run[r].gen \in 0..MaxGen /\ "done" \in Pcs
    BY <1>1 DEF RunState, Pcs, Ended
  <2> QED
    BY <2>1, BegunRuns
<1>5. Go(r, new)
  BY <1>2 DEF ReadCanonical, At, Ends
<1>6. /\ new.pc \in {"charge", "request"} => Holds(r) /\ new.claim = run[r].claim
      /\ ScanSound(new) /\ ResponseSound(new)
  BY <1>1, <1>2, <1>4 DEF Begun, ScanSound, ResponseSound, Holds, RunState
<1> HIDE DEF new
<1> QED
  BY <1>3, <1>4, <1>5, <1>6, QuietStep

\* The breaker admits the call or not, and the keys are collected.
LEMMA BeforeCallStep == ASSUME IInv, NEW r \in Runs, BeforeCall(r) PROVE IInv'
<1>1. /\ run[r] \in RunState /\ ledger \in Ledger /\ lives \in 0..Lives
      /\ response \in 0..AttemptLimit /\ gen \in 1..MaxGen /\ claimed \subseteq 1..AttemptLimit
      /\ ScanSound(run[r]) /\ ResponseSound(run[r])
      /\ Holds(r) => run[r].claim \in claimed /\ sent[run[r].claim] = 0
      /\ returned \subseteq {response} /\ 0 \notin returned
  BY DEF IInv, TypeOK, ScansAreSound, ResponsesAreCommitted, ClaimsArePrivate
<1>2. run[r].pc = "circuit"
  BY DEF BeforeCall, At
<1>3. /\ UNCHANGED <<gen, open, response, claimed, sent>>
      /\ returned' \subseteq {response} /\ 0 \notin returned'
      /\ ledger' \in Ledger /\ lives' \in 0..Lives
  BY <1>1, <1>2, ProviderAssumption DEF BeforeCall, shared
<1>4. CASE Fails(r)
  <2> DEFINE new == [Begun(run[r].gen) EXCEPT !.pc = "failed"]
  <2>1. new \in RunState
    <3>1. run[r].gen \in 0..MaxGen /\ "failed" \in Pcs
      BY <1>1 DEF RunState, Pcs, Ended
    <3> QED
      BY <3>1, BegunRuns
  <2>2. Go(r, new)
    BY <1>2, <1>4 DEF Fails, Ends
  <2>3. /\ new.pc \in {"charge", "request"} => Holds(r) /\ new.claim = run[r].claim
        /\ ScanSound(new) /\ ResponseSound(new)
    BY <1>1, <2>1, <1>2, <1>4 DEF Begun, ScanSound, ResponseSound, Holds, RunState
  <2> HIDE DEF new
  <2> QED
    BY <1>3, <2>1, <2>2, <2>3, QuietStep
<1>5. CASE \E k \in 1..KeyCount : Go(r, [run[r] EXCEPT !.pc = "scan", !.for = "claim", !.keys = k])
  <2>0. PICK k \in 1..KeyCount : Go(r, [run[r] EXCEPT !.pc = "scan", !.for = "claim", !.keys = k])
    BY <1>5
  <2> DEFINE new == [run[r] EXCEPT !.pc = "scan", !.for = "claim", !.keys = k]
  <2>1. new \in RunState
    <3>1. k \in 0..KeyCount
      BY <1>1, ProviderAssumption, <1>2, <2>0, ScannedRuns DEF RunState, ScanSound
    <3> QED
      BY <1>1, <3>1 DEF RunState, Pcs, Ended, Outcomes
  <2>2. Go(r, new)
    BY <1>2, <2>0 DEF Go
  <2>3. /\ new.pc \in {"charge", "request"} => Holds(r) /\ new.claim = run[r].claim
        /\ ScanSound(new) /\ ResponseSound(new)
    BY <1>1, <2>1, <1>2, <2>0 DEF ScanSound, ResponseSound, Holds, RunState
  <2> HIDE DEF new
  <2> QED
    BY <1>3, <2>1, <2>2, <2>3, QuietStep
<1>6. CASE Go(r, [run[r] EXCEPT !.pc = "circuit_failure", !.outcome = "retryable"])
  <2> DEFINE new == [run[r] EXCEPT !.pc = "circuit_failure", !.outcome = "retryable"]
  <2>1. new \in RunState
    BY <1>1, ProviderAssumption, <1>2, <1>6 DEF RunState, Pcs, Ended, Outcomes
  <2>2. Go(r, new)
    BY <1>2, <1>6 DEF Go
  <2>3. /\ new.pc \in {"charge", "request"} => Holds(r) /\ new.claim = run[r].claim
        /\ ScanSound(new) /\ ResponseSound(new)
    BY <1>1, <2>1, <1>2, <1>6 DEF ScanSound, ResponseSound, Holds, RunState
  <2> HIDE DEF new
  <2> QED
    BY <1>3, <2>1, <2>2, <2>3, QuietStep
<1> QED
  BY <1>1, <1>2, <1>4, <1>5, <1>6, ProviderAssumption DEF BeforeCall, At, Ledger, RunState, Outcomes

\* BeginRun only adds a run that knows nothing yet.
LEMMA BeginRunStep == ASSUME IInv, NEW r \in Runs, BeginRun(r) PROVE IInv'
<1> DEFINE new == Begun(gen)
<1>1. gen \in 0..MaxGen /\ "lookup" \in Pcs /\ ledger \in Ledger /\ lives \in 0..Lives
  BY DEF IInv, TypeOK, Pcs
<1>2. new \in RunState
  BY <1>1, BegunRuns
<1>3. /\ Go(r, new) /\ UNCHANGED <<gen, open, response, claimed, sent>>
      /\ returned' \subseteq {response} /\ 0 \notin returned'
      /\ ledger' \in Ledger /\ lives' \in 0..Lives
  BY <1>1, ProviderAssumption DEF BeginRun, IInv, ResponsesAreCommitted
<1>4. new.pc = "lookup" /\ new.gen = gen /\ new.seen = 0 /\ new.found = 0 /\ new.gap = FALSE
  BY DEF Begun
<1>5. ScanSound(new) /\ ResponseSound(new)
  BY <1>1, <1>4 DEF ScanSound, ResponseSound
<1> HIDE DEF new
<1> QED
  BY <1>2, <1>3, <1>4, <1>5, QuietStep

\* ProviderAttemptLedger.claim commits the number after the ones the run has
\* read, and nobody holds that number yet.
LEMMA ClaimAttemptStep == ASSUME IInv, NEW r \in Runs, ClaimAttempt(r) PROVE IInv'
<1>1. /\ run \in [Runs -> RunState] /\ run[r] \in RunState /\ run[r].pc = "claim"
      /\ ledger \in Ledger /\ lives \in 0..Lives /\ gen \in 1..MaxGen
      /\ ScanSound(run[r]) /\ ResponseSound(run[r])
      /\ returned \subseteq {response} /\ 0 \notin returned
  BY DEF IInv, TypeOK, ScansAreSound, ResponsesAreCommitted, ClaimAttempt, At
<1> DEFINE c == run[r].claim
<1>2. CASE MaySave(r, c \in claimed)
  <2> DEFINE new == [run[r] EXCEPT !.pc = "charge"]
  <2>1. /\ claimed' = claimed \cup {c} /\ Go(r, new)
        /\ UNCHANGED <<gen, open, response, ledger, lives, sent, returned>>
    BY <1>2 DEF ClaimAttempt, Step, shared
  <2>2. new \in RunState /\ new.pc = "charge" /\ new.claim = c /\ new.gen = run[r].gen
        /\ new.seen = run[r].seen /\ new.found = run[r].found /\ new.gap = run[r].gap
    BY <1>1 DEF RunState, Pcs
  <2>3. c \in 1..AttemptLimit /\ c \notin claimed /\ 1..(c - 1) \subseteq claimed
    BY <1>1, <1>2 DEF ScanSound, MaySave, RunState
  <2> HIDE DEF new
  <2>4. /\ run' \in [Runs -> RunState] /\ run'[r] = new
        /\ \A q \in Runs : q # r => run'[q] = run[q]
    BY <1>1, <2>1, <2>2, OneRunMoves
  <2>5. TypeOK'
    BY <2>1, <2>3, <2>4 DEF IInv, TypeOK
  <2>6. OneRequestPerAttempt'
    BY <2>1 DEF IInv, OneRequestPerAttempt
  <2>7. ClaimsAreContiguous'
    <3>1. 1..c \subseteq claimed'
      BY <2>1, <2>3
    <3> QED
      BY <2>1, <3>1 DEF IInv, ClaimsAreContiguous
  <2>8. ClaimsArePrivate'
    <3>1. sent[c] = 0
      BY <2>3 DEF IInv, TypeOK, OneRequestPerAttempt
    <3>2. \A q \in Runs : q # r /\ Holds(q)' => Holds(q) /\ run'[q].claim = run[q].claim /\ run[q].claim \in claimed
      BY <2>4 DEF Holds, IInv, ClaimsArePrivate
    <3>3. Holds(r)' /\ run'[r].claim = c
      BY <2>2, <2>4 DEF Holds
    <3>4. \A q \in Runs : Holds(q)' => run'[q].claim \in claimed' /\ sent'[run'[q].claim] = 0
      BY <2>1, <3>1, <3>2, <3>3 DEF IInv, ClaimsArePrivate
    <3>5. \A p, q \in Runs : Holds(p)' /\ Holds(q)' /\ run'[p].claim = run'[q].claim => p = q
      BY <2>3, <3>2, <3>3 DEF IInv, ClaimsArePrivate
    <3> QED
      BY <3>4, <3>5 DEF ClaimsArePrivate
  <2>9. ScansAreSound'
    <3>1. ScanSound(run[r])' /\ \A q \in Runs : q # r => ScanSound(run[q])'
      BY <1>1, <2>1, <2>2, <2>4 DEF IInv, ScansAreSound, ScanSound
    <3> QED
      BY <3>1 DEF ScansAreSound
  <2>10. ResponsesAreCommitted'
    <3>1. \A q \in Runs : ResponseSound(run[q])'
      BY <1>1, <2>1, <2>2, <2>4 DEF IInv, ResponsesAreCommitted, ResponseSound
    <3> QED
      BY <1>1, <2>1, <3>1 DEF ResponsesAreCommitted
  <2> QED
    BY <2>5, <2>6, <2>7, <2>8, <2>9, <2>10 DEF IInv
<1>3. CASE ~ MaySave(r, c \in claimed)
  <2> DEFINE new == [run[r] EXCEPT !.pc = "scan", !.for = "claim", !.claim = 0]
  <2>1. new \in RunState
    <3>1. 0 \in 0..AttemptLimit
      BY ProviderAssumption
    <3> QED
      BY <1>1, <3>1 DEF RunState, Pcs
  <2>2. /\ Go(r, new) /\ UNCHANGED <<gen, open, response, claimed, sent>>
        /\ returned' \subseteq {response} /\ 0 \notin returned'
        /\ ledger' \in Ledger /\ lives' \in 0..Lives
    BY <1>1, <1>3 DEF ClaimAttempt, shared
  <2>3. /\ new.pc \in {"charge", "request"} => Holds(r) /\ new.claim = run[r].claim
        /\ ScanSound(new) /\ ResponseSound(new)
    BY <1>1, <2>1 DEF ScanSound, ResponseSound, Holds, RunState
  <2> HIDE DEF new
  <2> QED
    BY <2>1, <2>2, <2>3, QuietStep
<1> QED
  BY <1>2, <1>3

\* A request spends the claim that run r holds, which paid for nothing yet.
LEMMA RequestGoesOut ==
    ASSUME IInv, NEW r \in Runs, NEW new \in RunState, Go(r, new), run[r].pc = "request",
           sent' = [sent EXCEPT ![run[r].claim] = @ + 1],
           UNCHANGED <<gen, open, response, claimed, ledger, lives, returned>>,
           new.pc \notin {"charge", "request"}, ScanSound(new), ResponseSound(new)
    PROVE  IInv'
<1> DEFINE c == run[r].claim
<1>0. run \in [Runs -> RunState] /\ claimed \subseteq 1..AttemptLimit /\ sent \in [1..AttemptLimit -> Nat]
  BY DEF IInv, TypeOK
<1>1. /\ run' \in [Runs -> RunState] /\ run'[r] = new
      /\ \A q \in Runs : q # r => run'[q] = run[q]
  BY <1>0, OneRunMoves
<1>2. Holds(r) /\ c \in claimed /\ c \in 1..AttemptLimit /\ sent[c] = 0
  BY <1>0 DEF IInv, ClaimsArePrivate, Holds
<1>3. sent' \in [1..AttemptLimit -> Nat] /\ sent'[c] = 1 /\ \A n \in 1..AttemptLimit : n # c => sent'[n] = sent[n]
  BY <1>0, <1>2
<1>4. TypeOK'
  BY <1>1, <1>3 DEF IInv, TypeOK
<1>5. OneRequestPerAttempt' /\ ClaimsAreContiguous'
  BY <1>2, <1>3 DEF IInv, OneRequestPerAttempt, ClaimsAreContiguous
<1>6. ClaimsArePrivate'
  <2>1. \A q \in Runs : Holds(q)' => /\ q # r /\ Holds(q) /\ run'[q].claim = run[q].claim
                                     /\ run[q].claim \in claimed /\ sent[run[q].claim] = 0
                                     /\ run[q].claim # c
    BY <1>1, <1>2 DEF Holds, IInv, ClaimsArePrivate
  <2> QED
    BY <1>0, <1>3, <2>1 DEF IInv, ClaimsArePrivate
<1>7. ScansAreSound'
  <2>1. \A q \in Runs : ScanSound(run'[q])
    BY <1>1 DEF IInv, ScansAreSound
  <2> QED
    BY <2>1 DEF ScansAreSound, ScanSound
<1>8. ResponsesAreCommitted'
  <2>1. \A q \in Runs : ResponseSound(run'[q])
    BY <1>1 DEF IInv, ResponsesAreCommitted
  <2> QED
    BY <2>1 DEF IInv, ResponsesAreCommitted, ResponseSound
<1> QED
  BY <1>4, <1>5, <1>6, <1>7, <1>8 DEF IInv

\* The request that execute_serpapi_get sends, with an answer.
LEMMA SendRequestStep == ASSUME IInv, NEW r \in Runs, SendRequest(r) PROVE IInv'
<1>1. /\ run[r] \in RunState /\ run[r].pc = "request" /\ run[r].claim \in 1..AttemptLimit
      /\ ScanSound(run[r]) /\ ResponseSound(run[r])
  BY DEF IInv, TypeOK, ScansAreSound, ResponsesAreCommitted, ClaimsArePrivate, Holds, SendRequest, At
<1>2. PICK outcome \in Outcomes \ {"none"} :
          Go(r, [run[r] EXCEPT !.pc = "complete", !.outcome = outcome, !.value = run[r].claim])
  BY DEF SendRequest
<1> DEFINE new == [run[r] EXCEPT !.pc = "complete", !.outcome = outcome, !.value = run[r].claim]
<1>3. new \in RunState
  BY <1>1 DEF RunState, Pcs
<1>4. new.pc = "complete" /\ ScanSound(new) /\ ResponseSound(new)
  BY <1>1 DEF RunState, ScanSound, ResponseSound
<1>5. /\ Go(r, new) /\ sent' = [sent EXCEPT ![run[r].claim] = @ + 1]
      /\ UNCHANGED <<gen, open, response, claimed, ledger, lives, returned>>
  BY <1>2 DEF SendRequest, shared
<1> HIDE DEF new
<1> QED
  BY <1>1, <1>3, <1>4, <1>5, RequestGoesOut

\* asyncio.timeout ends a request without an answer, or the loop of a fenced run.
LEMMA TotalTimeoutStep == ASSUME IInv, NEW r \in Runs, TotalTimeout(r) PROVE IInv'
<1>1. /\ run[r] \in RunState /\ ledger \in Ledger /\ lives \in 0..Lives /\ gen \in 1..MaxGen
      /\ ScanSound(run[r]) /\ ResponseSound(run[r])
      /\ returned \subseteq {response} /\ 0 \notin returned
      /\ UNCHANGED <<gen, open, response, claimed, ledger, lives, returned>>
  BY DEF IInv, TypeOK, ScansAreSound, ResponsesAreCommitted, TotalTimeout, shared
<1>2. CASE At(r, "request")
  <2> DEFINE new == [run[r] EXCEPT !.pc = "circuit_failure", !.outcome = "retryable", !.value = run[r].claim]
  <2>1. new \in RunState
    BY <1>1 DEF RunState, Pcs, Outcomes
  <2>2. new.pc = "circuit_failure" /\ ScanSound(new) /\ ResponseSound(new)
    BY <1>1, <1>2 DEF RunState, ScanSound, ResponseSound, At
  <2>3. run[r].pc = "request" /\ Go(r, new) /\ sent' = [sent EXCEPT ![run[r].claim] = @ + 1]
    BY <1>2 DEF TotalTimeout, InClaimLoop, At
  <2> HIDE DEF new
  <2> QED
    BY <1>1, <2>1, <2>2, <2>3, RequestGoesOut
<1>3. CASE ~ At(r, "request")
  <2> DEFINE new == [Scanned(r) EXCEPT !.pc = "circuit_failure", !.outcome = "retryable"]
  <2>1. new \in RunState
    <3>1. Scanned(r) \in RunState
      BY <1>1, ScannedRuns
    <3> QED
      BY <3>1 DEF RunState, Pcs, Outcomes
  <2>2. new.pc = "circuit_failure" /\ ScanSound(new) /\ ResponseSound(new)
    BY <1>1, <1>3 DEF RunState, Scanned, ScanSound, ResponseSound, At
  <2>3. Go(r, new) /\ UNCHANGED sent
    BY <1>3 DEF TotalTimeout
  <2> HIDE DEF new
  <2> QED
    BY <1>1, <2>1, <2>2, <2>3, QuietStep
<1> QED
  BY <1>2, <1>3

\* The first current run to save a response commits it; nobody has returned
\* one before.
LEMMA SaveResponseStep == ASSUME IInv, NEW r \in Runs, SaveResponse(r) PROVE IInv'
<1>1. /\ run \in [Runs -> RunState] /\ run[r] \in RunState /\ run[r].pc = "save" /\ run[r].value # 0
      /\ ledger \in Ledger /\ lives \in 0..Lives /\ gen \in 1..MaxGen
      /\ ScanSound(run[r]) /\ ResponseSound(run[r])
      /\ returned \subseteq {response} /\ 0 \notin returned
      /\ UNCHANGED <<gen, open, claimed, ledger, lives, sent, returned>>
  BY DEF IInv, TypeOK, ScansAreSound, ResponsesAreCommitted, ResponseSound, SaveResponse, At, shared
<1> DEFINE new == [run[r] EXCEPT !.pc = "reread"]
<1>2. new \in RunState /\ new.pc = "reread" /\ ScanSound(new)
      /\ new.gen = run[r].gen /\ new.value = run[r].value
  BY <1>1 DEF RunState, Pcs, ScanSound
<1>3. CASE MaySave(r, response # 0) /\ response' = run[r].value /\ Step(r, "reread")
  <2>1. response = 0 /\ returned = {} /\ response' # 0 /\ response' \in 0..AttemptLimit
    BY <1>1, <1>3 DEF MaySave, RunState
  <2>2. /\ run' \in [Runs -> RunState] /\ run'[r] = new
        /\ \A q \in Runs : q # r => run'[q] = run[q]
    BY <1>1, <1>2, <1>3, OneRunMoves DEF Step
  <2> HIDE DEF new
  <2>3. TypeOK'
    BY <1>1, <2>1, <2>2 DEF IInv, TypeOK
  <2>4. OneRequestPerAttempt' /\ ClaimsAreContiguous'
    BY <1>1 DEF IInv, OneRequestPerAttempt, ClaimsAreContiguous
  <2>5. ClaimsArePrivate'
    <3>1. \A q \in Runs : Holds(q)' => Holds(q) /\ run'[q].claim = run[q].claim
      BY <1>2, <2>2 DEF Holds
    <3> QED
      BY <1>1, <3>1 DEF IInv, ClaimsArePrivate
  <2>6. ScansAreSound'
    <3>1. \A q \in Runs : ScanSound(run'[q])
      BY <1>2, <2>2 DEF IInv, ScansAreSound
    <3> QED
      BY <1>1, <3>1 DEF ScansAreSound, ScanSound
  <2>7. ResponsesAreCommitted'
    <3>1. ResponseSound(run[r])'
      BY <1>1, <1>2, <2>1, <2>2 DEF ResponseSound
    <3>2. \A q \in Runs : q # r => ResponseSound(run[q])'
      BY <1>1, <2>1, <2>2 DEF IInv, ResponsesAreCommitted, ResponseSound
    <3> QED
      BY <1>1, <2>1, <3>1, <3>2 DEF ResponsesAreCommitted
  <2> QED
    BY <2>3, <2>4, <2>5, <2>6, <2>7 DEF IInv
<1>4. CASE ~ MaySave(r, response # 0) /\ response' = response /\ Step(r, "reread")
  <2>1. ResponseSound(new)
    BY <1>1, <1>2, <1>4 DEF ResponseSound, MaySave, Current
  <2>2. Go(r, new)
    BY <1>4 DEF Step
  <2> HIDE DEF new
  <2> QED
    BY <1>1, <1>2, <1>4, <2>1, <2>2, QuietStep
<1>5. CASE response' = response /\ Fails(r)
  <2> DEFINE end == [Begun(run[r].gen) EXCEPT !.pc = "failed"]
  <2>1. end \in RunState
    <3>1. run[r].gen \in 0..MaxGen /\ "failed" \in Pcs
      BY <1>1 DEF RunState, Pcs, Ended
    <3> QED
      BY <3>1, BegunRuns
  <2>2. Go(r, end)
    BY <1>5 DEF Fails, Ends
  <2>3. end.pc = "failed" /\ ScanSound(end) /\ ResponseSound(end)
    BY <1>1 DEF Begun, ScanSound, ResponseSound, RunState
  <2> HIDE DEF end
  <2> QED
    BY <1>1, <1>5, <2>1, <2>2, <2>3, QuietStep
<1> QED
  BY <1>3, <1>4, <1>5 DEF SaveResponse

\* A takeover or the end of the job fences runs and changes nothing they know.
LEMMA JobStep == ASSUME IInv, TakeOver \/ FinishJob PROVE IInv'
<1>1. /\ UNCHANGED <<response, claimed, ledger, run, lives, sent, returned>>
      /\ gen \in 1..MaxGen /\ gen' \in 1..MaxGen /\ gen <= gen' /\ open' \in BOOLEAN
      /\ (open' /\ gen' = gen) => open
      /\ run \in [Runs -> RunState]
  <2>1. gen \in 1..MaxGen /\ open \in BOOLEAN /\ run \in [Runs -> RunState]
    BY DEF IInv, TypeOK
  <2>2. UNCHANGED <<response, claimed, ledger, run, lives, sent, returned>>
    BY DEF TakeOver, FinishJob
  <2>3. gen' \in 1..MaxGen /\ gen <= gen'
    BY <2>1, ProviderAssumption DEF TakeOver, FinishJob
  <2>4. open' \in BOOLEAN /\ (open' => open)
    BY <2>1, Zenon DEF TakeOver, FinishJob
  <2> QED
    BY <2>1, <2>2, <2>3, <2>4
<1>2. TypeOK'
  BY <1>1 DEF IInv, TypeOK
<1>3. OneRequestPerAttempt' /\ ClaimsAreContiguous' /\ ClaimsArePrivate' /\ ScansAreSound'
  BY <1>1 DEF IInv, OneRequestPerAttempt, ClaimsAreContiguous, ClaimsArePrivate, Holds, ScansAreSound, ScanSound
<1>4. ResponsesAreCommitted'
  <2>1. \A q \in Runs : ResponseSound(run[q]) /\ run[q].gen \in 0..MaxGen
    BY <1>1 DEF IInv, ResponsesAreCommitted, RunState
  <2>2. \A q \in Runs : ResponseSound(run[q])'
    BY <1>1, <2>1, ProviderAssumption DEF ResponseSound
  <2> QED
    BY <1>1, <2>2 DEF IInv, ResponsesAreCommitted
<1> QED
  BY <1>2, <1>3, <1>4 DEF IInv

\* Every step of ProviderCalls keeps the inductive invariant.
LEMMA NextIInv == IInv /\ [Next]_vars => IInv'
<1> SUFFICES ASSUME IInv, [Next]_vars PROVE IInv'
  OBVIOUS
<1>1. CASE TakeOver \/ FinishJob
  BY <1>1, JobStep
<1>2. ASSUME NEW r \in Runs, BeginRun(r) \/ Crash(r) \/ TotalTimeout(r) PROVE IInv'
  BY <1>2, BeginRunStep, CrashStep, TotalTimeoutStep
<1>3. ASSUME NEW r \in Runs, RunStep(r) PROVE IInv'
  BY <1>3, LookupStep, RecordCheckpointHitStep, ScanNextStep, ScanDoneStep, BeforeCallStep, ClaimAttemptStep,
     ClaimCostStep, SendRequestStep, CompleteClaimStep, RecordFailureStep, RecordSuccessStep, SaveResponseStep,
     ReadCanonicalStep DEF RunStep
<1>4. CASE UNCHANGED vars
  BY <1>4 DEF vars, IInv, TypeOK, OneRequestPerAttempt, ClaimsAreContiguous, ClaimsArePrivate, Holds,
     ScansAreSound, ScanSound, ResponsesAreCommitted, ResponseSound
<1> QED
  BY <1>1, <1>2, <1>3, <1>4 DEF Next

\* The inductive invariant holds in every reachable state of every instance.
THEOREM CallInvariant == Spec => []IInv
<1>1. Init => IInv
  BY InitIInv
<1>2. IInv /\ [Next]_vars => IInv'
  BY NextIInv
<1> QED
  BY <1>1, <1>2, PTL DEF Spec

\* The checkpoints, the ledger and what runs know of them stay in their ranges.
THEOREM CallTypeCorrect == Spec => []TypeOK
<1>1. IInv => TypeOK
  BY DEF IInv
<1> QED
  BY <1>1, CallInvariant, PTL

\* ProviderAttemptLedger: whatever crashes, is fenced or is delivered twice,
\* no attempt number pays for two requests, and none goes out unclaimed.
THEOREM AttemptsPayOnce == Spec => []OneRequestPerAttempt
<1>1. IInv => OneRequestPerAttempt
  BY DEF IInv
<1> QED
  BY <1>1, CallInvariant, PTL

\* ProviderAttemptLedger._existing and claim, which are not atomic, leave no
\* hole among the claimed attempt numbers.
THEOREM ClaimsHaveNoHoles == Spec => []ClaimsAreContiguous
<1>1. IInv => ClaimsAreContiguous
  BY DEF IInv
<1> QED
  BY <1>1, CallInvariant, PTL

\* CheckpointedSerpProvider.search hands one response to the stage, whichever
\* of any number of current runs asks for it.
THEOREM ResponsesAgree == Spec => []OneCanonicalResponse
<1>1. IInv => OneCanonicalResponse
  <2> SUFFICES ASSUME IInv PROVE Cardinality(returned) <= 1
    BY DEF OneCanonicalResponse
  <2>1. returned = {} \/ returned = {response}
    BY DEF IInv, ResponsesAreCommitted
  <2>2. Cardinality({}) = 0 /\ Cardinality({response}) = 1
    BY FS_EmptySet, FS_Singleton
  <2> QED
    BY <2>1, <2>2
<1> QED
  BY <1>1, CallInvariant, PTL

-----------------------------------------------------------------------------
(* Corrupt claims.                                                           *)

\* What one run does in a step: it stays known, its generation is its own or the
\* current one, a gap it has found stays where it is, and what it claims to request
\* or complete is what it charged or requested.
Moves(s, t) ==
    /\ s.pc # "none" => t.pc # "none"
    /\ t.gen = s.gen \/ t.gen = gen
    /\ t.pc = "scan" /\ t.gap =>
          s.pc = "scan" /\ t.gen = s.gen /\ t.found = s.found /\ (s.gap \/ s.seen + 1 \notin claimed)
    /\ s.pc = "scan" /\ t.pc = "corrupt" => s.gap /\ s.seen + 1 \in claimed

\* A new claim is made by a current run that then goes on to charge it.
ClaimsMove ==
    \/ UNCHANGED claimed
    \/ \E q \in Runs : /\ Current(q) /\ run[q].pc = "claim" /\ run'[q].pc = "charge"
                       /\ claimed' = claimed \cup {run[q].claim}

\* A run that ends: its record is that of a run that begins, except where it stands.
LEMMA EndedRuns ==
    ASSUME NEW r \in Runs, NEW pc, run \in [Runs -> RunState], Ends(r, pc)
    PROVE  run'[r].pc = pc /\ run'[r].gen = run[r].gen /\ ~ run'[r].gap
<1>1. run'[r] = [Begun(run[r].gen) EXCEPT !.pc = pc]
  BY DEF Ends, Go
<1> QED
  BY <1>1 DEF Begun

\* count, claim and the audit go on, or the call fails.
LEMMA ScanDoneMoves ==
    ASSUME NEW r \in Runs, run \in [Runs -> RunState], ScanDone(r)
    PROVE  /\ run[r].pc = "scan" /\ UNCHANGED <<shared, claimed>>
           /\ \/ Ends(r, "failed")
              \/ /\ run'[r].pc \in {"circuit", "claim", "failed", "save"} /\ run'[r].gen = run[r].gen
                 /\ \A q \in Runs \ {r} : run'[q] = run[q]
<1>1. Scanned(r).gen = run[r].gen /\ Scanned(r) \in RunState /\ run[r] \in RunState
  BY ScannedRuns, ZenonT(60) DEF Scanned, RunState
<1>2. \/ Ends(r, "failed")
      \/ \E pc \in {"circuit", "failed", "save"} : run' = [run EXCEPT ![r] = [Scanned(r) EXCEPT !.pc = pc]]
      \/ run' = [run EXCEPT ![r] = [Scanned(r) EXCEPT !.pc = "claim", !.claim = run[r].found + 1]]
  BY DEF ScanDone, Fails, Go
<1>3. ASSUME NEW pc \in {"circuit", "failed", "save"}, run' = [run EXCEPT ![r] = [Scanned(r) EXCEPT !.pc = pc]]
      PROVE  run'[r].pc = pc /\ run'[r].gen = run[r].gen /\ \A q \in Runs \ {r} : run'[q] = run[q]
  BY <1>1, <1>3 DEF RunState
<1>4. ASSUME run' = [run EXCEPT ![r] = [Scanned(r) EXCEPT !.pc = "claim", !.claim = run[r].found + 1]]
      PROVE  run'[r].pc = "claim" /\ run'[r].gen = run[r].gen /\ \A q \in Runs \ {r} : run'[q] = run[q]
  BY <1>1, <1>4 DEF RunState
<1>5. run[r].pc = "scan" /\ UNCHANGED <<shared, claimed>>
  BY DEF ScanDone, At
<1> QED
  BY <1>2, <1>3, <1>4, <1>5

\* The breaker refuses the call, the keys are collected, or there is none.
LEMMA BeforeCallMoves ==
    ASSUME NEW r \in Runs, run \in [Runs -> RunState], BeforeCall(r)
    PROVE  /\ run[r].pc = "circuit" /\ UNCHANGED <<shared, claimed>>
           /\ \/ Ends(r, "failed")
              \/ /\ run'[r].pc \in {"scan", "circuit_failure"} /\ run'[r].gen = run[r].gen /\ run'[r].gap = run[r].gap
                 /\ \A q \in Runs \ {r} : run'[q] = run[q]
<1>1. run[r] \in RunState /\ run[r].pc = "circuit" /\ UNCHANGED <<shared, claimed>>
  BY DEF BeforeCall, At
<1>2. \/ Ends(r, "failed")
      \/ \E k \in 1..KeyCount : run' = [run EXCEPT ![r] = [run[r] EXCEPT !.pc = "scan", !.for = "claim", !.keys = k]]
      \/ run' = [run EXCEPT ![r] = [run[r] EXCEPT !.pc = "circuit_failure", !.outcome = "retryable"]]
  BY DEF BeforeCall, Fails, Go
<1>3. ASSUME NEW k \in 1..KeyCount,
             run' = [run EXCEPT ![r] = [run[r] EXCEPT !.pc = "scan", !.for = "claim", !.keys = k]]
      PROVE  /\ run'[r].pc = "scan" /\ run'[r].gen = run[r].gen /\ run'[r].gap = run[r].gap
             /\ \A q \in Runs \ {r} : run'[q] = run[q]
  BY <1>1, <1>3 DEF RunState
<1>4. ASSUME run' = [run EXCEPT ![r] = [run[r] EXCEPT !.pc = "circuit_failure", !.outcome = "retryable"]]
      PROVE  /\ run'[r].pc = "circuit_failure" /\ run'[r].gen = run[r].gen /\ run'[r].gap = run[r].gap
             /\ \A q \in Runs \ {r} : run'[q] = run[q]
  BY <1>1, <1>4 DEF RunState
<1> QED
  BY <1>1, <1>2, <1>3, <1>4

\* A current run saves its claim, any other one reads the claims again.
LEMMA ClaimAttemptMoves ==
    ASSUME NEW r \in Runs, run \in [Runs -> RunState], ClaimAttempt(r)
    PROVE  /\ run[r].pc = "claim" /\ UNCHANGED shared
           /\ \/ run'[r].pc = "charge" /\ Current(r) /\ claimed' = claimed \cup {run[r].claim}
              \/ run'[r].pc = "scan" /\ UNCHANGED claimed
           /\ run'[r].gen = run[r].gen /\ run'[r].gap = run[r].gap
           /\ \A q \in Runs \ {r} : run'[q] = run[q]
<1>1. run[r] \in RunState /\ run[r].pc = "claim" /\ UNCHANGED shared
  BY DEF ClaimAttempt, At
<1>2. \/ /\ run' = [run EXCEPT ![r] = [run[r] EXCEPT !.pc = "charge"]]
         /\ Current(r) /\ claimed' = claimed \cup {run[r].claim}
      \/ /\ run' = [run EXCEPT ![r] = [run[r] EXCEPT !.pc = "scan", !.for = "claim", !.claim = 0]]
         /\ UNCHANGED claimed
  BY DEF ClaimAttempt, Step, MaySave, Go
<1>3. /\ \/ run'[r].pc = "charge" /\ Current(r) /\ claimed' = claimed \cup {run[r].claim}
         \/ run'[r].pc = "scan" /\ UNCHANGED claimed
      /\ run'[r].gen = run[r].gen /\ run'[r].gap = run[r].gap
      /\ \A q \in Runs \ {r} : run'[q] = run[q]
  <2>1. ASSUME run' = [run EXCEPT ![r] = [run[r] EXCEPT !.pc = "charge"]]
        PROVE  /\ run'[r].pc = "charge" /\ run'[r].gen = run[r].gen /\ run'[r].gap = run[r].gap
               /\ \A q \in Runs \ {r} : run'[q] = run[q]
    BY <1>1, <2>1 DEF RunState
  <2>2. ASSUME run' = [run EXCEPT ![r] = [run[r] EXCEPT !.pc = "scan", !.for = "claim", !.claim = 0]]
        PROVE  /\ run'[r].pc = "scan" /\ run'[r].gen = run[r].gen /\ run'[r].gap = run[r].gap
               /\ \A q \in Runs \ {r} : run'[q] = run[q]
    BY <1>1, <2>2 DEF RunState
  <2> QED
    BY <1>2, <2>1, <2>2
<1> QED
  BY <1>1, <1>3

\* after_attempt leaves a run with the next key or at the breaker.
LEMMA CompletedRuns ==
    ASSUME NEW r \in Runs, run \in [Runs -> RunState], CompleteClaim(r)
    PROVE  /\ run[r].pc = "complete" /\ run'[r].pc \in {"circuit_success", "scan", "circuit_failure"}
           /\ run'[r].gen = run[r].gen /\ run'[r].gap = run[r].gap
           /\ \A q \in Runs : q # r => run'[q] = run[q]
           /\ UNCHANGED <<shared, claimed, sent>>
<1>1. run[r] \in RunState /\ run[r].pc = "complete" /\ UNCHANGED <<shared, claimed, sent>>
  BY DEF CompleteClaim, At
<1>2. \/ run' = [run EXCEPT ![r] = [run[r] EXCEPT !.pc = "circuit_success"]]
      \/ run' = [run EXCEPT ![r] = [run[r] EXCEPT !.pc = "scan", !.for = "claim", !.keys = @ - 1, !.claim = 0,
                                                  !.outcome = "none"]]
      \/ run' = [run EXCEPT ![r] = [run[r] EXCEPT !.pc = "circuit_failure", !.outcome = "retryable"]]
      \/ run' = [run EXCEPT ![r] = [run[r] EXCEPT !.pc = "circuit_failure"]]
  BY DEF CompleteClaim, Step, Go
<1>3. /\ run'[r].pc \in {"circuit_success", "scan", "circuit_failure"}
      /\ run'[r].gen = run[r].gen /\ run'[r].gap = run[r].gap
      /\ \A q \in Runs : q # r => run'[q] = run[q]
  <2>1. CASE run' = [run EXCEPT ![r] = [run[r] EXCEPT !.pc = "circuit_success"]]
    BY <1>1, <2>1 DEF RunState
  <2>2. CASE run' = [run EXCEPT ![r] = [run[r] EXCEPT !.pc = "scan", !.for = "claim", !.keys = @ - 1, !.claim = 0,
                                                   !.outcome = "none"]]
    BY <1>1, <2>2 DEF RunState
  <2>3. CASE run' = [run EXCEPT ![r] = [run[r] EXCEPT !.pc = "circuit_failure", !.outcome = "retryable"]]
    BY <1>1, <2>3 DEF RunState
  <2>4. CASE run' = [run EXCEPT ![r] = [run[r] EXCEPT !.pc = "circuit_failure"]]
    BY <1>1, <2>4 DEF RunState
  <2> QED
    BY <1>2, <2>1, <2>2, <2>3, <2>4
<1> QED
  BY <1>1, <1>3

\* asyncio.timeout leaves a run at the breaker.
LEMMA TimedOutRuns ==
    ASSUME NEW r \in Runs, run \in [Runs -> RunState], TotalTimeout(r)
    PROVE  /\ run[r].pc # "none" /\ run'[r].pc = "circuit_failure" /\ run'[r].gen = run[r].gen
           /\ \A q \in Runs : q # r => run'[q] = run[q]
           /\ UNCHANGED <<shared, claimed, ledger>>
           /\ run[r].pc # "request" => UNCHANGED sent
<1>1. Scanned(r) \in RunState /\ Scanned(r).gen = run[r].gen /\ run[r] \in RunState
  BY ScannedRuns, ZenonT(60) DEF Scanned, RunState
<1>2. \/ run' = [run EXCEPT ![r] = [run[r] EXCEPT !.pc = "circuit_failure", !.outcome = "retryable", !.value = run[r].claim]]
      \/ run' = [run EXCEPT ![r] = [Scanned(r) EXCEPT !.pc = "circuit_failure", !.outcome = "retryable"]]
  BY DEF TotalTimeout, Go
<1>3. run'[r].pc = "circuit_failure" /\ run'[r].gen = run[r].gen /\ \A q \in Runs : q # r => run'[q] = run[q]
  <2>1. CASE run' = [run EXCEPT ![r] = [run[r] EXCEPT !.pc = "circuit_failure", !.outcome = "retryable", !.value = run[r].claim]]
    BY <1>1, <2>1 DEF RunState
  <2>2. CASE run' = [run EXCEPT ![r] = [Scanned(r) EXCEPT !.pc = "circuit_failure", !.outcome = "retryable"]]
    BY <1>1, <2>2 DEF RunState
  <2> QED
    BY <1>2, <2>1, <2>2
<1>4. run[r].pc # "none" /\ UNCHANGED <<shared, claimed, ledger>> /\ (run[r].pc # "request" => UNCHANGED sent)
  BY DEF TotalTimeout, InClaimLoop, At
<1> QED
  BY <1>3, <1>4

\* Every step of a run moves it as described.
LEMMA RunStepMoves ==
    ASSUME IInv, NEW r \in Runs, BeginRun(r) \/ Crash(r) \/ RunStep(r) \/ TotalTimeout(r)
    PROVE  /\ Moves(run[r], run'[r]) /\ \A q \in Runs \ {r} : run'[q] = run[q]
           /\ ClaimsMove /\ UNCHANGED shared
<1>1. run \in [Runs -> RunState] /\ ScanSound(run[r]) /\ run[r] \in RunState
  BY DEF IInv, TypeOK, ScansAreSound
<1>2. \A new : Go(r, new) => run'[r] = new /\ \A q \in Runs \ {r} : run'[q] = run[q]
  BY <1>1 DEF Go
<1>3. \A pc : Ends(r, pc) => \A q \in Runs \ {r} : run'[q] = run[q]
  BY <1>2 DEF Ends
<1>4. \A pc : Ends(r, pc) => run'[r].pc = pc /\ run'[r].gen = run[r].gen /\ ~ run'[r].gap
  BY <1>1, EndedRuns
<1>5. CASE BeginRun(r)
  BY <1>1, <1>5 DEF Go, BeginRun, Begun, Moves, ClaimsMove, shared
<1>6. CASE Crash(r)
  BY <1>1, <1>3, <1>4, <1>6 DEF Crash, Moves, ClaimsMove, shared
<1>7. CASE Lookup(r)
  BY <1>1, <1>7, ZenonT(60) DEF Go, Lookup, At, ScanSound, Moves, ClaimsMove, RunState
<1>8. CASE RecordCheckpointHit(r)
  BY <1>1, <1>3, <1>4, <1>8 DEF RecordCheckpointHit, At, Moves, ClaimsMove
<1>9. CASE ScanNext(r)
  <2>1. CASE run[r].seen + 1 \in claimed /\ run[r].gap
    BY <1>1, <1>3, <1>4, <1>9, <2>1 DEF ScanNext, At, Moves, ClaimsMove
  <2>2. CASE run[r].seen + 1 \in claimed /\ ~ run[r].gap
    BY <1>1, <1>9, <2>2 DEF Go, ScanNext, At, Moves, ClaimsMove, RunState
  <2>3. CASE run[r].seen + 1 \notin claimed
    <3>1. /\ run' = [run EXCEPT ![r] = [run[r] EXCEPT !.seen = run[r].seen + 1, !.gap = TRUE]] /\ run[r].pc = "scan"
          /\ UNCHANGED <<shared, claimed>>
      BY <1>9, <2>3 DEF ScanNext, At, Go
    <3>2. /\ run'[r].pc = "scan" /\ run'[r].gen = run[r].gen /\ run'[r].found = run[r].found
          /\ \A q \in Runs \ {r} : run'[q] = run[q]
      BY <1>1, <3>1 DEF RunState
    <3> QED
      BY <2>3, <3>1, <3>2 DEF Moves, ClaimsMove
  <2> QED
    BY <2>1, <2>2, <2>3
<1>10. CASE ScanDone(r)
  BY <1>1, <1>3, <1>4, <1>10, ScanDoneMoves DEF Moves, ClaimsMove, shared, ScanSound
<1>11. CASE BeforeCall(r)
  BY <1>1, <1>3, <1>4, <1>11, BeforeCallMoves DEF Moves, ClaimsMove, shared, ScanSound
<1>12. CASE ClaimAttempt(r)
  BY <1>1, <1>3, <1>4, <1>12, ClaimAttemptMoves DEF Moves, ClaimsMove, shared, ScanSound
<1>13. CASE ClaimCost(r)
  BY <1>1, <1>3, <1>4, <1>13 DEF Go, ClaimCost, At, Step, Fails, ScanSound, Moves, ClaimsMove, RunState
<1>14. CASE SendRequest(r)
  BY <1>1, <1>14 DEF Go, SendRequest, At, ScanSound, Moves, ClaimsMove, RunState
<1>15. CASE CompleteClaim(r)
  BY <1>1, <1>15, CompletedRuns DEF ScanSound, Moves, ClaimsMove
<1>16. CASE RecordFailure(r)
  BY <1>1, <1>16 DEF Go, RecordFailure, At, ScanSound, Moves, ClaimsMove, RunState
<1>17. CASE RecordSuccess(r)
  BY <1>1, <1>17 DEF Go, RecordSuccess, At, ScanSound, Moves, ClaimsMove, RunState
<1>18. CASE SaveResponse(r)
  BY <1>1, <1>3, <1>4, <1>18 DEF Go, SaveResponse, At, Step, Fails, ScanSound, Moves, ClaimsMove, RunState
<1>19. CASE ReadCanonical(r)
  BY <1>1, <1>3, <1>4, <1>19 DEF ReadCanonical, At, Moves, ClaimsMove
<1>20. CASE TotalTimeout(r)
  BY <1>1, <1>20, TimedOutRuns DEF Moves, ClaimsMove
<1> QED
  BY <1>5, <1>6, <1>7, <1>8, <1>9, <1>10, <1>11, <1>12, <1>13, <1>14, <1>15, <1>16, <1>17, <1>18, <1>19, <1>20
     DEF RunStep

\* Another run of the current generation is or was there.
Rival(r) == \E q \in Runs \ {r} : run[q].pc # "none" /\ run[q].gen = gen

\* The first number a current run missed is claimed only if it has a rival.
RivalsAreKnown ==
    \A r \in Runs : run[r].pc = "scan" /\ run[r].gap /\ Current(r) /\ run[r].found + 1 \in claimed => Rival(r)

\* Rivals stay known: what a current run missed is claimed by another current run.
LEMMA RivalsStayKnown ==
    ASSUME IInv, RivalsAreKnown, [Next]_vars PROVE RivalsAreKnown'
<1> SUFFICES ASSUME NEW r \in Runs, run'[r].pc = "scan", run'[r].gap, Current(r)',
                    run'[r].found + 1 \in claimed'
             PROVE  Rival(r)'
  BY DEF RivalsAreKnown
<1>0. run \in [Runs -> RunState] /\ ScanSound(run[r]) /\ gen \in Nat /\ \A q \in Runs : run[q].gen <= gen /\ run[q].gen \in Nat
  BY DEF IInv, TypeOK, RunState, ScansAreSound, ResponsesAreCommitted, ResponseSound
<1>1. CASE TakeOver \/ FinishJob
  BY <1>0, <1>1 DEF TakeOver, FinishJob, Current
<1>2. CASE UNCHANGED vars
  BY <1>2 DEF vars, RivalsAreKnown, Rival, Current
<1>3. ASSUME NEW q \in Runs, BeginRun(q) \/ Crash(q) \/ RunStep(q) \/ TotalTimeout(q)
      PROVE  Rival(r)'
  <2>1. /\ Moves(run[q], run'[q]) /\ \A p \in Runs \ {q} : run'[p] = run[p]
        /\ ClaimsMove /\ gen' = gen /\ open' = open
    BY <1>3, RunStepMoves DEF shared
  <2>2. Rival(r) => Rival(r)'
    BY <2>1 DEF Rival, Moves
  <2>3. /\ run[r].pc = "scan" /\ run[r].gen = run'[r].gen /\ run[r].found = run'[r].found
        /\ run[r].gap \/ run[r].seen + 1 \notin claimed
    BY <2>1 DEF Moves
  <2>4. Current(r)
    BY <2>1, <2>3 DEF Current
  <2>5. CASE run[r].found + 1 \notin claimed
    <3>1. PICK p \in Runs : Current(p) /\ run[p].pc = "claim" /\ run'[p].pc = "charge"
      BY <2>1, <2>3, <2>5 DEF ClaimsMove
    <3>2. p # r /\ run'[p].gen = gen
      BY <2>1, <3>1 DEF Moves, Current
    <3> QED
      BY <2>1, <3>1, <3>2 DEF Rival
  <2>6. CASE run[r].found + 1 \in claimed
    <3>1. run[r].gap
      BY <1>0, <2>3, <2>6 DEF ScanSound
    <3> QED
      BY <2>2, <2>3, <2>4, <2>6, <3>1 DEF RivalsAreKnown
  <2> QED
    BY <2>5, <2>6
<1> QED
  BY <1>1, <1>2, <1>3 DEF Next

\* SerpMarketCheckpointError ("attempt checkpoints are corrupt") reaches a current
\* run only if another delivery of its generation claimed while it was reading.
THEOREM CorruptionHasARival == Spec => CorruptionNeedsRival
<1> DEFINE A == \A r \in Runs : (run[r].pc = "scan" /\ run'[r].pc = "corrupt" /\ Current(r)) =>
                    \E q \in Runs \ {r} : run[q].pc # "none" /\ run[q].gen = gen
<1>1. Init => RivalsAreKnown
  BY DEF Init, Begun, RivalsAreKnown
<1>2. IInv /\ RivalsAreKnown /\ [Next]_vars => RivalsAreKnown'
  BY RivalsStayKnown
<1>3. IInv /\ RivalsAreKnown /\ [Next]_vars => [A]_vars
  <2> SUFFICES ASSUME IInv, RivalsAreKnown, Next, NEW r \in Runs,
                      run[r].pc = "scan", run'[r].pc = "corrupt", Current(r)
               PROVE  Rival(r)
    BY DEF Rival
  <2>1. run'[r] # run[r] /\ run[r] \in RunState /\ ScanSound(run[r]) /\ claimed \subseteq 1..AttemptLimit
    BY DEF IInv, TypeOK, ScansAreSound
  <2>2. ~ (TakeOver \/ FinishJob)
    BY <2>1 DEF TakeOver, FinishJob
  <2>3. PICK q \in Runs : BeginRun(q) \/ Crash(q) \/ RunStep(q) \/ TotalTimeout(q)
    BY <2>2 DEF Next
  <2>4. Moves(run[r], run'[r])
    BY <2>1, <2>3, RunStepMoves
  <2>5. run[r].gap /\ run[r].seen + 1 \in claimed
    BY <2>4 DEF Moves
  <2>6. run[r].found + 1 \in 1..(run[r].seen + 1)
    BY <2>1 DEF ScanSound, RunState
  <2>7. run[r].found + 1 \in claimed
    BY <2>5, <2>6 DEF IInv, ClaimsAreContiguous
  <2> QED
    BY <2>5, <2>7 DEF RivalsAreKnown
<1> QED
  BY <1>1, <1>2, <1>3, CallInvariant, PTL DEF Spec, CorruptionNeedsRival

-----------------------------------------------------------------------------
(* The cost ledger.                                                          *)

\* Attempts under which a request went out, and attempts that a run at pc makes.
Paid == {n \in Attempts : sent[n] > 0}
Making(pc) == {n \in Attempts : \E r \in Runs : run[r].pc = pc /\ run[r].claim = n}

\* The ledger has a claim for every request sent or about to be sent, and only
\* requests that no run has still to complete are counted as completed.  Of the
\* runs that have a request to complete, each has one of its own.
ChargesCover ==
    /\ Cardinality(Paid \cup Making("request")) + ledger.others <= ledger.claims
    /\ ledger.completed <= Cardinality(Paid \ Making("complete"))
    /\ \A r \in Runs : run[r].pc = "complete" => run[r].claim \in Paid
    /\ \A r, q \in Runs : run[r].pc = "complete" /\ run[q].pc = "complete" /\ run[r].claim = run[q].claim => r = q

\* Sets of attempts are finite, and a larger set has no fewer members.
LEMMA AttemptSets ==
    ASSUME NEW S, NEW T, T \subseteq Attempts, S \subseteq T
    PROVE  /\ IsFiniteSet(S) /\ Cardinality(S) \in Nat /\ Cardinality(T) \in Nat
           /\ Cardinality(S) <= Cardinality(T)
<1>1. IsFiniteSet(Attempts)
  BY ProviderAssumption, FS_Interval
<1>2. IsFiniteSet(T)
  BY <1>1, FS_Subset
<1> QED
  BY <1>2, FS_Subset, FS_CardinalityType

\* One more attempt makes a set larger by at most one, and by one if it is new.
LEMMA OneMoreAttempt ==
    ASSUME NEW S, NEW T, NEW n, S \subseteq Attempts
    PROVE  /\ T \subseteq S \cup {n} /\ T \subseteq Attempts => Cardinality(T) <= Cardinality(S) + 1
           /\ n \notin S /\ S \cup {n} \subseteq T /\ T \subseteq Attempts => Cardinality(S) + 1 <= Cardinality(T)
<1>1. IsFiniteSet(S) /\ Cardinality(S) \in Nat
  BY AttemptSets
<1>2. /\ IsFiniteSet(S \cup {n})
      /\ Cardinality(S \cup {n}) = IF n \in S THEN Cardinality(S) ELSE Cardinality(S) + 1
  BY <1>1, FS_AddElement
<1>3. T \subseteq S \cup {n} => Cardinality(T) <= Cardinality(S \cup {n}) /\ Cardinality(T) \in Nat
  BY <1>2, FS_Subset, FS_CardinalityType
<1>4. S \cup {n} \subseteq T /\ T \subseteq Attempts => Cardinality(S \cup {n}) <= Cardinality(T) /\ Cardinality(T) \in Nat
  BY AttemptSets
<1> QED
  BY <1>1, <1>2, <1>3, <1>4

\* A step that charges, sends and completes nothing keeps the ledger right, though a
\* run that was to send or complete a request may be lost.
LEMMA QuietLedger ==
    ASSUME IInv, ChargesCover, UNCHANGED <<sent, ledger>>,
           \A q \in Runs : run'[q].pc \in {"request", "complete"} =>
               run'[q].pc = run[q].pc /\ run'[q].claim = run[q].claim
    PROVE  ChargesCover'
<1>1. Paid' = Paid /\ Making("request")' \subseteq Making("request") /\ Making("complete")' \subseteq Making("complete")
  BY DEF Paid, Making
<1>2. /\ (Paid \cup Making("request"))' \subseteq Paid \cup Making("request")
      /\ Paid \ Making("complete") \subseteq (Paid \ Making("complete"))'
      /\ Paid \cup Making("request") \subseteq Attempts /\ (Paid \ Making("complete"))' \subseteq Attempts
  BY <1>1 DEF Paid, Making
<1>3. /\ Cardinality((Paid \cup Making("request"))') <= Cardinality(Paid \cup Making("request"))
      /\ Cardinality(Paid \ Making("complete")) <= Cardinality((Paid \ Making("complete"))')
      /\ Cardinality((Paid \cup Making("request"))') \in Nat /\ Cardinality(Paid \cup Making("request")) \in Nat
      /\ Cardinality((Paid \ Making("complete"))') \in Nat /\ Cardinality(Paid \ Making("complete")) \in Nat
  BY <1>2, AttemptSets
<1>4. ledger.claims \in Nat /\ ledger.others \in Nat /\ ledger.completed \in Nat
  BY DEF IInv, TypeOK, Ledger
<1>5. /\ Cardinality((Paid \cup Making("request"))') + ledger.others <= ledger.claims
      /\ ledger.completed <= Cardinality((Paid \ Making("complete"))')
  BY <1>3, <1>4 DEF ChargesCover
<1> QED
  BY <1>1, <1>5 DEF ChargesCover

\* JobCostLedger.claim admits a request, or refuses it.
LEMMA ClaimCostCovers ==
    ASSUME IInv, ChargesCover, NEW r \in Runs, ClaimCost(r) PROVE ChargesCover'
<1>0. run \in [Runs -> RunState] /\ run[r].pc = "charge" /\ UNCHANGED sent
  BY DEF IInv, TypeOK, ClaimCost, At
<1>1. CASE ledger.claims >= CostLimit /\ UNCHANGED ledger /\ Fails(r)
  BY <1>0, <1>1, EndedRuns, QuietLedger DEF Fails, Ends, Go
<1>2. CASE ledger' = [ledger EXCEPT !.claims = @ + 1] /\ Step(r, "request")
  <2>1. /\ run'[r].pc = "request" /\ run'[r].claim = run[r].claim
        /\ \A q \in Runs : q # r => run'[q] = run[q]
    BY <1>0, <1>2 DEF Step, Go, RunState
  <2>2. /\ ledger.claims \in Nat /\ ledger.others \in Nat /\ ledger.completed \in Nat
        /\ ledger'.claims = ledger.claims + 1 /\ ledger'.others = ledger.others /\ ledger'.completed = ledger.completed
    BY <1>2 DEF IInv, TypeOK, Ledger
  <2>3. Paid' = Paid /\ Making("complete")' = Making("complete")
    BY <1>0, <2>1 DEF Paid, Making
  <2>4. /\ (Paid \cup Making("request"))' \subseteq Paid \cup Making("request") \cup {run[r].claim}
        /\ (Paid \cup Making("request"))' \subseteq Attempts /\ Paid \cup Making("request") \subseteq Attempts
    BY <1>0, <2>1, <2>3 DEF Paid, Making
  <2>5. /\ Cardinality((Paid \cup Making("request"))') <= Cardinality(Paid \cup Making("request")) + 1
        /\ Cardinality((Paid \cup Making("request"))') \in Nat /\ Cardinality(Paid \cup Making("request")) \in Nat
    BY <2>4, OneMoreAttempt, AttemptSets
  <2>6. Cardinality((Paid \cup Making("request"))') + ledger'.others <= ledger'.claims
    BY <2>2, <2>5 DEF ChargesCover
  <2>7. ledger'.completed <= Cardinality((Paid \ Making("complete"))')
    BY <2>2, <2>3 DEF ChargesCover
  <2>8. /\ \A q \in Runs : run'[q].pc = "complete" => run[q].pc = "complete" /\ run'[q].claim = run[q].claim
    BY <2>1
  <2> QED
    BY <2>3, <2>6, <2>7, <2>8 DEF ChargesCover
<1> QED
  BY <1>1, <1>2 DEF ClaimCost

\* A request goes out: it was charged, and nobody has to complete one of its number.
LEMMA RequestCovers ==
    ASSUME IInv, ChargesCover, NEW r \in Runs, NEW new \in RunState, Go(r, new), run[r].pc = "request",
           sent' = [sent EXCEPT ![run[r].claim] = @ + 1], ledger' = ledger,
           new.pc # "request", new.pc = "complete" => new.claim = run[r].claim
    PROVE  ChargesCover'
<1> DEFINE c == run[r].claim
<1>1. /\ run'[r] = new
      /\ \A q \in Runs : q # r => run'[q] = run[q]
  BY OneRunMoves DEF IInv, TypeOK
<1>2. /\ c \in Attempts /\ sent[c] = 0 /\ c \in Making("request") /\ c \notin Paid
      /\ sent \in [Attempts -> Nat]
  <2>1. sent \in [Attempts -> Nat] /\ claimed \subseteq Attempts /\ Holds(r)
    BY DEF IInv, TypeOK, Holds
  <2>2. c \in claimed /\ sent[c] = 0
    BY <2>1 DEF IInv, ClaimsArePrivate
  <2>3. c \in Attempts
    BY <2>1, <2>2
  <2>4. ~ (sent[c] > 0)
    BY <2>2
  <2> QED
    BY <2>1, <2>2, <2>3, <2>4 DEF Making, Paid
<1>3. sent'[c] = 1 /\ \A n \in Attempts : n # c => sent'[n] = sent[n]
  BY <1>2
<1>4. Paid' = Paid \cup {c}
  BY <1>2, <1>3 DEF Paid
<1>5. Making("request")' \subseteq Making("request") /\ Making("complete")' \subseteq Making("complete") \cup {c}
  BY <1>1 DEF Making
<1>6. /\ (Paid \cup Making("request"))' \subseteq Paid \cup Making("request")
      /\ Paid \ Making("complete") \subseteq (Paid \ Making("complete"))'
      /\ Paid \cup Making("request") \subseteq Attempts /\ (Paid \ Making("complete"))' \subseteq Attempts
  BY <1>2, <1>4, <1>5 DEF Paid, Making
<1>7. /\ Cardinality((Paid \cup Making("request"))') <= Cardinality(Paid \cup Making("request"))
      /\ Cardinality(Paid \ Making("complete")) <= Cardinality((Paid \ Making("complete"))')
      /\ Cardinality((Paid \cup Making("request"))') \in Nat /\ Cardinality(Paid \cup Making("request")) \in Nat
      /\ Cardinality((Paid \ Making("complete"))') \in Nat /\ Cardinality(Paid \ Making("complete")) \in Nat
  BY <1>6, AttemptSets
<1>8. ledger.claims \in Nat /\ ledger.others \in Nat /\ ledger.completed \in Nat
  BY DEF IInv, TypeOK, Ledger
<1>9. /\ Cardinality((Paid \cup Making("request"))') + ledger.others <= ledger.claims
      /\ ledger.completed <= Cardinality((Paid \ Making("complete"))')
  BY <1>7, <1>8 DEF ChargesCover
<1>10. \A q \in Runs : run'[q].pc = "complete" =>
          \/ q = r /\ run'[q].claim = c
          \/ run[q].pc = "complete" /\ run'[q].claim = run[q].claim /\ run[q].claim \in Paid /\ run[q].claim # c
  BY <1>1, <1>2 DEF ChargesCover
<1> QED
  BY <1>4, <1>9, <1>10 DEF ChargesCover

\* after_attempt completes a claim whose request went out, once.
LEMMA CompleteCovers ==
    ASSUME IInv, ChargesCover, NEW r \in Runs, CompleteClaim(r) PROVE ChargesCover'
<1> DEFINE c == run[r].claim
<1>1. /\ run \in [Runs -> RunState] /\ run[r].pc = "complete" /\ UNCHANGED sent
      /\ ledger' = [ledger EXCEPT !.completed = @ + 1]
  BY DEF IInv, TypeOK, CompleteClaim, At
<1>2. run'[r].pc \in {"circuit_success", "scan", "circuit_failure"} /\ \A q \in Runs : q # r => run'[q] = run[q]
  BY <1>1, CompletedRuns
<1>3. /\ ledger.claims \in Nat /\ ledger.others \in Nat /\ ledger.completed \in Nat
      /\ ledger'.claims = ledger.claims /\ ledger'.others = ledger.others /\ ledger'.completed = ledger.completed + 1
  BY <1>1 DEF IInv, TypeOK, Ledger
<1>4. Paid' = Paid /\ Making("request")' \subseteq Making("request") /\ Making("complete")' \subseteq Making("complete")
  BY <1>1, <1>2 DEF Paid, Making
<1>5. c \in Paid /\ c \in Making("complete") /\ c \notin Making("complete")'
  <2>1. c \in Paid /\ c \in Attempts
    BY <1>1 DEF ChargesCover, Paid
  <2>2. \A q \in Runs : run'[q].pc = "complete" => q # r /\ run[q].pc = "complete" /\ run'[q].claim = run[q].claim
    BY <1>2
  <2>3. \A q \in Runs : run'[q].pc = "complete" => run'[q].claim # c
    BY <1>1, <2>2 DEF ChargesCover
  <2> QED
    BY <1>1, <2>1, <2>3 DEF Making
<1>6. /\ (Paid \cup Making("request"))' \subseteq Paid \cup Making("request")
      /\ (Paid \ Making("complete")) \cup {c} \subseteq (Paid \ Making("complete"))' /\ c \notin Paid \ Making("complete")
      /\ Paid \cup Making("request") \subseteq Attempts /\ (Paid \ Making("complete"))' \subseteq Attempts
      /\ Paid \ Making("complete") \subseteq Attempts
  BY <1>4, <1>5 DEF Paid, Making
<1>7. /\ Cardinality((Paid \cup Making("request"))') <= Cardinality(Paid \cup Making("request"))
      /\ Cardinality((Paid \cup Making("request"))') \in Nat /\ Cardinality(Paid \cup Making("request")) \in Nat
      /\ Cardinality((Paid \ Making("complete"))') \in Nat /\ Cardinality(Paid \ Making("complete")) \in Nat
  BY <1>6, AttemptSets
<1>8. Cardinality(Paid \ Making("complete")) + 1 <= Cardinality((Paid \ Making("complete"))')
  BY <1>6, OneMoreAttempt
<1>9. /\ Cardinality((Paid \cup Making("request"))') + ledger'.others <= ledger'.claims
      /\ ledger'.completed <= Cardinality((Paid \ Making("complete"))')
  BY <1>3, <1>7, <1>8 DEF ChargesCover
<1>10. \A q \in Runs : run'[q].pc = "complete" => run[q].pc = "complete" /\ run'[q].claim = run[q].claim
  BY <1>2
<1> QED
  BY <1>4, <1>9, <1>10 DEF ChargesCover

\* The other steps of a run bring it to no request and to no completion.
LEMMA OtherStepCovers ==
    ASSUME IInv, ChargesCover, NEW r \in Runs,
           \/ BeginRun(r) \/ Crash(r) \/ Lookup(r) \/ RecordCheckpointHit(r) \/ ScanNext(r) \/ ScanDone(r)
           \/ BeforeCall(r) \/ ClaimAttempt(r) \/ RecordFailure(r) \/ RecordSuccess(r) \/ SaveResponse(r)
           \/ ReadCanonical(r)
    PROVE  ChargesCover'
<1>1. run \in [Runs -> RunState] /\ UNCHANGED <<sent, ledger>>
  BY DEF IInv, TypeOK, BeginRun, Crash, Lookup, RecordCheckpointHit, ScanNext, ScanDone, BeforeCall, ClaimAttempt,
         RecordFailure, RecordSuccess, SaveResponse, ReadCanonical
<1>2. \A q \in Runs : q # r => run'[q] = run[q]
  BY <1>1 DEF BeginRun, Crash, Lookup, RecordCheckpointHit, ScanNext, ScanDone, BeforeCall, ClaimAttempt,
         RecordFailure, RecordSuccess, SaveResponse, ReadCanonical, Step, Fails, Ends, Go
<1>3. run'[r].pc \notin {"request", "complete"}
  <2>0. run[r] \in RunState /\ \A pc : Ends(r, pc) => run'[r].pc = pc
    BY <1>1, EndedRuns
  <2>1. CASE BeginRun(r) \/ Crash(r)
    BY <1>1, <2>0, <2>1 DEF BeginRun, Crash, Go, Begun
  <2>2. CASE Lookup(r) \/ RecordCheckpointHit(r) \/ ReadCanonical(r)
    BY <1>1, <2>0, <2>2, ZenonT(60) DEF Lookup, RecordCheckpointHit, ReadCanonical, Go, RunState
  <2>7. CASE RecordFailure(r) \/ RecordSuccess(r)
    BY <1>1, <2>0, <2>7, ZenonT(60) DEF RecordFailure, RecordSuccess, Go, RunState
  <2>3. CASE ScanNext(r)
    BY <1>1, <2>0, <2>3, ZenonT(60) DEF ScanNext, At, Go, RunState
  <2>4. CASE ScanDone(r)
    BY <1>1, <2>0, <2>4, ScanDoneMoves
  <2>5. CASE BeforeCall(r) \/ ClaimAttempt(r)
    BY <1>1, <2>0, <2>5, BeforeCallMoves, ClaimAttemptMoves
  <2>6. CASE SaveResponse(r)
    BY <1>1, <2>0, <2>6 DEF SaveResponse, Step, Fails, Go, RunState
  <2> QED
    BY <2>1, <2>2, <2>3, <2>4, <2>5, <2>6, <2>7
<1> QED
  BY <1>1, <1>2, <1>3, QuietLedger

\* Every step keeps the ledger right.
LEMMA ChargesStayCovered == ASSUME IInv, ChargesCover, [Next]_vars PROVE ChargesCover'
<1>0. run \in [Runs -> RunState]
  BY DEF IInv, TypeOK
<1>1. CASE TakeOver \/ FinishJob \/ UNCHANGED vars
  BY <1>1, QuietLedger DEF TakeOver, FinishJob, vars
<1>2. ASSUME NEW r \in Runs, SendRequest(r) PROVE ChargesCover'
  <2>1. PICK outcome \in Outcomes \ {"none"} :
            Go(r, [run[r] EXCEPT !.pc = "complete", !.outcome = outcome, !.value = run[r].claim])
    BY <1>2 DEF SendRequest
  <2> DEFINE new == [run[r] EXCEPT !.pc = "complete", !.outcome = outcome, !.value = run[r].claim]
  <2>2. new \in RunState /\ new.pc = "complete" /\ new.claim = run[r].claim
    BY <1>0, ZenonT(60) DEF RunState, Pcs
  <2>3. run[r].pc = "request" /\ Go(r, new) /\ ledger' = ledger /\ sent' = [sent EXCEPT ![run[r].claim] = @ + 1]
    BY <1>2, <2>1 DEF SendRequest, At
  <2> HIDE DEF new
  <2> QED
    BY <2>2, <2>3, RequestCovers
<1>3. ASSUME NEW r \in Runs, TotalTimeout(r) PROVE ChargesCover'
  <2>1. CASE At(r, "request")
    <3> DEFINE new == [run[r] EXCEPT !.pc = "circuit_failure", !.outcome = "retryable", !.value = run[r].claim]
    <3>1. new \in RunState /\ new.pc = "circuit_failure"
      BY <1>0, ZenonT(60) DEF RunState, Pcs, Outcomes
    <3>2. run[r].pc = "request" /\ Go(r, new) /\ ledger' = ledger /\ sent' = [sent EXCEPT ![run[r].claim] = @ + 1]
      BY <1>3, <2>1 DEF TotalTimeout, InClaimLoop, At
    <3> HIDE DEF new
    <3> QED
      BY <3>1, <3>2, RequestCovers
  <2>2. CASE ~ At(r, "request")
    BY <1>0, <1>3, <2>2, TimedOutRuns, QuietLedger DEF At
  <2> QED
    BY <2>1, <2>2
<1>4. ASSUME NEW r \in Runs, BeginRun(r) \/ Crash(r) \/ RunStep(r) PROVE ChargesCover'
  BY <1>2, <1>4, ClaimCostCovers, CompleteCovers, OtherStepCovers DEF RunStep
<1> QED
  BY <1>1, <1>3, <1>4 DEF Next

\* As many requests went out as there are attempts under which one did.
LEMMA RequestsCounted ==
    ASSUME IInv PROVE Cardinality(Requests) = Cardinality(Paid) /\ Cardinality(Paid) \in Nat
<1>1. \A n \in Attempts : sent[n] \in Nat /\ (n \in Paid <=> sent[n] = 1) /\ (n \notin Paid <=> sent[n] = 0)
  BY DEF IInv, TypeOK, OneRequestPerAttempt, Paid
<1>2. Requests = {<<n, 1>> : n \in Paid}
  <2>1. \A n \in Attempts : n \in Paid => {n} \X (1..sent[n]) = {<<n, 1>>}
    BY <1>1
  <2>2. \A n \in Attempts : n \notin Paid => {n} \X (1..sent[n]) = {}
    BY <1>1
  <2> QED
    BY <2>1, <2>2 DEF Requests, Paid
<1>3. IsFiniteSet(Paid) /\ Cardinality(Paid) \in Nat
  BY AttemptSets DEF Paid
<1> DEFINE f == [n \in Paid |-> <<n, 1>>]
<1>4. f \in Bijection(Paid, Requests)
  BY <1>2 DEF Bijection, Injection, Surjection, IsInjective
<1>5. ExistsBijection(Paid, Requests)
  BY <1>4 DEF ExistsBijection
<1> QED
  BY <1>3, <1>5, FS_Bijection

\* JobCostLedger: no request of any number of runs goes out that the ledger has not
\* admitted, and no more are completed than went out.
THEOREM RequestsArePaid == Spec => []RequestsAreCharged
<1>1. Init => ChargesCover
  <2> SUFFICES ASSUME Init PROVE ChargesCover
    OBVIOUS
  <2>1. Paid \cup Making("request") = {} /\ Paid \ Making("complete") = {} /\ \A r \in Runs : run[r].pc = "none"
    BY DEF Init, Begun, Paid, Making
  <2>2. ledger.claims = ledger.others /\ ledger.completed = 0 /\ ledger.others \in Nat
    BY ProviderAssumption DEF Init
  <2> QED
    BY <2>1, <2>2, FS_EmptySet DEF ChargesCover
<1>2. IInv /\ ChargesCover /\ [Next]_vars => ChargesCover'
  BY ChargesStayCovered
<1>3. IInv /\ ChargesCover => RequestsAreCharged
  <2> SUFFICES ASSUME IInv, ChargesCover PROVE RequestsAreCharged
    OBVIOUS
  <2>1. /\ Paid \subseteq Paid \cup Making("request") /\ Paid \cup Making("request") \subseteq Attempts
        /\ Paid \ Making("complete") \subseteq Paid /\ Paid \subseteq Attempts
    BY DEF Paid, Making
  <2>2. /\ Cardinality(Paid) <= Cardinality(Paid \cup Making("request"))
        /\ Cardinality(Paid \ Making("complete")) <= Cardinality(Paid)
        /\ Cardinality(Paid \cup Making("request")) \in Nat /\ Cardinality(Paid \ Making("complete")) \in Nat
    BY <2>1, AttemptSets
  <2>3. /\ ledger.claims \in Nat /\ ledger.others \in Nat /\ ledger.completed \in Nat /\ ledger.claims <= CostLimit
    BY ProviderAssumption DEF IInv, TypeOK, Ledger
  <2> QED
    BY <2>2, <2>3, RequestsCounted DEF ChargesCover, RequestsAreCharged
<1> QED
  BY <1>1, <1>2, <1>3, CallInvariant, PTL DEF Spec

=============================================================================

------------------------------- MODULE JobStream -------------------------------
(***************************************************************************)
(* The live stream of one job's states (api/v2/runtime.py).  A process     *)
(* that changes the job commits a snapshot and publishes its revision in a *)
(* second command; a stream subscribes, reads the snapshot, and reads it   *)
(* again whenever a message arrives.  The competitor jobs publish in the   *)
(* same way (competitors_v22/store.py).                                    *)
(***************************************************************************)
EXTENDS Naturals

CONSTANTS
    Streams,        \* connections of clients
    MaxRevision     \* bound on the revisions of the job

VARIABLES
    snapshot,       \* [revision, terminal]; revision 0: the state key is gone
    unpublished,    \* committed revisions whose PUBLISH is still to come
    stream,         \* [Streams -> record]
    endUnpublished,          \* history: the end of the job was committed and never published
    reborn          \* history: the job was registered again from revision 1

streamVars == <<snapshot, unpublished, stream, endUnpublished, reborn>>

ClosedStream == [pc |-> "closed", last |-> 0, inbox |-> 0, sawEnd |-> FALSE]

StreamTypeOK ==
    /\ snapshot \in [revision : 0..MaxRevision, terminal : BOOLEAN]
    /\ unpublished \subseteq 1..MaxRevision
    /\ stream \in [Streams -> [pc : {"closed", "subscribed", "waiting", "woken"},
                               last : 0..MaxRevision, inbox : 0..2 * MaxRevision, sawEnd : BOOLEAN]]
    /\ endUnpublished \in BOOLEAN /\ reborn \in BOOLEAN

StreamInit ==
    /\ snapshot = [revision |-> 1, terminal |-> FALSE]
    /\ unpublished = {}
    /\ stream = [s \in Streams |-> ClosedStream]
    /\ endUnpublished = FALSE /\ reborn = FALSE

-----------------------------------------------------------------------------
(* The store as the streams see it *)

\* A transition of the job: the snapshot is committed, the event is not out yet.
CommitState(final) ==
    /\ snapshot.revision \in 1..(MaxRevision - 1) /\ ~snapshot.terminal
    /\ snapshot' = [revision |-> snapshot.revision + 1, terminal |-> final]
    /\ unpublished' = unpublished \cup {snapshot.revision + 1}
    /\ UNCHANGED <<stream, endUnpublished, reborn>>

PublishEvent(r) ==
    /\ r \in unpublished
    /\ unpublished' = unpublished \ {r}
    /\ stream' = [s \in Streams |-> IF stream[s].pc = "closed" THEN stream[s]
                                    ELSE [stream[s] EXCEPT !.inbox = @ + 1]]
    /\ UNCHANGED <<snapshot, endUnpublished, reborn>>

\* The process ends between the commit and the PUBLISH.
LoseEvent(r) ==
    /\ r \in unpublished
    /\ unpublished' = unpublished \ {r}
    /\ endUnpublished' = (endUnpublished \/ (snapshot.terminal /\ r = snapshot.revision))
    /\ UNCHANGED <<snapshot, stream, reborn>>

\* The state key expires, and the client submits the same task again.
ExpireState ==
    /\ snapshot.revision # 0 /\ unpublished = {} /\ ~reborn
    /\ snapshot' = [revision |-> 0, terminal |-> FALSE]
    /\ UNCHANGED <<unpublished, stream, endUnpublished, reborn>>

RegisterAgain ==
    /\ snapshot.revision = 0
    /\ snapshot' = [revision |-> 1, terminal |-> FALSE]
    /\ unpublished' = {1}
    /\ reborn' = TRUE
    /\ UNCHANGED <<stream, endUnpublished>>

-----------------------------------------------------------------------------
(* stream_job_states *)

\* Mutant: no read between the subscription and the first message.
SubscribeLate(s, id) ==
    /\ stream[s].pc = "closed" /\ ~stream[s].sawEnd /\ snapshot.revision # 0
    /\ stream' = [stream EXCEPT ![s] = [pc |-> "waiting", last |-> id, inbox |-> 0, sawEnd |-> FALSE]]
    /\ UNCHANGED <<snapshot, unpublished, endUnpublished, reborn>>

\* A client connects, with the id of the last event it has seen, and the stream is
\* subscribed.  Redis handles the SUBSCRIBE before the read that follows it.
Subscribe(s, id) ==
    /\ stream[s].pc = "closed" /\ ~stream[s].sawEnd /\ snapshot.revision # 0
    /\ stream' = [stream EXCEPT ![s] = [pc |-> "subscribed", last |-> id, inbox |-> 0, sawEnd |-> FALSE]]
    /\ UNCHANGED <<snapshot, unpublished, endUnpublished, reborn>>

CloseStream(s, saw) == [ClosedStream EXCEPT !.last = stream[s].last, !.sawEnd = saw]

\* require_state raises JobNotFound: the stream ends with an error.
StreamLosesJob(s) ==
    /\ stream[s].pc \in {"subscribed", "woken"}
    /\ snapshot.revision = 0
    /\ stream' = [stream EXCEPT ![s] = CloseStream(s, FALSE)]
    /\ UNCHANGED <<snapshot, unpublished, endUnpublished, reborn>>

\* The first read: a final job ends the stream even if the client has seen it.
ReadSnapshot(s) ==
    /\ stream[s].pc = "subscribed" /\ snapshot.revision # 0
    /\ stream' = [stream EXCEPT ![s] =
           IF snapshot.terminal THEN CloseStream(s, TRUE)
           ELSE [@ EXCEPT !.pc = "waiting",
                          !.last = IF snapshot.revision > @ THEN snapshot.revision ELSE @]]
    /\ UNCHANGED <<snapshot, unpublished, endUnpublished, reborn>>

ReceiveMessage(s) ==
    /\ stream[s].pc = "waiting" /\ stream[s].inbox > 0
    /\ stream' = [stream EXCEPT ![s].pc = "woken", ![s].inbox = @ - 1]
    /\ UNCHANGED <<snapshot, unpublished, endUnpublished, reborn>>

\* A message makes the stream read the snapshot: nothing newer, nothing sent.
ReadAgain(s) ==
    /\ stream[s].pc = "woken" /\ snapshot.revision # 0
    /\ stream' = [stream EXCEPT ![s] =
           IF snapshot.revision <= @.last THEN [@ EXCEPT !.pc = "waiting"]
           ELSE IF snapshot.terminal THEN CloseStream(s, TRUE)
           ELSE [@ EXCEPT !.pc = "waiting", !.last = snapshot.revision]]
    /\ UNCHANGED <<snapshot, unpublished, endUnpublished, reborn>>

\* TASK_STREAM_TIMEOUT is over, or the client goes away.
StreamTimeout(s) ==
    /\ stream[s].pc # "closed"
    /\ stream' = [stream EXCEPT ![s] = CloseStream(s, FALSE)]
    /\ UNCHANGED <<snapshot, unpublished, endUnpublished, reborn>>

StreamStep(s) == StreamLosesJob(s) \/ ReadSnapshot(s) \/ ReceiveMessage(s) \/ ReadAgain(s)

StreamNext ==
    \/ \E final \in BOOLEAN : CommitState(final)
    \/ \E r \in unpublished : PublishEvent(r) \/ LoseEvent(r)
    \/ ExpireState \/ RegisterAgain
    \/ \E s \in Streams : \/ StreamStep(s) \/ StreamTimeout(s)
                          \/ \E id \in 0..MaxRevision : Subscribe(s, id)

\* Coroutines go on, and a process that commits publishes unless it ends.
StreamFairness ==
    /\ \A s \in Streams : WF_streamVars(StreamStep(s))
    /\ WF_streamVars(\E r \in unpublished : PublishEvent(r))

StreamSpec == StreamInit /\ [][StreamNext]_streamVars /\ StreamFairness

-----------------------------------------------------------------------------
(* Properties *)

\* A stream that is open when the job ends shows the end and closes, without help
\* from its timeout, unless the publication of the end was lost (the loop sends
\* only heartbeats then), the job was registered again, or the client claims to
\* have seen a revision that does not exist.
EndIsStreamed ==
    \A s \in Streams :
        (stream[s].pc # "closed" /\ stream[s].last < snapshot.revision /\ snapshot.terminal)
            ~> (stream[s].pc = "closed" \/ endUnpublished \/ reborn \/ snapshot.revision = 0)
=============================================================================

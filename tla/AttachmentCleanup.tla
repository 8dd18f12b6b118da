-------------------------- MODULE AttachmentCleanup --------------------------
(***************************************************************************)
(* The minute cron that removes the files of deleted attachments           *)
(* (attachment_cleanup, attachment_cleanup_worker).  A lease in Redis lets *)
(* one run at a time in; a run that outlives its lease goes on.  A file is *)
(* deleted, looked for, and only then written off in the database.         *)
(***************************************************************************)
EXTENDS FiniteSets, Naturals

CONSTANTS
    Files,          \* attachments that are due
    Cleaners,       \* runs that may overlap
    BatchLimit,     \* files of one run: 20
    Lanes           \* removals at a time: 4

VARIABLES
    stored,         \* files that the storage still has
    due,            \* files that the database still lists
    cleanLease,     \* the run that holds the lease, or "none"
    cleaner,        \* [Cleaners -> [pc, left, failed]]
    removal,        \* [Cleaners -> [Files -> "none", "delete", "look", "finish"]]
    receipt         \* status of the last run that was recorded

cleanVars == <<stored, due, cleanLease, cleaner, removal, receipt>>

IdleCleaner == [pc |-> "idle", left |-> {}, failed |-> 0]
NoRemoval == [f \in Files |-> "none"]

CleanTypeOK ==
    /\ stored \subseteq Files /\ due \subseteq Files
    /\ cleanLease \in Cleaners \cup {"none"}
    /\ cleaner \in [Cleaners -> [pc : {"idle", "list", "remove", "record"}, left : SUBSET Files, failed : 0..Cardinality(Files)]]
    /\ removal \in [Cleaners -> [Files -> {"none", "delete", "look", "finish"}]]
    /\ receipt \in {"none", "ok", "partial", "failed", "timeout"}

CleanInit ==
    /\ stored = Files /\ due = {}
    /\ cleanLease = "none" /\ receipt = "none"
    /\ cleaner = [c \in Cleaners |-> IdleCleaner]
    /\ removal = [c \in Cleaners |-> NoRemoval]

\* The user deletes an attachment; it becomes due.
RemoveAttachment ==
    /\ \E f \in (Files \cap stored) \ due : due' = due \cup {f}
    /\ UNCHANGED <<stored, cleanLease, cleaner, removal, receipt>>

\* SET NX EX: without Redis, or with another run, nothing happens.
TakeCleanLease(c) ==
    /\ cleaner[c].pc = "idle" /\ cleanLease = "none" /\ due # {}
    /\ cleanLease' = c
    /\ cleaner' = [cleaner EXCEPT ![c].pc = "list"]
    /\ UNCHANGED <<stored, due, removal, receipt>>

CleanLeaseExpires ==
    /\ cleanLease # "none"
    /\ cleanLease' = "none"
    /\ UNCHANGED <<stored, due, cleaner, removal, receipt>>

\* prepare_v22_attachment_cleanup and the check of the bucket; rows that do not look
\* as they must fail the whole run.
ListDue(c) ==
    /\ cleaner[c].pc = "list"
    /\ \/ \E batch \in SUBSET due :
             /\ Cardinality(batch) = IF Cardinality(due) < BatchLimit THEN Cardinality(due) ELSE BatchLimit
             /\ cleaner' = [cleaner EXCEPT ![c].pc = "remove", ![c].left = batch]
       \/ cleaner' = [cleaner EXCEPT ![c].pc = "record"] \* CleanupUnavailable
    /\ UNCHANGED <<stored, due, cleanLease, removal, receipt>>

Busy(c) == {f \in Files : removal[c][f] # "none"}
Removing(c, f, next) == removal' = [removal EXCEPT ![c][f] = next]

\* The semaphore admits as many removals as there are lanes.
StartRemoval(c, f) ==
    /\ cleaner[c].pc = "remove" /\ f \in cleaner[c].left
    /\ Cardinality(Busy(c)) < Lanes
    /\ cleaner' = [cleaner EXCEPT ![c].left = @ \ {f}]
    /\ Removing(c, f, "delete")
    /\ UNCHANGED <<stored, due, cleanLease, receipt>>

\* DELETE: accepted, whether the object is gone already or not.
DeleteFile(c, f) ==
    /\ removal[c][f] = "delete"
    /\ stored' \in {stored, stored \ {f}}
    /\ Removing(c, f, "look")
    /\ UNCHANGED <<due, cleanLease, cleaner, receipt>>

\* Mutant: the answer to the deletion is trusted.
LookForFileNot(c, f) ==
    /\ removal[c][f] = "look"
    /\ Removing(c, f, "finish")
    /\ UNCHANGED <<stored, due, cleanLease, cleaner, receipt>>

\* GET: only the storage's own "not found" counts as absence.
LookForFile(c, f) ==
    /\ removal[c][f] = "look" /\ f \notin stored
    /\ Removing(c, f, "finish")
    /\ UNCHANGED <<stored, due, cleanLease, cleaner, receipt>>

WriteOffFile(c, f) ==
    /\ removal[c][f] = "finish"
    /\ due' = due \ {f}
    /\ Removing(c, f, "none")
    /\ UNCHANGED <<stored, cleanLease, cleaner, receipt>>

\* An object that is still there, twelve seconds, or any error: the row stays due.
RemovalFails(c, f) ==
    /\ removal[c][f] # "none"
    /\ Removing(c, f, "none")
    /\ cleaner' = [cleaner EXCEPT ![c].failed = @ + 1]
    /\ UNCHANGED <<stored, due, cleanLease, receipt>>

\* FINISH_SCRIPT: the receipt of a run that lost its lease is not written.
RecordRun(c, status) ==
    /\ IF cleanLease = c THEN receipt' = status /\ cleanLease' = "none" ELSE UNCHANGED <<receipt, cleanLease>>
    /\ cleaner' = [cleaner EXCEPT ![c] = IdleCleaner]

EndCleanup(c) ==
    /\ cleaner[c].pc = "remove" /\ cleaner[c].left = {} /\ Busy(c) = {}
    /\ RecordRun(c, IF cleaner[c].failed > 0 THEN "partial" ELSE "ok")
    /\ UNCHANGED <<stored, due, removal>>

\* RUN_SECONDS, a shutdown or an error: removals stop where they are.
AbortRun(c) ==
    /\ cleaner[c].pc # "idle"
    /\ \E status \in {"timeout", "failed"} : RecordRun(c, status)
    /\ removal' = [removal EXCEPT ![c] = NoRemoval]
    /\ UNCHANGED <<stored, due>>

CleanNext ==
    \/ RemoveAttachment \/ CleanLeaseExpires
    \/ \E c \in Cleaners :
          \/ TakeCleanLease(c) \/ ListDue(c) \/ EndCleanup(c) \/ AbortRun(c)
          \/ \E f \in Files : StartRemoval(c, f) \/ DeleteFile(c, f) \/ LookForFile(c, f)
                              \/ WriteOffFile(c, f) \/ RemovalFails(c, f)

CleanSpec == CleanInit /\ [][CleanNext]_cleanVars

\* The database forgets a deleted file only when the storage has none: a run whose
\* lease ran out, a deletion without effect or a run that stops half-way leave the
\* row due.
ForgottenFilesAreGone == [][\A f \in due : f \notin due' => f \notin stored']_cleanVars
=============================================================================

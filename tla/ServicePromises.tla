--------------------------- MODULE ServicePromises ---------------------------
(***************************************************************************)
(* What the services with rows, wakeups and ledgers of their own promise   *)
(* together.  None of them reads another's state.                          *)
(***************************************************************************)
EXTENDS DiscoveryJobs, MarketSnapshots, SourceJobs, Preparations, ServiceDiscovery, ReviewJobs,
        AttachmentCleanup, ReportPipelines

\* Synchronisations and reviews end, and end once, as OneOutcome says.
WorkEndsOnce == SourceEndsOnce /\ ReviewEndsOnce

\* What a person was told stays true: a discovery can be confirmed until it is over and
\* an accepted selection is the stored one, whoever else starts, saves or submits at once.
ChoicesAreKept == ConfirmableUntilExpiry /\ AcceptedSelectionIsStored

\* What a job spends stays within its budget, whatever Redis loses.
SpendingIsAccounted == PreparationSpendIsBounded /\ DiscoverySpendIsBounded

\* Attempts of a report job agree with each other and with what they collected.
PipelinesAreSound == RetriesAgree /\ CollectionIsSound
=============================================================================

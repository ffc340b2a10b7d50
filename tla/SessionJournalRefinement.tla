---------------------- MODULE SessionJournalRefinement ----------------------
(***************************************************************************)
(* SessionJournal implements SessionLog: the log is what a scan of the     *)
(* journal returns, which is nothing while no head has been published.     *)
(***************************************************************************)
EXTENDS SessionJournal

Log == INSTANCE SessionLog WITH
           log <- IF NotExist THEN <<>> ELSE journal, Epochs <- 1 .. MaxEpoch

\* Every step of the journal is a step of the abstract log: a command is recorded
\* once, in the order of its writer's epochs, at the instant its line is complete
\* (the instant its head is published, for the creation), and never disappears.
ImplementsLog == Log!LogSpec
=============================================================================

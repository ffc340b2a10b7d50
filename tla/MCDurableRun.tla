---------------------------- MODULE MCDurableRun ----------------------------
(* Model values for TLC: two processes and a plan of two steps.            *)
EXTENDS DurableRun, TLC

CONSTANTS p1, p2, yes, no

MCProcs == {p1, p2}
MCAnswers == {yes, no}
ToolThenAsk == <<"tool", "ask">>
AskThenTool == <<"ask", "tool">>

\* Processes are interchangeable, and so are answers.
Symmetry == Permutations(MCProcs) \cup Permutations(MCAnswers)

\* The trace file tells the run's events once, in order, and in full: increasing
\* sequence numbers, and every event that a checkpoint committed.
TraceComplete == TraceOrdered /\ CommittedProjected
=============================================================================

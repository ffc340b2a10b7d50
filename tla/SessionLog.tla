----------------------------- MODULE SessionLog -----------------------------
(***************************************************************************)
(* What a session store promises its clients, without files, leases or     *)
(* processes: one log of commands that only grows, that takes a command at *)
(* most once, whose writer epochs never fall, and acknowledgements that    *)
(* are only given for commands in the log.  SessionJournal implements it.  *)
(***************************************************************************)
EXTENDS Naturals, Sequences

CONSTANTS Cmd, CreateCmd, Epochs

VARIABLES log, acked

logVars == <<log, acked>>

Recorded == {log[i].cmd : i \in DOMAIN log}

\* The first entry creates the session, and no later one does.
Admissible(c) == (c \in CreateCmd) <=> (log = <<>>)

Record(c, e) ==
    /\ c \notin Recorded
    /\ Admissible(c)
    /\ \A i \in DOMAIN log : log[i].epoch <= e
    /\ log' = Append(log, [seq |-> Len(log) + 1, cmd |-> c, epoch |-> e])
    /\ UNCHANGED acked

Acknowledge(c) ==
    /\ c \in Recorded
    /\ acked' = acked \cup {c}
    /\ UNCHANGED log

LogInit == log = <<>> /\ acked = {}

LogNext == \E c \in Cmd : Acknowledge(c) \/ \E e \in Epochs : Record(c, e)

LogSpec == LogInit /\ [][LogNext]_logVars
=============================================================================

-------------------------- MODULE MCToolDispatch ----------------------------
(* ToolDispatch for TLC: three calls, numbered by what they ask for.       *)
EXTENDS ToolDispatch, TLC

CONSTANTS c1, c2, c3, r1

\* Calls are interchangeable: those that started are taken in the order of their
\* inputs, and the ones with a key of the caller last.
Rank(c) == (IF given[c] = None THEN 0 ELSE 2) + (IF request[c] = r1 THEN 0 ELSE 1)
Follows(c, d) == pc[c] # "idle" /\ pc[d] # "idle" => Rank(c) <= Rank(d)
Numbered == Follows(c1, c2) /\ Follows(c2, c3) /\ Follows(c1, c3)

MCSpec ==
    Init /\ [][Next /\ Numbered']_vars /\ \A c \in Call : WF_vars(Progress(c))
=============================================================================

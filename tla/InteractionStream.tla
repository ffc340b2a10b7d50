-------------------------- MODULE InteractionStream --------------------------
(***************************************************************************)
(* The frames of one queue of the prompt broker: each turn is announced by  *)
(* a pending frame and withdrawn by a resolved one; frames have increasing  *)
(* ids, the last BufSize are kept, and subscribers get them through         *)
(* buffered channels that drop what does not fit.  A client keeps the set   *)
(* of turns it shows to the person, and reconnects with the id of the last  *)
(* frame it has read (GET /runs/{id}/interactions with Last-Event-ID).      *)
(***************************************************************************)
EXTENDS Naturals, Sequences, SequencesExt, FiniteSets

CONSTANTS
    Turn,
    Client,
    BufSize,   \* frames the queue remembers (64 in the code)
    Slack,     \* room in a channel beyond what Subscribe preloads (16 in the code)
    MaxConnect \* bound: connections of one client

VARIABLES
    pending,   \* turn -> id of its pending frame while it is open, 0 otherwise
    asked,     \* turns that were opened
    nextID,
    history,   \* the remembered frames
    closed,    \* the queue was unregistered
    stream,    \* client -> its connection
    shown,     \* client -> the turns it shows
    last,      \* client -> Last-Event-ID
    lost,      \* client -> a frame it needed was dropped, or forgotten by the queue
    connects   \* client -> how often it connected

vars == <<pending, asked, nextID, history, closed, stream, shown, last, lost, connects>>

Offline == [on |-> FALSE, channel |-> <<>>, room |-> 0, dropped |-> FALSE]

Open == {t \in Turn : pending[t] # 0}

----------------------------------------------------------------------------

\* The frames that the queue remembers.
Recent(frames) ==
    IF Len(frames) <= BufSize THEN frames
    ELSE SubSeq(frames, Len(frames) - BufSize + 1, Len(frames))

\* One frame into the channel of a subscriber, or past it when the channel is full.
Sent(s, frame) ==
    IF ~ s.on THEN s
    ELSE IF Len(s.channel) < s.room THEN [s EXCEPT !.channel = Append(@, frame)]
    ELSE [s EXCEPT !.dropped = TRUE]

\* publishLocked, for the frames that one critical section publishes.
publishLocked(frames) ==
    /\ nextID' = nextID + Len(frames)
    /\ history' = Recent(history \o frames)
    /\ stream' = [c \in Client |-> FoldLeft(Sent, stream[c], frames)]
    /\ lost' = [c \in Client |-> lost[c] \/ stream'[c].dropped]

\* prepareInteraction puts a turn into the queue.
OpenTurn(t) ==
    /\ t \notin asked /\ ~ closed
    /\ asked' = asked \cup {t}
    /\ pending' = [pending EXCEPT ![t] = nextID + 1]
    /\ publishLocked(<<[id |-> nextID + 1, turn |-> t, open |-> TRUE]>>)
    /\ UNCHANGED <<closed, shown, last, connects>>

\* An answer is accepted or the prompt is cancelled.
ResolveTurn(t) ==
    /\ pending[t] # 0
    /\ pending' = [pending EXCEPT ![t] = 0]
    /\ publishLocked(<<[id |-> nextID + 1, turn |-> t, open |-> FALSE]>>)
    /\ UNCHANGED <<asked, closed, shown, last, connects>>

\* Unregister resolves the open turns, in the order of a Go map, and closes the channels.
Unregister ==
    /\ ~ closed
    /\ closed' = TRUE
    /\ pending' = [t \in Turn |-> 0]
    /\ \E order \in SetToSeqs(Open) :
         publishLocked([i \in DOMAIN order |->
             [id |-> nextID + i, turn |-> order[i], open |-> FALSE]])
    /\ UNCHANGED <<asked, shown, last, connects>>

----------------------------------------------------------------------------

Missed(c) == SelectSeq(history, LAMBDA f : f.id > last[c])

\* Mutant: only the remembered frames are sent again.
NothingUnseen(c) == <<>>

\* The open turns that the missed frames do not announce, oldest first.
Unseen(c) ==
    LET announced == {f.turn : f \in {g \in Range(Missed(c)) : g.open}}
        again == {[id |-> pending[t], turn |-> t, open |-> TRUE] : t \in Open \ announced}
    IN  SetToSortSeq(again, LAMBDA f, g : f.id < g.id)

Subscribe(c) ==
    /\ ~ stream[c].on /\ ~ closed /\ connects[c] < MaxConnect
    /\ connects' = [connects EXCEPT ![c] = @ + 1]
    /\ stream' = [stream EXCEPT ![c] =
         [on |-> TRUE, channel |-> Missed(c) \o Unseen(c), dropped |-> FALSE,
          room |-> Len(history) + Cardinality(Open) + Slack]]
    /\ lost' = [lost EXCEPT ![c] = @ \/ (history # <<>> /\ last[c] + 1 < Head(history).id)]
    /\ UNCHANGED <<pending, asked, nextID, history, closed, shown, last>>

\* The client's form: opened by a pending frame, dropped by a resolved one.
Shows(c, f) == IF f.open THEN shown[c] \cup {f.turn} ELSE shown[c] \ {f.turn}

\* The handler writes a frame and the client reads it; its id is the client's new
\* Last-Event-ID, also when it is a pending frame that was sent again.
ReadFrame(c) ==
    /\ stream[c].on /\ stream[c].channel # <<>>
    /\ LET f == Head(stream[c].channel) IN
         /\ shown' = [shown EXCEPT ![c] = Shows(c, f)]
         /\ last' = [last EXCEPT ![c] = f.id]
    /\ stream' = [stream EXCEPT ![c].channel = Tail(@)]
    /\ UNCHANGED <<pending, asked, nextID, history, closed, lost, connects>>

\* The connection breaks, or the closed channel is empty.
Unsubscribe(c) ==
    /\ stream[c].on
    /\ stream' = [stream EXCEPT ![c] = Offline]
    /\ UNCHANGED <<pending, asked, nextID, history, closed, shown, last, lost, connects>>

----------------------------------------------------------------------------

Init ==
    /\ pending = [t \in Turn |-> 0] /\ asked = {}
    /\ nextID = 0 /\ history = <<>> /\ closed = FALSE
    /\ stream = [c \in Client |-> Offline]
    /\ shown = [c \in Client |-> {}] /\ last = [c \in Client |-> 0]
    /\ lost = [c \in Client |-> FALSE] /\ connects = [c \in Client |-> 0]

Next ==
    \/ \E t \in Turn : OpenTurn(t) \/ ResolveTurn(t)
    \/ Unregister
    \/ \E c \in Client : Subscribe(c) \/ ReadFrame(c) \/ Unsubscribe(c)

Spec == Init /\ [][Next]_vars

----------------------------------------------------------------------------

\* A client that has read all that was sent to it.
UpToDate(c) == stream[c].on /\ stream[c].channel = <<>>

\* A client that has read everything shows every open turn, whatever it missed before it
\* connected, unless its own channel overflowed; and it shows no resolved one unless a
\* frame was dropped or had left the queue's memory when it came back: reconnecting with
\* Last-Event-ID does not recover a frame that was dropped before one the client has read.
StreamFaithful ==
    \A c \in Client : UpToDate(c) =>
        /\ stream[c].dropped \/ Open \subseteq shown[c]
        /\ lost[c] \/ shown[c] \subseteq Open
=============================================================================

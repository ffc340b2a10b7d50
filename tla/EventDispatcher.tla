--------------------------- MODULE EventDispatcher ---------------------------
(***************************************************************************)
(* The dispatcher of inbound events (eventbus/dispatcher.go) with the two   *)
(* parties that use it: the webhook listener, which hands in events, and    *)
(* the wait_for_event steps of the engine, which wait for one that matches  *)
(* their filter.  Every operation is one critical section of the mutex; a   *)
(* waiter's channel has room for one message, and the waiter reads it in a  *)
(* step of its own, in a race with its timeout.                             *)
(***************************************************************************)
EXTENDS Naturals, Sequences, SequencesExt, FiniteSets

CONSTANTS
    InboundEvent, \* the events that may arrive: [key, id, source]
    WaitCall,     \* the calls of Wait and of Register
    WaitRun,      \* the runs that call Register
    EventID,
    EventSource

Unset == ""      \* an empty string of the code: no restriction, no run, no channel
NilEvent == [key |-> 0, id |-> Unset, source |-> Unset]

EventFilter == [id : EventID \cup {Unset}, source : EventSource \cup {Unset}]
Channel == EventID \cup {Unset}

VARIABLES
    waiters,       \* channel -> the registered calls, oldest first
    pendingEvents, \* channel -> the events no waiter took, oldest first
    waitCall,      \* call -> its filter, the buffer of its channel, what it returned
    arrived        \* the events handed to Dispatch

vars == <<waiters, pendingEvents, waitCall, arrived>>

NotCalled == [state |-> "idle", run |-> Unset, buffer |-> <<>>,
              filter |-> [id |-> Unset, source |-> Unset]]

----------------------------------------------------------------------------

\* The payload keys of a filter are compared like its source.
matchesFilter(ev, filter) ==
    /\ filter.source # Unset => ev.source = filter.source
    /\ filter.id # Unset => ev.id = filter.id

\* Events come from the webhook listener, which names the channel after the event.
dispatchChannel(ev) == ev.id

\* The first event of a queue that passes the filter, 0 when there is none.
FirstMatch(events, filter) ==
    SelectInSeq(events, LAMBDA ev : matchesFilter(ev, filter))

\* handleInbound passes on an event that is signed and has an id; Dispatch gives it to the
\* first waiter of its channel that wants it, or keeps it.
Dispatch(ev) ==
    LET channel == dispatchChannel(ev)
        i == SelectInSeq(waiters[channel], LAMBDA c : matchesFilter(ev, waitCall[c].filter))
    IN  /\ ev \notin arrived /\ ev.id # Unset
        /\ arrived' = arrived \cup {ev}
        /\ IF i = 0
           THEN /\ pendingEvents' = [pendingEvents EXCEPT ![channel] = Append(@, ev)]
                /\ UNCHANGED <<waiters, waitCall>>
           ELSE /\ waiters' = [waiters EXCEPT ![channel] = RemoveAt(@, i)]
                /\ waitCall' = [waitCall EXCEPT ![waiters[channel][i]].buffer = <<ev>>]
                /\ UNCHANGED pendingEvents

\* Mutant: a wait registers without a look at the pending events.
NowhereSearched(filter) == {}

\* Where Wait looks for an event that has come already.
Searched(filter) == IF filter.id = Unset THEN Channel ELSE {filter.id}

\* Wait returns an event that came before it ...
WaitTakes(c, filter) ==
    /\ waitCall[c].state = "idle"
    /\ \E channel \in Searched(filter) :
         LET i == FirstMatch(pendingEvents[channel], filter) IN
           /\ i # 0
           /\ pendingEvents' = [pendingEvents EXCEPT ![channel] = RemoveAt(@, i)]
           /\ waitCall' = [waitCall EXCEPT ![c] = [NotCalled EXCEPT
                 !.state = "returned", !.filter = filter, !.buffer = <<pendingEvents[channel][i]>>]]
    /\ UNCHANGED <<waiters, arrived>>

\* ... or registers, under the id of its filter.
WaitRegisters(c, filter) ==
    /\ waitCall[c].state = "idle"
    /\ \A channel \in Searched(filter) : FirstMatch(pendingEvents[channel], filter) = 0
    /\ waitCall' = [waitCall EXCEPT ![c] = [NotCalled EXCEPT !.state = "waiting", !.filter = filter]]
    /\ waiters' = [waiters EXCEPT ![filter.id] = Append(@, c)]
    /\ UNCHANGED <<pendingEvents, arrived>>

\* Register never looks at the pending events.
Register(c, run, id) ==
    /\ waitCall[c].state = "idle"
    /\ waitCall' = [waitCall EXCEPT ![c] = [NotCalled EXCEPT
          !.state = "waiting", !.run = run, !.filter.id = id]]
    /\ waiters' = [waiters EXCEPT ![id] = Append(@, c)]
    /\ UNCHANGED <<pendingEvents, arrived>>

\* The call reads its channel: the event it returns, or the nil of a cancellation.
Delivered(c) ==
    /\ waitCall[c].state = "waiting" /\ waitCall[c].buffer # <<>>
    /\ waitCall' = [waitCall EXCEPT ![c].state =
          IF waitCall[c].buffer = <<NilEvent>> THEN "cancelled" ELSE "returned"]
    /\ UNCHANGED <<waiters, pendingEvents, arrived>>

Without(queues, gone) ==
    [channel \in Channel |-> SelectSeq(queues[channel], LAMBDA c : c \notin gone)]

\* A non-blocking send of nil to the channels of the removed calls.
SendNil(gone) ==
    [c \in WaitCall |-> IF c \in gone /\ waitCall[c].buffer = <<>>
                        THEN [waitCall[c] EXCEPT !.buffer = <<NilEvent>>] ELSE waitCall[c]]

\* The timer or the context of a Wait fires first; an event that is in the channel by then
\* goes with the channel.
WaitGivesUp(c) ==
    /\ waitCall[c].state = "waiting" /\ waitCall[c].run = Unset
    /\ waiters' = Without(waiters, {c})
    /\ waitCall' = [waitCall EXCEPT ![c].state = "gone"]
    /\ UNCHANGED <<pendingEvents, arrived>>

Registered(run, id) == {c \in Range(waiters[id]) : waitCall[c].run = run}

Unregister(run, id) ==
    /\ waiters' = [waiters EXCEPT ![id] = SelectSeq(@, LAMBDA c : waitCall[c].run # run)]
    /\ waitCall' = SendNil(Registered(run, id))
    /\ UNCHANGED <<pendingEvents, arrived>>

\* The context of a registration ends: every registration of the run for that id goes.
RegistrationEnds(c) ==
    LET run == waitCall[c].run  id == waitCall[c].filter.id
        gone == Registered(run, id)
    IN  /\ waitCall[c].state = "waiting" /\ run # Unset
        /\ waiters' = [waiters EXCEPT ![id] = SelectSeq(@, LAMBDA d : waitCall[d].run # run)]
        /\ waitCall' = [SendNil(gone) EXCEPT ![c].state = "gone"]
        /\ UNCHANGED <<pendingEvents, arrived>>

\* Cancel ends the wait of one step, on whatever channel it is.
CancelWait(c) ==
    /\ \E channel \in Channel : c \in Range(waiters[channel])
    /\ waiters' = Without(waiters, {c})
    /\ waitCall' = SendNil({c})
    /\ UNCHANGED <<pendingEvents, arrived>>

----------------------------------------------------------------------------

Init ==
    /\ waiters = [channel \in Channel |-> <<>>]
    /\ pendingEvents = [channel \in Channel |-> <<>>]
    /\ waitCall = [c \in WaitCall |-> NotCalled]
    /\ arrived = {}

Next ==
    \/ \E ev \in InboundEvent : Dispatch(ev)
    \/ \E c \in WaitCall, filter \in EventFilter : WaitTakes(c, filter) \/ WaitRegisters(c, filter)
    \/ \E c \in WaitCall, run \in WaitRun, id \in EventID : Register(c, run, id)
    \/ \E run \in WaitRun, id \in EventID : Registered(run, id) # {} /\ Unregister(run, id)
    \/ \E c \in WaitCall : Delivered(c) \/ WaitGivesUp(c) \/ RegistrationEnds(c) \/ CancelWait(c)

Spec == Init /\ [][Next]_vars

----------------------------------------------------------------------------

\* The places an event is in: the queues of pending events and the channels of calls.
Places(ev) ==
    {<<channel, i>> \in Channel \X (1..Cardinality(InboundEvent)) :
        i \in DOMAIN pendingEvents[channel] /\ pendingEvents[channel][i] = ev}
    \cup {c \in WaitCall : waitCall[c].buffer = <<ev>>}

\* An event that was handed to Dispatch is in one place only, so no two steps resume from
\* it and none disappears: it is pending, or it is with one call that wants it, and only a
\* call that gave up while the event was on its way holds one that nobody sees.  No step
\* waits for an id while an event it wants is pending under it, whatever registrations,
\* timeouts and cancellations came between.  (A step without an id waits under the empty
\* channel, which Dispatch never serves.)
EventsConserved ==
    /\ \A ev \in arrived : Cardinality(Places(ev)) = 1
    /\ \A c \in WaitCall : waitCall[c].buffer \notin {<<>>, <<NilEvent>>} =>
         matchesFilter(waitCall[c].buffer[1], waitCall[c].filter)
    /\ \A id \in EventID : \A c \in Range(waiters[id]) :
         waitCall[c].run = Unset => FirstMatch(pendingEvents[id], waitCall[c].filter) = 0
=============================================================================

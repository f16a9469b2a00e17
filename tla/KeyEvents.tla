------------------------------- MODULE KeyEvents -------------------------------
(***************************************************************************)
(* What the input service promises to those who read its events: the       *)
(* events of every key come in the order of InputType's documentation      *)
(* (applications/services/input/input.h), and a key that was pressed is    *)
(* released.  The reader here is the GUI service, which takes the events   *)
(* from its queue (gui->input_queue).                                      *)
(***************************************************************************)
EXTENDS Naturals, Sequences, FiniteSets

CONSTANTS
    Keys,     \* InputKey
    Held,     \* the keys that may be held when the service starts
    QueueLen, \* the length of the GUI's queue
    NoEvent   \* nothing

Types == {"Press", "Release", "Short", "Long", "Repeat"}
Event == [key: Keys, type: Types]

ASSUME EventsAssumption == QueueLen \in Nat \ {0} /\ NoEvent \notin Event

VARIABLES
    queue, \* the events in the GUI's queue
    last   \* the type of the last event published, per key

eventVars == <<queue, last>>

\* A key that is held when the service starts counts as pressed, although no
\* Press of it has been published.
InitEvents ==
    /\ queue = <<>>
    /\ last \in [Keys -> {"Press", "Release"}]
    /\ {k \in Keys : last[k] = "Press"} \subseteq Held

\* The type of an event of a key, and of the next one of that key.
Follows ==
    {<<"Release", "Press">>, <<"Press", "Short">>, <<"Press", "Long">>,
     <<"Long", "Repeat">>, <<"Repeat", "Repeat">>, <<"Long", "Release">>,
     <<"Repeat", "Release">>, <<"Short", "Release">>}

\* furi_pubsub_publish, as far as gui_input_events_callback, which waits for
\* space in the queue.
Put(k, type) ==
    /\ Len(queue) < QueueLen
    /\ queue' = Append(queue, [key |-> k, type |-> type])
    /\ last' = [last EXCEPT ![k] = type]

Publish(k, type) == <<last[k], type>> \in Follows /\ Put(k, type)

Take == queue # <<>> /\ queue' = Tail(queue) /\ UNCHANGED last

NextEvents == Take \/ \E k \in Keys, t \in Types : Publish(k, t)

\* Every press comes to its end.
FairEvents ==
    \A k \in Keys : SF_eventVars(\E t \in {"Short", "Long", "Release"} : Publish(k, t))

SpecEvents == InitEvents /\ [][NextEvents]_eventVars /\ FairEvents
=============================================================================

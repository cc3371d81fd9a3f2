--------------------------- MODULE RequestEvents ---------------------------
(* What the messaging API promises an application about the events of one  *)
(* send request: api/events/messaging_client_events.nim and the table of   *)
(* docs/api/rest-api.md. A request may first be queued for budget; it      *)
(* propagates or fails; a request that a store node is to confirm is then  *)
(* sent or fails; and after its last event nothing more comes.             *)
EXTENDS Naturals, Sequences

CONSTANTS
    Requests,          \* request ids
    Confirmed          \* requests that end in `sent`: reliability is on and
                       \* the message is not ephemeral

VARIABLE events        \* the events of each request, in order

\* The events of a request from the end of its wait for budget on.
Outcomes(r) ==
    {<<>>, <<"error">>, <<"propagated">>}
    \cup IF r \in Confirmed
           THEN {<<"propagated", "sent">>, <<"propagated", "error">>}
           ELSE {}

Legal(r) == Outcomes(r) \cup {<<"queued">> \o s : s \in Outcomes(r)}

\* The last event went out.
Over(r, s) ==
    /\ s # <<>>
    /\ \/ s[Len(s)] \in {"sent", "error"}
       \/ s[Len(s)] = "propagated" /\ r \notin Confirmed

Extends(s, t) == Len(s) < Len(t) /\ \A i \in 1..Len(s) : t[i] = s[i]

REInit == events = [r \in Requests |-> <<>>]

\* One step of the service may report several events of one request.
Report(r) ==
    /\ ~Over(r, events[r])
    /\ \E s \in Legal(r) :
         /\ Extends(events[r], s)
         /\ events' = [events EXCEPT ![r] = s]

RENext == \E r \in Requests : Report(r)

RESpec == REInit /\ [][RENext]_events

============================================================================

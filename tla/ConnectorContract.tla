--------------------------- MODULE ConnectorContract ---------------------------
(***************************************************************************)
(* What the supervisor of internal/engine promises the handlers about      *)
(* connectors: a service is listed while the supervisor answers that it    *)
(* runs, and a connector that may still carry traffic for a service (it    *)
(* runs and nobody has told it, or is about to tell it, to end) is the     *)
(* only one of its service, which is listed.                               *)
(***************************************************************************)
CONSTANTS
    Services,
    Connectors,
    None         \* no service

VARIABLES
    listed,  \* the services that run, for whoever asks
    serves   \* the service a connector may carry traffic for

vars == <<listed, serves>>

Init ==
    /\ listed = {}
    /\ serves = [c \in Connectors |-> None]

\* Listing a service and starting its connector are one step, and only a
\* service that is not listed and has no connector gets one.
Start(s, c) ==
    /\ s \notin listed
    /\ s \notin {serves[d] : d \in Connectors}
    /\ serves[c] = None
    /\ listed' = listed \cup {s}
    /\ serves' = [serves EXCEPT ![c] = s]

\* A connector ends by itself; the service stays listed until that is noticed.
Exit(c) ==
    /\ serves[c] # None
    /\ serves' = [serves EXCEPT ![c] = None]
    /\ UNCHANGED listed

Notice(s) ==
    /\ s \in listed
    /\ s \notin {serves[d] : d \in Connectors}
    /\ listed' = listed \ {s}
    /\ UNCHANGED serves

\* Services are taken off the list, by a stop or at the end of the program,
\* only together with their connectors.
Stop(S) ==
    /\ S \subseteq listed
    /\ listed' = listed \ S
    /\ serves' = [c \in Connectors |-> IF serves[c] \in S THEN None ELSE serves[c]]

Next ==
    \/ \E s \in Services, c \in Connectors : Start(s, c)
    \/ \E c \in Connectors : Exit(c)
    \/ \E s \in Services : Notice(s)
    \/ \E S \in SUBSET Services : Stop(S)

Spec == Init /\ [][Next]_vars

-------------------------------------------------------------------------------

\* What the promise comes to: at every moment a service has one connector at
\* most, and none while it is not listed.
OneConnectorListed ==
    /\ \A c \in Connectors : serves[c] # None => serves[c] \in listed
    /\ \A c, d \in Connectors : serves[c] = serves[d] /\ c # d => serves[c] = None
===============================================================================

----------------------------- MODULE NATDiscovery -----------------------------
(***************************************************************************)
(* The network diagnosis: DiagnoseNetwork, discoverNATMapping and          *)
(* stunBindingUDP of internal/engine/diagnostics.go.                       *)
(*                                                                         *)
(* Up to three probes go out from one socket, each with a transaction of   *)
(* its own.  The network may lose, delay and duplicate requests and        *)
(* answers, and anything else may arrive at the socket.  The NAT and the   *)
(* STUN server are not part of the program: the NAT maps the socket to an  *)
(* external address by the part of the target that its kind looks at.      *)
(***************************************************************************)
EXTENDS Naturals, FiniteSets

CONSTANTS
    Kinds,  \* kinds of NAT between the socket and the server
    Noise   \* datagrams that are no STUN message arrive

Probes == 1 .. 3

Targets == [ip : {"primary", "other"}, port : {"primary", "other"}]

Detailed == {"open_internet", "endpoint_independent", "address_dependent",
             "address_port_dependent"}

ASSUME DiscoveryAssumption == Kinds \subseteq Detailed /\ Noise \in BOOLEAN

Keys == {"proxy_environment", "natmap_binary", "stun_udp", "stun_tcp"}

VARIABLES
    kind,      \* the NAT
    extended,  \* the server sends OTHER-ADDRESS
    requests,  \* requests in flight, by probe
    answers,   \* answers in flight
    probe,     \* the probe that waits for its answer
    mappings,  \* first, second and third: the addresses the probes returned
    natType,   \* the variables of DiagnoseNetwork that its tasks set
    udpSTUN,
    tcpSTUN,
    checks,    \* status of each task
    outcome    \* the report's outcome

vars == <<kind, extended, requests, answers, probe, mappings, natType, udpSTUN, tcpSTUN,
          checks, outcome>>

netVars == <<kind, extended>>
reportVars == <<natType, udpSTUN, tcpSTUN, checks, outcome>>

\* The external address, named by what the NAT has made it from.
Mapped(target) ==
    CASE kind = "open_internet" -> <<"local">>
      [] kind = "endpoint_independent" -> <<"nat">>
      [] kind = "address_dependent" -> <<"nat", target.ip>>
      [] kind = "address_port_dependent" -> <<"nat", target.ip, target.port>>

Addresses == {<<"local">>, <<"nat">>} \cup {<<"nat", i>> : i \in {"primary", "other"}}
                 \cup {<<"nat", i, p>> : i, p \in {"primary", "other"}}

\* An answer carries the transaction of its request and the address the server saw;
\* it may also be an error, or lack the address.
Answers == [transaction : Probes, mapped : Addresses, valid : BOOLEAN]

Local == <<"local">>
Nothing == <<>>

TypeOK ==
    /\ kind \in Kinds
    /\ extended \in BOOLEAN
    /\ requests \subseteq Probes
    /\ answers \subseteq Answers
    /\ probe \in Probes
    /\ mappings \in [Probes -> Addresses \cup {Nothing}]
    /\ natType \in Detailed \cup {"unknown", "nat_detected"}
    /\ udpSTUN \in BOOLEAN
    /\ tcpSTUN \in BOOLEAN
    /\ checks \in [Keys -> {"running", "pass", "warn", "fail"}]
    /\ outcome \in {"none", "pass", "warning", "fail"}

Init ==
    /\ kind \in Kinds
    /\ extended \in BOOLEAN
    /\ requests = {1}
    /\ answers = {}
    /\ probe = 1
    /\ mappings = [p \in Probes |-> Nothing]
    /\ natType = "unknown"
    /\ udpSTUN = FALSE
    /\ tcpSTUN = FALSE
    /\ checks = [k \in Keys |-> "running"]
    /\ outcome = "none"

-------------------------------------------------------------------------------
(* The network and the server *)

\* Where the probes go: the server, its other address, and its other port there.
Target(p) == CASE p = 1 -> [ip |-> "primary", port |-> "primary"]
               [] p = 2 -> [ip |-> "other", port |-> "primary"]
               [] p = 3 -> [ip |-> "other", port |-> "other"]

ServerAnswers(p, valid) ==
    /\ p \in requests
    /\ answers' = answers \cup
           {[transaction |-> p, mapped |-> Mapped(Target(p)), valid |-> valid]}
    /\ UNCHANGED <<netVars, requests, probe, mappings, reportVars>>

\* A request or an answer does not arrive (again).
LoseRequest(p) ==
    /\ p \in requests
    /\ requests' = requests \ {p}
    /\ UNCHANGED <<netVars, answers, probe, mappings, reportVars>>

LoseAnswer(a) ==
    /\ a \in answers
    /\ answers' = answers \ {a}
    /\ UNCHANGED <<netVars, requests, probe, mappings, reportVars>>

-------------------------------------------------------------------------------
(* discoverNATMapping *)

Discovering == checks["stun_udp"] = "running"

\* The task ends with a type.
Discovered(type) ==
    /\ udpSTUN' = TRUE
    /\ natType' = type
    /\ checks' = [checks EXCEPT !["stun_udp"] =
                      IF type \in {"unknown", "nat_detected"} THEN "warn" ELSE "pass"]
    /\ UNCHANGED <<tcpSTUN, outcome>>

\* The next probe is sent.
Proceed ==
    /\ probe' = probe + 1
    /\ requests' = requests \cup {probe + 1}
    /\ UNCHANGED reportVars

Stay == UNCHANGED <<probe, requests>>

\* discoverNATMapping with the address that the probe has returned.
Classify(mapped) ==
    CASE probe = 1 /\ mapped = Local -> Discovered("open_internet") /\ Stay
      [] probe = 1 /\ mapped # Local /\ ~extended -> Discovered("nat_detected") /\ Stay
      [] probe = 2 /\ mapped = mappings[1] -> Discovered("endpoint_independent") /\ Stay
      [] probe = 3 /\ mapped = mappings[2] -> Discovered("address_dependent") /\ Stay
      [] probe = 3 /\ mapped # mappings[2] -> Discovered("address_port_dependent") /\ Stay
      [] OTHER -> Proceed

\* Faulty variant of Own: any answer will do.
OwnAny(a) == TRUE

\* stunBindingUDP goes on reading when the transaction is another one.
Own(a) == a.transaction = probe

\* A failure of the first probe fails the check; a later one leaves the type open.
ProbeFails ==
    /\ IF probe = 1
       THEN /\ checks' = [checks EXCEPT !["stun_udp"] = "fail"]
            /\ UNCHANGED <<natType, udpSTUN, tcpSTUN, outcome>>
       ELSE Discovered("unknown")
    /\ UNCHANGED <<netVars, requests, probe, mappings>>

ReadAnswer(a) ==
    /\ Discovering
    /\ a \in answers
    /\ Own(a)
    /\ answers' \in {answers, answers \ {a}}
    /\ IF a.valid
       THEN /\ mappings' = [mappings EXCEPT ![probe] = a.mapped]
            /\ Classify(a.mapped)
            /\ UNCHANGED netVars
       ELSE ProbeFails

\* A datagram too short or without the magic cookie ends the probe.
ReadNoise ==
    /\ Noise
    /\ Discovering
    /\ ProbeFails
    /\ UNCHANGED answers

\* Faulty variant of Deadline: only the first probe has one.
DeadlineOfFirst ==
    /\ Discovering
    /\ probe = 1
    /\ ProbeFails
    /\ UNCHANGED answers

\* The probe's deadline passes, or the request cannot be sent.
Deadline ==
    /\ Discovering
    /\ ProbeFails
    /\ UNCHANGED answers

-------------------------------------------------------------------------------
(* The other tasks, and the report *)

\* checkProxyEnvironment and the look for the NATMap binary.
CheckEnvironment(key, status) ==
    /\ checks[key] = "running"
    /\ checks' = [checks EXCEPT ![key] = status]
    /\ UNCHANGED <<netVars, requests, answers, probe, mappings, natType, udpSTUN, tcpSTUN, outcome>>

\* stunBinding over TCP.
CheckTCP(success) ==
    /\ checks["stun_tcp"] = "running"
    /\ tcpSTUN' = success
    /\ checks' = [checks EXCEPT !["stun_tcp"] = IF success THEN "pass" ELSE "warn"]
    /\ UNCHANGED <<netVars, requests, answers, probe, mappings, natType, udpSTUN, outcome>>

\* Faulty variant of diagnosticOutcome: the last check decides.
diagnosticOutcomeLast == IF "fail" \in {checks[k] : k \in Keys} THEN "fail"
                         ELSE IF checks["stun_tcp"] = "warn" THEN "warning" ELSE "pass"

diagnosticOutcome == IF \E k \in Keys : checks[k] = "fail" THEN "fail"
                     ELSE IF \E k \in Keys : checks[k] = "warn" THEN "warning" ELSE "pass"

\* After wait.Wait.
Report ==
    /\ outcome = "none"
    /\ \A k \in Keys : checks[k] # "running"
    /\ outcome' = diagnosticOutcome
    /\ UNCHANGED <<netVars, requests, answers, probe, mappings, natType, udpSTUN, tcpSTUN, checks>>

Others ==
    \/ \E k \in {"proxy_environment", "natmap_binary"}, status \in {"pass", "fail"} :
         CheckEnvironment(k, status)
    \/ \E success \in BOOLEAN : CheckTCP(success)

Network ==
    \/ \E p \in Probes, valid \in BOOLEAN : ServerAnswers(p, valid)
    \/ \E p \in Probes : LoseRequest(p)
    \/ \E a \in answers : LoseAnswer(a)

Next ==
    \/ Network
    \/ \E a \in answers : ReadAnswer(a)
    \/ ReadNoise
    \/ Deadline
    \/ Others
    \/ Report

Spec == Init /\ [][Next]_vars

\* A deadline passes, and every other task has a time limit as well.
FairSpec == Spec /\ WF_vars(Deadline) /\ WF_vars(Others) /\ WF_vars(Report)

-------------------------------------------------------------------------------
(* Properties *)

\* A detailed type that is reported is that of the NAT, whichever datagrams are
\* lost, late or doubled.
TypeIsReal == natType \in Detailed => natType = kind

\* The type, the reachability and the outcome of one report fit together, though
\* different goroutines write them: a passed report has a type and both kinds of STUN.
ReportAgrees ==
    /\ outcome = "pass" => natType \in Detailed /\ udpSTUN /\ tcpSTUN
    /\ outcome # "none" => (checks["stun_udp"] = "fail" <=> ~udpSTUN)

\* The page gets its report though nothing comes from the network.
ReportEventually == <>(outcome # "none")
===============================================================================

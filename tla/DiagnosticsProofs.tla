--------------------------- MODULE DiagnosticsProofs ---------------------------
(***************************************************************************)
(* Theorems about the network diagnosis: NATDiscovery, for every set of    *)
(* NAT kinds and any behaviour of the network, and STUNResponse, for       *)
(* answers of every length and with every content.                         *)
(***************************************************************************)
EXTENDS NATDiscovery, STUNResponse, TLAPS

\* An answer in flight says what the NAT has made of the target of its probe.
AnswersTrue == \A a \in answers : a.mapped = Mapped(Target(a.transaction))

\* While the discovery runs, the earlier probes have returned what the NAT made of
\* their targets, and have not decided the type.
Progress ==
    /\ natType \in Detailed => natType = kind
    /\ Discovering =>
         /\ natType = "unknown"
         /\ probe >= 2 => mappings[1] = Mapped(Target(1)) /\ kind # "open_internet"
         /\ probe = 3 => /\ mappings[2] = Mapped(Target(2))
                         /\ kind # "endpoint_independent"

IInv == TypeOK /\ AnswersTrue /\ Progress

-------------------------------------------------------------------------------

\* What each kind makes of the three targets.
LEMMA Mappings ==
  /\ kind = "open_internet" => \A p \in Probes : Mapped(Target(p)) = <<"local">>
  /\ kind = "endpoint_independent" => \A p \in Probes : Mapped(Target(p)) = <<"nat">>
  /\ kind = "address_dependent" => /\ Mapped(Target(1)) = <<"nat", "primary">>
                                   /\ Mapped(Target(2)) = <<"nat", "other">>
                                   /\ Mapped(Target(3)) = <<"nat", "other">>
  /\ kind = "address_port_dependent" =>
       /\ Mapped(Target(1)) = <<"nat", "primary", "primary">>
       /\ Mapped(Target(2)) = <<"nat", "other", "primary">>
       /\ Mapped(Target(3)) = <<"nat", "other", "other">>
  <1>1. /\ Target(1) = [ip |-> "primary", port |-> "primary"]
        /\ Target(2) = [ip |-> "other", port |-> "primary"]
        /\ Target(3) = [ip |-> "other", port |-> "other"]
    BY DEF Target
  <1>2. ASSUME kind = "open_internet", NEW p \in Probes PROVE Mapped(Target(p)) = <<"local">>
    BY <1>2 DEF Mapped
  <1>3. ASSUME kind = "endpoint_independent", NEW p \in Probes
        PROVE  Mapped(Target(p)) = <<"nat">>
    BY <1>3 DEF Mapped
  <1>4. ASSUME kind = "address_dependent", NEW t \in Targets
        PROVE  Mapped(t) = <<"nat", t.ip>>
    BY <1>4 DEF Mapped
  <1>5. ASSUME kind = "address_port_dependent", NEW t \in Targets
        PROVE  Mapped(t) = <<"nat", t.ip, t.port>>
    BY <1>5 DEF Mapped
  <1>6. Target(1) \in Targets /\ Target(2) \in Targets /\ Target(3) \in Targets
    BY <1>1 DEF Targets
  <1> QED
    BY <1>1, <1>2, <1>3, <1>4, <1>5, <1>6

LEMMA MappedType ==
  ASSUME kind \in Detailed, NEW p \in Probes
  PROVE  Mapped(Target(p)) \in Addresses
  <1>1. p \in {1, 2, 3}
    BY DEF Probes
  <1> QED
    BY <1>1, Mappings DEF Detailed, Probes, Addresses

\* The three addresses tell the kinds apart.
LEMMA KindsDiffer ==
  ASSUME kind \in Detailed
  PROVE  /\ Mapped(Target(1)) = Local <=> kind = "open_internet"
         /\ kind # "open_internet" =>
              (Mapped(Target(2)) = Mapped(Target(1)) <=> kind = "endpoint_independent")
         /\ kind \notin {"open_internet", "endpoint_independent"} =>
              (Mapped(Target(3)) = Mapped(Target(2)) <=> kind = "address_dependent")
  <1>1. /\ <<"local">> # <<"nat">>
        /\ <<"local">> # <<"nat", "primary">>
        /\ <<"local">> # <<"nat", "primary", "primary">>
        /\ <<"nat", "other">> # <<"nat", "primary">>
        /\ <<"nat", "other", "primary">> # <<"nat", "primary", "primary">>
        /\ <<"nat", "other", "other">> # <<"nat", "other", "primary">>
    OBVIOUS
  <1>2. 1 \in Probes /\ 2 \in Probes /\ 3 \in Probes
    BY DEF Probes
  <1>3. CASE kind = "open_internet"
    BY <1>1, <1>2, <1>3, Mappings DEF Local
  <1>4. CASE kind = "endpoint_independent"
    BY <1>1, <1>2, <1>4, Mappings DEF Local
  <1>5. CASE kind = "address_dependent"
    BY <1>1, <1>2, <1>5, Mappings DEF Local
  <1>6. CASE kind = "address_port_dependent"
    BY <1>1, <1>2, <1>6, Mappings DEF Local
  <1> QED
    BY <1>3, <1>4, <1>5, <1>6 DEF Detailed

LEMMA InitIInv == Init => IInv
  <1> SUFFICES ASSUME Init PROVE IInv
    OBVIOUS
  <1>1. 1 \in Probes /\ {1} \subseteq Probes
    BY DEF Probes
  <1>2. TypeOK
    BY <1>1 DEF Init, TypeOK
  <1>3. AnswersTrue
    BY DEF Init, AnswersTrue
  <1>4. Progress
    BY DEF Init, Progress, Detailed
  <1> QED
    BY <1>2, <1>3, <1>4 DEF IInv

-------------------------------------------------------------------------------
(* Steps *)

LEMMA NetworkIInv == IInv /\ Network => IInv'
  <1> SUFFICES ASSUME IInv, Network PROVE IInv'
    OBVIOUS
  <1> USE DEF IInv, netVars, reportVars
  <1>1. Progress'
    BY DEF Network, ServerAnswers, LoseRequest, LoseAnswer, Progress, Mapped, Discovering
  <1>2. ASSUME NEW p \in Probes, NEW valid \in BOOLEAN, ServerAnswers(p, valid)
        PROVE  TypeOK' /\ AnswersTrue'
    <2>1. kind \in Detailed /\ kind' = kind
      BY <1>2, DiscoveryAssumption DEF TypeOK, ServerAnswers
    <2>2. Mapped(Target(p)) \in Addresses
      BY <2>1, MappedType
    <2>3. answers' = answers \cup
            {[transaction |-> p, mapped |-> Mapped(Target(p)), valid |-> valid]}
      BY <1>2 DEF ServerAnswers
    <2>4. TypeOK'
      BY <1>2, <2>2, <2>3 DEF TypeOK, ServerAnswers, Answers
    <2>5. ASSUME NEW a \in answers' PROVE a.mapped = Mapped(Target(a.transaction))
      BY <2>3, <2>5 DEF AnswersTrue
    <2>6. AnswersTrue'
      BY <2>1, <2>5 DEF AnswersTrue, Mapped
    <2> QED
      BY <2>4, <2>6
  <1>3. ASSUME NEW p \in Probes, LoseRequest(p) PROVE TypeOK' /\ AnswersTrue'
    BY <1>3 DEF TypeOK, AnswersTrue, LoseRequest, Mapped
  <1>4. ASSUME NEW a \in answers, LoseAnswer(a) PROVE TypeOK' /\ AnswersTrue'
    BY <1>4 DEF TypeOK, AnswersTrue, LoseAnswer, Mapped
  <1> QED
    BY <1>1, <1>2, <1>3, <1>4 DEF Network

LEMMA ProbeFailsIInv ==
  ASSUME IInv, Discovering, ProbeFails, answers' \subseteq answers
  PROVE  IInv'
  <1> USE DEF IInv, netVars, Discovered
  <1>1. /\ UNCHANGED <<kind, extended, requests, probe, mappings, tcpSTUN, outcome>>
        /\ natType' = natType \/ natType' = "unknown"
        /\ udpSTUN' \in BOOLEAN
        /\ \E status \in {"warn", "fail"} :
             checks' = [checks EXCEPT !["stun_udp"] = status]
    BY DEF ProbeFails, TypeOK
  <1>2. TypeOK'
    BY <1>1 DEF TypeOK, Keys
  <1>3. AnswersTrue'
    BY <1>1 DEF AnswersTrue, Mapped
  <1>4. ~Discovering'
    BY <1>1 DEF Discovering, TypeOK, Keys
  <1>5. Progress'
    BY <1>1, <1>4 DEF Progress, Detailed
  <1> QED
    BY <1>2, <1>3, <1>5

LEMMA DiscoveredIInv ==
  ASSUME IInv, NEW type \in Detailed \cup {"nat_detected"}, Discovered(type), Stay,
         UNCHANGED netVars, mappings' \in [Probes -> Addresses \cup {Nothing}],
         answers' \subseteq answers, type \in Detailed => type = kind
  PROVE  IInv'
  <1> USE DEF IInv, netVars, Stay, Discovered
  <1>1. TypeOK'
    BY DEF TypeOK, Keys
  <1>2. AnswersTrue'
    BY DEF AnswersTrue, Mapped
  <1>3. ~Discovering'
    BY DEF Discovering, TypeOK, Keys
  <1>4. Progress'
    BY <1>3 DEF Progress
  <1> QED
    BY <1>1, <1>2, <1>4

LEMMA ReadAnswerIInv ==
  ASSUME IInv, NEW a \in answers, ReadAnswer(a)
  PROVE  IInv'
  <1>1. Discovering /\ a.transaction = probe /\ answers' \subseteq answers
    BY DEF ReadAnswer, Own
  <1>2. CASE ~a.valid
    BY <1>1, <1>2, ProbeFailsIInv DEF ReadAnswer
  <1>3. CASE a.valid
    <2> DEFINE m == a.mapped
    <2>1. /\ mappings' = [mappings EXCEPT ![probe] = m]
          /\ Classify(m) /\ UNCHANGED netVars
      BY <1>3 DEF ReadAnswer
    <2>2. /\ m = Mapped(Target(probe)) /\ m \in Addresses
          /\ probe \in {1, 2, 3} /\ kind \in Detailed
      BY <1>1, DiscoveryAssumption DEF IInv, TypeOK, AnswersTrue, Answers, Probes
    <2>3. mappings' \in [Probes -> Addresses \cup {Nothing}]
      BY <2>1, <2>2 DEF IInv, TypeOK
    <2>4. /\ probe >= 2 => mappings[1] = Mapped(Target(1)) /\ kind # "open_internet"
          /\ probe = 3 => mappings[2] = Mapped(Target(2)) /\ kind # "endpoint_independent"
          /\ natType = "unknown"
      BY <1>1 DEF IInv, Progress
    <2> HIDE DEF m
    <2>5. CASE \E type \in Detailed \cup {"nat_detected"} :
                 Discovered(type) /\ Stay /\ (type \in Detailed => type = kind)
      BY <2>5, <2>1, <2>3, <1>1, DiscoveredIInv
    <2>6. CASE Proceed /\ probe \in {1, 2} /\ (probe = 1 => m # Local)
                 /\ (probe = 2 => m # mappings[1])
      <3>1. /\ kind' = kind /\ natType' = natType /\ probe' = probe + 1
            /\ probe' \in Probes /\ checks' = checks
        BY <2>1, <2>6 DEF Proceed, netVars, reportVars, Probes
      <3>2. mappings'[1] = Mapped(Target(1)) /\ kind # "open_internet"
        BY <2>1, <2>2, <2>4, <2>6, KindsDiffer DEF IInv, TypeOK, Probes
      <3>3. probe' = 3 => mappings'[2] = Mapped(Target(2)) /\ kind # "endpoint_independent"
        BY <3>1, <2>1, <2>2, <2>4, <2>6, KindsDiffer DEF IInv, TypeOK, Probes
      <3>4. \A t \in Targets : Mapped(t)' = Mapped(t)
        BY <3>1 DEF Mapped
      <3>5. Progress'
        BY <3>1, <3>2, <3>3, <2>4 DEF Progress, Detailed, Mapped, Discovering
      <3>6. TypeOK' /\ AnswersTrue'
        BY <2>1, <2>3, <2>6, <3>1, <1>1
        DEF IInv, TypeOK, AnswersTrue, Proceed, netVars, reportVars, Mapped
      <3> QED
        BY <3>5, <3>6 DEF IInv
    <2>7. \/ probe = 1 /\ m = Local /\ Discovered("open_internet") /\ Stay
          \/ probe = 1 /\ m # Local /\ ~extended /\ Discovered("nat_detected") /\ Stay
          \/ probe = 2 /\ m = mappings[1] /\ Discovered("endpoint_independent") /\ Stay
          \/ probe = 3 /\ m = mappings[2] /\ Discovered("address_dependent") /\ Stay
          \/ probe = 3 /\ m # mappings[2] /\ Discovered("address_port_dependent") /\ Stay
          \/ Proceed /\ probe = 1 /\ m # Local
          \/ Proceed /\ probe = 2 /\ m # mappings[1]
      BY <2>1, <2>2 DEF Classify
    <2>8. /\ probe = 1 /\ m = Local => kind = "open_internet"
          /\ probe = 2 /\ m = mappings[1] => kind = "endpoint_independent"
          /\ probe = 3 /\ m = mappings[2] => kind = "address_dependent"
          /\ probe = 3 /\ m # mappings[2] => kind = "address_port_dependent"
      BY <2>2, <2>4, KindsDiffer DEF Detailed
    <2> QED
      BY <2>5, <2>6, <2>7, <2>8 DEF Detailed
  <1> QED
    BY <1>2, <1>3

LEMMA OthersIInv == IInv /\ (Others \/ Report) => IInv'
  <1> SUFFICES ASSUME IInv, Others \/ Report PROVE IInv'
    OBVIOUS
  <1> USE DEF IInv, netVars
  <1>1. /\ UNCHANGED <<kind, extended, requests, answers, probe, mappings, natType, udpSTUN>>
        /\ tcpSTUN' \in BOOLEAN
        /\ outcome' \in {"none", "pass", "warning", "fail"}
        /\ checks' \in [Keys -> {"running", "pass", "warn", "fail"}]
        /\ checks'["stun_udp"] = checks["stun_udp"]
    BY DEF Others, Report, CheckEnvironment, CheckTCP, diagnosticOutcome, TypeOK, Keys
  <1>2. TypeOK'
    BY <1>1 DEF TypeOK
  <1>3. AnswersTrue' /\ Progress'
    BY <1>1 DEF AnswersTrue, Progress, Mapped, Discovering
  <1> QED
    BY <1>2, <1>3

LEMMA NextIInv == IInv /\ [Next]_vars => IInv'
  <1> SUFFICES ASSUME IInv, [Next]_vars PROVE IInv'
    OBVIOUS
  <1>1. CASE Network
    BY <1>1, NetworkIInv
  <1>2. CASE \E a \in answers : ReadAnswer(a)
    BY <1>2, ReadAnswerIInv
  <1>3. CASE ReadNoise \/ Deadline
    BY <1>3, ProbeFailsIInv DEF ReadNoise, Deadline
  <1>4. CASE Others \/ Report
    BY <1>4, OthersIInv
  <1>5. CASE UNCHANGED vars
    BY <1>5 DEF vars, IInv, TypeOK, AnswersTrue, Progress, Mapped, Discovering
  <1> QED
    BY <1>1, <1>2, <1>3, <1>4, <1>5 DEF Next

\* Every variable has its type, whatever comes from the network.
THEOREM TypeCorrect == Spec => []TypeOK
  <1>1. IInv => TypeOK
    BY DEF IInv
  <1> QED
    BY <1>1, InitIInv, NextIInv, PTL DEF Spec

\* A detailed NAT type that DiagnoseNetwork reports is the real one.
THEOREM TypeReal == Spec => []TypeIsReal
  <1>1. IInv => TypeIsReal
    BY DEF IInv, Progress, TypeIsReal
  <1> QED
    BY <1>1, InitIInv, NextIInv, PTL DEF Spec

-------------------------------------------------------------------------------
(* The report.  Each task ends with a check that fits what it has set, and nothing *)
(* writes once all of them have ended.                                             *)

ChecksFit ==
    /\ Discovering => ~udpSTUN
    /\ ~Discovering => (checks["stun_udp"] = "fail" <=> ~udpSTUN)
    /\ checks["stun_udp"] = "pass" => natType \in Detailed
    /\ checks["stun_tcp"] = "pass" => tcpSTUN

Ended ==
    /\ outcome # "none" => \A k \in Keys : checks[k] # "running"
    /\ outcome = "pass" => \A k \in Keys : checks[k] = "pass"

ReportIInv == TypeOK /\ ChecksFit /\ Ended

\* A probe that fails ends the task with a check that fits.
LEMMA ProbeFailsReport ==
  ASSUME ReportIInv, TypeOK', Discovering, ProbeFails
  PROVE  ReportIInv'
  <1>1. outcome = "none" /\ outcome' = "none"
    BY DEF ReportIInv, Ended, Discovering, Keys, ProbeFails, Discovered
  <1>2. /\ probe = 1 => checks' = [checks EXCEPT !["stun_udp"] = "fail"]
                        /\ udpSTUN' = udpSTUN
        /\ probe # 1 => checks' = [checks EXCEPT !["stun_udp"] = "warn"]
                        /\ udpSTUN' = TRUE
        /\ tcpSTUN' = tcpSTUN
    BY DEF ProbeFails, Discovered
  <1>3. ChecksFit'
    BY <1>2 DEF ReportIInv, ChecksFit, Discovering, TypeOK, Keys
  <1> QED
    BY <1>1, <1>3 DEF ReportIInv, Ended

LEMMA ReadAnswerReport ==
  ASSUME ReportIInv, TypeOK', NEW a \in answers, ReadAnswer(a)
  PROVE  ReportIInv'
  <1>1. Discovering
    BY DEF ReadAnswer
  <1>2. CASE ~a.valid
    BY <1>1, <1>2, ProbeFailsReport DEF ReadAnswer
  <1>3. CASE a.valid
    <2>1. Classify(a.mapped)
      BY <1>3 DEF ReadAnswer
    <2>2. probe \in {1, 2, 3}
      BY DEF ReportIInv, TypeOK, Probes
    <2>3. \/ Proceed
          \/ \E type \in Detailed \cup {"nat_detected"} : Discovered(type)
      BY <2>1, <2>2 DEF Classify, Detailed
    <2>4. CASE Proceed
      BY <2>4 DEF Proceed, reportVars, ReportIInv, ChecksFit, Ended, Discovering
    <2>5. ASSUME NEW type \in Detailed \cup {"nat_detected"}, Discovered(type)
          PROVE  ReportIInv'
      <3>1. outcome = "none" /\ outcome' = "none"
        BY <1>1, <2>5 DEF ReportIInv, Ended, Discovering, Keys, Discovered
      <3>2. ChecksFit'
        BY <1>1, <2>5
        DEF Discovered, ReportIInv, ChecksFit, Discovering, TypeOK, Keys, Detailed
      <3> QED
        BY <3>1, <3>2 DEF ReportIInv, Ended
    <2> QED
      BY <2>3, <2>4, <2>5
  <1> QED
    BY <1>2, <1>3

LEMMA OthersReport ==
  ASSUME ReportIInv, TypeOK', Others \/ Report
  PROVE  ReportIInv'
  <1> USE DEF ReportIInv, ChecksFit, Ended, Discovering, TypeOK, Keys
  <1>1. ASSUME NEW k \in {"proxy_environment", "natmap_binary"}, NEW status \in {"pass", "fail"},
               CheckEnvironment(k, status)
        PROVE  ReportIInv'
    BY <1>1 DEF CheckEnvironment
  <1>2. ASSUME NEW success \in BOOLEAN, CheckTCP(success) PROVE ReportIInv'
    BY <1>2 DEF CheckTCP
  <1>3. CASE Report
    BY <1>3 DEF Report, diagnosticOutcome
  <1> QED
    BY <1>1, <1>2, <1>3 DEF Others

\* What the page shows of one report fits together.
THEOREM ReportConsistent == Spec => []ReportAgrees
  <1>1. Init => ReportIInv
    BY InitIInv DEF IInv, Init, ReportIInv, ChecksFit, Ended, Discovering, Keys
  <1>2. TypeOK' /\ ReportIInv /\ [Next]_vars => ReportIInv'
    <2> SUFFICES ASSUME TypeOK', ReportIInv, [Next]_vars PROVE ReportIInv'
      OBVIOUS
    <2>1. CASE Network \/ UNCHANGED vars
      BY <2>1 DEF Network, ServerAnswers, LoseRequest, LoseAnswer, reportVars, vars,
                  ReportIInv, ChecksFit, Ended, Discovering
    <2>2. CASE \E a \in answers : ReadAnswer(a)
      BY <2>2, ReadAnswerReport
    <2>3. CASE ReadNoise \/ Deadline
      BY <2>3, ProbeFailsReport DEF ReadNoise, Deadline
    <2>4. CASE Others \/ Report
      BY <2>4, OthersReport
    <2> QED
      BY <2>1, <2>2, <2>3, <2>4 DEF Next
  <1>3. ReportIInv => ReportAgrees
    BY DEF ReportIInv, ChecksFit, Ended, Discovering, ReportAgrees, Keys, TypeOK
  <1> QED
    BY <1>1, <1>2, <1>3, TypeCorrect, PTL DEF Spec

-------------------------------------------------------------------------------
(* The parser of STUN answers *)

\* While attributes are read, the message lies within the response, and each
\* attribute read so far has moved the offset past its header.
Reading ==
    /\ offset >= 20
    /\ state # "error" => 4 * reads + 20 <= offset
    /\ state = "header" => reads = 0
    /\ state = "attributes" => 20 + body <= length

\* The address that would be reported now.
Candidate ==
    /\ mapped = IF xored # <<>> THEN Last(xored)
                ELSE IF plain # <<>> THEN Head(plain) ELSE 0
    /\ \A i \in DOMAIN plain : plain[i] # 0
    /\ \A i \in DOMAIN xored : xored[i] # 0

ParserIInv == ParserTypeOK /\ Reading /\ Candidate /\ InRange /\ ReadsBounded

-------------------------------------------------------------------------------

LEMMA LengthTypes == /\ \A n \in Lengths : n \in Nat
                     /\ \A n \in BodyLengths : n \in Nat
                     /\ \A n \in AttLengths : n \in Nat
  <1>1. ASSUME NEW max PROVE \A n \in 0..max : n \in Nat
    OBVIOUS
  <1> QED
    BY <1>1 DEF Lengths, BodyLengths, AttLengths

LEMMA PaddingType == ASSUME NEW n \in Nat PROVE Padding(n) \in Nat
  BY DEF Padding

LEMMA FollowingMoves ==
  ASSUME NEW n \in Nat, offset \in Nat
  PROVE  Following(n) \in Nat /\ Following(n) >= offset + 4
  BY PaddingType DEF Following

LEMMA Appended ==
  ASSUME NEW s \in Seq(Nat), NEW x \in Nat, x # 0, \A i \in DOMAIN s : s[i] # 0
  PROVE  /\ Append(s, x) \in Seq(Nat)
         /\ Append(s, x) # <<>>
         /\ Last(Append(s, x)) = x
         /\ s # <<>> => Head(Append(s, x)) = Head(s)
         /\ s = <<>> => Head(Append(s, x)) = x
         /\ \A i \in DOMAIN Append(s, x) : Append(s, x)[i] # 0
  BY DEF Last

LEMMA OneMoreRead ==
  ASSUME NEW r \in Nat, NEW o \in Nat, NEW following \in Nat, NEW l \in Nat,
         4 * r + 20 <= o, following >= o + 4, o + 4 <= l
  PROVE  4 * (r + 1) + 20 <= following /\ 4 * (r + 1) <= l
  OBVIOUS

LEMMA ParserInitIInv == ParserInit => ParserIInv
  <1> SUFFICES ASSUME ParserInit PROVE ParserIInv
    OBVIOUS
  <1>1. length \in Nat
    BY LengthTypes DEF ParserInit
  <1>2. ParserTypeOK
    <2>1. <<>> \in Seq(Nat) /\ 0 \in Nat /\ 20 \in Nat
      OBVIOUS
    <2>2. /\ state = "header" /\ xor = FALSE
          /\ plain \in Seq(Nat) /\ xored \in Seq(Nat)
          /\ body = 0 /\ offset \in Nat /\ mapped \in Nat
          /\ reads \in Nat /\ touched \in Nat
      BY <2>1 DEF ParserInit
    <2> QED
      BY <2>2 DEF ParserInit, ParserTypeOK
  <1>3. Candidate
    BY DEF ParserInit, Candidate
  <1>4. Reading /\ InRange /\ ReadsBounded
    BY <1>1 DEF ParserInit, Reading, InRange, ReadsBounded
  <1> QED
    BY <1>2, <1>3, <1>4 DEF ParserIInv

-------------------------------------------------------------------------------

LEMMA EndIInv ==
  ASSUME ParserIInv, state = "header", NEW result \in {"mismatch", "error"}, End(result),
         touched' \in Nat, touched' <= length
  PROVE  ParserIInv'
  BY DEF ParserIInv, ParserTypeOK, Reading, Candidate, InRange, ReadsBounded, End

LEMMA NotSTUNIInv == ParserIInv /\ NotSTUN => ParserIInv'
  <1> SUFFICES ASSUME ParserIInv, NotSTUN PROVE ParserIInv'
    OBVIOUS
  <1>1. touched' \in Nat /\ touched' <= length
    BY LengthTypes DEF NotSTUN, ParserIInv, ParserTypeOK, InRange
  <1> QED
    BY <1>1, EndIInv DEF NotSTUN

LEMMA RejectedIInv == ParserIInv /\ (OtherTransaction \/ ErrorResponse) => ParserIInv'
  <1> SUFFICES ASSUME ParserIInv, OtherTransaction \/ ErrorResponse PROVE ParserIInv'
    OBVIOUS
  <1>1. touched' \in Nat /\ touched' <= length
    BY DEF OtherTransaction, ErrorResponse
  <1> QED
    BY <1>1, EndIInv DEF OtherTransaction, ErrorResponse

LEMMA ReadHeaderIInv ==
  ASSUME ParserIInv, NEW b \in BodyLengths, ReadHeader(b)
  PROVE  ParserIInv'
  BY LengthTypes DEF ParserIInv, ParserTypeOK, Reading, Candidate, InRange, ReadsBounded, ReadHeader

\* What the code checks before it takes a value makes the value lie in the response.
LEMMA SkipAttributeIInv ==
  ASSUME ParserIInv, NEW n \in AttLengths, SkipAttribute(n)
  PROVE  ParserIInv'
  <1>1. n \in Nat /\ length \in Nat /\ body \in Nat
    BY LengthTypes DEF ParserIInv, ParserTypeOK
  <1>2. Following(n) \in Nat /\ Following(n) >= offset + 4
    BY <1>1, FollowingMoves DEF ParserIInv, ParserTypeOK
  <1>3. offset + 4 <= length
    BY <1>1, LengthTypes DEF ParserIInv, ParserTypeOK, Reading, SkipAttribute, MoreAttributes
  <1>4. touched' \in Nat /\ touched' <= length
    BY <1>1, <1>3 DEF ParserIInv, ParserTypeOK, InRange, SkipAttribute, Larger
  <1>5. ParserTypeOK' /\ InRange' /\ Candidate'
    BY <1>2, <1>4 DEF ParserIInv, ParserTypeOK, InRange, Candidate, SkipAttribute
  <1>6. Reading' /\ ReadsBounded'
    <2>1. /\ reads \in Nat /\ offset \in Nat /\ offset >= 20 /\ 4 * reads + 20 <= offset
          /\ state = "attributes" /\ reads' = reads + 1 /\ UNCHANGED <<length, body>>
          /\ 20 + body <= length
          /\ \/ state' = "attributes" /\ offset' = Following(n)
             \/ state' = "error" /\ UNCHANGED offset
      BY DEF ParserIInv, ParserTypeOK, Reading, SkipAttribute
    <2>2. 4 * (reads + 1) + 20 <= Following(n) /\ 4 * (reads + 1) <= length
      BY <2>1, <1>1, <1>2, <1>3, OneMoreRead
    <2>3. CASE state' = "attributes"
      BY <2>1, <2>2, <2>3, <1>2 DEF Reading, ReadsBounded
    <2>4. CASE state' = "error"
      BY <2>1, <2>2, <2>4 DEF Reading, ReadsBounded
    <2> QED
      BY <2>1, <2>3, <2>4
  <1> QED
    BY <1>5, <1>6 DEF ParserIInv

\* So does what it checks before it takes an address out of the value.
LEMMA AddressInRange ==
  ASSUME NEW n \in Nat, NEW size \in AddressSizes
  PROVE  AddressBytes(n, size) \in Nat /\ AddressBytes(n, size) <= n
  BY DEF AddressSizes, AddressBytes, ValidAddress

\* An attribute with an address leaves the parser in the response, and the rest of
\* the invariant to what is kept of the address.
LEMMA AddressAttributeKeeps ==
  ASSUME ParserIInv, NEW n \in AttLengths, NEW size \in AddressSizes,
         AddressAttribute(n, size)
  PROVE  /\ offset \in Nat /\ offset >= 20
         /\ length' \in Lengths /\ body' \in BodyLengths \cup {0}
         /\ state' \in {"attributes", "error"}
         /\ offset' \in Nat /\ reads' \in Nat /\ touched' \in Nat
         /\ InRange' /\ Reading' /\ ReadsBounded'
  <1>1. n \in Nat /\ length \in Nat /\ body \in Nat /\ offset \in Nat /\ offset >= 20
    BY LengthTypes DEF ParserIInv, ParserTypeOK, Reading
  <1>2. Following(n) \in Nat /\ Following(n) >= offset + 4
    BY <1>1, FollowingMoves
  <1>3. offset + 4 + n <= length
    BY DEF AddressAttribute, Fits
  <1>4. touched' \in Nat /\ touched' <= length
    <2>1. touched' = Larger(touched, offset + 4 + AddressBytes(n, size))
      BY DEF AddressAttribute
    <2>2. AddressBytes(n, size) \in Nat /\ AddressBytes(n, size) <= n
      BY <1>1, AddressInRange
    <2>3. touched \in Nat /\ touched <= length
      BY DEF ParserIInv, ParserTypeOK, InRange
    <2> QED
      BY <2>1, <2>2, <2>3, <1>1, <1>3 DEF Larger
  <1>5. /\ reads \in Nat /\ 4 * reads + 20 <= offset
        /\ state = "attributes" /\ reads' = reads + 1 /\ UNCHANGED <<length, body>>
        /\ 20 + body <= length
        /\ \/ state' = "attributes" /\ offset' = Following(n)
           \/ state' = "error" /\ UNCHANGED offset
    BY DEF ParserIInv, ParserTypeOK, Reading, AddressAttribute
  <1>6. 4 * (reads + 1) + 20 <= Following(n) /\ 4 * (reads + 1) <= length
    BY <1>5, <1>1, <1>2, <1>3, OneMoreRead
  <1>7. CASE state' = "attributes"
    BY <1>5, <1>6, <1>7, <1>1, <1>2, <1>4
       DEF ParserIInv, ParserTypeOK, Reading, ReadsBounded, InRange
  <1>8. CASE state' = "error"
    BY <1>5, <1>6, <1>8, <1>1, <1>4
       DEF ParserIInv, ParserTypeOK, Reading, ReadsBounded, InRange
  <1> QED
    BY <1>5, <1>7, <1>8

LEMMA ReadAddressIInv ==
  ASSUME ParserIInv, NEW n \in AttLengths, NEW isXor \in BOOLEAN, NEW size \in AddressSizes,
         ReadAddress(n, isXor, size)
  PROVE  ParserIInv'
  <1>1. /\ offset \in Nat /\ offset >= 20
        /\ length' \in Lengths /\ body' \in BodyLengths \cup {0}
        /\ state' \in {"attributes", "error"}
        /\ offset' \in Nat /\ reads' \in Nat /\ touched' \in Nat
        /\ InRange' /\ Reading' /\ ReadsBounded'
    BY AddressAttributeKeeps DEF ReadAddress
  <1> DEFINE valid == ValidAddress(n, size)
  <1>2. CASE ~valid
    BY <1>1, <1>2 DEF ParserIInv, ParserTypeOK, Candidate, ReadAddress
  <1>3. CASE valid /\ isXor
    <2>1. plain' = plain /\ xored' = Append(xored, offset) /\ mapped' = offset /\ xor' = isXor
      BY <1>3 DEF ReadAddress, Preferred
    <2>2. /\ Append(xored, offset) \in Seq(Nat)
          /\ Append(xored, offset) # <<>>
          /\ Last(Append(xored, offset)) = offset
          /\ \A i \in DOMAIN Append(xored, offset) : Append(xored, offset)[i] # 0
      <3>1. xored \in Seq(Nat) /\ \A i \in DOMAIN xored : xored[i] # 0
        BY DEF ParserIInv, ParserTypeOK, Candidate
      <3>2. offset # 0
        BY <1>1
      <3> QED
        BY <1>1, <3>1, <3>2, Appended
    <2> HIDE DEF valid
    <2> QED
      BY <2>1, <2>2, <1>1 DEF ParserIInv, ParserTypeOK, Candidate
  <1>4. CASE valid /\ ~isXor
    <2>1. /\ xored' = xored
          /\ plain' = Append(plain, offset)
          /\ mapped' = IF mapped = 0 THEN offset ELSE mapped
          /\ xor' \in BOOLEAN
      BY <1>4 DEF ReadAddress, Preferred, ParserIInv, ParserTypeOK
    <2>2. xored # <<>> => Last(xored) # 0
      BY DEF ParserIInv, ParserTypeOK, Candidate, Last
    <2>3. plain # <<>> => Head(plain) # 0
      BY DEF ParserIInv, ParserTypeOK, Candidate
    <2>4. /\ Append(plain, offset) \in Seq(Nat)
          /\ Append(plain, offset) # <<>>
          /\ plain # <<>> => Head(Append(plain, offset)) = Head(plain)
          /\ plain = <<>> => Head(Append(plain, offset)) = offset
          /\ \A i \in DOMAIN Append(plain, offset) : Append(plain, offset)[i] # 0
      <3>1. plain \in Seq(Nat) /\ \A i \in DOMAIN plain : plain[i] # 0
        BY DEF ParserIInv, ParserTypeOK, Candidate
      <3>2. offset # 0
        BY <1>1
      <3> QED
        BY <1>1, <3>1, <3>2, Appended
    <2>5. ParserTypeOK'
      BY <2>1, <2>4, <1>1 DEF ParserIInv, ParserTypeOK
    <2>6. Candidate'
      <3>1. CASE xored # <<>>
        BY <2>1, <2>2, <2>4, <3>1 DEF ParserIInv, Candidate
      <3>2. CASE xored = <<>>
        BY <2>1, <2>3, <2>4, <3>2 DEF ParserIInv, Candidate
      <3> QED
        BY <3>1, <3>2
    <2> QED
      BY <2>5, <2>6, <1>1 DEF ParserIInv
  <1> QED
    BY <1>2, <1>3, <1>4

LEMMA ReadOtherIInv ==
  ASSUME ParserIInv, NEW n \in AttLengths, NEW size \in AddressSizes, ReadOther(n, size)
  PROVE  ParserIInv'
  <1>1. /\ length' \in Lengths /\ body' \in BodyLengths \cup {0}
        /\ state' \in {"attributes", "error"}
        /\ offset' \in Nat /\ reads' \in Nat /\ touched' \in Nat
        /\ InRange' /\ Reading' /\ ReadsBounded'
    BY AddressAttributeKeeps DEF ReadOther
  <1> QED
    BY <1>1 DEF ParserIInv, ParserTypeOK, Candidate, ReadOther

LEMMA FinishIInv == ParserIInv /\ Finish => ParserIInv'
  BY DEF ParserIInv, ParserTypeOK, Reading, Candidate, InRange, ReadsBounded, Finish, End

LEMMA ParserNextIInv == ParserIInv /\ [ParserNext]_parserVars => ParserIInv'
  <1> SUFFICES ASSUME ParserIInv, [ParserNext]_parserVars PROVE ParserIInv'
    OBVIOUS
  <1>1. CASE NotSTUN \/ OtherTransaction \/ ErrorResponse
    BY <1>1, NotSTUNIInv, RejectedIInv
  <1>2. CASE \E b \in BodyLengths : ReadHeader(b)
    BY <1>2, ReadHeaderIInv
  <1>3. CASE \E n \in AttLengths : SkipAttribute(n)
    BY <1>3, SkipAttributeIInv
  <1>4. CASE \E n \in AttLengths, isXor \in BOOLEAN, size \in AddressSizes :
               ReadAddress(n, isXor, size)
    BY <1>4, ReadAddressIInv
  <1>5. CASE \E n \in AttLengths, size \in AddressSizes : ReadOther(n, size)
    BY <1>5, ReadOtherIInv
  <1>6. CASE Finish
    BY <1>6, FinishIInv
  <1>7. CASE UNCHANGED parserVars
    BY <1>7 DEF parserVars, ParserIInv, ParserTypeOK, Reading, Candidate, InRange, ReadsBounded
  <1> QED
    BY <1>1, <1>2, <1>3, <1>4, <1>5, <1>6, <1>7 DEF ParserNext

\* The inductive invariant holds whatever the server sends.
THEOREM ParserInvariance == ParserSpec => []ParserIInv
  BY ParserInitIInv, ParserNextIInv, PTL DEF ParserSpec

\* Every variable has its type, and an answer that is accepted has an address.
THEOREM ParserTypeCorrect == ParserSpec => []ParserTypeOK
  <1>1. ParserIInv => ParserTypeOK
    BY DEF ParserIInv
  <1> QED
    BY <1>1, ParserInvariance, PTL

\* parseSTUNResponse never indexes past the end of a response.
THEOREM ReadsInRange == ParserSpec => []InRange
  <1>1. ParserIInv => InRange
    BY DEF ParserIInv
  <1> QED
    BY <1>1, ParserInvariance, PTL

\* Its loop ends after at most a quarter of the response's length.
THEOREM LoopBounded == ParserSpec => []ReadsBounded
  <1>1. ParserIInv => ReadsBounded
    BY DEF ParserIInv
  <1> QED
    BY <1>1, ParserInvariance, PTL

\* The address it reports does not depend on the order of the two kinds.
THEOREM PrefersXor == ParserSpec => []XorPreferred
  <1>1. ParserIInv => XorPreferred
    BY DEF ParserIInv, ParserTypeOK, Candidate, XorPreferred
  <1> QED
    BY <1>1, ParserInvariance, PTL
===============================================================================

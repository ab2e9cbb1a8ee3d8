------------------------ MODULE TokenInspectionProofs ------------------------
(***************************************************************************)
(* Theorems about TokenInspection, for all tokens, plans and any number of *)
(* edits.                                                                  *)
(***************************************************************************)
EXTENDS TokenInspection, TLAPS

\* The history has what this token may do, and what it may not.
Witnessed(t) == Had(t) \subseteq history.had /\ Targets \ Had(t) \subseteq history.lacked

\* The right to read was missing, or the product.
Excused(p, level) ==
    <<p, level, "read">> \in history.lacked \/ <<p, level>> \in history.inactive

\* The goroutine of p has answered.
Answered(p) == state \in {"reading", "done"} /\ p \notin pending

\* Every answer kept is about a token, or a plan, that the history has.
AnswersTrue ==
    /\ state # "idle" => Witnessed(token)
    /\ state # "idle" => Listings \ plan \subseteq history.inactive
    /\ details = {} \/ \E t \in Tokens : details = t.policies /\ Witnessed(t)
    /\ zone.edit => <<"dns", "zones", "write">> \in history.had
    /\ \A p \in Products : err[p] \in {"denied", "missing"} => Excused(p, Level(p))
    /\ \A p \in Products :
         Answered(p) /\ err[p] = "none" => <<p, Level(p), "read">> \in history.had
    /\ scope = "zones" /\ zone.named => Excused("access", "accounts")
    /\ records # <<>> => <<"dns", "zones", "read">> \in history.had

\* Nothing has been read before Inspect, and nothing of Access before its answer.
Unread ==
    /\ state = "idle" => /\ details = {} /\ ~zone.edit
                         /\ records = <<>>
                         /\ \A p \in Products : err[p] = "none"
    /\ state \in {"idle", "zone"} => scope = "accounts"
    /\ state \in {"idle", "zone"} \/ "access" \in pending => err["access"] = "none"

IInv == TypeOK /\ AnswersTrue /\ Unread

-------------------------------------------------------------------------------
(* The report against the policies *)

\* resourceMatches looks at a policy's resources as Cloudflare does.
LEMMA MatchesAbout ==
  ASSUME NEW policy, NEW level \in Scopes
  PROVE  resourceMatches(policy.resources, level = "accounts") <=> About(policy, level)
  BY DEF resourceMatches, About, LeafMatches, Scopes

\* Evidence of writing is a grant of it; evidence of reading says that there is none.
LEMMA EvidenceTrue ==
  ASSUME NEW t, NEW p \in Products, NEW level \in Scopes
  PROVE  /\ writeEvidence(t.policies, p, level = "accounts") = "write"
              => May(t, p, level, "write")
         /\ writeEvidence(t.policies, p, level = "accounts") = "read"
              => ~May(t, p, level, "write")
  <1> DEFINE matched == {q \in t.policies : resourceMatches(q.resources, level = "accounts")}
             groups == UNION {q.groups : q \in matched}
  <1>1. \A q \in t.policies : q \in matched <=> About(q, level)
    BY MatchesAbout
  <1>2. <<p, "write">> \in groups <=>
          \E q \in t.policies : About(q, level) /\ <<p, "write">> \in q.groups
    BY <1>1
  <1>3. writeEvidence(t.policies, p, level = "accounts") = "write" =>
          /\ \A q \in t.policies : q.effect = "allow"
          /\ <<p, "write">> \in groups
    BY DEF writeEvidence
  <1>4. writeEvidence(t.policies, p, level = "accounts") = "read" =>
          <<p, "write">> \notin groups
    BY DEF writeEvidence
  <1> HIDE DEF groups, matched
  <1>5. May(t, p, level, "write") <=>
          /\ \E q \in t.policies : /\ About(q, level) /\ <<p, "write">> \in q.groups
                                   /\ q.effect = "allow"
          /\ \A q \in t.policies :
               About(q, level) /\ <<p, "write">> \in q.groups => q.effect = "allow"
    BY DEF May
  <1> QED
    BY <1>2, <1>3, <1>4, <1>5

LEMMA LevelScope ==
  ASSUME NEW p \in Products
  PROVE  Level(p) \in Scopes /\ AccountScope(p) = (Level(p) = "accounts")
  <1>1. AccountScope(p) \in BOOLEAN
    BY DEF AccountScope
  <1> QED
    BY <1>1 DEF Level, Scopes

\* What a witnessed token may or may not do is in the history.
LEMMA InHistory ==
  ASSUME NEW t, Witnessed(t), NEW p \in Products, NEW level \in Scopes, NEW r \in Rights
  PROVE  /\ May(t, p, level, r) => <<p, level, r>> \in history.had
         /\ ~May(t, p, level, r) => <<p, level, r>> \in history.lacked
  <1>1. <<p, level, r>> \in Targets
    BY DEF Targets
  <1>2. <<p, level, r>> \in Had(t) <=> May(t, p, level, r)
    BY <1>1 DEF Had
  <1> QED
    BY <1>1, <1>2 DEF Witnessed

\* What the policies that were read say is in the history.
LEMMA DetailsInHistory ==
  ASSUME IInv, NEW p \in Products
  PROVE  /\ writeEvidence(details, p, AccountScope(p)) = "write"
              => <<p, Level(p), "write">> \in history.had
         /\ writeEvidence(details, p, AccountScope(p)) = "read"
              => <<p, Level(p), "write">> \in history.lacked
  <1>1. Level(p) \in Scopes /\ AccountScope(p) = (Level(p) = "accounts")
    BY LevelScope
  <1>2. CASE details = {}
    <2>1. writeEvidence(details, p, AccountScope(p)) = ""
      BY <1>2 DEF writeEvidence
    <2> QED
      BY <2>1
  <1>3. CASE \E t \in Tokens : details = t.policies /\ Witnessed(t)
    <2>1. PICK t \in Tokens : details = t.policies /\ Witnessed(t)
      BY <1>3
    <2>2. /\ writeEvidence(t.policies, p, Level(p) = "accounts") = "write"
               => May(t, p, Level(p), "write")
          /\ writeEvidence(t.policies, p, Level(p) = "accounts") = "read"
               => ~May(t, p, Level(p), "write")
      BY <1>1, EvidenceTrue
    <2>3. "write" \in Rights
      BY DEF Rights
    <2> QED
      BY <1>1, <2>1, <2>2, <2>3, InHistory
  <1> QED
    BY <1>2, <1>3 DEF IInv, AnswersTrue

-------------------------------------------------------------------------------
(* The steps *)

\* A listing is refused, or made, for a token and a plan that the history has.
LEMMA AnswerWitnessed ==
  ASSUME IInv, state = "reading", NEW p \in Products, NEW level \in Scopes,
         NEW e \in Answers(p, level)
  PROVE  /\ e \in {"denied", "missing"} => Excused(p, level)
         /\ e = "none" => <<p, level, "read">> \in history.had
  <1>1. /\ e = "none" => May(token, p, level, "read")
        /\ e \in {"denied", "missing"} =>
             ~May(token, p, level, "read") \/ <<p, level>> \notin plan
    BY DEF Answers
  <1>2. Witnessed(token) /\ "read" \in Rights
    BY DEF IInv, AnswersTrue, Rights
  <1>3. /\ May(token, p, level, "read") => <<p, level, "read">> \in history.had
        /\ ~May(token, p, level, "read") => <<p, level, "read">> \in history.lacked
    BY <1>2, InHistory
  <1>4. <<p, level>> \notin plan => <<p, level>> \in history.inactive
    BY DEF IInv, AnswersTrue, Listings
  <1> QED
    BY <1>1, <1>3, <1>4 DEF Excused

\* A goroutine that answers with its listing.
LEMMA ListingKeeps ==
  ASSUME IInv, NEW p \in Products, Answer(p), NEW e \in Errors,
         err' = [err EXCEPT ![p] = e],
         UNCHANGED <<details, scope>>, records' \in Seq(BOOLEAN), covered' \in BOOLEAN,
         records' = records \/ <<"dns", "zones", "read">> \in history.had,
         e \in {"denied", "missing"} => Excused(p, Level(p)),
         e = "none" => <<p, Level(p), "read">> \in history.had
  PROVE  IInv'
  <1>1. TypeOK'
    BY DEF IInv, TypeOK, Answer
  <1>2. \A q \in Products : err'[q] = IF q = p THEN e ELSE err[q]
    BY DEF IInv, TypeOK
  <1>3. AnswersTrue'
    <2>1. /\ (state # "idle" => Witnessed(token))'
          /\ (state # "idle" => Listings \ plan \subseteq history.inactive)'
          /\ (details = {} \/ \E t \in Tokens : details = t.policies /\ Witnessed(t))'
          /\ (zone.edit => <<"dns", "zones", "write">> \in history.had)'
      BY DEF IInv, AnswersTrue, Answer, Witnessed
    <2>2. \A q \in Products : Level(q)' = Level(q)
      BY DEF Level, AccountScope
    <2>3. \A q \in Products :
            err'[q] \in {"denied", "missing"} => Excused(q, Level(q))
      BY <1>2 DEF IInv, AnswersTrue
    <2>4. history' = history /\ state' = state /\ pending' = pending \ {p} /\ zone' = zone
      BY DEF Answer
    <2>5. \A q \in Products :
            Answered(q)' /\ err'[q] = "none" => <<q, Level(q), "read">> \in history.had
      <3> SUFFICES ASSUME NEW q \in Products, Answered(q)', err'[q] = "none"
                   PROVE  <<q, Level(q), "read">> \in history.had
        OBVIOUS
      <3>1. CASE q = p
        BY <1>2, <3>1
      <3>2. CASE q # p
        BY <1>2, <2>4, <3>2 DEF Answered, IInv, AnswersTrue
      <3> QED
        BY <3>1, <3>2
    <2>6. (scope = "zones" /\ zone.named => Excused("access", "accounts"))'
      BY <2>4 DEF Excused, IInv, AnswersTrue
    <2>7. (records # <<>> => <<"dns", "zones", "read">> \in history.had)'
      BY <2>4 DEF IInv, AnswersTrue
    <2>8. \A q \in Products : (err[q] \in {"denied", "missing"} => Excused(q, Level(q)))'
      BY <2>2, <2>3, <2>4 DEF Excused
    <2>9. \A q \in Products :
            (Answered(q) /\ err[q] = "none" => <<q, Level(q), "read">> \in history.had)'
      BY <2>2, <2>4, <2>5
    <2> QED
      BY <2>1, <2>6, <2>7, <2>8, <2>9 DEF AnswersTrue
  <1>4. Unread'
    BY <1>2 DEF IInv, Unread, Answer, Products
  <1> QED
    BY <1>1, <1>3, <1>4 DEF IInv

\* The kinds of answers.
LEMMA ErrorType ==
  ASSUME NEW p, NEW level PROVE Answers(p, level) \subseteq Errors
  BY DEF Answers, Errors

\* The three listings.
LEMMA ListingsKeep ==
  ASSUME IInv, \/ ReadRecords \/ (\E p \in Products : ReadProduct(p))
               \/ ReadAccessOfAccount \/ ReadAccessOfZone
  PROVE  IInv'
  <1>0. Products = {"dns", "worker_routes", "tunnel", "access"} /\ "zones" \in Scopes
        /\ "accounts" \in Scopes
    BY DEF Products, Scopes
  <1>1. CASE ReadRecords
    <2>1. PICK e \in Answers("dns", "zones") :
            /\ err' = [err EXCEPT !["dns"] = e]
            /\ IF e = "none" THEN records' \in RecordSets ELSE UNCHANGED records
      BY <1>1 DEF ReadRecords
    <2>2. records' \in Seq(BOOLEAN)
      BY <2>1, TokenAssumption DEF IInv, TypeOK
    <2>3. Level("dns") = "zones"
      BY DEF Level, AccountScope
    <2>4. state = "reading" /\ Answer("dns") /\ UNCHANGED <<details, scope, covered>>
      BY <1>1 DEF ReadRecords, Answer
    <2>5. e \in Answers("dns", "zones") /\ e \in Errors
      BY <2>1, ErrorType
    <2>6. /\ e \in {"denied", "missing"} => Excused("dns", "zones")
          /\ e = "none" => <<"dns", "zones", "read">> \in history.had
      BY <1>0, <2>4, <2>5, AnswerWitnessed
    <2>7. records' = records \/ <<"dns", "zones", "read">> \in history.had
      BY <2>1, <2>6
    <2>8. covered' \in BOOLEAN
      BY <2>4 DEF IInv, TypeOK
    <2> QED
      BY <1>0, <2>1, <2>2, <2>3, <2>4, <2>5, <2>6, <2>7, <2>8, ListingKeeps
  <1>2. CASE \E p \in Products : ReadProduct(p)
    <2>1. PICK p \in Products : ReadProduct(p)
      BY <1>2
    <2>2. Level(p) = IF p = "tunnel" THEN "accounts" ELSE "zones"
      BY <2>1 DEF Level, AccountScope, ReadProduct
    <2>3. PICK e \in Errors : /\ err' = [err EXCEPT ![p] = e]
                              /\ e = "failed" \/ e \in Answers(p, Level(p))
      BY <2>1, <2>2, ErrorType DEF ReadProduct, Errors
    <2>4. state = "reading" /\ Answer(p) /\ UNCHANGED <<details, scope, records, covered>>
      BY <2>1 DEF ReadProduct, Answer
    <2>5. Level(p) \in Scopes
      BY LevelScope
    <2>6. /\ e \in {"denied", "missing"} => Excused(p, Level(p))
          /\ e = "none" => <<p, Level(p), "read">> \in history.had
      BY <2>3, <2>4, <2>5, AnswerWitnessed
    <2>7. records' \in Seq(BOOLEAN) /\ covered' \in BOOLEAN /\ records' = records
      BY <2>4 DEF IInv, TypeOK
    <2> QED
      BY <2>3, <2>4, <2>6, <2>7, ListingKeeps
  <1>3. CASE ReadAccessOfAccount \/ ReadAccessOfZone
    <2>1. PICK e \in Errors : /\ err' = [err EXCEPT !["access"] = e]
                              /\ Applications(e)
                              /\ e \in Answers("access", Level("access"))
                              /\ Level("access") \in Scopes
      BY <1>0, <1>3, ErrorType
         DEF ReadAccessOfAccount, ReadAccessOfZone, Level, AccountScope
    <2>2. covered' \in BOOLEAN
      BY <2>1 DEF Applications, IInv, TypeOK
    <2>3. state = "reading" /\ Answer("access") /\ UNCHANGED <<details, scope, records>>
      BY <1>3 DEF ReadAccessOfAccount, ReadAccessOfZone, Answer
    <2>4. /\ e \in {"denied", "missing"} => Excused("access", Level("access"))
          /\ e = "none" => <<"access", Level("access"), "read">> \in history.had
      BY <1>0, <2>1, <2>3, AnswerWitnessed
    <2>5. records' \in Seq(BOOLEAN) /\ records' = records
      BY <2>3 DEF IInv, TypeOK
    <2> QED
      BY <1>0, <2>1, <2>2, <2>3, <2>4, <2>5, ListingKeeps
  <1> QED
    BY <1>1, <1>2, <1>3

\* The owner edits the token or the plan: the history has it before and after.
LEMMA EditKeeps ==
  ASSUME IInv, EditToken \/ EditPlan
  PROVE  IInv'
  <1>1. /\ history' \in [had : SUBSET Targets, lacked : SUBSET Targets,
                         inactive : SUBSET Listings]
        /\ history.had \subseteq history'.had
        /\ history.lacked \subseteq history'.lacked
        /\ history.inactive \subseteq history'.inactive
        /\ token' # token => /\ Had(token') \subseteq history'.had
                             /\ Targets \ Had(token') \subseteq history'.lacked
        /\ plan' # plan => Listings \ plan' \subseteq history'.inactive
        /\ token' \in Tokens /\ plan' \in Plans
    <2>1. CASE EditToken
      <3>1. PICK t \in Tokens :
              /\ token' = t
              /\ history' = [history EXCEPT !.had = @ \cup Had(t),
                                           !.lacked = @ \cup (Targets \ Had(t))]
        BY <2>1 DEF EditToken
      <3>2. Had(t) \subseteq Targets
        BY DEF Had
      <3>3. plan' = plan
        BY <2>1 DEF EditToken
      <3> HIDE DEF Targets, Listings
      <3> QED
        BY <3>1, <3>2, <3>3 DEF IInv, TypeOK
    <2>2. CASE EditPlan
      <3>1. PICK a \in Plans :
              plan' = a /\ history' = [history EXCEPT !.inactive = @ \cup (Listings \ a)]
        BY <2>2 DEF EditPlan
      <3>2. token' = token
        BY <2>2 DEF EditPlan
      <3> QED
        BY <3>1, <3>2 DEF IInv, TypeOK
    <2> QED
      BY <2>1, <2>2
  <1>2. /\ edits' \in 0 .. MaxEdits
        /\ UNCHANGED <<state, zone, pending, details, err, scope, records, covered>>
    <2>1. /\ edits < MaxEdits /\ edits' = edits + 1
          /\ UNCHANGED <<state, zone, pending, details, err, scope, records, covered>>
      BY DEF EditToken, EditPlan
    <2>2. edits \in 0 .. MaxEdits /\ MaxEdits \in Nat
      BY TokenAssumption DEF IInv, TypeOK
    <2> QED
      BY <2>1, <2>2
  <1>3. TypeOK'
    BY <1>1, <1>2 DEF IInv, TypeOK
  <1>4. \A u : Witnessed(u) => Had(u) \subseteq history'.had
                               /\ Targets \ Had(u) \subseteq history'.lacked
    BY <1>1 DEF Witnessed
  <1>5. AnswersTrue'
    <2>1. (state # "idle" => Witnessed(token))'
      <3>1. Had(token)' = Had(token')
        BY DEF Had, May, About
      <3> QED
        BY <1>1, <1>2, <1>4, <3>1 DEF IInv, AnswersTrue, Witnessed
    <2>2. (state # "idle" => Listings \ plan \subseteq history.inactive)'
      BY <1>1, <1>2 DEF IInv, AnswersTrue
    <2>3. (details = {} \/ \E u \in Tokens : details = u.policies /\ Witnessed(u))'
      BY <1>2, <1>4 DEF IInv, AnswersTrue, Witnessed
    <2>4. \A p \in Products : Level(p)' = Level(p) /\ Answered(p)' = Answered(p)
      BY <1>2 DEF Level, AccountScope, Answered
    <2>5. \A p \in Products, level \in Scopes : Excused(p, level) => Excused(p, level)'
      BY <1>1 DEF Excused
    <2>6. \A p \in Products : Level(p) \in Scopes
      BY LevelScope
    <2>7. \A p \in Products : (err[p] \in {"denied", "missing"} => Excused(p, Level(p)))'
      BY <1>2, <2>4, <2>5, <2>6 DEF IInv, AnswersTrue, Excused
    <2>8. \A p \in Products :
            (Answered(p) /\ err[p] = "none" => <<p, Level(p), "read">> \in history.had)'
      BY <1>1, <1>2, <2>4 DEF IInv, AnswersTrue
    <2>9. (scope = "zones" /\ zone.named => Excused("access", "accounts"))'
      BY <1>1, <1>2 DEF IInv, AnswersTrue, Excused
    <2>10. /\ (zone.edit => <<"dns", "zones", "write">> \in history.had)'
           /\ (records # <<>> => <<"dns", "zones", "read">> \in history.had)'
      BY <1>1, <1>2 DEF IInv, AnswersTrue
    <2> QED
      BY <2>1, <2>2, <2>3, <2>7, <2>8, <2>9, <2>10 DEF AnswersTrue
  <1>6. Unread'
    BY <1>2 DEF IInv, Unread
  <1> QED
    BY <1>3, <1>5, <1>6 DEF IInv

\* Steps that read no listing and edit nothing.
LEMMA StaysTrue ==
  ASSUME AnswersTrue, UNCHANGED <<token, plan, zone, err, scope, records, history>>,
         state' # "idle" => state # "idle",
         \/ details' = details
         \/ details' = {}
         \/ state # "idle" /\ token \in Tokens /\ details' = token.policies,
         \A p \in Products : Answered(p)' => Answered(p)
  PROVE  AnswersTrue'
  <1>1. \A u : Witnessed(u)' = Witnessed(u)
    BY DEF Witnessed
  <1>2. (details = {} \/ \E t \in Tokens : details = t.policies /\ Witnessed(t))'
    BY <1>1 DEF AnswersTrue
  <1>3. /\ (state # "idle" => Witnessed(token))'
        /\ (state # "idle" => Listings \ plan \subseteq history.inactive)'
    BY DEF AnswersTrue, Witnessed
  <1>4. \A p \in Products : Level(p)' = Level(p)
    BY DEF Level, AccountScope
  <1>5. \A p \in Products : (err[p] \in {"denied", "missing"} => Excused(p, Level(p)))'
    BY <1>4 DEF AnswersTrue, Excused
  <1>6. \A p \in Products :
          (Answered(p) /\ err[p] = "none" => <<p, Level(p), "read">> \in history.had)'
    BY <1>4 DEF AnswersTrue
  <1>7. /\ (zone.edit => <<"dns", "zones", "write">> \in history.had)'
        /\ (scope = "zones" /\ zone.named => Excused("access", "accounts"))'
        /\ (records # <<>> => <<"dns", "zones", "read">> \in history.had)'
    BY DEF AnswersTrue, Excused
  <1> QED
    BY <1>2, <1>3, <1>5, <1>6, <1>7 DEF AnswersTrue

\* Reading the token's own policies.
LEMMA DetailsKeep ==
  ASSUME IInv, ReadDetails
  PROVE  IInv'
  <1>1. details' = {} \/ details' = token.policies
    BY DEF ReadDetails
  <1>2. token \in Tokens /\ state = "reading"
    BY DEF ReadDetails, Answer, IInv, TypeOK
  <1>3. TypeOK'
    <2>1. details' \subseteq Policies
      BY <1>1, <1>2, TokenAssumption
    <2> QED
      BY <2>1 DEF IInv, TypeOK, ReadDetails, Answer
  <1>4. \A p \in Products : Answered(p)' => Answered(p)
    BY DEF ReadDetails, Answer, Answered, Products
  <1>5. AnswersTrue'
    BY <1>1, <1>2, <1>4, StaysTrue DEF IInv, ReadDetails, Answer
  <1> QED
    BY <1>3, <1>5 DEF IInv, Unread, ReadDetails, Answer

\* Inspect begins with what the token and the plan are.
LEMMA InspectKeeps ==
  ASSUME IInv, Inspect
  PROVE  IInv'
  <1>1. Had(token) \subseteq Targets
    BY DEF Had
  <1>2. /\ history' = [had |-> Had(token), lacked |-> Targets \ Had(token),
                       inactive |-> Listings \ plan]
        /\ state = "idle" /\ state' = "zone"
        /\ UNCHANGED <<token, plan, edits, zone, pending, details, err, scope, records,
                       covered>>
    BY DEF Inspect
  <1>3. TypeOK'
    BY <1>1, <1>2 DEF IInv, TypeOK
  <1>4. Witnessed(token)'
    BY <1>1, <1>2 DEF Witnessed, Had, May, About
  <1>5. details = {} /\ ~zone.edit /\ records = <<>> /\ scope = "accounts"
        /\ \A p \in Products : err[p] = "none"
    BY <1>2 DEF IInv, Unread
  <1>6. \A p \in Products : ~Answered(p)'
    BY <1>2 DEF Answered
  <1>7. AnswersTrue'
    BY <1>2, <1>4, <1>5, <1>6 DEF AnswersTrue
  <1>8. Unread'
    BY <1>2, <1>5 DEF Unread, Products
  <1> QED
    BY <1>3, <1>7, <1>8 DEF IInv

\* The zone is read before anything else.
LEMMA ZoneKeeps ==
  ASSUME IInv, ReadZone
  PROVE  IInv'
  <1>1. state = "zone" /\ Witnessed(token) /\ scope = "accounts"
        /\ UNCHANGED <<token, plan, edits, details, err, scope, records, covered, history>>
    BY DEF ReadZone, IInv, AnswersTrue, Unread
  <1>2. CASE state' = "failed" /\ UNCHANGED <<pending, zone>>
    <2>1. TypeOK'
      BY <1>1, <1>2 DEF IInv, TypeOK
    <2>2. \A p \in Products : ~Answered(p)'
      BY <1>2 DEF Answered
    <2>3. AnswersTrue'
      BY <1>1, <1>2, <2>2, StaysTrue DEF IInv
    <2> QED
      BY <1>1, <1>2, <2>1, <2>3 DEF IInv, Unread
  <1>3. CASE /\ state' = "reading" /\ pending' = Goroutines
             /\ zone' \in [named : BOOLEAN, active : BOOLEAN, edit : BOOLEAN]
             /\ zone'.edit = May(token, "dns", "zones", "write")
    <2>1. TypeOK'
      BY <1>1, <1>3 DEF IInv, TypeOK
    <2>2. (zone.edit => <<"dns", "zones", "write">> \in history.had)'
      BY <1>1, <1>3, InHistory DEF Products, Scopes, Rights
    <2>3. \A p \in Products : ~Answered(p)' /\ Level(p)' = Level(p)
      BY <1>1, <1>3 DEF Answered, Goroutines, Level, AccountScope
    <2>4. (details = {} \/ \E t \in Tokens : details = t.policies /\ Witnessed(t))'
      BY <1>1 DEF IInv, AnswersTrue, Witnessed
    <2>5. /\ (state # "idle" => Witnessed(token))'
          /\ (state # "idle" => Listings \ plan \subseteq history.inactive)'
      BY <1>1 DEF IInv, AnswersTrue, Witnessed
    <2>6. \A p \in Products : (err[p] \in {"denied", "missing"} => Excused(p, Level(p)))'
      BY <1>1, <2>3 DEF IInv, AnswersTrue, Excused
    <2>7. /\ scope' = "accounts"
          /\ (records # <<>> => <<"dns", "zones", "read">> \in history.had)'
      BY <1>1 DEF IInv, AnswersTrue
    <2>8. AnswersTrue'
      BY <2>2, <2>3, <2>4, <2>5, <2>6, <2>7 DEF AnswersTrue
    <2>9. Unread'
      BY <1>1, <1>3 DEF IInv, Unread
    <2> QED
      BY <2>1, <2>8, <2>9 DEF IInv
  <1>4. May(token, "dns", "zones", "write") \in BOOLEAN
    BY DEF May
  <1> QED
    BY <1>2, <1>3, <1>4 DEF ReadZone

\* The account's applications are given up only when they were refused, or missing.
LEMMA FallBackKeeps ==
  ASSUME IInv, FallBackToZone
  PROVE  IInv'
  <1>1. /\ state = "reading" /\ "access" \in pending /\ scope' = "zones"
        /\ UNCHANGED <<token, plan, edits, state, zone, pending, details, err, records,
                       covered, history>>
    BY DEF FallBackToZone
  <1>2. TypeOK'
    BY <1>1 DEF IInv, TypeOK, Scopes
  <1>3. \A p \in Products : Answered(p)' = Answered(p) /\ (p # "access" => Level(p)' = Level(p))
    BY <1>1 DEF Answered, Level, AccountScope
  <1>4. err'["access"] = "none" /\ ~Answered("access")'
    BY <1>1 DEF IInv, Unread, Answered
  <1>5. zone.named => Excused("access", "accounts")
    <2> SUFFICES ASSUME zone.named PROVE Excused("access", "accounts")
      OBVIOUS
    <2>1. PICK e \in Answers("access", "accounts") : e \in {"denied", "missing"}
      BY DEF FallBackToZone
    <2> QED
      BY <1>1, <2>1, AnswerWitnessed DEF Products, Scopes
  <1>6. \A p \in Products : (err[p] \in {"denied", "missing"} => Excused(p, Level(p)))'
    BY <1>1, <1>3, <1>4 DEF IInv, AnswersTrue, Excused
  <1>7. \A p \in Products :
          (Answered(p) /\ err[p] = "none" => <<p, Level(p), "read">> \in history.had)'
    BY <1>1, <1>3, <1>4 DEF IInv, AnswersTrue
  <1>8. (scope = "zones" /\ zone.named => Excused("access", "accounts"))'
    BY <1>1, <1>5 DEF Excused
  <1>9. (details = {} \/ \E t \in Tokens : details = t.policies /\ Witnessed(t))'
    BY <1>1 DEF IInv, AnswersTrue, Witnessed
  <1>10. /\ (state # "idle" => Witnessed(token))'
         /\ (state # "idle" => Listings \ plan \subseteq history.inactive)'
         /\ (zone.edit => <<"dns", "zones", "write">> \in history.had)'
         /\ (records # <<>> => <<"dns", "zones", "read">> \in history.had)'
    BY <1>1 DEF IInv, AnswersTrue, Witnessed
  <1>11. AnswersTrue'
    BY <1>6, <1>7, <1>8, <1>9, <1>10 DEF AnswersTrue
  <1> QED
    BY <1>1, <1>2, <1>4, <1>11 DEF IInv, Unread

\* The report is made; or nothing happens.
LEMMA OthersKeep ==
  ASSUME IInv, Wait \/ UNCHANGED vars
  PROVE  IInv'
  <1>1. /\ UNCHANGED <<token, plan, edits, zone, pending, details, err, scope, records,
                       covered, history>>
        /\ state' = state \/ (state = "reading" /\ pending = {} /\ state' = "done")
    BY DEF Wait, vars
  <1>2. TypeOK'
    BY <1>1 DEF IInv, TypeOK
  <1>3. \A p \in Products : Answered(p)' => Answered(p)
    BY <1>1 DEF Answered
  <1>4. AnswersTrue'
    BY <1>1, <1>3, StaysTrue DEF IInv
  <1> QED
    BY <1>1, <1>2, <1>4 DEF IInv, Unread

-------------------------------------------------------------------------------

\* The invariant is inductive.
THEOREM Invariance == Spec => []IInv
  <1>1. Init => IInv
    <2> SUFFICES ASSUME Init PROVE IInv
      OBVIOUS
    <2>1. edits \in 0 .. MaxEdits
      BY TokenAssumption DEF Init
    <2>2. zone \in [named : BOOLEAN, active : BOOLEAN, edit : BOOLEAN] /\ ~zone.edit
      BY DEF Init
    <2>3. err \in [Products -> Errors] /\ \A p \in Products : err[p] = "none"
      BY DEF Init, Errors
    <2>4. history \in [had : SUBSET Targets, lacked : SUBSET Targets,
                       inactive : SUBSET Listings]
      BY DEF Init
    <2>5. records \in Seq(BOOLEAN) /\ covered \in BOOLEAN
      <3>1. <<>> \in Seq(BOOLEAN)
        OBVIOUS
      <3>2. records = <<>> /\ covered = FALSE
        BY DEF Init
      <3> QED
        BY <3>1, <3>2, Zenon
    <2>6. TypeOK
      BY <2>1, <2>2, <2>3, <2>4, <2>5 DEF Init, TypeOK, Scopes
    <2>7. AnswersTrue
      BY <2>2, <2>3 DEF Init, AnswersTrue, Answered
    <2>8. Unread
      BY <2>2, <2>3 DEF Init, Unread, Products
    <2> QED
      BY <2>6, <2>7, <2>8 DEF IInv
  <1>2. IInv /\ [Next]_vars => IInv'
    BY ListingsKeep, EditKeeps, DetailsKeep, InspectKeeps, ZoneKeeps, FallBackKeeps,
       OthersKeep DEF Next
  <1> QED
    BY <1>1, <1>2, PTL DEF Spec

\* The type invariant; the report is made when every goroutine has answered.
THEOREM TypeCorrect == Spec => []TypeOK
  <1>1. IInv => TypeOK
    BY DEF IInv
  <1> QED
    BY <1>1, Invariance, PTL

\* No token, however its policies nest and whoever edits it, is said to be able to
\* write where no policy has let it.
THEOREM Available == Spec => []AvailableWasGranted
  <1>1. IInv => AvailableWasGranted
    <2> SUFFICES ASSUME IInv, NEW p \in Products, Capability(p) = "available"
                 PROVE  <<p, Level(p), "write">> \in history.had
      BY DEF AvailableWasGranted
    <2>1. CASE p = "dns" /\ zone.edit
      <3>1. Level(p) = "zones"
        BY <2>1 DEF Level, AccountScope
      <3> QED
        BY <2>1, <3>1 DEF IInv, AnswersTrue
    <2>2. CASE writeEvidence(details, p, AccountScope(p)) = "write"
      BY <2>2, DetailsInHistory
    <2> QED
      BY <2>1, <2>2 DEF Capability, capability
  <1> QED
    BY <1>1, Invariance, PTL

\* No token that could always write is said to be read-only.
THEOREM ReadOnly == Spec => []ReadOnlyWasSo
  <1>1. IInv => ReadOnlyWasSo
    <2> SUFFICES ASSUME IInv, NEW p \in Products, Capability(p) = "read_only"
                 PROVE  <<p, Level(p), "write">> \in history.lacked
      BY DEF ReadOnlyWasSo
    <2>1. writeEvidence(details, p, AccountScope(p)) = "read"
      BY DEF Capability, capability
    <2> QED
      BY <2>1, DetailsInHistory
  <1> QED
    BY <1>1, Invariance, PTL

\* What the report says of reading is true of the token and the plan, whatever fails
\* and whoever edits them: no failure of the network is taken for a missing right,
\* for Access neither on the account nor on the zone, and nothing is called readable,
\* or a host name offered for Access, that could not be read.
THEOREM Reading == Spec => []ReadingAsReported
  <1>1. IInv => ReadingAsReported
    <2> SUFFICES ASSUME IInv, state = "done" PROVE ReadingAsReported
      BY DEF ReadingAsReported
    <2>1. \A p \in Products : err[p] = "none" => <<p, Level(p), "read">> \in history.had
      BY DEF IInv, TypeOK, AnswersTrue, Answered
    <2>2. ASSUME NEW p \in Products, Capability(p) = "unavailable", NEW level \in Tried(p)
          PROVE  Excused(p, level)
      <3>1. err[p] \in {"denied", "missing"}
        BY <2>2 DEF Capability, capability
      <3>2. Excused(p, Level(p))
        BY <3>1 DEF IInv, AnswersTrue
      <3>3. CASE level = Level(p)
        BY <3>2, <3>3
      <3>4. CASE level # Level(p)
        <4>1. p = "access" /\ zone.named /\ level = "accounts"
          BY <2>2, <3>4 DEF Tried
        <4>2. scope = "zones"
          BY <3>4, <4>1 DEF IInv, TypeOK, Scopes, Level, AccountScope
        <4> QED
          BY <4>1, <4>2 DEF IInv, AnswersTrue
      <3> QED
        BY <3>3, <3>4
    <2>3. ASSUME NEW p \in Products,
                 Capability(p) \in {"available", "read_only", "unverified"}
          PROVE  <<p, Level(p), "read">> \in history.had
      <3>1. err[p] \notin {"denied", "missing", "failed"}
        BY <2>3 DEF Capability, capability
      <3>2. err[p] = "none"
        BY <3>1 DEF IInv, TypeOK, Errors
      <3> QED
        BY <2>1, <3>2
    <2>4. AccessEligible => {<<"dns", "zones", "read">>, <<"access", Level("access"), "read">>}
                              \subseteq history.had
      BY <2>1 DEF AccessEligible, Proxied, Products, IInv, AnswersTrue
    <2> QED
      BY <2>2, <2>3, <2>4 DEF ReadingAsReported, Excused
  <1> QED
    BY <1>1, Invariance, PTL
==============================================================================

------------------------ MODULE PublishChecksProofs -------------------------
(* The programs that publish a message and check where it arrives: the     *)
(* store monitor, for any nodes, threshold and rounds, and the publishing  *)
(* steps of the REST tests, for any nodes and size of a batch.             *)
EXTENDS Sonda, RestSteps, FiniteSetTheorems, TLAPS

-----------------------------------------------------------------------------
(* The store monitor: SondaInv is inductive.                               *)

\* The gauge of a node counts the newest queries that found their message, up
\* to the first that did not; beyond the threshold it need not be exact.
GaugeExact(gauge, queries) ==
    /\ \A i \in DOMAIN queries : i <= gauge => queries[i]
    /\ gauge < Len(queries) => ~queries[gauge + 1]
    /\ gauge <= Len(queries) \/ Len(queries) = health_threshold

\* The inductive invariant of the monitor: the gauges count what was asked, and
\* the blame of a round is on nodes the round has asked.
SondaInv ==
    /\ SondaTypeOK /\ asked \in [StoreNodes -> Seq(BOOLEAN)]
    /\ pc = "query" => next <= Len(store_nodes)
    /\ BlamedOnlyIfAsked
    /\ \A n \in StoreNodes : GaugeExact(consecutive[n], asked[n])
    /\ pc = "publish" => \A n \in DOMAIN node_health :
         n \in StoreNodes /\ (node_health[n] = 1 <=> consecutive[n] >= health_threshold)
-----------------------------------------------------------------------------
\* What the history of a node's queries is after one more.
LEMMA NewestIsFirst ==
    ASSUME NEW s \in Seq(BOOLEAN), Len(s) <= health_threshold, NEW x \in BOOLEAN
    PROVE  LET r == NewestFirst(s, x)
           IN  /\ r \in Seq(BOOLEAN)
               /\ Len(r) = IF Len(s) < health_threshold THEN Len(s) + 1 ELSE health_threshold
               /\ r[1] = x
               /\ \A i \in DOMAIN r : i # 1 => i - 1 \in DOMAIN s /\ r[i] = s[i - 1]
<1> DEFINE t == <<x>> \o s
           k == IF Len(s) < health_threshold THEN Len(s) + 1 ELSE health_threshold
           r == SubSeq(t, 1, k)
<1>1. /\ t \in Seq(BOOLEAN) /\ Len(t) = Len(s) + 1 /\ t[1] = x
      /\ \A i \in 2 .. Len(s) + 1 : t[i] = s[i - 1]
  OBVIOUS
<1>2. k \in 1 .. Len(s) + 1 /\ k <= health_threshold
  BY SondaAssumption
<1> HIDE DEF t, k
<1>3. r \in Seq(BOOLEAN) /\ Len(r) = k /\ \A i \in 1 .. k : r[i] = t[i]
  BY <1>1, <1>2
<1>4. DOMAIN r = 1 .. k /\ r[1] = x
  BY <1>1, <1>2, <1>3
<1>5. ASSUME NEW i \in DOMAIN r, i # 1 PROVE i - 1 \in DOMAIN s /\ r[i] = s[i - 1]
  BY <1>1, <1>2, <1>3, <1>4, <1>5
<1> HIDE DEF r
<1>6. NewestFirst(s, x) = r
  BY Zenon DEF NewestFirst, r, t, k
<1>7. k = IF Len(s) < health_threshold THEN Len(s) + 1 ELSE health_threshold
  BY Zenon DEF k
<1> QED BY <1>3, <1>4, <1>5, <1>6, <1>7, Zenon

\* The gauge follows the history: one more for a message found, zero otherwise.
LEMMA GaugeStep ==
    ASSUME NEW s \in Seq(BOOLEAN), Len(s) <= health_threshold, NEW x \in BOOLEAN,
           NEW g \in 0 .. ConsecutiveCap, GaugeExact(g, s),
           NEW h, h = IF x THEN IF g < ConsecutiveCap THEN g + 1 ELSE g ELSE 0
    PROVE  GaugeExact(h, NewestFirst(s, x))
<1> DEFINE r == NewestFirst(s, x)
<1>1. /\ r \in Seq(BOOLEAN) /\ r[1] = x
      /\ Len(r) = IF Len(s) < health_threshold THEN Len(s) + 1 ELSE health_threshold
      /\ \A i \in DOMAIN r : i # 1 => i - 1 \in DOMAIN s /\ r[i] = s[i - 1]
  BY NewestIsFirst, Zenon
<1> SUFFICES GaugeExact(h, r)
  BY Zenon
<1> HIDE DEF r
<1>0. health_threshold \in Nat \ {0} /\ ConsecutiveCap = health_threshold + 1
  BY SondaAssumption, Zenon DEF ConsecutiveCap
<1>2. CASE ~x
  <2>1. h = 0
    BY <1>2, Zenon
  <2>2. \A i \in DOMAIN r : ~(i <= h)
    BY <1>1, <2>1
  <2>3. h + 1 = 1 /\ h <= Len(r) /\ ~r[1]
    BY <1>1, <1>2, <2>1
  <2> QED BY <2>2, <2>3, Zenon DEF GaugeExact
<1>3. CASE x
  <2>1. h = (IF g < ConsecutiveCap THEN g + 1 ELSE g) /\ h \in Nat /\ h <= g + 1 /\ r[1]
    BY <1>0, <1>1, <1>3
  <2>2. ASSUME NEW i \in DOMAIN r, i <= h PROVE r[i]
    <3>1. CASE i = 1
      BY <2>1, <3>1, Zenon
    <3>2. CASE i # 1
      <4>1. i - 1 \in DOMAIN s /\ r[i] = s[i - 1]
        BY <1>1, <3>2, Zenon
      <4>2. i - 1 <= g
        BY <1>1, <2>1, <2>2
      <4> QED BY <4>1, <4>2, Zenon DEF GaugeExact
    <3> QED BY <3>1, <3>2, Zenon
  <2>3. ASSUME h < Len(r) PROVE ~r[h + 1]
    <3>1. h = g + 1 /\ h + 1 \in DOMAIN r /\ h + 1 # 1 /\ g < Len(s) /\ (h + 1) - 1 = g + 1
      BY <1>0, <1>1, <2>1, <2>3
    <3>2. r[h + 1] = s[g + 1]
      BY <1>1, <3>1, Zenon
    <3> QED BY <3>1, <3>2, Zenon DEF GaugeExact
  <2>4. h <= Len(r) \/ Len(r) = health_threshold
    BY <1>0, <1>1, <2>1 DEF GaugeExact
  <2> QED BY <2>2, <2>3, <2>4, Zenon DEF GaugeExact
<1> QED BY <1>2, <1>3, Zenon

\* The answer to a query that came to `truth` has these fields.
RestAnswer(truth, reply, h, j, s) ==
    /\ reply = [http |-> h, json |-> j, status |-> s] /\ j \in BOOLEAN
    /\ truth = "answered" => h = 200 /\ j = TRUE /\ s = 200
    /\ truth \in LocalCauses => h \notin {200, 429}

\* The HTTP answers of the local node: a page of messages comes with a 200, and
\* what the handler refuses by itself with neither a 200 nor a 429.
LEMMA RestAnswers ==
    ASSUME NEW truth, NEW reply \in {GetStoreMessages(truth), GetStoreMessages200(truth)}
    PROVE  \E h, j, s : RestAnswer(truth, reply, h, j, s)
<1>0. "answered" \notin LocalCauses /\ 200 # TOO_MANY_REQUESTS
  BY DEF LocalCauses, TOO_MANY_REQUESTS
<1>1. CASE truth = "answered"
  <2>1. ClientStatus("answered") = SUCCESS
    BY DEF ClientStatus, PeerStatus
  <2>2. StoreStatus("answered") = 200
    BY <2>1, Zenon DEF StoreStatus, SUCCESS
  <2>3. HttpStatus(200) = 200
    BY DEF HttpStatus, SUCCESS, BAD_REQUEST, TOO_MANY_REQUESTS, SERVICE_UNAVAILABLE,
           PEER_DIAL_FAILURE, BAD_RESPONSE
  <2>4. GetStoreMessages("answered") = StoreResponse(200)
    BY <2>2 DEF GetStoreMessages
  <2>5. StoreResponse(200) = [http |-> 200, json |-> TRUE, status |-> 200]
    BY <1>0, <2>3, Zenon DEF StoreResponse
  <2>6. GetStoreMessages200("answered") = [http |-> 200, json |-> TRUE, status |-> 200]
    BY <1>0, <2>2, Zenon DEF GetStoreMessages200
  <2>7. reply = [http |-> 200, json |-> TRUE, status |-> 200]
    BY <1>1, <2>4, <2>5, <2>6, Zenon
  <2>8. RestAnswer(truth, reply, 200, TRUE, 200)
    BY <1>0, <1>1, <2>7, Zenon DEF RestAnswer
  <2> QED BY <2>8, Zenon
<1>2. CASE truth \in LocalCauses
  <2>1. reply = GetStoreMessages(truth)
    BY <1>2, Zenon DEF GetStoreMessages200
  <2>2. PICK g \in {400, 500} : reply = [http |-> g, json |-> FALSE, status |-> 0]
    <3>1. CASE truth = "badAddress"
      BY <2>1, <3>1 DEF GetStoreMessages
    <3>2. CASE truth = "noClient"
      BY <2>1, <3>2 DEF GetStoreMessages
    <3> QED BY <1>2, <3>1, <3>2, Zenon DEF LocalCauses
  <2>3. g \notin {200, 429}
    OBVIOUS
  <2>4. truth # "answered"
    BY <1>2 DEF LocalCauses
  <2>5. RestAnswer(truth, reply, g, FALSE, 0)
    BY <2>2, <2>3, <2>4 DEF RestAnswer
  <2> QED BY <2>5, Zenon
<1>3. CASE truth \notin LocalCauses /\ truth # "answered"
  <2>1. GetStoreMessages(truth) = StoreResponse(StoreStatus(truth))
    BY <1>3 DEF GetStoreMessages, LocalCauses
  <2>2. CASE reply = StoreResponse(StoreStatus(truth))
    <3>1. RestAnswer(truth, reply, HttpStatus(StoreStatus(truth)),
                     StoreStatus(truth) # TOO_MANY_REQUESTS, StoreStatus(truth))
      BY <1>3, <2>2, Zenon DEF StoreResponse, RestAnswer
    <3> QED BY <3>1, Zenon
  <2>3. CASE reply = [http |-> 200, json |-> TRUE, status |-> StoreStatus(truth)]
    <3>1. RestAnswer(truth, reply, 200, TRUE, StoreStatus(truth))
      BY <1>3, <2>3, Zenon DEF RestAnswer
    <3> QED BY <3>1, Zenon
  <2> QED BY <2>1, <2>2, <2>3, Zenon DEF GetStoreMessages200
<1> QED BY <1>1, <1>2, <1>3, Zenon

\* The reasons that send_store_queries counts a failed query under.
Errors == {ERR_STORE_BACKEND_ERROR, ERR_QUERY_TIMEOUT, ERR_PEER_UNREACHABLE, ERR_UNKNOWN}

\* check_store_response: a failure names the peer only if its status says so.
LEMMA StatusClassified ==
    ASSUME NEW status, NEW desc, NEW found \in BOOLEAN,
           NEW out, out = check_store_response(status, desc, found)
    PROVE  /\ status = 200 => out = IF found THEN Success ELSE Empty
           /\ status # 200 => \E error \in Errors, b \in BOOLEAN : out = Failure(error, b)
<1>1. classify_bad_response(desc) \in Errors
  BY Zenon DEF classify_bad_response, Errors
<1>2. DOMAIN STORE_STATUS_ERRORS = {504, 503, 429}
  BY Zenon DEF STORE_STATUS_ERRORS
<1>3. \A s \in DOMAIN STORE_STATUS_ERRORS : STORE_STATUS_ERRORS[s] \in Errors
  BY DEF STORE_STATUS_ERRORS, Errors
<1>4. 200 # 300 /\ 200 \notin DOMAIN STORE_STATUS_ERRORS /\ 300 \notin DOMAIN STORE_STATUS_ERRORS
  BY <1>2
<1>5. CASE status = 200
  <2>1. CASE found
    BY <1>4, <1>5, <2>1 DEF check_store_response
  <2>2. CASE ~found
    BY <1>4, <1>5, <2>2 DEF check_store_response
  <2> QED BY <2>1, <2>2, Zenon
<1>6. CASE status = 300
  <2>1. out = Failure(classify_bad_response(desc), TRUE)
    BY <1>4, <1>6 DEF check_store_response
  <2>2. status # 200
    BY <1>6
  <2> QED BY <1>1, <2>1, <2>2, Zenon
<1>7. CASE status \in DOMAIN STORE_STATUS_ERRORS
  <2>1. out = Failure(STORE_STATUS_ERRORS[status], TRUE)
    BY <1>4, <1>7 DEF check_store_response
  <2>2. status # 200 /\ STORE_STATUS_ERRORS[status] \in Errors
    BY <1>3, <1>4, <1>7
  <2> QED BY <2>1, <2>2, Zenon
<1>8. CASE status \notin {200, 300} \cup DOMAIN STORE_STATUS_ERRORS
  <2>1. out = Failure(ERR_UNKNOWN, FALSE)
    BY <1>8, Zenon DEF check_store_response
  <2> QED BY <1>8, <2>1, Zenon DEF Errors
<1> QED BY <1>5, <1>6, <1>7, <1>8, Zenon

\* What becomes of an HTTP answer.
AnswerOutcome(answer, desc, found, out) ==
    \/ /\ answer.http = 200 /\ answer.json
       /\ out = check_store_response(answer.status, desc, found)
    \/ /\ ~(answer.http = 200 /\ answer.json)
       /\ \E error \in Errors : out = Failure(error, FALSE)
    \/ answer.http = 429 /\ \E error \in Errors : out = Failure(error, TRUE)

\* send_store_query: only an answer that is a 200 and JSON is looked at, and the
\* peer is blamed for the others if its rate limit came through.
LEMMA AnswerClassified ==
    ASSUME NEW answer, answer.json \in BOOLEAN, NEW desc, NEW found \in BOOLEAN
    PROVE  AnswerOutcome(answer, desc, found, ClassifyAnswer(answer, desc, found))
<1> DEFINE out == ClassifyAnswer(answer, desc, found)
<1>1. 200 # 429
  OBVIOUS
<1>2. CASE answer.http = 429
  <2>1. out = Failure(ERR_STORE_BACKEND_ERROR, TRUE)
    BY <1>1, <1>2 DEF ClassifyAnswer
  <2> QED BY <1>2, <2>1, Zenon DEF Errors, AnswerOutcome
<1>3. CASE answer.http # 200 /\ answer.http # 429
  <2>1. out = Failure(ERR_UNKNOWN, FALSE)
    BY <1>3, Zenon DEF ClassifyAnswer
  <2> QED BY <1>3, <2>1, Zenon DEF Errors, AnswerOutcome
<1>4. CASE answer.http = 200 /\ answer.json
  <2>1. out = check_store_response(answer.status, desc, found)
    BY <1>1, <1>4 DEF ClassifyAnswer
  <2> QED BY <1>4, <2>1, Zenon DEF AnswerOutcome
<1>5. CASE answer.http = 200 /\ ~answer.json
  <2>1. out = Failure(ERR_UNKNOWN, FALSE)
    BY <1>1, <1>5 DEF ClassifyAnswer
  <2> QED BY <1>5, <2>1, Zenon DEF Errors, AnswerOutcome
<1> QED BY <1>2, <1>3, <1>4, <1>5, Zenon

\* What a query's outcome may be: it is a success exactly when the message came,
\* and it blames the peer only if the peer was dialled and did not answer well.
OutcomeRight(truth, found, out) ==
    /\ out \in CountedOnce
    /\ out.counter = "successful" <=> found
    /\ out.blame => truth \in Causes \ {"answered"}

\* What send_store_queries and check_store_response may answer is right.
LEMMA OutcomesRight ==
    ASSUME NEW truth, NEW found \in BOOLEAN
    PROVE  /\ found => OutcomeRight(truth, found, Success)
           /\ ~found => OutcomeRight(truth, found, Empty)
           /\ \A error \in Errors \cup {ERR_LOCAL_NODE_UNREACHABLE} :
                ~found => OutcomeRight(truth, found, Failure(error, FALSE))
           /\ \A error \in Errors, b \in BOOLEAN : ~found /\ truth \in Causes \ {"answered"} =>
                OutcomeRight(truth, found, Failure(error, b))
<1>1. /\ Success \in CountedOnce /\ Empty \in CountedOnce
      /\ \A error \in Errors \cup {ERR_LOCAL_NODE_UNREACHABLE}, b \in BOOLEAN :
           Failure(error, b) \in CountedOnce
  BY Zenon DEF Success, Empty, Failure, CountedOnce, Errors
<1>2. /\ Success.counter = "successful" /\ Success.blame = FALSE
      /\ Empty.counter = "empty" /\ Empty.blame = FALSE
      /\ \A error, b : Failure(error, b).counter = "failed" /\ Failure(error, b).blame = b
  BY Zenon DEF Success, Empty, Failure
<1>3. "empty" # "successful" /\ "failed" # "successful"
  BY Zenon
<1> QED BY <1>1, <1>2, <1>3, Zenon DEF OutcomeRight

\* What the answer says of the query, as far as sonda looks at it.
AnswerFits(truth, found, answer) ==
    /\ answer.json \in BOOLEAN
    /\ found => answer.http = 200 /\ answer.json /\ answer.status = 200
    /\ truth = "answered" => answer.http = 200 /\ answer.status = 200
    /\ truth \in LocalCauses => answer.http # 200 /\ answer.http # 429

\* An answered query is classified right.
LEMMA AnsweredRight ==
    ASSUME NEW truth \in Causes \cup LocalCauses, NEW found \in BOOLEAN, NEW answer,
           AnswerFits(truth, found, answer), NEW desc
    PROVE  OutcomeRight(truth, found, ClassifyAnswer(answer, desc, found))
<1>1. PICK out : out = ClassifyAnswer(answer, desc, found)
  BY Zenon
<1>0. answer.json \in BOOLEAN
  BY Zenon DEF AnswerFits
<1>2. AnswerOutcome(answer, desc, found, out)
  BY <1>0, <1>1, AnswerClassified
<1>3. 200 # 429
  OBVIOUS
<1>4. CASE /\ answer.http = 200 /\ answer.json
           /\ out = check_store_response(answer.status, desc, found)
  <2>1. CASE answer.status = 200
    <3>1. out = IF found THEN Success ELSE Empty
      BY <1>4, <2>1, StatusClassified
    <3> QED BY <1>1, <3>1, OutcomesRight, Zenon
  <2>2. CASE answer.status # 200
    <3>1. \E error \in Errors, b \in BOOLEAN : out = Failure(error, b)
      BY <1>4, <2>2, StatusClassified
    <3>2. ~found /\ truth # "answered" /\ truth \notin LocalCauses
      BY <1>4, <2>2, Zenon DEF AnswerFits
    <3> QED BY <1>1, <3>1, <3>2, OutcomesRight, Zenon
  <2> QED BY <2>1, <2>2, Zenon
<1>5. CASE /\ ~(answer.http = 200 /\ answer.json)
           /\ \E error \in Errors : out = Failure(error, FALSE)
  <2>1. ~found
    BY <1>5, Zenon DEF AnswerFits
  <2> QED BY <1>1, <1>5, <2>1, OutcomesRight, Zenon
<1>6. CASE answer.http = 429 /\ \E error \in Errors : out = Failure(error, TRUE)
  <2>1. ~found /\ truth # "answered" /\ truth \notin LocalCauses
    BY <1>3, <1>6 DEF AnswerFits
  <2> QED BY <1>1, <1>6, <2>1, OutcomesRight, Zenon
<1> QED BY <1>2, <1>4, <1>5, <1>6, Zenon DEF AnswerOutcome
-----------------------------------------------------------------------------
\* The end of a query: the gauge of the node that was asked follows its history.
LEMMA QueriedStep ==
    ASSUME SondaInv, NEW truth \in Causes \cup LocalCauses \cup {"local"},
           NEW found \in BOOLEAN, NEW out, OutcomeRight(truth, found, out),
           Queried(truth, found, out)
    PROVE  SondaInv'
<1>0. /\ SondaTypeOK /\ asked \in [StoreNodes -> Seq(BOOLEAN)]
      /\ consecutive \in [StoreNodes -> 0 .. ConsecutiveCap]
      /\ pc = "query" /\ next <= Len(store_nodes)
  BY Zenon DEF SondaInv, SondaTypeOK, Queried
<1>1. /\ Len(store_nodes) \in Nat /\ next \in DOMAIN store_nodes
      /\ next + 1 \in 1 .. Len(store_nodes) + 1
      /\ next # Len(store_nodes) => next + 1 <= Len(store_nodes)
      /\ health_threshold \in Nat /\ ConsecutiveCap = health_threshold + 1
  BY <1>0, SondaAssumption DEF SondaTypeOK, ConsecutiveCap
<1>2. PICK n \in StoreNodes : n = store_nodes[next]
  BY <1>1, Zenon DEF StoreNodes
<1> DEFINE g == Consecutive(n, out)
           q == NewestFirst(asked[n], found)
<1>3. /\ counted' = out /\ cause' = truth /\ next' = next + 1
      /\ consecutive' = [consecutive EXCEPT ![n] = g]
      /\ asked' = [asked EXCEPT ![n] = q]
      /\ pc' = IF next = Len(store_nodes) THEN "health" ELSE "query"
      /\ UNCHANGED <<res, node_health>>
  BY <1>2, Zenon DEF Queried
<1>4. /\ asked[n] \in Seq(BOOLEAN) /\ Len(asked[n]) <= health_threshold
      /\ consecutive[n] \in 0 .. ConsecutiveCap /\ GaugeExact(consecutive[n], asked[n])
  BY <1>0, Zenon DEF SondaInv, SondaTypeOK
<1>5. g = IF found THEN IF consecutive[n] < ConsecutiveCap THEN consecutive[n] + 1
                        ELSE consecutive[n]
          ELSE 0
  BY Zenon DEF OutcomeRight, Consecutive
<1>6. g \in 0 .. ConsecutiveCap
  <2>1. ConsecutiveCap \in Nat
    BY <1>1
  <2>2. ASSUME NEW c \in 0 .. ConsecutiveCap PROVE
          /\ 0 \in 0 .. ConsecutiveCap
          /\ c < ConsecutiveCap => c + 1 \in 0 .. ConsecutiveCap
    BY <2>1
  <2> HIDE DEF g
  <2> QED BY <1>4, <1>5, <2>2, Zenon
<1>7. q \in Seq(BOOLEAN) /\ Len(q) <= health_threshold
  <2>1. /\ q \in Seq(BOOLEAN)
        /\ Len(q) = IF Len(asked[n]) < health_threshold THEN Len(asked[n]) + 1
                    ELSE health_threshold
    BY <1>4, NewestIsFirst, Zenon
  <2>2. Len(asked[n]) \in Nat
    BY <1>4
  <2> HIDE DEF q
  <2> QED BY <1>1, <2>1, <2>2
<1>8. GaugeExact(g, q)
  BY <1>4, <1>5, GaugeStep, Zenon
<1> HIDE DEF g, q
<1>9. /\ consecutive' \in [StoreNodes -> 0 .. ConsecutiveCap]
      /\ asked' \in [StoreNodes -> Seq(BOOLEAN)]
      /\ consecutive'[n] = g /\ asked'[n] = q
      /\ \A m \in StoreNodes \ {n} : consecutive'[m] = consecutive[m] /\ asked'[m] = asked[m]
  BY <1>0, <1>3, <1>6, <1>7, Zenon
<1>10. \A m \in StoreNodes : GaugeExact(consecutive'[m], asked'[m])
  BY <1>8, <1>9, Zenon DEF SondaInv
<1>11. \A m \in StoreNodes : asked'[m] \in Seq(BOOLEAN) /\ Len(asked'[m]) <= health_threshold
  BY <1>0, <1>7, <1>9, Zenon DEF SondaTypeOK
<1>12. pc' \in {"health", "query"} /\ (pc' = "query" => next' <= Len(store_nodes))
  BY <1>1, <1>3, Zenon
<1>13. SondaTypeOK'
  BY <1>0, <1>1, <1>3, <1>9, <1>11, <1>12, Zenon DEF SondaTypeOK, OutcomeRight
<1>14. BlamedOnlyIfAsked'
  BY <1>3, Zenon DEF BlamedOnlyIfAsked, OutcomeRight
<1>15. pc' # "publish"
  BY <1>12, Zenon
<1> QED BY <1>9, <1>10, <1>12, <1>13, <1>14, <1>15, Zenon DEF SondaInv

\* No HTTP answer came: nobody is blamed.
LEMMA RaisesStep == ASSUME SondaInv, QueryRaises PROVE SondaInv'
<1>1. PICK error \in {ERR_LOCAL_NODE_UNREACHABLE, ERR_UNKNOWN} :
        Queried("local", FALSE, Failure(error, FALSE))
  BY Zenon DEF QueryRaises
<1>2. OutcomeRight("local", FALSE, Failure(error, FALSE))
  BY OutcomesRight, Zenon DEF Errors
<1> QED BY <1>1, <1>2, QueriedStep, Zenon

\* The local node answered.
LEMMA AnsweredStep == ASSUME SondaInv, QueryAnswered PROVE SondaInv'
<1>1. PICK truth \in Causes \cup LocalCauses, found \in BOOLEAN, mode \in RestModes,
           garbled \in BOOLEAN :
        \E desc \in Descs(truth) :
            LET reply == IF mode = "status" THEN GetStoreMessages(truth)
                        ELSE GetStoreMessages200(truth)
                answer == [reply EXCEPT !.json = @ /\ ~garbled]
            IN  /\ found => truth = "answered" /\ ~garbled
                /\ Queried(truth, found, ClassifyAnswer(answer, desc, found))
  BY Zenon DEF QueryAnswered
<1> DEFINE reply == IF mode = "status" THEN GetStoreMessages(truth)
                   ELSE GetStoreMessages200(truth)
           answer == [reply EXCEPT !.json = @ /\ ~garbled]
<1>2. PICK desc : /\ found => truth = "answered" /\ ~garbled
                  /\ Queried(truth, found, ClassifyAnswer(answer, desc, found))
  BY <1>1, Zenon
<1>3. reply \in {GetStoreMessages(truth), GetStoreMessages200(truth)}
  BY Zenon
<1> HIDE DEF reply
<1>4. PICK h, j, s : RestAnswer(truth, reply, h, j, s)
  BY <1>3, RestAnswers, Zenon
<1>5. /\ answer.http = h /\ answer.status = s
      /\ answer.json = (j /\ ~garbled) /\ j \in BOOLEAN
  BY <1>4, Zenon DEF RestAnswer
<1> HIDE DEF answer
<1>6. AnswerFits(truth, found, answer)
  BY <1>2, <1>4, <1>5, Zenon DEF AnswerFits, RestAnswer
<1>7. OutcomeRight(truth, found, ClassifyAnswer(answer, desc, found))
  BY <1>6, AnsweredRight, Zenon
<1> QED BY <1>2, <1>7, QueriedStep, Zenon

\* A round begins: whether its message was published says nothing of any node.
LEMMA PublishStep == ASSUME SondaInv, Publish PROVE SondaInv'
<1>1. /\ res' \in BOOLEAN /\ pc' = (IF res' THEN "query" ELSE "health") /\ next' = 1
      /\ UNCHANGED <<consecutive, node_health, counted, cause, asked>>
  BY Zenon DEF Publish
<1>2. 1 \in 1 .. Len(store_nodes) + 1 /\ 1 <= Len(store_nodes)
  BY SondaAssumption
<1>3. pc' \in {"publish", "query", "health"} /\ pc' # "publish"
  BY <1>1, Zenon
<1>4. SondaTypeOK'
  BY <1>1, <1>2, <1>3, Zenon DEF SondaInv, SondaTypeOK
<1> QED BY <1>1, <1>2, <1>3, <1>4, Zenon DEF SondaInv, BlamedOnlyIfAsked

\* The round ends: node_health is set for every node from its gauge.
LEMMA HealthStep == ASSUME SondaInv, UpdateHealth PROVE SondaInv'
<1>1. /\ pc' = "publish" /\ UNCHANGED <<res, next, consecutive, counted, cause, asked>>
      /\ node_health' = [n \in StoreNodes |->
                           IF consecutive[n] >= health_threshold THEN 1 ELSE 0]
  BY Zenon DEF UpdateHealth
<1>2. /\ node_health' \in [StoreNodes -> {0, 1}] /\ DOMAIN node_health' = StoreNodes
      /\ \A n \in StoreNodes :
           node_health'[n] = IF consecutive[n] >= health_threshold THEN 1 ELSE 0
  BY <1>1, Zenon
<1>3. SondaTypeOK'
  BY <1>1, <1>2, Zenon DEF SondaInv, SondaTypeOK
<1>4. 0 # 1
  OBVIOUS
<1>5. \A n \in StoreNodes : node_health'[n] = 1 <=> consecutive[n] >= health_threshold
  BY <1>2, <1>4, Zenon
<1>6. pc' # "query"
  BY <1>1, Zenon
<1> QED BY <1>1, <1>2, <1>3, <1>5, <1>6, Zenon DEF SondaInv, BlamedOnlyIfAsked

\* Before the first round every gauge is 0 and no query was sent.
LEMMA SondaInitially == SondaInit => SondaInv
<1> SUFFICES ASSUME SondaInit PROVE SondaInv
  BY Zenon
<1>1. /\ pc = "publish" /\ res = FALSE /\ next = 1 /\ counted = Empty /\ cause = "answered"
      /\ consecutive = [n \in StoreNodes |-> 0] /\ node_health = [n \in {} |-> 0]
      /\ asked = [n \in StoreNodes |-> << >>]
  BY Zenon DEF SondaInit
<1>2. /\ 1 \in 1 .. Len(store_nodes) + 1 /\ 0 \in 0 .. ConsecutiveCap
      /\ << >> \in Seq(BOOLEAN) /\ Len(<< >>) <= health_threshold
  BY SondaAssumption DEF ConsecutiveCap
<1>3. Empty \in CountedOnce /\ ~Empty.blame
  BY Zenon DEF Empty, CountedOnce
<1>4. node_health \in [{} -> {0, 1}] /\ DOMAIN node_health = {}
  BY <1>1, Zenon
<1>5. /\ consecutive \in [StoreNodes -> 0 .. ConsecutiveCap]
      /\ asked \in [StoreNodes -> Seq(BOOLEAN)]
      /\ \A n \in StoreNodes : consecutive[n] = 0 /\ asked[n] = << >>
  BY <1>1, <1>2, Zenon
<1>6. SondaTypeOK
  BY <1>1, <1>2, <1>3, <1>4, <1>5, Zenon DEF SondaTypeOK, Causes
<1>7. GaugeExact(0, << >>)
  BY DEF GaugeExact
<1>8. pc # "query"
  BY <1>1, Zenon
<1> QED BY <1>1, <1>3, <1>4, <1>5, <1>6, <1>7, <1>8, Zenon DEF SondaInv, BlamedOnlyIfAsked

\* The gauges follow the history of the queries in every round of main.
THEOREM SondaInvariant == SondaSpec => []SondaInv
<1>1. SondaInv /\ [SondaNext]_sondaVars => SondaInv'
  <2> SUFFICES ASSUME SondaInv, [SondaNext]_sondaVars PROVE SondaInv'
    BY Zenon
  <2>1. CASE UNCHANGED sondaVars
    BY <2>1, Zenon DEF sondaVars, SondaInv, SondaTypeOK, BlamedOnlyIfAsked
  <2> QED BY <2>1, PublishStep, RaisesStep, AnsweredStep, HealthStep, Zenon DEF SondaNext
<1> QED BY <1>1, SondaInitially, PTL DEF SondaSpec

\* A store node is shown healthy at the end of a round exactly when its last
\* health_threshold queries all found their message, for any list of nodes.
THEOREM HealthAlwaysExact == SondaSpec => []HealthExact
<1>1. SondaInv => HealthExact
  <2> SUFFICES ASSUME SondaInv, pc = "publish", NEW n \in DOMAIN node_health
               PROVE  node_health[n] = 1 <=>
                        /\ Len(asked[n]) = health_threshold
                        /\ \A i \in DOMAIN asked[n] : asked[n][i]
    BY Zenon DEF HealthExact
  <2>1. /\ n \in StoreNodes /\ (node_health[n] = 1 <=> consecutive[n] >= health_threshold)
        /\ GaugeExact(consecutive[n], asked[n])
    BY Zenon DEF SondaInv
  <2>2. /\ asked[n] \in Seq(BOOLEAN) /\ Len(asked[n]) <= health_threshold
        /\ consecutive[n] \in 0 .. ConsecutiveCap
    BY <2>1, Zenon DEF SondaInv, SondaTypeOK
  <2>3. health_threshold \in Nat /\ ConsecutiveCap \in Nat
    BY SondaAssumption DEF ConsecutiveCap
  <2>4. ASSUME consecutive[n] >= health_threshold
        PROVE  Len(asked[n]) = health_threshold /\ \A i \in DOMAIN asked[n] : asked[n][i]
    <3>1. Len(asked[n]) = health_threshold
      BY <2>1, <2>2, <2>3, <2>4 DEF GaugeExact
    <3>2. \A i \in DOMAIN asked[n] : i <= consecutive[n]
      BY <2>2, <2>3, <2>4
    <3> QED BY <2>1, <3>1, <3>2, Zenon DEF GaugeExact
  <2>5. ASSUME Len(asked[n]) = health_threshold, \A i \in DOMAIN asked[n] : asked[n][i],
               ~(consecutive[n] >= health_threshold)
        PROVE  FALSE
    <3>1. consecutive[n] < Len(asked[n]) /\ consecutive[n] + 1 \in DOMAIN asked[n]
      BY <2>2, <2>3, <2>5
    <3> QED BY <2>1, <2>5, <3>1, Zenon DEF GaugeExact
  <2> QED BY <2>1, <2>4, <2>5, Zenon
<1> QED BY <1>1, SondaInvariant, PTL

\* A failed query is charged to a store node only if the local node dialled it.
THEOREM BlameIsFair == SondaSpec => []BlamedOnlyIfAsked
<1>1. SondaInv => BlamedOnlyIfAsked
  BY Zenon DEF SondaInv
<1> QED BY <1>1, SondaInvariant, PTL

-----------------------------------------------------------------------------
(* The steps of a REST test: StepsInv is inductive.                        *)

\* What may be on its way, or in a cache: the messages published, and for the
\* steps that meet other messages those of earlier attempts and of others.
Afloat ==
    IF step \in Collecting \cup {"sharding", "fleet"} THEN 1 .. message
    ELSE {Noise, 1, Old}

\* How far the step is.
StepAt ==
    /\ step \notin Collecting => message \in {0, 1}
    /\ step \in Collecting /\ spc = "publish" => message < Batch
    /\ step \in Collecting /\ spc \in {"check", "passed"} => message = Batch
    /\ spc \in {"check", "passed"} => message # 0
    /\ message = 0 => flying = {} /\ \A p \in Peers : cache[p] = {}
    /\ step \in {"sharding", "filter"} /\ spc = "publish" => message = 0
    /\ spc = "publish" /\ step \in {"sharding", "collect", "fleet"} => peer = 1 /\ collected = {}
    /\ \A f \in flying : f[1] \in Afloat
    /\ \A f \in landed : f[1] <= message
    /\ \A p \in Peers : cache[p] \subseteq Afloat
    /\ step \in {"sharding", "collect"} => collected \subseteq Afloat

\* What a check may find has come: what is in a cache, or was collected, of the
\* messages awaited has landed, and so have all of them at the nodes passed.
SeenLanded ==
    /\ \A p \in Peers : \A m \in cache[p] : m \in Awaited => <<m, p>> \in landed
    /\ step \in {"sharding", "collect"} =>
         \A m \in collected : m \in Awaited => <<m, peer_list[peer]>> \in landed
    /\ spc \in {"check", "passed"} => \A j \in DOMAIN peer_list :
         j < peer \/ spc = "passed" => \A m \in Awaited : <<m, peer_list[j]>> \in landed

\* A wait that polls still has all that landed where it looks.
NothingDropped ==
    step \in {"sharding", "collect"} /\ ~lost =>
        /\ spc \in {"publish", "check"} => \A j \in DOMAIN peer_list, m \in Awaited :
             j >= peer /\ <<m, peer_list[j]>> \in landed =>
                m \in cache[peer_list[j]] \/ (j = peer /\ m \in collected)
        /\ spc = "failed" => ~(Awaited \X Peers \subseteq landed)

\* Once the network has settled, each attempt finds one more node at least
\* without a message of an earlier one.
Healing ==
    /\ prompt => step \in Retried
    /\ ~prompt => good = 0
    /\ good <= Len(peer_list) + 1
    /\ prompt /\ spc = "publish" =>
         /\ flying = {} /\ good <= Len(peer_list)
         /\ \A i \in DOMAIN peer_list : i <= good => cache[peer_list[i]] \subseteq {Noise}
    /\ prompt /\ spc = "check" =>
         /\ \A f \in flying : f[1] = 1
         /\ peer > 1 => flying = {}
         /\ \A i \in DOMAIN peer_list :
              /\ i < peer => cache[peer_list[i]] \subseteq {Noise}
              /\ i >= peer => <<1, peer_list[i]>> \in flying \/ 1 \in cache[peer_list[i]]
              /\ i < good => cache[peer_list[i]] \subseteq {Noise, 1}

\* The inductive invariant of a step.
StepsInv ==
    StepsTypeOK /\ StepAt /\ SeenLanded /\ NothingDropped /\ Healing
-----------------------------------------------------------------------------
\* The list of nodes and the names of messages.
LEMMA ListFacts ==
    /\ Len(peer_list) \in Nat \ {0} /\ DOMAIN peer_list = 1 .. Len(peer_list)
    /\ \A i \in DOMAIN peer_list : peer_list[i] \in Peers
    /\ \A p \in Peers : \E i \in DOMAIN peer_list : p = peer_list[i]
    /\ \A i, j \in DOMAIN peer_list : peer_list[i] = peer_list[j] => i = j
    /\ Batch \in Nat \ {0} /\ Old = Batch + 1 /\ Noise = 0
<1>1. /\ peer_list \in Seq(STRING) /\ peer_list # << >> /\ Batch \in Nat \ {0}
      /\ \A i, j \in DOMAIN peer_list : peer_list[i] = peer_list[j] => i = j
  BY RestStepsAssumption, Zenon
<1>2. Len(peer_list) \in Nat \ {0} /\ DOMAIN peer_list = 1 .. Len(peer_list)
  BY <1>1
<1>3. Peers = {peer_list[i] : i \in DOMAIN peer_list}
  BY Zenon DEF Peers
<1> QED BY <1>1, <1>2, <1>3, Zenon DEF Old, Noise

\* What a step is about does not change under it.
LEMMA SameMessage ==
    ASSUME UNCHANGED <<step, message>>
    PROVE  Awaited' = Awaited /\ Afloat' = Afloat
<1>1. step' = step /\ message' = message
  BY Zenon
<1> QED BY <1>1, Zenon DEF Awaited, Afloat, Collecting, Noise, Old

\* The caches hold no more than they did: those of the nodes not looked at
\* stay, and the node looked at keeps its cache or loses it.
Looked ==
    /\ cache' \in [Peers -> SUBSET (0 .. Old)]
    /\ \A p \in Peers : cache'[p] \subseteq cache[p]
    /\ \A i \in DOMAIN peer_list : i # peer => cache'[peer_list[i]] = cache[peer_list[i]]
    /\ cache'[peer_list[peer]] \in {cache[peer_list[peer]], {}}

\* A GET empties the cache of the node it asks and no other.
LEMMA DrainLooks ==
    ASSUME StepsTypeOK, Drain \/ UNCHANGED cache
    PROVE  Looked /\ (Drain => cache'[peer_list[peer]] = {})
<1>1. cache \in [Peers -> SUBSET (0 .. Old)] /\ peer \in DOMAIN peer_list
  BY Zenon DEF StepsTypeOK
<1>2. CASE UNCHANGED cache /\ ~Drain
  BY <1>1, <1>2, Zenon DEF Looked
<1>3. CASE Drain
  <2>1. cache' = [cache EXCEPT ![peer_list[peer]] = {}]
    BY <1>3, Zenon DEF Drain
  <2>2. /\ peer_list[peer] \in Peers
        /\ \A i \in DOMAIN peer_list : peer_list[i] \in Peers
        /\ \A i, j \in DOMAIN peer_list : peer_list[i] = peer_list[j] => i = j
    BY <1>1, ListFacts, Zenon
  <2>3. /\ cache'[peer_list[peer]] = {}
        /\ \A p \in Peers : p # peer_list[peer] => cache'[p] = cache[p]
    BY <1>1, <2>1, <2>2, Zenon
  <2>4. cache' \in [Peers -> SUBSET (0 .. Old)]
    BY <1>1, <2>1, <2>2, Zenon
  <2>5. \A i \in DOMAIN peer_list : i # peer => cache'[peer_list[i]] = cache[peer_list[i]]
    BY <1>1, <2>2, <2>3, Zenon
  <2>6. \A p \in Peers : cache'[p] \subseteq cache[p]
    BY <2>3, Zenon
  <2> QED BY <2>3, <2>4, <2>5, <2>6, Zenon DEF Looked
<1> QED BY <1>2, <1>3, Zenon

\* The step goes on to the next node, or passes at the last: the messages it
\* awaits have come to the node it was at.
LEMMA MovesOn ==
    ASSUME StepsInv, spc = "check", NextPeer, Looked,
           UNCHANGED <<message, flying, landed, lost, good>>,
           \A m \in Awaited : <<m, peer_list[peer]>> \in landed,
           prompt => flying = {} /\ cache'[peer_list[peer]] = {}
    PROVE  StepsInv'
<1>0. StepsTypeOK /\ StepAt /\ SeenLanded /\ NothingDropped /\ Healing
  BY Zenon DEF StepsInv
<1>t. /\ step \in Steps /\ message \in 0 .. Batch /\ peer \in DOMAIN peer_list
      /\ flying \subseteq (1 .. Old) \X Peers /\ landed \subseteq (1 .. Batch) \X Peers
      /\ {prompt, lost} \subseteq BOOLEAN /\ good \in 0 .. GoodCap
  BY <1>0, Zenon DEF StepsTypeOK
<1>u. /\ message' = message /\ flying' = flying /\ landed' = landed /\ lost' = lost
      /\ good' = good /\ step' = step /\ prompt' = prompt
      /\ lost' <=> lost
  BY Zenon DEF NextPeer
<1>n. /\ peer' = IF peer = Len(peer_list) THEN peer ELSE peer + 1
      /\ spc' = IF peer = Len(peer_list) THEN "passed" ELSE "check"
      /\ collected' = {}
  BY Zenon DEF NextPeer
<1>l. /\ Len(peer_list) \in Nat \ {0} /\ DOMAIN peer_list = 1 .. Len(peer_list)
      /\ \A i \in DOMAIN peer_list : peer_list[i] \in Peers
  BY ListFacts, Zenon
<1>a. Awaited' = Awaited /\ Afloat' = Afloat /\ GoodCap' = GoodCap
  BY <1>u, SameMessage, Zenon DEF GoodCap
<1>p. /\ peer' \in DOMAIN peer_list /\ spc' \in {"check", "passed"}
      /\ \A j \in DOMAIN peer_list : j < peer' \/ spc' = "passed" => j < peer \/ j = peer
      /\ spc' = "check" => peer' = peer + 1 /\ \A j \in DOMAIN peer_list : j >= peer' => j # peer /\ j >= peer
  <2>1. CASE peer = Len(peer_list)
    BY <1>l, <1>n, <1>t, <2>1
  <2>2. CASE peer # Len(peer_list)
    BY <1>l, <1>n, <1>t, <2>2
  <2> QED BY <2>1, <2>2, Zenon
<1>s. spc' # "publish" /\ spc' # "failed"
  BY <1>p, Zenon
<1>1. StepsTypeOK'
  BY <1>0, <1>a, <1>n, <1>p, <1>t, <1>u, Zenon
     DEF StepsTypeOK, Looked, Steps, Retried, Collecting, Old
<1>2. StepAt'
  <2>1. spc \in {"check", "passed"}
    BY Zenon
  <2>2. /\ \A f \in flying' : f[1] \in Afloat
        /\ \A f \in landed' : f[1] <= message
        /\ \A p \in Peers : cache'[p] \subseteq Afloat
        /\ collected' \subseteq Afloat
        /\ message = 0 => \A p \in Peers : cache'[p] = {}
    BY <1>0, <1>n, <1>u, Zenon DEF StepAt, Looked
  <2> QED BY <1>0, <1>a, <1>p, <1>s, <1>u, <2>1, <2>2, Zenon DEF StepAt, Collecting
<1>3. SeenLanded'
  <2>1. \A j \in DOMAIN peer_list : j < peer => \A m \in Awaited : <<m, peer_list[j]>> \in landed
    BY <1>0, Zenon DEF SeenLanded
  <2>2. \A j \in DOMAIN peer_list :
          j < peer' \/ spc' = "passed" => \A m \in Awaited : <<m, peer_list[j]>> \in landed
    BY <1>p, <2>1, Zenon
  <2> QED BY <1>0, <1>a, <1>n, <1>u, <2>2, Zenon DEF SeenLanded, Looked
<1>4. NothingDropped'
  <2>1. ASSUME step \in {"sharding", "collect"}, ~lost, spc' = "check",
               NEW j \in DOMAIN peer_list, NEW m \in Awaited,
               j >= peer', <<m, peer_list[j]>> \in landed
        PROVE  m \in cache'[peer_list[j]]
    <3>1. j # peer /\ j >= peer
      BY <1>p, <2>1, Zenon
    <3>2. m \in cache[peer_list[j]]
      BY <1>0, <2>1, <3>1, Zenon DEF NothingDropped
    <3> QED BY <3>1, <3>2, Zenon DEF Looked
  <2>2. spc' \in {"publish", "check"} => spc' = "check"
    BY <1>s, Zenon
  <2>3. ASSUME step' \in {"sharding", "collect"}, ~lost', spc' \in {"publish", "check"},
               NEW j \in DOMAIN peer_list, NEW m \in Awaited',
               j >= peer', <<m, peer_list[j]>> \in landed'
        PROVE  m \in cache'[peer_list[j]]
    <3>1. /\ step \in {"sharding", "collect"} /\ ~lost /\ spc' = "check" /\ m \in Awaited
          /\ <<m, peer_list[j]>> \in landed
      BY <1>a, <1>u, <2>2, <2>3, Zenon
    <3> QED BY <2>1, <2>3, <3>1, Zenon
  <2> QED BY <1>s, <2>3, Zenon DEF NothingDropped
<1>5. Healing'
  <2>1. ASSUME prompt, spc' = "check", NEW i \in DOMAIN peer_list
        PROVE  /\ i < peer' => cache'[peer_list[i]] \subseteq {Noise}
               /\ i >= peer' => <<1, peer_list[i]>> \in flying \/ 1 \in cache'[peer_list[i]]
               /\ i < good => cache'[peer_list[i]] \subseteq {Noise, 1}
    <3>1. /\ i < peer => cache[peer_list[i]] \subseteq {Noise}
          /\ i >= peer => <<1, peer_list[i]>> \in flying \/ 1 \in cache[peer_list[i]]
          /\ i < good => cache[peer_list[i]] \subseteq {Noise, 1}
      BY <1>0, <2>1, Zenon DEF Healing
    <3>2. /\ i = peer => cache'[peer_list[i]] = {}
          /\ i # peer => cache'[peer_list[i]] = cache[peer_list[i]]
      BY <2>1, Zenon DEF Looked
    <3>3. /\ i < peer' => i < peer \/ i = peer
          /\ i >= peer' => i # peer /\ i >= peer
      BY <1>p, <2>1, Zenon
    <3> QED BY <3>1, <3>2, <3>3, Zenon
  <2>2. prompt => flying = {}
    BY Zenon
  <2>3. /\ prompt => step \in Retried
        /\ ~prompt => good = 0
        /\ good <= Len(peer_list) + 1
        /\ prompt => \A f \in flying : f[1] = 1
    BY <1>0, Zenon DEF Healing
  <2>4. Noise' = Noise /\ Retried' = Retried
    BY Zenon DEF Noise, Retried
  <2> QED BY <1>s, <1>u, <2>1, <2>2, <2>3, <2>4, Zenon DEF Healing
<1> QED BY <1>1, <1>2, <1>3, <1>4, <1>5, Zenon DEF StepsInv

\* The steps that publish again are no others.
LEMMA RetriedOnly ==
    step \in Retried =>
        step \notin Collecting /\ step \notin {"sharding", "filter", "collect", "fleet"}
  BY Zenon DEF Retried, Collecting

\* An attempt fails at a node: a wait that polls has missed a message, and a
\* retried one, once the network has settled, met a message of an earlier
\* attempt there.
LEMMA Fails ==
    ASSUME StepsInv, spc = "check", AttemptFails, Looked,
           UNCHANGED <<message, flying, landed, good>>, lost' \in BOOLEAN,
           (step \in {"sharding", "collect"} /\ ~lost') => ~(Awaited \X Peers \subseteq landed),
           prompt => flying = {} /\ cache'[peer_list[peer]] = {} /\ good <= peer
    PROVE  StepsInv'
<1>0. StepsTypeOK /\ StepAt /\ SeenLanded /\ NothingDropped /\ Healing
  BY Zenon DEF StepsInv
<1>t. /\ step \in Steps /\ message \in 0 .. Batch /\ peer \in DOMAIN peer_list
      /\ flying \subseteq (1 .. Old) \X Peers /\ landed \subseteq (1 .. Batch) \X Peers
      /\ prompt \in BOOLEAN /\ good \in 0 .. GoodCap /\ collected \subseteq 1 .. Batch
  BY <1>0, Zenon DEF StepsTypeOK
<1>u. /\ message' = message /\ flying' = flying /\ landed' = landed
      /\ good' = good /\ step' = step /\ prompt' = prompt /\ peer' = peer
      /\ collected' = collected
  BY Zenon DEF AttemptFails
<1>b. prompt' <=> prompt
  BY <1>u, Zenon
<1>l. Len(peer_list) \in Nat \ {0} /\ DOMAIN peer_list = 1 .. Len(peer_list)
  BY ListFacts, Zenon
<1>a. Awaited' = Awaited /\ Afloat' = Afloat /\ GoodCap' = GoodCap
  BY <1>u, SameMessage, Zenon DEF GoodCap
<1>s. /\ spc' \in {"publish", "failed"}
      /\ spc' = "publish" => step \in Retried
  BY Zenon DEF AttemptFails
<1>d. spc' # "check" /\ spc' # "passed"
  BY <1>s, Zenon
<1>r. spc' = "publish" =>
        step \notin Collecting /\ step \notin {"sharding", "filter", "collect", "fleet"}
  BY <1>s, RetriedOnly, Zenon
<1>1. StepsTypeOK'
  BY <1>a, <1>s, <1>t, <1>u, <1>b, Zenon
     DEF StepsTypeOK, Looked, Steps, Retried, Collecting, Old
<1>2. StepAt'
  <2>1. /\ \A p \in Peers : cache'[p] \subseteq Afloat
        /\ message = 0 => \A p \in Peers : cache'[p] = {}
    BY <1>0, Zenon DEF StepAt, Looked
  <2>2. spc' = "publish" => step \notin {"sharding", "collect", "fleet"} /\ step \notin {"sharding", "filter"}
    BY <1>r, Zenon
  <2>3. /\ \A f \in flying' : f[1] \in Afloat
        /\ \A f \in landed' : f[1] <= message
        /\ step \in {"sharding", "collect"} => collected' \subseteq Afloat
        /\ message = 0 => flying' = {}
        /\ step \notin Collecting => message \in {0, 1}
    BY <1>0, <1>u, Zenon DEF StepAt
  <2>4. spc' \notin {"check", "passed"}
    BY <1>d, Zenon
  <2> QED BY <1>a, <1>d, <1>r, <1>u, <2>1, <2>2, <2>3, <2>4, Zenon DEF StepAt, Collecting
<1>3. SeenLanded'
  BY <1>0, <1>a, <1>d, <1>u, Zenon DEF SeenLanded, Looked
<1>4. NothingDropped'
  BY <1>a, <1>d, <1>r, <1>u, Zenon DEF NothingDropped
<1>5. Healing'
  <2>1. /\ prompt => step \in Retried
        /\ ~prompt => good = 0
        /\ good <= Len(peer_list) + 1
    BY <1>0, Zenon DEF Healing
  <2>2. ASSUME prompt, spc' = "publish"
        PROVE  /\ flying = {} /\ good <= Len(peer_list)
               /\ \A i \in DOMAIN peer_list : i <= good => cache'[peer_list[i]] \subseteq {Noise}
    <3>1. good \in Nat /\ peer \in Nat /\ peer <= Len(peer_list) /\ good <= peer
      BY <1>l, <1>t, <2>2
    <3>2. ASSUME NEW i \in DOMAIN peer_list, i <= good
          PROVE  cache'[peer_list[i]] \subseteq {Noise}
      <4>1. i < peer \/ i = peer
        BY <1>l, <3>1, <3>2
      <4>2. CASE i < peer
        <5>1. i # peer
          BY <1>l, <1>t, <4>2
        <5>2. cache'[peer_list[i]] = cache[peer_list[i]]
          BY <5>1, Zenon DEF Looked
        <5> QED BY <1>0, <2>2, <4>2, <5>2, Zenon DEF Healing
      <4>3. CASE i = peer
        BY <2>2, <4>3, Zenon
      <4> QED BY <4>1, <4>2, <4>3, Zenon
    <3> QED BY <1>l, <2>2, <3>1, <3>2
  <2>4. Noise' = Noise /\ Retried' = Retried
    BY Zenon DEF Noise, Retried
  <2> QED BY <1>b, <1>d, <1>u, <2>1, <2>2, <2>4, Zenon DEF Healing
<1> QED BY <1>1, <1>2, <1>3, <1>4, <1>5, Zenon DEF StepsInv

\* A poll that is not the last: what a GET drained is collected, unless its
\* answer is lost.
LEMMA PollsAgain ==
    ASSUME StepsInv, spc = "check", step \in {"sharding", "collect"}, Looked,
           UNCHANGED <<step, spc, peer, prompt, message, flying, landed, good>>,
           lost' \in BOOLEAN, lost => lost',
           collected' \subseteq collected \cup cache[peer_list[peer]],
           ~lost' => collected \cup cache[peer_list[peer]]
                        \subseteq collected' \cup cache'[peer_list[peer]]
    PROVE  StepsInv'
<1>0. StepsTypeOK /\ StepAt /\ SeenLanded /\ NothingDropped /\ Healing
  BY Zenon DEF StepsInv
<1>t. /\ step \in Steps /\ message \in 0 .. Batch /\ peer \in DOMAIN peer_list
      /\ flying \subseteq (1 .. Old) \X Peers /\ landed \subseteq (1 .. Batch) \X Peers
      /\ prompt \in BOOLEAN /\ good \in 0 .. GoodCap /\ collected \subseteq 1 .. Batch
  BY <1>0, Zenon DEF StepsTypeOK
<1>u. /\ message' = message /\ flying' = flying /\ landed' = landed
      /\ good' = good /\ step' = step /\ prompt' = prompt /\ peer' = peer
      /\ spc' = spc
  BY Zenon
<1>b. ~prompt /\ ~prompt'
  <2>1. step \notin Retried
    BY Zenon DEF Retried
  <2>2. ~prompt
    BY <1>0, <2>1, Zenon DEF Healing
  <2> QED BY <1>u, <2>2
<1>l. peer_list[peer] \in Peers
  BY <1>t, ListFacts, Zenon
<1>a. Awaited' = Awaited /\ Afloat' = Afloat /\ GoodCap' = GoodCap
  BY <1>u, SameMessage, Zenon DEF GoodCap
<1>c. cache[peer_list[peer]] \subseteq 1 .. Batch
  <2>1. cache[peer_list[peer]] \subseteq 1 .. message
    BY <1>0, <1>l, Zenon DEF StepAt, Afloat, Collecting
  <2>2. 1 .. message \subseteq 1 .. Batch
    BY <1>t, ListFacts
  <2> QED BY <2>1, <2>2, Zenon
<1>1. StepsTypeOK'
  <2>1. {prompt', lost'} \subseteq BOOLEAN
    BY <1>t, <1>u, Zenon
  <2>2. collected' \subseteq 1 .. Batch
    BY <1>c, <1>t, Zenon
  <2> QED BY <1>a, <1>t, <1>u, <2>1, <2>2, Zenon
             DEF StepsTypeOK, Looked, Steps, Retried, Collecting, Old
<1>2. StepAt'
  <2>1. spc # "publish"
    BY Zenon
  <2>2. collected' \subseteq Afloat
    BY <1>0, <1>l, Zenon DEF StepAt
  <2> QED BY <1>0, <1>a, <1>u, <2>1, <2>2, Zenon DEF StepAt, Looked, Collecting
<1>3. SeenLanded'
  <2>1. \A m \in collected' : m \in Awaited => <<m, peer_list[peer]>> \in landed
    BY <1>0, <1>l, Zenon DEF SeenLanded
  <2> QED BY <1>0, <1>a, <1>u, <2>1, Zenon DEF SeenLanded, Looked
<1>4. NothingDropped'
  <2>1. ASSUME ~lost', NEW j \in DOMAIN peer_list, NEW m \in Awaited,
               j >= peer, <<m, peer_list[j]>> \in landed
        PROVE  m \in cache'[peer_list[j]] \/ (j = peer /\ m \in collected')
    <3>1. m \in cache[peer_list[j]] \/ (j = peer /\ m \in collected)
      BY <1>0, <2>1, Zenon DEF NothingDropped
    <3>2. CASE j = peer
      BY <2>1, <3>1, <3>2, Zenon
    <3>3. CASE j # peer
      BY <3>1, <3>3, Zenon DEF Looked
    <3> QED BY <3>2, <3>3, Zenon
  <2>2. spc' # "failed"
    BY <1>u, Zenon
  <2> QED BY <1>a, <1>u, <2>1, <2>2, Zenon DEF NothingDropped
<1>5. Healing'
  BY <1>0, <1>b, <1>u, Zenon DEF Healing
<1> QED BY <1>1, <1>2, <1>3, <1>4, <1>5, Zenon DEF StepsInv

\* One look at a node.
LEMMA LookAtNodeStep ==
    ASSUME StepsInv, LookOnce, step \in {"relay", "lightpush", "filter"}
    PROVE  StepsInv'
<1> DEFINE here == cache[peer_list[peer]]
<1>0. StepsTypeOK /\ StepAt /\ SeenLanded /\ Healing
  BY Zenon DEF StepsInv
<1>1. /\ spc = "check" /\ Drain /\ UNCHANGED <<message, flying, landed, lost, good>>
      /\ prompt => flying = {}
      /\ IF here \ {Noise} = {message} THEN NextPeer ELSE AttemptFails
  BY Zenon DEF LookOnce
<1>2. Looked /\ cache'[peer_list[peer]] = {}
  BY <1>0, <1>1, DrainLooks, Zenon
<1>3. message = 1 /\ Awaited = {message}
  <2>1. step \notin Collecting /\ step \notin {"collect", "storeAll", "storeHashes"}
    BY Zenon DEF Collecting
  <2> QED BY <1>0, <1>1, <2>1, Zenon DEF StepAt, Awaited
<1>4. peer \in DOMAIN peer_list /\ peer_list[peer] \in Peers /\ good \in Nat /\ peer \in Nat
  <2>1. peer \in DOMAIN peer_list /\ good \in 0 .. GoodCap
    BY <1>0, Zenon DEF StepsTypeOK
  <2> QED BY <2>1, ListFacts
<1>5. CASE here \ {Noise} = {message}
  <2>1. message \in here
    BY <1>5, Zenon
  <2>2. \A m \in Awaited : <<m, peer_list[peer]>> \in landed
    BY <1>0, <1>3, <1>4, <2>1, Zenon DEF SeenLanded
  <2>3. NextPeer
    BY <1>1, <1>5, Zenon
  <2> QED BY <1>1, <1>2, <2>2, <2>3, MovesOn, Zenon
<1>6. CASE here \ {Noise} # {message}
  <2>1. ASSUME prompt PROVE good <= peer
    <3>1. 1 \in here
      <4>1. peer >= peer
        BY <1>4
      <4>2. <<1, peer_list[peer]>> \in flying \/ 1 \in here
        BY <1>0, <1>1, <1>4, <2>1, <4>1, Zenon DEF Healing
      <4> QED BY <1>1, <2>1, <4>2, Zenon
    <3>2. ASSUME peer < good PROVE FALSE
      <4>1. here \subseteq {Noise, 1}
        BY <1>0, <1>1, <1>4, <2>1, <3>2, Zenon DEF Healing
      <4>2. Noise # 1
        BY DEF Noise
      <4>3. here \ {Noise} = {1}
        BY <3>1, <4>1, <4>2, Zenon
      <4> QED BY <1>3, <1>6, <4>3, Zenon
    <3> QED BY <1>4, <3>2
  <2>2. lost' \in BOOLEAN /\ step \notin {"sharding", "collect"}
    BY <1>0, <1>1, Zenon DEF StepsTypeOK
  <2>3. AttemptFails
    BY <1>1, <1>6, Zenon
  <2> QED BY <1>1, <1>2, <2>1, <2>2, <2>3, Fails, Zenon
<1> QED BY <1>5, <1>6, Zenon

\* The GET of a single look raises.
LEMMA GetRaisesStep == ASSUME StepsInv, GetRaises PROVE StepsInv'
<1>0. StepsTypeOK
  BY Zenon DEF StepsInv
<1>1. /\ spc = "check" /\ ~prompt /\ AttemptFails /\ UNCHANGED <<message, flying, landed, good>>
      /\ lost' = lost /\ (Drain \/ UNCHANGED cache)
      /\ step \in Retried \cup {"filter"}
  BY Zenon DEF GetRaises
<1>2. Looked
  BY <1>0, <1>1, DrainLooks, Zenon
<1>3. lost' \in BOOLEAN /\ step \notin {"sharding", "collect"}
  BY <1>0, <1>1, Zenon DEF StepsTypeOK, Retried
<1> QED BY <1>1, <1>2, <1>3, Fails, Zenon

\* How many numbers there are in a part of 1 .. n.
LEMMA PartOf ==
    ASSUME NEW n \in Nat, NEW S \in SUBSET (1 .. n)
    PROVE  Cardinality(S) < n <=> S # 1 .. n
<1>1. IsFiniteSet(1 .. n) /\ Cardinality(1 .. n) = n
  BY FS_Interval
<1>2. /\ IsFiniteSet(S) /\ Cardinality(S) <= Cardinality(1 .. n)
      /\ Cardinality(1 .. n) = Cardinality(S) => 1 .. n = S
  BY <1>1, FS_Subset, Zenon
<1>3. Cardinality(S) \in Nat
  BY <1>2, FS_CardinalityType, Zenon
<1>4. Cardinality(S) = n <=> S = 1 .. n
  BY <1>1, <1>2, Zenon
<1> HIDE DEF Cardinality
<1>5. Cardinality(S) < n <=> Cardinality(S) # n
  BY <1>1, <1>2, <1>3
<1> QED BY <1>4, <1>5, Zenon

\* One poll of a wait: it has all it needs exactly when all it awaits has come.
LEMMA PollStep ==
    ASSUME StepsInv, Poll, step \in {"sharding", "collect"}
    PROVE  StepsInv'
<1> DEFINE here == cache[peer_list[peer]]
           messages == collected \cup here
<1>0. StepsTypeOK /\ StepAt /\ SeenLanded /\ NothingDropped /\ Healing
  BY Zenon DEF StepsInv
<1>1. spc = "check" /\ UNCHANGED <<message, flying, landed, good>>
  BY Zenon DEF Poll
<1>2. peer \in DOMAIN peer_list /\ peer_list[peer] \in Peers /\ lost \in BOOLEAN
  <2>1. peer \in DOMAIN peer_list /\ lost \in BOOLEAN
    BY <1>0, Zenon DEF StepsTypeOK
  <2> QED BY <2>1, ListFacts, Zenon
<1>3. message \in Nat /\ Count = message /\ Awaited = 1 .. message /\ collected \subseteq 1 .. message
      /\ (step = "sharding" => 1 .. message = {message})
  <2>1. CASE step = "sharding"
    <3>1. step \notin Collecting /\ step \notin {"collect", "storeAll", "storeHashes"}
      BY <2>1, Zenon DEF Collecting
    <3>2. message = 1 /\ Awaited = {message} /\ Count = 1
      BY <1>0, <1>1, <2>1, <3>1, Zenon DEF StepAt, Awaited, Count
    <3>3. collected \subseteq 1 .. message
      BY <1>0, <2>1, Zenon DEF StepAt, Afloat
    <3>4. message \in Nat /\ 1 .. message = {message}
      BY <3>2
    <3> QED BY <3>2, <3>3, <3>4, Zenon
  <2>2. CASE step = "collect"
    <3>1. message = Batch
      BY <1>0, <1>1, <2>2, Zenon DEF StepAt, Collecting
    <3>2. step # "sharding"
      BY <2>2, Zenon
    <3>3. Count = Batch /\ Awaited = 1 .. message
      BY <2>2, <3>2, Zenon DEF Awaited, Count
    <3>4. Batch \in Nat
      BY ListFacts, Zenon
    <3>5. collected \subseteq 1 .. Batch
      BY <1>0, Zenon DEF StepsTypeOK
    <3> QED BY <3>1, <3>2, <3>3, <3>4, <3>5, Zenon
  <2> QED BY <2>1, <2>2, Zenon
<1>4. messages \subseteq 1 .. message
  <2>1. here \subseteq 1 .. message
    BY <1>0, <1>2, Zenon DEF StepAt, Afloat, Collecting
  <2> QED BY <1>3, <2>1, Zenon
<1>5. Cardinality(messages) < Count <=> messages # Awaited
  BY <1>3, <1>4, PartOf, Zenon
<1>6. \A m \in messages : <<m, peer_list[peer]>> \in landed
  BY <1>0, <1>2, <1>3, <1>4, Zenon DEF SeenLanded
<1>p. ~prompt
  <2>1. step \notin Retried
    BY Zenon DEF Retried
  <2> QED BY <1>0, <2>1, Zenon DEF Healing
<1>7. ASSUME Drain, lost' = lost,
             IF Cardinality(messages) < Count
             THEN \/ collected' = messages /\ UNCHANGED <<step, spc, peer, prompt>>
                  \/ AttemptFails
             ELSE IF step = "sharding" /\ messages # {message} THEN AttemptFails ELSE NextPeer
      PROVE  StepsInv'
  <2>1. Looked
    BY <1>0, <1>7, DrainLooks, Zenon
  <2>2. CASE messages = Awaited
    <3>1. NextPeer
      BY <1>3, <1>5, <1>7, <2>2, Zenon
    <3>2. UNCHANGED <<message, flying, landed, lost, good>>
      BY <1>1, <1>7, Zenon
    <3>3. \A m \in Awaited : <<m, peer_list[peer]>> \in landed
      BY <1>6, <2>2, Zenon
    <3> QED BY <1>1, <1>p, <2>1, <3>1, <3>2, <3>3, MovesOn, Zenon
  <2>3. CASE messages # Awaited /\ collected' = messages /\ UNCHANGED <<step, spc, peer, prompt>>
    <3>1. UNCHANGED <<step, spc, peer, prompt, message, flying, landed, good>>
      BY <1>1, <2>3, Zenon
    <3>2. lost' \in BOOLEAN /\ (lost => lost')
      BY <1>2, <1>7, Zenon
    <3>3. /\ collected' \subseteq collected \cup here
          /\ collected \cup here \subseteq collected' \cup cache'[peer_list[peer]]
      BY <2>3, Zenon
    <3> QED BY <1>1, <2>1, <3>1, <3>2, <3>3, PollsAgain, Zenon
  <2>4. CASE messages # Awaited /\ AttemptFails
    <3>1. ASSUME ~lost', Awaited \X Peers \subseteq landed PROVE FALSE
      <4>1. ~lost
        BY <1>7, <3>1, Zenon
      <4>2. peer >= peer
        BY <1>2, ListFacts
      <4>3. ASSUME NEW m \in Awaited PROVE m \in messages
        <5>1. <<m, peer_list[peer]>> \in landed
          BY <1>2, <3>1, Zenon
        <5> QED BY <1>0, <1>1, <1>2, <4>1, <4>2, <5>1, Zenon DEF NothingDropped
      <4>4. messages = Awaited
        BY <1>3, <1>4, <4>3, Zenon
      <4> QED BY <2>4, <4>4, Zenon
    <3>2. lost' \in BOOLEAN
      BY <1>2, <1>7, Zenon
    <3> QED BY <1>1, <1>p, <2>1, <2>4, <3>1, <3>2, Fails, Zenon
  <2> QED BY <1>5, <1>7, <2>2, <2>3, <2>4, Zenon
<1>8. ASSUME Drain \/ UNCHANGED cache,
             \/ /\ lost' = (lost \/ cache' # cache)
                /\ UNCHANGED <<step, spc, peer, collected, prompt>>
             \/ lost' = TRUE /\ AttemptFails
      PROVE  StepsInv'
  <2>1. Looked
    BY <1>0, <1>8, DrainLooks, Zenon
  <2>2. CASE lost' = TRUE /\ AttemptFails
    <3>1. lost' \in BOOLEAN /\ lost'
      BY <2>2, Zenon
    <3> QED BY <1>1, <1>p, <2>1, <2>2, <3>1, Fails, Zenon
  <2>3. CASE /\ lost' = (lost \/ cache' # cache)
             /\ UNCHANGED <<step, spc, peer, collected, prompt>>
    <3>1. lost' \in BOOLEAN /\ (lost => lost') /\ (~lost' => cache' = cache)
      BY <1>2, <2>3, Zenon
    <3>2. UNCHANGED <<step, spc, peer, prompt, message, flying, landed, good>> /\ collected' = collected
      BY <1>1, <2>3, Zenon
    <3>3. /\ collected' \subseteq collected \cup here
          /\ ~lost' => collected \cup here \subseteq collected' \cup cache'[peer_list[peer]]
      BY <3>1, <3>2, Zenon
    <3> QED BY <1>1, <2>1, <3>1, <3>2, <3>3, PollsAgain, Zenon
  <2> QED BY <1>8, <2>2, <2>3, Zenon
<1> QED BY <1>7, <1>8, Zenon DEF Poll

\* What the records in the order of their timestamps say is in the store.
LEMMA RecordsStored ==
    ASSUME NEW S, IsFiniteSet(S), NEW s \in InOrder(S), s # << >>
    PROVE  /\ s[Len(s)] \in S
           /\ \A i \in 1 .. Len(s) : s[i] \in S
<1>1. Cardinality(S) \in Nat /\ s \in [1 .. Cardinality(S) -> S]
  BY FS_CardinalityType, Zenon DEF InOrder
<1> DEFINE n == Cardinality(S)
<1>2. n \in Nat /\ s \in [1 .. n -> S]
  BY <1>1, Zenon
<1> HIDE DEF n
<1>3. s \in Seq(S) /\ Len(s) = n
  BY <1>2
<1>4. n # 0
  BY <1>3
<1>5. Len(s) \in 1 .. n
  BY <1>2, <1>3, <1>4
<1>6. s[Len(s)] \in S
  BY <1>2, <1>5, Zenon
<1> QED BY <1>2, <1>3, <1>6, Zenon

\* A look at a store.
LEMMA StoreStep ==
    ASSUME StepsInv,
           \/ check_published_message_is_stored
           \/ check_sent_message_is_stored
           \/ wait_for_fleet_store_messages
    PROVE  StepsInv'
<1> DEFINE here == cache[peer_list[peer]]
<1>0. StepsTypeOK /\ StepAt /\ SeenLanded /\ NothingDropped /\ Healing
  BY Zenon DEF StepsInv
<1>1. /\ spc = "check" /\ UNCHANGED <<message, flying, landed, lost, good>>
      /\ UNCHANGED <<message, flying, landed, good>> /\ cache' = cache /\ lost' = lost
      /\ step \in {"storeLast", "storeAll", "storeHashes", "fleet"}
  BY Zenon DEF check_published_message_is_stored, check_sent_message_is_stored,
         wait_for_fleet_store_messages
<1>2. Looked
  BY <1>0, <1>1, DrainLooks, Zenon
<1>3. ~prompt /\ step \notin {"sharding", "collect"} /\ lost' \in BOOLEAN
  <2>1. step \notin Retried /\ step \notin {"sharding", "collect"}
    BY <1>1, Zenon DEF Retried
  <2>2. lost' \in BOOLEAN
    BY <1>0, <1>1, Zenon DEF StepsTypeOK
  <2> QED BY <1>0, <2>1, <2>2, Zenon DEF Healing
<1>4. /\ peer \in DOMAIN peer_list /\ peer_list[peer] \in Peers
      /\ here \subseteq 0 .. Old /\ message \in Nat
  <2>1. /\ peer \in DOMAIN peer_list /\ message \in 0 .. Batch
        /\ cache \in [Peers -> SUBSET (0 .. Old)]
    BY <1>0, Zenon DEF StepsTypeOK
  <2>2. peer_list[peer] \in Peers
    BY <2>1, ListFacts, Zenon
  <2>3. message \in Nat
    BY <2>1, ListFacts
  <2> QED BY <2>1, <2>2, <2>3, Zenon
<1>5. ASSUME Awaited \subseteq here, NextPeer PROVE StepsInv'
  <2>1. \A m \in Awaited : <<m, peer_list[peer]>> \in landed
    BY <1>0, <1>4, <1>5, Zenon DEF SeenLanded
  <2> QED BY <1>1, <1>2, <1>3, <1>5, <2>1, MovesOn, Zenon
<1>6. ASSUME AttemptFails PROVE StepsInv'
  BY <1>1, <1>2, <1>3, <1>6, Fails, Zenon
<1>7. CASE check_published_message_is_stored
  <2>0. step \in {"storeLast", "storeAll"}
    BY <1>7, Zenon DEF check_published_message_is_stored
  <2>1. PICK messages \in InOrder(here) :
          \/ StoreAgrees(messages) /\ NextPeer
          \/ peer' = 1 /\ UNCHANGED <<step, spc, collected, prompt>>
          \/ ~StoreAgrees(messages) /\ AttemptFails
    BY <1>7, Zenon DEF check_published_message_is_stored
  <2>2. CASE StoreAgrees(messages) /\ NextPeer
    <3>1. IsFiniteSet(here)
      <4>1. IsFiniteSet(0 .. Old)
        BY FS_Interval, ListFacts
      <4> QED BY <1>4, <4>1, FS_Subset, Zenon
    <3>2. messages # << >>
      BY <2>2, Zenon DEF StoreAgrees
    <3>3. /\ messages[Len(messages)] \in here
          /\ \A i \in 1 .. Len(messages) : messages[i] \in here
      BY <3>1, <3>2, RecordsStored, Zenon
    <3>4. CASE step = "storeLast"
      <4>1. step \notin {"collect", "storeAll", "storeHashes"}
        BY <3>4, Zenon
      <4> QED BY <1>5, <2>2, <3>3, <3>4, <4>1, Zenon DEF StoreAgrees, Awaited
    <3>5. CASE step = "storeAll"
      <4>1. step # "storeLast"
        BY <3>5, Zenon
      <4>2. Len(messages) >= message /\ \A i \in 1 .. message : messages[i] = i
        BY <2>2, <4>1, Zenon DEF StoreAgrees
      <4>3. Len(messages) \in Nat
        <5>1. Cardinality(here) \in Nat /\ messages \in [1 .. Cardinality(here) -> here]
          BY <3>1, FS_CardinalityType, Zenon DEF InOrder
        <5> HIDE DEF here
        <5>2. ASSUME NEW n \in Nat, messages \in [1 .. n -> here] PROVE Len(messages) \in Nat
          BY <5>2
        <5> QED BY <5>1, <5>2, Zenon
      <4>4. \A i \in 1 .. message : i \in 1 .. Len(messages)
        BY <1>4, <4>2, <4>3
      <4>5. \A i \in 1 .. message : i \in here
        BY <3>3, <4>2, <4>4, Zenon
      <4>6. Awaited = 1 .. message
        BY <3>5, Zenon DEF Awaited
      <4> QED BY <1>5, <2>2, <4>5, <4>6, Zenon
    <3> QED BY <2>0, <3>4, <3>5, Zenon
  <2>3. CASE peer' = 1 /\ UNCHANGED <<step, spc, collected, prompt>>
    <3>1. /\ step' = step /\ spc' = spc /\ collected' = collected /\ prompt' = prompt
          /\ message' = message /\ flying' = flying /\ landed' = landed /\ good' = good
          /\ (prompt' <=> prompt) /\ (lost' <=> lost)
      BY <1>1, <2>3
    <3>2. Awaited' = Awaited /\ Afloat' = Afloat /\ GoodCap' = GoodCap
      BY <3>1, SameMessage, Zenon DEF GoodCap
    <3>3. 1 \in DOMAIN peer_list /\ \A j \in DOMAIN peer_list : ~(j < 1)
      BY ListFacts
    <3>4. StepsTypeOK'
      BY <1>0, <1>1, <2>3, <3>1, <3>2, <3>3, Zenon
         DEF StepsTypeOK, Steps, Retried, Collecting, Old
    <3>5. spc' # "publish" /\ spc' # "passed"
      BY <1>1, <3>1, Zenon
    <3>6. StepAt'
      BY <1>0, <1>1, <3>1, <3>2, <3>5, Zenon DEF StepAt, Collecting
    <3>7. SeenLanded'
      BY <1>0, <1>1, <1>3, <2>3, <3>1, <3>2, <3>3, <3>5, Zenon DEF SeenLanded
    <3>8. NothingDropped' /\ Healing'
      BY <1>0, <1>3, <3>1, Zenon DEF NothingDropped, Healing
    <3> QED BY <3>4, <3>6, <3>7, <3>8, Zenon DEF StepsInv
  <2> QED BY <1>6, <2>1, <2>2, <2>3, Zenon
<1>8. CASE check_sent_message_is_stored
  BY <1>5, <1>6, <1>8, Zenon DEF check_sent_message_is_stored
<1>9. CASE wait_for_fleet_store_messages
  <2>1. step = "fleet" /\ ((here # {} /\ NextPeer) \/ AttemptFails)
    BY <1>9, Zenon DEF wait_for_fleet_store_messages
  <2>2. step \notin Collecting /\ step \notin {"collect", "storeAll", "storeHashes"}
    BY <2>1, Zenon DEF Collecting
  <2>3. message = 1 /\ Awaited = {message}
    BY <1>0, <1>1, <2>2, Zenon DEF StepAt, Awaited
  <2>4. 1 .. message = {message}
    BY <2>3
  <2>5. here \subseteq {message}
    BY <1>0, <1>4, <2>1, <2>4, Zenon DEF StepAt, Afloat
  <2>6. here # {} => Awaited \subseteq here
    BY <2>3, <2>5, Zenon
  <2> QED BY <1>5, <1>6, <2>1, <2>6, Zenon
<1> QED BY <1>7, <1>8, <1>9, Zenon

\* A message reaches a node.
LEMMA LandStep == ASSUME StepsInv, Land PROVE StepsInv'
<1>0. StepsTypeOK /\ StepAt /\ SeenLanded /\ NothingDropped /\ Healing
  BY Zenon DEF StepsInv
<1>t. /\ step \in Steps /\ message \in 0 .. Batch /\ peer \in DOMAIN peer_list
      /\ cache \in [Peers -> SUBSET (0 .. Old)]
      /\ flying \subseteq (1 .. Old) \X Peers /\ landed \subseteq (1 .. Batch) \X Peers
      /\ {prompt, lost} \subseteq BOOLEAN /\ good \in 0 .. GoodCap /\ collected \subseteq 1 .. Batch
  BY <1>0, Zenon DEF StepsTypeOK
<1>1. PICK f \in flying :
        /\ flying' \in {flying \ {f}} \cup (IF f[1] = Old THEN {flying} ELSE {})
        /\ landed' = IF f[1] \in Awaited THEN landed \cup {f} ELSE landed
        /\ cache' = [cache EXCEPT ![f[2]] = @ \cup {f[1]}]
  BY Zenon DEF Land
<1>u. /\ step' = step /\ spc' = spc /\ message' = message /\ peer' = peer
      /\ collected' = collected /\ prompt' = prompt /\ lost' = lost /\ good' = good
      /\ (prompt' <=> prompt) /\ (lost' <=> lost) /\ spc \in {"publish", "check"}
  BY Zenon DEF Land
<1>a. Awaited' = Awaited /\ Afloat' = Afloat /\ GoodCap' = GoodCap
  BY <1>u, SameMessage, Zenon DEF GoodCap
<1>f. f[1] \in 1 .. Old /\ f[2] \in Peers /\ f = <<f[1], f[2]>> /\ f[1] \in 0 .. Old
  BY <1>t, ListFacts
<1>c. /\ cache' \in [Peers -> SUBSET (0 .. Old)]
      /\ cache'[f[2]] = cache[f[2]] \cup {f[1]}
      /\ \A p \in Peers : p # f[2] => cache'[p] = cache[p]
  <2> HIDE DEF Land
  <2>1. cache[f[2]] \cup {f[1]} \in SUBSET (0 .. Old)
    BY <1>f, <1>t, Zenon
  <2> QED BY <1>1, <1>f, <1>t, <2>1, Zenon
<1>d. /\ \A p \in Peers : cache[p] \subseteq cache'[p]
      /\ \A p \in Peers : \A m \in cache'[p] : m \in cache[p] \/ <<m, p>> = f
  BY <1>c, <1>f, Zenon
<1>g. flying' \subseteq flying /\ \A g \in flying : g = f \/ g \in flying'
  BY <1>1, Zenon
<1>n. landed \subseteq landed' /\ landed' \subseteq landed \cup {f} /\ (f[1] \in Awaited => f \in landed')
  BY <1>1, Zenon
<1>1a. StepsTypeOK'
  <2>1. landed' \subseteq (1 .. Batch) \X Peers
    <3>1. f[1] \in Awaited => f[1] \in 1 .. Batch
      BY <1>f, <1>t, ListFacts DEF Awaited
    <3> QED BY <1>1, <1>f, <1>t, <3>1, Zenon
  <2> QED BY <1>a, <1>c, <1>g, <1>t, <1>u, <2>1, Zenon
             DEF StepsTypeOK, Steps, Retried, Collecting, Old
<1>2. StepAt'
  <2>1. message # 0 /\ f[1] \in Afloat
    BY <1>0, Zenon DEF StepAt
  <2>2. \A p \in Peers : cache'[p] \subseteq Afloat
    BY <1>0, <1>c, <2>1, Zenon DEF StepAt
  <2>3. \A g \in flying' : g[1] \in Afloat
    BY <1>0, <1>g, Zenon DEF StepAt
  <2>4. f[1] \in Awaited => f[1] <= message
    BY <1>f, <1>t, ListFacts DEF Awaited
  <2>5. \A g \in landed' : g[1] <= message
    BY <1>0, <1>1, <2>4, Zenon DEF StepAt
  <2> QED BY <1>0, <1>a, <1>u, <2>1, <2>2, <2>3, <2>5, Zenon DEF StepAt, Collecting
<1>3. SeenLanded'
  <2>1. \A p \in Peers : \A m \in cache'[p] : m \in Awaited => <<m, p>> \in landed'
    <3> SUFFICES ASSUME NEW p \in Peers, NEW m \in cache'[p], m \in Awaited
                 PROVE  <<m, p>> \in landed'
      BY Zenon
    <3>1. CASE m \in cache[p]
      BY <1>0, <1>n, <3>1, Zenon DEF SeenLanded
    <3>2. CASE <<m, p>> = f
      <4>1. f[1] = m
        BY <3>2, Zenon
      <4> QED BY <1>n, <3>2, <4>1, Zenon
    <3> QED BY <1>d, <3>1, <3>2, Zenon
  <2> QED BY <1>0, <1>a, <1>n, <1>u, <2>1, Zenon DEF SeenLanded
<1>4. NothingDropped'
  <2>1. ASSUME step \in {"sharding", "collect"}, ~lost, NEW j \in DOMAIN peer_list, NEW m \in Awaited,
               j >= peer, <<m, peer_list[j]>> \in landed'
        PROVE  m \in cache'[peer_list[j]] \/ (j = peer /\ m \in collected)
    <3>0. peer_list[j] \in Peers
      BY ListFacts, Zenon
    <3>1. CASE <<m, peer_list[j]>> \in landed
      BY <1>0, <1>d, <1>u, <2>1, <3>0, <3>1, Zenon DEF NothingDropped
    <3>2. CASE <<m, peer_list[j]>> = f
      <4>1. f[1] = m /\ f[2] = peer_list[j]
        BY <3>2, Zenon
      <4> QED BY <1>c, <4>1, Zenon
    <3> QED BY <1>n, <2>1, <3>1, <3>2, Zenon
  <2>2. spc' # "failed"
    BY <1>u, Zenon
  <2> QED BY <1>a, <1>u, <2>1, <2>2, Zenon DEF NothingDropped
<1>5. Healing'
  <2>1. prompt => spc = "check"
    BY <1>0, <1>u, Zenon DEF Healing
  <2>2. ASSUME prompt
        PROVE  /\ \A g \in flying' : g[1] = 1
               /\ ~(peer > 1)
               /\ \A i \in DOMAIN peer_list :
                    /\ ~(i < peer)
                    /\ i >= peer => <<1, peer_list[i]>> \in flying' \/ 1 \in cache'[peer_list[i]]
                    /\ i < good => cache'[peer_list[i]] \subseteq {Noise, 1}
    <3>1. /\ \A g \in flying : g[1] = 1
          /\ ~(peer > 1)
      BY <1>0, <2>1, <2>2, Zenon DEF Healing
    <3>2. \A i \in DOMAIN peer_list : ~(i < peer)
      BY <1>t, <3>1, ListFacts
    <3>3. ASSUME NEW i \in DOMAIN peer_list
          PROVE  /\ i >= peer => <<1, peer_list[i]>> \in flying' \/ 1 \in cache'[peer_list[i]]
                 /\ i < good => cache'[peer_list[i]] \subseteq {Noise, 1}
      <4>0. peer_list[i] \in Peers
        BY ListFacts, Zenon
      <4>1. /\ i >= peer => <<1, peer_list[i]>> \in flying \/ 1 \in cache[peer_list[i]]
            /\ i < good => cache[peer_list[i]] \subseteq {Noise, 1}
        BY <1>0, <2>1, <2>2, Zenon DEF Healing
      <4>2. <<1, peer_list[i]>> = f => f[1] = 1 /\ f[2] = peer_list[i]
        OBVIOUS
      <4>3. <<1, peer_list[i]>> \in flying => <<1, peer_list[i]>> \in flying' \/ 1 \in cache'[peer_list[i]]
        BY <1>c, <1>g, <4>2, Zenon
      <4>4. f[1] = 1
        BY <3>1, Zenon
      <4> QED BY <1>c, <1>d, <4>0, <4>1, <4>3, <4>4, Zenon
    <3> QED BY <1>g, <3>1, <3>2, <3>3, Zenon
  <2>3. /\ prompt => step \in Retried
        /\ ~prompt => good = 0
        /\ good <= Len(peer_list) + 1
    BY <1>0, Zenon DEF Healing
  <2>4. Noise' = Noise /\ Retried' = Retried
    BY Zenon DEF Noise, Retried
  <2>5. prompt => spc' # "publish"
    BY <1>u, <2>1, Zenon
  <2> QED BY <1>u, <2>2, <2>3, <2>4, <2>5, Zenon DEF Healing
<1> QED BY <1>1a, <1>2, <1>3, <1>4, <1>5, Zenon DEF StepsInv

\* A message is lost on its way.
LEMMA LoseStep == ASSUME StepsInv, Lose PROVE StepsInv'
<1>0. StepsTypeOK /\ StepAt /\ SeenLanded /\ NothingDropped /\ Healing
  BY Zenon DEF StepsInv
<1>u. /\ step' = step /\ spc' = spc /\ message' = message /\ peer' = peer /\ cache' = cache
      /\ collected' = collected /\ prompt' = prompt /\ lost' = lost /\ good' = good
      /\ landed' = landed /\ (prompt' <=> prompt) /\ (lost' <=> lost) /\ ~prompt
      /\ flying' \subseteq flying
  BY Zenon DEF Lose
<1>a. Awaited' = Awaited /\ Afloat' = Afloat /\ GoodCap' = GoodCap
  BY <1>u, SameMessage, Zenon DEF GoodCap
<1>1. StepsTypeOK'
  BY <1>0, <1>a, <1>u, Zenon DEF StepsTypeOK, Steps, Retried, Collecting, Old
<1>2. StepAt'
  BY <1>0, <1>a, <1>u, Zenon DEF StepAt, Collecting
<1>3. SeenLanded'
  BY <1>0, <1>a, <1>u, Zenon DEF SeenLanded
<1>4. NothingDropped'
  BY <1>0, <1>a, <1>u, Zenon DEF NothingDropped
<1>5. Healing'
  BY <1>0, <1>u, Zenon DEF Healing
<1> QED BY <1>1, <1>2, <1>3, <1>4, <1>5, Zenon DEF StepsInv

\* A message of another participant is none that the step awaits.
LEMMA OthersStep == ASSUME StepsInv, OthersPublish PROVE StepsInv'
<1>0. StepsTypeOK /\ StepAt /\ SeenLanded /\ NothingDropped /\ Healing
  BY Zenon DEF StepsInv
<1>u. /\ step' = step /\ spc' = spc /\ message' = message /\ peer' = peer /\ flying' = flying
      /\ collected' = collected /\ prompt' = prompt /\ lost' = lost /\ good' = good
      /\ landed' = landed /\ (prompt' <=> prompt) /\ (lost' <=> lost)
      /\ spc = "check" /\ step \in {"relay", "lightpush", "filter"}
  BY Zenon DEF OthersPublish
<1>s. step \notin Collecting \cup {"sharding", "fleet", "collect", "storeAll", "storeHashes"}
  BY <1>u, Zenon DEF Collecting
<1>p. PICK p \in Peers : cache' = [cache EXCEPT ![p] = @ \cup {Noise}]
  BY Zenon DEF OthersPublish
<1>c. /\ cache' \in [Peers -> SUBSET (0 .. Old)]
      /\ \A q \in Peers : cache[q] \subseteq cache'[q] /\ cache'[q] \subseteq cache[q] \cup {Noise}
  <2>1. cache \in [Peers -> SUBSET (0 .. Old)]
    BY <1>0, Zenon DEF StepsTypeOK
  <2>2. Noise \in 0 .. Old
    BY ListFacts
  <2>3. cache[p] \cup {Noise} \in SUBSET (0 .. Old)
    BY <2>1, <2>2, Zenon
  <2>4. /\ cache'[p] = cache[p] \cup {Noise}
        /\ \A q \in Peers : q # p => cache'[q] = cache[q]
    BY <1>p, <2>1, Zenon
  <2> QED BY <1>p, <2>1, <2>3, <2>4, Zenon
<1>a. Awaited' = Awaited /\ Afloat' = Afloat /\ GoodCap' = GoodCap
  BY <1>u, SameMessage, Zenon DEF GoodCap
<1>m. message = 1 /\ Awaited = {message} /\ Noise \in Afloat /\ Noise \notin Awaited
  <2>1. message = 1 /\ Awaited = {message} /\ Noise \in Afloat
    BY <1>0, <1>s, <1>u, Zenon DEF StepAt, Awaited, Afloat
  <2>2. Noise # 1
    BY DEF Noise
  <2> QED BY <2>1, <2>2, Zenon
<1>1. StepsTypeOK'
  BY <1>0, <1>a, <1>c, <1>u, Zenon DEF StepsTypeOK, Steps, Retried, Collecting, Old
<1>2. StepAt'
  <2>1. message # 0 /\ spc # "publish"
    BY <1>m, <1>u
  <2> QED BY <1>0, <1>a, <1>c, <1>m, <1>s, <1>u, <2>1, Zenon DEF StepAt, Collecting
<1>3. SeenLanded'
  BY <1>0, <1>a, <1>c, <1>m, <1>u, Zenon DEF SeenLanded
<1>4. NothingDropped'
  BY <1>s, <1>u, Zenon DEF NothingDropped
<1>5. Healing'
  <2>1. \A i \in DOMAIN peer_list : /\ cache[peer_list[i]] \subseteq cache'[peer_list[i]]
                                    /\ cache'[peer_list[i]] \subseteq cache[peer_list[i]] \cup {Noise}
    BY <1>c, ListFacts, Zenon
  <2>2. Noise' = Noise /\ Retried' = Retried
    BY Zenon DEF Noise, Retried
  <2>3. spc' # "publish"
    BY <1>u, Zenon
  <2>4. ASSUME prompt, NEW i \in DOMAIN peer_list
        PROVE  /\ i < peer => cache'[peer_list[i]] \subseteq {Noise}
               /\ i >= peer => <<1, peer_list[i]>> \in flying \/ 1 \in cache'[peer_list[i]]
               /\ i < good => cache'[peer_list[i]] \subseteq {Noise, 1}
    BY <1>0, <1>u, <2>1, <2>4, Zenon DEF Healing
  <2> QED BY <1>0, <1>u, <2>2, <2>3, <2>4, Zenon DEF Healing
<1> QED BY <1>1, <1>2, <1>3, <1>4, <1>5, Zenon DEF StepsInv

\* The network settles between two attempts.
LEMMA SettleStep == ASSUME StepsInv, Settle PROVE StepsInv'
<1>0. StepsTypeOK /\ StepAt /\ SeenLanded /\ NothingDropped /\ Healing
  BY Zenon DEF StepsInv
<1>u. /\ step' = step /\ spc' = spc /\ message' = message /\ peer' = peer /\ cache' = cache
      /\ collected' = collected /\ lost' = lost /\ good' = good /\ flying' = flying
      /\ landed' = landed /\ (lost' <=> lost) /\ ~prompt /\ prompt' = TRUE /\ prompt'
      /\ step \in Retried /\ spc = "publish" /\ flying = {}
  BY Zenon DEF Settle
<1>a. Awaited' = Awaited /\ Afloat' = Afloat /\ GoodCap' = GoodCap
  BY <1>u, SameMessage, Zenon DEF GoodCap
<1>1. StepsTypeOK'
  <2>1. {prompt', lost'} \subseteq BOOLEAN
    BY <1>0, <1>u, Zenon DEF StepsTypeOK
  <2> QED BY <1>0, <1>a, <1>u, <2>1, Zenon
             DEF StepsTypeOK, Steps, Retried, Collecting, Old
<1>2. StepAt'
  BY <1>0, <1>a, <1>u, Zenon DEF StepAt, Collecting
<1>3. SeenLanded'
  BY <1>0, <1>a, <1>u, Zenon DEF SeenLanded
<1>4. NothingDropped'
  BY <1>0, <1>a, <1>u, Zenon DEF NothingDropped
<1>5. Healing'
  <2>1. good = 0
    BY <1>0, <1>u, Zenon DEF Healing
  <2>2. good <= Len(peer_list) /\ good <= Len(peer_list) + 1 /\ \A i \in DOMAIN peer_list : ~(i <= good)
    BY <2>1, ListFacts
  <2>3. spc' # "check" /\ Retried' = Retried
    BY <1>u, Zenon DEF Retried
  <2> QED BY <1>u, <2>2, <2>3, Zenon DEF Healing
<1> QED BY <1>1, <1>2, <1>3, <1>4, <1>5, Zenon DEF StepsInv

\* The steps that publish all their messages first publish the next one.
LEMMA SendNextStep == ASSUME StepsInv, Send, step \in Collecting PROVE StepsInv'
<1>0. StepsTypeOK /\ StepAt /\ SeenLanded /\ NothingDropped /\ Healing
  BY Zenon DEF StepsInv
<1>t. /\ step \in Steps /\ message \in 0 .. Batch /\ peer \in DOMAIN peer_list
      /\ cache \in [Peers -> SUBSET (0 .. Old)]
      /\ flying \subseteq (1 .. Old) \X Peers /\ landed \subseteq (1 .. Batch) \X Peers
      /\ prompt \in BOOLEAN /\ lost \in BOOLEAN /\ good \in 0 .. GoodCap /\ collected \subseteq 1 .. Batch
  BY <1>0, Zenon DEF StepsTypeOK
<1>r. ~prompt /\ step \notin Retried
  <2>1. step \notin Retried
    BY Zenon DEF Retried, Collecting
  <2> QED BY <1>0, <2>1, Zenon DEF Healing
<1> DEFINE following == message + 1
           sent == {following} \X Peers
<1>1. spc = "publish" /\ message < Batch /\ following \in 1 .. Batch /\ following \in 1 .. Old /\ following # 0
  <2>1. spc = "publish" /\ message < Batch
    BY <1>0, Zenon DEF StepAt, Send
  <2> QED BY <1>t, <2>1, ListFacts
<1>n. NewMessage = following /\ \A m : Aged(m) = m
  BY Zenon DEF NewMessage, Aged
<1>b. {<<Aged(f[1]), f[2]>> : f \in flying} = flying
  <2>1. \A f \in flying : f = <<f[1], f[2]>>
    BY <1>t
  <2>2. \A f \in flying : <<Aged(f[1]), f[2]>> = f
    BY <1>n, <2>1, Zenon
  <2> QED BY <2>2, Zenon
<1>2. /\ message' = following /\ landed' = landed /\ good' = good /\ step' = step
      /\ prompt' = prompt /\ ~prompt'
      /\ flying' \subseteq flying \cup sent
  BY <1>b, <1>n, <1>r DEF Send, AttemptFails
<1>3. cache' = cache
  <2>1. cache' = [p \in Peers |-> {Aged(m) : m \in cache[p]}]
    BY Zenon DEF Send
  <2>2. \A p \in Peers : {Aged(m) : m \in cache[p]} = cache[p]
    BY <1>n
  <2> QED BY <1>t, <2>1, <2>2, Zenon
<1>4. \/ /\ spc' = IF following < Batch THEN "publish" ELSE "check"
         /\ peer' = 1 /\ collected' = {} /\ lost' = lost
      \/ spc' = "failed" /\ lost' = TRUE /\ peer' = peer /\ collected' = collected
  BY <1>2, <1>r, Zenon DEF Send, AttemptFails
<1>5. /\ spc' \in {"publish", "check", "failed"}
      /\ spc' = "publish" => following < Batch /\ peer' = 1 /\ collected' = {}
      /\ spc' = "check" => following = Batch /\ peer' = 1 /\ collected' = {}
      /\ spc' = "failed" => lost'
      /\ collected' \in {{}, collected}
      /\ peer' \in DOMAIN peer_list /\ lost' \in BOOLEAN
      /\ ~lost' => ~lost
  <2>1. 1 \in DOMAIN peer_list
    BY ListFacts
  <2>2. CASE spc' = "failed" /\ lost' = TRUE /\ peer' = peer /\ collected' = collected
    BY <1>t, <2>2, Zenon
  <2>3. CASE /\ spc' = IF following < Batch THEN "publish" ELSE "check"
             /\ peer' = 1 /\ collected' = {} /\ lost' = lost
    <3>1. following < Batch \/ following = Batch
      BY <1>1, ListFacts
    <3> HIDE DEF following
    <3> QED BY <1>t, <2>1, <2>3, <3>1, Zenon
  <2> QED BY <1>4, <2>2, <2>3, Zenon
<1>a. /\ GoodCap' = GoodCap /\ Afloat = 1 .. message /\ Afloat' = 1 .. following
      /\ Afloat \subseteq Afloat' /\ following \in Afloat'
  <2>1. GoodCap' = GoodCap /\ Afloat = 1 .. message /\ Afloat' = 1 .. following
    BY <1>2, Zenon DEF GoodCap, Afloat, Collecting
  <2>2. 1 .. message \subseteq 1 .. following /\ following \in 1 .. following
    BY <1>t, ListFacts
  <2> QED BY <2>1, <2>2, Zenon
<1>w. \A m \in 1 .. message : m \in Awaited' => m \in Awaited
  <2>1. CASE step \in {"collect", "storeAll", "storeHashes"}
    BY <2>1, Zenon DEF Awaited
  <2>2. CASE step \notin {"collect", "storeAll", "storeHashes"}
    <3>1. Awaited' = {following}
      BY <1>2, <2>2, Zenon DEF Awaited
    <3>2. following \notin 1 .. message
      BY <1>t, ListFacts
    <3> QED BY <3>1, <3>2, Zenon
  <2> QED BY <2>1, <2>2, Zenon
<1> HIDE DEF following
<1>6. StepsTypeOK'
  <2>1. following \in 0 .. Batch
    BY <1>1
  <2>2. sent \subseteq (1 .. Old) \X Peers
    BY <1>1, Zenon
  <2>3. {prompt', lost'} \subseteq BOOLEAN
    BY <1>2, <1>5, <1>t, Zenon
  <2>4. spc' \in {"publish", "check", "passed", "failed"} /\ collected' \subseteq 1 .. Batch
    BY <1>5, <1>t, Zenon
  <2> QED BY <1>2, <1>3, <1>5, <1>a, <1>t, <2>1, <2>2, <2>3, <2>4, Zenon
         DEF StepsTypeOK, Steps, Retried, Collecting, Old
<1>7. StepAt'
  <2>1. \A f \in flying' : f[1] \in Afloat'
    <3>1. \A f \in sent : f[1] = following
      BY Zenon
    <3> QED BY <1>0, <1>2, <1>a, <3>1, Zenon DEF StepAt
  <2>2. \A f \in landed' : f[1] <= message'
    <3>1. \A f \in landed : f[1] \in Nat /\ f[1] <= message
      BY <1>0, <1>t DEF StepAt
    <3>2. \A k \in Nat : k <= message => k <= following
      BY <1>t, ListFacts DEF following
    <3> QED BY <1>2, <3>1, <3>2, Zenon
  <2>3. (\A p \in Peers : cache'[p] \subseteq Afloat') /\ (step \in {"sharding", "collect"} => collected' \subseteq Afloat')
    BY <1>0, <1>3, <1>5, <1>a, Zenon DEF StepAt
  <2>4. spc' # "passed" /\ step \notin {"sharding", "filter"}
    BY <1>5, Zenon DEF Collecting
  <2> QED BY <1>1, <1>2, <1>5, <2>1, <2>2, <2>3, <2>4, Zenon DEF StepAt, Collecting
<1>8. SeenLanded'
  <2>1. \A p \in Peers : \A m \in cache'[p] : m \in Awaited' => <<m, p>> \in landed'
    BY <1>0, <1>2, <1>3, <1>a, <1>w, Zenon DEF SeenLanded, StepAt
  <2>2. step \in {"sharding", "collect"} => collected' = {}
    BY <1>0, <1>1, <1>5, Zenon DEF StepAt
  <2>3. spc' # "passed"
    BY <1>5, Zenon
  <2>4. \A j \in DOMAIN peer_list : ~(j < 1)
    BY ListFacts
  <2> QED BY <1>2, <1>5, <2>1, <2>2, <2>3, <2>4, Zenon DEF SeenLanded
<1>9. NothingDropped'
  <2>1. ASSUME step \in {"sharding", "collect"}, ~lost', NEW j \in DOMAIN peer_list, NEW m \in Awaited',
               <<m, peer_list[j]>> \in landed
        PROVE  m \in cache[peer_list[j]]
    <3>1. m \in 1 .. message
      <4>1. m \in 1 .. Batch
        BY <1>t, <2>1, Zenon
      <4>2. <<m, peer_list[j]>>[1] <= message
        BY <1>0, <2>1, Zenon DEF StepAt
      <4> QED BY <1>t, <4>1, <4>2
    <3>2. peer = 1 /\ collected = {}
      BY <1>0, <1>1, <2>1, Zenon DEF StepAt
    <3>3. j >= peer
      BY <3>2, ListFacts
    <3> QED BY <1>0, <1>1, <1>5, <1>w, <2>1, <3>1, <3>2, <3>3, Zenon DEF NothingDropped
  <2> QED BY <1>2, <1>3, <1>5, <2>1, Zenon DEF NothingDropped
<1>10. Healing'
  BY <1>0, <1>2, <1>r, Zenon DEF Healing
<1> QED BY <1>6, <1>7, <1>8, <1>9, <1>10, Zenon DEF StepsInv

\* The other steps publish a new message in the place of the last: what is
\* left of that one is now of an earlier attempt.
LEMMA SendNewStep == ASSUME StepsInv, Send, step \notin Collecting PROVE StepsInv'
<1>0. StepsTypeOK /\ StepAt /\ SeenLanded /\ NothingDropped /\ Healing
  BY Zenon DEF StepsInv
<1>t. /\ step \in Steps /\ message \in 0 .. Batch /\ peer \in DOMAIN peer_list
      /\ cache \in [Peers -> SUBSET (0 .. Old)]
      /\ flying \subseteq (1 .. Old) \X Peers
      /\ prompt \in BOOLEAN /\ lost \in BOOLEAN /\ good \in 0 .. GoodCap /\ collected \subseteq 1 .. Batch
  BY <1>0, Zenon DEF StepsTypeOK
<1> DEFINE before == {<<Aged(f[1]), f[2]>> : f \in flying}
           sent == {1} \X Peers
<1>1. /\ spc = "publish" /\ step # "fleet" /\ message' = 1 /\ landed' = {}
      /\ cache' = [p \in Peers |-> {Aged(m) : m \in cache[p]}]
      /\ good' = IF prompt /\ good < GoodCap THEN good + 1 ELSE good
  BY Zenon DEF Send, NewMessage
<1>2. \/ /\ flying' = before \cup sent /\ spc' = "check" /\ peer' = 1 /\ collected' = {}
         /\ lost' = lost
      \/ /\ ~prompt /\ lost' = (lost \/ step \notin Retried)
         /\ flying' \in {before, before \cup sent}
         /\ spc' \in (IF step \in Retried THEN {"publish", "failed"} ELSE {"failed"})
         /\ peer' = peer /\ collected' = collected
  BY <1>1, Zenon DEF Send, AttemptFails, NewMessage
<1>u. step' = step /\ prompt' = prompt /\ (prompt' <=> prompt)
  BY DEF Send, AttemptFails
<1>o. Old \in Nat /\ Old # 1 /\ Old # 0 /\ 1 \in 1 .. Old /\ 1 \in 1 .. Batch /\ Noise = 0
  BY ListFacts
<1>n. \A m : Aged(m) = IF m = 1 THEN Old ELSE m
  BY Zenon DEF Aged
<1>c. \A p \in Peers : /\ \A m \in cache'[p] : m # 1 /\ (m \in cache[p] \/ (m = Old /\ 1 \in cache[p]))
                       /\ cache[p] = {} => cache'[p] = {}
                       /\ cache[p] \subseteq {Noise} => cache'[p] \subseteq {Noise}
  <2> SUFFICES ASSUME NEW p \in Peers
               PROVE  /\ \A m \in cache'[p] : m # 1 /\ (m \in cache[p] \/ (m = Old /\ 1 \in cache[p]))
                      /\ cache[p] = {} => cache'[p] = {}
                      /\ cache[p] \subseteq {Noise} => cache'[p] \subseteq {Noise}
    BY Zenon
  <2>1. cache'[p] = {Aged(m) : m \in cache[p]}
    BY <1>1, Zenon
  <2>2. \A x \in cache'[p] : \E m \in cache[p] : x = Aged(m)
    BY <2>1, Zenon
  <2>3. \A m \in cache'[p] : m # 1 /\ (m \in cache[p] \/ (m = Old /\ 1 \in cache[p]))
    <3> SUFFICES ASSUME NEW x \in cache'[p]
                 PROVE  x # 1 /\ (x \in cache[p] \/ (x = Old /\ 1 \in cache[p]))
      BY Zenon
    <3>1. PICK m \in cache[p] : x = Aged(m)
      BY <2>2, Zenon
    <3>2. CASE m = 1
      BY <1>n, <1>o, <3>1, <3>2, Zenon
    <3>3. CASE m # 1
      BY <1>n, <3>1, <3>3, Zenon
    <3> QED BY <3>2, <3>3, Zenon
  <2>4. Noise # 1
    BY <1>o
  <2> QED BY <2>3, <2>4, Zenon
<1>b. \A g \in before :
        g \in (1 .. Old) \X Peers /\ (g[1] = Old \/ \E f \in flying : g[1] = f[1])
  <2> SUFFICES ASSUME NEW g \in before
               PROVE  g \in (1 .. Old) \X Peers /\ (g[1] = Old \/ \E f \in flying : g[1] = f[1])
    BY Zenon
  <2>1. PICK f \in flying : g = <<Aged(f[1]), f[2]>>
    BY Zenon
  <2>2. f[1] \in 1 .. Old /\ f[2] \in Peers
    BY <1>t, Zenon
  <2>3. Old \in 1 .. Old
    BY <1>o
  <2>4. Aged(f[1]) \in {Old, f[1]}
    BY <1>n, Zenon
  <2>5. g[1] = Aged(f[1])
    BY <2>1, Zenon
  <2> QED BY <2>1, <2>2, <2>3, <2>4, <2>5, Zenon
<1>m. step \in {"sharding", "filter"} => flying = {} /\ before = {} /\ \A p \in Peers : cache'[p] = {}
  <2>1. flying = {} => before = {}
    BY Zenon
  <2> HIDE DEF before
  <2> QED BY <1>0, <1>1, <1>c, <2>1, Zenon DEF StepAt
<1> HIDE DEF before, sent
<1>3. /\ spc' \in {"publish", "check", "failed"}
      /\ spc' = "publish" => step \in Retried
      /\ spc' = "check" => peer' = 1 /\ collected' = {}
      /\ collected' \in {{}, collected} /\ peer' \in DOMAIN peer_list
      /\ flying' \subseteq before \cup sent
      /\ prompt => flying' = before \cup sent /\ spc' = "check"
      /\ lost' \in BOOLEAN
      /\ spc' = "failed" /\ step \notin Retried => lost'
  <2>1. 1 \in DOMAIN peer_list
    BY ListFacts
  <2>2. CASE /\ flying' = before \cup sent /\ spc' = "check" /\ peer' = 1 /\ collected' = {}
             /\ lost' = lost
    BY <1>t, <2>1, <2>2, Zenon
  <2>3. CASE /\ ~prompt /\ lost' = (lost \/ step \notin Retried)
             /\ flying' \in {before, before \cup sent}
             /\ spc' \in (IF step \in Retried THEN {"publish", "failed"} ELSE {"failed"})
             /\ peer' = peer /\ collected' = collected
    <3>1. lost' \in BOOLEAN /\ (step \notin Retried => lost')
      BY <1>t, <2>3, Zenon
    <3>2. /\ spc' \in {"publish", "failed"}
          /\ spc' = "publish" => step \in Retried
      BY <2>3, Zenon
    <3>3. spc' # "check"
      BY <3>2, Zenon
    <3> QED BY <1>t, <2>3, <3>1, <3>2, <3>3, Zenon
  <2> QED BY <1>2, <2>2, <2>3, Zenon
<1>d. spc' # "passed"
  BY <1>3, Zenon
<1>r. spc' = "publish" =>
        step \notin Collecting /\ step \notin {"sharding", "filter", "collect", "fleet"}
  BY <1>3, RetriedOnly, Zenon
<1>s. /\ \A g \in sent : g[1] = 1 /\ g \in (1 .. Old) \X Peers
      /\ \A p \in Peers : <<1, p>> \in sent
  BY <1>o, Zenon DEF sent
<1>a. /\ GoodCap' = GoodCap /\ Awaited' = {1} /\ 1 \in Afloat'
      /\ step \notin {"sharding", "filter"} => Afloat' = {Noise, 1, Old} /\ Afloat = {Noise, 1, Old}
      /\ \A p \in Peers : cache'[p] \subseteq Afloat'
  <2>1. step \notin {"collect", "storeAll", "storeHashes"}
    BY Zenon DEF Collecting
  <2>2. GoodCap' = GoodCap /\ Awaited' = {1}
    BY <1>1, <1>u, <2>1, Zenon DEF GoodCap, Awaited
  <2>3. CASE step = "sharding"
    <3>1. Afloat' = 1 .. 1
      BY <1>1, <1>u, <2>3, Zenon DEF Afloat
    <3>2. 1 \in 1 .. 1
      OBVIOUS
    <3> QED BY <1>m, <2>2, <2>3, <3>1, <3>2, Zenon
  <2>4. CASE step # "sharding"
    <3>1. Afloat' = {Noise, 1, Old} /\ Afloat = {Noise, 1, Old}
      BY <1>1, <1>u, <2>4, Zenon DEF Afloat, Collecting, Noise, Old
    <3>2. \A p \in Peers : cache[p] \subseteq Afloat
      BY <1>0, Zenon DEF StepAt
    <3>3. \A p \in Peers : cache'[p] \subseteq Afloat'
      BY <1>c, <3>1, <3>2, Zenon
    <3> QED BY <2>2, <3>1, <3>3, Zenon
  <2> QED BY <2>3, <2>4, Zenon
<1>f. \A g \in flying' : g[1] \in Afloat' /\ g \in (1 .. Old) \X Peers
  <2> SUFFICES ASSUME NEW g \in flying' PROVE g[1] \in Afloat' /\ g \in (1 .. Old) \X Peers
    BY Zenon
  <2>1. CASE g \in sent
    BY <1>a, <1>s, <2>1, Zenon
  <2>2. CASE g \in before
    <3>1. step \notin {"sharding", "filter"}
      BY <1>m, <2>2, Zenon
    <3>2. g[1] \in {Noise, 1, Old}
      BY <1>0, <1>a, <1>b, <2>2, <3>1, Zenon DEF StepAt
    <3> QED BY <1>a, <1>b, <2>2, <3>1, <3>2, Zenon
  <2> QED BY <1>3, <2>1, <2>2, Zenon
<1>4. StepsTypeOK'
  <2>1. /\ message' \in 0 .. Batch /\ landed' \subseteq (1 .. Batch) \X Peers
        /\ good' \in 0 .. GoodCap /\ {prompt', lost'} \subseteq BOOLEAN
    <3>1. message' \in 0 .. Batch /\ landed' \subseteq (1 .. Batch) \X Peers
      BY <1>1, <1>o
    <3>2. GoodCap \in Nat
      BY ListFacts DEF GoodCap
    <3>3. good' \in 0 .. GoodCap
      BY <1>1, <1>t, <3>2
    <3>4. {prompt', lost'} \subseteq BOOLEAN
      BY <1>3, <1>t, <1>u, Zenon
    <3> QED BY <3>1, <3>3, <3>4, Zenon
  <2>2. cache' \in [Peers -> SUBSET (0 .. Old)]
    <3>1. \A p \in Peers : cache'[p] \subseteq 0 .. Old
      <4>1. Old \in 0 .. Old
        BY <1>o
      <4> QED BY <1>c, <1>t, <4>1, Zenon
    <3>2. cache' = [p \in Peers |-> cache'[p]]
      BY <1>1, Zenon
    <3> QED BY <3>1, <3>2, Zenon
  <2>3. flying' \subseteq (1 .. Old) \X Peers /\ collected' \subseteq 1 .. Batch
    BY <1>3, <1>f, <1>t, Zenon
  <2> QED BY <1>3, <1>a, <1>t, <1>u, <2>1, <2>2, <2>3, Zenon
         DEF StepsTypeOK, Steps, Retried, Collecting, Old
<1>5. StepAt'
  <2>1. message' # 0 /\ \A f \in landed' : f[1] <= message'
    BY <1>1
  <2>2. step \in {"sharding", "collect"} => collected' = {}
    BY <1>0, <1>1, <1>3, Zenon DEF StepAt
  <2>3. spc' = "publish" => step \notin {"sharding", "collect", "fleet"} /\ step \notin {"sharding", "filter"}
    BY <1>r, Zenon
  <2> QED BY <1>1, <1>a, <1>f, <1>u, <2>1, <2>2, <2>3, Zenon DEF StepAt, Collecting
<1>6. SeenLanded'
  <2>1. \A p \in Peers : \A m \in cache'[p] : m \notin Awaited'
    BY <1>a, <1>c, Zenon
  <2>2. step \in {"sharding", "collect"} => collected' = {}
    BY <1>0, <1>1, <1>3, Zenon DEF StepAt
  <2>3. \A j \in DOMAIN peer_list : ~(j < 1)
    BY ListFacts
  <2> QED BY <1>3, <1>d, <1>u, <2>1, <2>2, <2>3, Zenon DEF SeenLanded
<1>7. NothingDropped'
  <2>1. step \in {"sharding", "collect"} => step \notin Retried
    BY Zenon DEF Retried
  <2> QED BY <1>1, <1>3, <1>u, <2>1, Zenon DEF NothingDropped
<1>8. Healing'
  <2>0. /\ prompt => step \in Retried
        /\ ~prompt => good = 0
    BY <1>0, Zenon DEF Healing
  <2>r. Noise' = Noise /\ Retried' = Retried
    BY Zenon DEF Noise, Retried
  <2>1. CASE ~prompt
    <3>1. good' = 0 /\ good' <= Len(peer_list) + 1
      BY <1>1, <2>0, <2>1, ListFacts
    <3> QED BY <1>u, <2>1, <3>1, Zenon DEF Healing
  <2>2. CASE prompt
    <3>1. /\ flying = {} /\ good <= Len(peer_list)
          /\ \A i \in DOMAIN peer_list : i <= good => cache[peer_list[i]] \subseteq {Noise}
      BY <1>0, <1>1, <2>2, Zenon DEF Healing
    <3>2. good \in Nat /\ good' = good + 1 /\ good' <= Len(peer_list) + 1
      BY <1>1, <1>t, <2>2, <3>1, ListFacts DEF GoodCap
    <3>3. flying' = sent /\ spc' = "check" /\ peer' = 1
      <4>1. before = {}
        BY <3>1, Zenon DEF before
      <4> QED BY <1>3, <2>2, <4>1, Zenon
    <3>4. ASSUME NEW i \in DOMAIN peer_list
          PROVE  /\ ~(i < 1) /\ <<1, peer_list[i]>> \in flying'
                 /\ i < good' => cache'[peer_list[i]] \subseteq {Noise, 1}
      <4>1. ~(i < 1) /\ (i < good' => i <= good)
        BY <3>2, ListFacts
      <4>2. peer_list[i] \in Peers
        BY ListFacts, Zenon
      <4>3. <<1, peer_list[i]>> \in flying'
        BY <1>s, <3>3, <4>2, Zenon
      <4>4. i <= good => cache'[peer_list[i]] \subseteq {Noise}
        BY <1>c, <3>1, <4>2, Zenon
      <4> QED BY <4>1, <4>3, <4>4, Zenon
    <3>5. ~(peer' > 1) /\ spc' # "publish"
      BY <3>3
    <3>6. \A f \in flying' : f[1] = 1
      BY <1>s, <3>3, Zenon
    <3> QED BY <1>u, <2>0, <2>2, <2>r, <3>2, <3>3, <3>4, <3>5, <3>6, Zenon DEF Healing
  <2> QED BY <2>1, <2>2, Zenon
<1> QED BY <1>4, <1>5, <1>6, <1>7, <1>8, Zenon DEF StepsInv

\* A push through the fleet: the one message is published once.
LEMMA FleetStep == ASSUME StepsInv, light_push_through_fleet PROVE StepsInv'
<1>0. StepsTypeOK /\ StepAt /\ SeenLanded /\ NothingDropped /\ Healing
  BY Zenon DEF StepsInv
<1>t. /\ message \in 0 .. Batch /\ flying \subseteq (1 .. Old) \X Peers
  BY <1>0, Zenon DEF StepsTypeOK
<1>u. /\ step' = step /\ peer' = peer /\ cache' = cache /\ collected' = collected
      /\ prompt' = prompt /\ landed' = landed /\ lost' = lost /\ good' = good
      /\ (prompt' <=> prompt) /\ (lost' <=> lost)
      /\ step = "fleet" /\ spc = "publish"
  BY Zenon DEF light_push_through_fleet
<1>s. /\ step \notin Retried /\ step \notin Collecting
      /\ step \notin {"collect", "storeAll", "storeHashes"}
      /\ step \notin {"sharding", "collect"} /\ step \notin {"sharding", "filter"}
  BY <1>u, Zenon DEF Retried, Collecting
<1>p. ~prompt /\ peer = 1
  BY <1>0, <1>s, <1>u, Zenon DEF Healing, StepAt
<1> DEFINE sent == {1} \X Peers
<1>1. /\ message' \in {1, message} /\ message \in {0, 1}
      /\ flying' \subseteq flying \cup sent
      /\ message' = message /\ message' = 0 => flying' = flying
      /\ spc' \in {"publish", "check", "failed"}
      /\ spc' = "check" => message' = 1
  <2>1. message \in {0, 1}
    BY <1>0, <1>s, Zenon DEF StepAt
  <2> QED BY <2>1 DEF light_push_through_fleet
<1>2. spc' # "passed"
  BY <1>1, Zenon
<1>a. GoodCap' = GoodCap /\ Awaited' = {message'} /\ Awaited = {message}
  BY <1>s, <1>u, Zenon DEF GoodCap, Awaited
<1>f. Afloat' = 1 .. message' /\ Afloat = 1 .. message /\ Afloat \subseteq Afloat'
  <2>1. Afloat' = 1 .. message' /\ Afloat = 1 .. message
    BY <1>u, Zenon DEF Afloat, Collecting
  <2>2. 1 .. message \subseteq 1 .. message'
    BY <1>1
  <2> QED BY <2>1, <2>2, Zenon
<1>3. StepsTypeOK'
  <2>1. message' \in 0 .. Batch /\ sent \subseteq (1 .. Old) \X Peers
    BY <1>1, ListFacts
  <2>2. spc' \in {"publish", "check", "passed", "failed"}
    BY <1>1, Zenon
  <2> HIDE DEF sent
  <2> QED BY <1>0, <1>1, <1>a, <1>u, <2>1, <2>2, Zenon
             DEF StepsTypeOK, Steps, Retried, Collecting, Old
<1>4. StepAt'
  <2>1. \A f \in flying' : f[1] \in Afloat'
    <3>1. \A f \in sent : f[1] = 1
      BY Zenon
    <3>2. message' = 1 => 1 \in Afloat'
      BY <1>f
    <3>3. message' # 1 => flying' = flying
      BY <1>1, Zenon
    <3> HIDE DEF sent
    <3> QED BY <1>0, <1>1, <1>f, <3>1, <3>2, <3>3, Zenon DEF StepAt
  <2>2. \A f \in landed' : f[1] <= message'
    <3>1. \A f \in landed : f[1] \in Nat /\ f[1] <= message
      BY <1>0 DEF StepAt, StepsTypeOK
    <3>2. \A k \in Nat : k <= message => k <= message'
      BY <1>1
    <3> QED BY <1>u, <3>1, <3>2, Zenon
  <2>3. \A p \in Peers : cache'[p] \subseteq Afloat'
    BY <1>0, <1>f, <1>u, Zenon DEF StepAt
  <2>4. /\ message' = 0 => flying' = {} /\ \A p \in Peers : cache'[p] = {}
        /\ message' \in {0, 1}
        /\ spc' \in {"check", "passed"} => message' # 0
    <3>1. message' = 0 => message = 0 /\ flying' = flying
      BY <1>1, Zenon
    <3>2. message' \in {0, 1} /\ (spc' \in {"check", "passed"} => message' # 0)
      BY <1>1
    <3> QED BY <1>0, <1>u, <3>1, <3>2, Zenon DEF StepAt
  <2> QED BY <1>0, <1>p, <1>s, <1>u, <2>1, <2>2, <2>3, <2>4, Zenon DEF StepAt, Collecting
<1>5. SeenLanded'
  <2>1. \A p \in Peers : \A m \in cache'[p] : m \in Awaited' => <<m, p>> \in landed'
    <3>1. CASE message' = message
      BY <1>0, <1>a, <1>u, <3>1, Zenon DEF SeenLanded
    <3>2. CASE message = 0
      BY <1>0, <1>u, <3>2, Zenon DEF StepAt
    <3>3. message' = message \/ message = 0
      BY <1>1, Zenon
    <3> QED BY <3>1, <3>2, <3>3, Zenon
  <2>2. \A j \in DOMAIN peer_list : ~(j < 1)
    BY ListFacts
  <2> QED BY <1>2, <1>p, <1>s, <1>u, <2>1, <2>2, Zenon DEF SeenLanded
<1>6. NothingDropped' /\ Healing'
  BY <1>0, <1>p, <1>s, <1>u, Zenon DEF NothingDropped, Healing
<1> QED BY <1>3, <1>4, <1>5, <1>6, Zenon DEF StepsInv

\* A step starts with nothing published.
LEMMA StepsInitially == StepsInit => StepsInv
<1> SUFFICES ASSUME StepsInit PROVE StepsInv
  OBVIOUS
<1>1. /\ step \in Steps /\ spc = "publish" /\ message = 0 /\ peer = 1
      /\ cache = [p \in Peers |-> {}]
      /\ flying = {} /\ collected = {} /\ prompt = FALSE /\ ~prompt
      /\ landed = {} /\ lost = FALSE /\ good = 0
  BY Zenon DEF StepsInit
<1>c. \A p \in Peers : cache[p] = {}
  BY <1>1, Zenon
<1>2. /\ 0 \in 0 .. Batch /\ 0 \in 0 .. GoodCap /\ 1 \in DOMAIN peer_list /\ 0 < Batch
      /\ 0 <= Len(peer_list) + 1
  BY ListFacts DEF GoodCap
<1>s. spc # "check" /\ spc # "passed" /\ spc # "failed"
  BY <1>1, Zenon
<1>3. StepsTypeOK
  <2>1. {prompt, lost} \subseteq BOOLEAN
    BY <1>1, Zenon
  <2> QED BY <1>1, <1>2, <2>1, Zenon DEF StepsTypeOK
<1>4. StepAt
  BY <1>1, <1>2, <1>c, <1>s, Zenon DEF StepAt
<1>5. SeenLanded
  BY <1>1, <1>c, <1>s, Zenon DEF SeenLanded
<1>6. NothingDropped
  BY <1>1, <1>s, Zenon DEF NothingDropped
<1>7. Healing
  BY <1>1, <1>2, Zenon DEF Healing
<1> QED BY <1>3, <1>4, <1>5, <1>6, <1>7, Zenon DEF StepsInv

\* The invariant of the REST steps, for any list of nodes and any number of
\* messages, whatever the network does with them.
THEOREM StepsInvariant == StepsSpec => []StepsInv
<1>1. StepsInv /\ [StepsNext]_stepVars => StepsInv'
  <2> SUFFICES ASSUME StepsInv, [StepsNext]_stepVars PROVE StepsInv'
    OBVIOUS
  <2>1. CASE Send
    BY <2>1, SendNextStep, SendNewStep, Zenon
  <2>2. CASE light_push_through_fleet
    BY <2>2, FleetStep, Zenon
  <2>3. CASE Land
    BY <2>3, LandStep, Zenon
  <2>4. CASE Lose
    BY <2>4, LoseStep, Zenon
  <2>5. CASE OthersPublish
    BY <2>5, OthersStep, Zenon
  <2>6. CASE Settle
    BY <2>6, SettleStep, Zenon
  <2>7. CASE GetRaises
    BY <2>7, GetRaisesStep, Zenon
  <2>8. CASE \/ check_published_message_reaches_relay_peer
             \/ check_light_pushed_message_reaches_receiving_peer
             \/ check_published_message_reaches_filter_peer
    BY <2>8, LookAtNodeStep, Zenon
       DEF check_published_message_reaches_relay_peer,
           check_light_pushed_message_reaches_receiving_peer,
           check_published_message_reaches_filter_peer
  <2>9. CASE check_published_message_reaches_shard_peer \/ wait_for_relay_messages
    BY <2>9, PollStep, Zenon
       DEF check_published_message_reaches_shard_peer, wait_for_relay_messages
  <2>10. CASE \/ check_published_message_is_stored
              \/ check_sent_message_is_stored
              \/ wait_for_fleet_store_messages
    BY <2>10, StoreStep, Zenon
  <2>11. CASE UNCHANGED stepVars
    <3>1. /\ step' = step /\ spc' = spc /\ message' = message /\ peer' = peer /\ cache' = cache
          /\ flying' = flying /\ collected' = collected /\ prompt' = prompt /\ landed' = landed
          /\ lost' = lost /\ good' = good /\ (prompt' <=> prompt) /\ (lost' <=> lost)
      BY <2>11, Zenon DEF stepVars
    <3>2. Awaited' = Awaited /\ Afloat' = Afloat /\ GoodCap' = GoodCap
      BY <3>1, SameMessage, Zenon DEF GoodCap
    <3>3. StepsTypeOK'
      BY <3>1, <3>2, Zenon DEF StepsInv, StepsTypeOK, Steps, Retried, Collecting, Old
    <3>4. StepAt'
      BY <3>1, <3>2, Zenon DEF StepsInv, StepAt, Collecting
    <3>5. SeenLanded' /\ NothingDropped'
      BY <3>1, <3>2, Zenon DEF StepsInv, SeenLanded, NothingDropped
    <3>6. Healing'
      BY <3>1, Zenon DEF StepsInv, Healing, Retried, Noise
    <3> QED BY <3>3, <3>4, <3>5, <3>6, Zenon DEF StepsInv
  <2> QED BY <2>1, <2>2, <2>3, <2>4, <2>5, <2>6, <2>7, <2>8, <2>9, <2>10, <2>11, Zenon
             DEF StepsNext
<1> QED BY <1>1, StepsInitially, PTL DEF StepsSpec

\* A step of a REST test that passes has seen its message at every node, and a
\* wait that polls fails only if one of its messages had not come.
THEOREM VerdictAlwaysRight == StepsSpec => []VerdictRight
<1>1. StepsInv => VerdictRight
  <2> SUFFICES ASSUME StepsInv PROVE VerdictRight
    BY Zenon
  <2>1. SeenLanded /\ NothingDropped
    BY Zenon DEF StepsInv
  <2>2. ASSUME spc = "passed" PROVE Awaited \X Peers \subseteq landed
    <3>1. \A p \in Peers : \A m \in Awaited : <<m, p>> \in landed
      BY <2>1, <2>2, ListFacts, Zenon DEF SeenLanded
    <3> QED BY <3>1
  <2> QED BY <2>1, <2>2, Zenon DEF VerdictRight, NothingDropped
<1> QED BY <1>1, StepsInvariant, PTL

\* Publishing again heals within one attempt per node and one more.
THEOREM AlwaysHealsInTime == StepsSpec => []HealsInTime
<1>1. StepsInv => HealsInTime
  BY Zenon DEF StepsInv, Healing, HealsInTime
<1> QED BY <1>1, StepsInvariant, PTL

=============================================================================

----------------------------- MODULE StoreRest -----------------------------
(***************************************************************************)
(* How one store query that a client asks for over REST                    *)
(* (GET /store/v3/messages) comes back: the store client's error for what  *)
(* happened to the query, the store status it becomes, and the HTTP answer *)
(* the REST handler gives.  Pure operators; Sonda is their caller.         *)
(***************************************************************************)
EXTENDS Naturals

\* What can happen to a query the local node accepted.  "answered" carries
\* a page of messages, the others none.
Causes ==
    {"answered", "dialFailed", "writeFailed", "readFailed", "undecodable",
     "archiveFailed", "invalidQuery", "rateLimited", "unavailable",
     "foreignStatus", "noAnswer"}

\* What the handler itself refuses, before any peer is dialled.
LocalCauses == {"badAddress", "noClient"}

SUCCESS == 200
UNKNOWN == 0
BAD_RESPONSE == 300
BAD_REQUEST == 400
TOO_MANY_REQUESTS == 429
SERVICE_UNAVAILABLE == 503
PEER_DIAL_FAILURE == 504

ErrorCodes ==
    {UNKNOWN, BAD_RESPONSE, BAD_REQUEST, TOO_MANY_REQUESTS,
     SERVICE_UNAVAILABLE, PEER_DIAL_FAILURE}

\* ErrorCode.parse: a status the protocol does not name is UNKNOWN.
ParseCode(code) == IF code \in ErrorCodes THEN code ELSE UNKNOWN

\* The status a store peer writes into its answer: its rate limiter's, its
\* archive's, or one of another implementation.
PeerStatus(what) ==
    CASE what = "answered"      -> SUCCESS
      [] what = "rateLimited"   -> TOO_MANY_REQUESTS
      [] what = "archiveFailed" -> BAD_RESPONSE
      [] what = "invalidQuery"  -> BAD_REQUEST
      [] what = "unavailable"   -> SERVICE_UNAVAILABLE
      [] what = "foreignStatus" -> 418

\* WakuStoreClient.query and sendStoreRequest: a failed dial, a failed write,
\* a failed read and an undecodable answer have codes of their own; an answer
\* that is not SUCCESS keeps the code the peer sent.
ClientStatus(what) ==
    CASE what = "dialFailed"  -> PEER_DIAL_FAILURE
      [] what = "writeFailed" -> BAD_REQUEST
      [] what \in {"readFailed", "undecodable"} -> BAD_RESPONSE
      [] OTHER -> IF PeerStatus(what) = SUCCESS THEN SUCCESS
                  ELSE ParseCode(PeerStatus(what))

\* performStoreQuery: no result within futTimeout is reported as a failed
\* dial, whatever the peer is doing.
StoreStatus(what) ==
    IF what = "noAnswer" THEN PEER_DIAL_FAILURE ELSE ClientStatus(what)

\* The HTTP status of a store status.  A cursor that vanished (410) needs a
\* paginated query, which no caller here makes.
HttpStatus(status) ==
    CASE status = SUCCESS             -> 200
      [] status = BAD_REQUEST         -> 400
      [] status = TOO_MANY_REQUESTS   -> 429
      [] status = SERVICE_UNAVAILABLE -> 503
      [] status = PEER_DIAL_FAILURE   -> 504
      [] status = BAD_RESPONSE        -> 502
      [] OTHER                        -> 500

\* storeResponse: a rate limit becomes a plain HTTP 429, everything else is
\* the store response as JSON under HttpStatus.
StoreResponse(status) ==
    [http |-> HttpStatus(status), json |-> status # TOO_MANY_REQUESTS,
     status |-> status]

\* The whole GET: the handler's own refusals are plain text.
GetStoreMessages(what) ==
    CASE what = "badAddress" -> [http |-> 400, json |-> FALSE, status |-> 0]
      [] what = "noClient"   -> [http |-> 500, json |-> FALSE, status |-> 0]
      [] OTHER -> StoreResponse(StoreStatus(what))

\* A node whose REST API puts the store status into the body of an HTTP 200
\* instead: the image sonda runs is chosen at deployment, and sonda reads the
\* status of the body for such a node.
GetStoreMessages200(what) ==
    IF what \in LocalCauses \/ StoreStatus(what) = TOO_MANY_REQUESTS
    THEN GetStoreMessages(what)
    ELSE [http |-> 200, json |-> TRUE, status |-> StoreStatus(what)]
=============================================================================

--------------------------- MODULE Server_proofs ----------------------------
(***************************************************************************)
(* The invariants of Server and its safety properties, for every set of    *)
(* connections and environments and every size of the pool.                *)
(***************************************************************************)
EXTENDS Server, TLAPS

(* The status of the codes that the router answers.                        *)
LEMMA RouterStatus ==
    /\ StatusForCode("event_not_found") = 404
    /\ StatusForCode("method_not_allowed") = 405
    /\ StatusForCode("unauthorized") = 401
    /\ StatusForCode("internal_error") = 500
BY DEF StatusForCode

(* The fields of a route.                                                  *)
LEMMA RouteFields ==
    \A m, p, h :
        /\ Protected(m, p, h).group = "protected" /\ Protected(m, p, h).handler = h
        /\ Public(m, p, h).group = "public" /\ Public(m, p, h).handler = h
BY DEF Protected, Public

(* Every handler that reads the user is behind the token check.            *)
LEMMA ReadersAreProtected ==
    ASSUME NEW route \in Routes
    PROVE  /\ ReadsUser(route.handler) => route.group = "protected"
           /\ route.handler # "none"
<1>1. CASE route \in EventRoutes
  BY <1>1, RouteFields DEF EventRoutes
<1>2. CASE route \in AccountRoutes
  BY <1>2, RouteFields DEF AccountRoutes
<1>3. CASE route \in AuthRoutes \cup {Public("GET", "/health", "health")}
  BY <1>3, RouteFields DEF AuthRoutes, ReadsUser, EventHandlersReadUser, AccountHandlersReadUser
<1>4. QED
  BY <1>1, <1>2, <1>3 DEF Routes

(* What the router does with a request.                                    *)
LEMMA OutcomeOK ==
    ASSUME NEW m \in Method, NEW p \in Path, NEW b \in Bearer
    PROVE  LET o == Outcome(m, p, b) IN
           /\ o.user \in {"none", "known"}
           /\ o.handler = "none" => o.status \in {204, 401, 404, 405}
           /\ o.handler # "none" /\ ReadsUser(o.handler) => o.user = "known"
<1> DEFINE here == {route \in Routes : Matches(route, p)}
           routes == {route \in here : route.method = m}
           chosen == Chosen(routes, p)
<1>1. CASE m = "OPTIONS"
  BY <1>1 DEF Outcome, Answered
<1>2. CASE m # "OPTIONS" /\ here = {}
  BY <1>2, RouterStatus DEF Outcome, Answered
<1>3. CASE m # "OPTIONS" /\ here # {} /\ routes = {}
  BY <1>3, RouterStatus DEF Outcome, Answered
<1>4. CASE m # "OPTIONS" /\ here # {} /\ routes # {}
  <2>1. chosen \in Routes
    <3> DEFINE spelled == {route \in routes : route.path = p}
               among == IF spelled # {} THEN spelled ELSE routes
    <3>1. among # {} /\ among \subseteq Routes
      BY <1>4
    <3>2. (CHOOSE route \in among : TRUE) \in among
      BY <3>1
    <3>3. chosen = CHOOSE route \in among : TRUE
      BY DEF Chosen
    <3>4. QED
      BY <3>1, <3>2, <3>3
  <2>2. Outcome(m, p, b) = IF chosen.group = "protected" /\ b # "good"
                           THEN Answered(StatusForCode("unauthorized"))
                           ELSE Reached(chosen.handler, UserOf(chosen))
    BY <1>4 DEF Outcome
  <2>3. /\ ReadsUser(chosen.handler) => chosen.group = "protected"
        /\ chosen.handler # "none"
    BY <2>1, ReadersAreProtected
  <2>4. QED
    BY <2>2, <2>3, RouterStatus DEF Answered, Reached, UserOf
<1>5. QED
  BY <1>1, <1>2, <1>3, <1>4

-----------------------------------------------------------------------------
(* The inductive invariant.                                                *)

(* It holds at the start.                                                  *)
LEMMA InitInv == ServerInit => ServerInv
<1> SUFFICES ASSUME ServerInit PROVE ServerInv
  OBVIOUS
<1>1. NotConnected \in Connection
  BY DEF NotConnected, Connection
<1>2. ServerTypeOK
  <2>1. catching \in BOOLEAN /\ signalled \in BOOLEAN
    BY Zenon DEF ServerInit
  <2>2. QED
    BY <1>1, <2>1, ServerAssumption DEF ServerInit, ServerTypeOK
<1>3. ConnInv
  BY DEF ServerInit, ConnInv, RequestOK, NotConnected, Running
<1>4. MainInv
  BY DEF ServerInit, MainInv
<1>5. DrainedInv
  BY DEF ServerInit, DrainedInv
<1>6. QED
  BY <1>2, <1>3, <1>4, <1>5 DEF ServerInv

(* What the end of the process does to the requests.                       *)
LEMMA EndsOK ==
    ASSUME ServerInv, NEW status \in {"killed", "0", "1"}, Ends(status),
           listener' = listener, pool' = pool
    PROVE  /\ conn' \in [Conn -> Connection]
           /\ ConnInv'
           /\ main' = "exited" /\ exit' = status
           /\ \A c \in Conn :
                conn[c].stage \in {"none", "done"} => conn'[c] = conn[c]
<1>1. \A c \in Conn : conn[c] \in Connection
  BY DEF ServerInv, ServerTypeOK
<1>2. \A q \in Connection :
        [q EXCEPT !.stage = "cut"] \in Connection
        /\ [q EXCEPT !.stage = "cut"].stage = "cut"
        /\ (RequestOK(q) => RequestOK([q EXCEPT !.stage = "cut"]))
  BY DEF Connection, RequestOK, Running
<1>3. \A c \in Conn : /\ conn'[c] \in {conn[c], [conn[c] EXCEPT !.stage = "cut"]}
                      /\ conn[c].stage \notin Running => conn'[c] = conn[c]
  BY DEF Ends, In
<1>4. conn' \in [Conn -> Connection]
  BY <1>1, <1>2, <1>3 DEF Ends
<1>5. ConnInv'
  <2> SUFFICES ASSUME NEW c \in Conn
               PROVE  /\ RequestOK(conn'[c])
                      /\ c \in refused' => pool' = "closing"
                      /\ conn'[c].stage # "none" => listener' # "off"
                      /\ conn'[c].stage = "cut" => main' = "exited"
    BY DEF ConnInv
  <2>1. CASE conn'[c] = conn[c]
    BY <2>1 DEF ServerInv, ConnInv, Ends
  <2>2. CASE conn'[c] = [conn[c] EXCEPT !.stage = "cut"] /\ conn[c].stage \in Running
    BY <2>2, <1>1, <1>2 DEF ServerInv, ConnInv, Ends, Running
  <2>3. QED
    BY <1>3, <2>1, <2>2
<1>6. QED
  BY <1>3, <1>4, <1>5 DEF Ends, Running

(* A step of one request: what it must hand on for the invariant to hold.  *)
LEMMA BecomesOK ==
    ASSUME ServerInv, NEW c \in Conn, NEW q \in Connection, Becomes(c, q), Alive,
           RequestOK(q), q.stage \notin {"none", "cut"},
           conn[c].stage \notin {"none", "done"} \/ listener = "on",
           \/ refused' = refused
           \/ pool = "closing" /\ refused' = refused \cup {c}
    PROVE  ServerInv'
<1> USE DEF Becomes, mainVars, signalVars, Alive
<1>1. /\ conn' \in [Conn -> Connection]
      /\ conn'[c] = q
      /\ \A d \in Conn \ {c} : conn'[d] = conn[d]
  BY DEF ServerInv, ServerTypeOK
<1>2. ServerTypeOK'
  BY <1>1 DEF ServerInv, ServerTypeOK
<1>3. listener # "off"
  BY DEF ServerInv, ConnInv
<1>4. ConnInv'
  <2> SUFFICES ASSUME NEW d \in Conn
               PROVE  /\ RequestOK(conn'[d])
                      /\ d \in refused' => pool' = "closing"
                      /\ conn'[d].stage # "none" => listener' # "off"
                      /\ conn'[d].stage = "cut" => main' = "exited"
    BY DEF ConnInv
  <2>1. CASE d = c
    BY <2>1, <1>1, <1>3 DEF ServerInv, ConnInv
  <2>2. CASE d # c
    BY <2>2, <1>1, <1>3 DEF ServerInv, ConnInv
  <2>3. QED
    BY <2>1, <2>2
<1>5. MainInv'
  BY DEF ServerInv, MainInv
<1>6. result # "0"
  BY DEF ServerInv, DrainedInv
<1>7. DrainedInv'
  BY <1>6 DEF DrainedInv
<1>8. QED
  BY <1>2, <1>4, <1>5, <1>7 DEF ServerInv

(* The fields of a request that is being answered.                         *)
LEMMA RespondsOK ==
    ASSUME NEW q \in Connection, NEW stage \in {"replying", "done"},
           NEW status \in HttpStatus, NEW logged, logged = 0 \/ logged = status
    PROVE  /\ Responds(q, stage, status, logged) \in Connection
           /\ Responds(q, stage, status, logged).stage = stage
           /\ Responds(q, stage, status, logged).status = status
           /\ Responds(q, stage, status, logged).logged = logged
           /\ Responds(q, stage, status, logged).handler = q.handler
           /\ Responds(q, stage, status, logged).user = q.user
<1>1. SUFFICES ASSUME NEW r, r = [q EXCEPT !.stage = stage, !.status = status,
                                           !.logged = logged]
               PROVE  /\ r \in Connection
                      /\ r.stage = stage /\ r.status = status /\ r.logged = logged
                      /\ r.handler = q.handler /\ r.user = q.user
  BY Zenon DEF Responds
<1>2. /\ r.stage = stage /\ r.status = status /\ r.logged = logged
      /\ r.handler = q.handler /\ r.user = q.user
  BY <1>1 DEF Connection
<1>3. r = [stage |-> stage, handler |-> q.handler, user |-> q.user,
           status |-> status, logged |-> logged]
  BY <1>1 DEF Connection
<1>4. /\ q.handler \in {"none", "health", "user", "public"}
      /\ q.user \in {"none", "known"}
      /\ stage \in {"none", "connected", "done", "cut"} \cup Running
  BY DEF Connection, Running
<1>5. r \in Connection
  BY <1>3, <1>4 DEF Connection
<1>6. QED
  BY <1>2, <1>5

(* Where a request goes when its connection is accepted.                   *)
LEMMA ReachesOK ==
    ASSUME NEW q \in Connection, NEW user \in {"none", "known"},
           NEW kind \in {"health", "user", "public"}
    PROVE  /\ Reaches(q, user, kind) \in Connection
           /\ Reaches(q, user, kind).stage = "handling"
           /\ Reaches(q, user, kind).status = q.status
           /\ Reaches(q, user, kind).logged = q.logged
           /\ Reaches(q, user, kind).handler = kind
           /\ Reaches(q, user, kind).user = user
<1>1. SUFFICES ASSUME NEW r, r = [q EXCEPT !.stage = "handling", !.user = user,
                                           !.handler = kind]
               PROVE  /\ r \in Connection
                      /\ r.stage = "handling" /\ r.handler = kind /\ r.user = user
                      /\ r.status = q.status /\ r.logged = q.logged
  BY Zenon DEF Reaches
<1>2. /\ r.stage = "handling" /\ r.handler = kind /\ r.user = user
      /\ r.status = q.status /\ r.logged = q.logged
  BY <1>1 DEF Connection
<1>3. r = [stage |-> "handling", handler |-> kind, user |-> user,
           status |-> q.status, logged |-> q.logged]
  BY <1>1 DEF Connection
<1>4. r \in Connection
  BY <1>3 DEF Connection, Running
<1>5. QED
  BY <1>2, <1>4

(* No answer has the status of a request without one.                      *)
LEMMA StatusNotZero == 0 \notin HttpStatus
BY DEF HttpStatus

(* The steps of a request.                                                 *)
LEMMA RequestStep ==
    ASSUME ServerInv, NEW c \in Conn, Connect(c) \/ Handler(c)
    PROVE  ServerInv'
<1>1. conn[c] \in Connection /\ RequestOK(conn[c])
  BY DEF ServerInv, ServerTypeOK, ConnInv
<1>2. CASE Connect(c)
  <2> DEFINE q == [conn[c] EXCEPT !.stage = "connected"]
  <2>1. q \in Connection /\ RequestOK(q)
    BY <1>1, <1>2 DEF Connect, Connection, RequestOK, Running, HttpStatus
  <2>2. /\ Becomes(c, q) /\ Alive /\ refused' = refused
        /\ q.stage \notin {"none", "cut"}
        /\ conn[c].stage \notin {"none", "done"} \/ listener = "on"
    BY <1>1, <1>2 DEF Connect, Keeps, Connection
  <2> HIDE DEF q
  <2>3. QED
    BY <2>1, <2>2, BecomesOK
<1>3. CASE Arrive(c)
  <2>1. PICK m \in Method, p \in Path, b \in Bearer :
          LET o == Outcome(m, p, b) IN
          Keeps(c, IF o.handler = "none"
                   THEN Responds(conn[c], "done", o.status, o.status)
                   ELSE Reaches(conn[c], o.user, KindOf(o.handler)))
    BY <1>3 DEF Arrive
  <2> DEFINE o == Outcome(m, p, b)
             done == Responds(conn[c], "done", o.status, o.status)
             handling == Reaches(conn[c], o.user, KindOf(o.handler))
  <2>2. /\ o.user \in {"none", "known"}
        /\ o.handler = "none" => o.status \in {204, 401, 404, 405}
        /\ o.handler # "none" /\ ReadsUser(o.handler) => o.user = "known"
    BY OutcomeOK
  <2>3. conn[c].stage = "connected" /\ Alive /\ refused' = refused
    BY <1>3, <2>1 DEF Arrive, Keeps
  <2>4. CASE o.handler = "none"
    <3>1. done \in Connection /\ RequestOK(done)
      <4>1. o.status \in HttpStatus /\ o.status \in {0} \cup HttpStatus
        BY <2>2, <2>4 DEF HttpStatus
      <4>2. QED
        <5>1. /\ done \in Connection /\ done.stage = "done"
              /\ done.status = o.status /\ done.logged = o.status
          BY <1>1, <4>1, RespondsOK
        <5>2. QED
          BY <4>1, <5>1, StatusNotZero DEF RequestOK, Running
    <3>2. Becomes(c, done) /\ done.stage = "done"
      <4>1. o.status \in HttpStatus /\ o.status \in {0} \cup HttpStatus
        BY <2>2, <2>4 DEF HttpStatus
      <4>2. QED
        BY <1>1, <2>1, <2>4, <4>1, RespondsOK DEF Keeps
    <3> HIDE DEF done
    <3>3. QED
      BY <2>3, <3>1, <3>2, BecomesOK
  <2>5. CASE o.handler # "none"
    <3>1. /\ KindOf(o.handler) \in {"health", "user", "public"}
          /\ KindOf(o.handler) = "user" => o.user = "known"
      BY <2>2, <2>5 DEF KindOf
    <3> HIDE DEF o
    <3>2. handling \in Connection /\ RequestOK(handling)
      <4>1. /\ handling \in Connection /\ handling.stage = "handling"
            /\ handling.status = conn[c].status /\ handling.logged = conn[c].logged
            /\ handling.user = o.user /\ handling.handler = KindOf(o.handler)
        BY <1>1, <2>2, <3>1, ReachesOK
      <4>2. QED
        BY <1>1, <2>3, <3>1, <4>1 DEF RequestOK, Running
    <3>3. Becomes(c, handling) /\ handling.stage = "handling"
      BY <1>1, <2>1, <2>2, <2>5, <3>1, ReachesOK DEF Keeps, o
    <3> HIDE DEF handling
    <3>4. QED
      BY <2>3, <3>2, <3>3, BecomesOK
  <2>6. QED
    BY <2>4, <2>5
<1>4. CASE Borrow(c)
  <2> DEFINE q == [conn[c] EXCEPT !.stage = "statement"]
  <2>1. q \in Connection /\ RequestOK(q)
    BY <1>1, <1>4 DEF Borrow, Connection, RequestOK, Running, HttpStatus
  <2>2. /\ Becomes(c, q) /\ Alive /\ refused' = refused
        /\ q.stage \notin {"none", "cut"}
        /\ conn[c].stage \notin {"none", "done"} \/ listener = "on"
    BY <1>1, <1>4 DEF Borrow, Keeps, Connection
  <2> HIDE DEF q
  <2>3. QED
    BY <2>1, <2>2, BecomesOK
<1>5. CASE Return(c)
  <2> DEFINE q == [conn[c] EXCEPT !.stage = "handling"]
  <2>1. q \in Connection /\ RequestOK(q)
    BY <1>1, <1>5 DEF Return, Connection, RequestOK, Running, HttpStatus
  <2>2. /\ Becomes(c, q) /\ Alive /\ refused' = refused
        /\ q.stage \notin {"none", "cut"}
        /\ conn[c].stage \notin {"none", "done"} \/ listener = "on"
    BY <1>1, <1>5 DEF Return, Keeps, Connection
  <2> HIDE DEF q
  <2>3. QED
    BY <2>1, <2>2, BecomesOK
<1>6. CASE BorrowFails(c)
  <2> DEFINE q == Responds(conn[c], "replying", ErrorStatus(conn[c]), 0)
  <2>1. ErrorStatus(conn[c]) \in HttpStatus
    BY RouterStatus DEF ErrorStatus, HttpStatus
  <2>2. q \in Connection /\ RequestOK(q) /\ q.stage = "replying"
    BY <1>1, <1>6, <2>1, RespondsOK, StatusNotZero DEF BorrowFails, RequestOK, Running
  <2>3. /\ Becomes(c, q) /\ Alive /\ pool = "closing" /\ refused' = refused \cup {c}
        /\ conn[c].stage = "handling"
    BY <1>6 DEF BorrowFails
  <2> HIDE DEF q
  <2>4. QED
    BY <2>2, <2>3, BecomesOK
<1>7. CASE Reply(c)
  <2>1. PICK status \in {200, 422, ErrorStatus(conn[c])} :
          Keeps(c, Responds(conn[c], "replying", status, 0))
    BY <1>7 DEF Reply
  <2> DEFINE q == Responds(conn[c], "replying", status, 0)
  <2>2. status \in HttpStatus
    BY RouterStatus DEF ErrorStatus, HttpStatus
  <2>3. q \in Connection /\ RequestOK(q) /\ q.stage = "replying"
    BY <1>1, <1>7, <2>2, RespondsOK, StatusNotZero DEF Reply, RequestOK, Running
  <2>4. /\ Becomes(c, q) /\ Alive /\ refused' = refused
        /\ conn[c].stage = "handling"
    BY <1>7, <2>1 DEF Reply, Keeps
  <2> HIDE DEF q
  <2>5. QED
    BY <2>3, <2>4, BecomesOK
<1>8. CASE Finish(c)
  <2> DEFINE q == Responds(conn[c], "done", conn[c].status, conn[c].status)
  <2>1. conn[c].status \in HttpStatus /\ conn[c].status \in {0} \cup HttpStatus
    BY <1>1, <1>8 DEF Finish, Connection, RequestOK
  <2>2. q \in Connection /\ RequestOK(q) /\ q.stage = "done"
    <3>1. /\ q \in Connection /\ q.stage = "done"
          /\ q.status = conn[c].status /\ q.logged = conn[c].status
      BY <1>1, <2>1, RespondsOK
    <3>2. QED
      BY <2>1, <3>1, StatusNotZero DEF RequestOK, Running
  <2>3. Becomes(c, q) /\ Alive /\ refused' = refused /\ conn[c].stage = "replying"
    BY <1>8 DEF Finish, Keeps
  <2> HIDE DEF q
  <2>4. QED
    BY <2>2, <2>3, BecomesOK
<1>9. CASE Panic(c)
  <2> DEFINE status == IF conn[c].status = 0 THEN 500 ELSE conn[c].status
             q == Responds(conn[c], "done", status, 0)
  <2>1. status \in HttpStatus
    BY <1>1 DEF Connection, HttpStatus
  <2>2. Becomes(c, q) /\ Alive /\ refused' = refused
        /\ conn[c].stage \in {"handling", "replying"}
    BY <1>9 DEF Panic, Recovered, Keeps
  <2> HIDE DEF status
  <2>3. q \in Connection /\ RequestOK(q) /\ q.stage = "done"
    BY <1>1, <2>1, RespondsOK, StatusNotZero DEF RequestOK, Running
  <2> HIDE DEF q
  <2>4. QED
    BY <2>2, <2>3, BecomesOK
<1>10. QED
  BY <1>2, <1>3, <1>4, <1>5, <1>6, <1>7, <1>8, <1>9 DEF Handler

(* The steps of the process keep the Booleans Boolean.                     *)
LEMMA BooleansOK ==
    ASSUME ServerTypeOK, MainStep \/ Listen \/ AcceptFails \/ Signal
    PROVE  catching' \in BOOLEAN /\ signalled' \in BOOLEAN
<1>1. catching \in BOOLEAN /\ signalled \in BOOLEAN
  BY DEF ServerTypeOK
<1>2. /\ catching' = TRUE \/ catching' = FALSE \/ catching' = catching
      /\ signalled' = TRUE \/ signalled' = signalled
  <2> USE DEF mainVars, signalVars
  <2>1. CASE LoadConfig
    BY <2>1, Zenon DEF LoadConfig
  <2>2. CASE NewPool
    BY <2>2, Zenon DEF NewPool
  <2>3. CASE MakeTokens
    BY <2>3, Zenon DEF MakeTokens
  <2>4. CASE ClosePool
    BY <2>4, Zenon DEF ClosePool
  <2>5. CASE Exit
    BY <2>5, Zenon DEF Exit
  <2>6. CASE Serve
    BY <2>6, Zenon DEF Serve
  <2>7. CASE Listen
    BY <2>7, Zenon DEF Listen
  <2>8. CASE AcceptFails
    BY <2>8, Zenon DEF AcceptFails
  <2>9. CASE SelectErr
    BY <2>9, Zenon DEF SelectErr
  <2>10. CASE SelectDone
    BY <2>10, Zenon DEF SelectDone
  <2>11. CASE ShutdownDone
    BY <2>11, Zenon DEF ShutdownDone
  <2>12. CASE ShutdownExpires
    BY <2>12, Zenon DEF ShutdownExpires
  <2>13. CASE Signal
    BY <2>13, Zenon DEF Signal
  <2>14. QED
    BY <2>1, <2>2, <2>3, <2>4, <2>5, <2>6, <2>7, <2>8, <2>9, <2>10, <2>11, <2>12, <2>13 DEF MainStep
<1>3. QED
  BY <1>1, <1>2, Zenon

(* The end of the process keeps the invariant.                             *)
LEMMA EndsInv ==
    ASSUME ServerInv, NEW status \in {"killed", "0", "1"}, Ends(status),
           status = "0" => result = "0", main # "exited",
           env' = env, result' = result, catching' = catching,
           signalled' = signalled, sent' \in 0 .. MaxSignals,
           listener' = listener, errCh' = errCh, pool' = pool
    PROVE  ServerInv'
<1>1. /\ conn' \in [Conn -> Connection] /\ ConnInv'
      /\ main' = "exited" /\ exit' = status
      /\ \A c \in Conn : conn[c].stage \in {"none", "done"} => conn'[c] = conn[c]
      /\ refused' = refused
  BY EndsOK DEF Ends
<1>2. catching' \in BOOLEAN /\ signalled' \in BOOLEAN
  BY Zenon DEF ServerInv, ServerTypeOK
<1>3. ServerTypeOK'
  BY <1>1, <1>2 DEF ServerInv, ServerTypeOK
<1>4. MainInv'
  <2>1. /\ exit' = "0" => result' = "0"
        /\ listener # "off" => Load(env) /\ NewJWTService(Parse(env)) /\ pool # "none"
    BY <1>1 DEF ServerInv, MainInv
  <2>2. QED
    BY <1>1, <2>1 DEF MainInv
<1>5. DrainedInv'
  BY <1>1 DEF ServerInv, DrainedInv
<1>6. QED
  BY <1>1, <1>3, <1>4, <1>5 DEF ServerInv

(* The steps of the process.                                               *)
LEMMA ProcessStep ==
    ASSUME ServerInv, MainStep \/ Listen \/ AcceptFails \/ Signal
    PROVE  ServerInv'
<1> USE DEF mainVars, signalVars, Goto
<1>0. catching' \in BOOLEAN /\ signalled' \in BOOLEAN
  BY BooleansOK DEF ServerInv
<1>1. CASE LoadConfig
  <2>1. CASE Load(env)
    <3>2. ServerTypeOK'
      BY <1>1, <2>1, <1>0 DEF LoadConfig, ServerInv, ServerTypeOK
    <3>3. ConnInv'
      BY <1>1, <2>1 DEF LoadConfig, ServerInv, ConnInv, MainInv
    <3>4. MainInv'
      BY <1>1, <2>1 DEF LoadConfig, ServerInv, MainInv
    <3>5. DrainedInv'
      BY <1>1, <2>1 DEF LoadConfig, ServerInv, MainInv, DrainedInv, ConnInv
    <3>6. QED
      BY <3>2, <3>3, <3>4, <3>5 DEF ServerInv
  <2>2. CASE ~ Load(env)
    <3>1. Ends("1") /\ main # "exited" /\ sent' \in 0 .. MaxSignals
      BY <1>1, <2>2, ServerAssumption DEF LoadConfig, ServerInv, ServerTypeOK
    <3>2. QED
      BY <1>1, <2>2, <3>1, EndsInv DEF LoadConfig
  <2>3. QED
    BY <1>1, <2>1, <2>2 DEF LoadConfig
<1>2. CASE NewPool
  <2>1. CASE Goto("keys") /\ pool' = "open"
    <3>2. ServerTypeOK'
      BY <1>2, <2>1, <1>0 DEF NewPool, ServerInv, ServerTypeOK
    <3>3. ConnInv'
      BY <1>2, <2>1 DEF NewPool, ServerInv, ConnInv, MainInv
    <3>4. MainInv'
      BY <1>2, <2>1 DEF NewPool, ServerInv, MainInv
    <3>5. DrainedInv'
      BY <1>2, <2>1 DEF NewPool, ServerInv, MainInv, DrainedInv, ConnInv
    <3>6. QED
      BY <3>2, <3>3, <3>4, <3>5 DEF ServerInv
  <2>2. CASE Ends("1") /\ pool' = pool
    <3>1. Ends("1") /\ main # "exited" /\ sent' \in 0 .. MaxSignals
      BY <1>2, <2>2, ServerAssumption DEF NewPool, ServerInv, ServerTypeOK
    <3>2. QED
      BY <1>2, <2>2, <3>1, EndsInv DEF NewPool
  <2>3. QED
    BY <1>2, <2>1, <2>2 DEF NewPool
<1>3. CASE MakeTokens
  <2>2. ServerTypeOK'
    BY <1>3, <1>0 DEF MakeTokens, ServerInv, ServerTypeOK
  <2>3. ConnInv'
    BY <1>3 DEF MakeTokens, ServerInv, ConnInv, MainInv
  <2>4. MainInv'
    BY <1>3 DEF MakeTokens, ServerInv, MainInv
  <2>5. DrainedInv'
    BY <1>3 DEF MakeTokens, ServerInv, MainInv, DrainedInv, ConnInv
  <2>6. QED
    BY <2>2, <2>3, <2>4, <2>5 DEF ServerInv
<1>4. CASE ClosePool
  <2>2. ServerTypeOK'
    BY <1>4, <1>0 DEF ClosePool, ServerInv, ServerTypeOK
  <2>3. ConnInv'
    BY <1>4 DEF ClosePool, ServerInv, ConnInv, MainInv
  <2>4. MainInv'
    BY <1>4 DEF ClosePool, ServerInv, MainInv
  <2>5. DrainedInv'
    BY <1>4 DEF ClosePool, ServerInv, MainInv, DrainedInv, ConnInv
  <2>6. QED
    BY <2>2, <2>3, <2>4, <2>5 DEF ServerInv
<1>5. CASE Exit
  <2>1. /\ Ends(result) /\ result \in {"0", "1"} /\ main # "exited"
        /\ sent \in 0 .. MaxSignals
    BY <1>5 DEF Exit, ServerInv, ServerTypeOK
  <2>2. QED
    BY <1>5, <2>1, EndsInv DEF Exit
<1>6. CASE Serve
  <2>2. ServerTypeOK'
    BY <1>6, <1>0 DEF Serve, ServerInv, ServerTypeOK
  <2>3. ConnInv'
    BY <1>6 DEF Serve, ServerInv, ConnInv, MainInv
  <2>4. MainInv'
    BY <1>6 DEF Serve, ServerInv, MainInv
  <2>5. DrainedInv'
    BY <1>6 DEF Serve, ServerInv, MainInv, DrainedInv, ConnInv
  <2>6. QED
    BY <2>2, <2>3, <2>4, <2>5 DEF ServerInv
<1>7. CASE Listen
  <2>2. ServerTypeOK'
    BY <1>7, <1>0 DEF Listen, ServerInv, ServerTypeOK
  <2>3. ConnInv'
    BY <1>7 DEF Listen, ServerInv, ConnInv, MainInv
  <2>4. MainInv'
    BY <1>7 DEF Listen, ServerInv, MainInv
  <2>5. DrainedInv'
    BY <1>7 DEF Listen, ServerInv, MainInv, DrainedInv, ConnInv
  <2>6. QED
    BY <2>2, <2>3, <2>4, <2>5 DEF ServerInv
<1>8. CASE AcceptFails
  <2>2. ServerTypeOK'
    BY <1>8, <1>0 DEF AcceptFails, ServerInv, ServerTypeOK
  <2>3. ConnInv'
    BY <1>8 DEF AcceptFails, ServerInv, ConnInv, MainInv
  <2>4. MainInv'
    BY <1>8 DEF AcceptFails, ServerInv, MainInv
  <2>5. DrainedInv'
    BY <1>8 DEF AcceptFails, ServerInv, MainInv, DrainedInv, ConnInv
  <2>6. QED
    BY <2>2, <2>3, <2>4, <2>5 DEF ServerInv
<1>9. CASE SelectErr
  <2>2. ServerTypeOK'
    BY <1>9, <1>0 DEF SelectErr, ServeResult, ServerInv, ServerTypeOK
  <2>3. ConnInv'
    BY <1>9 DEF SelectErr, ServerInv, ConnInv, MainInv
  <2>4. MainInv'
    BY <1>9 DEF SelectErr, ServeResult, ServerInv, MainInv
  <2>5. DrainedInv'
    BY <1>9 DEF SelectErr, ServeResult, ServerInv, MainInv, DrainedInv, ConnInv
  <2>6. QED
    BY <2>2, <2>3, <2>4, <2>5 DEF ServerInv
<1>10. CASE SelectDone
  <2>2. ServerTypeOK'
    BY <1>10, <1>0 DEF SelectDone, ServerInv, ServerTypeOK
  <2>3. ConnInv'
    BY <1>10 DEF SelectDone, ServerInv, ConnInv, MainInv
  <2>4. MainInv'
    BY <1>10 DEF SelectDone, ServerInv, MainInv
  <2>5. DrainedInv'
    BY <1>10 DEF SelectDone, ServerInv, MainInv, DrainedInv, ConnInv
  <2>6. QED
    BY <2>2, <2>3, <2>4, <2>5 DEF ServerInv
<1>11. CASE ShutdownDone
  <2>1. /\ \A c \in Conn : conn[c] \in Connection /\ RequestOK(conn[c])
        /\ \A c \in Conn : conn[c].stage \in {"none", "connected", "done"}
        /\ signalled /\ listener # "on" /\ pool = "open" /\ refused = {}
        /\ exit = "none"
    BY <1>11 DEF ShutdownDone, In, Running, Connection, ServerInv, ServerTypeOK,
       ConnInv, MainInv
  <2>2. NotConnected \in Connection /\ RequestOK(NotConnected)
        /\ NotConnected.stage = "none"
    BY DEF NotConnected, Connection, RequestOK, Running
  <2>3. \A c \in Conn : \/ conn'[c] = NotConnected
                        \/ /\ conn'[c] = conn[c] /\ conn[c].stage # "connected"
    BY <1>11 DEF ShutdownDone
  <2>4. conn' \in [Conn -> Connection]
    BY <1>11, <2>1, <2>2 DEF ShutdownDone
  <2>5. ServerTypeOK'
    BY <1>11, <1>0, <2>4 DEF ShutdownDone, ServerInv, ServerTypeOK
  <2>6. ConnInv'
    BY <1>11, <2>1, <2>2, <2>3 DEF ShutdownDone, ServerInv, ConnInv
  <2>7. MainInv'
    BY <1>11 DEF ShutdownDone, ServerInv, MainInv
  <2>8. DrainedInv'
    BY <1>11, <2>1, <2>2, <2>3 DEF ShutdownDone, DrainedInv
  <2>9. QED
    BY <2>5, <2>6, <2>7, <2>8 DEF ServerInv
<1>12. CASE ShutdownExpires
  <2>2. ServerTypeOK'
    BY <1>12, <1>0 DEF ShutdownExpires, ServerInv, ServerTypeOK
  <2>3. ConnInv'
    BY <1>12 DEF ShutdownExpires, ServerInv, ConnInv, MainInv
  <2>4. MainInv'
    BY <1>12 DEF ShutdownExpires, ServerInv, MainInv
  <2>5. DrainedInv'
    BY <1>12 DEF ShutdownExpires, ServerInv, MainInv, DrainedInv, ConnInv
  <2>6. QED
    BY <2>2, <2>3, <2>4, <2>5 DEF ServerInv
<1>13. CASE Signal
  <2>1. CASE catching
    <3>2. ServerTypeOK'
      BY <1>13, <2>1, <1>0, ServerAssumption DEF Signal, ServerInv, ServerTypeOK
    <3>3. ConnInv'
      BY <1>13, <2>1 DEF Signal, ServerInv, ConnInv, MainInv
    <3>4. MainInv'
      BY <1>13, <2>1 DEF Signal, ServerInv, MainInv
    <3>5. DrainedInv'
      BY <1>13, <2>1 DEF Signal, ServerInv, MainInv, DrainedInv, ConnInv
    <3>6. QED
      BY <3>2, <3>3, <3>4, <3>5 DEF ServerInv
  <2>2. CASE ~ catching
    <3>1. Ends("killed") /\ main # "exited" /\ sent' \in 0 .. MaxSignals
      BY <1>13, <2>2, ServerAssumption DEF Signal, ServerInv, ServerTypeOK
    <3>2. QED
      BY <1>13, <2>2, <3>1, EndsInv DEF Signal
  <2>3. QED
    BY <1>13, <2>1, <2>2 DEF Signal
<1>14. QED
  BY <1>1, <1>2, <1>3, <1>4, <1>5, <1>6, <1>7, <1>8, <1>9, <1>10, <1>11, <1>12, <1>13 DEF MainStep

-----------------------------------------------------------------------------
(* The theorems.                                                           *)

(* The invariant, with it the types of the process and of its requests:    *)
(* a server that returned nil from serve has nothing running.              *)
THEOREM ServerInvariant == ServerSpec => []ServerInv
<1>1. ServerInit => ServerInv
  BY InitInv
<1>2. ServerInv /\ [ServerNext]_serverVars => ServerInv'
  <2> SUFFICES ASSUME ServerInv, [ServerNext]_serverVars PROVE ServerInv'
    OBVIOUS
  <2>1. CASE MainStep \/ Listen \/ AcceptFails \/ Signal
    BY <2>1, ProcessStep
  <2>2. CASE \E c \in Conn : Connect(c) \/ Handler(c)
    BY <2>2, RequestStep
  <2>3. CASE UNCHANGED serverVars
    <3> USE <2>3 DEF serverVars, mainVars, signalVars
    <3>1. ServerTypeOK'
      <4>1. catching' \in BOOLEAN /\ signalled' \in BOOLEAN
        BY Zenon DEF ServerInv, ServerTypeOK
      <4>2. QED
        BY <4>1 DEF ServerInv, ServerTypeOK
    <3>2. ConnInv'
      BY DEF ServerInv, ConnInv
    <3>3. MainInv'
      BY DEF ServerInv, MainInv
    <3>4. DrainedInv'
      BY DEF ServerInv, DrainedInv
    <3>5. QED
      BY <3>1, <3>2, <3>3, <3>4 DEF ServerInv
  <2>4. QED
    BY <2>1, <2>2, <2>3 DEF ServerNext
<1>3. QED
  BY <1>1, <1>2, PTL DEF ServerSpec

(* main.go: a process that exits with 0 has answered every request that    *)
(* had arrived and refused no handler a connection to the database.        *)
THEOREM NoneIsCutShort == ServerSpec => []NoneCutShort
<1>1. ServerInv => NoneCutShort
  BY DEF ServerInv, ServerTypeOK, MainInv, DrainedInv, NoneCutShort
<1>2. QED
  BY <1>1, ServerInvariant, PTL

(* main.go: it exits with 0 only after a signal told it to stop.           *)
THEOREM StopsOnlyWhenTold == ServerSpec => []NeverSilentlyStops
<1>1. ServerInv => NeverSilentlyStops
  BY DEF ServerInv, MainInv, DrainedInv, NeverSilentlyStops
<1>2. QED
  BY <1>1, ServerInvariant, PTL

(* middleware.go: the line of the log has the status of the response.      *)
THEOREM LogTellsTheStatus == ServerSpec => []LoggedStatusIsSent
<1>1. ServerInv => LoggedStatusIsSent
  BY DEF ServerInv, ConnInv, RequestOK, LoggedStatusIsSent
<1>2. QED
  BY <1>1, ServerInvariant, PTL

(* router.go: a handler that reads the user runs behind the token check.   *)
THEOREM HandlersKnowTheUser == ServerSpec => []UserIsKnown
<1>1. ServerInv => UserIsKnown
  BY DEF ServerInv, ConnInv, RequestOK, UserIsKnown, In
<1>2. QED
  BY <1>1, ServerInvariant, PTL

(* main.go and pool.go: the process ends in the middle of a statement only *)
(* when it is killed, as pool.Close waits for what was lent.               *)
THEOREM StatementsFinish == ServerSpec => NoStatementCut
<1>1. ServerInv /\ [ServerNext]_serverVars
        => [main' = "exited" /\ exit' # "killed" => In({"statement"}) = {}]_serverVars
  <2> SUFFICES ASSUME ServerInv, ServerNext, main' = "exited", exit' # "killed"
               PROVE  In({"statement"}) = {}
    BY Zenon
  <2>1. main # "exited"
    BY DEF ServerNext, MainStep, LoadConfig, NewPool, MakeTokens, Serve, SelectErr,
       SelectDone, ShutdownDone, ShutdownExpires, ClosePool, Exit, Listen,
       AcceptFails, Signal, Connect, Handler, Arrive, Borrow, Return, BorrowFails,
       Reply, Finish, Panic, Alive
  <2>2. LoadConfig \/ NewPool \/ Exit
    BY <2>1 DEF ServerNext, MainStep, MakeTokens, Serve, SelectErr, SelectDone,
       ShutdownDone, ShutdownExpires, ClosePool, Listen, AcceptFails, Signal, Ends,
       Goto, Connect, Handler, Arrive, Borrow, Return, BorrowFails, Reply, Finish,
       Panic, Keeps, Becomes, mainVars
  <2>3. CASE LoadConfig \/ NewPool
    BY <2>3 DEF LoadConfig, NewPool, ServerInv, MainInv, ConnInv, In
  <2>4. CASE Exit
    BY <2>4 DEF Exit
  <2>5. QED
    BY <2>2, <2>3, <2>4
<1>2. QED
  BY <1>1, ServerInvariant, PTL DEF ServerSpec, NoStatementCut

(* config.go: what Load lets through has a database, a Google client and   *)
(* lifetimes that are positive numbers, whatever the environment was.      *)
LEMMA LoadedOK ==
    ASSUME NEW e \in Environment, Load(e)
    PROVE  /\ "DATABASE_URL" \in DOMAIN e /\ "GOOGLE_CLIENT_ID" \in DOMAIN e
           /\ {Parse(e).ttl, Parse(e).verificationTTL} \subseteq Nat \ {0}
           /\ BodyLimit(Parse(e)) > 0
<1>1. \A k \in Int64Vars, n \in Int : Getenv(e, k, n) \in Int
  BY EnvironmentAssumption DEF Load, Getenv
<1>2. /\ Parse(e).ttl \in Int /\ Parse(e).verificationTTL \in Int
      /\ Parse(e).maxBody \in Int
  BY <1>1 DEF Parse, Int64Vars
<1>3. Parse(e).ttl > 0 /\ Parse(e).verificationTTL > 0
  BY DEF Load, Valid
<1>4. BodyLimit(Parse(e)) > 0
  BY <1>2 DEF BodyLimit
<1>5. "DATABASE_URL" \in DOMAIN e /\ "GOOGLE_CLIENT_ID" \in DOMAIN e
  <2>1. Parse(e).database # "" /\ Parse(e).google # ""
    BY DEF Load, Valid
  <2>2. /\ Parse(e).database = Getenv(e, "DATABASE_URL", "")
        /\ Parse(e).google = Getenv(e, "GOOGLE_CLIENT_ID", "")
    BY DEF Parse
  <2>3. QED
    BY <2>1, <2>2 DEF Getenv
<1>6. QED
  BY <1>2, <1>3, <1>4, <1>5

(* main.go, config.go, jwt_token_service.go: a process that listens has    *)
(* all it needs to serve.                                                  *)
THEOREM ServesConfigured == ServerSpec => []ServesOnlyConfigured
<1>1. ServerInv => ServesOnlyConfigured
  <2> SUFFICES ASSUME ServerInv, listener = "on" PROVE ServesOnlyConfigured
    BY DEF ServesOnlyConfigured
  <2>1. /\ env \in Environment /\ Load(env) /\ NewJWTService(Parse(env))
        /\ pool # "none"
    BY DEF ServerInv, ServerTypeOK, MainInv
  <2>2. IF Parse(env).method = "HS256" THEN Parse(env).secret # ""
        ELSE Parse(env).private = "pem" /\ Parse(env).public = "pem"
    BY <2>1 DEF NewJWTService
  <2>3. QED
    BY <2>1, <2>2, LoadedOK DEF ServesOnlyConfigured
<1>2. QED
  BY <1>1, ServerInvariant, PTL
=============================================================================

------------------------------- MODULE Server -------------------------------
(***************************************************************************)
(* The process: start-up, the listener, requests through the middlewares   *)
(* to handlers that borrow connections of the pool, signals, the shutdown  *)
(* with its deadline, and the deferred calls on the way out.               *)
(*                                                                         *)
(* net/http, os/signal and pgxpool are modelled from how main.go uses      *)
(* them.  A handler is any sequence of statements and one response.  Time  *)
(* is left out: the deadline of the shutdown may pass at any moment.       *)
(***************************************************************************)
EXTENDS Router, Config, FiniteSets

CONSTANTS
    Environment,  \* environments the process is started in
    Conn,         \* client connections, one request each (a bound)
    MaxConns,     \* connections of the pool
    MaxSignals    \* SIGINT and SIGTERM sent (a bound)

ASSUME ServerAssumption == MaxConns \in Nat \ {0} /\ MaxSignals \in Nat

(* A variable that strconv parses is a number.                             *)
ASSUME EnvironmentAssumption ==
    \A e \in Environment : \A k \in Int64Vars \cap DOMAIN e :
        e[k] = NotInt \/ e[k] \in Int

VARIABLES
    env,          \* the environment of the process
    main,         \* where the main goroutine is
    exit,         \* "none", "killed" by a signal, or the status of the exit
    result,       \* the status run is going to return
    catching,     \* signals are caught by NotifyContext
    signalled,    \* and one has been: ctx is done
    sent,         \* signals sent so far
    listener,     \* the goroutine of ListenAndServe
    errCh,        \* what it has put into the channel
    pool,         \* the pool of connections to Postgres
    conn,         \* the connections and the request of each
    refused       \* those whose handler found the pool being closed

mainVars == <<env, main, exit, result, catching>>
signalVars == <<signalled, sent>>
serverVars == <<mainVars, signalVars, listener, errCh, pool, conn, refused>>

NotConnected ==
    [stage |-> "none", handler |-> "none", user |-> "none", status |-> 0,
     logged |-> 0]

Running == {"handling", "statement", "replying"}

HttpStatus == {200, 204, 401, 404, 405, 422, 500, 503}

Connection ==
    [stage : {"none", "connected", "done", "cut"} \cup Running,
     handler : {"none", "health", "user", "public"}, user : {"none", "known"},
     status : {0} \cup HttpStatus, logged : {0} \cup HttpStatus]

ServerTypeOK ==
    /\ env \in Environment
    /\ main \in {"load", "ping", "keys", "serve", "select", "shutdown",
                 "close", "closing", "exited"}
    /\ exit \in {"none", "killed", "0", "1"}
    /\ result \in {"0", "1"}
    /\ catching \in BOOLEAN /\ signalled \in BOOLEAN
    /\ sent \in 0 .. MaxSignals
    /\ listener \in {"off", "starting", "on", "closed", "failed"}
    /\ errCh \in {"none", "closed", "error"}
    /\ pool \in {"none", "open", "closing"}
    /\ conn \in [Conn -> Connection]
    /\ refused \subseteq Conn

ServerInit ==
    /\ env \in Environment
    /\ main = "load"
    /\ exit = "none"
    /\ result = "1"
    /\ catching = FALSE
    /\ signalled = FALSE
    /\ sent = 0
    /\ listener = "off"
    /\ errCh = "none"
    /\ pool = "none"
    /\ conn = [c \in Conn |-> NotConnected]
    /\ refused = {}

In(stages) == {c \in Conn : conn[c].stage \in stages}

(* The process ends, and its goroutines with it.                           *)
Ends(status) ==
    /\ main' = "exited"
    /\ exit' = status
    /\ UNCHANGED refused
    /\ conn' = [c \in Conn |->
                   IF c \in In(Running) THEN [conn[c] EXCEPT !.stage = "cut"]
                                        ELSE conn[c]]

Goto(pc) == main' = pc /\ UNCHANGED <<exit, conn, refused>>

-----------------------------------------------------------------------------
(* run.                                                                    *)

LoadConfig ==
    /\ main = "load"
    /\ IF Load(env) THEN Goto("ping") ELSE Ends("1")
    /\ UNCHANGED <<env, result, catching, signalVars, listener, errCh, pool>>

(* NewPool: Postgres may be down, or the URL be no URL.                    *)
NewPool ==
    /\ main = "ping"
    /\ \/ Goto("keys") /\ pool' = "open"
       \/ Ends("1") /\ UNCHANGED pool
    /\ UNCHANGED <<env, result, catching, signalVars, listener, errCh>>

MakeTokens ==
    /\ main = "keys"
    /\ Goto(IF NewJWTService(Parse(env)) THEN "serve" ELSE "close")
    /\ UNCHANGED <<env, result, catching, signalVars, listener, errCh, pool>>

(* Mutant: the deferred Close of the pool is forgotten.                    *)
ClosePool_Never ==
    /\ main = "close"
    /\ Ends(result)
    /\ UNCHANGED <<env, result, catching, signalVars, listener, errCh, pool>>

(* The deferred pool.Close: from here on nobody borrows a connection.      *)
ClosePool ==
    /\ main = "close"
    /\ Goto("closing")
    /\ pool' = "closing"
    /\ UNCHANGED <<env, result, catching, signalVars, listener, errCh>>

(* It returns when every connection has been given back.                   *)
Exit ==
    /\ main = "closing"
    /\ In({"statement"}) = {}
    /\ Ends(result)
    /\ UNCHANGED <<env, result, catching, signalVars, listener, errCh, pool>>

-----------------------------------------------------------------------------
(* serve.                                                                  *)

Serve ==
    /\ main = "serve"
    /\ Goto("select")
    /\ catching' = TRUE
    /\ listener' = "starting"
    /\ UNCHANGED <<env, result, signalVars, errCh, pool>>

(* ListenAndServe.  The port may be taken; after Shutdown it does not      *)
(* listen any more.                                                        *)
Listen ==
    /\ listener = "starting" /\ main # "exited"
    /\ IF main = "select"
       THEN \/ listener' = "on" /\ UNCHANGED errCh
            \/ listener' = "failed" /\ errCh' = "error"
       ELSE listener' = "closed" /\ errCh' = "closed"
    /\ UNCHANGED <<mainVars, signalVars, pool, conn, refused>>

AcceptFails ==
    /\ listener = "on" /\ main # "exited"
    /\ listener' = "failed"
    /\ errCh' = "error"
    /\ UNCHANGED <<mainVars, signalVars, pool, conn, refused>>

(* Mutant: serve takes any end of ListenAndServe for a good one.           *)
ServeResult_AlwaysNil == "0"

ServeResult == IF errCh = "closed" THEN "0" ELSE "1"

SelectErr ==
    /\ main = "select"
    /\ errCh # "none"
    /\ Goto("close")
    /\ result' = ServeResult
    /\ catching' = FALSE
    /\ UNCHANGED <<env, signalVars, listener, errCh, pool>>

(* Shutdown closes the listener first.                                     *)
SelectDone ==
    /\ main = "select"
    /\ signalled
    /\ Goto("shutdown")
    /\ IF listener = "on" THEN listener' = "closed" /\ errCh' = "closed"
                          ELSE UNCHANGED <<listener, errCh>>
    /\ UNCHANGED <<env, result, catching, signalVars, pool>>

(* Mutant: the server is closed, not shut down.                            *)
ShutdownDone_Close ==
    /\ main = "shutdown"
    /\ main' = "close"
    /\ result' = "0"
    /\ catching' = FALSE
    /\ UNCHANGED <<env, exit, signalVars, listener, errCh, pool, conn, refused>>

(* Then it waits until no request is running; connections without one are  *)
(* closed.                                                                 *)
ShutdownDone ==
    /\ main = "shutdown"
    /\ In(Running) = {}
    /\ main' = "close"
    /\ result' = "0"
    /\ catching' = FALSE
    /\ conn' = [c \in Conn |->
                   IF conn[c].stage = "connected" THEN NotConnected ELSE conn[c]]
    /\ UNCHANGED <<env, exit, signalVars, listener, errCh, pool, refused>>

(* Mutant: a Shutdown without a deadline.                                  *)
ShutdownExpires_Never == FALSE /\ UNCHANGED serverVars

ShutdownExpires ==
    /\ main = "shutdown"
    /\ Goto("close")
    /\ result' = "1"
    /\ catching' = FALSE
    /\ UNCHANGED <<env, signalVars, listener, errCh, pool>>

(* A signal that is not caught kills the process: before serve, and again  *)
(* after it, as it stops catching them.                                    *)
Signal ==
    /\ main # "exited"
    /\ sent < MaxSignals
    /\ sent' = sent + 1
    /\ IF catching THEN signalled' = TRUE /\ UNCHANGED <<main, exit, conn, refused>>
                   ELSE Ends("killed") /\ UNCHANGED signalled
    /\ UNCHANGED <<env, result, catching, listener, errCh, pool>>

-----------------------------------------------------------------------------
(* Requests.                                                               *)

Becomes(c, q) ==
    /\ conn' = [conn EXCEPT ![c] = q]
    /\ UNCHANGED <<mainVars, signalVars, listener, errCh, pool>>

Keeps(c, q) == Becomes(c, q) /\ UNCHANGED refused

Alive == main # "exited"

Connect(c) ==
    /\ Alive /\ listener = "on"
    /\ conn[c].stage = "none"
    /\ Keeps(c, [conn[c] EXCEPT !.stage = "connected"])

(* What has been sent of a response, and what the log says of it.          *)
Responds(q, stage, status, logged) ==
    [q EXCEPT !.stage = stage, !.status = status, !.logged = logged]

(* What a handler is to this model: it is that of /health, it asks for the *)
(* user, or neither.                                                       *)
KindOf(h) ==
    CASE h = "health" -> "health"
      [] ReadsUser(h) -> "user"
      [] OTHER -> "public"

Reaches(q, user, kind) ==
    [q EXCEPT !.stage = "handling", !.user = user, !.handler = kind]

(* A request that is answered on its way to a handler is logged, too.      *)
Arrive(c) ==
    /\ Alive /\ conn[c].stage = "connected"
    /\ \E method \in Method, path \in Path, bearer \in Bearer :
          LET o == Outcome(method, path, bearer) IN
          Keeps(c, IF o.handler = "none"
                     THEN Responds(conn[c], "done", o.status, o.status)
                     ELSE Reaches(conn[c], o.user, KindOf(o.handler)))

(* Who finds no free connection waits.                                     *)
Borrow(c) ==
    /\ Alive /\ conn[c].stage = "handling"
    /\ pool = "open"
    /\ Cardinality(In({"statement"})) < MaxConns
    /\ Keeps(c, [conn[c] EXCEPT !.stage = "statement"])

Return(c) ==
    /\ Alive /\ conn[c].stage = "statement"
    /\ Keeps(c, [conn[c] EXCEPT !.stage = "handling"])

ErrorStatus(q) == IF q.handler = "health" THEN 503 ELSE StatusForCode("internal_error")

BorrowFails(c) ==
    /\ Alive /\ conn[c].stage = "handling"
    /\ pool = "closing"
    /\ Becomes(c, Responds(conn[c], "replying", ErrorStatus(conn[c]), 0))
    /\ refused' = refused \cup {c}

(* The handler writes the header of its response.                          *)
Reply(c) ==
    /\ Alive /\ conn[c].stage = "handling"
    /\ \E status \in {200, ErrorStatus(conn[c])}
                        \cup IF conn[c].handler = "health" THEN {} ELSE {422} :
          Keeps(c, Responds(conn[c], "replying", status, 0))

Finish(c) ==
    /\ Alive /\ conn[c].stage = "replying"
    /\ Keeps(c, Responds(conn[c], "done", conn[c].status, conn[c].status))

(* Mutant: recoverer runs inside of logging.                               *)
Recovered_Inside(q) ==
    Responds(q, "done", IF q.status = 0 THEN 500 ELSE q.status, 500)

(* recoverer runs outside of logging, so that a request that panics is not *)
(* logged; its 500 is not the status of a response that had begun.         *)
Recovered(q) ==
    Responds(q, "done", IF q.status = 0 THEN 500 ELSE q.status, 0)

Panic(c) ==
    /\ Alive /\ conn[c].stage \in {"handling", "replying"}
    /\ Keeps(c, Recovered(conn[c]))

-----------------------------------------------------------------------------

MainStep ==
    \/ LoadConfig \/ NewPool \/ MakeTokens \/ Serve \/ SelectErr \/ SelectDone
    \/ ShutdownDone \/ ShutdownExpires \/ ClosePool \/ Exit

Handler(c) ==
    \/ Arrive(c) \/ Borrow(c) \/ Return(c) \/ BorrowFails(c) \/ Reply(c)
    \/ Finish(c) \/ Panic(c)

ServerNext ==
    \/ MainStep \/ Listen \/ AcceptFails \/ Signal
    \/ \E c \in Conn : Connect(c) \/ Handler(c)

(* The main goroutine runs, the timer of the shutdown fires, and Postgres  *)
(* answers every statement in the end, be it with an error.                *)
ServerFairness ==
    /\ WF_serverVars(MainStep)
    /\ \A c \in Conn : WF_serverVars(Return(c))

ServerSpec == ServerInit /\ [][ServerNext]_serverVars /\ ServerFairness

-----------------------------------------------------------------------------
(* The inductive invariant.                                                *)

(* A request: what has been written when, and for whom.                    *)
RequestOK(q) ==
    /\ q.stage \in {"none", "connected", "handling", "statement"} => q.status = 0
    /\ q.stage \in {"replying", "done"} => q.status # 0
    /\ q.logged # 0 => q.logged = q.status
    /\ q.stage \in Running /\ q.handler = "user" => q.user = "known"

(* Where it stands against the server.                                     *)
ConnInv ==
    \A c \in Conn :
        /\ RequestOK(conn[c])
        /\ c \in refused => pool = "closing"
        /\ conn[c].stage # "none" => listener # "off"
        /\ conn[c].stage = "cut" => main = "exited"

(* The main goroutine: what it has done before it is where it is.          *)
MainInv ==
    /\ main \in {"load", "ping"} => pool = "none"
    /\ main \in {"load", "ping", "keys", "serve"} =>
          listener = "off" /\ errCh = "none" /\ ~ catching
    /\ main \in {"keys", "serve", "select", "shutdown", "close"} => pool = "open"
    /\ main \notin {"load", "exited"} => Load(env)
    /\ main = "serve" => NewJWTService(Parse(env))
    /\ main = "select" => errCh # "closed"
    /\ main = "shutdown" => signalled /\ listener # "on"
    /\ listener # "off" =>
          Load(env) /\ NewJWTService(Parse(env)) /\ pool # "none"
    /\ main # "exited" => exit = "none"
    /\ exit = "0" => result = "0"

(* serve returned nil: it was told to, nothing runs, nothing can arrive.   *)
DrainedInv ==
    result = "0" =>
        /\ main \in {"close", "closing", "exited"}
        /\ signalled
        /\ listener # "on"
        /\ \A c \in Conn : conn[c].stage \in {"none", "done"} /\ c \notin refused

(* What the theorems of Server_proofs rest on: a server that returned nil  *)
(* from serve has nothing running and never will again.                    *)
ServerInv == ServerTypeOK /\ ConnInv /\ MainInv /\ DrainedInv

-----------------------------------------------------------------------------
(* Properties.                                                             *)

(* An orderly shutdown: when the process exits with 0, every request that  *)
(* had arrived has been answered, and none of them was refused a           *)
(* connection because the pool was being closed under it.                  *)
NoneCutShort ==
    exit = "0" =>
        /\ \A c \in Conn : conn[c].stage \in {"none", "connected", "done"}
        /\ refused = {}

(* Whatever makes the server stop, a failed listener or an expired         *)
(* shutdown included, the process does not exit in the middle of a         *)
(* statement: only a signal it no longer catches can do that.              *)
NoStatementCut ==
    [][main' = "exited" /\ exit' # "killed" => In({"statement"}) = {}]_serverVars

(* The process exits with 0 only when it was told to stop; anything else   *)
(* is a failure, which the service manager answers with a restart.         *)
NeverSilentlyStops == exit = "0" => signalled

(* A server that listens has been able to check all it needs: a database,  *)
(* keys to sign and verify with, and tokens that do not expire as they     *)
(* are issued.                                                             *)
ServesOnlyConfigured ==
    listener = "on" =>
        LET cfg == Parse(env) IN
        /\ "DATABASE_URL" \in DOMAIN env /\ "GOOGLE_CLIENT_ID" \in DOMAIN env
        /\ {cfg.ttl, cfg.verificationTTL} \subseteq Nat \ {0}
        /\ IF cfg.method = "HS256" THEN cfg.secret # ""
                                   ELSE cfg.private = "pem" /\ cfg.public = "pem"
        /\ pool # "none"
        /\ BodyLimit(cfg) > 0

(* Every request whose handler is over has had a status, also if the       *)
(* handler panicked, and a line of the log never tells another one.        *)
LoggedStatusIsSent ==
    \A c \in Conn :
        /\ conn[c].stage = "done" => conn[c].status # 0
        /\ conn[c].logged # 0 => conn[c].logged = conn[c].status

(* A handler that works on behalf of a user has one: the id it reads was   *)
(* put there by the middleware, from a token that was verified.            *)
UserIsKnown ==
    \A c \in In(Running) : conn[c].handler = "user" => conn[c].user = "known"

(* A process that was told to stop stops, however long its handlers take.  *)
StopsWhenTold == signalled ~> main = "exited"
=============================================================================

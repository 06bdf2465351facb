------------------------------- MODULE Router -------------------------------
(***************************************************************************)
(* The routes of the API and the chain of middlewares before a handler:    *)
(* which handler a request reaches, with whose id, or what it is answered  *)
(* on the way.  A path is one of a route, {id} written :id, or another.     *)
(***************************************************************************)
EXTENDS ErrorCodes

Public(m, p, h) == [method |-> m, path |-> p, handler |-> h, group |-> "public"]

Protected(m, p, h) == [method |-> m, path |-> p, handler |-> h, group |-> "protected"]

EventRoutes ==
    {Protected("POST", "/events", "createEvent"),
     Protected("GET", "/events", "queryEvents"),
     Protected("GET", "/events/export", "exportEvents"),
     Protected("POST", "/events/import", "importEvents"),
     Protected("GET", "/events/:id", "getEvent"),
     Protected("PATCH", "/events/:id", "updateEvent"),
     Protected("PATCH", "/events/:id/status", "changeStatus"),
     Protected("DELETE", "/events/:id", "deleteEvent")}

AccountRoutes ==
    {Protected("POST", "/account/link-google", "linkGoogle"),
     Protected("DELETE", "/account/link-google", "unlinkGoogle"),
     Protected("DELETE", "/account", "deleteAccount")}

(* Mutant: /auth/me stays outside of the group that asks for a token.      *)
AuthRoutes_MePublic ==
    {Public("POST", "/auth/register", "register"),
     Public("POST", "/auth/login", "login"),
     Public("POST", "/auth/google", "google"),
     Public("POST", "/auth/verify-email/confirm", "confirmVerification"),
     Public("GET", "/auth/me", "me"),
     Protected("POST", "/auth/verify-email/request", "requestVerification")}

AuthRoutes ==
    {Public("POST", "/auth/register", "register"),
     Public("POST", "/auth/login", "login"),
     Public("POST", "/auth/google", "google"),
     Public("POST", "/auth/verify-email/confirm", "confirmVerification"),
     Protected("GET", "/auth/me", "me"),
     Protected("POST", "/auth/verify-email/request", "requestVerification")}

Routes ==
    {Public("GET", "/health", "health")} \cup AuthRoutes \cup EventRoutes
        \cup AccountRoutes

Path == {route.path : route \in Routes} \cup {"/other"}

Method == {"GET", "POST", "PATCH", "DELETE", "PUT", "OPTIONS"}

(* The Authorization header: none, one that Verify refuses, or a token of  *)
(* a user.                                                                 *)
Bearer == {"none", "bad", "good"}

(* The handlers that take the user from userIDFrom.                        *)
EventHandlersReadUser ==
    {"createEvent", "queryEvents", "exportEvents", "importEvents", "getEvent",
     "updateEvent", "changeStatus", "deleteEvent"}

AccountHandlersReadUser ==
    {"me", "requestVerification", "linkGoogle", "unlinkGoogle", "deleteAccount"}

ReadsUser(h) == h \in EventHandlersReadUser \cup AccountHandlersReadUser

Answered(status) == [handler |-> "none", user |-> "none", status |-> status]

Reached(h, user) == [handler |-> h, user |-> user, status |-> 0]

(* The middleware puts the id of the user into the context.                *)
UserOf(route) == IF route.group = "protected" THEN "known" ELSE "none"

(* A segment that has routes of its own is also an {id}: chi falls back to *)
(* the parameter where the segment has no handler for the method.          *)
Matches(route, path) ==
    \/ route.path = path
    \/ /\ route.path = "/events/:id"
       /\ path \in {"/events/export", "/events/import"}

(* Of the routes with a handler for the method, the one spelled out.       *)
Chosen(routes, path) ==
    LET spelled == {route \in routes : route.path = path} IN
    CHOOSE route \in (IF spelled # {} THEN spelled ELSE routes) : TRUE

(* cors answers every OPTIONS before the router looks at the path; the     *)
(* router refuses what has no route before any token is looked at.         *)
Outcome(method, path, bearer) ==
    LET here == {route \in Routes : Matches(route, path)}
        routes == {route \in here : route.method = method} IN
    CASE method = "OPTIONS" -> Answered(204)
      [] method # "OPTIONS" /\ here = {} -> Answered(StatusForCode("event_not_found"))
      [] method # "OPTIONS" /\ here # {} /\ routes = {} ->
            Answered(StatusForCode("method_not_allowed"))
      [] OTHER ->
            LET route == Chosen(routes, path) IN
            IF route.group = "protected" /\ bearer # "good"
            THEN Answered(StatusForCode("unauthorized"))
            ELSE Reached(route.handler, UserOf(route))
=============================================================================

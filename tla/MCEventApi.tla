----------------------------- MODULE MCEventApi -----------------------------
(* EventApi on a small instance: a full body, bodies that deviate from it  *)
(* in one key, and patches of one key or of two that are validated or      *)
(* merged together.                                                        *)
EXTENDS EventApi, TLC

CONSTANTS ana, beto

MCTrim == "texto" :> "texto" @@ " texto " :> "texto" @@ "otro" :> "otro"
          @@ "nul" :> "nul" @@ "  " :> "" @@ "" :> ""

Full ==
    [eventType |-> "cita", contactName |-> "nombre", contactRef |-> "ref",
     locationLat |-> 45, locationLng |-> 100, locationLabel |-> "casa",
     description |-> "texto", startsAt |-> 20, reminderType |-> "none"]

With(b, k, v) == [x \in DOMAIN b \cup {k} |-> IF x = k THEN v ELSE b[x]]

Without(b, k) == [x \in DOMAIN b \ {k} |-> b[x]]

MCCreateBody ==
    {Full, With(Full, "startsAt", 21), With(Full, "startsAt", 100),
     With(Full, "description", " texto "), With(Full, "description", "  "),
     With(Full, "description", "nul"), With(Full, "eventType", "fiesta"),
     With(Full, "locationLat", -91), With(Full, "reminderType", Null),
     With(Full, "contactRef", WrongType), With(Full, "eventStatus", "realizado"),
     Without(Full, "startsAt")}

MCPatchBody ==
    {<<>>, "locationLat" :> 100, "locationLng" :> 181, "locationLng" :> -180,
     "locationLat" :> 90 @@ "locationLng" :> 120,
     "contactName" :> "" @@ "contactRef" :> "otra",
     "locationLabel" :> "oficina" @@ "locationLat" :> Null,
     "description" :> "  " @@ "eventType" :> "fiesta",
     "description" :> " texto ", "description" :> "nul",
     "startsAt" :> 31, "startsAt" :> 100, "reminderType" :> "at_time",
     "eventStatus" :> "realizado", "contactRef" :> WrongType}

MCItemChange ==
    "eventStatus" :> {"perdido", Null, WrongType} @@ "description" :> {"nul", "  "}
    @@ "id" :> {1, 2, Null} @@ "startsAt" :> {21, 100}

MCSymmetry == Permutations(User)
=============================================================================

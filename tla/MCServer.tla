------------------------------ MODULE MCServer ------------------------------
(* Server with two connections, two signals, and environments that differ  *)
(* in one or two variables from a good one.                                *)
EXTENDS Server, TLC

CONSTANTS c1, c2

MCGood ==
    "DATABASE_URL" :> "url" @@ "GOOGLE_CLIENT_ID" :> "id" @@ "JWT_SECRET" :> "secret"

MCRS256 == "JWT_SIGNING_METHOD" :> "RS256" @@ MCGood

MCEnvironment ==
    {MCGood, "JWT_SIGNING_METHOD" :> "none" @@ MCGood,
     "JWT_TTL_SECONDS" :> NotInt @@ MCGood, "JWT_TTL_SECONDS" :> 0 @@ MCGood,
     "EMAIL_VERIFICATION_TTL_SECONDS" :> 0 @@ MCGood,
     "MAX_BODY_BYTES" :> 0 @@ MCGood, MCRS256,
     "JWT_PRIVATE_KEY" :> "pem" @@ MCRS256,
     "JWT_PRIVATE_KEY" :> "pem" @@ "JWT_PUBLIC_KEY" :> "pem" @@ MCRS256,
     "JWT_PRIVATE_KEY" :> "pem" @@ "JWT_PUBLIC_KEY" :> "garbage" @@ MCRS256}
    \cup {[k \in DOMAIN MCGood \ {v} |-> MCGood[k]] : v \in DOMAIN MCGood}
=============================================================================

------------------------------- MODULE Config -------------------------------
(***************************************************************************)
(* config.Load and the checks of NewJWTService: which environments let the *)
(* process start.  An environment is a function from the variables that    *)
(* are set and not empty to their values; a PEM is good or garbage, the    *)
(* numbers fit their types and the durations do not overflow.              *)
(***************************************************************************)
EXTENDS Integers

CONSTANT
    NotInt      \* the value of a variable that should be an int and is not

Getenv(env, k, default) == IF k \in DOMAIN env THEN env[k] ELSE default

Int64Vars ==
    {"EMAIL_VERIFICATION_TTL_SECONDS", "JWT_TTL_SECONDS", "BCRYPT_COST",
     "MAX_BODY_BYTES"}

Parse(env) ==
    [database |-> Getenv(env, "DATABASE_URL", ""),
     google |-> Getenv(env, "GOOGLE_CLIENT_ID", ""),
     method |-> Getenv(env, "JWT_SIGNING_METHOD", "HS256"),
     secret |-> Getenv(env, "JWT_SECRET", ""),
     private |-> Getenv(env, "JWT_PRIVATE_KEY", ""),
     public |-> Getenv(env, "JWT_PUBLIC_KEY", ""),
     ttl |-> Getenv(env, "JWT_TTL_SECONDS", 86400),
     verificationTTL |-> Getenv(env, "EMAIL_VERIFICATION_TTL_SECONDS", 86400),
     cost |-> Getenv(env, "BCRYPT_COST", 12),
     maxBody |-> Getenv(env, "MAX_BODY_BYTES", 1048576)]

(* Mutant: the lifetime of verification tokens is not looked at.           *)
Valid_AnyTTL(cfg) ==
    /\ cfg.database # "" /\ cfg.google # ""
    /\ \/ cfg.method = "HS256" /\ cfg.secret # ""
       \/ cfg.method = "RS256" /\ cfg.private # "" /\ cfg.public # ""
    /\ cfg.ttl > 0

Valid(cfg) ==
    /\ cfg.database # "" /\ cfg.google # ""
    /\ \/ cfg.method = "HS256" /\ cfg.secret # ""
       \/ cfg.method = "RS256" /\ cfg.private # "" /\ cfg.public # ""
    /\ cfg.ttl > 0
    /\ cfg.verificationTTL > 0

Load(env) ==
    /\ \A k \in Int64Vars \cap DOMAIN env : env[k] # NotInt
    /\ Valid(Parse(env))

(* NewJWTService parses the keys; whether they are a pair is not looked at. *)
NewJWTService(cfg) ==
    /\ cfg.ttl > 0
    /\ \/ cfg.method = "HS256" /\ cfg.secret # ""
       \/ cfg.method = "RS256" /\ cfg.private = "pem" /\ cfg.public = "pem"

(* What NewRouter makes of MAX_BODY_BYTES.                                 *)
BodyLimit(cfg) == IF cfg.maxBody <= 0 THEN 1048576 ELSE cfg.maxBody
=============================================================================

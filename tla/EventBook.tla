------------------------------ MODULE EventBook ------------------------------
(***************************************************************************)
(* What the event service promises, whatever its requests interleave to: a *)
(* book of events in which each write is atomic.  An event is entered      *)
(* under an id that never named another one, in the name of an open        *)
(* account; its owner and the instant of its creation never change; once   *)
(* erased it stays erased; closing an account takes all its events away.   *)
(***************************************************************************)
CONSTANTS EventId, Owner, Instant, Content

VARIABLES
    open,       \* the accounts
    book,       \* event id -> [owner, created, content]
    erased      \* ids of events that were erased

bookVars == <<open, book, erased>>

Init ==
    /\ open \in SUBSET Owner
    /\ book = [i \in {} |-> [owner |-> i, created |-> i, content |-> i]]
    /\ erased = {}

Enter(i, o, t, c) ==
    /\ i \notin DOMAIN book \cup erased
    /\ o \in open
    /\ book' = [x \in DOMAIN book \cup {i} |->
                   IF x = i THEN [owner |-> o, created |-> t, content |-> c]
                            ELSE book[x]]
    /\ UNCHANGED <<open, erased>>

Rewrite(i, c) ==
    /\ i \in DOMAIN book
    /\ book' = [book EXCEPT ![i].content = c]
    /\ UNCHANGED <<open, erased>>

Without(I) ==
    /\ book' = [x \in DOMAIN book \ I |-> book[x]]
    /\ erased' = erased \cup (I \cap DOMAIN book)

Erase(i) == i \in DOMAIN book /\ Without({i}) /\ UNCHANGED open

Open(o) ==
    /\ o \notin open
    /\ open' = open \cup {o}
    /\ UNCHANGED <<book, erased>>

Close(o) ==
    /\ o \in open
    /\ open' = open \ {o}
    /\ Without({i \in DOMAIN book : book[i].owner = o})

Next ==
    \/ \E i \in EventId :
          \/ \E o \in Owner, t \in Instant, c \in Content : Enter(i, o, t, c)
          \/ \E c \in Content : Rewrite(i, c)
          \/ Erase(i)
    \/ \E o \in Owner : Open(o) \/ Close(o)

Spec == Init /\ [][Next]_bookVars
=============================================================================

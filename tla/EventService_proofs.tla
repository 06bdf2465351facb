------------------------ MODULE EventService_proofs -------------------------
(***************************************************************************)
(* EventInv is an invariant of EventService, for any number of users,      *)
(* events, requests in flight and failures, and any documents to import;   *)
(* its properties and the refinement of EventBook follow from it.          *)
(***************************************************************************)
EXTENDS EventService, TLAPS

(* The part of the invariant that speaks of the tables alone.              *)
EventTablesOK ==
    /\ accounts \subseteq User
    /\ DOMAIN events \subseteq EventId
    /\ events \in [DOMAIN events -> EventRow]
    /\ issued \subseteq EventId
    /\ removed \subseteq issued
    /\ now \in 0 .. LastInstant
    /\ outages \in 0 .. EventFaults
    /\ SealedInOrder
    /\ DeletedStaysDeleted
    /\ NoOrphanEvents

WritesOK(q) == \A k \in 1 .. Len(q.todo) : WriteOK(q, q.todo[k])

(* The part that speaks of the requests.                                   *)
EventMemoryOK ==
    /\ ereq \in [EventRequest -> EventRequestState]
    /\ \A r \in EventRequest : ereq[r].pos \in 1 .. Len(ereq[r].doc) + 1
    /\ PendingIds
    /\ \A r \in EventRequest : EControlOK(ereq[r]) /\ WritesOK(ereq[r])

(* The part that speaks of the response.                                   *)
EventAnswerOK ==
    /\ eanswer.op \in EventOp /\ eanswer.code \in Code
    /\ eanswer.rows \subseteq EventId
    /\ SummaryAccountsForAll

(* EventInv splits into these three parts.                                 *)
LEMMA EventParts ==
    EventInv <=> EventTablesOK /\ EventMemoryOK /\ EventAnswerOK
BY DEF EventInv, EventTypeOK, EventTablesOK, EventMemoryOK, EventAnswerOK,
       WritesOK

(* The same of the next state.                                             *)
LEMMA EventPartsNext ==
    EventTablesOK' /\ EventMemoryOK' /\ EventAnswerOK' => EventInv'
BY DEF EventInv, EventTypeOK, EventTablesOK, EventMemoryOK, EventAnswerOK,
       WritesOK

-----------------------------------------------------------------------------
(* Writes keep the table of events consistent.                             *)

(* An INSERT that the constraints let through.                             *)
LEMMA InsertKeepsEvents ==
    ASSUME EventTablesOK, NEW i \in issued, NEW row \in EventRow,
           i \notin DOMAIN events \cup removed, row.user \in accounts,
           row.created <= row.updated, row.updated <= now,
           InsertEvent(i, row),
           UNCHANGED <<accounts, issued, removed, now>>,
           outages' \in 0 .. EventFaults
    PROVE  EventTablesOK'
<1>1. /\ DOMAIN events' = DOMAIN events \cup {i}
      /\ \A x \in DOMAIN events : events'[x] = events[x]
      /\ events'[i] = row
  BY DEF InsertEvent
<1>2. events' \in [DOMAIN events' -> EventRow]
  BY <1>1 DEF EventTablesOK, InsertEvent
<1>3. SealedInOrder' /\ DeletedStaysDeleted' /\ NoOrphanEvents'
  BY <1>1
     DEF EventTablesOK, SealedInOrder, DeletedStaysDeleted, NoOrphanEvents
<1> QED
  BY <1>1, <1>2, <1>3 DEF EventTablesOK

(* An UPDATE of an event of the same user, which keeps its created_at.     *)
LEMMA UpdateKeepsEvents ==
    ASSUME EventTablesOK, NEW i \in DOMAIN events, NEW row \in EventRow,
           row.user = events[i].user, row.created = events[i].created,
           row.created <= row.updated, row.updated <= now,
           UpdateRow(i, row),
           UNCHANGED <<accounts, issued, removed, now>>,
           outages' \in 0 .. EventFaults
    PROVE  /\ EventTablesOK'
           /\ DOMAIN events' = DOMAIN events
           /\ \A x \in DOMAIN events : x # i => events'[x] = events[x]
           /\ events'[i] = row
<1>1. [row EXCEPT !.created = events[i].created] = row
  BY DEF EventRow
<1>2. /\ DOMAIN events' = DOMAIN events
      /\ \A x \in DOMAIN events : x # i => events'[x] = events[x]
      /\ events'[i] = row
  BY <1>1 DEF UpdateRow, EventTablesOK
<1>3. events' \in [DOMAIN events' -> EventRow]
  BY <1>1, <1>2 DEF EventTablesOK, UpdateRow
<1>4. SealedInOrder' /\ DeletedStaysDeleted' /\ NoOrphanEvents'
  BY <1>2
     DEF EventTablesOK, SealedInOrder, DeletedStaysDeleted, NoOrphanEvents
<1> QED
  BY <1>2, <1>3, <1>4 DEF EventTablesOK

(* A DELETE of events, of one or of all of an account that goes.           *)
LEMMA RemoveKeepsEvents ==
    ASSUME EventTablesOK, NEW I, RemoveEvents(I), accounts' \subseteq User,
           \A i \in DOMAIN events \ I : events[i].user \in accounts',
           UNCHANGED <<issued, now>>, outages' \in 0 .. EventFaults
    PROVE  EventTablesOK'
<1>1. /\ DOMAIN events' = DOMAIN events \ I
      /\ \A x \in DOMAIN events' : events'[x] = events[x]
      /\ removed' = removed \cup (I \cap DOMAIN events)
  BY DEF RemoveEvents
<1>2. events' \in [DOMAIN events' -> EventRow]
  BY <1>1 DEF EventTablesOK, RemoveEvents
<1>3. SealedInOrder' /\ DeletedStaysDeleted' /\ NoOrphanEvents'
  BY <1>1
     DEF EventTablesOK, SealedInOrder, DeletedStaysDeleted, NoOrphanEvents
<1>4. removed' \subseteq issued'
  BY <1>1 DEF EventTablesOK, NoOrphanEvents
<1> QED
  BY <1>1, <1>2, <1>3, <1>4 DEF EventTablesOK

-----------------------------------------------------------------------------
(* A step of one request keeps what the others rely on.                    *)

(* What happens to the table while a request waits for its next call:      *)
(* events keep their created_at, go for good, and come under ids that are  *)
(* in no case those that request r is about to insert.                     *)
TablesEvolve ==
    /\ issued \subseteq issued'
    /\ now <= now'
    /\ removed \subseteq removed'
    /\ removed' \subseteq removed \cup DOMAIN events
    /\ DOMAIN events \subseteq DOMAIN events' \cup removed'
    /\ \A i \in DOMAIN events \cap DOMAIN events' :
          events'[i].created = events[i].created

NewEvents == DOMAIN events' \ DOMAIN events

(* What a request is about to write holds after such a step.               *)
LEMMA WriteStaysOK ==
    ASSUME EventTablesOK, now' \in Nat, TablesEvolve, NEW q,
           NEW w \in Prepared, WriteOK(q, w), w.id \notin NewEvents
    PROVE  WriteOK(q, w)'
<1>1. /\ w.row.user = q.uid
      /\ w.row.created <= w.row.updated
      /\ w.row.updated <= now'
  <2>1. now \in Nat /\ w.row.updated \in Nat
    BY DEF EventTablesOK, Prepared, EventRow
  <2> QED
    BY <2>1 DEF WriteOK, TablesEvolve
<1>2. ~ w.isUpdate => w.id \in issued' \ (DOMAIN events' \cup removed')
  BY DEF WriteOK, TablesEvolve, NewEvents
<1>3. w.isUpdate => w.id \in DOMAIN events' \cup removed'
  BY DEF WriteOK, TablesEvolve
<1>4. w.isUpdate /\ w.id \in DOMAIN events'
         => w.row.created = events'[w.id].created
  BY DEF WriteOK, TablesEvolve, NewEvents
<1> QED
  BY <1>1, <1>2, <1>3, <1>4 DEF WriteOK

InsertsOf(q) == {k \in 1 .. Len(q.todo) : ~ q.todo[k].isUpdate}

(* Request r goes on with memory q, whose INSERTs are some of those it had *)
(* or have new ids, and the only events that came are its own.             *)
LEMMA MemoryStep ==
    ASSUME EventTablesOK, EventMemoryOK, NEW r \in EventRequest,
           NEW q \in EventRequestState, q.pos \in 1 .. Len(q.doc) + 1,
           ereq' = [ereq EXCEPT ![r] = q],
           EControlOK(q), WritesOK(q)',
           now' \in Nat, TablesEvolve,
           \A i \in NewEvents : \E j \in Inserts(r) : i = ereq[r].todo[j].id,
           \A k \in InsertsOf(q) :
               \/ q.todo[k].id \notin issued
               \/ \E j \in Inserts(r) : q.todo[k].id = ereq[r].todo[j].id,
           \A j, k \in InsertsOf(q) : q.todo[j].id = q.todo[k].id => j = k
    PROVE  EventMemoryOK'
<1>1. /\ ereq'[r] = q
      /\ \A s \in EventRequest : s # r => ereq'[s] = ereq[s]
      /\ ereq' \in [EventRequest -> EventRequestState]
  BY DEF EventMemoryOK
<1>2. ASSUME NEW s \in EventRequest, s # r,
             NEW k \in 1 .. Len(ereq[s].todo)
      PROVE  /\ ereq[s].todo[k] \in Prepared
             /\ WriteOK(ereq[s], ereq[s].todo[k])
             /\ ereq[s].todo[k].id \notin NewEvents
             /\ k \in Inserts(s) =>
                   /\ ereq[s].todo[k].id \in issued
                   /\ \A j \in Inserts(r) :
                         ereq[r].todo[j].id # ereq[s].todo[k].id
  <2>1. ereq[s] \in EventRequestState
    BY DEF EventMemoryOK
  <2>2. ereq[s].todo \in Seq(Prepared)
    BY <2>1 DEF EventRequestState
  <2>3. ereq[s].todo[k] \in Prepared
    BY <2>2
  <2>4. WriteOK(ereq[s], ereq[s].todo[k])
    BY DEF EventMemoryOK, WritesOK
  <2>5. k \in Inserts(s) =>
           /\ ereq[s].todo[k].id \in issued
           /\ \A j \in Inserts(r) : ereq[r].todo[j].id # ereq[s].todo[k].id
    BY <1>2, <2>4 DEF EventMemoryOK, PendingIds, WriteOK, Inserts
  <2>6. ereq[s].todo[k].id \notin NewEvents
    <3>1. CASE k \in Inserts(s)
      BY <2>5, <3>1
    <3>2. CASE k \notin Inserts(s)
      <4>1. ereq[s].todo[k].isUpdate
        BY <3>2 DEF Inserts
      <4>2. ereq[s].todo[k].id \in DOMAIN events \cup removed
        BY <2>4, <4>1 DEF WriteOK
      <4>3. \A j \in Inserts(r) :
               ereq[r].todo[j].id \notin DOMAIN events \cup removed
        BY DEF EventMemoryOK, WritesOK, WriteOK, Inserts
      <4> QED
        BY <4>2, <4>3
    <3> QED
      BY <3>1, <3>2
  <2> QED
    BY <2>3, <2>4, <2>5, <2>6
<1>3. \A s \in EventRequest : EControlOK(ereq'[s]) /\ WritesOK(ereq[s])'
  <2> TAKE s \in EventRequest
  <2>1. CASE s = r
    BY <1>1, <2>1 DEF WritesOK
  <2>2. CASE s # r
    <3>1. ereq'[s] = ereq[s] /\ EControlOK(ereq[s])
      BY <1>1, <2>2 DEF EventMemoryOK
    <3>2. \A k \in 1 .. Len(ereq[s].todo) : WriteOK(ereq[s], ereq[s].todo[k])'
      <4> TAKE k \in 1 .. Len(ereq[s].todo)
      <4>1. PICK x : x = ereq[s]
        OBVIOUS
      <4>2. PICK w : w = x.todo[k]
        OBVIOUS
      <4>3. w \in Prepared /\ WriteOK(x, w) /\ w.id \notin NewEvents
        BY <1>2, <2>2, <4>1, <4>2
      <4>4. WriteOK(x, w)'
        BY <4>3, WriteStaysOK
      <4> QED
        BY <3>1, <4>1, <4>2, <4>4
    <3> QED
      BY <3>1, <3>2 DEF WritesOK
  <2> QED
    BY <2>1, <2>2
<1>4. PendingIds'
  <2> SUFFICES ASSUME NEW s \in EventRequest, NEW t \in EventRequest,
                      NEW j \in InsertsOf(ereq'[s]),
                      NEW k \in InsertsOf(ereq'[t]),
                      ereq'[s].todo[j].id = ereq'[t].todo[k].id
               PROVE  s = t /\ j = k
    BY DEF PendingIds, Inserts, InsertsOf
  <2>1. CASE s = r /\ t = r
    BY <1>1, <2>1
  <2>2. CASE s # r /\ t # r
    BY <1>1, <2>2 DEF EventMemoryOK, PendingIds, Inserts, InsertsOf
  <2>3. CASE s = r /\ t # r
    BY <1>1, <1>2, <2>3 DEF Inserts, InsertsOf
  <2>4. CASE s # r /\ t = r
    BY <1>1, <1>2, <2>4 DEF Inserts, InsertsOf
  <2> QED
    BY <2>1, <2>2, <2>3, <2>4
<1>5. \A s \in EventRequest : ereq'[s].pos \in 1 .. Len(ereq'[s].doc) + 1
  BY <1>1 DEF EventMemoryOK
<1> QED
  BY <1>1, <1>3, <1>4, <1>5 DEF EventMemoryOK

(* A step that writes no event.                                            *)
LEMMA NoWrite ==
    ASSUME EventInv, UNCHANGED <<accounts, events, removed, now>>,
           issued \subseteq issued', issued' \subseteq EventId,
           outages' \in 0 .. EventFaults
    PROVE  EventTablesOK' /\ TablesEvolve /\ NewEvents = {}
<1>1. EventTablesOK
  BY EventParts
<1>2. now \in Nat
  BY <1>1 DEF EventTablesOK
<1> QED
  BY <1>1, <1>2
     DEF EventTablesOK, SealedInOrder, DeletedStaysDeleted, NoOrphanEvents,
         TablesEvolve, NewEvents

(* Once answered, a request remembers nothing.                             *)
LEMMA EIdleOK ==
    /\ EIdle \in EventRequestState
    /\ EIdle.pos \in 1 .. Len(EIdle.doc) + 1
    /\ EIdle.call = "none" /\ EIdle.todo = <<>> /\ EIdle.op = "none"
    /\ EControlOK(EIdle)
    /\ WritesOK(EIdle)'
    /\ InsertsOf(EIdle) = {}
<1>1. EIdle.call = "none" /\ EIdle.todo = <<>> /\ EIdle.op = "none"
  BY DEF EIdle
<1>2. EIdle \in EventRequestState
  BY DEF EIdle, EventRequestState, EventOp, EventCall
<1>3. EIdle.pos \in 1 .. Len(EIdle.doc) + 1
  BY DEF EIdle
<1>4. EControlOK(EIdle)
  BY <1>1 DEF EControlOK
<1> QED
  BY <1>1, <1>2, <1>3, <1>4 DEF WritesOK, InsertsOf

(* A handler that answers, after a write or without one.                   *)
LEMMA ShowsKeeps ==
    ASSUME EventInv, NEW r \in EventRequest, NEW q, NEW code \in Code,
           NEW rows \in SUBSET EventId, Shows(r, q, code, rows),
           q.op \in EventOp,
           q.op = "import" /\ code = "ok"
               => q.imported + q.updated + q.failed = Len(q.doc),
           EventTablesOK', TablesEvolve,
           \A i \in NewEvents : \E j \in Inserts(r) : i = ereq[r].todo[j].id
    PROVE  EventInv'
<1>1. EventTablesOK /\ EventMemoryOK
  BY EventParts
<1>2. ereq' = [ereq EXCEPT ![r] = EIdle] /\ now' \in Nat
  BY DEF Shows, EventTablesOK
<1>3. EventMemoryOK'
  BY <1>1, <1>2, EIdleOK, MemoryStep
<1>4. EventAnswerOK'
  BY DEF Shows, EventAnswerOK, SummaryAccountsForAll
<1> QED
  BY <1>3, <1>4, EventPartsNext

(* A handler that goes on to its next call, after a write or without one.  *)
LEMMA GoesKeeps ==
    ASSUME EventInv, NEW r \in EventRequest, NEW q \in EventRequestState,
           Goes(r, q), q.pos \in 1 .. Len(q.doc) + 1,
           EControlOK(q), WritesOK(q)', EventTablesOK', TablesEvolve,
           \A i \in NewEvents : \E j \in Inserts(r) : i = ereq[r].todo[j].id,
           \A k \in InsertsOf(q) :
               \/ q.todo[k].id \notin issued
               \/ \E j \in Inserts(r) : q.todo[k].id = ereq[r].todo[j].id,
           \A j, k \in InsertsOf(q) : q.todo[j].id = q.todo[k].id => j = k
    PROVE  EventInv'
<1>1. EventTablesOK /\ EventMemoryOK
  BY EventParts
<1>2. ereq' = [ereq EXCEPT ![r] = q] /\ now' \in Nat
  BY DEF Goes, EventTablesOK
<1>3. EventMemoryOK'
  BY <1>1, <1>2, MemoryStep
<1>4. EventAnswerOK'
  BY DEF Goes, ENoAnswer, EventAnswerOK, SummaryAccountsForAll, EventOp, Code
<1> QED
  BY <1>3, <1>4, EventPartsNext

(* Both, for the steps that write no event.                                *)
LEMMA QuietShows ==
    ASSUME EventInv, NEW r \in EventRequest, NEW q, NEW code \in Code,
           NEW rows \in SUBSET EventId, Shows(r, q, code, rows),
           q.op \in EventOp,
           q.op = "import" /\ code = "ok"
               => q.imported + q.updated + q.failed = Len(q.doc),
           UNCHANGED <<accounts, events, removed, now>>,
           issued \subseteq issued', issued' \subseteq EventId,
           outages' \in 0 .. EventFaults
    PROVE  EventInv'
BY NoWrite, ShowsKeeps

(* A request that goes on without touching a table keeps the invariant.    *)
LEMMA QuietGoes ==
    ASSUME EventInv, NEW r \in EventRequest, NEW q \in EventRequestState,
           Goes(r, q), q.pos \in 1 .. Len(q.doc) + 1,
           EControlOK(q), WritesOK(q)',
           UNCHANGED <<accounts, events, removed, now>>,
           issued \subseteq issued', issued' \subseteq EventId,
           outages' \in 0 .. EventFaults,
           \A k \in InsertsOf(q) :
               \/ q.todo[k].id \notin issued
               \/ \E j \in Inserts(r) : q.todo[k].id = ereq[r].todo[j].id,
           \A j, k \in InsertsOf(q) : q.todo[j].id = q.todo[k].id => j = k
    PROVE  EventInv'
BY NoWrite, GoesKeeps

-----------------------------------------------------------------------------
(* Each action keeps the invariant.                                        *)

(* The fields of a request that has just arrived.                          *)
LEMMA StartOK ==
    ASSUME NEW op \in EventOp, NEW u \in User
    PROVE  /\ Start(op, u) \in EventRequestState
           /\ Start(op, u).op = op /\ Start(op, u).uid = u
           /\ Start(op, u).todo = <<>> /\ Start(op, u).doc = <<>>
           /\ Start(op, u).pos = 1 /\ Start(op, u).failed = 0
           /\ Start(op, u).imported = 0 /\ Start(op, u).updated = 0
           /\ Start(op, u).mode = "partial"
<1>1. EIdle \in EventRequestState
  BY EIdleOK
<1>2. Start(op, u) = [EIdle EXCEPT !.op = op, !.uid = u]
  BY DEF Start
<1>3. Start(op, u) \in EventRequestState
  BY <1>1, <1>2 DEF EventRequestState
<1> QED
  BY <1>2, <1>3 DEF EIdle

(* The fields of a request, whatever it is.                                *)
LEMMA MemoryTyped ==
    ASSUME NEW q \in EventRequestState
    PROVE  /\ q.doc \in Seq(Item) /\ q.todo \in Seq(Prepared)
           /\ q.pos \in Nat /\ q.failed \in Nat
           /\ q.imported \in Nat /\ q.updated \in Nat
<1>1. /\ q.doc \in {<<>>} \cup Document /\ q.todo \in Seq(Prepared)
      /\ q.pos \in Nat /\ q.failed \in Nat
      /\ q.imported \in Nat /\ q.updated \in Nat
  BY DEF EventRequestState
<1>2. <<>> \in Seq(Item)
  OBVIOUS
<1> QED
  BY <1>1, <1>2, DocumentAssumption

(* Requests answered at once: refusals, reads and failures.                *)
LEMMA ERefusalsKeep ==
    ASSUME EventInv, NEW r \in EventRequest, NEW u \in User,
           \/ CreateRefused(r, u) \/ BadPathId(r, u) \/ GetEvent(r, u)
           \/ EFirstCallFails(r, u)
    PROVE  EventInv'
<1>1. /\ outages \in 0 .. EventFaults /\ issued \subseteq EventId
      /\ {"ok", "internal_error", "event_not_found", "validation_failed"}
            \subseteq Code
  BY DEF EventInv, EventTypeOK, Code, ErrorCode
<1>2. /\ UNCHANGED <<accounts, events, issued, removed, now>>
      /\ outages' \in 0 .. EventFaults
  BY <1>1, EventBoundAssumption
     DEF CreateRefused, BadPathId, GetEvent, EFirstCallFails
<1>3. ASSUME NEW q, NEW code \in Code, NEW rows \in SUBSET EventId,
             Shows(r, q, code, rows), q.op \in EventOp \ {"import"}
      PROVE  EventInv'
  BY <1>1, <1>2, <1>3, QuietShows
<1>4. \A op \in EventOp \ {"import"} : Start(op, u).op \in EventOp \ {"import"}
  BY StartOK
<1>5. CASE CreateRefused(r, u)
  BY <1>1, <1>3, <1>4, <1>5 DEF CreateRefused, Reply, EventOp
<1>6. CASE BadPathId(r, u)
  <2>1. PICK op \in {"get", "update", "status", "delete"} :
           \E i \in MalformedId :
              Reply(r, [Start(op, u) EXCEPT !.pid = i], "internal_error")
    BY <1>6, Zenon DEF BadPathId
  <2>2. PICK i \in MalformedId :
           Reply(r, [Start(op, u) EXCEPT !.pid = i], "internal_error")
    BY <2>1, Zenon
  <2>3. PICK q : q = [Start(op, u) EXCEPT !.pid = i]
    OBVIOUS
  <2>4. q.op \in EventOp \ {"import"}
    BY <2>3 DEF Start, EIdle, EventOp
  <2>5. Shows(r, q, "internal_error", {})
    BY <2>2, <2>3 DEF Reply
  <2> QED
    BY <1>1, <1>3, <2>4, <2>5
<1>7. CASE GetEvent(r, u)
  BY <1>1, <1>3, <1>4, <1>7 DEF GetEvent, Reply, EventOp
<1>8. CASE EFirstCallFails(r, u)
  BY <1>1, <1>3, <1>4, <1>8 DEF EFirstCallFails, Reply, EventOp
<1> QED
  BY <1>5, <1>6, <1>7, <1>8

(* QueryEvents and ExportEvents.                                           *)
LEMMA QueriesKeep ==
    ASSUME EventInv, NEW r \in EventRequest,
           QueryPage(r) \/ \E u \in User : QueryCount(r, u)
    PROVE  EventInv'
<1>1. /\ outages \in 0 .. EventFaults /\ issued \subseteq EventId
      /\ {"ok", "validation_failed"} \subseteq Code
  BY DEF EventInv, EventTypeOK, Code, ErrorCode
<1>2. UNCHANGED <<accounts, events, issued, removed, now, outages>>
  BY DEF QueryPage, QueryCount
<1>3. CASE QueryPage(r)
  <2>1. ereq[r].op \in {"query", "export"}
    BY <1>3 DEF QueryPage, EventInv, EControlOK
  <2>2. {i \in EventId : Visible(ereq[r].uid, i)} \in SUBSET EventId
    OBVIOUS
  <2> QED
    BY <1>1, <1>2, <1>3, <2>1, <2>2, QuietShows DEF QueryPage, EventOp
<1>4. ASSUME NEW u \in User, QueryCount(r, u)
      PROVE  EventInv'
  <2>1. PICK op \in {"query", "export"} :
           \/ Goes(r, [Start(op, u) EXCEPT !.call = "QueryPage"])
           \/ Reply(r, Start(op, u), "validation_failed")
    BY <1>4 DEF QueryCount
  <2>2. op \in EventOp /\ op # "import"
    BY DEF EventOp
  <2>3. CASE Reply(r, Start(op, u), "validation_failed")
    BY <1>1, <1>2, <2>2, <2>3, StartOK, QuietShows DEF Reply
  <2>4. CASE Goes(r, [Start(op, u) EXCEPT !.call = "QueryPage"])
    <3> PICK q : q = [Start(op, u) EXCEPT !.call = "QueryPage"]
      OBVIOUS
    <3>1. /\ q \in EventRequestState /\ q.call = "QueryPage" /\ q.op = op
          /\ q.uid = u /\ q.todo = <<>> /\ q.doc = <<>> /\ q.pos = 1
      BY <2>2, StartOK DEF EventRequestState, EventCall
    <3>2. EControlOK(q) /\ WritesOK(q)' /\ InsertsOf(q) = {}
      BY <3>1 DEF EControlOK, WritesOK, InsertsOf
    <3>3. q.pos \in 1 .. Len(q.doc) + 1
      BY <3>1
    <3>4. Goes(r, q)
      BY <2>4
    <3> QED
      BY <1>1, <1>2, <3>1, <3>2, <3>3, <3>4, QuietGoes
  <2> QED
    BY <2>1, <2>3, <2>4
<1> QED
  BY <1>3, <1>4

(* The rows the domain builds are rows of the table.                       *)
LEMMA NewRowOK ==
    ASSUME now \in 0 .. LastInstant, NEW u \in User,
           NEW d \in [Field -> Value], DataOK(d)
    PROVE  /\ NewRow(u, d) \in EventRow
           /\ NewRow(u, d).user = u
           /\ NewRow(u, d).created = now /\ NewRow(u, d).updated = now
<1>1. \A f \in Field : Clean[d[f]] \in StoredValue
  BY ValueAssumption DEF DataOK, StoredValue
<1> QED
  BY <1>1 DEF NewRow, EventRow, Status

(* A merged row is a row, updated not before it was created.               *)
LEMMA EditOK ==
    ASSUME NEW row \in EventRow, NEW p \in Patch, PatchOK(p)
    PROVE  /\ Edit(row, p) \in EventRow
           /\ Edit(row, p).user = row.user
           /\ Edit(row, p).created = row.created
           /\ Edit(row, p).status = row.status
<1>1. \A f \in Field : p[f] # Absent => p[f] \in ValidValue /\ p[f] \in Value
  BY DEF Patch, PatchOK
<1>2. \A f \in Field : p[f] # Absent => Clean[p[f]] \in StoredValue
  BY <1>1, ValueAssumption DEF StoredValue
<1>3. row.data \in [Field -> StoredValue]
  BY DEF EventRow
<1> DEFINE D == [f \in Field |->
                    IF p[f] = Absent THEN row.data[f] ELSE Clean[p[f]]]
<1>4. D \in [Field -> StoredValue]
  BY <1>2, <1>3
<1>5. Edit(row, p) = [row EXCEPT !.data = D]
  BY DEF Edit
<1> HIDE DEF D
<1> QED
  BY <1>4, <1>5 DEF EventRow

(* The row of a valid item is one.                                         *)
LEMMA ItemRowOK ==
    ASSUME now \in 0 .. LastInstant, NEW u \in User, NEW it \in Item,
           ItemOK(it)
    PROVE  /\ ItemRow(u, it) \in EventRow
           /\ ItemRow(u, it).user = u
           /\ ItemRow(u, it).created = now /\ ItemRow(u, it).updated = now
<1>1. it.data \in [Field -> Value] /\ DataOK(it.data)
  BY DEF Item, ItemOK
<1> PICK row : row = NewRow(u, it.data)
  OBVIOUS
<1>2. /\ row \in EventRow /\ row.user = u
      /\ row.created = now /\ row.updated = now
  BY <1>1, NewRowOK
<1>3. it.status # "absent" => it.status \in Status
  BY DEF ItemOK
<1>4. ItemRow(u, it) = [row EXCEPT !.status = IF it.status = "absent"
                                              THEN row.status ELSE it.status]
  BY DEF ItemRow
<1> QED
  BY <1>2, <1>3, <1>4 DEF EventRow

(* Rows of the table pass its CHECKs.                                      *)
LEMMA RowsPassChecks ==
    ASSUME NEW row \in EventRow
    PROVE  ChecksHold(row)
BY DEF EventRow, ChecksHold, StoredValue

(* CreateEvent, up to its INSERT.                                          *)
LEMMA CreateStartKeeps ==
    ASSUME EventInv, NEW r \in EventRequest, NEW u \in User, CreateStart(r, u)
    PROVE  EventInv'
<1>1. /\ outages \in 0 .. EventFaults /\ issued \subseteq EventId
      /\ now \in 0 .. LastInstant
      /\ DOMAIN events \subseteq issued /\ removed \subseteq issued
  BY DEF EventInv, EventTypeOK, NoOrphanEvents
<1>2. PICK d \in [Field -> Value], i \in EventId :
         /\ DataOK(d) /\ FreshId(i) /\ issued' = issued \cup {i}
         /\ Goes(r, [Start("create", u) EXCEPT
                        !.call = "Create",
                        !.todo = <<[id |-> i, row |-> NewRow(u, d),
                                    isUpdate |-> FALSE]>>])
  BY Zenon DEF CreateStart
<1>3. UNCHANGED <<accounts, events, removed, now, outages>>
  BY DEF CreateStart
<1>4. PICK row : row = NewRow(u, d)
  OBVIOUS
<1>5. /\ row \in EventRow /\ row.user = u
      /\ row.created = now /\ row.updated = now
  BY <1>1, <1>2, <1>4, NewRowOK
<1>6. PICK w : w = [id |-> i, row |-> row, isUpdate |-> FALSE]
  OBVIOUS
<1>7. w \in Prepared /\ w.id = i /\ w.row = row /\ w.isUpdate = FALSE
  BY <1>5, <1>6 DEF Prepared
<1>8. PICK s : s = Start("create", u)
  OBVIOUS
<1>9. /\ s \in EventRequestState /\ s.op = "create" /\ s.uid = u
      /\ s.doc = <<>> /\ s.pos = 1
  BY <1>8, StartOK DEF EventOp
<1>10. PICK q : q = [s EXCEPT !.call = "Create", !.todo = <<w>>]
  OBVIOUS
<1>11. <<w>> \in Seq(Prepared) /\ Len(<<w>>) = 1 /\ <<w>>[1] = w
  BY <1>7
<1>12. /\ q \in EventRequestState /\ q.call = "Create" /\ q.op = "create"
       /\ q.uid = u /\ q.todo = <<w>> /\ q.doc = <<>> /\ q.pos = 1
  <2>1. "Create" \in EventCall
    BY DEF EventCall
  <2>2. PICK t : t = <<w>>
    OBVIOUS
  <2>3. t \in Seq(Prepared) /\ q = [s EXCEPT !.call = "Create", !.todo = t]
    BY <1>10, <1>11, <2>2
  <2>4. /\ q \in EventRequestState /\ q.call = "Create" /\ q.todo = t
        /\ q.op = s.op /\ q.uid = s.uid /\ q.doc = s.doc /\ q.pos = s.pos
    BY <1>9, <2>1, <2>3 DEF EventRequestState
  <2> QED
    BY <1>9, <2>2, <2>4
<1>13. EControlOK(q) /\ q.pos \in 1 .. Len(q.doc) + 1
  BY <1>7, <1>11, <1>12 DEF EControlOK
<1>14. WriteOK(q, w)'
  BY <1>1, <1>2, <1>3, <1>5, <1>7, <1>12 DEF WriteOK, FreshId
<1>15. WritesOK(q)' /\ InsertsOf(q) = {1} /\ q.todo[1].id \notin issued
  BY <1>2, <1>7, <1>11, <1>12, <1>14 DEF WritesOK, InsertsOf, FreshId
<1>16. Goes(r, q)
  BY <1>2, <1>4, <1>6, <1>8, <1>10
<1> QED
  BY <1>1, <1>2, <1>3, <1>12, <1>13, <1>15, <1>16, QuietGoes

(* A request that goes on to write row over an event of its user.          *)
LEMMA GoesUpdateKeeps ==
    ASSUME EventInv, NEW r \in EventRequest, NEW q \in EventRequestState,
           q.op \in {"update", "status"}, q.uid \in User,
           q.doc = <<>>, q.pos = 1,
           NEW i \in DOMAIN events, NEW row \in EventRow, row.user = q.uid,
           row.created = events[i].created,
           GoesUpdate(r, q, i, row),
           UNCHANGED <<accounts, events, issued, removed, now, outages>>
    PROVE  EventInv'
<1>1. /\ outages \in 0 .. EventFaults /\ issued \subseteq EventId
      /\ now \in 0 .. LastInstant /\ i \in EventId
      /\ events \in [DOMAIN events -> EventRow]
      /\ events[i].created <= events[i].updated /\ events[i].updated <= now
  BY DEF EventInv, EventTypeOK, SealedInOrder
<1>2. PICK sealed : sealed = [row EXCEPT !.updated = now]
  OBVIOUS
<1>3. /\ sealed \in EventRow /\ sealed.user = row.user
      /\ sealed.created = row.created /\ sealed.updated = now
  BY <1>1, <1>2 DEF EventRow
<1>4. sealed.created <= now
  <2>1. /\ events[i].created \in Nat /\ events[i].updated \in Nat
        /\ now \in Nat
    BY <1>1 DEF EventRow
  <2> QED
    BY <1>1, <1>3, <2>1
<1>5. PICK w : w = [id |-> i, row |-> sealed, isUpdate |-> TRUE]
  OBVIOUS
<1>6. w \in Prepared /\ w.id = i /\ w.row = sealed /\ w.isUpdate = TRUE
  BY <1>1, <1>3, <1>5 DEF Prepared
<1>7. PICK t : t = <<w>>
  OBVIOUS
<1>8. t \in Seq(Prepared) /\ Len(t) = 1 /\ t[1] = w
  BY <1>6, <1>7
<1>9. PICK p : p = [q EXCEPT !.call = "Update", !.todo = t]
  OBVIOUS
<1>10. "Update" \in EventCall
  BY DEF EventCall
<1>11. /\ p \in EventRequestState /\ p.call = "Update" /\ p.op = q.op
       /\ p.uid = q.uid /\ p.todo = t /\ p.doc = q.doc /\ p.pos = q.pos
  BY <1>9, <1>10, <1>8 DEF EventRequestState
<1>12. EControlOK(p) /\ p.pos \in 1 .. Len(p.doc) + 1
  BY <1>6, <1>8, <1>11 DEF EControlOK
<1>13. now' = now /\ events' = events
  OBVIOUS
<1>14. WriteOK(p, w)'
  BY <1>1, <1>3, <1>4, <1>6, <1>11, <1>13 DEF WriteOK
<1>15. WritesOK(p)' /\ InsertsOf(p) = {}
  <2>1. p.todo[1] = w /\ \A k \in 1 .. Len(p.todo) : k = 1
    <3>1. p.todo = t
      BY <1>11
    <3>2. t[1] = w /\ \A k \in 1 .. Len(t) : k = 1
      BY <1>8
    <3> QED
      BY <3>1, <3>2
  <2>2. WritesOK(p)'
    BY <1>14, <2>1 DEF WritesOK
  <2>3. InsertsOf(p) = {}
    BY <1>6, <2>1 DEF InsertsOf
  <2> QED
    BY <2>2, <2>3
<1>16. Goes(r, p)
  BY <1>2, <1>5, <1>7, <1>9 DEF GoesUpdate
<1> QED
  BY <1>1, <1>11, <1>12, <1>15, <1>16, QuietGoes

(* UpdateEvent, up to its UPDATE.                                          *)
LEMMA UpdateFindByIDKeeps ==
    ASSUME EventInv, NEW r \in EventRequest, NEW u \in User,
           UpdateFindByID(r, u)
    PROVE  EventInv'
<1>1. /\ outages \in 0 .. EventFaults /\ issued \subseteq EventId
      /\ events \in [DOMAIN events -> EventRow]
      /\ {"validation_failed", "event_not_found"} \subseteq Code
  BY DEF EventInv, EventTypeOK, Code, ErrorCode
<1>2. UNCHANGED <<accounts, events, issued, removed, now, outages>>
  BY DEF UpdateFindByID
<1>3. PICK q : q = Start("update", u)
  OBVIOUS
<1>4. /\ q \in EventRequestState /\ q.op = "update" /\ q.uid = u
      /\ q.doc = <<>> /\ q.pos = 1
  BY <1>3, StartOK DEF EventOp
<1>5. PICK i \in EventId, p \in Patch :
         \/ Reply(r, q, "validation_failed")
         \/ Reply(r, q, "event_not_found")
         \/ /\ Visible(u, i) /\ PatchOK(p)
            /\ GoesUpdate(r, [q EXCEPT !.patch = p], i, Edit(events[i], p))
  BY <1>3 DEF UpdateFindByID
<1>6. CASE Reply(r, q, "validation_failed") \/ Reply(r, q, "event_not_found")
  BY <1>1, <1>2, <1>4, <1>6, QuietShows DEF Reply, EventOp
<1>7. CASE /\ Visible(u, i) /\ PatchOK(p)
           /\ GoesUpdate(r, [q EXCEPT !.patch = p], i, Edit(events[i], p))
  <2>1. /\ i \in DOMAIN events /\ events[i] \in EventRow
        /\ events[i].user = u
    BY <1>1, <1>7 DEF Visible
  <2>2. PICK row : row = Edit(events[i], p)
    OBVIOUS
  <2>3. /\ row \in EventRow /\ row.user = u
        /\ row.created = events[i].created
    BY <1>7, <2>1, <2>2, EditOK
  <2>4. PICK x : x = [q EXCEPT !.patch = p]
    OBVIOUS
  <2>5. /\ x \in EventRequestState /\ x.op = "update" /\ x.uid = u
        /\ x.doc = <<>> /\ x.pos = 1
    BY <1>4, <2>4 DEF EventRequestState, Patch
  <2> QED
    BY <1>2, <1>7, <2>1, <2>2, <2>3, <2>4, <2>5, GoesUpdateKeeps
<1> QED
  BY <1>5, <1>6, <1>7

(* ChangeStatus, up to its UPDATE.                                         *)
LEMMA StatusFindByIDKeeps ==
    ASSUME EventInv, NEW r \in EventRequest, NEW u \in User,
           StatusFindByID(r, u)
    PROVE  EventInv'
<1>1. /\ outages \in 0 .. EventFaults /\ issued \subseteq EventId
      /\ events \in [DOMAIN events -> EventRow]
      /\ {"invalid_status", "event_not_found"} \subseteq Code
  BY DEF EventInv, EventTypeOK, Code, ErrorCode
<1>2. UNCHANGED <<accounts, events, issued, removed, now, outages>>
  BY DEF StatusFindByID
<1>3. PICK q : q = Start("status", u)
  OBVIOUS
<1>4. /\ q \in EventRequestState /\ q.op = "status" /\ q.uid = u
      /\ q.doc = <<>> /\ q.pos = 1
  BY <1>3, StartOK DEF EventOp
<1>5. PICK i \in EventId, s \in StatusIn :
         \/ Reply(r, q, "event_not_found")
         \/ Reply(r, q, "invalid_status")
         \/ /\ Visible(u, i) /\ s \in Status
            /\ GoesUpdate(r, q, i, [events[i] EXCEPT !.status = s])
  BY <1>3 DEF StatusFindByID
<1>6. CASE Reply(r, q, "event_not_found") \/ Reply(r, q, "invalid_status")
  BY <1>1, <1>2, <1>4, <1>6, QuietShows DEF Reply, EventOp
<1>7. CASE /\ Visible(u, i) /\ s \in Status
           /\ GoesUpdate(r, q, i, [events[i] EXCEPT !.status = s])
  <2>1. /\ i \in DOMAIN events /\ events[i] \in EventRow
        /\ events[i].user = u
    BY <1>1, <1>7 DEF Visible
  <2>2. PICK row : row = [events[i] EXCEPT !.status = s]
    OBVIOUS
  <2>3. /\ row \in EventRow /\ row.user = u
        /\ row.created = events[i].created
    BY <1>7, <2>1, <2>2 DEF EventRow
  <2> QED
    BY <1>2, <1>4, <1>7, <2>1, <2>2, <2>3, GoesUpdateKeeps
<1> QED
  BY <1>5, <1>6, <1>7

(* How the writes move the table.                                          *)
LEMMA InsertEvolves ==
    ASSUME EventTablesOK, NEW i \in issued, NEW row \in EventRow,
           i \notin DOMAIN events \cup removed, InsertEvent(i, row),
           UNCHANGED <<accounts, issued, removed, now>>
    PROVE  TablesEvolve /\ NewEvents = {i}
<1>1. now \in Nat
  BY DEF EventTablesOK
<1> QED
  BY <1>1 DEF InsertEvent, TablesEvolve, NewEvents

(* An UPDATE keeps who owns a row and when it was created.                 *)
LEMMA UpdateEvolves ==
    ASSUME EventTablesOK, NEW i \in DOMAIN events, NEW row \in EventRow,
           row.created = events[i].created, DOMAIN events' = DOMAIN events,
           \A x \in DOMAIN events : x # i => events'[x] = events[x],
           events'[i] = row,
           UNCHANGED <<accounts, issued, removed, now>>
    PROVE  TablesEvolve /\ NewEvents = {}
<1>1. now \in Nat
  BY DEF EventTablesOK
<1> QED
  BY <1>1 DEF TablesEvolve, NewEvents

(* A DELETE only removes rows.                                             *)
LEMMA RemoveEvolves ==
    ASSUME EventTablesOK, NEW I, RemoveEvents(I), UNCHANGED <<issued, now>>
    PROVE  TablesEvolve /\ NewEvents = {}
<1>1. now \in Nat
  BY DEF EventTablesOK
<1> QED
  BY <1>1 DEF RemoveEvents, TablesEvolve, NewEvents

(* The first of the rows that request r is about to write.                 *)
LEMMA FirstWrite ==
    ASSUME EventInv, NEW r \in EventRequest, ereq[r].todo # <<>>
    PROVE  /\ 1 \in 1 .. Len(ereq[r].todo)
           /\ Head(ereq[r].todo) = ereq[r].todo[1]
           /\ Head(ereq[r].todo) \in Prepared
           /\ Head(ereq[r].todo).row \in EventRow
           /\ WriteOK(ereq[r], Head(ereq[r].todo))
           /\ ~ Head(ereq[r].todo).isUpdate => 1 \in Inserts(r)
<1>1. ereq[r].todo \in Seq(Prepared)
  BY DEF EventInv, EventTypeOK, EventRequestState
<1>2. /\ 1 \in 1 .. Len(ereq[r].todo)
      /\ Head(ereq[r].todo) = ereq[r].todo[1]
      /\ Head(ereq[r].todo) \in Prepared
  BY <1>1
<1>3. WriteOK(ereq[r], ereq[r].todo[1])
  BY <1>2 DEF EventInv
<1>4. Head(ereq[r].todo).row \in EventRow
  BY <1>2 DEF Prepared
<1> QED
  BY <1>2, <1>3, <1>4 DEF Inserts

(* An INSERT of the first row of a request, in its new id.                 *)
LEMMA FirstInsert ==
    ASSUME EventInv, NEW r \in EventRequest, ereq[r].todo # <<>>,
           NEW w, w = Head(ereq[r].todo), ~ w.isUpdate,
           ~ InsertRefused(w.id, w.row), InsertEvent(w.id, w.row),
           UNCHANGED <<accounts, issued, removed, now>>,
           outages' \in 0 .. EventFaults
    PROVE  /\ EventTablesOK' /\ TablesEvolve
           /\ \A i \in NewEvents :
                 \E j \in Inserts(r) : i = ereq[r].todo[j].id
<1>1. /\ w = ereq[r].todo[1] /\ w.row \in EventRow /\ WriteOK(ereq[r], w)
      /\ 1 \in Inserts(r)
  BY FirstWrite
<1>2. /\ w.id \in issued \ (DOMAIN events \cup removed)
      /\ w.row.created <= w.row.updated /\ w.row.updated <= now
  BY <1>1 DEF WriteOK
<1>3. w.row.user \in accounts
  BY DEF InsertRefused
<1>4. EventTablesOK
  BY EventParts
<1>5. TablesEvolve /\ NewEvents = {w.id}
  BY <1>1, <1>2, <1>4, InsertEvolves
<1> QED
  BY <1>1, <1>2, <1>3, <1>4, <1>5, InsertKeepsEvents

(* An UPDATE by the first row of a request, of an event of its user.       *)
LEMMA FirstUpdate ==
    ASSUME EventInv, NEW r \in EventRequest, ereq[r].todo # <<>>,
           NEW w, w = Head(ereq[r].todo), w.isUpdate,
           Visible(w.row.user, w.id), UpdateRow(w.id, w.row),
           UNCHANGED <<accounts, issued, removed, now>>,
           outages' \in 0 .. EventFaults
    PROVE  EventTablesOK' /\ TablesEvolve /\ NewEvents = {}
<1>1. w.row \in EventRow /\ WriteOK(ereq[r], w)
  BY FirstWrite
<1>2. /\ w.id \in DOMAIN events /\ w.row.user = events[w.id].user
      /\ w.row.created = events[w.id].created
      /\ w.row.created <= w.row.updated /\ w.row.updated <= now
  BY <1>1 DEF WriteOK, Visible
<1>3. EventTablesOK
  BY EventParts
<1>4. /\ EventTablesOK'
      /\ DOMAIN events' = DOMAIN events
      /\ \A x \in DOMAIN events : x # w.id => events'[x] = events[x]
      /\ events'[w.id] = w.row
  BY <1>1, <1>2, <1>3, UpdateKeepsEvents
<1> QED
  BY <1>1, <1>2, <1>3, <1>4, UpdateEvolves

(* What a request waiting for a call is of.                                *)
LEMMA BusyOK ==
    ASSUME EventInv, NEW r \in EventRequest
    PROVE  ereq[r] \in EventRequestState /\ ereq[r].op \in EventOp
BY DEF EventInv, EventTypeOK, EventRequestState

(* The INSERT of CreateEvent.                                              *)
LEMMA CreateKeeps ==
    ASSUME EventInv, NEW r \in EventRequest, Create(r)
    PROVE  EventInv'
<1>1. /\ outages \in 0 .. EventFaults /\ issued \subseteq EventId
      /\ {"ok", "internal_error"} \subseteq Code
  BY DEF EventInv, EventTypeOK, Code, ErrorCode
<1>2. PICK w : w = Head(ereq[r].todo)
  OBVIOUS
<1>3. /\ ereq[r].op = "create" /\ Len(ereq[r].todo) = 1
      /\ ~ ereq[r].todo[1].isUpdate
  BY DEF EventInv, EControlOK, Create
<1>4. ereq[r].todo # <<>> /\ ~ w.isUpdate
  BY <1>2, <1>3, FirstWrite
<1>5. /\ UNCHANGED <<accounts, issued, removed, now>>
      /\ \E code \in Code : Reply(r, ereq[r], code)
      /\ outages' \in 0 .. EventFaults
  BY <1>1, <1>2, EventBoundAssumption DEF Create, AckLost
<1>6. CASE UNCHANGED events
  BY <1>1, <1>3, <1>5, <1>6, BusyOK, QuietShows DEF Reply
<1>7. CASE ~ InsertRefused(w.id, w.row) /\ InsertEvent(w.id, w.row)
  <2>1. /\ EventTablesOK' /\ TablesEvolve
        /\ \A i \in NewEvents : \E j \in Inserts(r) : i = ereq[r].todo[j].id
    BY <1>2, <1>4, <1>5, <1>7, FirstInsert
  <2> QED
    BY <1>3, <1>5, <2>1, BusyOK, ShowsKeeps DEF Reply
<1> QED
  BY <1>2, <1>6, <1>7 DEF Create

(* The UPDATE of UpdateEvent and ChangeStatus.                             *)
LEMMA UpdateKeeps ==
    ASSUME EventInv, NEW r \in EventRequest, Update(r)
    PROVE  EventInv'
<1>1. /\ outages \in 0 .. EventFaults /\ issued \subseteq EventId
      /\ {"ok", "internal_error", "event_not_found"} \subseteq Code
  BY DEF EventInv, EventTypeOK, Code, ErrorCode
<1>2. PICK w : w = Head(ereq[r].todo)
  OBVIOUS
<1>3. /\ ereq[r].op \in {"update", "status"} /\ Len(ereq[r].todo) = 1
      /\ ereq[r].todo[1].isUpdate
  BY DEF EventInv, EControlOK, Update
<1>4. ereq[r].todo # <<>> /\ w.isUpdate
  BY <1>2, <1>3, FirstWrite
<1>5. /\ UNCHANGED <<accounts, issued, removed, now>>
      /\ \E code \in Code : Reply(r, ereq[r], code)
      /\ outages' \in 0 .. EventFaults
  BY <1>1, <1>2, EventBoundAssumption DEF Update, AckLost
<1>6. CASE UNCHANGED events
  BY <1>1, <1>3, <1>5, <1>6, BusyOK, QuietShows DEF Reply
<1>7. CASE Visible(w.row.user, w.id) /\ UpdateRow(w.id, w.row)
  <2>1. EventTablesOK' /\ TablesEvolve /\ NewEvents = {}
    BY <1>2, <1>4, <1>5, <1>7, FirstUpdate
  <2> QED
    BY <1>3, <1>5, <2>1, BusyOK, ShowsKeeps DEF Reply
<1> QED
  BY <1>2, <1>6, <1>7 DEF Update, Visible

(* DeleteEvent.                                                            *)
LEMMA DeleteEventKeeps ==
    ASSUME EventInv, NEW r \in EventRequest, NEW u \in User, DeleteEvent(r, u)
    PROVE  EventInv'
<1>1. /\ outages \in 0 .. EventFaults /\ issued \subseteq EventId
      /\ {"ok", "internal_error", "event_not_found"} \subseteq Code
      /\ EventTablesOK
  BY EventParts DEF EventInv, EventTypeOK, Code, ErrorCode
<1>2. PICK q : q = Start("delete", u)
  OBVIOUS
<1>3. q.op = "delete" /\ "delete" \in EventOp
  BY <1>2, StartOK DEF EventOp
<1>4. /\ UNCHANGED <<accounts, issued, now>>
      /\ \E code \in Code : Reply(r, q, code)
      /\ outages' \in 0 .. EventFaults
  BY <1>1, <1>2, EventBoundAssumption DEF DeleteEvent
<1>5. CASE UNCHANGED <<events, removed>>
  BY <1>1, <1>3, <1>4, <1>5, QuietShows DEF Reply
<1>6. ASSUME NEW i \in EventId, RemoveEvents({i})
      PROVE  EventInv'
  <2>1. EventTablesOK'
    BY <1>1, <1>4, <1>6, RemoveKeepsEvents DEF EventTablesOK, NoOrphanEvents
  <2>2. TablesEvolve /\ NewEvents = {}
    BY <1>1, <1>4, <1>6, RemoveEvolves
  <2>3. PICK code \in Code : Shows(r, q, code, {})
    BY <1>4 DEF Reply
  <2>4. q.op \in EventOp /\ q.op # "import"
    BY <1>3
  <2> QED
    BY <2>1, <2>2, <2>3, <2>4, ShowsKeeps
<1> QED
  BY <1>5, <1>6 DEF DeleteEvent

-----------------------------------------------------------------------------
(* The import.                                                             *)

(* Memory q of an import that is still reconstructing its items.           *)
ReconstructingOK(q) ==
    /\ q \in EventRequestState
    /\ q.op = "import" /\ q.call = "Reconstruct" /\ q.uid \in User
    /\ q.pos \in 1 .. Len(q.doc) + 1
    /\ q.imported = 0 /\ q.updated = 0
    /\ Len(q.todo) + q.failed = q.pos - 1
    /\ q.failed = 0 => \A k \in 1 .. q.pos - 1 : ItemOK(q.doc[k])

(* An import whose items are all done: it answers, or starts to write.     *)
LEMMA ReconstructedKeeps ==
    ASSUME EventInv, NEW r \in EventRequest, NEW q, ReconstructingOK(q),
           Reconstructed(r, q), WritesOK(q)',
           UNCHANGED <<accounts, events, removed, now>>,
           issued \subseteq issued', issued' \subseteq EventId,
           outages' \in 0 .. EventFaults,
           \A k \in InsertsOf(q) :
               \/ q.todo[k].id \notin issued
               \/ \E j \in Inserts(r) : q.todo[k].id = ereq[r].todo[j].id,
           \A j, k \in InsertsOf(q) : q.todo[j].id = q.todo[k].id => j = k
    PROVE  EventInv'
<1>1. /\ q \in EventRequestState /\ q.op = "import" /\ q.op \in EventOp
      /\ q.call = "Reconstruct" /\ q.uid \in User
      /\ q.imported = 0 /\ q.updated = 0
      /\ q.failed = 0 => \A k \in 1 .. q.pos - 1 : ItemOK(q.doc[k])
      /\ {"ok", "validation_failed"} \subseteq Code
  BY DEF ReconstructingOK, EventRequestState, Code, ErrorCode
<1>2. q.doc \in Seq(Item) /\ q.todo \in Seq(Prepared) /\ q.failed \in Nat
  BY <1>1, MemoryTyped
<1>3. /\ Len(q.doc) \in Nat /\ Len(q.todo) \in Nat
      /\ q.todo = <<>> => Len(q.todo) = 0
  BY <1>2
<1>4. /\ q.pos \in 1 .. Len(q.doc) + 1
      /\ Len(q.todo) + q.failed = q.pos - 1
  BY DEF ReconstructingOK
<1>5. Len(q.todo) + q.imported + q.updated + q.failed = q.pos - 1
  BY <1>1, <1>2, <1>3, <1>4
<1>6. CASE q.pos <= Len(q.doc) /\ Goes(r, q)
  <2>1. EControlOK(q)
    BY <1>1, <1>5, <1>6 DEF EControlOK
  <2> QED
    BY <1>1, <1>4, <1>6, <2>1, QuietGoes
<1>7. CASE Reply(r, q, "validation_failed")
  BY <1>1, <1>7, QuietShows DEF Reply
<1>8. CASE q.pos > Len(q.doc) /\ q.todo = <<>> /\ Reply(r, q, "ok")
  <2>1. q.imported + q.updated + q.failed = Len(q.doc)
    BY <1>1, <1>2, <1>3, <1>4, <1>8
  <2> QED
    BY <1>1, <1>8, <2>1, QuietShows DEF Reply
<1>9. CASE /\ q.pos > Len(q.doc) /\ ~ Refused(q) /\ q.todo # <<>>
           /\ Goes(r, [q EXCEPT !.call = "Apply"])
  <2>1. PICK x : x = [q EXCEPT !.call = "Apply"]
    OBVIOUS
  <2>2. "Apply" \in EventCall
    BY DEF EventCall
  <2>3. /\ x \in EventRequestState /\ x.call = "Apply" /\ x.op = "import"
        /\ x.uid = q.uid /\ x.doc = q.doc /\ x.pos = q.pos
        /\ x.todo = q.todo /\ x.failed = q.failed /\ x.mode = q.mode
        /\ x.imported = q.imported /\ x.updated = q.updated
    BY <1>1, <2>1, <2>2 DEF EventRequestState
  <2>4. x.pos \in 1 .. Len(x.doc) + 1 /\ x.pos = Len(x.doc) + 1
    BY <1>3, <1>4, <1>9, <2>3
  <2>5. ~ Refused(x)
    BY <1>9, <2>3 DEF Refused
  <2>6. EControlOK(x)
    BY <1>1, <1>5, <1>9, <2>3, <2>4, <2>5 DEF EControlOK
  <2>7. WritesOK(x)' /\ InsertsOf(x) = InsertsOf(q)
    BY <2>3 DEF WritesOK, WriteOK, InsertsOf
  <2>8. Goes(r, x)
    BY <1>9, <2>1
  <2> QED
    BY <2>3, <2>4, <2>6, <2>7, <2>8, QuietGoes
<1> QED
  BY <1>6, <1>7, <1>8, <1>9 DEF Reconstructed

(* ImportEvents, up to its first item.                                     *)
LEMMA ImportStartKeeps ==
    ASSUME EventInv, NEW r \in EventRequest, NEW u \in User, ImportStart(r, u)
    PROVE  EventInv'
<1>1. /\ outages \in 0 .. EventFaults /\ issued \subseteq EventId
      /\ "validation_failed" \in Code /\ "import" \in EventOp
      /\ "Reconstruct" \in EventCall
  BY DEF EventInv, EventTypeOK, Code, ErrorCode, EventOp, EventCall
<1>2. UNCHANGED <<accounts, events, issued, removed, now, outages>>
  BY Zenon DEF ImportStart
<1>3. PICK s : s = Start("import", u)
  OBVIOUS
<1>4. /\ s \in EventRequestState /\ s.op = "import" /\ s.uid = u
      /\ s.todo = <<>> /\ s.pos = 1 /\ s.failed = 0
      /\ s.imported = 0 /\ s.updated = 0
  BY <1>1, <1>3, StartOK
<1>5. CASE Reply(r, s, "validation_failed")
  BY <1>1, <1>2, <1>4, <1>5, QuietShows DEF Reply
<1>6. ASSUME NEW doc \in Document, NEW mode \in {"partial", "atomic"},
             Reconstructed(r, [s EXCEPT !.call = "Reconstruct",
                                        !.mode = mode, !.doc = doc])
      PROVE  EventInv'
  <2>1. PICK q : q = [s EXCEPT !.call = "Reconstruct", !.mode = mode,
                               !.doc = doc]
    OBVIOUS
  <2>2. /\ q \in EventRequestState /\ q.op = "import" /\ q.uid = u
        /\ q.call = "Reconstruct" /\ q.doc = doc /\ q.pos = 1
        /\ q.failed = 0 /\ q.imported = 0 /\ q.updated = 0 /\ q.todo = <<>>
    BY <1>1, <1>4, <2>1 DEF EventRequestState
  <2>3. Len(q.doc) \in Nat /\ Len(q.todo) = 0
    <3>1. doc \in Seq(Item)
      BY DocumentAssumption
    <3> QED
      BY <2>2, <3>1
  <2>4. ReconstructingOK(q)
    BY <2>2, <2>3 DEF ReconstructingOK
  <2>5. WritesOK(q)' /\ InsertsOf(q) = {}
    BY <2>3 DEF WritesOK, InsertsOf
  <2> QED
    BY <1>1, <1>2, <1>6, <2>1, <2>4, <2>5, ReconstructedKeeps
<1> QED
  BY <1>3, <1>5, <1>6, Zenon DEF ImportStart

(* The item of an import at hand.                                          *)
LEMMA ItemAtHand ==
    ASSUME EventInv, NEW r \in EventRequest, ereq[r].call = "Reconstruct"
    PROVE  /\ ReconstructingOK(ereq[r])
           /\ ereq[r].todo \in Seq(Prepared) /\ ereq[r].failed \in Nat
           /\ ereq[r].doc \in Seq(Item)
           /\ ereq[r].pos \in 1 .. Len(ereq[r].doc)
           /\ ereq[r].doc[ereq[r].pos] \in Item
<1>1. /\ ereq[r] \in EventRequestState /\ EControlOK(ereq[r])
      /\ ereq[r].pos \in 1 .. Len(ereq[r].doc) + 1
  BY DEF EventInv, EventTypeOK
<1>2. /\ ereq[r].doc \in Seq(Item) /\ ereq[r].todo \in Seq(Prepared)
      /\ ereq[r].failed \in Nat
  BY <1>1, MemoryTyped
<1>3. /\ ereq[r].op = "import" /\ ereq[r].uid \in User
      /\ ereq[r].imported = 0 /\ ereq[r].updated = 0
      /\ ereq[r].pos <= Len(ereq[r].doc)
      /\ Len(ereq[r].todo) + ereq[r].imported + ereq[r].updated
            + ereq[r].failed = ereq[r].pos - 1
      /\ ereq[r].failed = 0
            => \A k \in 1 .. ereq[r].pos - 1 : ItemOK(ereq[r].doc[k])
  BY <1>1 DEF EControlOK
<1>4. Len(ereq[r].todo) + ereq[r].failed = ereq[r].pos - 1
  BY <1>2, <1>3
<1>5. ereq[r].pos \in 1 .. Len(ereq[r].doc)
  BY <1>1, <1>2, <1>3
<1> QED
  BY <1>1, <1>2, <1>3, <1>4, <1>5 DEF ReconstructingOK

(* An item for which row w is to be written.                               *)
LEMMA PreparedKeeps ==
    ASSUME EventInv, NEW r \in EventRequest, ereq[r].call = "Reconstruct",
           ItemOK(ereq[r].doc[ereq[r].pos]),
           NEW w \in Prepared, w.row.user = ereq[r].uid,
           w.row.created <= w.row.updated, w.row.updated <= now,
           IF w.isUpdate
           THEN w.id \in DOMAIN events /\ w.row.created = events[w.id].created
           ELSE w.id \in issued' \ issued,
           Reconstructed(r, Prepare(ereq[r], w)),
           UNCHANGED <<accounts, events, removed, now, outages>>,
           issued \subseteq issued', issued' \subseteq EventId
    PROVE  EventInv'
<1>1. PICK q : q = ereq[r]
  OBVIOUS
<1>2. /\ ReconstructingOK(q) /\ q.todo \in Seq(Prepared)
      /\ q.doc \in Seq(Item) /\ q.pos \in 1 .. Len(q.doc)
      /\ q.failed \in Nat /\ Len(q.todo) \in Nat /\ Len(q.doc) \in Nat
  BY <1>1, ItemAtHand
<1>3. /\ EventTablesOK' /\ TablesEvolve /\ NewEvents = {}
      /\ EventTablesOK /\ now' \in Nat /\ outages' \in 0 .. EventFaults
  <2>1. outages \in 0 .. EventFaults
    BY DEF EventInv, EventTypeOK
  <2>2. EventTablesOK' /\ TablesEvolve /\ NewEvents = {}
    BY <2>1, NoWrite
  <2>3. now' \in Nat
    BY <2>2 DEF EventTablesOK
  <2> QED
    BY <2>1, <2>2, <2>3, EventParts
<1>4. PICK t : t = Append(q.todo, w)
  OBVIOUS
<1>5. /\ t \in Seq(Prepared) /\ Len(t) = Len(q.todo) + 1
      /\ \A k \in 1 .. Len(q.todo) : t[k] = q.todo[k]
      /\ t[Len(q.todo) + 1] = w
  BY <1>2, <1>4
<1>6. PICK x : x = [q EXCEPT !.pos = @ + 1, !.todo = t]
  OBVIOUS
<1>7. /\ x \in EventRequestState /\ x.op = q.op /\ x.call = q.call
      /\ x.uid = q.uid /\ x.pos = q.pos + 1 /\ x.todo = t /\ x.doc = q.doc
      /\ x.failed = q.failed /\ x.imported = q.imported
      /\ x.updated = q.updated
  <2>1. q \in EventRequestState
    BY <1>2 DEF ReconstructingOK
  <2>2. PICK n \in Nat : n = q.pos + 1
    BY <1>2
  <2>3. x = [q EXCEPT !.pos = n, !.todo = t]
    BY <1>6, <2>2
  <2>4. t \in Seq(Prepared)
    BY <1>5
  <2>5. /\ x \in EventRequestState /\ x.op = q.op /\ x.call = q.call
        /\ x.uid = q.uid /\ x.pos = n /\ x.todo = t /\ x.doc = q.doc
        /\ x.failed = q.failed /\ x.imported = q.imported
        /\ x.updated = q.updated
    BY <2>1, <2>3, <2>4 DEF EventRequestState
  <2> QED
    BY <2>2, <2>5
<1>8. ReconstructingOK(x)
  <2>1. x.pos \in 1 .. Len(x.doc) + 1
    BY <1>2, <1>7
  <2>2. Len(x.todo) + x.failed = x.pos - 1
    <3>1. Len(q.todo) + q.failed = q.pos - 1
      BY <1>2 DEF ReconstructingOK
    <3>2. /\ Len(x.todo) = Len(q.todo) + 1 /\ x.failed = q.failed
          /\ x.pos = q.pos + 1 /\ q.pos \in Nat /\ q.failed \in Nat
          /\ Len(q.todo) \in Nat
      BY <1>2, <1>5, <1>7
    <3>3. PICK a \in Nat, f \in Nat, n \in Nat :
             a = Len(q.todo) /\ f = q.failed /\ n = q.pos
      BY <3>2
    <3>4. a + f = n - 1 => (a + 1) + f = (n + 1) - 1
      OBVIOUS
    <3>5. a + f = n - 1
      BY <3>1, <3>3
    <3> QED
      BY <3>2, <3>3, <3>4, <3>5
  <2>3. x.failed = 0 => \A k \in 1 .. x.pos - 1 : ItemOK(x.doc[k])
    BY <1>1, <1>2, <1>7 DEF ReconstructingOK
  <2> QED
    BY <1>2, <1>7, <2>1, <2>2, <2>3 DEF ReconstructingOK
<1>9. \A k \in 1 .. Len(q.todo) :
         /\ WriteOK(q, q.todo[k])'
         /\ k \in InsertsOf(q) => q.todo[k].id \in issued
  <2> TAKE k \in 1 .. Len(q.todo)
  <2>1. PICK v : v = q.todo[k]
    OBVIOUS
  <2>2. v \in Prepared
    BY <1>2, <2>1
  <2>3. WriteOK(q, v)
    BY <1>1, <2>1 DEF EventInv
  <2>4. v.id \notin NewEvents
    BY <1>3
  <2>5. WriteOK(q, v)'
    BY <1>3, <2>2, <2>3, <2>4, WriteStaysOK
  <2>6. ~ v.isUpdate => v.id \in issued
    BY <2>3 DEF WriteOK
  <2> QED
    BY <2>1, <2>5, <2>6 DEF InsertsOf
<1>10. WriteOK(x, w)'
  <2>1. /\ DOMAIN events \subseteq issued /\ removed \subseteq issued
        /\ events' = events /\ removed' = removed /\ now' = now
    BY <1>3 DEF EventTablesOK, NoOrphanEvents
  <2>2. CASE w.isUpdate
    BY <1>1, <1>7, <2>1, <2>2 DEF WriteOK
  <2>3. CASE ~ w.isUpdate
    BY <1>1, <1>7, <2>1, <2>3 DEF WriteOK
  <2> QED
    BY <2>2, <2>3
<1>11. WritesOK(x)'
  <2> SUFFICES ASSUME NEW k \in 1 .. Len(x.todo)
               PROVE  WriteOK(x, x.todo[k])'
    BY DEF WritesOK
  <2>1. CASE k \in 1 .. Len(q.todo)
    <3>1. WriteOK(q, q.todo[k])' /\ x.todo[k] = q.todo[k]
      BY <1>5, <1>7, <1>9, <2>1
    <3> QED
      BY <1>7, <3>1 DEF WriteOK
  <2>2. CASE k = Len(q.todo) + 1
    BY <1>5, <1>7, <1>10, <2>2
  <2> QED
    BY <1>2, <1>5, <1>7, <2>1, <2>2
<1>12. \A k \in InsertsOf(x) :
          \/ k \in InsertsOf(q) /\ x.todo[k] = q.todo[k]
          \/ k = Len(q.todo) + 1 /\ x.todo[k].id \notin issued
  <2> TAKE k \in InsertsOf(x)
  <2>1. k \in 1 .. Len(q.todo) + 1 /\ ~ x.todo[k].isUpdate
    BY <1>5, <1>7 DEF InsertsOf
  <2>2. CASE k \in 1 .. Len(q.todo)
    BY <1>5, <1>7, <2>1, <2>2 DEF InsertsOf
  <2>3. CASE k = Len(q.todo) + 1
    BY <1>5, <1>7, <2>1, <2>3
  <2> QED
    BY <1>2, <2>1, <2>2, <2>3
<1>13. InsertsOf(q) = Inserts(r)
  BY <1>1 DEF InsertsOf, Inserts
<1>14. \A k \in InsertsOf(x) :
          \/ x.todo[k].id \notin issued
          \/ \E j \in Inserts(r) : x.todo[k].id = ereq[r].todo[j].id
  BY <1>1, <1>12, <1>13
<1>15. \A j, k \in InsertsOf(x) : x.todo[j].id = x.todo[k].id => j = k
  <2>1. \A j, k \in InsertsOf(q) : q.todo[j].id = q.todo[k].id => j = k
    BY <1>1, <1>13 DEF EventInv, PendingIds
  <2>2. \A j \in InsertsOf(q) : q.todo[j].id \in issued
    BY <1>9 DEF InsertsOf
  <2> QED
    BY <1>12, <2>1, <2>2
<1>16. Reconstructed(r, x)
  BY <1>1, <1>4, <1>6 DEF Prepare
<1> QED
  BY <1>3, <1>8, <1>11, <1>14, <1>15, <1>16, ReconstructedKeeps

(* An item without an event of the user behind it: a new event.            *)
LEMMA ImportNewKeeps ==
    ASSUME EventInv, NEW r \in EventRequest, ImportNew(r)
    PROVE  EventInv'
<1>1. PICK it : it = ereq[r].doc[ereq[r].pos]
  OBVIOUS
<1>2. /\ ereq[r].call = "Reconstruct"
      /\ UNCHANGED <<accounts, events, removed, now, outages>>
  BY DEF ImportNew
<1>3. PICK i \in EventId :
         /\ ItemOK(it) /\ FreshId(i) /\ issued' = issued \cup {i}
         /\ Reconstructed(r, Prepare(ereq[r],
                             [id |-> i, isUpdate |-> FALSE,
                              row |-> ItemRow(ereq[r].uid, it)]))
  BY <1>1 DEF ImportNew
<1>4. /\ it \in Item /\ ereq[r].uid \in User
      /\ now \in 0 .. LastInstant /\ issued \subseteq EventId
  BY <1>1, <1>2, ItemAtHand DEF ReconstructingOK, EventInv, EventTypeOK
<1>5. PICK row : row = ItemRow(ereq[r].uid, it)
  OBVIOUS
<1>6. /\ row \in EventRow /\ row.user = ereq[r].uid
      /\ row.created = now /\ row.updated = now
  BY <1>3, <1>4, <1>5, ItemRowOK
<1>7. PICK w : w = [id |-> i, isUpdate |-> FALSE, row |-> row]
  OBVIOUS
<1>8. w \in Prepared /\ w.id = i /\ w.row = row /\ ~ w.isUpdate
  BY <1>6, <1>7 DEF Prepared
<1>9. Reconstructed(r, Prepare(ereq[r], w))
  BY <1>3, <1>5, <1>7
<1>10. w.row.created <= w.row.updated /\ w.row.updated <= now
  BY <1>4, <1>6, <1>8
<1> QED
  BY <1>1, <1>2, <1>3, <1>4, <1>6, <1>8, <1>9, <1>10, PreparedKeeps
     DEF FreshId

(* An item with the id of an event of the user: that event, written over.  *)
LEMMA ImportExistingKeeps ==
    ASSUME EventInv, NEW r \in EventRequest, ImportExisting(r)
    PROVE  EventInv'
<1>1. PICK it : it = ereq[r].doc[ereq[r].pos]
  OBVIOUS
<1>2. /\ ereq[r].call = "Reconstruct"
      /\ UNCHANGED <<accounts, events, issued, removed, now, outages>>
      /\ ItemOK(it) /\ Visible(ereq[r].uid, it.id)
      /\ Reconstructed(r, Prepare(ereq[r],
            [id |-> it.id, isUpdate |-> TRUE,
             row |-> [ItemRow(ereq[r].uid, it) EXCEPT
                        !.created = events[it.id].created]]))
  BY <1>1 DEF ImportExisting
<1>3. /\ it \in Item /\ ereq[r].uid \in User
      /\ now \in 0 .. LastInstant /\ issued \subseteq EventId
      /\ DOMAIN events \subseteq EventId
      /\ events \in [DOMAIN events -> EventRow]
      /\ SealedInOrder
  BY <1>1, <1>2, ItemAtHand DEF ReconstructingOK, EventInv, EventTypeOK
<1>4. it.id \in DOMAIN events
  BY <1>2 DEF Visible
<1>5. PICK c : c = events[it.id].created
  OBVIOUS
<1>6. c \in 0 .. LastInstant /\ c <= now
  <2>1. /\ events[it.id].created \in 0 .. LastInstant
        /\ events[it.id].updated \in 0 .. LastInstant
    BY <1>3, <1>4 DEF EventRow
  <2>2. /\ events[it.id].created <= events[it.id].updated
        /\ events[it.id].updated <= now
    BY <1>3, <1>4 DEF SealedInOrder
  <2> QED
    BY <1>3, <1>5, <2>1, <2>2, EventBoundAssumption
<1>7. PICK base : base = ItemRow(ereq[r].uid, it)
  OBVIOUS
<1>8. /\ base \in EventRow /\ base.user = ereq[r].uid
      /\ base.updated = now
  BY <1>2, <1>3, <1>7, ItemRowOK
<1>9. PICK row : row = [base EXCEPT !.created = c]
  OBVIOUS
<1>10. /\ row \in EventRow /\ row.user = ereq[r].uid
       /\ row.created = c /\ row.updated = now
  BY <1>6, <1>8, <1>9 DEF EventRow
<1>11. PICK w : w = [id |-> it.id, isUpdate |-> TRUE, row |-> row]
  OBVIOUS
<1>12. w \in Prepared /\ w.id = it.id /\ w.row = row /\ w.isUpdate
  BY <1>3, <1>4, <1>10, <1>11 DEF Prepared
<1>13. Reconstructed(r, Prepare(ereq[r], w))
  BY <1>2, <1>5, <1>7, <1>9, <1>11
<1>14. w.row.created <= w.row.updated /\ w.row.updated <= now
  BY <1>3, <1>6, <1>10, <1>12
<1> QED
  BY <1>1, <1>2, <1>3, <1>4, <1>5, <1>10, <1>12, <1>13, <1>14, PreparedKeeps

(* An invalid item.                                                        *)
LEMMA ImportInvalidKeeps ==
    ASSUME EventInv, NEW r \in EventRequest, ImportInvalid(r)
    PROVE  EventInv'
<1>1. PICK q : q = ereq[r]
  OBVIOUS
<1>2. /\ q.call = "Reconstruct"
      /\ UNCHANGED <<accounts, events, issued, removed, now, outages>>
      /\ Reconstructed(r, [q EXCEPT !.pos = @ + 1, !.failed = @ + 1])
  BY <1>1 DEF ImportInvalid
<1>3. /\ ReconstructingOK(q) /\ q.pos \in 1 .. Len(q.doc)
      /\ q.failed \in Nat /\ q.todo \in Seq(Prepared)
      /\ q.doc \in Seq(Item) /\ Len(q.doc) \in Nat /\ Len(q.todo) \in Nat
      /\ q \in EventRequestState
  BY <1>1, <1>2, ItemAtHand DEF ReconstructingOK
<1>4. PICK n \in Nat, m \in Nat : n = q.pos + 1 /\ m = q.failed + 1
  BY <1>3
<1>5. PICK x : x = [q EXCEPT !.pos = n, !.failed = m]
  OBVIOUS
<1>6. /\ x \in EventRequestState /\ x.op = q.op /\ x.call = q.call
      /\ x.uid = q.uid /\ x.pos = n /\ x.todo = q.todo /\ x.doc = q.doc
      /\ x.failed = m /\ x.imported = q.imported /\ x.updated = q.updated
  BY <1>3, <1>5 DEF EventRequestState
<1>7. ReconstructingOK(x)
  <2>1. x.pos \in 1 .. Len(x.doc) + 1
    BY <1>3, <1>4, <1>6
  <2>2. Len(x.todo) + x.failed = x.pos - 1
    <3>1. Len(q.todo) + q.failed = q.pos - 1
      BY <1>3 DEF ReconstructingOK
    <3>2. /\ Len(x.todo) = Len(q.todo) /\ x.failed = q.failed + 1
          /\ x.pos = q.pos + 1 /\ q.pos \in Nat /\ q.failed \in Nat
          /\ Len(q.todo) \in Nat
      BY <1>3, <1>4, <1>6
    <3>3. PICK a \in Nat, f \in Nat, p \in Nat :
             a = Len(q.todo) /\ f = q.failed /\ p = q.pos
      BY <3>2
    <3>4. a + f = p - 1 => a + (f + 1) = (p + 1) - 1
      OBVIOUS
    <3>5. a + f = p - 1
      BY <3>1, <3>3
    <3> QED
      BY <3>2, <3>3, <3>4, <3>5
  <2>3. x.failed # 0
    BY <1>3, <1>4, <1>6
  <2> QED
    BY <1>3, <1>6, <2>1, <2>2, <2>3 DEF ReconstructingOK
<1>8. WritesOK(q)'
  <2>1. WritesOK(q)
    BY <1>1 DEF EventInv, WritesOK
  <2> QED
    BY <1>2, <2>1 DEF WritesOK, WriteOK
<1>9. WritesOK(x)' /\ InsertsOf(x) = Inserts(r)
  <2>1. WritesOK(x)'
    BY <1>6, <1>8 DEF WritesOK, WriteOK
  <2>2. InsertsOf(x) = Inserts(r)
    BY <1>1, <1>6 DEF InsertsOf, Inserts
  <2> QED
    BY <2>1, <2>2
<1>10. \A j, k \in InsertsOf(x) : x.todo[j].id = x.todo[k].id => j = k
  BY <1>1, <1>6, <1>9 DEF EventInv, PendingIds
<1>11. /\ Reconstructed(r, x)
       /\ outages \in 0 .. EventFaults /\ issued \subseteq EventId
  BY <1>2, <1>4, <1>5 DEF EventInv, EventTypeOK
<1> QED
  BY <1>1, <1>2, <1>6, <1>7, <1>9, <1>10, <1>11, ReconstructedKeeps

(* An import, or any other request, that an error of a call ends.          *)
LEMMA EFailuresKeep ==
    ASSUME EventInv, NEW r \in EventRequest, ImportBadId(r) \/ ECallFails(r)
    PROVE  EventInv'
<1>1. /\ outages \in 0 .. EventFaults /\ issued \subseteq EventId
      /\ "internal_error" \in Code
  BY DEF EventInv, EventTypeOK, Code, ErrorCode
<1>2. /\ UNCHANGED <<accounts, events, issued, removed, now>>
      /\ outages' \in 0 .. EventFaults
  BY <1>1, EventBoundAssumption DEF ImportBadId, ECallFails
<1>3. PICK q : q.op = ereq[r].op /\ Shows(r, q, "internal_error", {})
  <2>1. CASE ImportBadId(r)
    <3>1. PICK q : q = [ereq[r] EXCEPT !.failed = 0]
      OBVIOUS
    <3>2. q.op = ereq[r].op
      BY <3>1, BusyOK DEF EventRequestState
    <3> QED
      BY <2>1, <3>1, <3>2 DEF ImportBadId, Reply
  <2>2. CASE ECallFails(r)
    <3>1. PICK q : q = [ereq[r] EXCEPT !.failed = 0, !.imported = 0,
                                       !.updated = 0]
      OBVIOUS
    <3>2. q.op = ereq[r].op
      BY <3>1, BusyOK DEF EventRequestState
    <3> QED
      BY <2>2, <3>1, <3>2 DEF ECallFails, Stops, Reply
  <2> QED
    BY <2>1, <2>2
<1>4. q.op \in EventOp
  BY <1>3, BusyOK
<1> QED
  BY <1>1, <1>2, <1>3, <1>4, QuietShows

(* The other rows an import is about to write, while it writes its first.  *)
LEMMA LaterWritesOK ==
    ASSUME EventInv, NEW r \in EventRequest,
           TablesEvolve, now' \in Nat,
           \A i \in NewEvents :
               1 \in Inserts(r) /\ i = ereq[r].todo[1].id,
           NEW q, q = ereq[r],
           NEW k \in 1 .. Len(q.todo), k # 1, NEW w, w = q.todo[k]
    PROVE  WriteOK(q, w)'
<1>1. ereq[r].todo \in Seq(Prepared)
  BY BusyOK, MemoryTyped
<1>2. w \in Prepared
  BY <1>1
<1>3. WriteOK(q, w)
  BY DEF EventInv
<1>4. w.id \notin NewEvents
  <2> SUFFICES ASSUME w.id \in NewEvents
               PROVE  FALSE
    OBVIOUS
  <2>1. 1 \in Inserts(r) /\ w.id = ereq[r].todo[1].id
    OBVIOUS
  <2>2. WriteOK(ereq[r], ereq[r].todo[1]) /\ ~ ereq[r].todo[1].isUpdate
    BY <2>1 DEF EventInv, Inserts
  <2>3. w.id \notin DOMAIN events \cup removed
    BY <2>1, <2>2 DEF WriteOK
  <2>4. ~ w.isUpdate
    BY <1>3, <2>3 DEF WriteOK
  <2>5. k \in Inserts(r)
    BY <2>4 DEF Inserts
  <2> QED
    BY <2>1, <2>5 DEF EventInv, PendingIds
<1>5. EventTablesOK
  BY EventParts
<1> QED
  BY <1>2, <1>3, <1>4, <1>5, WriteStaysOK

(* What is left of an import once its first row is written.                *)
LEMMA WrittenOK ==
    ASSUME EventInv, NEW r \in EventRequest, ereq[r].call = "Apply",
           NEW x, x = Written(ereq[r])
    PROVE  /\ x \in EventRequestState /\ x.op = "import" /\ x.call = "Apply"
           /\ x.uid = ereq[r].uid /\ x.doc = ereq[r].doc
           /\ x.pos = ereq[r].pos /\ x.failed = ereq[r].failed
           /\ x.mode = ereq[r].mode
           /\ x.pos \in 1 .. Len(x.doc) + 1
           /\ x.todo \in Seq(Prepared)
           /\ Len(x.todo) = Len(ereq[r].todo) - 1
           /\ \A k \in 1 .. Len(x.todo) :
                 k + 1 \in 2 .. Len(ereq[r].todo)
                    /\ x.todo[k] = ereq[r].todo[k + 1]
           /\ Len(x.todo) + x.imported + x.updated + x.failed = x.pos - 1
<1>1. PICK q : q = ereq[r]
  OBVIOUS
<1>2. /\ q \in EventRequestState /\ q.op = "import" /\ q.todo # <<>>
      /\ q.call = "Apply"
      /\ q.pos \in 1 .. Len(q.doc) + 1
      /\ Len(q.todo) + q.imported + q.updated + q.failed = q.pos - 1
  BY <1>1 DEF EventInv, EventTypeOK, EControlOK
<1>3. /\ q.todo \in Seq(Prepared) /\ q.pos \in Nat /\ q.failed \in Nat
      /\ q.imported \in Nat /\ q.updated \in Nat
  BY <1>2, MemoryTyped
<1>4. PICK t : t = Tail(q.todo)
  OBVIOUS
<1>5. /\ t \in Seq(Prepared) /\ Len(t) = Len(q.todo) - 1
      /\ Len(t) \in Nat
      /\ \A k \in 1 .. Len(t) :
            k + 1 \in 2 .. Len(q.todo) /\ t[k] = q.todo[k + 1]
  BY <1>2, <1>3, <1>4
<1>6. PICK m \in Nat, n \in Nat :
         /\ m = q.updated + (IF Head(q.todo).isUpdate THEN 1 ELSE 0)
         /\ n = q.imported + (IF Head(q.todo).isUpdate THEN 0 ELSE 1)
         /\ m + n = q.updated + q.imported + 1
  <2>1. PICK a \in Nat, b \in Nat : a = q.updated /\ b = q.imported
    BY <1>3
  <2>2. CASE Head(q.todo).isUpdate
    <3>1. a + 1 \in Nat /\ b + 0 \in Nat /\ (a + 1) + (b + 0) = a + b + 1
      OBVIOUS
    <3> QED
      BY <2>1, <2>2, <3>1
  <2>3. CASE ~ Head(q.todo).isUpdate
    <3>1. a + 0 \in Nat /\ b + 1 \in Nat /\ (a + 0) + (b + 1) = a + b + 1
      OBVIOUS
    <3> QED
      BY <2>1, <2>3, <3>1
  <2> QED
    BY <2>2, <2>3
<1>7. x = [q EXCEPT !.todo = t, !.updated = m, !.imported = n]
  BY <1>1, <1>4, <1>6 DEF Written
<1>8. /\ x \in EventRequestState /\ x.op = q.op /\ x.call = q.call
      /\ x.uid = q.uid /\ x.doc = q.doc /\ x.pos = q.pos
      /\ x.failed = q.failed /\ x.mode = q.mode
      /\ x.todo = t /\ x.imported = n /\ x.updated = m
  BY <1>2, <1>5, <1>7 DEF EventRequestState
<1>9. Len(t) + n + m + q.failed = q.pos - 1
  <2>1. PICK a \in Nat, b \in Nat, f \in Nat, p \in Nat, l \in Nat :
           /\ a = q.updated /\ b = q.imported /\ f = q.failed /\ p = q.pos
           /\ l = Len(t)
    BY <1>3, <1>5
  <2>2. m + n = a + b + 1 /\ Len(q.todo) = l + 1
    BY <1>3, <1>5, <1>6, <2>1
  <2>3. (l + 1) + b + a + f = p - 1
    BY <1>2, <2>1, <2>2
  <2>4. l + n + m + f = p - 1
    BY <2>2, <2>3
  <2> QED
    BY <2>1, <2>4
<1> QED
  BY <1>1, <1>2, <1>5, <1>8, <1>9

(* The next row of an import is written.                                   *)
LEMMA ImportApplyKeeps ==
    ASSUME EventInv, NEW r \in EventRequest, ImportApply(r)
    PROVE  EventInv'
<1>1. PICK q : q = ereq[r]
  OBVIOUS
<1>2. PICK w : w = Head(q.todo)
  OBVIOUS
<1>3. PICK x : x = Written(q)
  OBVIOUS
<1>4. /\ q \in EventRequestState /\ q.call = "Apply" /\ q.op = "import"
      /\ q.uid \in User /\ q.todo # <<>> /\ ~ Refused(q)
      /\ q.pos = Len(q.doc) + 1
      /\ q.failed = 0 => \A k \in 1 .. q.pos - 1 : ItemOK(q.doc[k])
  BY <1>1 DEF EventInv, EventTypeOK, EControlOK, ImportApply
<1>5. /\ outages \in 0 .. EventFaults /\ issued \subseteq EventId
      /\ {"ok", "internal_error", "event_not_found"} \subseteq Code
      /\ "import" \in EventOp
  BY DEF EventInv, EventTypeOK, Code, ErrorCode, EventOp
<1>6. /\ UNCHANGED <<accounts, issued, removed, now>>
      /\ outages' \in 0 .. EventFaults
  BY <1>5, EventBoundAssumption DEF ImportApply
<1>7. \A code \in Code : Stops(r, code) =>
         \E y : y.op = "import" /\ Shows(r, y, code, {})
  <2>1. PICK y : y = [q EXCEPT !.failed = 0, !.imported = 0, !.updated = 0]
    OBVIOUS
  <2>2. y.op = "import"
    BY <1>4, <2>1 DEF EventRequestState
  <2> QED
    BY <1>1, <2>1, <2>2 DEF Stops, Reply
<1>8. CASE UNCHANGED events /\ \E code \in Code \ {"ok"} : Stops(r, code)
  BY <1>5, <1>6, <1>7, <1>8, QuietShows
<1>9. ASSUME EventTablesOK', TablesEvolve,
             \A i \in NewEvents :
                 1 \in Inserts(r) /\ i = ereq[r].todo[1].id,
             \/ x.todo # <<>> /\ Goes(r, x)
             \/ x.todo = <<>> /\ Reply(r, x, "ok")
             \/ Stops(r, "internal_error")
      PROVE  EventInv'
  <2>1. /\ x \in EventRequestState /\ x.op = "import" /\ x.call = "Apply"
        /\ x.uid = q.uid /\ x.doc = q.doc /\ x.pos = q.pos
        /\ x.failed = q.failed /\ x.mode = q.mode
        /\ x.pos \in 1 .. Len(x.doc) + 1
        /\ x.todo \in Seq(Prepared) /\ Len(x.todo) = Len(q.todo) - 1
        /\ \A k \in 1 .. Len(x.todo) :
              k + 1 \in 2 .. Len(q.todo) /\ x.todo[k] = q.todo[k + 1]
        /\ Len(x.todo) + x.imported + x.updated + x.failed = x.pos - 1
    BY <1>1, <1>3, <1>4, WrittenOK
  <2>2. \A i \in NewEvents : \E j \in Inserts(r) : i = ereq[r].todo[j].id
    BY <1>9
  <2>3. CASE Stops(r, "internal_error")
    <3>1. PICK y : y.op = "import" /\ Shows(r, y, "internal_error", {})
      BY <1>5, <1>7, <2>3
    <3> QED
      BY <1>5, <1>9, <2>2, <3>1, ShowsKeeps
  <2>4. CASE x.todo = <<>> /\ Reply(r, x, "ok")
    <3>1. Len(x.todo) = 0
      BY <2>4
    <3>2. /\ Len(x.doc) \in Nat /\ x.imported \in Nat /\ x.updated \in Nat
          /\ x.failed \in Nat
      BY <2>1, MemoryTyped
    <3>3. x.imported + x.updated + x.failed = Len(x.doc)
      BY <1>4, <2>1, <3>1, <3>2
    <3>4. Shows(r, x, "ok", {})
      BY <2>4 DEF Reply
    <3> QED
      BY <1>5, <1>9, <2>1, <2>2, <3>3, <3>4, ShowsKeeps
  <2>5. CASE x.todo # <<>> /\ Goes(r, x)
    <3>1. x.pos = Len(x.doc) + 1 /\ ~ Refused(x)
      BY <1>4, <2>1 DEF Refused
    <3>2. EControlOK(x)
      BY <1>4, <2>1, <2>5, <3>1 DEF EControlOK
    <3>3. WritesOK(x)'
      <4> SUFFICES ASSUME NEW k \in 1 .. Len(x.todo)
                   PROVE  WriteOK(x, x.todo[k])'
        BY DEF WritesOK
      <4>1. k + 1 \in 1 .. Len(q.todo) /\ k + 1 # 1
        BY <2>1
      <4>2. PICK v : v = q.todo[k + 1]
        OBVIOUS
      <4>3. now' \in Nat
        BY <1>9 DEF EventTablesOK
      <4>4. WriteOK(q, v)'
        BY <1>1, <1>9, <4>1, <4>2, <4>3, LaterWritesOK
      <4>5. x.todo[k] = v /\ x.uid = q.uid
        BY <2>1, <4>2
      <4> QED
        BY <4>4, <4>5 DEF WriteOK
    <3>4. \A k \in InsertsOf(x) :
             k + 1 \in Inserts(r) /\ x.todo[k].id = ereq[r].todo[k + 1].id
      BY <1>1, <2>1 DEF InsertsOf, Inserts
    <3>5. \A j, k \in InsertsOf(x) : x.todo[j].id = x.todo[k].id => j = k
      <4> SUFFICES ASSUME NEW j \in InsertsOf(x), NEW k \in InsertsOf(x),
                          x.todo[j].id = x.todo[k].id
                   PROVE  j = k
        OBVIOUS
      <4>1. j + 1 = k + 1
        BY <3>4 DEF EventInv, PendingIds
      <4> QED
        BY <4>1 DEF InsertsOf
    <3> QED
      BY <1>9, <2>1, <2>2, <2>5, <3>2, <3>3, <3>4, <3>5, GoesKeeps
  <2> QED
    BY <1>9, <2>3, <2>4, <2>5
<1>10. CASE w.isUpdate /\ Visible(w.row.user, w.id) /\ UpdateRow(w.id, w.row)
  <2>1. EventTablesOK' /\ TablesEvolve /\ NewEvents = {}
    BY <1>1, <1>2, <1>4, <1>6, <1>10, FirstUpdate
  <2>2. \/ x.todo # <<>> /\ Goes(r, x)
        \/ x.todo = <<>> /\ Reply(r, x, "ok")
        \/ Stops(r, "internal_error")
        \/ Stops(r, "event_not_found") /\ UNCHANGED events
    BY <1>1, <1>2, <1>3, <1>10 DEF ImportApply
  <2> QED
    BY <1>5, <1>8, <1>9, <2>1, <2>2
<1>11. CASE /\ ~ w.isUpdate /\ ~ InsertRefused(w.id, w.row)
            /\ InsertEvent(w.id, w.row)
  <2>1. EventTablesOK' /\ TablesEvolve
    BY <1>1, <1>2, <1>4, <1>6, <1>11, FirstInsert
  <2>2. w = ereq[r].todo[1] /\ 1 \in Inserts(r)
    BY <1>1, <1>2, <1>4, <1>11, FirstWrite
  <2>3. NewEvents \subseteq {w.id}
    BY <1>11 DEF InsertEvent, NewEvents
  <2>4. \/ x.todo # <<>> /\ Goes(r, x)
        \/ x.todo = <<>> /\ Reply(r, x, "ok")
        \/ Stops(r, "internal_error")
        \/ Stops(r, "event_not_found") /\ UNCHANGED events
    BY <1>1, <1>2, <1>3, <1>11 DEF ImportApply
  <2> QED
    BY <1>5, <1>8, <1>9, <2>1, <2>2, <2>3, <2>4
<1> QED
  BY <1>1, <1>2, <1>5, <1>8, <1>10, <1>11 DEF ImportApply

-----------------------------------------------------------------------------
(* The steps of others, and the clock.                                     *)

(* No request moves and no event comes: what they hold stays good.         *)
LEMMA RequestsStand ==
    ASSUME EventInv, UNCHANGED ereq, eanswer' = ENoAnswer,
           EventTablesOK', TablesEvolve, NewEvents = {}
    PROVE  EventInv'
<1>1. EventMemoryOK'
  <2>1. EventTablesOK /\ EventMemoryOK /\ now' \in Nat
    BY EventParts DEF EventTablesOK
  <2>2. \A s \in EventRequest : WritesOK(ereq[s])'
    <3> TAKE s \in EventRequest
    <3>1. PICK q : q = ereq[s]
      OBVIOUS
    <3>2. q.todo \in Seq(Prepared)
      BY <3>1, BusyOK, MemoryTyped
    <3>3. \A k \in 1 .. Len(q.todo) : WriteOK(q, q.todo[k])'
      <4> TAKE k \in 1 .. Len(q.todo)
      <4>1. PICK w : w = q.todo[k]
        OBVIOUS
      <4>2. w \in Prepared /\ WriteOK(q, w)
        BY <3>1, <3>2, <4>1 DEF EventInv
      <4>3. WriteOK(q, w)'
        BY <2>1, <4>2, WriteStaysOK
      <4> QED
        BY <4>1, <4>3
    <3>4. ereq'[s] = q
      BY <3>1
    <3> QED
      BY <3>3, <3>4 DEF WritesOK
  <2>3. PendingIds'
    BY <2>1 DEF EventMemoryOK, PendingIds, Inserts
  <2> QED
    BY <2>1, <2>2, <2>3 DEF EventMemoryOK
<1>2. EventAnswerOK'
  BY DEF ENoAnswer, EventAnswerOK, SummaryAccountsForAll, EventOp, Code
<1> QED
  BY <1>1, <1>2, EventPartsNext

(* An account goes, and its events with it.                                *)
LEMMA AccountDeletedKeepsEvents ==
    ASSUME EventInv, NEW u \in User, AccountDeleted(u)
    PROVE  EventInv'
<1>1. EventTablesOK /\ outages \in 0 .. EventFaults
  BY EventParts DEF EventInv, EventTypeOK
<1>2. PICK I : I = {i \in DOMAIN events : events[i].user = u}
  OBVIOUS
<1>3. /\ RemoveEvents(I) /\ accounts' = accounts \ {u}
      /\ UNCHANGED <<issued, ereq, now, outages>>
      /\ eanswer' = ENoAnswer
  BY <1>2 DEF AccountDeleted
<1>4. EventTablesOK'
  <2>1. accounts' \subseteq User
    BY <1>1, <1>3 DEF EventTablesOK
  <2>2. \A i \in DOMAIN events \ I : events[i].user \in accounts'
    BY <1>1, <1>2, <1>3 DEF EventTablesOK, NoOrphanEvents
  <2> QED
    BY <1>1, <1>3, <2>1, <2>2, RemoveKeepsEvents
<1>5. TablesEvolve /\ NewEvents = {}
  BY <1>1, <1>3, RemoveEvolves
<1> QED
  BY <1>3, <1>4, <1>5, RequestsStand

(* Accounts come, with no event yet.                                       *)
LEMMA AccountsGrowKeepsEvents ==
    ASSUME EventInv, accounts \subseteq accounts', accounts' \subseteq User,
           UNCHANGED <<events, issued, removed, ereq, now, outages>>,
           eanswer' = ENoAnswer
    PROVE  EventInv'
<1>1. EventTablesOK /\ now \in Nat
  BY EventParts DEF EventInv, EventTypeOK
<1>2. EventTablesOK' /\ TablesEvolve /\ NewEvents = {}
  BY <1>1 DEF EventTablesOK, SealedInOrder, DeletedStaysDeleted,
              NoOrphanEvents, TablesEvolve, NewEvents
<1> QED
  BY <1>2, RequestsStand

(* The clock keeps the invariant.                                          *)
LEMMA ETickKeeps ==
    ASSUME EventInv, ETick
    PROVE  EventInv'
<1>1. EventTablesOK /\ now \in 0 .. LastInstant /\ LastInstant \in Nat
  BY EventParts, EventBoundAssumption DEF EventInv, EventTypeOK
<1>2. /\ UNCHANGED <<accounts, events, issued, removed, ereq, outages>>
      /\ now' = now + 1 /\ now < LastInstant /\ eanswer' = ENoAnswer
  BY DEF ETick
<1>3. now' \in 0 .. LastInstant /\ now <= now'
  BY <1>1, <1>2
<1>4. SealedInOrder'
  <2> SUFFICES ASSUME NEW i \in DOMAIN events
               PROVE  /\ events[i].created <= events[i].updated
                      /\ events[i].updated <= now'
    BY <1>2 DEF SealedInOrder
  <2>1. events[i].created <= events[i].updated /\ events[i].updated <= now
    BY <1>1 DEF EventTablesOK, SealedInOrder
  <2>2. events[i].updated \in 0 .. LastInstant
    BY <1>1 DEF EventTablesOK, EventRow
  <2> QED
    BY <1>1, <1>3, <2>1, <2>2
<1>5. EventTablesOK'
  BY <1>1, <1>2, <1>3, <1>4
     DEF EventTablesOK, DeletedStaysDeleted, NoOrphanEvents
<1>6. TablesEvolve /\ NewEvents = {}
  BY <1>2, <1>3 DEF TablesEvolve, NewEvents
<1> QED
  BY <1>2, <1>5, <1>6, RequestsStand

-----------------------------------------------------------------------------
(* The invariant.                                                          *)

(* Any step of a request keeps it, whoever takes the others.               *)
THEOREM EventStepKeeps ==
    ASSUME EventInv, NEW r \in EventRequest,
           (\E u \in User : Arrives(r, u)) \/ Resumes(r)
    PROVE  EventInv'
<1>1. CASE \E u \in User : Arrives(r, u)
  BY <1>1, ERefusalsKeep, CreateStartKeeps, UpdateFindByIDKeeps,
     StatusFindByIDKeeps, DeleteEventKeeps, QueriesKeep, ImportStartKeeps
     DEF Arrives
<1>2. CASE Resumes(r)
  BY <1>2, CreateKeeps, UpdateKeeps, QueriesKeep, ImportNewKeeps,
     ImportExistingKeeps, ImportInvalidKeeps, EFailuresKeep, ImportApplyKeeps
     DEF Resumes
<1> QED
  BY <1>1, <1>2

(* A service without requests satisfies it.                                *)
LEMMA EventInvInit == EventInit => EventInv
<1> SUFFICES ASSUME EventInit
             PROVE  EventInv
  OBVIOUS
<1>1. \A r \in EventRequest : ereq[r] = EIdle
  BY DEF EventInit
<1>2. EIdle \in EventRequestState /\ EIdle.pos \in 1 .. Len(EIdle.doc) + 1
  BY EIdleOK
<1>3. EControlOK(EIdle) /\ EIdle.todo = <<>>
  BY EIdleOK
<1>4. /\ ereq \in [EventRequest -> EventRequestState]
      /\ \A r \in EventRequest : ereq[r].pos \in 1 .. Len(ereq[r].doc) + 1
  BY <1>1, <1>2 DEF EventInit
<1>5. \A r \in EventRequest :
         EControlOK(ereq[r]) /\ \A k \in 1 .. Len(ereq[r].todo) : FALSE
  BY <1>1, <1>3
<1>6. PendingIds
  BY <1>5 DEF PendingIds, Inserts
<1>7. /\ accounts \subseteq User /\ events = [i \in {} |-> EIdle]
      /\ issued = {} /\ removed = {} /\ now = 0 /\ outages = EventFaults
      /\ eanswer = ENoAnswer
  BY DEF EventInit
<1>8. DOMAIN events = {} /\ events \in [DOMAIN events -> EventRow]
  BY <1>7
<1>9. /\ eanswer.op = "none" /\ eanswer.code = "none" /\ eanswer.rows = {}
  BY <1>7 DEF ENoAnswer
<1>10. now \in 0 .. LastInstant /\ outages \in 0 .. EventFaults
  BY <1>7, EventBoundAssumption
<1>11. EventTypeOK
  BY <1>4, <1>7, <1>8, <1>9, <1>10 DEF EventTypeOK, EventOp, Code
<1>12. SealedInOrder /\ DeletedStaysDeleted /\ NoOrphanEvents
  BY <1>7, <1>8 DEF SealedInOrder, DeletedStaysDeleted, NoOrphanEvents
<1>13. SummaryAccountsForAll
  BY <1>9 DEF SummaryAccountsForAll
<1> QED
  BY <1>5, <1>6, <1>11, <1>12, <1>13 DEF EventInv

(* Every step keeps the invariant.                                         *)
LEMMA EventInvNext == EventInv /\ [EventNext]_eventVars => EventInv'
<1> SUFFICES ASSUME EventInv, [EventNext]_eventVars
             PROVE  EventInv'
  OBVIOUS
<1>1. CASE UNCHANGED eventVars
  BY <1>1
     DEF eventVars, EventInv, EventTypeOK, SealedInOrder, DeletedStaysDeleted,
         SummaryAccountsForAll, NoOrphanEvents, PendingIds, Inserts,
         EControlOK, WriteOK
<1>2. CASE EventNext
  BY <1>2, EventStepKeeps, AccountDeletedKeepsEvents, ETickKeeps DEF EventNext
<1> QED
  BY <1>1, <1>2

(* EventInv always holds: types, and what requests in flight rely on.      *)
THEOREM EventInvariance == EventSpec => []EventInv
BY EventInvInit, EventInvNext, PTL DEF EventSpec

(* Timestamps are sealed in order, whatever the requests that race.        *)
THEOREM TimestampsSealed == EventSpec => []SealedInOrder
<1>1. EventInv => SealedInOrder
  BY DEF EventInv
<1> QED
  BY <1>1, EventInvariance, PTL

(* No event comes back under the id of one that was deleted.               *)
THEOREM DeletedForGood == EventSpec => []DeletedStaysDeleted
<1>1. EventInv => DeletedStaysDeleted
  BY DEF EventInv
<1> QED
  BY <1>1, EventInvariance, PTL

(* The summary of an import that succeeds accounts for each of its items,  *)
(* whatever the document and whatever runs between its steps.              *)
THEOREM SummariesAddUp == EventSpec => []SummaryAccountsForAll
<1>1. EventInv => SummaryAccountsForAll
  BY DEF EventInv
<1> QED
  BY <1>1, EventInvariance, PTL

-----------------------------------------------------------------------------
(* What a step may do to the events.                                       *)

(* The three statements that write to table events.                        *)
InsertsFirst(r) ==
    /\ ereq[r].todo # <<>> /\ ~ Head(ereq[r].todo).isUpdate
    /\ ~ InsertRefused(Head(ereq[r].todo).id, Head(ereq[r].todo).row)
    /\ InsertEvent(Head(ereq[r].todo).id, Head(ereq[r].todo).row)
    /\ UNCHANGED removed

UpdatesFirst(r) ==
    /\ ereq[r].todo # <<>> /\ Head(ereq[r].todo).isUpdate
    /\ Visible(Head(ereq[r].todo).row.user, Head(ereq[r].todo).id)
    /\ UpdateRow(Head(ereq[r].todo).id, Head(ereq[r].todo).row)
    /\ UNCHANGED removed

DeletesOne ==
    \E i \in DOMAIN events :
        events[i].user = eanswer'.uid /\ RemoveEvents({i})

(* A request that writes a row moves on: it never writes it twice.         *)
LEMMA WritersMoveOn ==
    ASSUME EventInv, NEW r \in EventRequest,
           Create(r) \/ Update(r) \/ ImportApply(r)
    PROVE  ereq'[r] # ereq[r]
<1>1. /\ ereq[r] \in EventRequestState
      /\ ereq \in [EventRequest -> EventRequestState]
      /\ ereq[r].call \in {"Create", "Update", "Apply"}
      /\ EControlOK(ereq[r])
  BY DEF EventInv, EventTypeOK, Create, Update, ImportApply
<1>2. ASSUME NEW q, NEW code, NEW rows, Shows(r, q, code, rows)
      PROVE  ereq'[r] # ereq[r]
  <2>1. ereq'[r] = EIdle
    BY <1>1, <1>2 DEF Shows
  <2> QED
    BY <1>1, <2>1, EIdleOK
<1>3. CASE \E q, code, rows : Shows(r, q, code, rows)
  BY <1>2, <1>3
<1>4. CASE ereq[r].call = "Apply" /\ Goes(r, Written(ereq[r]))
  <2>1. PICK x : x = Written(ereq[r])
    OBVIOUS
  <2>2. ereq[r].todo \in Seq(Prepared)
    BY <1>1, MemoryTyped
  <2>3. Len(x.todo) = Len(ereq[r].todo) - 1
    BY <1>4, <2>1, WrittenOK
  <2>4. ereq'[r] = x
    BY <1>1, <1>4, <2>1 DEF Goes
  <2>5. PICK n \in Nat : n = Len(ereq[r].todo)
    BY <2>2
  <2>6. n - 1 # n
    OBVIOUS
  <2> QED
    BY <2>3, <2>4, <2>5, <2>6
<1> QED
  BY <1>3, <1>4 DEF Create, Update, ImportApply, Stops, AckLost, Reply

(* The events and the history of deletions change only by a write of the   *)
(* request that moves.                                                     *)
LEMMA HowEventsChange ==
    ASSUME EventInv, NEW r \in EventRequest,
           (\E u \in User : Arrives(r, u)) \/ Resumes(r)
    PROVE  /\ UNCHANGED <<accounts, now>>
           /\ \/ UNCHANGED <<events, removed>>
              \/ /\ InsertsFirst(r) \/ UpdatesFirst(r)
                 /\ ereq'[r] # ereq[r]
                 /\ ereq[r].call = "Apply" \/ ereq[r].op # "import"
              \/ /\ DeletesOne
                 /\ ereq[r].call = "none"
<1>1. ASSUME NEW u \in User, DeleteEvent(r, u)
      PROVE  /\ UNCHANGED <<accounts, now>>
             /\ \/ UNCHANGED <<events, removed>>
                \/ DeletesOne /\ ereq[r].call = "none"
  <2>1. \A code : Reply(r, Start("delete", u), code) => eanswer'.uid = u
    BY StartOK DEF Reply, Shows, EventOp
  <2> QED
    BY <1>1, <2>1 DEF DeleteEvent, Visible, DeletesOne, EFree
<1>2. CASE Create(r)
  <2>1. /\ ereq[r].todo # <<>> /\ ereq[r].op # "import"
        /\ ~ Head(ereq[r].todo).isUpdate
    <3>1. /\ ereq[r].op = "create" /\ Len(ereq[r].todo) = 1
          /\ ~ ereq[r].todo[1].isUpdate
      BY <1>2 DEF EventInv, EControlOK, Create
    <3>2. ereq[r].todo # <<>>
      BY <3>1
    <3> QED
      BY <3>1, <3>2, FirstWrite
  <2> QED
    BY <1>2, <2>1, WritersMoveOn DEF Create, InsertsFirst
<1>3. CASE Update(r)
  <2>1. /\ ereq[r].todo # <<>> /\ ereq[r].op # "import"
        /\ Head(ereq[r].todo).isUpdate
    <3>1. /\ ereq[r].op \in {"update", "status"} /\ Len(ereq[r].todo) = 1
          /\ ereq[r].todo[1].isUpdate
      BY <1>3 DEF EventInv, EControlOK, Update
    <3>2. ereq[r].todo # <<>>
      BY <3>1
    <3> QED
      BY <3>1, <3>2, FirstWrite
  <2> QED
    BY <1>3, <2>1, WritersMoveOn, Zenon DEF Update, UpdatesFirst, Visible
<1>4. CASE ImportApply(r)
  <2>1. ereq[r].todo # <<>> /\ ereq[r].call = "Apply"
    BY <1>4 DEF EventInv, EControlOK, ImportApply
  <2>2. ereq'[r] # ereq[r]
    BY <1>4, WritersMoveOn
  <2> QED
    BY <1>4, <2>1, <2>2 DEF ImportApply, InsertsFirst, UpdatesFirst
<1>5. CASE \E u \in User : Arrives(r, u)
  BY <1>1, <1>5, Zenon
     DEF Arrives, CreateRefused, CreateStart, BadPathId, GetEvent,
         UpdateFindByID, StatusFindByID, QueryCount, ImportStart,
         EFirstCallFails
<1>6. CASE Resumes(r)
  BY <1>2, <1>3, <1>4, <1>6, Zenon
     DEF Resumes, QueryPage, ImportNew, ImportExisting, ImportInvalid,
         ImportBadId, ECallFails
<1> QED
  BY <1>5, <1>6

(* OnlyItsOwner, of one step.                                              *)
MovedByOwner ==
    \A i \in EventId :
       LET before == i \in DOMAIN events
           after == i \in DOMAIN events'
           owner == IF before THEN events[i].user ELSE events'[i].user IN
       /\ before # after \/ (before /\ after /\ events[i] # events'[i])
       => \/ owner \notin accounts'
          \/ eanswer'.uid = owner
          \/ \E r \in EventRequest :
                ereq[r].uid = owner /\ ereq'[r] # ereq[r]

(* A request changes rows of its user only.                                *)
LEMMA RequestsMoveTheirOwn ==
    ASSUME EventInv, NEW r \in EventRequest,
           (\E u \in User : Arrives(r, u)) \/ Resumes(r)
    PROVE  MovedByOwner
<1>1. CASE UNCHANGED events
  BY <1>1 DEF MovedByOwner
<1>2. CASE InsertsFirst(r) /\ ereq'[r] # ereq[r]
  <2>1. PICK w : w = Head(ereq[r].todo)
    OBVIOUS
  <2>2. w.row.user = ereq[r].uid
    BY <1>2, <2>1, FirstWrite DEF InsertsFirst, WriteOK
  <2>3. /\ DOMAIN events' = DOMAIN events \cup {w.id} /\ events'[w.id] = w.row
        /\ \A x \in DOMAIN events : x # w.id => events'[x] = events[x]
        /\ w.id \notin DOMAIN events
    BY <1>2, <2>1 DEF InsertsFirst, InsertEvent, InsertRefused
  <2> QED
    BY <1>2, <2>2, <2>3 DEF MovedByOwner
<1>3. CASE UpdatesFirst(r) /\ ereq'[r] # ereq[r]
  <2>1. PICK w : w = Head(ereq[r].todo)
    OBVIOUS
  <2>2. w.row.user = ereq[r].uid
    BY <1>3, <2>1, FirstWrite DEF UpdatesFirst, WriteOK
  <2>3. /\ DOMAIN events' = DOMAIN events /\ w.id \in DOMAIN events
        /\ \A x \in DOMAIN events : x # w.id => events'[x] = events[x]
        /\ events[w.id].user = w.row.user
    BY <1>3, <2>1 DEF UpdatesFirst, UpdateRow, Visible, EventInv, EventTypeOK
  <2> QED
    BY <1>3, <2>2, <2>3 DEF MovedByOwner
<1>4. CASE DeletesOne
  BY <1>4 DEF DeletesOne, RemoveEvents, MovedByOwner
<1> QED
  BY <1>1, <1>2, <1>3, <1>4, HowEventsChange

(* The cascade removes rows of the deleted account only.                   *)
LEMMA CascadeMovesItsOwn ==
    ASSUME EventInv, NEW u \in User, AccountDeleted(u)
    PROVE  MovedByOwner
BY DEF AccountDeleted, RemoveEvents, MovedByOwner

(* An event is created, changed or deleted by a request of its owner, or   *)
(* goes with its account.                                                  *)
THEOREM OwnersOnly == EventSpec => OnlyItsOwner
<1>1. EventInv /\ [EventNext]_eventVars => [MovedByOwner]_eventVars
  <2> SUFFICES ASSUME EventInv, EventNext
               PROVE  MovedByOwner
    OBVIOUS
  <2>1. ASSUME ETick
        PROVE  MovedByOwner
    BY <2>1 DEF ETick, MovedByOwner
  <2> QED
    BY <2>1, RequestsMoveTheirOwn, CascadeMovesItsOwn DEF EventNext
<1> QED
  BY <1>1, EventInvariance, PTL DEF EventSpec, OnlyItsOwner, MovedByOwner

(* ShowsOwnEvents, of one step.                                            *)
ShowsOwn ==
    \A i \in eanswer'.rows :
       /\ eanswer'.uid \in accounts
       /\ i \in DOMAIN events
       /\ events[i].user = eanswer'.uid

(* A response without rows.                                                *)
LEMMA NoRows ==
    /\ \A r, q, code : Reply(r, q, code) => eanswer'.rows = {}
    /\ \A r, q : Goes(r, q) => eanswer'.rows = {}
BY DEF Reply, Shows, Goes, ENoAnswer

(* A request answers rows of its user only.                                *)
LEMMA RequestsShowOwn ==
    ASSUME EventInv, NEW r \in EventRequest,
           (\E u \in User : Arrives(r, u)) \/ Resumes(r)
    PROVE  ShowsOwn
<1>1. ASSUME NEW u \in User, GetEvent(r, u)
      PROVE  ShowsOwn
  <2>1. \A i \in EventId : Shows(r, Start("get", u), "ok", {i})
           => eanswer'.uid = u /\ eanswer'.rows = {i}
    BY StartOK DEF Shows, EventOp
  <2> QED
    BY <1>1, <2>1, NoRows
       DEF GetEvent, Visible, ShowsOwn, EventInv, NoOrphanEvents
<1>2. CASE QueryPage(r)
  <2>1. /\ eanswer'.uid = ereq[r].uid
        /\ \A i \in eanswer'.rows : Visible(ereq[r].uid, i)
    BY <1>2 DEF QueryPage, Shows
  <2> QED
    BY <2>1 DEF Visible, ShowsOwn, EventInv, NoOrphanEvents
<1>3. CASE eanswer'.rows = {}
  BY <1>3 DEF ShowsOwn
<1>4. CASE \E u \in User : Arrives(r, u)
  <2>1. ASSUME NEW u \in User, CreateStart(r, u)
        PROVE  eanswer'.rows = {}
    BY <2>1, NoRows DEF CreateStart
  <2>2. ASSUME NEW u \in User, UpdateFindByID(r, u)
        PROVE  eanswer'.rows = {}
    BY <2>2, NoRows DEF UpdateFindByID, GoesUpdate
  <2>3. ASSUME NEW u \in User, StatusFindByID(r, u)
        PROVE  eanswer'.rows = {}
    BY <2>3, NoRows DEF StatusFindByID, GoesUpdate
  <2>4. ASSUME NEW u \in User, ImportStart(r, u)
        PROVE  eanswer'.rows = {}
    BY <2>4, NoRows, Zenon DEF ImportStart, Reconstructed
  <2>5. ASSUME NEW u \in User,
               \/ CreateRefused(r, u) \/ BadPathId(r, u) \/ DeleteEvent(r, u)
               \/ QueryCount(r, u) \/ EFirstCallFails(r, u)
        PROVE  eanswer'.rows = {}
    BY <2>5, NoRows
       DEF CreateRefused, BadPathId, DeleteEvent, QueryCount, EFirstCallFails
  <2> QED
    BY <1>1, <1>3, <1>4, <2>1, <2>2, <2>3, <2>4, <2>5 DEF Arrives
<1>5. CASE Resumes(r)
  BY <1>2, <1>3, <1>5, NoRows, Zenon
     DEF Resumes, Create, Update, ImportNew, ImportExisting, ImportInvalid,
         ImportBadId, ImportApply, Stops, AckLost, Reconstructed, ECallFails
<1> QED
  BY <1>4, <1>5

(* A response shows events of the token's user only, whose account is      *)
(* there, although no query looks at it.                                   *)
THEOREM OwnEventsOnly == EventSpec => ShowsOwnEvents
<1>1. EventInv /\ [EventNext]_eventVars => [ShowsOwn]_eventVars
  <2> SUFFICES ASSUME EventInv, EventNext
               PROVE  ShowsOwn
    OBVIOUS
  <2>1. ASSUME ETick \/ \E u \in User : AccountDeleted(u)
        PROVE  ShowsOwn
    <3>1. eanswer' = ENoAnswer
      BY <2>1 DEF ETick, AccountDeleted
    <3> QED
      BY <3>1 DEF ENoAnswer, ShowsOwn
  <2> QED
    BY <2>1, RequestsShowOwn DEF EventNext
<1> QED
  BY <1>1, EventInvariance, PTL DEF EventSpec, ShowsOwnEvents, ShowsOwn

(* What the response of a step tells of its request.                       *)
LEMMA AnswerTells ==
    /\ \A r, q, code : Reply(r, q, code) => eanswer'.code = code
    /\ \A r, q, code, rows : Shows(r, q, code, rows) => eanswer'.code = code
    /\ \A r, q, code : Reply(r, q, code) => eanswer'.uid = q.uid
    /\ \A r, q, code : Reply(r, q, code) /\ Unfit(q) => eanswer'.unfit
    /\ \A r, q : Goes(r, q) => eanswer'.code = "none"
BY DEF Reply, Shows, Goes, ENoAnswer

(* A request that stops answers its code to its user, and tells of the     *)
(* call it stopped at.                                                     *)
LEMMA StopsTells ==
    ASSUME EventInv, NEW r \in EventRequest, NEW code, Stops(r, code)
    PROVE  /\ eanswer'.code = code /\ eanswer'.uid = ereq[r].uid
           /\ Unfit(ereq[r]) => eanswer'.unfit
<1>1. PICK q : q = [ereq[r] EXCEPT !.failed = 0, !.imported = 0, !.updated = 0]
  OBVIOUS
<1>2. /\ q.uid = ereq[r].uid /\ q.pid = ereq[r].pid /\ q.call = ereq[r].call
      /\ q.todo = ereq[r].todo /\ q.doc = ereq[r].doc /\ q.pos = ereq[r].pos
  BY <1>1, BusyOK DEF EventRequestState
<1>3. Unfit(ereq[r]) => Unfit(q)
  BY <1>2 DEF Unfit
<1> QED
  BY <1>1, <1>2, <1>3, AnswerTells DEF Stops

(* The table refuses the row a request writes only when the account of the *)
(* request is gone, or the row has a U+0000.                               *)
LEMMA RefusedRows ==
    ASSUME EventInv, NEW r \in EventRequest, ereq[r].todo # <<>>,
           ereq[r].call \in {"Create", "Update", "Apply"},
           NEW w, w = Head(ereq[r].todo),
           IF w.isUpdate THEN UpdateRefused(w.id, w.row)
                         ELSE InsertRefused(w.id, w.row)
    PROVE  ereq[r].uid \notin accounts \/ Unfit(ereq[r])
<1>1. w.row \in EventRow /\ WriteOK(ereq[r], w)
  BY FirstWrite
<1>2. ChecksHold(w.row)
  BY <1>1, RowsPassChecks
<1>3. CASE HasNulText(w.row)
  BY <1>3 DEF Unfit
<1>4. CASE ~ HasNulText(w.row)
  BY <1>1, <1>2, <1>4 DEF InsertRefused, UpdateRefused, WriteOK
<1> QED
  BY <1>3, <1>4

(* NoSpuriousEventError, of one step.                                      *)
ErrorIsJustified ==
    eanswer'.code = "internal_error"
      => \/ outages' < outages
         \/ eanswer'.uid \notin accounts
         \/ eanswer'.unfit

(* A request answers 500 only after a failure, without its account, or to  *)
(* a statement that takes no such id or text.                              *)
LEMMA RequestsJustifyErrors ==
    ASSUME EventInv, NEW r \in EventRequest,
           (\E u \in User : Arrives(r, u)) \/ Resumes(r)
    PROVE  ErrorIsJustified
<1>1. outages > 0 /\ outages' = outages - 1 => ErrorIsJustified
  BY DEF ErrorIsJustified, EventInv, EventTypeOK
<1>2. eanswer'.code # "internal_error" => ErrorIsJustified
  BY DEF ErrorIsJustified
<1>3. eanswer'.uid \notin accounts \/ eanswer'.unfit => ErrorIsJustified
  BY DEF ErrorIsJustified
<1>4. CASE Create(r)
  <2>1. PICK w : w = Head(ereq[r].todo)
    OBVIOUS
  <2>2. ereq[r].todo # <<>> /\ ~ w.isUpdate
    <3>1. Len(ereq[r].todo) = 1 /\ ~ ereq[r].todo[1].isUpdate
      BY <1>4 DEF EventInv, EControlOK, Create
    <3>2. ereq[r].todo # <<>>
      BY <3>1
    <3> QED
      BY <2>1, <3>1, <3>2, FirstWrite
  <2>3. CASE InsertRefused(w.id, w.row) /\ Reply(r, ereq[r], "internal_error")
    <3>1. ereq[r].uid \notin accounts \/ Unfit(ereq[r])
      BY <1>4, <2>1, <2>2, <2>3, RefusedRows DEF Create
    <3> QED
      BY <1>3, <2>3, <3>1, AnswerTells
  <2>4. CASE AckLost(r) \/ Reply(r, ereq[r], "ok")
    BY <1>1, <1>2, <2>4, AnswerTells DEF AckLost
  <2> QED
    BY <1>4, <2>1, <2>3, <2>4 DEF Create
<1>5. CASE Update(r)
  <2>1. PICK w : w = Head(ereq[r].todo)
    OBVIOUS
  <2>2. ereq[r].todo # <<>> /\ w.isUpdate
    <3>1. Len(ereq[r].todo) = 1 /\ ereq[r].todo[1].isUpdate
      BY <1>5 DEF EventInv, EControlOK, Update
    <3>2. ereq[r].todo # <<>>
      BY <3>1
    <3> QED
      BY <2>1, <3>1, <3>2, FirstWrite
  <2>3. CASE UpdateRefused(w.id, w.row) /\ Reply(r, ereq[r], "internal_error")
    <3>1. ereq[r].uid \notin accounts \/ Unfit(ereq[r])
      BY <1>5, <2>1, <2>2, <2>3, RefusedRows DEF Update
    <3> QED
      BY <1>3, <2>3, <3>1, AnswerTells
  <2>4. CASE AckLost(r) \/ \E code \in {"ok", "event_not_found"} :
                              Reply(r, ereq[r], code)
    BY <1>1, <1>2, <2>4, AnswerTells DEF AckLost
  <2> QED
    BY <1>5, <2>1, <2>3, <2>4 DEF Update
<1>6. CASE ImportApply(r)
  <2>1. PICK w : w = Head(ereq[r].todo)
    OBVIOUS
  <2>2. ereq[r].todo # <<>>
    BY <1>6 DEF EventInv, EControlOK, ImportApply
  <2>3. \/ Stops(r, "event_not_found")
        \/ /\ IF w.isUpdate THEN UpdateRefused(w.id, w.row)
                             ELSE InsertRefused(w.id, w.row)
           /\ Stops(r, "internal_error")
        \/ Goes(r, Written(ereq[r])) \/ Reply(r, Written(ereq[r]), "ok")
        \/ outages > 0 /\ outages' = outages - 1
    BY <1>6, <2>1 DEF ImportApply
  <2>4. CASE /\ IF w.isUpdate THEN UpdateRefused(w.id, w.row)
                               ELSE InsertRefused(w.id, w.row)
             /\ Stops(r, "internal_error")
    <3>1. ereq[r].uid \notin accounts \/ Unfit(ereq[r])
      BY <1>6, <2>1, <2>2, <2>4, RefusedRows DEF ImportApply
    <3> QED
      BY <1>3, <2>4, <3>1, StopsTells
  <2> QED
    BY <1>1, <1>2, <2>3, <2>4, AnswerTells, StopsTells
<1>7. ASSUME NEW q, Reconstructed(r, q)
      PROVE  ErrorIsJustified
  BY <1>2, <1>7, AnswerTells DEF Reconstructed
<1>8. CASE ImportNew(r) \/ ImportExisting(r) \/ ImportInvalid(r)
  BY <1>7, <1>8 DEF ImportNew, ImportExisting, ImportInvalid
<1>9. CASE QueryPage(r) \/ ECallFails(r)
  BY <1>1, <1>2, <1>9, AnswerTells DEF QueryPage, ECallFails
<1>14. CASE ImportBadId(r)
  <2>1. PICK q : q = [ereq[r] EXCEPT !.failed = 0]
    OBVIOUS
  <2>2. q.pos = ereq[r].pos /\ q.doc = ereq[r].doc
    BY <2>1, BusyOK DEF EventRequestState
  <2>3. q.pos <= Len(q.doc) /\ q.doc[q.pos].id \in MalformedId
    BY <1>14, <2>2 DEF EventInv, EControlOK, ImportBadId
  <2> QED
    BY <1>3, <1>14, <2>1, <2>3, AnswerTells DEF ImportBadId, Unfit
<1>15. ASSUME NEW u \in User, BadPathId(r, u)
       PROVE  ErrorIsJustified
  <2>1. PICK op : \E i \in MalformedId :
           Reply(r, [Start(op, u) EXCEPT !.pid = i], "internal_error")
    BY <1>15, Zenon DEF BadPathId
  <2> PICK i \in MalformedId :
           Reply(r, [Start(op, u) EXCEPT !.pid = i], "internal_error")
    BY <2>1, Zenon
  <2>2. [Start(op, u) EXCEPT !.pid = i].pid = i
    BY DEF Start, EIdle
  <2> QED
    BY <1>3, <2>2, AnswerTells DEF Unfit
<1>10. ASSUME NEW u \in User, CreateRefused(r, u) \/ CreateStart(r, u)
       PROVE  ErrorIsJustified
  BY <1>2, <1>10, AnswerTells, Zenon DEF CreateRefused, CreateStart
<1>11. ASSUME NEW u \in User, UpdateFindByID(r, u)
       PROVE  ErrorIsJustified
  BY <1>2, <1>11, AnswerTells DEF UpdateFindByID, GoesUpdate
<1>12. ASSUME NEW u \in User, StatusFindByID(r, u)
       PROVE  ErrorIsJustified
  BY <1>2, <1>12, AnswerTells DEF StatusFindByID, GoesUpdate
<1>13. ASSUME NEW u \in User,
              \/ GetEvent(r, u) \/ DeleteEvent(r, u)
              \/ QueryCount(r, u) \/ ImportStart(r, u) \/ EFirstCallFails(r, u)
       PROVE  ErrorIsJustified
  BY <1>1, <1>2, <1>7, <1>13, AnswerTells, Zenon
     DEF GetEvent, DeleteEvent, QueryCount, ImportStart, EFirstCallFails
<1> QED
  BY <1>4, <1>5, <1>6, <1>8, <1>9, <1>10, <1>11, <1>12, <1>13, <1>14, <1>15
     DEF Arrives, Resumes

(* A 500 is the infrastructure's fault, or tells of an account that is     *)
(* gone, or of a statement that would have taken an id that is no UUID or  *)
(* a text with a U+0000: no constraint of the table refuses what the       *)
(* validators let through.                                                 *)
THEOREM ErrorsAreJustified == EventSpec => NoSpuriousEventError
<1>1. EventInv /\ [EventNext]_eventVars => [ErrorIsJustified]_eventVars
  <2> SUFFICES ASSUME EventInv, EventNext
               PROVE  ErrorIsJustified
    OBVIOUS
  <2>1. ASSUME ETick \/ \E u \in User : AccountDeleted(u)
        PROVE  ErrorIsJustified
    <3>1. eanswer' = ENoAnswer
      BY <2>1 DEF ETick, AccountDeleted
    <3> QED
      BY <3>1 DEF ENoAnswer, ErrorIsJustified
  <2> QED
    BY <2>1, RequestsJustifyErrors DEF EventNext
<1> QED
  BY <1>1, EventInvariance, PTL
     DEF EventSpec, NoSpuriousEventError, ErrorIsJustified

(* The others stay where they are while one request moves.                 *)
MovesAlone(r) == \E q : ereq' = [ereq EXCEPT ![r] = q]

(* A step moves one request.                                               *)
LEMMA StepsMoveAlone ==
    ASSUME NEW r \in EventRequest,
           (\E u \in User : Arrives(r, u)) \/ Resumes(r)
    PROVE  MovesAlone(r)
<1>1. /\ \A q, code, rows : Shows(r, q, code, rows) => MovesAlone(r)
      /\ \A q, code : Reply(r, q, code) => MovesAlone(r)
      /\ \A q : Goes(r, q) => MovesAlone(r)
      /\ \A code : Stops(r, code) => MovesAlone(r)
      /\ \A q : Reconstructed(r, q) => MovesAlone(r)
  BY DEF Shows, Reply, Goes, Stops, Reconstructed, MovesAlone
<1>2. ASSUME NEW u \in User, CreateRefused(r, u) \/ CreateStart(r, u)
      PROVE  MovesAlone(r)
  BY <1>1, <1>2, Zenon DEF CreateRefused, CreateStart
<1>3. ASSUME NEW u \in User, UpdateFindByID(r, u) \/ StatusFindByID(r, u)
      PROVE  MovesAlone(r)
  BY <1>1, <1>3, Zenon DEF UpdateFindByID, StatusFindByID, GoesUpdate
<1>4. ASSUME NEW u \in User,
             \/ BadPathId(r, u) \/ GetEvent(r, u) \/ DeleteEvent(r, u)
             \/ QueryCount(r, u) \/ ImportStart(r, u) \/ EFirstCallFails(r, u)
      PROVE  MovesAlone(r)
  BY <1>1, <1>4, Zenon
     DEF BadPathId, GetEvent, DeleteEvent, QueryCount, ImportStart,
         EFirstCallFails
<1>5. CASE \/ Create(r) \/ Update(r) \/ QueryPage(r) \/ ImportApply(r)
           \/ ECallFails(r)
  BY <1>1, <1>5 DEF Create, Update, QueryPage, ImportApply, ECallFails, AckLost
<1>6. CASE \/ ImportNew(r) \/ ImportExisting(r) \/ ImportInvalid(r)
           \/ ImportBadId(r)
  BY <1>1, <1>6 DEF ImportNew, ImportExisting, ImportInvalid, ImportBadId
<1> QED
  BY <1>2, <1>3, <1>4, <1>5, <1>6 DEF Arrives, Resumes

(* The other requests stay where they are.                                 *)
LEMMA OthersStand ==
    ASSUME EventInv, NEW r \in EventRequest,
           (\E u \in User : Arrives(r, u)) \/ Resumes(r),
           NEW s \in EventRequest, s # r
    PROVE  ereq'[s] = ereq[s]
BY StepsMoveAlone DEF MovesAlone, EventInv, EventTypeOK

(* AtomicIsAllValid, of one step.                                          *)
AllValid ==
    \A r \in EventRequest :
       /\ ereq[r].op = "import" /\ ereq[r].mode = "atomic"
       /\ ereq'[r] # ereq[r] /\ events' # events
       => \A k \in 1 .. Len(ereq[r].doc) : ItemOK(ereq[r].doc[k])

(* An atomic import writes nothing of a document with an invalid item.     *)
LEMMA RequestsWriteAllValid ==
    ASSUME EventInv, NEW r \in EventRequest,
           (\E u \in User : Arrives(r, u)) \/ Resumes(r)
    PROVE  AllValid
<1> SUFFICES ASSUME ereq[r].op = "import", ereq[r].mode = "atomic",
                    events' # events
             PROVE  \A k \in 1 .. Len(ereq[r].doc) : ItemOK(ereq[r].doc[k])
  BY OthersStand DEF AllValid
<1>1. ereq[r] \in EventRequestState /\ EControlOK(ereq[r])
  BY DEF EventInv, EventTypeOK
<1>2. ereq[r].call # "none"
  BY <1>1, EIdleOK DEF EControlOK
<1>3. ereq[r].call = "Apply"
  BY <1>2, HowEventsChange
<1>4. ~ Refused(ereq[r]) /\ ereq[r].failed \in Nat
  BY <1>1, <1>3, MemoryTyped DEF EControlOK
<1>5. ereq[r].failed = 0
  BY <1>4 DEF Refused
<1>6. /\ \A k \in 1 .. ereq[r].pos - 1 : ItemOK(ereq[r].doc[k])
      /\ ereq[r].pos = Len(ereq[r].doc) + 1
  BY <1>1, <1>3, <1>5 DEF EControlOK
<1>7. Len(ereq[r].doc) \in Nat
  BY <1>1, MemoryTyped
<1>8. ereq[r].pos - 1 = Len(ereq[r].doc)
  BY <1>6, <1>7
<1> QED
  BY <1>6, <1>8

(* An atomic import writes nothing unless all of its items are valid.      *)
THEOREM AtomicWritesAllValid == EventSpec => AtomicIsAllValid
<1>1. EventInv /\ [EventNext]_eventVars => [AllValid]_eventVars
  <2> SUFFICES ASSUME EventInv, EventNext
               PROVE  AllValid
    OBVIOUS
  <2>1. ASSUME ETick \/ \E u \in User : AccountDeleted(u)
        PROVE  AllValid
    BY <2>1 DEF ETick, AccountDeleted, AllValid
  <2> QED
    BY <2>1, RequestsWriteAllValid DEF EventNext
<1> QED
  BY <1>1, EventInvariance, PTL DEF EventSpec, AtomicIsAllValid, AllValid

-----------------------------------------------------------------------------
(* The service implements the book of events.                              *)

(* The book that table events stands for.                                  *)
TheBook ==
    [i \in DOMAIN events |->
        [owner |-> events[i].user, created |-> events[i].created,
         content |-> [status |-> events[i].status, data |-> events[i].data]]]

Entry(row) ==
    [owner |-> row.user, created |-> row.created,
     content |-> [status |-> row.status, data |-> row.data]]

(* The entries of the abstract book are those of the rows.                 *)
LEMMA BookRows ==
    /\ DOMAIN TheBook = DOMAIN events
    /\ \A i \in DOMAIN events : TheBook[i] = Entry(events[i])
    /\ DOMAIN TheBook' = DOMAIN events'
    /\ \A i \in DOMAIN events' : TheBook'[i] = Entry(events'[i])
    /\ TheBook = [i \in DOMAIN TheBook |-> TheBook[i]]
    /\ TheBook' = [i \in DOMAIN TheBook' |-> TheBook'[i]]
BY DEF TheBook, Entry

(* An INSERT enters an event in the book.                                  *)
LEMMA InsertEnters ==
    ASSUME EventInv, NEW r \in EventRequest, InsertsFirst(r),
           UNCHANGED accounts
    PROVE  Book!Next
<1>1. PICK w : w = Head(ereq[r].todo)
  OBVIOUS
<1>2. /\ w.id \notin DOMAIN events \cup removed /\ w.row.user \in accounts
      /\ InsertEvent(w.id, w.row) /\ UNCHANGED removed
      /\ w.row \in EventRow /\ w.id \in EventId
  BY <1>1, FirstWrite
     DEF InsertsFirst, InsertRefused, WriteOK, Prepared
<1>3. PICK c : c = [status |-> w.row.status, data |-> w.row.data]
  OBVIOUS
<1>4. /\ w.row.user \in User /\ w.row.created \in 0 .. LastInstant
      /\ c \in [status : Status, data : [Field -> StoredValue]]
  BY <1>2, <1>3 DEF EventRow
<1>5. /\ DOMAIN events' = DOMAIN events \cup {w.id} /\ events'[w.id] = w.row
      /\ \A x \in DOMAIN events : x # w.id => events'[x] = events[x]
  BY <1>2 DEF InsertEvent
<1>6. TheBook' = [x \in DOMAIN TheBook \cup {w.id} |->
                     IF x = w.id
                     THEN [owner |-> w.row.user, created |-> w.row.created,
                           content |-> c]
                     ELSE TheBook[x]]
  <2>1. DOMAIN TheBook' = DOMAIN TheBook \cup {w.id}
    BY <1>5, BookRows
  <2>2. TheBook'[w.id] = [owner |-> w.row.user, created |-> w.row.created,
                          content |-> c]
    BY <1>3, <1>5, BookRows DEF Entry
  <2>3. \A x \in DOMAIN TheBook : x # w.id => TheBook'[x] = TheBook[x]
    BY <1>5, BookRows
  <2> QED
    BY <2>1, <2>2, <2>3, BookRows
<1>7. Book!Enter(w.id, w.row.user, w.row.created, c)
  BY <1>2, <1>6, BookRows, Zenon DEF Book!Enter, TheBook
<1> QED
  BY <1>2, <1>4, <1>7 DEF Book!Next

(* An UPDATE rewrites its content.                                         *)
LEMMA UpdateRewrites ==
    ASSUME EventInv, NEW r \in EventRequest, UpdatesFirst(r),
           UNCHANGED accounts
    PROVE  Book!Next
<1>1. PICK w : w = Head(ereq[r].todo)
  OBVIOUS
<1>2. /\ w.id \in DOMAIN events /\ events[w.id].user = w.row.user
      /\ UpdateRow(w.id, w.row) /\ UNCHANGED removed
      /\ w.row \in EventRow /\ w.row.created = events[w.id].created
      /\ events \in [DOMAIN events -> EventRow]
      /\ w.id \in EventId
  BY <1>1, FirstWrite, Zenon
     DEF UpdatesFirst, Visible, WriteOK, Prepared, EventInv, EventTypeOK
<1>3. PICK c : c = [status |-> w.row.status, data |-> w.row.data]
  OBVIOUS
<1>4. c \in [status : Status, data : [Field -> StoredValue]]
  BY <1>2, <1>3 DEF EventRow
<1>5. [w.row EXCEPT !.created = events[w.id].created] = w.row
  BY <1>2 DEF EventRow
<1>6. /\ DOMAIN events' = DOMAIN events /\ events'[w.id] = w.row
      /\ \A x \in DOMAIN events : x # w.id => events'[x] = events[x]
  BY <1>2, <1>5 DEF UpdateRow
<1>7. TheBook' = [TheBook EXCEPT ![w.id].content = c]
  <2>1. DOMAIN TheBook' = DOMAIN TheBook
    BY <1>6, BookRows
  <2>2. TheBook'[w.id] = [TheBook[w.id] EXCEPT !.content = c]
    <3>1. /\ TheBook[w.id] = Entry(events[w.id])
          /\ TheBook'[w.id] = Entry(w.row)
      BY <1>2, <1>6, BookRows
    <3>2. Entry(w.row) = [Entry(events[w.id]) EXCEPT !.content = c]
      BY <1>2, <1>3 DEF Entry
    <3> QED
      BY <3>1, <3>2
  <2>3. \A x \in DOMAIN TheBook : x # w.id => TheBook'[x] = TheBook[x]
    BY <1>6, BookRows
  <2>4. w.id \in DOMAIN TheBook
    BY <1>2, BookRows
  <2> QED
    BY <2>1, <2>2, <2>3, <2>4, BookRows
<1>8. Book!Rewrite(w.id, c)
  BY <1>2, <1>7, BookRows DEF Book!Rewrite, TheBook
<1> QED
  BY <1>2, <1>4, <1>8 DEF Book!Next

(* A DELETE takes rows out of it.                                          *)
LEMMA RemoveTakesOut ==
    ASSUME NEW I, RemoveEvents(I)
    PROVE  /\ TheBook' = [x \in DOMAIN TheBook \ I |-> TheBook[x]]
           /\ removed' = removed \cup (I \cap DOMAIN TheBook)
<1>1. /\ DOMAIN events' = DOMAIN events \ I
      /\ \A x \in DOMAIN events' : events'[x] = events[x]
      /\ removed' = removed \cup (I \cap DOMAIN events)
  BY DEF RemoveEvents
<1> QED
  BY <1>1, BookRows

(* A DELETE is an erasure of the book.                                     *)
LEMMA DeleteErases ==
    ASSUME EventInv, DeletesOne, UNCHANGED accounts
    PROVE  Book!Next
<1>1. PICK i \in DOMAIN events : RemoveEvents({i})
  BY DEF DeletesOne
<1>2. i \in EventId /\ i \in DOMAIN TheBook
  BY <1>1, BookRows DEF EventInv, EventTypeOK
<1>3. Book!Erase(i)
  BY <1>1, <1>2, RemoveTakesOut DEF Book!Erase, Book!Without, TheBook
<1> QED
  BY <1>2, <1>3 DEF Book!Next

(* A deleted account is a closing of the book.                             *)
LEMMA CascadeCloses ==
    ASSUME EventInv, NEW u \in User, AccountDeleted(u)
    PROVE  Book!Next
<1>1. PICK I : I = {i \in DOMAIN TheBook : TheBook[i].owner = u}
  OBVIOUS
<1>2. I = {i \in DOMAIN events : events[i].user = u}
  BY <1>1, BookRows DEF Entry
<1>3. /\ RemoveEvents(I) /\ u \in accounts /\ accounts' = accounts \ {u}
  BY <1>2 DEF AccountDeleted
<1>4. Book!Close(u)
  BY <1>1, <1>3, RemoveTakesOut DEF Book!Close, Book!Without, TheBook
<1> QED
  BY <1>4 DEF Book!Next

(* Every step of a request is a step of the book, or one that leaves it.   *)
LEMMA RequestsKeepTheBook ==
    ASSUME EventInv, NEW r \in EventRequest,
           (\E u \in User : Arrives(r, u)) \/ Resumes(r)
    PROVE  [Book!Next]_(Book!bookVars)
<1>1. CASE UNCHANGED <<accounts, events, removed>>
  BY <1>1 DEF Book!bookVars
<1>2. UNCHANGED accounts
  BY HowEventsChange
<1>3. CASE InsertsFirst(r) \/ UpdatesFirst(r) \/ DeletesOne
  BY <1>2, <1>3, InsertEnters, UpdateRewrites, DeleteErases
<1> QED
  BY <1>1, <1>2, <1>3, HowEventsChange

(* The event service implements the book of events: each write is atomic,  *)
(* whatever the calls of requests interleave to.                           *)
THEOREM Refinement == EventSpec => ImplementsEventBook
<1>1. EventInit => Book!Init
  BY DEF EventInit, Book!Init
<1>2. EventInv /\ [EventNext]_eventVars => [Book!Next]_(Book!bookVars)
  <2> SUFFICES ASSUME EventInv, [EventNext]_eventVars
               PROVE  [Book!Next]_(Book!bookVars)
    OBVIOUS
  <2>1. CASE UNCHANGED eventVars \/ ETick
    BY <2>1 DEF eventVars, ETick, Book!bookVars
  <2>2. CASE EventNext
    BY <2>1, <2>2, RequestsKeepTheBook, CascadeCloses DEF EventNext
  <2> QED
    BY <2>1, <2>2
<1> QED
  BY <1>1, <1>2, EventInvariance, PTL
     DEF EventSpec, ImplementsEventBook, Book!Spec
=============================================================================

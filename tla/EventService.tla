---------------------------- MODULE EventService ----------------------------
(***************************************************************************)
(* The application service of events: create, read, patch, change status,  *)
(* delete, query, export and import, on the events table.  Requests run    *)
(* concurrently; each is a sequence of repository calls, and an action is  *)
(* one call with the code around it.  The user of a request is that of an  *)
(* access token, which may outlive the account.                            *)
(*                                                                         *)
(* An event is its owner, its status, its two timestamps and the columns a *)
(* PATCH can set, a function from Field.  Windows, filters, order and      *)
(* pages of a query are in EventQuery and QueryWindow.                     *)
(***************************************************************************)
EXTENDS Naturals, Sequences, ErrorCodes

CONSTANTS
    User,          \* users with an access token
    EventId,       \* ids the UUID generator can hand out (a bound)
    Nil,           \* "no id", "no user"
    MalformedId,   \* ids in requests that are not UUIDs
    Field,         \* the columns of an event a PATCH can set
    Value,         \* their values, as they come in requests
    ValidValue,    \* those the validators of the domain accept
    NulValue,      \* texts with a U+0000, which no text of Postgres can hold
    Clean,         \* Value -> Value: what is stored of it (trimmed)
    Absent,        \* a field that a PATCH does not bring
    Document,      \* the lists of items of import requests (a bound)
    EventRequest,  \* requests in flight at once (a bound)
    LastInstant,   \* of a behaviour (a bound)
    EventFaults    \* infrastructure failures in a behaviour (a bound)

Status == {"pendiente", "realizado", "aplazado"}

StatusIn == Status \cup {"unknown"}

(* An item of an import: id and status may be missing.                     *)
Item == [id : EventId \cup MalformedId \cup {Nil}, data : [Field -> Value],
         status : StatusIn \cup {"absent"}]

ASSUME ValueAssumption ==
    /\ ValidValue \subseteq Value /\ NulValue \subseteq Value
    /\ Absent \notin Value
    /\ Clean \in [Value -> Value]
    /\ \A v \in Value : /\ Clean[Clean[v]] = Clean[v]
                        /\ v \in ValidValue <=> Clean[v] \in ValidValue

ASSUME EventIdAssumption ==
    /\ Nil \notin EventId \cup MalformedId
    /\ EventId \cap MalformedId = {}

ASSUME DocumentAssumption == Document \subseteq Seq(Item)

ASSUME EventBoundAssumption == LastInstant \in Nat /\ EventFaults \in Nat

VARIABLES
    accounts,   \* users whose row is in table users
    events,     \* table events: id -> row
    issued,     \* every event id the generator has handed out
    removed,    \* history: ids of rows that were deleted; no action reads it
    ereq,       \* what the handler of each slot holds in memory
    eanswer,    \* the response a handler wrote in the last step, if it did
    now,        \* the clock
    outages     \* infrastructure failures that may still happen

eventVars == <<accounts, events, issued, removed, ereq, eanswer, now, outages>>

(* What the aggregate holds of a value, and the table unless it refuses it. *)
StoredValue == {v \in ValidValue : Clean[v] = v}

EventRow ==
    [user : User, status : Status, data : [Field -> StoredValue],
     created : 0 .. LastInstant, updated : 0 .. LastInstant]

Prepared == [id : EventId, row : EventRow, isUpdate : BOOLEAN]

EventCall == {"none", "Create", "Update", "QueryPage", "Reconstruct", "Apply"}

EventOp == {"none", "create", "get", "update", "status", "delete", "query",
            "export", "import"}

(* Nothing in memory, and no response.                                     *)
EIdle ==
    [op |-> "none", call |-> "none", uid |-> Nil, pid |-> Nil, todo |-> <<>>,
     patch |-> <<>>, mode |-> "partial", doc |-> <<>>, pos |-> 1, failed |-> 0,
     imported |-> 0, updated |-> 0]

ENoAnswer ==
    [op |-> "none", code |-> "none", uid |-> Nil, mode |-> "partial",
     size |-> 0, failed |-> 0, imported |-> 0, updated |-> 0, rows |-> {},
     unfit |-> FALSE]

(* pid: the id in the path, kept when it is no UUID.  todo: the rows still *)
(* to be written.  doc and pos: the items of an import and the next one to *)
(* reconstruct.                                                            *)
EventRequestState ==
    [op : EventOp, call : EventCall, uid : User \cup {Nil},
     pid : MalformedId \cup {Nil}, todo : Seq(Prepared), patch : {<<>>} \cup [Field -> Value \cup {Absent}],
     mode : {"partial", "atomic"}, doc : {<<>>} \cup Document, pos : Nat,
     failed : Nat, imported : Nat, updated : Nat]

EventTypeOK ==
    /\ accounts \subseteq User
    /\ DOMAIN events \subseteq EventId
    /\ events \in [DOMAIN events -> EventRow]
    /\ issued \subseteq EventId
    /\ removed \subseteq issued
    /\ ereq \in [EventRequest -> EventRequestState]
    /\ \A r \in EventRequest : ereq[r].pos \in 1 .. Len(ereq[r].doc) + 1
    /\ eanswer.op \in EventOp /\ eanswer.code \in Code
    /\ eanswer.rows \subseteq EventId
    /\ now \in 0 .. LastInstant
    /\ outages \in 0 .. EventFaults

EventInit ==
    /\ accounts \in SUBSET User
    /\ events = [i \in {} |-> EIdle]
    /\ issued = {}
    /\ removed = {}
    /\ ereq = [r \in EventRequest |-> EIdle]
    /\ eanswer = ENoAnswer
    /\ now = 0
    /\ outages = EventFaults

-----------------------------------------------------------------------------
(* Steps of a request.                                                     *)

EFree(r) == ereq[r].call = "none"

(* A text of Postgres cannot hold a U+0000, which the validators let by.   *)
HasNulText(row) == \E f \in Field : row.data[f] \in NulValue

(* The next call of q has a parameter that no statement takes: an id that  *)
(* is no UUID, or a text with a U+0000.                                    *)
Unfit(q) ==
    \/ q.pid \in MalformedId
    \/ q.pos <= Len(q.doc) /\ q.doc[q.pos].id \in MalformedId
    \/ /\ q.call \in {"Create", "Update", "Apply"}
       /\ q.todo # <<>>
       /\ HasNulText(Head(q.todo).row)

(* The handler writes its response, with the events rows; the summary is   *)
(* that of an import.                                                      *)
Shows(r, q, code, rows) ==
    /\ ereq' = [ereq EXCEPT ![r] = EIdle]
    /\ eanswer' = [op |-> q.op, code |-> code, uid |-> q.uid, mode |-> q.mode,
                   size |-> Len(q.doc), failed |-> q.failed,
                   imported |-> q.imported, updated |-> q.updated,
                   rows |-> rows, unfit |-> Unfit(q)]

Reply(r, q, code) == Shows(r, q, code, {})

Goes(r, q) ==
    /\ ereq' = [ereq EXCEPT ![r] = q]
    /\ eanswer' = ENoAnswer

Start(op, u) == [EIdle EXCEPT !.op = op, !.uid = u]

(* The acknowledgement of a write that took effect is lost: a 500.         *)
AckLost(r) ==
    /\ outages > 0
    /\ outages' = outages - 1
    /\ Reply(r, ereq[r], "internal_error")

FreshId(i) == i \notin issued

-----------------------------------------------------------------------------
(* The statements of the repository.                                       *)

(* Mutant: SELECT ... WHERE id = i, whoever owns it.                       *)
Visible_Unscoped(u, i) == i \in DOMAIN events

(* SELECT ... WHERE id = i AND user_id = u returns a row.                  *)
Visible(u, i) == i \in DOMAIN events /\ events[i].user = u

(* The CHECKs on the columns of the table.                                 *)
ChecksHold(row) ==
    row.status \in Status /\ \A f \in Field : row.data[f] \in ValidValue

(* The parameters, primary key, foreign key, and the CHECKs on the columns. *)
InsertRefused(i, row) ==
    \/ HasNulText(row)
    \/ i \in DOMAIN events
    \/ row.user \notin accounts
    \/ ~ ChecksHold(row)

InsertEvent(i, row) ==
    events' = [x \in DOMAIN events \cup {i} |-> IF x = i THEN row ELSE events[x]]

(* The parameters are bound before any row is looked for, and the CHECKs   *)
(* are those on the row that is found.                                     *)
UpdateRefused(i, row) ==
    \/ HasNulText(row)
    \/ i \in DOMAIN events /\ events[i].user = row.user /\ ~ ChecksHold(row)

(* UPDATE ... WHERE id = i AND user_id = row.user: every column but the    *)
(* owner and created_at takes the value the handler holds.                 *)
UpdateRow(i, row) ==
    events' = [events EXCEPT ![i] = [row EXCEPT !.created = events[i].created]]

RemoveEvents(I) ==
    /\ events' = [x \in DOMAIN events \ I |-> events[x]]
    /\ removed' = removed \cup (I \cap DOMAIN events)

-----------------------------------------------------------------------------
(* The domain: validation and the aggregate's mutators.                    *)

DataOK(d) == \A f \in Field : d[f] \in ValidValue

(* Mutant: the description is validated trimmed and stored as it came.     *)
NewRow_Untrimmed(u, d) ==
    [user |-> u, status |-> "pendiente", data |-> d, created |-> now, updated |-> now]

(* NewEvent, sealed by the service: a new event is "pendiente".            *)
NewRow(u, d) ==
    [user |-> u, status |-> "pendiente", data |-> [f \in Field |-> Clean[d[f]]],
     created |-> now, updated |-> now]

Patch == [Field -> Value \cup {Absent}]

IsEmpty(p) == \A f \in Field : p[f] = Absent

(* Mutant: the patch is applied without the validators.                    *)
PatchOK_Unchecked(p) == TRUE

PatchOK(p) == \A f \in Field : p[f] # Absent => p[f] \in ValidValue

Edit(row, p) ==
    [row EXCEPT !.data = [f \in Field |->
        IF p[f] = Absent THEN row.data[f] ELSE Clean[p[f]]]]

-----------------------------------------------------------------------------
(* CreateEvent.  Validation answers 422; which of its codes is not told    *)
(* apart.                                                                  *)

CreateRefused(r, u) ==
    /\ EFree(r)
    /\ \E d \in [Field -> Value] : ~ DataOK(d)
    /\ Reply(r, Start("create", u), "validation_failed")
    /\ UNCHANGED <<accounts, events, issued, removed, now, outages>>

CreateStart(r, u) ==
    /\ EFree(r)
    /\ \E d \in [Field -> Value], i \in EventId :
          /\ DataOK(d)
          /\ FreshId(i)
          /\ issued' = issued \cup {i}
          /\ Goes(r, [Start("create", u) EXCEPT
                        !.call = "Create",
                        !.todo = <<[id |-> i, row |-> NewRow(u, d),
                                    isUpdate |-> FALSE]>>])
    /\ UNCHANGED <<accounts, events, removed, now, outages>>

(* The account may be gone: an error the repository does not translate.    *)
Create(r) ==
    /\ ereq[r].call = "Create"
    /\ LET w == Head(ereq[r].todo) IN
          \/ /\ InsertRefused(w.id, w.row)
             /\ Reply(r, ereq[r], "internal_error")
             /\ UNCHANGED <<events, outages>>
          \/ /\ ~ InsertRefused(w.id, w.row)
             /\ InsertEvent(w.id, w.row)
             /\ \/ Reply(r, ereq[r], "ok") /\ UNCHANGED outages
                \/ AckLost(r)
    /\ UNCHANGED <<accounts, issued, removed, now>>

-----------------------------------------------------------------------------
(* GetEvent, UpdateEvent, ChangeStatus, DeleteEvent.                       *)

(* A path id that is not a UUID: Postgres refuses it in any statement.     *)
BadPathId(r, u) ==
    /\ EFree(r)
    /\ \E op \in {"get", "update", "status", "delete"}, i \in MalformedId :
          Reply(r, [Start(op, u) EXCEPT !.pid = i], "internal_error")
    /\ UNCHANGED <<accounts, events, issued, removed, now, outages>>

GetEvent(r, u) ==
    /\ EFree(r)
    /\ \E i \in EventId :
          \/ Visible(u, i) /\ Shows(r, Start("get", u), "ok", {i})
          \/ ~ Visible(u, i) /\ Reply(r, Start("get", u), "event_not_found")
    /\ UNCHANGED <<accounts, events, issued, removed, now, outages>>

(* The handler goes on to write row over event i.                          *)
GoesUpdate(r, q, i, row) ==
    Goes(r, [q EXCEPT !.call = "Update",
                      !.todo = <<[id |-> i, row |-> [row EXCEPT !.updated = now],
                                  isUpdate |-> TRUE]>>])

(* An empty patch is refused before the event is looked up.                *)
UpdateFindByID(r, u) ==
    /\ EFree(r)
    /\ \E i \in EventId, p \in Patch :
          \/ /\ IsEmpty(p)
             /\ Reply(r, Start("update", u), "validation_failed")
          \/ /\ ~ IsEmpty(p) /\ ~ Visible(u, i)
             /\ Reply(r, Start("update", u), "event_not_found")
          \/ /\ ~ IsEmpty(p) /\ Visible(u, i) /\ ~ PatchOK(p)
             /\ Reply(r, Start("update", u), "validation_failed")
          \/ /\ ~ IsEmpty(p) /\ Visible(u, i) /\ PatchOK(p)
             /\ GoesUpdate(r, [Start("update", u) EXCEPT !.patch = p],
                           i, Edit(events[i], p))
    /\ UNCHANGED <<accounts, events, issued, removed, now, outages>>

StatusFindByID(r, u) ==
    /\ EFree(r)
    /\ \E i \in EventId, s \in StatusIn :
          \/ /\ ~ Visible(u, i)
             /\ Reply(r, Start("status", u), "event_not_found")
          \/ /\ Visible(u, i) /\ s \notin Status
             /\ Reply(r, Start("status", u), "invalid_status")
          \/ /\ Visible(u, i) /\ s \in Status
             /\ GoesUpdate(r, Start("status", u), i,
                           [events[i] EXCEPT !.status = s])
    /\ UNCHANGED <<accounts, events, issued, removed, now, outages>>

(* The event may be gone, or have been written, since it was read.         *)
Update(r) ==
    /\ ereq[r].call = "Update"
    /\ LET w == Head(ereq[r].todo) IN
          \/ /\ UpdateRefused(w.id, w.row)
             /\ Reply(r, ereq[r], "internal_error")
             /\ UNCHANGED <<events, outages>>
          \/ /\ ~ UpdateRefused(w.id, w.row)
             /\ ~ (w.id \in DOMAIN events /\ events[w.id].user = w.row.user)
             /\ Reply(r, ereq[r], "event_not_found")
             /\ UNCHANGED <<events, outages>>
          \/ /\ ~ UpdateRefused(w.id, w.row)
             /\ w.id \in DOMAIN events /\ events[w.id].user = w.row.user
             /\ UpdateRow(w.id, w.row)
             /\ \/ Reply(r, ereq[r], "ok") /\ UNCHANGED outages
                \/ AckLost(r)
    /\ UNCHANGED <<accounts, issued, removed, now>>

DeleteEvent(r, u) ==
    /\ EFree(r)
    /\ \E i \in EventId :
          \/ /\ ~ Visible(u, i)
             /\ Reply(r, Start("delete", u), "event_not_found")
             /\ UNCHANGED <<events, removed, outages>>
          \/ /\ Visible(u, i)
             /\ RemoveEvents({i})
             /\ \/ Reply(r, Start("delete", u), "ok") /\ UNCHANGED outages
                \/ /\ outages > 0
                   /\ outages' = outages - 1
                   /\ Reply(r, Start("delete", u), "internal_error")
    /\ UNCHANGED <<accounts, issued, now>>

-----------------------------------------------------------------------------
(* QueryEvents and ExportEvents: a count, then a SELECT of the page, two   *)
(* statements outside of any transaction.  Neither looks at the account.   *)

QueryCount(r, u) ==
    /\ EFree(r)
    /\ \E op \in {"query", "export"} :
          \/ Goes(r, [Start(op, u) EXCEPT !.call = "QueryPage"])
          \/ Reply(r, Start(op, u), "validation_failed")
    /\ UNCHANGED <<accounts, events, issued, removed, now, outages>>

(* Every event of the user; EventQuery tells which of them make a page.    *)
QueryPage(r) ==
    /\ ereq[r].call = "QueryPage"
    /\ Shows(r, ereq[r], "ok", {i \in EventId : Visible(ereq[r].uid, i)})
    /\ UNCHANGED <<accounts, events, issued, removed, now, outages>>

-----------------------------------------------------------------------------
(* ImportEvents: first every item is validated and, if it brings an id,    *)
(* looked up; then the rows are written one by one.                        *)

ItemOK(it) == DataOK(it.data) /\ it.status \in Status \cup {"absent"}

ItemRow(u, it) ==
    [NewRow(u, it.data) EXCEPT
        !.status = IF it.status = "absent" THEN @ ELSE it.status]

(* Mutant: the atomic mode forgets to look at the failures.                *)
Refused_Never(q) == FALSE

Refused(q) == q.mode = "atomic" /\ q.failed > 0

(* Memory q, once its item at pos is done: the next item, or the verdict.  *)
Reconstructed(r, q) ==
    \/ /\ q.pos <= Len(q.doc)
       /\ Goes(r, q)
    \/ /\ q.pos > Len(q.doc) /\ Refused(q)
       /\ Reply(r, q, "validation_failed")
    \/ /\ q.pos > Len(q.doc) /\ ~ Refused(q) /\ q.todo = <<>>
       /\ Reply(r, q, "ok")
    \/ /\ q.pos > Len(q.doc) /\ ~ Refused(q) /\ q.todo # <<>>
       /\ Goes(r, [q EXCEPT !.call = "Apply"])

(* A mode that does not exist is refused at once; an empty document has    *)
(* nothing to do.                                                          *)
ImportStart(r, u) ==
    /\ EFree(r)
    /\ \/ Reply(r, Start("import", u), "validation_failed")
       \/ \E doc \in Document, mode \in {"partial", "atomic"} :
             Reconstructed(r, [Start("import", u) EXCEPT
                                 !.call = "Reconstruct", !.mode = mode,
                                 !.doc = doc])
    /\ UNCHANGED <<accounts, events, issued, removed, now, outages>>

Prepare(q, w) == [q EXCEPT !.pos = @ + 1, !.todo = Append(@, w)]

(* Mutant: the item is restored under the id of the document.              *)
ImportNew_ReusesId(r) ==
    /\ ereq[r].call = "Reconstruct"
    /\ LET q == ereq[r]
           it == q.doc[q.pos] IN
          /\ ItemOK(it)
          /\ it.id \in EventId /\ ~ Visible(q.uid, it.id)
          /\ Reconstructed(r, Prepare(q, [id |-> it.id, isUpdate |-> FALSE,
                                          row |-> ItemRow(q.uid, it)]))
    /\ UNCHANGED <<accounts, events, issued, removed, now, outages>>

(* No id, or an id the user has no event with: a new event, a new id.      *)
ImportNew(r) ==
    /\ ereq[r].call = "Reconstruct"
    /\ LET q == ereq[r]
           it == q.doc[q.pos] IN
          /\ ItemOK(it)
          /\ it.id \in EventId \cup {Nil} /\ ~ Visible(q.uid, it.id)
          /\ \E i \in EventId :
                /\ FreshId(i)
                /\ issued' = issued \cup {i}
                /\ Reconstructed(r, Prepare(q, [id |-> i, isUpdate |-> FALSE,
                                                row |-> ItemRow(q.uid, it)]))
    /\ UNCHANGED <<accounts, events, removed, now, outages>>

(* Mutant: UpdatedAt keeps its zero value.                                 *)
ImportExisting_NotSealed(r) ==
    /\ ereq[r].call = "Reconstruct"
    /\ LET q == ereq[r]
           it == q.doc[q.pos] IN
          /\ ItemOK(it)
          /\ Visible(q.uid, it.id)
          /\ Reconstructed(r, Prepare(q,
                [id |-> it.id, isUpdate |-> TRUE,
                 row |-> [ItemRow(q.uid, it) EXCEPT
                            !.created = events[it.id].created, !.updated = 0]]))
    /\ UNCHANGED <<accounts, events, issued, removed, now, outages>>

ImportExisting(r) ==
    /\ ereq[r].call = "Reconstruct"
    /\ LET q == ereq[r]
           it == q.doc[q.pos] IN
          /\ ItemOK(it)
          /\ Visible(q.uid, it.id)
          /\ Reconstructed(r, Prepare(q,
                [id |-> it.id, isUpdate |-> TRUE,
                 row |-> [ItemRow(q.uid, it) EXCEPT
                            !.created = events[it.id].created]]))
    /\ UNCHANGED <<accounts, events, issued, removed, now, outages>>

ImportInvalid(r) ==
    /\ ereq[r].call = "Reconstruct"
    /\ LET q == ereq[r] IN
          /\ ~ ItemOK(q.doc[q.pos])
          /\ Reconstructed(r, [q EXCEPT !.pos = @ + 1, !.failed = @ + 1])
    /\ UNCHANGED <<accounts, events, issued, removed, now, outages>>

(* An id that is not a UUID makes the lookup fail: the import stops.       *)
ImportBadId(r) ==
    /\ ereq[r].call = "Reconstruct"
    /\ LET it == ereq[r].doc[ereq[r].pos] IN
          ItemOK(it) /\ it.id \in MalformedId
    /\ Reply(r, [ereq[r] EXCEPT !.failed = 0], "internal_error")
    /\ UNCHANGED <<accounts, events, issued, removed, now, outages>>

(* The next row is written; an error leaves what was written before, and   *)
(* the summary of the response is empty.                                   *)
Stops(r, code) ==
    Reply(r, [ereq[r] EXCEPT !.failed = 0, !.imported = 0, !.updated = 0], code)

(* Mutant: an item that was updated is not counted.                        *)
Written_NotCounted(q) ==
    [q EXCEPT !.todo = Tail(@),
              !.imported = @ + (IF Head(q.todo).isUpdate THEN 0 ELSE 1)]

Written(q) ==
    [q EXCEPT !.todo = Tail(@),
              !.updated = @ + (IF Head(q.todo).isUpdate THEN 1 ELSE 0),
              !.imported = @ + (IF Head(q.todo).isUpdate THEN 0 ELSE 1)]

ImportApply(r) ==
    /\ ereq[r].call = "Apply"
    /\ LET w == Head(ereq[r].todo)
           q == Written(ereq[r]) IN
          \/ /\ w.isUpdate /\ ~ UpdateRefused(w.id, w.row)
             /\ ~ Visible(w.row.user, w.id)
             /\ Stops(r, "event_not_found")
             /\ UNCHANGED <<events, outages>>
          \/ /\ IF w.isUpdate THEN UpdateRefused(w.id, w.row)
                               ELSE InsertRefused(w.id, w.row)
             /\ Stops(r, "internal_error")
             /\ UNCHANGED <<events, outages>>
          \/ /\ IF w.isUpdate
                THEN /\ ~ UpdateRefused(w.id, w.row)
                     /\ Visible(w.row.user, w.id)
                     /\ UpdateRow(w.id, w.row)
                ELSE ~ InsertRefused(w.id, w.row) /\ InsertEvent(w.id, w.row)
             /\ \/ q.todo # <<>> /\ Goes(r, q) /\ UNCHANGED outages
                \/ q.todo = <<>> /\ Reply(r, q, "ok") /\ UNCHANGED outages
                \/ /\ outages > 0
                   /\ outages' = outages - 1
                   /\ Stops(r, "internal_error")
    /\ UNCHANGED <<accounts, issued, removed, now>>

-----------------------------------------------------------------------------
(* A call fails without effect, and the request with it.  An item of an    *)
(* import that is invalid or brings no id makes no call.                   *)

EFirstCallFails(r, u) ==
    /\ EFree(r)
    /\ outages > 0
    /\ outages' = outages - 1
    /\ \E op \in EventOp \ {"none", "create", "import"} :
          Reply(r, Start(op, u), "internal_error")
    /\ UNCHANGED <<accounts, events, issued, removed, now>>

ECallFails(r) ==
    /\ ~ EFree(r)
    /\ ereq[r].call = "Reconstruct"
          => LET it == ereq[r].doc[ereq[r].pos] IN ItemOK(it) /\ it.id # Nil
    /\ outages > 0
    /\ outages' = outages - 1
    /\ Stops(r, "internal_error")
    /\ UNCHANGED <<accounts, events, issued, removed, now>>

(* What this component sees of the others: DELETE FROM users cascades.     *)
AccountDeleted(u) ==
    /\ u \in accounts
    /\ accounts' = accounts \ {u}
    /\ RemoveEvents({i \in DOMAIN events : events[i].user = u})
    /\ eanswer' = ENoAnswer
    /\ UNCHANGED <<issued, ereq, now, outages>>

ETick ==
    /\ now < LastInstant
    /\ now' = now + 1
    /\ eanswer' = ENoAnswer
    /\ UNCHANGED <<accounts, events, issued, removed, ereq, outages>>

Arrives(r, u) ==
    \/ CreateRefused(r, u) \/ CreateStart(r, u) \/ BadPathId(r, u)
    \/ GetEvent(r, u) \/ UpdateFindByID(r, u) \/ StatusFindByID(r, u)
    \/ DeleteEvent(r, u) \/ QueryCount(r, u) \/ ImportStart(r, u)
    \/ EFirstCallFails(r, u)

Resumes(r) ==
    \/ Create(r) \/ Update(r) \/ QueryPage(r)
    \/ ImportNew(r) \/ ImportExisting(r) \/ ImportInvalid(r) \/ ImportBadId(r)
    \/ ImportApply(r) \/ ECallFails(r)

EventNext ==
    \/ \E r \in EventRequest :
          (\E u \in User : Arrives(r, u)) \/ Resumes(r)
    \/ \E u \in User : AccountDeleted(u)
    \/ ETick

EventSpec == EventInit /\ [][EventNext]_eventVars

-----------------------------------------------------------------------------
(* Properties.                                                             *)

(* The scoping by user is structural: an event is created, changed or      *)
(* deleted only by a request of its owner (or goes with its account),      *)
(* whatever ids the requests and the documents of others name.             *)
OnlyItsOwner ==
    [][\A i \in EventId :
          LET before == i \in DOMAIN events
              after == i \in DOMAIN events'
              owner == IF before THEN events[i].user ELSE events'[i].user IN
          /\ before # after \/ (before /\ after /\ events[i] # events'[i])
          => \/ owner \notin accounts'
             \/ eanswer'.uid = owner
             \/ \E r \in EventRequest :
                   ereq[r].uid = owner /\ ereq'[r] # ereq[r]]_eventVars

(* An id whose event was deleted never names an event again: no update in  *)
(* flight and no restored backup brings the row back under it.             *)
DeletedStaysDeleted == removed \cap DOMAIN events = {}

(* Timestamps are sealed in order, also on events restored over an         *)
(* existing one.                                                           *)
SealedInOrder ==
    \A i \in DOMAIN events :
        /\ events[i].created <= events[i].updated
        /\ events[i].updated <= now

(* The summary of an import that succeeds accounts for every item.         *)
SummaryAccountsForAll ==
    eanswer.op = "import" /\ eanswer.code = "ok"
      => eanswer.imported + eanswer.updated + eanswer.failed = eanswer.size

(* An atomic import writes an event only when none of its items is         *)
(* invalid, be it before or after the one it is at.                        *)
AtomicIsAllValid ==
    [][\A r \in EventRequest :
          /\ ereq[r].op = "import" /\ ereq[r].mode = "atomic"
          /\ ereq'[r] # ereq[r] /\ events' # events
          => \A k \in 1 .. Len(ereq[r].doc) : ItemOK(ereq[r].doc[k])]_eventVars

(* A 500 is the infrastructure's fault, or the answer to a token of an     *)
(* account that is gone, or to the very statement that would have taken an *)
(* id that is no UUID or a text with a U+0000: nothing else that the       *)
(* validators let through is refused by the table.                         *)
NoSpuriousEventError ==
    [][eanswer'.code = "internal_error"
        => \/ outages' < outages
           \/ eanswer'.uid \notin accounts
           \/ eanswer'.unfit]_eventVars

(* The rows of a response are events of the user of the token, whose       *)
(* account is there: queries never look at the account, and the token of a *)
(* deleted one is good until it expires.                                   *)
ShowsOwnEvents ==
    [][\A i \in eanswer'.rows :
          /\ eanswer'.uid \in accounts
          /\ i \in DOMAIN events
          /\ events[i].user = eanswer'.uid]_eventVars

(* The service is a book of events written one at a time.                  *)
Book == INSTANCE EventBook WITH
    Owner <- User, Instant <- 0 .. LastInstant,
    Content <- [status : Status, data : [Field -> StoredValue]],
    open <- accounts, erased <- removed,
    book <- [i \in DOMAIN events |->
                [owner |-> events[i].user, created |-> events[i].created,
                 content |-> [status |-> events[i].status,
                              data |-> events[i].data]]]

ImplementsEventBook == Book!Spec

-----------------------------------------------------------------------------
(* What the requests in flight may rely on, although others run between    *)
(* their calls: the part that makes the properties above inductive.        *)

(* A row about to be written is of the request's user and sealed in order. *)
(* An INSERT has an id that never named an event; what an UPDATE writes    *)
(* over still has the created_at that was read, or is gone for good.       *)
WriteOK(q, w) ==
    /\ w.row.user = q.uid
    /\ w.row.created <= w.row.updated /\ w.row.updated <= now
    /\ ~ w.isUpdate => w.id \in issued \ (DOMAIN events \cup removed)
    /\ w.isUpdate => w.id \in DOMAIN events \cup removed
    /\ w.isUpdate /\ w.id \in DOMAIN events
          => w.row.created = events[w.id].created

Inserts(r) == {k \in 1 .. Len(ereq[r].todo) : ~ ereq[r].todo[k].isUpdate}

(* No two INSERTs under way have the same id.                              *)
PendingIds ==
    \A r, s \in EventRequest : \A j \in Inserts(r), k \in Inserts(s) :
        ereq[r].todo[j].id = ereq[s].todo[k].id => r = s /\ j = k

(* The control points of each operation; every item of an import is a row  *)
(* to write, a row written or a failure, and an atomic one has no failure  *)
(* once it writes.                                                         *)
EControlOK(q) ==
    /\ q.call = "none" => q = EIdle
    /\ q.call # "none" => q.uid \in User
    /\ q.call = "Create" =>
          q.op = "create" /\ Len(q.todo) = 1 /\ ~ q.todo[1].isUpdate
    /\ q.call = "Update" =>
          q.op \in {"update", "status"} /\ Len(q.todo) = 1 /\ q.todo[1].isUpdate
    /\ q.call = "QueryPage" => q.op \in {"query", "export"} /\ q.todo = <<>>
    /\ q.call \in {"Reconstruct", "Apply"} =>
          /\ q.op = "import"
          /\ Len(q.todo) + q.imported + q.updated + q.failed = q.pos - 1
          /\ q.failed = 0 => \A k \in 1 .. q.pos - 1 : ItemOK(q.doc[k])
    /\ q.call = "Reconstruct" =>
          q.pos <= Len(q.doc) /\ q.imported = 0 /\ q.updated = 0
    /\ q.call = "Apply" =>
          q.pos = Len(q.doc) + 1 /\ q.todo # <<>> /\ ~ Refused(q)

(* No event outlives its account, nor has an id nobody handed out.         *)
NoOrphanEvents ==
    /\ DOMAIN events \subseteq issued
    /\ \A i \in DOMAIN events : events[i].user \in accounts

EventInv ==
    /\ EventTypeOK
    /\ SealedInOrder
    /\ DeletedStaysDeleted
    /\ SummaryAccountsForAll
    /\ NoOrphanEvents
    /\ PendingIds
    /\ \A r \in EventRequest :
          /\ EControlOK(ereq[r])
          /\ \A k \in 1 .. Len(ereq[r].todo) : WriteOK(ereq[r], ereq[r].todo[k])

-----------------------------------------------------------------------------
(* What the comments of the code claim and concurrent requests refute.     *)

(* "los ausentes se conservan", "el estatus NO se edita aqui": when a      *)
(* PATCH is written, the fields it does not bring and the status stay what *)
(* they are in the table.                                                  *)
PatchKeepsAbsentFields ==
    [][\A r \in EventRequest :
          ereq[r].op = "update" /\ ereq'[r] # ereq[r] /\ events' # events
            => LET i == Head(ereq[r].todo).id IN
               /\ events'[i].status = events[i].status
               /\ \A f \in Field :
                     ereq[r].patch[f] = Absent
                       => events'[i].data[f] = events[i].data[f]]_eventVars

(* "En modo partial se aplican los validos y se reportan los invalidos en  *)
(* Errors[], sin abortar": with the infrastructure up and the account      *)
(* there, a partial import is never abandoned.                             *)
PartialImportNeverAborts ==
    eanswer.op = "import" /\ eanswer.size > 0 /\ eanswer.mode = "partial"
      => eanswer.code = "ok" \/ eanswer.uid \notin accounts
=============================================================================

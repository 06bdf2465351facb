------------------------------ MODULE EventApi ------------------------------
(***************************************************************************)
(* The HTTP handlers of events with the data they carry, from the JSON of  *)
(* a request to the row and back, one request at a time: EventService has  *)
(* the interleavings and the failures, here the values matter.  A client   *)
(* keeps the last document it exported and may import it, whole or with an *)
(* item changed, into any account.  An export asks for no window and no    *)
(* filter: EventQuery has them.                                            *)
(***************************************************************************)
EXTENDS EventCodec, FiniteSets, SequencesExt

CONSTANTS
    User,          \* users with an account
    CreateBody,    \* bodies of POST /events
    PatchBody,     \* bodies of PATCH /events/{id}
    ItemChange,    \* key -> values: what a client may change in a backup
    MaxItems,      \* events that fit in a body of MAX_BODY_BYTES
    NoBackup,
    LastId,        \* event ids are 1 .. LastId (a bound)
    Requests       \* of a behaviour (a bound)

ASSUME ApiAssumption ==
    MaxItems \in Nat /\ LastId \in Nat /\ Requests \in Nat

(* A value that decodes is of the type of its key.                         *)
ASSUME BodyAssumption ==
    /\ \A b \in CreateBody \cup PatchBody : \A k \in DOMAIN b \cap InputKey :
          b[k] \in {Null, WrongType} \/ OfType(k, b[k])
    /\ \A k \in DOMAIN ItemChange \cap ContentKey : \A v \in ItemChange[k] :
          v \in {Null, WrongType} \/ OfType(k, v)

VARIABLES
    rows,          \* table events
    lastId,        \* ids handed out so far
    done,          \* requests answered so far
    backup,        \* the events of the document exported last
    response       \* to the last request, and what was asked

apiVars == <<rows, lastId, done, backup, response>>

Now == 2 * done + 1

NoResponse ==
    [op |-> "none", user |-> NoBackup, id |-> 0, asked |-> <<>>,
     code |-> "none", events |-> <<>>, empty |-> FALSE, failed |-> 0]

ApiInit ==
    /\ rows = [i \in {} |-> 0]
    /\ lastId = 0
    /\ done = 0
    /\ backup = NoBackup
    /\ response = NoResponse

(* Every step answers one request.                                         *)
Respond(r) ==
    /\ done' = done + 1
    /\ response' = r

Asks(op, u, i, b) ==
    [NoResponse EXCEPT !.op = op, !.user = u, !.id = i, !.asked = b]

Answers(q, code) == Respond([q EXCEPT !.code = code])

(* writeJSON sends the status first: events that cannot be encoded leave   *)
(* an empty body behind a 2xx.                                             *)
WriteJSON(q, es) ==
    Respond([q EXCEPT
        !.code = "ok",
        !.empty = ~ CanEncode(es),
        !.events = IF CanEncode(es)
                   THEN [k \in DOMAIN es |-> ToEventResponse(es[k])] ELSE <<>>])

-----------------------------------------------------------------------------
(* The repository, with the statements of EventService.                    *)

Owned(u) == {i \in DOMAIN rows : rows[i].user_id = u}

Found(i) == ToDomainEvent(i, rows[i])

Inserted(t, e) ==
    [i \in DOMAIN t \cup {e.id} |-> IF i = e.id THEN EventParams(e) ELSE t[i]]

Updated(t, e) ==
    [t EXCEPT ![e.id] = [EventParams(e) EXCEPT !.created_at = t[e.id].created_at]]

Earlier(i, j) ==
    \/ rows[i].starts_at < rows[j].starts_at
    \/ rows[i].starts_at = rows[j].starts_at /\ i < j

(* SELECT ... WHERE user_id = u ORDER BY starts_at, id.                    *)
Ordered(u) ==
    CHOOSE s \in SetToSeqs(Owned(u)) :
        \A j, k \in DOMAIN s : j < k => Earlier(s[j], s[k])

(* Mutant: the export takes the page size of a query.                      *)
Exported_Page(u) == [k \in DOMAIN Ordered(u) \cap {1} |-> Found(Ordered(u)[k])]

Exported(u) == [k \in DOMAIN Ordered(u) |-> Found(Ordered(u)[k])]

-----------------------------------------------------------------------------
(* The handlers.                                                           *)

BodyTooLarge(u) ==
    /\ \E op \in {"create", "update", "status", "import"} :
          Answers(Asks(op, u, 0, NoBackup), "payload_too_large")
    /\ UNCHANGED <<rows, lastId, backup>>

CreateEvent(u) ==
    \E b \in CreateBody :
        LET q == Asks("create", u, lastId + 1, b)
            in == ToInput(b)
            e == Sealed(NewEvent(u, in), lastId + 1, Now, Now) IN
        \/ /\ Malformed(b, InputKey)
           /\ Answers(q, "bad_request")
           /\ UNCHANGED <<rows, lastId, backup>>
        \/ /\ ~ Malformed(b, InputKey)
           /\ NewEventCode(in) # "ok"
           /\ Answers(q, NewEventCode(in))
           /\ UNCHANGED <<rows, lastId, backup>>
        \/ /\ ~ Malformed(b, InputKey)
           /\ NewEventCode(in) = "ok"
           /\ lastId < LastId
           /\ lastId' = lastId + 1
           /\ IF Refused(EventParams(e))
              THEN Answers(q, "internal_error") /\ UNCHANGED rows
              ELSE rows' = Inserted(rows, e) /\ WriteJSON(q, <<e>>)
           /\ UNCHANGED backup

GetEvent(u) ==
    /\ \E i \in 1 .. lastId :
          LET q == Asks("get", u, i, <<>>) IN
          \/ i \in Owned(u) /\ WriteJSON(q, <<Found(i)>>)
          \/ i \notin Owned(u) /\ Answers(q, "event_not_found")
    /\ UNCHANGED <<rows, lastId, backup>>

(* The row of e is written, and e answered as it is in memory.             *)
Update(q, e) ==
    /\ IF Refused(EventParams(e))
       THEN Answers(q, "internal_error") /\ UNCHANGED rows
       ELSE rows' = Updated(rows, e) /\ WriteJSON(q, <<e>>)
    /\ UNCHANGED <<lastId, backup>>

UpdateEvent(u) ==
    \E i \in 1 .. lastId, b \in PatchBody :
        LET q == Asks("update", u, i, b)
            p == ToPatch(b)
            Rejects(code) == Answers(q, code) /\ UNCHANGED <<rows, lastId, backup>> IN
        \/ /\ Malformed(b, InputKey)
           /\ Rejects("bad_request")
        \/ /\ ~ Malformed(b, InputKey)
           /\ DOMAIN p = {}
           /\ Rejects("validation_failed")
        \/ /\ ~ Malformed(b, InputKey) /\ DOMAIN p # {}
           /\ i \notin Owned(u)
           /\ Rejects("event_not_found")
        \/ /\ ~ Malformed(b, InputKey) /\ DOMAIN p # {}
           /\ i \in Owned(u) /\ EditCode(Found(i), p) # "ok"
           /\ Rejects(EditCode(Found(i), p))
        \/ /\ ~ Malformed(b, InputKey) /\ DOMAIN p # {}
           /\ i \in Owned(u) /\ EditCode(Found(i), p) = "ok"
           /\ Update(q, [Edit(Found(i), p) EXCEPT !.updated = Now])

(* eventStatus may be missing, and then it is the empty string.            *)
ChangeStatus(u) ==
    \E i \in 1 .. lastId, s \in {"realizado", "", WrongType} :
        LET q == Asks("status", u, i, <<>>)
            Rejects(code) == Answers(q, code) /\ UNCHANGED <<rows, lastId, backup>> IN
        CASE s = WrongType -> Rejects("bad_request")
          [] s # WrongType /\ i \notin Owned(u) -> Rejects("event_not_found")
          [] s = "" /\ i \in Owned(u) -> Rejects("invalid_status")
          [] OTHER -> Update(q, [Found(i) EXCEPT !.status = s, !.updated = Now])

DeleteEvent(u) ==
    \E i \in 1 .. lastId :
        LET q == Asks("delete", u, i, <<>>) IN
        /\ IF i \in Owned(u)
           THEN Answers(q, "ok") /\ rows' = [x \in DOMAIN rows \ {i} |-> rows[x]]
           ELSE Answers(q, "event_not_found") /\ UNCHANGED rows
        /\ UNCHANGED <<lastId, backup>>

(* The client keeps the document, if there is one in the body.             *)
ExportEvents(u) ==
    /\ WriteJSON(Asks("export", u, 0, <<>>), Exported(u))
    /\ backup' = IF response'.empty THEN backup ELSE response'.events
    /\ UNCHANGED <<rows, lastId>>

-----------------------------------------------------------------------------
(* POST /events/import.                                                    *)

ItemKey == ContentKey \cup {"id"}

ItemCode(it) ==
    FirstFailed(<<Check(NewEventCode(ToInput(it)) = "ok", NewEventCode(ToInput(it))),
                  Check(Brings(it, "eventStatus")
                          => it["eventStatus"] \in EventStatus, "invalid_status")>>)

(* Mutant: a new event of an import is "pendiente", as one of a create.    *)
ItemEvent_Pending(u, it) == NewEvent(u, ToInput(it))

ItemEvent(u, it) ==
    [NewEvent(u, ToInput(it)) EXCEPT
        !.status = IF Brings(it, "eventStatus") THEN it["eventStatus"] ELSE @]

(* The id of an item that names an event of the user, or 0.                *)
OwnId(u, it) == IF Brings(it, "id") /\ it["id"] \in Owned(u) THEN it["id"] ELSE 0

(* The valid items of doc, by their place in it, each with the id it is    *)
(* written under: its own, or the next one of the generator.               *)
PreparedItems(u, doc) ==
    LET valid == {k \in DOMAIN doc : ItemCode(doc[k]) = "ok"}
        new(k) == Cardinality({j \in valid : j <= k /\ OwnId(u, doc[j]) = 0})
    IN [k \in valid |->
          LET i == OwnId(u, doc[k]) IN
          IF i # 0 THEN Sealed(ItemEvent(u, doc[k]), i, rows[i].created_at, Now)
          ELSE Sealed(ItemEvent(u, doc[k]), lastId + new(k), Now, Now)]

Write(t, e) == IF e.id \in DOMAIN t THEN Updated(t, e) ELSE Inserted(t, e)

(* The table after the writes of the items in written, one after the other *)
(* (an update carries every column, so the last one of an id decides).     *)
Imported(ready, written) ==
    LET ids == {ready[k].id : k \in written}
        last(i) == CHOOSE k \in written :
                      /\ ready[k].id = i
                      /\ \A j \in written : ready[j].id = i => j <= k
    IN [i \in DOMAIN rows \cup ids |->
          IF i \in ids THEN Write(rows, ready[last(i)])[i] ELSE rows[i]]

(* What was written before the first row Postgres refuses stays.           *)
ImportItems(u, doc, mode) ==
    LET q == Asks("import", u, 0, doc)
        ready == PreparedItems(u, doc)
        bad == {k \in DOMAIN ready : Refused(EventParams(ready[k]))}
        written == {k \in DOMAIN ready : \A j \in bad : k < j}
        failed == Cardinality(DOMAIN doc \ DOMAIN ready) IN
    /\ IF mode = "atomic" /\ failed > 0
       THEN /\ Respond([q EXCEPT !.code = "validation_failed", !.failed = failed])
            /\ UNCHANGED rows
       ELSE /\ Respond([q EXCEPT !.code = IF bad = {} THEN "ok" ELSE "internal_error",
                                 !.failed = IF bad = {} THEN failed ELSE 0])
            /\ rows' = Imported(ready, written)
    /\ lastId' = lastId + Cardinality({k \in DOMAIN ready : ready[k].id > lastId})
    /\ UNCHANGED backup

Changed(it, f, v) == [x \in DOMAIN it \cup {f} |-> IF x = f THEN v ELSE it[x]]

(* The backup, whole or with one key of one item changed; the keys of the  *)
(* document that are not of an import are ignored.                         *)
Documents ==
    {backup} \cup
    UNION {UNION {{[backup EXCEPT ![k] = Changed(@, f, v)] : v \in ItemChange[f]} :
                     f \in DOMAIN ItemChange} : k \in DOMAIN backup}

ImportEvents(u) ==
    /\ backup # NoBackup
    /\ \E doc \in Documents, mode \in {"partial", "atomic"} :
          \/ /\ Len(doc) > MaxItems
             /\ Answers(Asks("import", u, 0, doc), "payload_too_large")
             /\ UNCHANGED <<rows, lastId, backup>>
          \/ /\ Len(doc) <= MaxItems
             /\ \E k \in DOMAIN doc : Malformed(doc[k], ItemKey)
             /\ Answers(Asks("import", u, 0, doc), "bad_request")
             /\ UNCHANGED <<rows, lastId, backup>>
          \/ /\ Len(doc) <= MaxItems
             /\ \A k \in DOMAIN doc : ~ Malformed(doc[k], ItemKey)
             /\ lastId + Len(doc) <= LastId
             /\ ImportItems(u, doc, mode)

(* A document without the key events, or a mode that does not exist.       *)
ImportRefused(u) ==
    /\ \E code \in {"bad_request", "validation_failed"} :
          Answers(Asks("import", u, 0, NoBackup), code)
    /\ UNCHANGED <<rows, lastId, backup>>

ApiNext ==
    /\ done < Requests
    /\ \E u \in User :
        \/ BodyTooLarge(u) \/ CreateEvent(u) \/ GetEvent(u) \/ UpdateEvent(u)
        \/ ChangeStatus(u) \/ DeleteEvent(u) \/ ExportEvents(u)
        \/ ImportEvents(u) \/ ImportRefused(u)

ApiSpec == ApiInit /\ [][ApiNext]_apiVars
-----------------------------------------------------------------------------
(* Properties.                                                             *)

Shown(i, row) == ToEventResponse(ToDomainEvent(i, row))

(* The events in the body of a GET of the row.                             *)
Read(i, row) ==
    IF CanEncode(<<ToDomainEvent(i, row)>>) THEN <<Shown(i, row)>> ELSE <<>>

(* An event of a response with the instants as the table keeps them.       *)
Rounded(said) ==
    [said EXCEPT !.startsAt = Micros(@), !.createdAt = Micros(@),
                 !.updatedAt = Micros(@)]

(* A backup is whole: the document of an export has every event of the     *)
(* user, once, as a read shows it.  It has none at all, behind the same    *)
(* 200, when one of them starts in a year that JSON cannot carry.          *)
ExportIsComplete ==
    response.op = "export" =>
        LET mine == Owned(response.user) IN
        /\ response.empty <=> \E i \in mine : rows[i].starts_at > LastYearEnd
        /\ ~ response.empty =>
              /\ Len(response.events) = Cardinality(mine)
              /\ ToSet(response.events) = {Shown(i, rows[i]) : i \in mine}

(* A restore restores: importing an untouched backup that fits in a body   *)
(* fails no item, gives the events the user still has the content they had *)
(* when it was exported, makes of every other item a new event with its    *)
(* content, whosever it was, and touches nothing else.                     *)
RestoreRestores ==
    [][/\ response'.op = "import" /\ response'.asked = backup
       /\ backup # NoBackup /\ Len(backup) <= MaxItems
       => LET u == response'.user
              kept == {k \in DOMAIN backup : backup[k].id \in Owned(u)}
              new == DOMAIN rows' \ DOMAIN rows
              IsCopy(i, k) == Content(Shown(i, rows'[i])) = Content(backup[k]) IN
          /\ response'.code = "ok" /\ response'.failed = 0
          /\ \A k \in kept :
                LET i == backup[k].id IN
                IsCopy(i, k) /\ rows'[i].created_at = rows[i].created_at
          /\ Cardinality(new) = Cardinality(DOMAIN backup \ kept)
          /\ \E copy \in [DOMAIN backup \ kept -> new] :
                /\ {copy[k] : k \in DOMAIN copy} = new
                /\ \A k \in DOMAIN copy :
                      IsCopy(copy[k], k) /\ rows'[copy[k]].user_id = u
          /\ \A i \in DOMAIN rows \ {backup[k].id : k \in kept} :
                rows'[i] = rows[i]]_apiVars

Overlaid(old, b) == [k \in InputKey |-> IF Brings(b, k) THEN b[k] ELSE old[k]]

(* A PATCH is a merge: the answer to it, and the row it leaves, are those  *)
(* of creating the event as it was shown with the keys of the patch over   *)
(* it, whatever the order in which the fields are validated and merged.    *)
PatchIsMerge ==
    [][/\ response'.op = "update" /\ response'.id \in Owned(response'.user)
       /\ ~ Malformed(response'.asked, InputKey)
       /\ DOMAIN ToPatch(response'.asked) # {}
       => \E old \in {Shown(response'.id, rows[response'.id])} :
          \E in \in {ToInput(Overlaid(old, response'.asked))} :
             LET i == response'.id
                 row == EventParams(Sealed([NewEvent(response'.user, in)
                                              EXCEPT !.status = old.eventStatus],
                                           i, old.createdAt, Now)) IN
             CASE NewEventCode(in) # "ok" ->
                     response'.code = NewEventCode(in) /\ rows' = rows
               [] NewEventCode(in) = "ok" /\ Refused(row) ->
                     response'.code = "internal_error" /\ rows' = rows
               [] OTHER ->
                     response'.code = "ok" /\ rows' = [rows EXCEPT ![i] = row]]_apiVars

(* What a create, an update or a change of status answers, from memory, is *)
(* what the table has of the event, but for the instants it rounds, and    *)
(* what the next read shows, if the event starts in a year that JSON can   *)
(* carry.  If it does not, the next read is an empty body behind a 200,    *)
(* and so was the answer, unless the request itself brought the start.     *)
AnswerIsStored ==
    response.op \in {"create", "update", "status"} /\ response.code = "ok" =>
        LET i == response.id IN
        /\ i \in Owned(response.user)
        /\ response.empty => Read(i, rows[i]) = <<>>
        /\ ~ response.empty =>
              LET said == Rounded(response.events[1]) IN
              /\ Shown(i, rows[i]) = said
              /\ Read(i, rows[i]) =
                    IF said.startsAt <= LastYearEnd THEN <<said>> ELSE <<>>
=============================================================================

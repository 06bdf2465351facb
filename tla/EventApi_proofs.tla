--------------------------- MODULE EventApi_proofs ---------------------------
(***************************************************************************)
(* What the JSON of the event routes says of the table, for all users,     *)
(* bodies and documents.                                                   *)
(*                                                                         *)
(* The inductive invariant ApiInv says that every row of the table, and    *)
(* every event of the document that the client keeps, is one that the      *)
(* validators and the columns of the table have let through: without it a  *)
(* merge over a row, or a restore of a document, could meet a value that   *)
(* does not decode, a description that is not trimmed, or an instant that  *)
(* the table would round again.  From it follow, one request at a time,    *)
(* that an answer is what is stored, that a PATCH is a merge, that an      *)
(* export is complete and that a restore restores.                         *)
(***************************************************************************)
EXTENDS EventApi, FunctionTheorems, FiniteSetTheorems, SequenceTheorems, TLAPS

-----------------------------------------------------------------------------
(* Bodies, events and rows.                                                *)

(* A body whose values are of the types of their keys, or do not decode.   *)
TypedBody(b) ==
    \A k \in DOMAIN b \cap InputKey : b[k] \in {Null, WrongType} \/ OfType(k, b[k])

(* What a body decodes to.                                                 *)
InputOK(in) ==
    /\ in = [type |-> in.type,
             contact |-> [name |-> in.contact.name, ref |-> in.contact.ref],
             location |-> [lat |-> in.location.lat, lng |-> in.location.lng,
                           label |-> in.location.label],
             description |-> in.description,
             startsAt |-> [at |-> in.startsAt.at, fits |-> in.startsAt.fits],
             reminder |-> in.reminder]
    /\ in.contact.name \notin {Null, WrongType}
    /\ in.contact.ref \notin {Null, WrongType}
    /\ in.location.lat \in Int /\ in.location.lng \in Int
    /\ in.location.label \notin {Null, WrongType}
    /\ in.description \in DOMAIN Trim
    /\ in.startsAt.at \in Int

(* A row that the validators and the table have let through.               *)
GoodRow(row) ==
    /\ row = [user_id |-> row.user_id, event_type |-> row.event_type,
              contact_name |-> row.contact_name, contact_ref |-> row.contact_ref,
              location_lat |-> row.location_lat, location_lng |-> row.location_lng,
              location_label |-> row.location_label,
              description |-> row.description, starts_at |-> row.starts_at,
              event_status |-> row.event_status,
              reminder_type |-> row.reminder_type,
              created_at |-> row.created_at, updated_at |-> row.updated_at]
    /\ row.event_type \in EventType /\ row.event_status \in EventStatus
    /\ row.reminder_type \in Reminder
    /\ row.contact_name \notin {Null, WrongType}
    /\ row.contact_ref \notin {Null, WrongType}
    /\ row.location_label \notin {Null, WrongType}
    /\ row.location_lat \in Int /\ row.location_lng \in Int
    /\ LocationOK([lat |-> row.location_lat, lng |-> row.location_lng])
    /\ row.description \in DOMAIN Trim /\ row.description # ""
    /\ Trim[row.description] = row.description
    /\ row.starts_at \in Int /\ Micros(row.starts_at) = row.starts_at
    /\ row.created_at \in Int /\ Micros(row.created_at) = row.created_at
    /\ row.updated_at \in Int /\ Micros(row.updated_at) = row.updated_at
    /\ ~ Refused(row)

(* What a key may hold is no null, and decodes.                            *)
LEMMA ValuesDecode ==
    /\ \A x \in Int : x # Null /\ x # WrongType
    /\ \A x \in DOMAIN Trim : x # Null /\ x # WrongType
    /\ \A x \in EventType \cup EventStatus \cup Reminder : x # Null /\ x # WrongType
<1>1. /\ Null \notin Int /\ WrongType \notin Int
      /\ Null \notin DOMAIN Trim /\ WrongType \notin DOMAIN Trim
      /\ Null \notin EventType \cup EventStatus \cup Reminder
      /\ WrongType \notin EventType \cup EventStatus \cup Reminder
  BY ValueAssumption
<1> QED
  BY <1>1

(* timestamptz keeps what it has rounded.                                  *)
LEMMA MicrosStay ==
    ASSUME NEW t \in Int
    PROVE  Micros(t) \in Int /\ Micros(Micros(t)) = Micros(t)
BY DEF Micros

(* The first of four checks that fails decides.                            *)
LEMMA FirstOfFour ==
    ASSUME NEW a \in BOOLEAN, NEW b \in BOOLEAN, NEW c \in BOOLEAN,
           NEW d \in BOOLEAN, NEW p, NEW q, NEW r, NEW s
    PROVE  FirstFailed(<<Check(a, p), Check(b, q), Check(c, r), Check(d, s)>>)
             = IF ~ a THEN p ELSE IF ~ b THEN q ELSE IF ~ c THEN r
               ELSE IF ~ d THEN s ELSE "ok"
<1> DEFINE cs == <<Check(a, p), Check(b, q), Check(c, r), Check(d, s)>>
           Failed(k) == ~ cs[k].holds /\ \A j \in 1 .. k - 1 : cs[j].holds
<1>1. /\ DOMAIN cs = 1 .. 4
      /\ cs[1] = Check(a, p) /\ cs[2] = Check(b, q)
      /\ cs[3] = Check(c, r) /\ cs[4] = Check(d, s)
  OBVIOUS
<1>2. \A h \in BOOLEAN : \A code : Check(h, code).holds = h /\ Check(h, code).code = code
  BY DEF Check
<1>3. /\ cs[1].holds = a /\ cs[2].holds = b /\ cs[3].holds = c /\ cs[4].holds = d
      /\ cs[1].code = p /\ cs[2].code = q /\ cs[3].code = r /\ cs[4].code = s
  BY <1>1, <1>2
<1> HIDE DEF cs
<1>4. FirstFailed(cs) = IF \A k \in 1 .. 4 : cs[k].holds THEN "ok"
                        ELSE cs[CHOOSE k \in 1 .. 4 : Failed(k)].code
  BY <1>1 DEF FirstFailed
<1> SUFFICES FirstFailed(cs) = IF ~ a THEN p ELSE IF ~ b THEN q ELSE IF ~ c THEN r
               ELSE IF ~ d THEN s ELSE "ok"
  BY DEF cs
<1>5. CASE a /\ b /\ c /\ d
  <2>1. \A k \in 1 .. 4 : k = 1 \/ k = 2 \/ k = 3 \/ k = 4
    OBVIOUS
  <2>2. \A k \in 1 .. 4 : cs[k].holds
    BY <1>3, <1>5, <2>1
  <2> QED
    BY <1>4, <1>5, <2>2
<1>6. ASSUME NEW n \in 1 .. 4, Failed(n)
      PROVE  FirstFailed(cs) = cs[n].code
  <2>1. ASSUME NEW k \in 1 .. 4, Failed(k) PROVE k = n
    <3>1. ~ (k < n) /\ ~ (n < k)
      BY <1>6, <2>1
    <3> QED
      BY <3>1
  <2>2. (CHOOSE k \in 1 .. 4 : Failed(k)) = n
    BY <1>6, <2>1
  <2>3. ~ \A k \in 1 .. 4 : cs[k].holds
    BY <1>6
  <2> QED
    BY <1>4, <2>2, <2>3
<1>7. CASE ~ a
  <2>1. Failed(1)
    BY <1>3, <1>7
  <2> QED
    BY <1>3, <1>6, <1>7, <2>1
<1>8. CASE a /\ ~ b
  <2>1. \A j \in 1 .. 2 - 1 : j = 1
    OBVIOUS
  <2>2. Failed(2)
    BY <1>3, <1>8, <2>1
  <2> QED
    BY <1>3, <1>6, <1>8, <2>2
<1>9. CASE a /\ b /\ ~ c
  <2>1. \A j \in 1 .. 3 - 1 : j = 1 \/ j = 2
    OBVIOUS
  <2>2. Failed(3)
    BY <1>3, <1>9, <2>1
  <2> QED
    BY <1>3, <1>6, <1>9, <2>2
<1>10. CASE a /\ b /\ c /\ ~ d
  <2>1. \A j \in 1 .. 4 - 1 : j = 1 \/ j = 2 \/ j = 3
    OBVIOUS
  <2>2. Failed(4)
    BY <1>3, <1>10, <2>1
  <2> QED
    BY <1>3, <1>6, <1>10, <2>2
<1> QED
  BY <1>5, <1>7, <1>8, <1>9, <1>10

(* What NewEvent answers.                                                  *)
LEMMA NewEventSays ==
    ASSUME NEW in
    PROVE  NewEventCode(in)
             = IF in.type \notin EventType THEN "invalid_event_type"
               ELSE IF in.reminder \notin Reminder THEN "invalid_reminder"
               ELSE IF Trim[in.description] = "" THEN "empty_description"
               ELSE IF ~ LocationOK(in.location) THEN "invalid_location" ELSE "ok"
<1> DEFINE a == in.type \in EventType
           b == in.reminder \in Reminder
           c == Trim[in.description] # ""
           d == LocationOK(in.location)
<1>1. a \in BOOLEAN /\ b \in BOOLEAN /\ c \in BOOLEAN /\ d \in BOOLEAN
  BY DEF LocationOK
<1>2. NewEventCode(in)
        = FirstFailed(<<Check(a, "invalid_event_type"), Check(b, "invalid_reminder"),
                        Check(c, "empty_description"), Check(d, "invalid_location")>>)
  BY DEF NewEventCode
<1> HIDE DEF a, b, c, d
<1>3. NewEventCode(in)
        = IF ~ a THEN "invalid_event_type" ELSE IF ~ b THEN "invalid_reminder"
          ELSE IF ~ c THEN "empty_description"
          ELSE IF ~ d THEN "invalid_location" ELSE "ok"
  BY <1>1, <1>2, FirstOfFour
<1> QED
  BY <1>3 DEF a, b, c, d

(* A body that decodes yields values of their types, zero where it brings  *)
(* none.                                                                   *)
LEMMA DecodesTyped ==
    ASSUME NEW b, TypedBody(b), ~ Malformed(b, InputKey)
    PROVE  InputOK(ToInput(b))
<1>1. ASSUME NEW k \in InputKey
      PROVE  OfType(k, Get(b, k)) /\ Get(b, k) \notin {Null, WrongType}
  <2>1. CASE Brings(b, k)
    BY <2>1 DEF TypedBody, Malformed, Brings, Get
  <2>2. CASE ~ Brings(b, k)
    <3>1. Get(b, k) = IF k \in {"locationLat", "locationLng", "startsAt"}
                      THEN 0 ELSE ""
      BY <2>2 DEF Get, Zero
    <3>2. "" \in DOMAIN Trim /\ "" \notin {Null, WrongType} /\ 0 \notin {Null, WrongType}
      <4>1. "" \in DOMAIN Trim
        BY TrimAssumption
      <4>2. "" # Null /\ "" # WrongType
        BY <4>1, ValuesDecode
      <4>3. PICK z \in Int : z = 0
        OBVIOUS
      <4>4. z # Null /\ z # WrongType
        BY ValuesDecode
      <4> QED
        BY <4>1, <4>2, <4>3, <4>4, Zenon
    <3>3. CASE k \in {"locationLat", "locationLng", "startsAt"}
      <4>1. Get(b, k) = 0
        BY <3>1, <3>3
      <4>2. Get(b, k) \in Int
        BY <4>1
      <4>3. OfType(k, Get(b, k))
        BY <3>3, <4>2 DEF OfType
      <4> QED
        BY <3>2, <4>1, <4>3, Zenon
    <3>4. CASE k \notin {"locationLat", "locationLng", "startsAt"}
      <4>1. Get(b, k) = ""
        BY <3>1, <3>4
      <4>2. CASE k = "description"
        BY <3>2, <3>4, <4>1, <4>2 DEF OfType
      <4>3. CASE k # "description"
        BY <3>2, <3>4, <4>1, <4>3 DEF OfType
      <4> QED
        BY <4>2, <4>3
    <3> QED
      BY <3>3, <3>4
  <2> QED
    BY <2>1, <2>2
<1>2. /\ Get(b, "contactName") \notin {Null, WrongType}
      /\ Get(b, "contactRef") \notin {Null, WrongType}
      /\ Get(b, "locationLabel") \notin {Null, WrongType}
      /\ Get(b, "locationLat") \in Int /\ Get(b, "locationLng") \in Int
      /\ Get(b, "startsAt") \in Int
      /\ Get(b, "description") \in DOMAIN Trim
  BY <1>1 DEF InputKey, OfType
<1> QED
  BY <1>2 DEF InputOK, ToInput, Parsed

(* The row of an event that the domain accepts and the table does not      *)
(* refuse.                                                                 *)
LEMMA StoredIsGood ==
    ASSUME NEW in, InputOK(in), NewEventCode(in) = "ok", NEW u, NEW i,
           NEW s \in EventStatus, NEW created \in Int, NEW updated \in Int,
           NEW e, e = Sealed([NewEvent(u, in) EXCEPT !.status = s], i, created, updated),
           ~ Refused(EventParams(e))
    PROVE  GoodRow(EventParams(e))
<1>1. /\ in.type \in EventType /\ in.reminder \in Reminder
      /\ Trim[in.description] # "" /\ LocationOK(in.location)
  BY NewEventSays
<1>2. /\ Trim[in.description] \in DOMAIN Trim
      /\ Trim[Trim[in.description]] = Trim[in.description]
  BY TrimAssumption DEF InputOK
<1>3. EventParams(e)
        = [user_id |-> u, event_type |-> in.type,
           contact_name |-> in.contact.name, contact_ref |-> in.contact.ref,
           location_lat |-> in.location.lat, location_lng |-> in.location.lng,
           location_label |-> in.location.label,
           description |-> Trim[in.description],
           starts_at |-> Micros(in.startsAt.at), event_status |-> s,
           reminder_type |-> in.reminder,
           created_at |-> Micros(created), updated_at |-> Micros(updated)]
  BY DEF EventParams, Sealed, NewEvent
<1>4. LocationOK([lat |-> in.location.lat, lng |-> in.location.lng])
  BY <1>1 DEF LocationOK
<1>5. /\ Micros(in.startsAt.at) \in Int /\ Micros(created) \in Int
      /\ Micros(updated) \in Int
      /\ Micros(Micros(in.startsAt.at)) = Micros(in.startsAt.at)
      /\ Micros(Micros(created)) = Micros(created)
      /\ Micros(Micros(updated)) = Micros(updated)
  BY MicrosStay DEF InputOK
<1>6. /\ in.contact.name \notin {Null, WrongType}
      /\ in.contact.ref \notin {Null, WrongType}
      /\ in.location.label \notin {Null, WrongType}
  BY DEF InputOK
<1>7. PICK row : row = EventParams(e)
  OBVIOUS
<1>8. /\ row.event_type = in.type /\ row.event_status = s
      /\ row.reminder_type = in.reminder
      /\ row.contact_name = in.contact.name /\ row.contact_ref = in.contact.ref
      /\ row.location_lat = in.location.lat /\ row.location_lng = in.location.lng
      /\ row.location_label = in.location.label
      /\ row.description = Trim[in.description]
      /\ row.starts_at = Micros(in.startsAt.at)
      /\ row.created_at = Micros(created) /\ row.updated_at = Micros(updated)
      /\ row.user_id = u
  BY <1>3, <1>7
<1>9. row = [user_id |-> row.user_id, event_type |-> row.event_type,
             contact_name |-> row.contact_name, contact_ref |-> row.contact_ref,
             location_lat |-> row.location_lat, location_lng |-> row.location_lng,
             location_label |-> row.location_label,
             description |-> row.description, starts_at |-> row.starts_at,
             event_status |-> row.event_status,
             reminder_type |-> row.reminder_type,
             created_at |-> row.created_at, updated_at |-> row.updated_at]
  BY <1>3, <1>7, <1>8
<1>10. /\ row.event_type \in EventType /\ row.event_status \in EventStatus
       /\ row.reminder_type \in Reminder
       /\ row.location_lat \in Int /\ row.location_lng \in Int
       /\ LocationOK([lat |-> row.location_lat, lng |-> row.location_lng])
  BY <1>1, <1>4, <1>8 DEF InputOK
<1>11. /\ row.contact_name \notin {Null, WrongType}
       /\ row.contact_ref \notin {Null, WrongType}
       /\ row.location_label \notin {Null, WrongType}
  BY <1>6, <1>8
<1>12. /\ row.description \in DOMAIN Trim /\ row.description # ""
       /\ Trim[row.description] = row.description
  BY <1>1, <1>2, <1>8
<1>13. /\ row.starts_at \in Int /\ Micros(row.starts_at) = row.starts_at
       /\ row.created_at \in Int /\ Micros(row.created_at) = row.created_at
       /\ row.updated_at \in Int /\ Micros(row.updated_at) = row.updated_at
  BY <1>5, <1>8
<1>14. GoodRow(row)
  BY <1>7, <1>9, <1>10, <1>11, <1>12, <1>13 DEF GoodRow
<1> QED
  BY <1>7, <1>14

-----------------------------------------------------------------------------
(* A PATCH and its merge.                                                  *)

(* What a good row shows under each key of an input.                       *)
LEMMA RowShows ==
    ASSUME NEW row, GoodRow(row), NEW i, NEW old, old = Shown(i, row)
    PROVE  /\ DOMAIN old = {"id", "userId", "createdAt", "updatedAt"} \cup ContentKey
           /\ old["eventType"] = row.event_type
           /\ old["contactName"] = row.contact_name
           /\ old["contactRef"] = row.contact_ref
           /\ old["locationLat"] = row.location_lat
           /\ old["locationLng"] = row.location_lng
           /\ old["locationLabel"] = row.location_label
           /\ old["description"] = row.description
           /\ old["startsAt"] = row.starts_at
           /\ old["reminderType"] = row.reminder_type
           /\ old["eventStatus"] = row.event_status
           /\ old["id"] = i /\ old["userId"] = row.user_id
           /\ old["createdAt"] = row.created_at
           /\ old["updatedAt"] = row.updated_at
           /\ \A k \in ContentKey : old[k] \notin {Null, WrongType} /\ OfType(k, old[k])
<1>1. old = [id |-> i, userId |-> row.user_id, eventType |-> row.event_type,
             contactName |-> row.contact_name, contactRef |-> row.contact_ref,
             locationLat |-> row.location_lat, locationLng |-> row.location_lng,
             locationLabel |-> row.location_label, description |-> row.description,
             startsAt |-> row.starts_at, eventStatus |-> row.event_status,
             reminderType |-> row.reminder_type, createdAt |-> row.created_at,
             updatedAt |-> row.updated_at]
  BY DEF Shown, ToEventResponse, ToDomainEvent
<1>2. /\ row.event_type \notin {Null, WrongType}
      /\ row.event_status \notin {Null, WrongType}
      /\ row.reminder_type \notin {Null, WrongType}
      /\ row.description \notin {Null, WrongType}
  BY ValuesDecode DEF GoodRow
<1>3. row.location_lat \in Int /\ row.location_lng \in Int /\ row.starts_at \in Int
  BY DEF GoodRow
<1>4. /\ row.location_lat \notin {Null, WrongType}
      /\ row.location_lng \notin {Null, WrongType}
      /\ row.starts_at \notin {Null, WrongType}
  <2>1. PICK x, y, z \in Int :
          x = row.location_lat /\ y = row.location_lng /\ z = row.starts_at
    BY <1>3
  <2>2. x \notin {Null, WrongType} /\ y \notin {Null, WrongType} /\ z \notin {Null, WrongType}
    BY ValuesDecode
  <2> QED
    BY <2>1, <2>2, Zenon
<1>5. ASSUME NEW k \in ContentKey
      PROVE  old[k] \notin {Null, WrongType} /\ OfType(k, old[k])
  <2>1. old[k] \notin {Null, WrongType}
    <3>1. /\ old["eventType"] \notin {Null, WrongType}
          /\ old["contactName"] \notin {Null, WrongType}
          /\ old["contactRef"] \notin {Null, WrongType}
          /\ old["locationLat"] \notin {Null, WrongType}
          /\ old["locationLng"] \notin {Null, WrongType}
          /\ old["locationLabel"] \notin {Null, WrongType}
          /\ old["description"] \notin {Null, WrongType}
          /\ old["startsAt"] \notin {Null, WrongType}
          /\ old["reminderType"] \notin {Null, WrongType}
          /\ old["eventStatus"] \notin {Null, WrongType}
      <4>1. /\ row.contact_name \notin {Null, WrongType}
            /\ row.contact_ref \notin {Null, WrongType}
            /\ row.location_label \notin {Null, WrongType}
        BY DEF GoodRow
      <4>2. /\ old["eventType"] = row.event_type
            /\ old["contactName"] = row.contact_name
            /\ old["contactRef"] = row.contact_ref
            /\ old["locationLat"] = row.location_lat
            /\ old["locationLng"] = row.location_lng
            /\ old["locationLabel"] = row.location_label
            /\ old["description"] = row.description
            /\ old["startsAt"] = row.starts_at
            /\ old["reminderType"] = row.reminder_type
            /\ old["eventStatus"] = row.event_status
        BY <1>1
      <4> QED
        BY <1>2, <1>4, <4>1, <4>2, Zenon
    <3> QED
      BY <3>1 DEF ContentKey, InputKey
  <2>2. CASE k \in {"locationLat", "locationLng", "startsAt"}
    <3>1. /\ old["locationLat"] \in Int /\ old["locationLng"] \in Int
          /\ old["startsAt"] \in Int
      BY <1>1, <1>3
    <3>2. old[k] \in Int
      BY <2>2, <3>1
    <3> QED
      <4>1. OfType(k, old[k])
        BY <2>2, <3>2 DEF OfType
      <4> QED
        BY <2>1, <4>1, Zenon
  <2>3. CASE k = "description"
    <3>1. old[k] = row.description
      BY <1>1, <2>3
    <3>2. row.description \in DOMAIN Trim
      BY DEF GoodRow
    <3> QED
      BY <2>1, <2>3, <3>1, <3>2 DEF OfType
  <2>4. CASE k \notin {"locationLat", "locationLng", "startsAt", "description"}
    BY <2>1, <2>4 DEF OfType
  <2> QED
    BY <2>2, <2>3, <2>4
<1>6. DOMAIN old = {"id", "userId", "createdAt", "updatedAt"} \cup ContentKey
  BY <1>1 DEF ContentKey, InputKey
<1> QED
  BY <1>1, <1>5, <1>6

(* What Edit makes of an event.                                            *)
LEMMA EditSays ==
    ASSUME NEW e, NEW p,
           e = [id |-> e.id, user |-> e.user, type |-> e.type,
                contact |-> e.contact, location |-> e.location,
                description |-> e.description, startsAt |-> e.startsAt,
                status |-> e.status, reminder |-> e.reminder,
                created |-> e.created, updated |-> e.updated]
    PROVE  Edit(e, p)
             = [id |-> e.id, user |-> e.user, type |-> Or(p, "eventType", e.type),
                contact |-> [name |-> Or(p, "contactName", e.contact.name),
                             ref |-> Or(p, "contactRef", e.contact.ref)],
                location |-> EditedLocation(e, p),
                description |-> IF "description" \in DOMAIN p
                                THEN Trim[p["description"]] ELSE e.description,
                startsAt |-> IF "startsAt" \in DOMAIN p
                             THEN Parsed(p["startsAt"]) ELSE e.startsAt,
                status |-> e.status,
                reminder |-> Or(p, "reminderType", e.reminder),
                created |-> e.created, updated |-> e.updated]
<1>1. PICK t, r, d, s, l, c :
        /\ t = Or(p, "eventType", e.type)
        /\ r = Or(p, "reminderType", e.reminder)
        /\ d = IF "description" \in DOMAIN p THEN Trim[p["description"]]
               ELSE e.description
        /\ s = IF "startsAt" \in DOMAIN p THEN Parsed(p["startsAt"]) ELSE e.startsAt
        /\ l = EditedLocation(e, p)
        /\ c = [name |-> Or(p, "contactName", e.contact.name),
                ref |-> Or(p, "contactRef", e.contact.ref)]
  OBVIOUS
<1>2. PICK f : f = [e EXCEPT !.type = t, !.reminder = r, !.description = d,
                             !.startsAt = s, !.contact = c, !.location = l]
  OBVIOUS
<1>3. Edit(e, p) = f
  BY <1>1, <1>2, Zenon DEF Edit
<1>4. f = [id |-> e.id, user |-> e.user, type |-> t, contact |-> c, location |-> l,
           description |-> d, startsAt |-> s, status |-> e.status, reminder |-> r,
           created |-> e.created, updated |-> e.updated]
  BY <1>2
<1> QED
  BY <1>1, <1>3, <1>4, Zenon

(* The validators of Edit are those of NewEvent over the merged event, and *)
(* Edit makes of it what NewEvent makes of the merged body.                *)
LEMMA EditIsMerge ==
    ASSUME NEW row, GoodRow(row), NEW i, NEW b, TypedBody(b),
           ~ Malformed(b, InputKey), NEW now,
           NEW e, e = ToDomainEvent(i, row), NEW p, p = ToPatch(b),
           NEW old, old = Shown(i, row), NEW in, in = ToInput(Overlaid(old, b)),
           NEW new, new = Sealed([NewEvent(row.user_id, in)
                                    EXCEPT !.status = old.eventStatus],
                                 i, old.createdAt, now)
    PROVE  /\ InputOK(in)
           /\ EditCode(e, p) = NewEventCode(in)
           /\ EventParams([Edit(e, p) EXCEPT !.updated = now]) = EventParams(new)
<1>1. PICK o : o = Overlaid(old, b)
  OBVIOUS
<1>2. ASSUME NEW k \in InputKey
      PROVE  /\ k \in DOMAIN o
             /\ o[k] = IF Brings(b, k) THEN b[k] ELSE old[k]
             /\ o[k] \notin {Null, WrongType} /\ OfType(k, o[k])
  <2>1. k \in DOMAIN o /\ o[k] = IF Brings(b, k) THEN b[k] ELSE old[k]
    BY <1>1 DEF Overlaid
  <2>2. CASE Brings(b, k)
    BY <2>1, <2>2 DEF TypedBody, Malformed, Brings
  <2>3. CASE ~ Brings(b, k)
    <3>1. k \in ContentKey
      BY DEF ContentKey
    <3> QED
      BY <2>1, <2>3, <3>1, RowShows
  <2> QED
    BY <2>2, <2>3
<1>3. TypedBody(o) /\ ~ Malformed(o, InputKey)
  BY <1>2 DEF TypedBody, Malformed
<1>4. InputOK(in)
  BY <1>1, <1>3, DecodesTyped
<1>5. ASSUME NEW k \in InputKey
      PROVE  Get(o, k) = Or(p, k, old[k]) /\ (k \in DOMAIN p <=> Brings(b, k))
  <2>1. Get(o, k) = o[k]
    BY <1>2 DEF Get, Brings
  <2>2. (k \in DOMAIN p <=> Brings(b, k)) /\ (Brings(b, k) => p[k] = b[k])
    BY DEF ToPatch
  <2> QED
    BY <1>2, <2>1, <2>2 DEF Or
<1>6. /\ in.type = Or(p, "eventType", row.event_type)
      /\ in.contact = [name |-> Or(p, "contactName", row.contact_name),
                       ref |-> Or(p, "contactRef", row.contact_ref)]
      /\ in.location = [lat |-> Or(p, "locationLat", row.location_lat),
                        lng |-> Or(p, "locationLng", row.location_lng),
                        label |-> Or(p, "locationLabel", row.location_label)]
      /\ in.description = Or(p, "description", row.description)
      /\ in.startsAt.at = Or(p, "startsAt", row.starts_at)
      /\ in.reminder = Or(p, "reminderType", row.reminder_type)
  <2>1. /\ in.type = Get(o, "eventType")
        /\ in.contact = [name |-> Get(o, "contactName"), ref |-> Get(o, "contactRef")]
        /\ in.location = [lat |-> Get(o, "locationLat"), lng |-> Get(o, "locationLng"),
                          label |-> Get(o, "locationLabel")]
        /\ in.description = Get(o, "description")
        /\ in.startsAt.at = Get(o, "startsAt")
        /\ in.reminder = Get(o, "reminderType")
    BY <1>1 DEF ToInput, Parsed
  <2>2. /\ Get(o, "eventType") = Or(p, "eventType", row.event_type)
        /\ Get(o, "contactName") = Or(p, "contactName", row.contact_name)
        /\ Get(o, "contactRef") = Or(p, "contactRef", row.contact_ref)
        /\ Get(o, "locationLat") = Or(p, "locationLat", row.location_lat)
        /\ Get(o, "locationLng") = Or(p, "locationLng", row.location_lng)
        /\ Get(o, "locationLabel") = Or(p, "locationLabel", row.location_label)
        /\ Get(o, "description") = Or(p, "description", row.description)
        /\ Get(o, "startsAt") = Or(p, "startsAt", row.starts_at)
        /\ Get(o, "reminderType") = Or(p, "reminderType", row.reminder_type)
    BY <1>5, RowShows DEF InputKey
  <2> QED
    BY <2>1, <2>2
<1>7. /\ e.id = i /\ e.user = row.user_id /\ e.type = row.event_type
      /\ e.contact = [name |-> row.contact_name, ref |-> row.contact_ref]
      /\ e.location = [lat |-> row.location_lat, lng |-> row.location_lng,
                       label |-> row.location_label]
      /\ e.description = row.description /\ e.startsAt.at = row.starts_at
      /\ e.status = row.event_status /\ e.reminder = row.reminder_type
      /\ e.created = row.created_at
  BY DEF ToDomainEvent
<1>8. EditedLocation(e, p) = in.location
  BY <1>6, <1>7 DEF EditedLocation
<1>9. EditCode(e, p) = NewEventCode(in)
  <2> DEFINE a == "eventType" \in DOMAIN p => p["eventType"] \in EventType
             c == "reminderType" \in DOMAIN p => p["reminderType"] \in Reminder
             d == "description" \in DOMAIN p => Trim[p["description"]] # ""
             l == {"locationLat", "locationLng"} \cap DOMAIN p # {}
                     => LocationOK(EditedLocation(e, p))
  <2>1. a \in BOOLEAN /\ c \in BOOLEAN /\ d \in BOOLEAN /\ l \in BOOLEAN
    BY DEF LocationOK
  <2>2. EditCode(e, p)
          = FirstFailed(<<Check(a, "invalid_event_type"), Check(c, "invalid_reminder"),
                          Check(d, "empty_description"), Check(l, "invalid_location")>>)
    BY DEF EditCode
  <2>3. a <=> in.type \in EventType
    BY <1>6 DEF Or, GoodRow
  <2>4. c <=> in.reminder \in Reminder
    BY <1>6 DEF Or, GoodRow
  <2>5. d <=> Trim[in.description] # ""
    BY <1>6 DEF Or, GoodRow
  <2>6. l <=> LocationOK(in.location)
    <3>1. CASE {"locationLat", "locationLng"} \cap DOMAIN p # {}
      BY <1>8, <3>1
    <3>2. CASE {"locationLat", "locationLng"} \cap DOMAIN p = {}
      <4>1. "locationLat" \notin DOMAIN p /\ "locationLng" \notin DOMAIN p
        BY <3>2
      <4>2. in.location.lat = row.location_lat /\ in.location.lng = row.location_lng
        BY <1>6, <4>1 DEF Or
      <4>3. LocationOK([lat |-> row.location_lat, lng |-> row.location_lng])
        BY DEF GoodRow
      <4>4. LocationOK(in.location)
        BY <4>2, <4>3 DEF LocationOK
      <4> QED
        BY <3>2, <4>4
    <3> QED
      BY <3>1, <3>2
  <2> HIDE DEF a, c, d, l
  <2>7. EditCode(e, p)
          = IF ~ a THEN "invalid_event_type" ELSE IF ~ c THEN "invalid_reminder"
            ELSE IF ~ d THEN "empty_description"
            ELSE IF ~ l THEN "invalid_location" ELSE "ok"
    BY <2>1, <2>2, FirstOfFour
  <2> QED
    BY <2>3, <2>4, <2>5, <2>6, <2>7, NewEventSays
<1>10. EventParams([Edit(e, p) EXCEPT !.updated = now]) = EventParams(new)
  <2>1. EventParams(new)
          = [user_id |-> row.user_id, event_type |-> in.type,
             contact_name |-> in.contact.name, contact_ref |-> in.contact.ref,
             location_lat |-> in.location.lat, location_lng |-> in.location.lng,
             location_label |-> in.location.label,
             description |-> Trim[in.description],
             starts_at |-> Micros(in.startsAt.at), event_status |-> row.event_status,
             reminder_type |-> in.reminder,
             created_at |-> Micros(row.created_at), updated_at |-> Micros(now)]
    <3>1. old.eventStatus = row.event_status /\ old.createdAt = row.created_at
      BY RowShows
    <3> QED
      BY <3>1 DEF EventParams, Sealed, NewEvent
  <2>2. PICK d, s, c, y, x :
          /\ d = IF "description" \in DOMAIN p
                 THEN Trim[p["description"]] ELSE row.description
          /\ s = IF "startsAt" \in DOMAIN p THEN Parsed(p["startsAt"]) ELSE e.startsAt
          /\ c = [name |-> Or(p, "contactName", row.contact_name),
                  ref |-> Or(p, "contactRef", row.contact_ref)]
          /\ y = Edit(e, p)
          /\ x = [y EXCEPT !.updated = now]
    OBVIOUS
  <2>3. e = [id |-> e.id, user |-> e.user, type |-> e.type,
             contact |-> e.contact, location |-> e.location,
             description |-> e.description, startsAt |-> e.startsAt,
             status |-> e.status, reminder |-> e.reminder,
             created |-> e.created, updated |-> e.updated]
    BY DEF ToDomainEvent
  <2>6. e.contact.name = row.contact_name /\ e.contact.ref = row.contact_ref
    BY <1>7
  <2>7. y = [id |-> i, user |-> row.user_id,
             type |-> Or(p, "eventType", row.event_type),
             contact |-> c, location |-> EditedLocation(e, p), description |-> d,
             startsAt |-> s, status |-> row.event_status,
             reminder |-> Or(p, "reminderType", row.reminder_type),
             created |-> row.created_at, updated |-> e.updated]
    <3>1. Edit(e, p)
            = [id |-> e.id, user |-> e.user, type |-> Or(p, "eventType", e.type),
               contact |-> [name |-> Or(p, "contactName", e.contact.name),
                            ref |-> Or(p, "contactRef", e.contact.ref)],
               location |-> EditedLocation(e, p),
               description |-> IF "description" \in DOMAIN p
                               THEN Trim[p["description"]] ELSE e.description,
               startsAt |-> IF "startsAt" \in DOMAIN p
                            THEN Parsed(p["startsAt"]) ELSE e.startsAt,
               status |-> e.status,
               reminder |-> Or(p, "reminderType", e.reminder),
               created |-> e.created, updated |-> e.updated]
      BY <2>3, EditSays
    <3>2. /\ e.id = i /\ e.user = row.user_id /\ e.type = row.event_type
          /\ e.description = row.description /\ e.status = row.event_status
          /\ e.reminder = row.reminder_type /\ e.created = row.created_at
      BY <1>7
    <3> QED
      BY <2>2, <2>6, <3>1, <3>2
  <2>8. x = [id |-> i, user |-> row.user_id, type |-> in.type,
             contact |-> in.contact, location |-> in.location, description |-> d,
             startsAt |-> s, status |-> row.event_status,
             reminder |-> in.reminder,
             created |-> row.created_at, updated |-> now]
    <3>1. y = [id |-> i, user |-> row.user_id, type |-> in.type,
               contact |-> in.contact, location |-> in.location, description |-> d,
               startsAt |-> s, status |-> row.event_status,
               reminder |-> in.reminder,
               created |-> row.created_at, updated |-> e.updated]
      BY <1>6, <1>8, <2>2, <2>7, Zenon
    <3> QED
      BY <2>2, <3>1
  <2>4. x.description = Trim[in.description]
    <3>1. Trim[row.description] = row.description
      BY DEF GoodRow
    <3>2. x.description = d
      BY <2>8
    <3>3. d = Trim[in.description]
      BY <1>6, <2>2, <3>1 DEF Or
    <3> QED
      BY <3>2, <3>3
  <2>5. x.startsAt.at = in.startsAt.at
    BY <1>6, <1>7, <2>2, <2>8 DEF Or, Parsed
  <2> QED
    BY <2>1, <2>2, <2>4, <2>5, <2>8 DEF EventParams
<1> QED
  BY <1>4, <1>9, <1>10

-----------------------------------------------------------------------------
(* Answers.                                                                *)

(* An answer without events.                                               *)
LEMMA AnswersSay ==
    ASSUME NEW op, NEW u, NEW i, NEW b, NEW code, Answers(Asks(op, u, i, b), code)
    PROVE  /\ response' = [op |-> op, user |-> u, id |-> i, asked |-> b, code |-> code,
                           events |-> <<>>, empty |-> FALSE, failed |-> 0]
           /\ done' = done + 1
<1>1. PICK n : n = NoResponse
  OBVIOUS
<1>2. PICK q : q = [n EXCEPT !.op = op, !.user = u, !.id = i, !.asked = b]
  OBVIOUS
<1>3. PICK r : r = [q EXCEPT !.code = code]
  OBVIOUS
<1>4. q = [op |-> op, user |-> u, id |-> i, asked |-> b, code |-> "none",
           events |-> <<>>, empty |-> FALSE, failed |-> 0]
  BY <1>1, <1>2 DEF NoResponse
<1>5. r = [op |-> op, user |-> u, id |-> i, asked |-> b, code |-> code,
           events |-> <<>>, empty |-> FALSE, failed |-> 0]
  BY <1>3, <1>4
<1>6. response' = r /\ done' = done + 1
  BY <1>1, <1>2, <1>3, Zenon DEF Answers, Asks, Respond
<1> QED
  BY <1>5, <1>6

(* An answer with events.                                                  *)
LEMMA WriteJSONSays ==
    ASSUME NEW op, NEW u, NEW i, NEW b, NEW es, WriteJSON(Asks(op, u, i, b), es)
    PROVE  /\ response'.op = op /\ response'.user = u /\ response'.id = i
           /\ response'.asked = b /\ response'.code = "ok"
           /\ response'.empty = ~ CanEncode(es)
           /\ response'.events = IF CanEncode(es)
                                 THEN [k \in DOMAIN es |-> ToEventResponse(es[k])]
                                 ELSE <<>>
           /\ done' = done + 1
<1>1. PICK n, a, shown :
        /\ n = NoResponse
        /\ a = ~ CanEncode(es)
        /\ shown = IF CanEncode(es)
                   THEN [k \in DOMAIN es |-> ToEventResponse(es[k])] ELSE <<>>
  OBVIOUS
<1>2. PICK q : q = [n EXCEPT !.op = op, !.user = u, !.id = i, !.asked = b]
  OBVIOUS
<1>3. PICK r : r = [q EXCEPT !.code = "ok", !.empty = a, !.events = shown]
  OBVIOUS
<1>4. q = [op |-> op, user |-> u, id |-> i, asked |-> b, code |-> "none",
           events |-> <<>>, empty |-> FALSE, failed |-> 0]
  BY <1>1, <1>2 DEF NoResponse
<1>5. r = [op |-> op, user |-> u, id |-> i, asked |-> b, code |-> "ok",
           events |-> shown, empty |-> a, failed |-> 0]
  BY <1>3, <1>4
<1>6. response' = r /\ done' = done + 1
  BY <1>1, <1>2, <1>3, Zenon DEF WriteJSON, Asks, Respond
<1>7. /\ response'.op = op /\ response'.user = u /\ response'.id = i
      /\ response'.asked = b /\ response'.code = "ok"
      /\ response'.empty = a /\ response'.events = shown
  BY <1>5, <1>6
<1> QED
  BY <1>1, <1>6, <1>7, Zenon

(* The row of an event shows the event, but for what it rounds.            *)
LEMMA RowShowsEvent ==
    ASSUME NEW e, NEW said, said = ToEventResponse(e)
    PROVE  Shown(e.id, EventParams(e)) = Rounded(said)
<1>1. PICK s, c, p : /\ s = Micros(said.startsAt) /\ c = Micros(said.createdAt)
                     /\ p = Micros(said.updatedAt)
  OBVIOUS
<1>2. /\ s = Micros(e.startsAt.at) /\ c = Micros(e.created) /\ p = Micros(e.updated)
  BY <1>1 DEF ToEventResponse
<1>3. PICK f : f = [said EXCEPT !.startsAt = s, !.createdAt = c, !.updatedAt = p]
  OBVIOUS
<1>4. f = [id |-> e.id, userId |-> e.user, eventType |-> e.type,
           contactName |-> e.contact.name, contactRef |-> e.contact.ref,
           locationLat |-> e.location.lat, locationLng |-> e.location.lng,
           locationLabel |-> e.location.label, description |-> e.description,
           startsAt |-> s, eventStatus |-> e.status, reminderType |-> e.reminder,
           createdAt |-> c, updatedAt |-> p]
  BY <1>3 DEF ToEventResponse
<1>5. Shown(e.id, EventParams(e)) = f
  BY <1>2, <1>4 DEF Shown, ToEventResponse, ToDomainEvent, EventParams
<1> QED
  BY <1>1, <1>3, <1>5, Zenon DEF Rounded

(* A read has the event unless its year is one that JSON cannot carry.     *)
LEMMA ReadIs ==
    ASSUME NEW i, NEW row
    PROVE  Read(i, row) =
             IF row.starts_at <= LastYearEnd THEN <<Shown(i, row)>> ELSE <<>>
<1>1. PICK e : e = ToDomainEvent(i, row)
  OBVIOUS
<1>2. e.startsAt.fits = (row.starts_at <= LastYearEnd)
  BY <1>1 DEF ToDomainEvent
<1>3. PICK es : es = <<e>>
  OBVIOUS
<1>4. CanEncode(es) <=> e.startsAt.fits
  BY <1>3 DEF CanEncode
<1> QED
  BY <1>1, <1>2, <1>3, <1>4 DEF Read

(* An event that cannot be encoded starts so late that its row cannot be   *)
(* either.                                                                 *)
LateIfUnfit(e) ==
    ~ e.startsAt.fits => ~ (Micros(e.startsAt.at) <= LastYearEnd)

(* A write that answers the event it has stored.                           *)
LEMMA AnsweredAsStored ==
    ASSUME NEW op, NEW u, NEW i, NEW b, NEW e, e.id = i, e.user = u,
           LateIfUnfit(e), WriteJSON(Asks(op, u, i, b), <<e>>),
           i \in DOMAIN rows', rows'[i] = EventParams(e)
    PROVE  AnswerIsStored'
<1>1. PICK said : said = ToEventResponse(e)
  OBVIOUS
<1>2. response'.id = i /\ response'.user = u /\ response'.empty = ~ CanEncode(<<e>>)
  BY WriteJSONSays
<1>3. CanEncode(<<e>>) => response'.events[1] = said
  <2> SUFFICES ASSUME CanEncode(<<e>>)
               PROVE  response'.events[1] = said
    OBVIOUS
  <2>1. PICK es : es = <<e>>
    OBVIOUS
  <2>2. response'.events = [k \in DOMAIN es |-> ToEventResponse(es[k])]
    BY <2>1, WriteJSONSays
  <2>3. 1 \in DOMAIN es /\ es[1] = e
    BY <2>1
  <2> QED
    BY <1>1, <2>2, <2>3, Zenon
<1>4. rows'[i].user_id = u
  BY DEF EventParams
<1>5. Shown(i, rows'[i]) = Rounded(said)
  BY <1>1, RowShowsEvent
<1>6. (response.id \in Owned(response.user))'
  BY <1>2, <1>4 DEF Owned
<1>7. PICK row : row = rows'[i]
  OBVIOUS
<1>8. row.starts_at = Micros(e.startsAt.at)
  BY <1>7 DEF EventParams
<1>9. Rounded(said).startsAt = row.starts_at
  BY <1>5, <1>7 DEF Shown, ToEventResponse, ToDomainEvent
<1>10. Read(i, row) = IF row.starts_at <= LastYearEnd THEN <<Shown(i, row)>> ELSE <<>>
  BY ReadIs
<1>11. ASSUME response'.empty
       PROVE  Read(i, row) = <<>>
  <2>1. PICK es : es = <<e>>
    OBVIOUS
  <2>2. CanEncode(es) <=> e.startsAt.fits
    BY <2>1 DEF CanEncode
  <2>3. ~ e.startsAt.fits
    BY <1>2, <1>11, <2>1, <2>2, Zenon
  <2> QED
    BY <1>8, <1>10, <2>3 DEF LateIfUnfit
<1>12. ASSUME ~ response'.empty
       PROVE  /\ Shown(i, row) = Rounded(response'.events[1])
              /\ Read(i, row) =
                   IF Rounded(response'.events[1]).startsAt <= LastYearEnd
                   THEN <<Rounded(response'.events[1])>> ELSE <<>>
  <2>1. response'.events[1] = said
    BY <1>2, <1>3, <1>12
  <2> QED
    BY <1>5, <1>7, <1>9, <1>10, <2>1, Zenon
<1> QED
  BY <1>2, <1>6, <1>7, <1>11, <1>12 DEF AnswerIsStored

-----------------------------------------------------------------------------
(* The table.                                                              *)

(* The table has rows that the validators and the types of its columns     *)
(* have let through, under ids that were handed out.                       *)
RowsOK ==
    /\ lastId \in Nat /\ done \in Nat
    /\ DOMAIN rows \subseteq 1 .. lastId
    /\ rows = [i \in DOMAIN rows |-> rows[i]]
    /\ \A i \in DOMAIN rows : GoodRow(rows[i])

(* INSERT of a row under a new id.                                         *)
LEMMA InsertKeeps ==
    ASSUME RowsOK, NEW e, e.id = lastId + 1, GoodRow(EventParams(e)),
           rows' = Inserted(rows, e), lastId' = lastId + 1, done' = done + 1
    PROVE  RowsOK' /\ e.id \in DOMAIN rows' /\ rows'[e.id] = EventParams(e)
<1>1. PICK i, row : i = e.id /\ row = EventParams(e)
  OBVIOUS
<1>2. rows' = [x \in DOMAIN rows \cup {i} |-> IF x = i THEN row ELSE rows[x]]
  BY <1>1 DEF Inserted
<1>3. lastId' \in Nat /\ done' \in Nat /\ DOMAIN rows' \subseteq 1 .. lastId'
  BY <1>1, <1>2 DEF RowsOK
<1>4. rows' = [x \in DOMAIN rows' |-> rows'[x]]
  BY <1>2
<1>5. ASSUME NEW x \in DOMAIN rows'
      PROVE  GoodRow(rows'[x])
  BY <1>1, <1>2 DEF RowsOK
<1> QED
  BY <1>1, <1>2, <1>3, <1>4, <1>5 DEF RowsOK

(* UPDATE of a row, which leaves created_at as it is.                      *)
LEMMA UpdateKeeps ==
    ASSUME RowsOK, NEW e, e.id \in DOMAIN rows, GoodRow(EventParams(e)),
           e.created = rows[e.id].created_at,
           rows' = Updated(rows, e), lastId' = lastId, done' = done + 1
    PROVE  /\ RowsOK'
           /\ rows' = [rows EXCEPT ![e.id] = EventParams(e)]
           /\ e.id \in DOMAIN rows' /\ rows'[e.id] = EventParams(e)
<1>1. PICK i, row, c : i = e.id /\ row = EventParams(e) /\ c = rows[i].created_at
  OBVIOUS
<1>2. row.created_at = c
  <2>1. Micros(c) = c
    BY <1>1 DEF RowsOK, GoodRow
  <2>2. row.created_at = Micros(e.created)
    BY <1>1 DEF EventParams
  <2> QED
    BY <1>1, <2>1, <2>2
<1>3. PICK new : new = [row EXCEPT !.created_at = c]
  OBVIOUS
<1>4. new = row
  BY <1>1, <1>2, <1>3 DEF EventParams
<1>5. rows' = [rows EXCEPT ![i] = row]
  BY <1>1, <1>3, <1>4, Zenon DEF Updated
<1>6. i \in DOMAIN rows /\ DOMAIN rows' = DOMAIN rows /\ rows'[i] = row
  BY <1>1, <1>5
<1>7. ASSUME NEW x \in DOMAIN rows'
      PROVE  GoodRow(rows'[x])
  BY <1>1, <1>5, <1>6 DEF RowsOK
<1>8. rows' = [x \in DOMAIN rows' |-> rows'[x]]
  BY <1>5
<1>9. RowsOK'
  BY <1>6, <1>7, <1>8 DEF RowsOK
<1> QED
  BY <1>1, <1>5, <1>6, <1>9

(* A request that leaves the table alone.                                  *)
LEMMA SameKeeps ==
    ASSUME RowsOK, rows' = rows, lastId' \in Nat, lastId' >= lastId, done' = done + 1
    PROVE  RowsOK'
<1>1. lastId' \in Nat /\ done' \in Nat /\ DOMAIN rows' \subseteq 1 .. lastId'
  BY DEF RowsOK
<1>2. rows' = [x \in DOMAIN rows' |-> rows'[x]] /\ \A x \in DOMAIN rows' : GoodRow(rows'[x])
  BY DEF RowsOK
<1> QED
  BY <1>1, <1>2 DEF RowsOK

(* The clock of the requests.                                              *)
LEMMA NowIsInt ==
    ASSUME RowsOK
    PROVE  Now \in Int
BY DEF RowsOK, Now

(* A read and a written event of a row.                                    *)
LEMMA FoundIs ==
    ASSUME RowsOK, NEW u, NEW i \in Owned(u)
    PROVE  /\ i \in DOMAIN rows /\ GoodRow(rows[i]) /\ rows[i].user_id = u
           /\ Found(i) = ToDomainEvent(i, rows[i])
           /\ Found(i).id = i /\ Found(i).user = u
           /\ Found(i).created = rows[i].created_at
BY DEF Owned, Found, ToDomainEvent, RowsOK

(* What is read of a row has its instants rounded already.                 *)
LEMMA FoundLate ==
    ASSUME NEW i, NEW row, GoodRow(row)
    PROVE  LateIfUnfit(ToDomainEvent(i, row))
BY DEF LateIfUnfit, ToDomainEvent, GoodRow

-----------------------------------------------------------------------------
(* The handlers that write one event.                                      *)

(* A create answers what it has stored, or stores nothing.                 *)
LEMMA CreateStores ==
    ASSUME RowsOK, NEW u, CreateEvent(u)
    PROVE  RowsOK' /\ AnswerIsStored' /\ response'.op = "create"
<1>1. PICK b \in CreateBody :
        LET q == Asks("create", u, lastId + 1, b)
            in == ToInput(b)
            e == Sealed(NewEvent(u, in), lastId + 1, Now, Now) IN
        \/ /\ Malformed(b, InputKey)
           /\ Answers(q, "bad_request")
           /\ UNCHANGED <<rows, lastId, backup>>
        \/ /\ ~ Malformed(b, InputKey)
           /\ NewEventCode(in) # "ok"
           /\ Answers(q, NewEventCode(in))
           /\ UNCHANGED <<rows, lastId, backup>>
        \/ /\ ~ Malformed(b, InputKey)
           /\ NewEventCode(in) = "ok"
           /\ lastId < LastId
           /\ lastId' = lastId + 1
           /\ IF Refused(EventParams(e))
              THEN Answers(q, "internal_error") /\ UNCHANGED rows
              ELSE rows' = Inserted(rows, e) /\ WriteJSON(q, <<e>>)
           /\ UNCHANGED backup
  BY Zenon DEF CreateEvent
<1>2. PICK n, in, e : /\ n = lastId + 1 /\ in = ToInput(b)
                      /\ e = Sealed(NewEvent(u, in), n, Now, Now)
  OBVIOUS
<1>3. n \in Nat /\ n >= lastId /\ lastId \in Nat
  BY <1>2 DEF RowsOK
<1>4. ASSUME NEW code, code # "ok", Answers(Asks("create", u, n, b), code),
             rows' = rows, lastId' \in Nat, lastId' >= lastId
      PROVE  RowsOK' /\ AnswerIsStored' /\ response'.op = "create"
  <2>1. response'.op = "create" /\ response'.code = code /\ done' = done + 1
    BY <1>4, AnswersSay
  <2>2. AnswerIsStored'
    BY <1>4, <2>1 DEF AnswerIsStored
  <2> QED
    BY <1>4, <2>1, <2>2, SameKeeps
<1>5. CASE /\ Malformed(b, InputKey)
           /\ Answers(Asks("create", u, n, b), "bad_request")
           /\ UNCHANGED <<rows, lastId, backup>>
  BY <1>3, <1>4, <1>5
<1>6. CASE /\ NewEventCode(in) # "ok"
           /\ Answers(Asks("create", u, n, b), NewEventCode(in))
           /\ UNCHANGED <<rows, lastId, backup>>
  BY <1>3, <1>4, <1>6
<1>7. CASE /\ Refused(EventParams(e)) /\ lastId' = n
           /\ Answers(Asks("create", u, n, b), "internal_error") /\ UNCHANGED rows
  BY <1>3, <1>4, <1>7
<1>8. CASE /\ ~ Malformed(b, InputKey) /\ NewEventCode(in) = "ok"
           /\ lastId' = n /\ ~ Refused(EventParams(e))
           /\ rows' = Inserted(rows, e)
           /\ WriteJSON(Asks("create", u, n, b), <<e>>)
  <2>1. TypedBody(b)
    BY BodyAssumption DEF TypedBody
  <2>2. InputOK(in)
    BY <1>2, <1>8, <2>1, DecodesTyped
  <2>3. PICK new : new = NewEvent(u, in)
    OBVIOUS
  <2>4. PICK f : f = [new EXCEPT !.status = "pendiente"]
    OBVIOUS
  <2>5. f = new
    BY <2>3, <2>4 DEF NewEvent
  <2>6. e = Sealed([NewEvent(u, in) EXCEPT !.status = "pendiente"], n, Now, Now)
    BY <1>2, <2>3, <2>4, <2>5, Zenon
  <2>7. "pendiente" \in EventStatus /\ Now \in Int
    BY NowIsInt DEF EventStatus
  <2>8. GoodRow(EventParams(e))
    BY <1>8, <2>2, <2>6, <2>7, StoredIsGood
  <2>9. PICK now : now = Now
    OBVIOUS
  <2>10. e = [new EXCEPT !.id = n, !.created = now, !.updated = now]
    BY <1>2, <2>3, <2>9, Zenon DEF Sealed
  <2>11. e.id = n /\ e.user = u
    BY <2>3, <2>10 DEF NewEvent
  <2>12. done' = done + 1 /\ response'.op = "create"
    BY <1>8, WriteJSONSays
  <2>13. RowsOK' /\ n \in DOMAIN rows' /\ rows'[n] = EventParams(e)
    BY <1>2, <1>8, <2>8, <2>11, <2>12, InsertKeeps
  <2>15. LateIfUnfit(e)
    <3>1. e.startsAt = Parsed(Get(b, "startsAt"))
      BY <1>2, <2>3, <2>10 DEF NewEvent, ToInput
    <3> QED
      BY <3>1 DEF LateIfUnfit, Parsed
  <2>14. AnswerIsStored'
    BY <1>8, <2>11, <2>13, <2>15, AnsweredAsStored
  <2> QED
    BY <2>12, <2>13, <2>14
<1> QED
  BY <1>1, <1>2, <1>5, <1>6, <1>7, <1>8, Zenon

(* The event is written and answered, or refused.                          *)
LEMMA UpdateStores ==
    ASSUME RowsOK, NEW op, NEW u, NEW i \in Owned(u), NEW b, NEW e,
           e.id = i, e.user = u, e.created = rows[i].created_at,
           ~ Refused(EventParams(e)) => GoodRow(EventParams(e)), LateIfUnfit(e),
           Update(Asks(op, u, i, b), e)
    PROVE  /\ RowsOK' /\ AnswerIsStored'
           /\ response'.op = op /\ response'.user = u /\ response'.id = i
           /\ response'.asked = b
           /\ IF Refused(EventParams(e))
              THEN response'.code = "internal_error" /\ rows' = rows
              ELSE response'.code = "ok" /\ rows' = [rows EXCEPT ![i] = EventParams(e)]
<1>1. lastId' = lastId /\ lastId \in Nat
  BY DEF Update, RowsOK
<1>2. CASE Refused(EventParams(e))
  <2>1. Answers(Asks(op, u, i, b), "internal_error") /\ rows' = rows
    BY <1>2 DEF Update
  <2>2. /\ response'.op = op /\ response'.user = u /\ response'.id = i
        /\ response'.asked = b /\ response'.code = "internal_error"
        /\ done' = done + 1
    BY <2>1, AnswersSay
  <2>3. AnswerIsStored'
    BY <2>2 DEF AnswerIsStored
  <2>4. RowsOK'
    BY <1>1, <2>1, <2>2, SameKeeps
  <2> QED
    BY <1>2, <2>1, <2>2, <2>3, <2>4
<1>3. CASE ~ Refused(EventParams(e))
  <2>1. rows' = Updated(rows, e) /\ WriteJSON(Asks(op, u, i, b), <<e>>)
    BY <1>3 DEF Update
  <2>2. /\ response'.op = op /\ response'.user = u /\ response'.id = i
        /\ response'.asked = b /\ response'.code = "ok"
        /\ done' = done + 1
    BY <2>1, WriteJSONSays
  <2>3. /\ RowsOK' /\ rows' = [rows EXCEPT ![i] = EventParams(e)]
        /\ i \in DOMAIN rows' /\ rows'[i] = EventParams(e)
    BY <1>1, <1>3, <2>1, <2>2, UpdateKeeps, FoundIs
  <2>4. AnswerIsStored'
    BY <2>1, <2>3, AnsweredAsStored
  <2> QED
    BY <1>3, <2>2, <2>3, <2>4
<1> QED
  BY <1>2, <1>3

(* The body of PatchIsMerge.                                               *)
PatchMerges ==
    (/\ response'.op = "update" /\ response'.id \in Owned(response'.user)
     /\ ~ Malformed(response'.asked, InputKey)
     /\ DOMAIN ToPatch(response'.asked) # {}
     => \E old \in {Shown(response'.id, rows[response'.id])} :
        \E in \in {ToInput(Overlaid(old, response'.asked))} :
           LET i == response'.id
               row == EventParams(Sealed([NewEvent(response'.user, in)
                                            EXCEPT !.status = old.eventStatus],
                                         i, old.createdAt, Now)) IN
           CASE NewEventCode(in) # "ok" ->
                   response'.code = NewEventCode(in) /\ rows' = rows
             [] NewEventCode(in) = "ok" /\ Refused(row) ->
                   response'.code = "internal_error" /\ rows' = rows
             [] OTHER ->
                   response'.code = "ok" /\ rows' = [rows EXCEPT ![i] = row])

(* An answer without a write.                                              *)
LEMMA RejectKeeps ==
    ASSUME RowsOK, NEW op, NEW u, NEW i, NEW b, NEW code, code # "ok",
           Answers(Asks(op, u, i, b), code), UNCHANGED <<rows, lastId, backup>>
    PROVE  /\ RowsOK' /\ AnswerIsStored'
           /\ response'.op = op /\ response'.user = u /\ response'.id = i
           /\ response'.asked = b /\ response'.code = code
<1>1. /\ response'.op = op /\ response'.user = u /\ response'.id = i
      /\ response'.asked = b /\ response'.code = code /\ done' = done + 1
  BY AnswersSay
<1>2. AnswerIsStored'
  BY <1>1 DEF AnswerIsStored
<1>3. lastId' = lastId /\ lastId \in Nat /\ rows' = rows
  BY DEF RowsOK
<1>4. RowsOK'
  BY <1>1, <1>3, SameKeeps
<1> QED
  BY <1>1, <1>2, <1>4

(* A PATCH answers what it has stored, and merges.                         *)
LEMMA PatchStores ==
    ASSUME RowsOK, NEW u, UpdateEvent(u)
    PROVE  RowsOK' /\ AnswerIsStored' /\ PatchMerges /\ response'.op = "update"
<1>1. PICK i \in 1 .. lastId, b \in PatchBody :
        \/ /\ Malformed(b, InputKey)
           /\ Answers(Asks("update", u, i, b), "bad_request")
           /\ UNCHANGED <<rows, lastId, backup>>
        \/ /\ ~ Malformed(b, InputKey) /\ DOMAIN ToPatch(b) = {}
           /\ Answers(Asks("update", u, i, b), "validation_failed")
           /\ UNCHANGED <<rows, lastId, backup>>
        \/ /\ ~ Malformed(b, InputKey) /\ DOMAIN ToPatch(b) # {}
           /\ i \notin Owned(u)
           /\ Answers(Asks("update", u, i, b), "event_not_found")
           /\ UNCHANGED <<rows, lastId, backup>>
        \/ /\ ~ Malformed(b, InputKey) /\ DOMAIN ToPatch(b) # {}
           /\ i \in Owned(u) /\ EditCode(Found(i), ToPatch(b)) # "ok"
           /\ Answers(Asks("update", u, i, b), EditCode(Found(i), ToPatch(b)))
           /\ UNCHANGED <<rows, lastId, backup>>
        \/ /\ ~ Malformed(b, InputKey) /\ DOMAIN ToPatch(b) # {}
           /\ i \in Owned(u) /\ EditCode(Found(i), ToPatch(b)) = "ok"
           /\ Update(Asks("update", u, i, b),
                     [Edit(Found(i), ToPatch(b)) EXCEPT !.updated = Now])
  BY Zenon DEF UpdateEvent
<1>2. CASE /\ Malformed(b, InputKey)
           /\ Answers(Asks("update", u, i, b), "bad_request")
           /\ UNCHANGED <<rows, lastId, backup>>
  BY <1>2, RejectKeeps DEF PatchMerges
<1>3. CASE /\ DOMAIN ToPatch(b) = {}
           /\ Answers(Asks("update", u, i, b), "validation_failed")
           /\ UNCHANGED <<rows, lastId, backup>>
  BY <1>3, RejectKeeps DEF PatchMerges
<1>4. CASE /\ i \notin Owned(u)
           /\ Answers(Asks("update", u, i, b), "event_not_found")
           /\ UNCHANGED <<rows, lastId, backup>>
  BY <1>4, RejectKeeps DEF PatchMerges
<1>5. CASE ~ Malformed(b, InputKey) /\ i \in Owned(u)
  <2>1. PICK row, p, old, in, now, e :
          /\ row = rows[i] /\ p = ToPatch(b) /\ old = Shown(i, row)
          /\ in = ToInput(Overlaid(old, b)) /\ now = Now
          /\ e = [Edit(Found(i), p) EXCEPT !.updated = now]
    OBVIOUS
  <2>2. /\ GoodRow(row) /\ row.user_id = u /\ i \in DOMAIN rows
        /\ Found(i) = ToDomainEvent(i, row) /\ now \in Int
    BY <1>5, <2>1, FoundIs, NowIsInt
  <2>3. PICK new : new = Sealed([NewEvent(row.user_id, in)
                                   EXCEPT !.status = old.eventStatus],
                                i, old.createdAt, now)
    OBVIOUS
  <2>4. TypedBody(b)
    BY BodyAssumption DEF TypedBody
  <2>5. /\ InputOK(in) /\ EditCode(Found(i), p) = NewEventCode(in)
        /\ EventParams(e) = EventParams(new)
    BY <1>5, <2>1, <2>2, <2>3, <2>4, EditIsMerge
  <2>6. old.eventStatus \in EventStatus /\ old.createdAt = row.created_at
        /\ row.created_at \in Int
    <3>1. old.eventStatus = row.event_status /\ old.createdAt = row.created_at
      BY <2>1, <2>2, RowShows
    <3>2. row.event_status \in EventStatus /\ row.created_at \in Int
      BY <2>2 DEF GoodRow
    <3> QED
      BY <3>1, <3>2
  <2>7. CASE /\ EditCode(Found(i), p) # "ok"
             /\ Answers(Asks("update", u, i, b), EditCode(Found(i), p))
             /\ UNCHANGED <<rows, lastId, backup>>
    <3>1. /\ RowsOK' /\ AnswerIsStored' /\ response'.op = "update"
          /\ response'.user = u /\ response'.id = i /\ response'.asked = b
          /\ response'.code = NewEventCode(in)
      BY <2>5, <2>7, RejectKeeps
    <3>2. PatchMerges
      BY <2>1, <2>5, <2>7, <3>1 DEF PatchMerges
    <3> QED
      BY <3>1, <3>2
  <2>8. CASE EditCode(Found(i), p) = "ok" /\ Update(Asks("update", u, i, b), e)
    <3>1. ~ Refused(EventParams(e)) => GoodRow(EventParams(e))
      BY <2>2, <2>3, <2>5, <2>6, <2>8, StoredIsGood
    <3>2. e.id = i /\ e.user = u /\ e.created = rows[i].created_at
      <4>1. PICK f, x : f = Found(i) /\ x = Edit(f, p)
        OBVIOUS
      <4>2. /\ f = [id |-> f.id, user |-> f.user, type |-> f.type,
                    contact |-> f.contact, location |-> f.location,
                    description |-> f.description, startsAt |-> f.startsAt,
                    status |-> f.status, reminder |-> f.reminder,
                    created |-> f.created, updated |-> f.updated]
            /\ f.id = i /\ f.user = u /\ f.created = row.created_at
        BY <2>2, <4>1 DEF ToDomainEvent
      <4>3. x.id = i /\ x.user = u /\ x.created = row.created_at
            /\ DOMAIN x = DOMAIN f
        BY <4>1, <4>2, EditSays
      <4>4. e = [x EXCEPT !.updated = now]
        BY <2>1, <4>1
      <4> QED
        BY <2>1, <4>2, <4>3, <4>4
    <3>9. LateIfUnfit(e)
      <4>1. PICK f, x : f = Found(i) /\ x = Edit(f, p)
        OBVIOUS
      <4>2. f = [id |-> f.id, user |-> f.user, type |-> f.type,
                 contact |-> f.contact, location |-> f.location,
                 description |-> f.description, startsAt |-> f.startsAt,
                 status |-> f.status, reminder |-> f.reminder,
                 created |-> f.created, updated |-> f.updated]
        BY <2>2, <4>1 DEF ToDomainEvent
      <4>3. x.startsAt = IF "startsAt" \in DOMAIN p THEN Parsed(p["startsAt"])
                         ELSE f.startsAt
        BY <4>1, <4>2, EditSays
      <4>4. e = [x EXCEPT !.updated = now] /\ e.startsAt = x.startsAt
        BY <2>1, <4>1, <4>2, EditSays
      <4>5. LateIfUnfit(f)
        BY <2>2, <4>1, FoundLate
      <4> QED
        BY <4>3, <4>4, <4>5 DEF LateIfUnfit, Parsed
    <3>3. /\ RowsOK' /\ AnswerIsStored'
          /\ response'.op = "update" /\ response'.user = u /\ response'.id = i
          /\ response'.asked = b
          /\ IF Refused(EventParams(e))
             THEN response'.code = "internal_error" /\ rows' = rows
             ELSE response'.code = "ok" /\ rows' = [rows EXCEPT ![i] = EventParams(e)]
      BY <1>5, <2>8, <3>1, <3>2, <3>9, UpdateStores
    <3>4. PICK stored : stored = EventParams(new)
      OBVIOUS
    <3>5. IF Refused(stored)
          THEN response'.code = "internal_error" /\ rows' = rows
          ELSE response'.code = "ok" /\ rows' = [rows EXCEPT ![i] = stored]
      BY <2>5, <3>3, <3>4, Zenon
    <3>6. stored = EventParams(Sealed([NewEvent(u, in) EXCEPT !.status = old.eventStatus],
                                      i, old.createdAt, Now))
      BY <2>1, <2>2, <2>3, <3>4, Zenon
    <3>7. NewEventCode(in) = "ok"
      BY <2>5, <2>8
    <3>8. PatchMerges
      BY <2>1, <3>3, <3>5, <3>6, <3>7, Zenon DEF PatchMerges
    <3> QED
      BY <3>3, <3>8
  <2> QED
    BY <1>1, <1>5, <2>1, <2>7, <2>8, <1>2, <1>3, <1>4, Zenon
<1> QED
  BY <1>1, <1>2, <1>3, <1>4, <1>5, Zenon

(* A change of status answers what it has stored.                          *)
LEMMA StatusStores ==
    ASSUME RowsOK, NEW u, ChangeStatus(u)
    PROVE  RowsOK' /\ AnswerIsStored' /\ response'.op = "status"
<1>1. PICK i \in 1 .. lastId, s \in {"realizado", "", WrongType} :
        LET q == Asks("status", u, i, <<>>)
            Rejects(code) == Answers(q, code) /\ UNCHANGED <<rows, lastId, backup>> IN
        CASE s = WrongType -> Rejects("bad_request")
          [] s # WrongType /\ i \notin Owned(u) -> Rejects("event_not_found")
          [] s = "" /\ i \in Owned(u) -> Rejects("invalid_status")
          [] OTHER -> Update(q, [Found(i) EXCEPT !.status = s, !.updated = Now])
  BY DEF ChangeStatus
<1>2. ASSUME NEW code \in {"bad_request", "event_not_found", "invalid_status"},
             Answers(Asks("status", u, i, <<>>), code),
             UNCHANGED <<rows, lastId, backup>>
      PROVE  RowsOK' /\ AnswerIsStored' /\ response'.op = "status"
  BY <1>2, RejectKeeps
<1>3. CASE /\ s = "realizado" /\ i \in Owned(u)
           /\ Update(Asks("status", u, i, <<>>),
                     [Found(i) EXCEPT !.status = s, !.updated = Now])
  <2>1. PICK row, f, now, e :
          /\ row = rows[i] /\ f = ToDomainEvent(i, row) /\ now = Now
          /\ e = [f EXCEPT !.status = s, !.updated = now]
    OBVIOUS
  <2>2. /\ GoodRow(row) /\ row.user_id = u /\ i \in DOMAIN rows
        /\ Found(i) = f /\ now \in Int
    BY <1>3, <2>1, FoundIs, NowIsInt
  <2>9. f = ToDomainEvent(i, row)
    BY <2>1
  <2>11. f = [id |-> f.id, user |-> f.user, type |-> f.type,
              contact |-> f.contact, location |-> f.location,
              description |-> f.description, startsAt |-> f.startsAt,
              status |-> f.status, reminder |-> f.reminder,
              created |-> f.created, updated |-> f.updated]
    BY <2>9 DEF ToDomainEvent
  <2>12. /\ f.id = i /\ f.user = row.user_id /\ f.type = row.event_type
         /\ f.description = row.description /\ f.reminder = row.reminder_type
         /\ f.created = row.created_at
    BY <2>9 DEF ToDomainEvent
  <2>13. /\ f.contact.name = row.contact_name /\ f.contact.ref = row.contact_ref
         /\ f.location.lat = row.location_lat /\ f.location.lng = row.location_lng
         /\ f.location.label = row.location_label /\ f.startsAt.at = row.starts_at
    BY <2>9 DEF ToDomainEvent
  <2>10. e = [id |-> i, user |-> u, type |-> f.type,
              contact |-> f.contact, location |-> f.location,
              description |-> f.description, startsAt |-> f.startsAt,
              status |-> s, reminder |-> f.reminder,
              created |-> row.created_at, updated |-> now]
    <3>1. f.id = i /\ f.user = u /\ f.created = row.created_at
      BY <2>2, <2>12
    <3> QED
      BY <2>1, <2>11, <3>1
  <2>3. e.id = i /\ e.user = u /\ e.created = row.created_at
    BY <2>10
  <2>4. PICK new : new = EventParams(e)
    OBVIOUS
  <2>5. new = [user_id |-> u, event_type |-> row.event_type,
               contact_name |-> row.contact_name, contact_ref |-> row.contact_ref,
               location_lat |-> row.location_lat, location_lng |-> row.location_lng,
               location_label |-> row.location_label,
               description |-> row.description, starts_at |-> Micros(row.starts_at),
               event_status |-> s, reminder_type |-> row.reminder_type,
               created_at |-> Micros(row.created_at), updated_at |-> Micros(now)]
    BY <2>4, <2>10, <2>12, <2>13 DEF EventParams
  <2>6. GoodRow(new)
    <3>1. /\ Micros(row.starts_at) = row.starts_at
          /\ Micros(row.created_at) = row.created_at
          /\ Micros(now) \in Int /\ Micros(Micros(now)) = Micros(now)
      BY <2>2, MicrosStay DEF GoodRow
    <3>2. s \in EventStatus
      BY <1>3 DEF EventStatus
    <3>3. ~ Refused(new)
      BY <2>2, <2>5 DEF GoodRow, Refused
    <3>4. /\ new.user_id = u /\ new.event_type = row.event_type
          /\ new.contact_name = row.contact_name /\ new.contact_ref = row.contact_ref
          /\ new.location_lat = row.location_lat /\ new.location_lng = row.location_lng
          /\ new.location_label = row.location_label
          /\ new.description = row.description
          /\ new.starts_at = row.starts_at /\ new.event_status = s
          /\ new.reminder_type = row.reminder_type
          /\ new.created_at = row.created_at /\ new.updated_at = Micros(now)
      BY <2>5, <3>1
    <3>5. /\ new.event_type \in EventType /\ new.event_status \in EventStatus
          /\ new.reminder_type \in Reminder
          /\ new.location_lat \in Int /\ new.location_lng \in Int
          /\ LocationOK([lat |-> new.location_lat, lng |-> new.location_lng])
      BY <2>2, <3>2, <3>4 DEF GoodRow
    <3>6. /\ new.contact_name \notin {Null, WrongType}
          /\ new.contact_ref \notin {Null, WrongType}
          /\ new.location_label \notin {Null, WrongType}
          /\ new.description \in DOMAIN Trim /\ new.description # ""
          /\ Trim[new.description] = new.description
      BY <2>2, <3>4 DEF GoodRow
    <3>7. /\ new.starts_at \in Int /\ Micros(new.starts_at) = new.starts_at
          /\ new.created_at \in Int /\ Micros(new.created_at) = new.created_at
          /\ new.updated_at \in Int /\ Micros(new.updated_at) = new.updated_at
      BY <2>2, <3>1, <3>4 DEF GoodRow
    <3>8. new = [user_id |-> new.user_id, event_type |-> new.event_type,
                 contact_name |-> new.contact_name, contact_ref |-> new.contact_ref,
                 location_lat |-> new.location_lat, location_lng |-> new.location_lng,
                 location_label |-> new.location_label,
                 description |-> new.description, starts_at |-> new.starts_at,
                 event_status |-> new.event_status,
                 reminder_type |-> new.reminder_type,
                 created_at |-> new.created_at, updated_at |-> new.updated_at]
      BY <2>5
    <3> QED
      BY <3>3, <3>5, <3>6, <3>7, <3>8 DEF GoodRow
  <2>7. Update(Asks("status", u, i, <<>>), e)
    BY <1>3, <2>1, <2>2, Zenon
  <2>8. /\ e.created = rows[i].created_at
        /\ ~ Refused(EventParams(e)) => GoodRow(EventParams(e))
    BY <2>1, <2>3, <2>4, <2>6
  <2>14. LateIfUnfit(e)
    <3>1. e.startsAt = f.startsAt
      BY <2>10
    <3>2. LateIfUnfit(f)
      BY <2>2, <2>9, FoundLate
    <3> QED
      BY <3>1, <3>2 DEF LateIfUnfit
  <2> QED
    BY <1>3, <2>3, <2>7, <2>8, <2>14, UpdateStores
<1>4. CASE s = WrongType
  BY <1>1, <1>2, <1>4, Zenon
<1>5. CASE s # WrongType /\ i \notin Owned(u)
  BY <1>1, <1>2, <1>5, Zenon
<1>6. CASE s # WrongType /\ s = "" /\ i \in Owned(u)
  BY <1>1, <1>2, <1>6, Zenon
<1>7. CASE s # WrongType /\ s # "" /\ i \in Owned(u)
  BY <1>1, <1>3, <1>7, Zenon
<1> QED
  BY <1>4, <1>5, <1>6, <1>7

-----------------------------------------------------------------------------
(* The export.                                                             *)

(* There are n numbers from 1 to n.                                        *)
LEMMA CountIs ==
    ASSUME NEW n \in Nat
    PROVE  IsFiniteSet(1 .. n) /\ Cardinality(1 .. n) = n
<1>1. IsFiniteSet(1 .. n) /\ Cardinality(1 .. n) = IF 1 > n THEN 0 ELSE n - 1 + 1
  BY FS_Interval
<1> QED
  BY <1>1

(* The elements of a finite set can be put in a total order: the place of  *)
(* each is the number of those before it.                                  *)
LEMMA OrderExists ==
    ASSUME NEW I, IsFiniteSet(I), NEW R,
           \A i \in I : <<i, i>> \notin R,
           \A i, j \in I : i # j => <<i, j>> \in R \/ <<j, i>> \in R,
           \A i, j, k \in I : <<i, j>> \in R /\ <<j, k>> \in R => <<i, k>> \in R
    PROVE  \E s \in SetToSeqs(I) : \A a, b \in DOMAIN s : a < b => <<s[a], s[b]>> \in R
<1> DEFINE Below(i) == {j \in I : <<j, i>> \in R}
<1>1. PICK n \in Nat : n = Cardinality(I)
  BY FS_CardinalityType
<1>2. ASSUME NEW i \in I
      PROVE  IsFiniteSet(Below(i)) /\ Cardinality(Below(i)) \in 0 .. n - 1
  <2>1. PICK B : B = Below(i)
    OBVIOUS
  <2>2. B \in SUBSET I /\ i \notin B
    BY <2>1
  <2>3. /\ IsFiniteSet(B) /\ Cardinality(B) <= Cardinality(I)
        /\ Cardinality(I) = Cardinality(B) => I = B
    BY <2>2, FS_Subset
  <2>4. Cardinality(B) \in Nat
    BY <2>3, FS_CardinalityType
  <2>5. Cardinality(B) # n
    BY <1>1, <2>2, <2>3
  <2> QED
    BY <1>1, <2>1, <2>3, <2>4, <2>5
<1>3. ASSUME NEW i \in I, NEW j \in I, <<i, j>> \in R
      PROVE  Cardinality(Below(i)) < Cardinality(Below(j))
  <2>1. PICK A, B : A = Below(i) /\ B = Below(j)
    OBVIOUS
  <2>2. A \in SUBSET B /\ i \in B /\ i \notin A
    BY <1>3, <2>1
  <2>3. IsFiniteSet(B) /\ Cardinality(B) \in Nat /\ Cardinality(A) \in Nat
    BY <1>2, <2>1
  <2>4. Cardinality(A) <= Cardinality(B) /\ (Cardinality(B) = Cardinality(A) => B = A)
    BY <2>2, <2>3, FS_Subset
  <2> QED
    BY <2>1, <2>2, <2>3, <2>4
<1> HIDE DEF Below
<1> DEFINE f == [i \in I |-> Cardinality(Below(i)) + 1]
<1>4. \A i \in I : f[i] = Cardinality(Below(i)) + 1
  OBVIOUS
<1>5. f \in [I -> 1 .. n]
  <2>1. \A i \in I : Cardinality(Below(i)) + 1 \in 1 .. n
    BY <1>2
  <2> QED
    BY <2>1
<1> HIDE DEF f
<1>6. ASSUME NEW i \in I, NEW j \in I, <<i, j>> \in R
      PROVE  f[i] < f[j]
  <2>1. /\ Cardinality(Below(i)) < Cardinality(Below(j))
        /\ Cardinality(Below(i)) \in Int /\ Cardinality(Below(j)) \in Int
    BY <1>2, <1>3, <1>6
  <2> QED
    BY <1>4, <2>1
<1>7. ASSUME NEW i \in I, NEW j \in I, f[i] = f[j] PROVE i = j
  <2>1. f[i] \in Int /\ f[j] \in Int
    BY <1>5
  <2>2. ~ (f[i] < f[j]) /\ ~ (f[j] < f[i])
    BY <1>7, <2>1
  <2>3. <<i, j>> \notin R /\ <<j, i>> \notin R
    BY <1>6, <2>2
  <2> QED
    BY <2>3
<1>8. f \in Injection(I, 1 .. n)
  BY <1>5, <1>7, Fun_IsInj
<1>9. IsFiniteSet(1 .. n) /\ Cardinality(1 .. n) = n
  BY CountIs
<1>10. f \in Surjection(I, 1 .. n)
  BY <1>1, <1>8, <1>9, FS_Injection
<1>11. \A m \in 1 .. n : \E i \in I : f[i] = m
  BY <1>10, Fun_SurjectionProperties
<1>12. PICK s : s = [m \in 1 .. n |-> CHOOSE i \in I : f[i] = m]
  OBVIOUS
<1>13. s \in [1 .. n -> I] /\ \A m \in 1 .. n : f[s[m]] = m
  BY <1>11, <1>12
<1>14. \A a, b \in 1 .. n : a # b => s[a] # s[b]
  BY <1>13
<1>15. s \in SetToSeqs(I)
  BY <1>1, <1>13, <1>14 DEF SetToSeqs
<1>16. ASSUME NEW a \in DOMAIN s, NEW b \in DOMAIN s, a < b
       PROVE  <<s[a], s[b]>> \in R
  <2>1. a \in 1 .. n /\ b \in 1 .. n
    BY <1>13
  <2>2. s[a] \in I /\ s[b] \in I /\ f[s[a]] = a /\ f[s[b]] = b
    BY <1>13, <2>1
  <2>3. s[a] # s[b]
    BY <1>14, <1>16, <2>1
  <2>4. <<s[b], s[a]>> \in R => f[s[b]] < f[s[a]]
    BY <1>6, <2>2
  <2> QED
    BY <1>16, <2>1, <2>2, <2>3, <2>4
<1> QED
  BY <1>15, <1>16

(* The rows of a user, each once.                                          *)
LEMMA OrderedEnumerates ==
    ASSUME RowsOK, NEW u
    PROVE  /\ IsFiniteSet(Owned(u)) /\ Cardinality(Owned(u)) \in Nat
           /\ Ordered(u) \in [1 .. Cardinality(Owned(u)) -> Owned(u)]
           /\ \A j, k \in 1 .. Cardinality(Owned(u)) :
                 Ordered(u)[j] = Ordered(u)[k] => j = k
           /\ \A i \in Owned(u) : \E k \in 1 .. Cardinality(Owned(u)) : Ordered(u)[k] = i
<1>1. PICK I, R : /\ I = Owned(u)
                  /\ R = {p \in I \X I : Earlier(p[1], p[2])}
  OBVIOUS
<1>2. I \in SUBSET (1 .. lastId) /\ lastId \in Nat
  BY <1>1 DEF RowsOK, Owned
<1>3. IsFiniteSet(I) /\ Cardinality(I) \in Nat
  <2>1. IsFiniteSet(1 .. lastId)
    BY <1>2, FS_Interval
  <2> QED
    BY <1>2, <2>1, FS_Subset, FS_CardinalityType
<1>4. PICK n \in Nat : n = Cardinality(I)
  BY <1>3
<1>5. ASSUME NEW i \in I
      PROVE  i \in Int /\ rows[i].starts_at \in Int
  <2>1. i \in 1 .. lastId /\ i \in DOMAIN rows
    BY <1>1, <1>2 DEF Owned
  <2>2. GoodRow(rows[i])
    BY <2>1 DEF RowsOK
  <2>3. rows[i].starts_at \in Int
    BY <2>2 DEF GoodRow
  <2> QED
    BY <1>2, <2>1, <2>3
<1>6. \A i, j \in I : <<i, j>> \in R <=> Earlier(i, j)
  BY <1>1
<1>7. \A i \in I : <<i, i>> \notin R
  BY <1>5, <1>6 DEF Earlier
<1>8. \A i, j \in I : i # j => <<i, j>> \in R \/ <<j, i>> \in R
  BY <1>5, <1>6 DEF Earlier
<1>9. ASSUME NEW i \in I, NEW j \in I, NEW k \in I, <<i, j>> \in R, <<j, k>> \in R
      PROVE  <<i, k>> \in R
  BY <1>5, <1>6, <1>9 DEF Earlier
<1>10. \E s \in SetToSeqs(I) : \A a, b \in DOMAIN s : a < b => <<s[a], s[b]>> \in R
  BY <1>3, <1>7, <1>8, <1>9, OrderExists
<1>11. \E s \in SetToSeqs(I) : \A a, b \in DOMAIN s : a < b => Earlier(s[a], s[b])
  <2>1. PICK s \in SetToSeqs(I) : \A a, b \in DOMAIN s : a < b => <<s[a], s[b]>> \in R
    BY <1>10
  <2> QED
    BY <1>1, <2>1
<1>12. Ordered(u) \in SetToSeqs(I)
  BY <1>1, <1>11 DEF Ordered
<1>13. PICK s : s = Ordered(u)
  OBVIOUS
<1>14. s \in [1 .. n -> I] /\ \A a, b \in 1 .. n : a # b => s[a] # s[b]
  BY <1>4, <1>12, <1>13 DEF SetToSeqs
<1>15. s \in Injection(1 .. n, I)
  BY <1>14, Fun_IsInj
<1>16. IsFiniteSet(1 .. n) /\ Cardinality(1 .. n) = n
  BY CountIs
<1>17. s \in Surjection(1 .. n, I)
  BY <1>3, <1>4, <1>15, <1>16, FS_Injection
<1>18. \A i \in I : \E a \in 1 .. n : s[a] = i
  BY <1>17, Fun_SurjectionProperties
<1> QED
  BY <1>1, <1>3, <1>4, <1>13, <1>14, <1>18

(* The row that an event of a document shows.                              *)
RowOf(it) ==
    [user_id |-> it.userId, event_type |-> it.eventType,
     contact_name |-> it.contactName, contact_ref |-> it.contactRef,
     location_lat |-> it.locationLat, location_lng |-> it.locationLng,
     location_label |-> it.locationLabel, description |-> it.description,
     starts_at |-> it.startsAt, event_status |-> it.eventStatus,
     reminder_type |-> it.reminderType,
     created_at |-> it.createdAt, updated_at |-> it.updatedAt]

(* An event of a document: a row that was in the table, under its id.      *)
ItemOK(it) ==
    /\ it.id \in Nat
    /\ GoodRow(RowOf(it)) /\ it = Shown(it.id, RowOf(it))

(* The document that the client keeps is one that an export has answered.  *)
BackupOK ==
    backup # NoBackup =>
        /\ Len(backup) \in Nat /\ DOMAIN backup = 1 .. Len(backup)
        /\ backup = [k \in DOMAIN backup |-> backup[k]]
        /\ \A k \in DOMAIN backup : ItemOK(backup[k])
        /\ \A j, k \in DOMAIN backup : backup[j].id = backup[k].id => j = k

(* A read shows the row, whole.                                            *)
LEMMA RowIsShown ==
    ASSUME NEW row, GoodRow(row), NEW i \in Nat, NEW it, it = Shown(i, row)
    PROVE  it.id = i /\ RowOf(it) = row /\ ItemOK(it)
<1>1. /\ it.id = i /\ it.userId = row.user_id
      /\ it.createdAt = row.created_at /\ it.updatedAt = row.updated_at
      /\ it.eventType = row.event_type /\ it.contactName = row.contact_name
      /\ it.contactRef = row.contact_ref /\ it.locationLat = row.location_lat
      /\ it.locationLng = row.location_lng /\ it.locationLabel = row.location_label
      /\ it.description = row.description /\ it.startsAt = row.starts_at
      /\ it.reminderType = row.reminder_type /\ it.eventStatus = row.event_status
  BY RowShows
<1>2. row = [user_id |-> row.user_id, event_type |-> row.event_type,
             contact_name |-> row.contact_name, contact_ref |-> row.contact_ref,
             location_lat |-> row.location_lat, location_lng |-> row.location_lng,
             location_label |-> row.location_label,
             description |-> row.description, starts_at |-> row.starts_at,
             event_status |-> row.event_status, reminder_type |-> row.reminder_type,
             created_at |-> row.created_at, updated_at |-> row.updated_at]
  BY DEF GoodRow
<1>3. RowOf(it) = row
  BY <1>1, <1>2 DEF RowOf
<1> QED
  BY <1>1, <1>3 DEF ItemOK

(* A function over the first numbers is a sequence of their number.        *)
LEMMA LengthIs ==
    ASSUME NEW s, NEW n \in Nat, DOMAIN s = 1 .. n, s = [k \in DOMAIN s |-> s[k]]
    PROVE  Len(s) = n
<1>1. PICK S : S = {s[k] : k \in 1 .. n}
  OBVIOUS
<1>2. s \in [1 .. n -> S]
  BY <1>1
<1>3. s \in Seq(S)
  BY <1>2, SeqDef
<1>4. Len(s) \in Nat /\ DOMAIN s = 1 .. Len(s)
  BY <1>3, LenProperties
<1> QED
  BY <1>4

(* An export answers the rows of the user, each once, and the client keeps *)
(* them.                                                                   *)
LEMMA ExportShows ==
    ASSUME RowsOK, BackupOK, NEW u, ExportEvents(u)
    PROVE  RowsOK' /\ BackupOK' /\ ExportIsComplete' /\ response'.op = "export"
<1>1. PICK s, es, n : s = Ordered(u) /\ es = Exported(u) /\ n = Cardinality(Owned(u))
  OBVIOUS
<1>2. /\ n \in Nat /\ s \in [1 .. n -> Owned(u)]
      /\ \A j, k \in 1 .. n : s[j] = s[k] => j = k
      /\ \A i \in Owned(u) : \E k \in 1 .. n : s[k] = i
  BY <1>1, OrderedEnumerates
<1>3. /\ DOMAIN es = 1 .. n
      /\ \A k \in 1 .. n : es[k] = ToDomainEvent(s[k], rows[s[k]])
  BY <1>1, <1>2 DEF Exported, Found
<1>4. /\ WriteJSON(Asks("export", u, 0, <<>>), es)
      /\ backup' = IF response'.empty THEN backup ELSE response'.events
      /\ rows' = rows /\ lastId' = lastId
  BY <1>1 DEF ExportEvents
<1>5. /\ response'.op = "export" /\ response'.user = u
      /\ response'.empty = ~ CanEncode(es)
      /\ response'.events = IF CanEncode(es)
                            THEN [k \in DOMAIN es |-> ToEventResponse(es[k])]
                            ELSE <<>>
      /\ done' = done + 1
  BY <1>4, WriteJSONSays
<1>6. RowsOK'
  BY <1>4, <1>5, SameKeeps DEF RowsOK
<1>7. ASSUME NEW i \in Owned(u)
      PROVE  i \in Nat /\ GoodRow(rows[i]) /\ rows[i].starts_at \in Int
  <2>1. GoodRow(rows[i]) /\ i \in DOMAIN rows
    BY FoundIs
  <2>2. i \in Nat
    BY <2>1 DEF RowsOK
  <2>3. rows[i].starts_at \in Int
    BY <2>1 DEF GoodRow
  <2> QED
    BY <2>1, <2>2, <2>3
<1>8. ASSUME NEW k \in 1 .. n
      PROVE  es[k].startsAt.fits <=> ~ rows[s[k]].starts_at > LastYearEnd
  <2>1. s[k] \in Owned(u) /\ rows[s[k]].starts_at \in Int
    BY <1>2, <1>7
  <2>2. es[k].startsAt.fits = (rows[s[k]].starts_at <= LastYearEnd)
    BY <1>3 DEF ToDomainEvent
  <2>3. LastYearEnd \in Int
    BY ValueAssumption
  <2>4. (rows[s[k]].starts_at <= LastYearEnd) <=> ~ rows[s[k]].starts_at > LastYearEnd
    BY <2>1, <2>3
  <2> QED
    BY <2>2, <2>4
<1>9. response'.empty <=> \E i \in Owned(u) : rows[i].starts_at > LastYearEnd
  <2>1. CanEncode(es) <=> \A k \in 1 .. n : es[k].startsAt.fits
    BY <1>3 DEF CanEncode
  <2>2. CanEncode(es) <=> \A k \in 1 .. n : ~ rows[s[k]].starts_at > LastYearEnd
    BY <1>8, <2>1
  <2>3. (\E k \in 1 .. n : rows[s[k]].starts_at > LastYearEnd)
          <=> \E i \in Owned(u) : rows[i].starts_at > LastYearEnd
    BY <1>2
  <2> QED
    BY <1>5, <2>2, <2>3
<1>10. ASSUME CanEncode(es)
       PROVE  /\ ~ response'.empty
              /\ DOMAIN response'.events = 1 .. n /\ Len(response'.events) = n
              /\ response'.events = [k \in DOMAIN response'.events |-> response'.events[k]]
              /\ \A k \in 1 .. n : response'.events[k] = Shown(s[k], rows[s[k]])
  <2>1. PICK d : d = response'.events
    OBVIOUS
  <2>2. d = [k \in 1 .. n |-> ToEventResponse(es[k])]
    BY <1>3, <1>5, <1>10, <2>1
  <2>3. DOMAIN d = 1 .. n /\ d = [k \in DOMAIN d |-> d[k]]
        /\ \A k \in 1 .. n : d[k] = Shown(s[k], rows[s[k]])
    BY <1>3, <2>2 DEF Shown
  <2>4. Len(d) = n
    BY <1>2, <2>3, LengthIs
  <2> QED
    BY <1>5, <1>10, <2>1, <2>3, <2>4
<1>11. CASE CanEncode(es)
  <2>1. ToSet(response'.events) = {Shown(i, rows[i]) : i \in Owned(u)}
    <3>1. ToSet(response'.events) = {response'.events[k] : k \in 1 .. n}
      BY <1>10, <1>11 DEF ToSet
    <3>2. ASSUME NEW k \in 1 .. n
          PROVE  response'.events[k] \in {Shown(i, rows[i]) : i \in Owned(u)}
      BY <1>2, <1>10, <1>11
    <3>3. ASSUME NEW i \in Owned(u)
          PROVE  Shown(i, rows[i]) \in {response'.events[k] : k \in 1 .. n}
      BY <1>2, <1>10, <1>11
    <3> QED
      BY <3>1, <3>2, <3>3
  <2>2. ExportIsComplete'
    <3>1. (Owned(response.user))' = Owned(u)
      BY <1>4, <1>5 DEF Owned
    <3>2. /\ response'.empty <=> \E i \in Owned(u) : rows'[i].starts_at > LastYearEnd
          /\ Len(response'.events) = Cardinality(Owned(u))
          /\ ToSet(response'.events) = {Shown(i, rows'[i]) : i \in Owned(u)}
      BY <1>1, <1>4, <1>9, <1>10, <1>11, <2>1
    <3> QED
      BY <3>1, <3>2 DEF ExportIsComplete, Shown, ToEventResponse, ToDomainEvent
  <2>3. backup' = response'.events
    BY <1>4, <1>10, <1>11
  <2>4. ASSUME NEW k \in 1 .. n
        PROVE  backup'[k].id = s[k] /\ ItemOK(backup'[k])
    <3>1. PICK i, row, it : i = s[k] /\ row = rows[i] /\ it = backup'[k]
      OBVIOUS
    <3>2. i \in Nat /\ GoodRow(row) /\ it = Shown(i, row)
      BY <1>2, <1>7, <1>10, <1>11, <2>3, <3>1
    <3> QED
      BY <3>1, <3>2, RowIsShown
  <2>5. BackupOK'
    <3>1. /\ Len(backup') = n /\ DOMAIN backup' = 1 .. n
          /\ backup' = [k \in DOMAIN backup' |-> backup'[k]]
      BY <1>10, <1>11, <2>3
    <3>2. \A j, k \in 1 .. n : backup'[j].id = backup'[k].id => j = k
      BY <1>2, <2>4
    <3>3. \A k \in 1 .. n : ItemOK(backup'[k])
      BY <2>4
    <3> QED
      BY <1>2, <3>1, <3>2, <3>3 DEF BackupOK
  <2> QED
    BY <1>5, <1>6, <2>2, <2>5
<1>12. CASE ~ CanEncode(es)
  <2>1. response'.empty /\ backup' = backup
    BY <1>4, <1>5, <1>12
  <2>2. BackupOK'
    BY <2>1 DEF BackupOK
  <2>3. ExportIsComplete'
    <3>1. (Owned(response.user))' = Owned(u)
      BY <1>4, <1>5 DEF Owned
    <3> QED
      BY <1>4, <1>9, <2>1, <3>1 DEF ExportIsComplete
  <2> QED
    BY <1>5, <1>6, <2>2, <2>3
<1> QED
  BY <1>11, <1>12

-----------------------------------------------------------------------------
(* The handlers that write no event.                                       *)

(* A request that leaves the client's document alone.                      *)
LEMMA BackupKeeps ==
    ASSUME BackupOK, backup' = backup
    PROVE  BackupOK'
BY DEF BackupOK

(* What is refused before the repository, a read and a delete.             *)
LEMMA OthersKeep ==
    ASSUME RowsOK, NEW u,
           BodyTooLarge(u) \/ GetEvent(u) \/ DeleteEvent(u) \/ ImportRefused(u)
    PROVE  /\ RowsOK' /\ AnswerIsStored'
           /\ response'.op \in {"create", "get", "update", "status", "delete", "import"}
           /\ response'.op = "update" => response'.id = 0
           /\ response'.op = "import" => response'.asked = NoBackup
           /\ backup' = backup
<1>1. CASE BodyTooLarge(u) \/ ImportRefused(u)
  <2>1. PICK op \in {"create", "update", "status", "import"},
             code \in {"payload_too_large", "bad_request", "validation_failed"} :
          Answers(Asks(op, u, 0, NoBackup), code)
    BY <1>1 DEF BodyTooLarge, ImportRefused
  <2>2. UNCHANGED <<rows, lastId, backup>>
    BY <1>1 DEF BodyTooLarge, ImportRefused
  <2>3. code # "ok"
    BY <2>1
  <2>4. /\ RowsOK' /\ AnswerIsStored' /\ response'.op = op /\ response'.id = 0
        /\ response'.asked = NoBackup
    BY <2>1, <2>2, <2>3, RejectKeeps
  <2> QED
    BY <2>1, <2>2, <2>4
<1>2. CASE GetEvent(u)
  <2>1. PICK i \in 1 .. lastId :
          \/ WriteJSON(Asks("get", u, i, <<>>), <<Found(i)>>)
          \/ Answers(Asks("get", u, i, <<>>), "event_not_found")
    BY <1>2, Zenon DEF GetEvent
  <2>2. rows' = rows /\ lastId' = lastId /\ backup' = backup
    BY <1>2 DEF GetEvent
  <2>3. response'.op = "get" /\ done' = done + 1
    <3>1. CASE WriteJSON(Asks("get", u, i, <<>>), <<Found(i)>>)
      BY <3>1, WriteJSONSays
    <3>2. CASE Answers(Asks("get", u, i, <<>>), "event_not_found")
      BY <3>2, AnswersSay
    <3> QED
      BY <2>1, <3>1, <3>2
  <2>4. RowsOK'
    BY <2>2, <2>3, SameKeeps DEF RowsOK
  <2> QED
    BY <2>2, <2>3, <2>4 DEF AnswerIsStored
<1>3. CASE DeleteEvent(u)
  <2>1. PICK i \in 1 .. lastId :
          IF i \in Owned(u)
          THEN Answers(Asks("delete", u, i, <<>>), "ok")
               /\ rows' = [x \in DOMAIN rows \ {i} |-> rows[x]]
          ELSE Answers(Asks("delete", u, i, <<>>), "event_not_found") /\ rows' = rows
    BY <1>3, Zenon DEF DeleteEvent
  <2>2. lastId' = lastId /\ backup' = backup
    BY <1>3 DEF DeleteEvent
  <2>3. response'.op = "delete" /\ done' = done + 1
    BY <2>1, AnswersSay
  <2>4. CASE rows' = rows
    BY <2>2, <2>3, <2>4, SameKeeps DEF RowsOK, AnswerIsStored
  <2>5. CASE rows' = [x \in DOMAIN rows \ {i} |-> rows[x]]
    <3>1. /\ lastId' \in Nat /\ done' \in Nat /\ DOMAIN rows' \subseteq 1 .. lastId'
          /\ rows' = [x \in DOMAIN rows' |-> rows'[x]]
      BY <2>2, <2>3, <2>5 DEF RowsOK
    <3>2. \A x \in DOMAIN rows' : GoodRow(rows'[x])
      BY <2>5 DEF RowsOK
    <3>3. RowsOK'
      BY <3>1, <3>2 DEF RowsOK
    <3> QED
      BY <2>2, <2>3, <3>3 DEF AnswerIsStored
  <2> QED
    BY <2>1, <2>4, <2>5
<1> QED
  BY <1>1, <1>2, <1>3

-----------------------------------------------------------------------------
(* The import.                                                             *)

(* The first of two checks that fails decides.                             *)
LEMMA FirstOfTwo ==
    ASSUME NEW a \in BOOLEAN, NEW b \in BOOLEAN, NEW p, NEW q
    PROVE  FirstFailed(<<Check(a, p), Check(b, q)>>)
             = IF ~ a THEN p ELSE IF ~ b THEN q ELSE "ok"
<1> DEFINE cs == <<Check(a, p), Check(b, q)>>
           Failed(k) == ~ cs[k].holds /\ \A j \in 1 .. k - 1 : cs[j].holds
<1>1. DOMAIN cs = {1, 2} /\ cs[1] = Check(a, p) /\ cs[2] = Check(b, q)
  OBVIOUS
<1>2. /\ cs[1].holds = a /\ cs[2].holds = b /\ cs[1].code = p /\ cs[2].code = q
  BY <1>1 DEF Check
<1> HIDE DEF cs
<1>3. FirstFailed(cs) = IF \A k \in {1, 2} : cs[k].holds THEN "ok"
                        ELSE cs[CHOOSE k \in {1, 2} : Failed(k)].code
  BY <1>1 DEF FirstFailed
<1>4. Failed(1) <=> ~ a
  BY <1>2
<1>5. Failed(2) <=> a /\ ~ b
  <2>1. \A j : j \in 1 .. 2 - 1 <=> j = 1
    OBVIOUS
  <2> QED
    BY <1>2, <2>1
<1> HIDE DEF Failed
<1>6. CASE a /\ b
  BY <1>2, <1>3, <1>6 DEF cs
<1>7. CASE ~ a
  <2>1. (CHOOSE k \in {1, 2} : Failed(k)) = 1
    BY <1>4, <1>5, <1>7
  <2>2. ~ cs[1].holds
    BY <1>2, <1>7
  <2> QED
    BY <1>2, <1>3, <1>7, <2>1, <2>2 DEF cs
<1>8. CASE a /\ ~ b
  <2>1. (CHOOSE k \in {1, 2} : Failed(k)) = 2
    BY <1>4, <1>5, <1>8
  <2>2. ~ cs[2].holds
    BY <1>2, <1>8
  <2> QED
    BY <1>2, <1>3, <1>8, <2>1, <2>2 DEF cs
<1> QED
  BY <1>6, <1>7, <1>8

(* An item is prepared when it makes an event and its status, if any, is   *)
(* one.                                                                    *)
LEMMA ItemSays ==
    ASSUME NEW it
    PROVE  ItemCode(it) = "ok" <=>
             /\ NewEventCode(ToInput(it)) = "ok"
             /\ Brings(it, "eventStatus") => it["eventStatus"] \in EventStatus
<1>1. PICK code : code = NewEventCode(ToInput(it))
  OBVIOUS
<1> DEFINE a == code = "ok"
           b == Brings(it, "eventStatus") => it["eventStatus"] \in EventStatus
<1>2. a \in BOOLEAN /\ b \in BOOLEAN
  OBVIOUS
<1>3. ItemCode(it) = FirstFailed(<<Check(a, code), Check(b, "invalid_status")>>)
  BY <1>1 DEF ItemCode
<1> HIDE DEF a, b
<1>4. ItemCode(it) = IF ~ a THEN code ELSE IF ~ b THEN "invalid_status" ELSE "ok"
  BY <1>2, <1>3, FirstOfTwo
<1> QED
  BY <1>1, <1>4 DEF a, b

(* The event of a prepared item.                                           *)
LEMMA ItemPrepared ==
    ASSUME RowsOK, NEW u, NEW it, TypedBody(it), ~ Malformed(it, ItemKey),
           ItemCode(it) = "ok", NEW i, NEW created \in Int,
           NEW e, e = Sealed(ItemEvent(u, it), i, created, Now)
    PROVE  /\ e.id = i /\ e.user = u /\ e.created = created
           /\ ~ Refused(EventParams(e)) => GoodRow(EventParams(e))
<1>1. PICK in, s, new, now :
        /\ in = ToInput(it) /\ new = NewEvent(u, in) /\ now = Now
        /\ s = IF Brings(it, "eventStatus") THEN it["eventStatus"] ELSE "pendiente"
  OBVIOUS
<1>2. InputOK(in) /\ NewEventCode(in) = "ok" /\ s \in EventStatus /\ now \in Int
  <2>1. ~ Malformed(it, InputKey)
    BY DEF Malformed, ItemKey, ContentKey
  <2>2. InputOK(in)
    BY <1>1, <2>1, DecodesTyped
  <2>3. NewEventCode(in) = "ok" /\ s \in EventStatus
    BY <1>1, ItemSays DEF EventStatus
  <2> QED
    BY <1>1, <2>2, <2>3, NowIsInt
<1>3. PICK f : f = [new EXCEPT !.status = s]
  OBVIOUS
<1>4. ItemEvent(u, it) = f
  BY <1>1, <1>3 DEF ItemEvent, NewEvent
<1>5. e = Sealed([NewEvent(u, in) EXCEPT !.status = s], i, created, now)
  BY <1>1, <1>3, <1>4, Zenon
<1>6. ~ Refused(EventParams(e)) => GoodRow(EventParams(e))
  BY <1>2, <1>5, StoredIsGood
<1>7. e = [f EXCEPT !.id = i, !.created = created, !.updated = now]
  BY <1>1, <1>4, Zenon DEF Sealed
<1>8. f = [id |-> 0, user |-> u, type |-> in.type, contact |-> in.contact,
           location |-> in.location, description |-> Trim[in.description],
           startsAt |-> in.startsAt, status |-> s,
           reminder |-> in.reminder, created |-> 0, updated |-> 0]
  BY <1>1, <1>3 DEF NewEvent
<1>9. e.id = i /\ e.user = u /\ e.created = created
  BY <1>7, <1>8
<1> QED
  BY <1>6, <1>9

(* The place of each member of a set of numbers.                           *)
Place(N) == [k \in N |-> Cardinality({j \in N : j <= k})]

(* Counting the members of a set of positions up to each of them numbers   *)
(* them from 1 on.                                                         *)
LEMMA Numbered ==
    ASSUME NEW N, N \subseteq Int, IsFiniteSet(N)
    PROVE  /\ Cardinality(N) \in Nat
           /\ \A k \in N : Place(N)[k] \in 1 .. Cardinality(N)
           /\ \A j, k \in N : Place(N)[j] = Place(N)[k] => j = k
           /\ \A m \in 1 .. Cardinality(N) : \E k \in N : Place(N)[k] = m
<1> DEFINE c == Place(N)
<1>1. Cardinality(N) \in Nat
  BY FS_CardinalityType
<1>2. PICK card \in Nat : card = Cardinality(N)
  BY <1>1
<1> DEFINE Upto(k) == {x \in N : x <= k}
<1>3. ASSUME NEW k \in N
      PROVE  IsFiniteSet(Upto(k)) /\ Cardinality(Upto(k)) \in 1 .. card
  <2>1. PICK B : B = Upto(k)
    OBVIOUS
  <2>2. k \in Int
    OBVIOUS
  <2>3. B \in SUBSET N /\ k \in B
    BY <2>1, <2>2
  <2>4. IsFiniteSet(B) /\ Cardinality(B) <= Cardinality(N) /\ Cardinality(B) \in Nat
    BY <1>1, <2>3, FS_Subset, FS_CardinalityType
  <2>5. Cardinality(B) # 0
    BY <2>3, <2>4, FS_EmptySet
  <2> QED
    BY <1>2, <2>1, <2>4, <2>5
<1>4. ASSUME NEW j \in N, NEW k \in N, j < k
      PROVE  Cardinality(Upto(j)) < Cardinality(Upto(k))
  <2>1. PICK A, B : A = Upto(j) /\ B = Upto(k)
    OBVIOUS
  <2>2. j \in Int /\ k \in Int
    OBVIOUS
  <2>3. A \in SUBSET B /\ k \in B /\ k \notin A
    <3>1. \A x \in N : x <= j => x <= k
      BY <1>4, <2>2
    <3>2. k <= k /\ ~ (k <= j)
      BY <1>4, <2>2
    <3> QED
      BY <2>1, <3>1, <3>2
  <2>4. IsFiniteSet(B) /\ Cardinality(B) \in Nat /\ Cardinality(A) \in Nat
    BY <1>3, <2>1
  <2>5. Cardinality(A) <= Cardinality(B) /\ (Cardinality(B) = Cardinality(A) => B = A)
    BY <2>3, <2>4, FS_Subset
  <2> QED
    BY <2>1, <2>3, <2>4, <2>5
<1>5. DOMAIN c = N /\ c = [k \in N |-> c[k]]
      /\ \A k \in N : c[k] = Cardinality(Upto(k))
  BY DEF Place
<1> HIDE DEF Upto, c
<1>6. c \in [N -> 1 .. card]
  BY <1>3, <1>5
<1>7. ASSUME NEW j \in N, NEW k \in N, c[j] = c[k] PROVE j = k
  <2>1. j \in Int /\ k \in Int /\ c[j] \in Int /\ c[k] \in Int
    BY <1>6
  <2>2. ~ (j < k)
    BY <1>4, <1>5, <1>7, <2>1
  <2>3. ~ (k < j)
    BY <1>4, <1>5, <1>7, <2>1
  <2> QED
    BY <2>1, <2>2, <2>3
<1>8. c \in Injection(N, 1 .. card)
  BY <1>6, <1>7, Fun_IsInj
<1>9. IsFiniteSet(1 .. card) /\ Cardinality(1 .. card) = card
  BY CountIs
<1>10. c \in Surjection(N, 1 .. card)
  BY <1>2, <1>8, <1>9, FS_Injection
<1>11. \A m \in 1 .. card : \E k \in N : c[k] = m
  BY <1>10, Fun_SurjectionProperties
<1> QED
  BY <1>1, <1>2, <1>6, <1>7, <1>11 DEF c

(* A document of items that decode.                                        *)
DocOK(doc) ==
    /\ Len(doc) \in Nat /\ DOMAIN doc = 1 .. Len(doc)
    /\ \A k \in DOMAIN doc : TypedBody(doc[k]) /\ ~ Malformed(doc[k], ItemKey)

(* The items that take a new id.                                           *)
Fresh(ready) == {k \in DOMAIN ready : ready[k].id > lastId}

(* The valid items make events of the user that the table takes or refuses *)
(* for a NUL.                                                              *)
EventsOK(u, doc, ready) ==
    /\ DOMAIN ready = {k \in DOMAIN doc : ItemCode(doc[k]) = "ok"}
    /\ \A k \in DOMAIN ready :
          /\ ready[k].user = u /\ ready[k].created \in Int
          /\ ready[k] = Sealed(ItemEvent(u, doc[k]), ready[k].id, ready[k].created, Now)
          /\ ~ Refused(EventParams(ready[k])) => GoodRow(EventParams(ready[k]))

(* An item that names an event of the user is written over it.             *)
OwnOK(u, doc, ready) ==
    \A k \in DOMAIN ready \ Fresh(ready) :
        /\ ready[k].id = OwnId(u, doc[k]) /\ ready[k].id \in Owned(u)
        /\ ready[k].created = rows[ready[k].id].created_at

(* The others take the next ids, each of them once.                        *)
FreshOK(u, doc, ready) ==
    /\ Cardinality(Fresh(ready)) \in Nat
    /\ Fresh(ready) = {k \in DOMAIN ready : OwnId(u, doc[k]) = 0}
    /\ \A k \in Fresh(ready) :
          ready[k].id \in lastId + 1 .. lastId + Cardinality(Fresh(ready))
    /\ \A j, k \in Fresh(ready) : ready[j].id = ready[k].id => j = k
    /\ \A m \in lastId + 1 .. lastId + Cardinality(Fresh(ready)) :
          \E k \in Fresh(ready) : ready[k].id = m

(* What PreparedItems makes of a document.                                 *)
LEMMA PreparedSays ==
    ASSUME RowsOK, NEW u, NEW doc, DocOK(doc),
           NEW ready, ready = PreparedItems(u, doc)
    PROVE  EventsOK(u, doc, ready) /\ OwnOK(u, doc, ready) /\ FreshOK(u, doc, ready)
<1> DEFINE fresh == Fresh(ready)
<1>1. PICK n, valid, N :
        /\ n = Len(doc) /\ n \in Nat
        /\ valid = {k \in DOMAIN doc : ItemCode(doc[k]) = "ok"}
        /\ N = {k \in valid : OwnId(u, doc[k]) = 0}
  BY DEF DocOK
<1>2. DOMAIN doc = 1 .. n /\ valid \subseteq 1 .. n /\ N \in SUBSET (1 .. n)
  BY <1>1 DEF DocOK
<1>3. PICK c : c = Place(N)
  OBVIOUS
<1>4. /\ Cardinality(N) \in Nat
      /\ \A k \in N : c[k] \in 1 .. Cardinality(N)
      /\ \A j, k \in N : c[j] = c[k] => j = k
      /\ \A m \in 1 .. Cardinality(N) : \E k \in N : c[k] = m
  <2>1. IsFiniteSet(1 .. n)
    BY <1>1, FS_Interval
  <2>2. IsFiniteSet(N)
    BY <1>2, <2>1, FS_Subset
  <2>3. N \subseteq Int
    BY <1>2
  <2>4. /\ Cardinality(N) \in Nat
        /\ \A k \in N : Place(N)[k] \in 1 .. Cardinality(N)
        /\ \A j, k \in N : Place(N)[j] = Place(N)[k] => j = k
        /\ \A m \in 1 .. Cardinality(N) : \E k \in N : Place(N)[k] = m
    BY <2>2, <2>3, Numbered
  <2> QED
    BY <1>3, <2>4
<1>5. lastId \in Nat /\ Now \in Int
  BY NowIsInt DEF RowsOK
<1>6. DOMAIN ready = valid
  BY <1>1 DEF PreparedItems
<1>7. ASSUME NEW k \in N
      PROVE  ready[k] = Sealed(ItemEvent(u, doc[k]), lastId + c[k], Now, Now)
  <2>1. {j \in valid : j <= k /\ OwnId(u, doc[j]) = 0} = {j \in N : j <= k}
    BY <1>1
  <2>2. c[k] = Cardinality({j \in valid : j <= k /\ OwnId(u, doc[j]) = 0})
    BY <1>3, <2>1 DEF Place
  <2>3. k \in valid /\ OwnId(u, doc[k]) = 0
    BY <1>1
  <2> QED
    BY <1>1, <2>2, <2>3 DEF PreparedItems
<1>8. ASSUME NEW k \in valid \ N
      PROVE  ready[k] = Sealed(ItemEvent(u, doc[k]), OwnId(u, doc[k]),
                               rows[OwnId(u, doc[k])].created_at, Now)
  <2>1. k \in valid /\ OwnId(u, doc[k]) # 0
    BY <1>1
  <2> QED
    BY <1>1, <2>1 DEF PreparedItems
<1>9. ASSUME NEW k \in valid
      PROVE  TypedBody(doc[k]) /\ ~ Malformed(doc[k], ItemKey) /\ ItemCode(doc[k]) = "ok"
  BY <1>1, <1>2 DEF DocOK
<1>10. ASSUME NEW k \in N
       PROVE  /\ ready[k].id = lastId + c[k] /\ ready[k].created = Now
              /\ ready[k].user = u
              /\ ~ Refused(EventParams(ready[k])) => GoodRow(EventParams(ready[k]))
  <2>1. PICK it, i, e : it = doc[k] /\ i = lastId + c[k] /\ e = ready[k]
    OBVIOUS
  <2>2. e = Sealed(ItemEvent(u, it), i, Now, Now)
    BY <1>7, <2>1
  <2>3. TypedBody(it) /\ ~ Malformed(it, ItemKey) /\ ItemCode(it) = "ok"
    BY <1>1, <1>9, <2>1
  <2>4. /\ e.id = i /\ e.user = u /\ e.created = Now
        /\ ~ Refused(EventParams(e)) => GoodRow(EventParams(e))
    BY <1>5, <2>2, <2>3, ItemPrepared
  <2> QED
    BY <2>1, <2>4
<1>11. ASSUME NEW k \in valid \ N
       PROVE  /\ ready[k].id = OwnId(u, doc[k])
              /\ OwnId(u, doc[k]) \in Owned(u)
              /\ ready[k].created = rows[OwnId(u, doc[k])].created_at
              /\ ready[k].user = u
              /\ ~ Refused(EventParams(ready[k])) => GoodRow(EventParams(ready[k]))
  <2>1. PICK it, i, e : it = doc[k] /\ i = OwnId(u, it) /\ e = ready[k]
    OBVIOUS
  <2>2. PICK created : created = rows[i].created_at
    OBVIOUS
  <2>3. e = Sealed(ItemEvent(u, it), i, created, Now)
    BY <1>8, <2>1, <2>2
  <2>4. TypedBody(it) /\ ~ Malformed(it, ItemKey) /\ ItemCode(it) = "ok"
    BY <1>9, <2>1
  <2>5. i \in Owned(u)
    BY <1>1, <2>1 DEF OwnId
  <2>6. created \in Int
    <3>1. GoodRow(rows[i])
      BY <2>5, FoundIs
    <3> QED
      BY <2>2, <3>1 DEF GoodRow
  <2>7. /\ e.id = i /\ e.user = u /\ e.created = created
        /\ ~ Refused(EventParams(e)) => GoodRow(EventParams(e))
    BY <2>3, <2>4, <2>6, ItemPrepared
  <2> QED
    BY <2>1, <2>2, <2>5, <2>7
<1>12. fresh = N
  <2>1. \A k \in N : ready[k].id > lastId
    <3>1. \A k \in N : c[k] >= 1 /\ c[k] \in Int
      BY <1>4
    <3> QED
      BY <1>5, <1>10, <3>1
  <2>2. \A k \in valid \ N : ~ ready[k].id > lastId
    <3>1. \A i \in Owned(u) : i \in Int /\ i <= lastId
      BY <1>5 DEF RowsOK, Owned
    <3> QED
      BY <1>5, <1>11, <3>1
  <2> QED
    BY <1>1, <1>6, <2>1, <2>2 DEF Fresh
<1> HIDE DEF fresh
<1>13. ASSUME NEW k \in fresh
       PROVE  ready[k].id \in lastId + 1 .. lastId + Cardinality(fresh)
  <2>1. c[k] \in 1 .. Cardinality(N) /\ ready[k].id = lastId + c[k]
    BY <1>4, <1>10, <1>12
  <2>2. PICK card \in Nat : card = Cardinality(fresh) /\ card = Cardinality(N)
    BY <1>4, <1>12
  <2>3. lastId + c[k] \in lastId + 1 .. lastId + card
    BY <1>5, <2>1, <2>2
  <2> QED
    BY <2>1, <2>2, <2>3
<1>14. \A j, k \in fresh : ready[j].id = ready[k].id => j = k
  BY <1>4, <1>5, <1>10, <1>12
<1>15. ASSUME NEW m \in lastId + 1 .. lastId + Cardinality(fresh)
       PROVE  \E k \in fresh : ready[k].id = m
  <2>1. m - lastId \in 1 .. Cardinality(N)
    BY <1>4, <1>5, <1>12
  <2>2. PICK k \in N : c[k] = m - lastId
    BY <1>4, <2>1
  <2>3. m \in Int /\ c[k] \in Int
    BY <1>4, <1>5, <1>12
  <2> QED
    BY <1>5, <1>10, <1>12, <2>2, <2>3
<1>16. ASSUME NEW k \in valid
       PROVE  /\ ready[k].user = u /\ ready[k].created \in Int
              /\ ready[k] = Sealed(ItemEvent(u, doc[k]), ready[k].id, ready[k].created, Now)
              /\ ~ Refused(EventParams(ready[k])) => GoodRow(EventParams(ready[k]))
  <2>1. CASE k \in N
    BY <1>5, <1>7, <1>10, <2>1
  <2>2. CASE k \notin N
    <3>1. k \in valid \ N
      BY <2>2
    <3>2. PICK i : i = OwnId(u, doc[k])
      OBVIOUS
    <3>3. i \in Owned(u) /\ GoodRow(rows[i]) /\ ready[k].created = rows[i].created_at
      BY <1>11, <3>1, <3>2, FoundIs
    <3>4. rows[i].created_at \in Int
      BY <3>3 DEF GoodRow
    <3> QED
      BY <1>8, <1>11, <3>1, <3>3, <3>4
  <2> QED
    BY <2>1, <2>2
<1>17. \A k \in valid \ N : ready[k].id = OwnId(u, doc[k]) /\ ready[k].id \in Owned(u)
                            /\ ready[k].created = rows[ready[k].id].created_at
  BY <1>11
<1> QED
  <2>1. EventsOK(u, doc, ready)
    BY <1>1, <1>6, <1>16 DEF EventsOK
  <2>2. OwnOK(u, doc, ready)
    BY <1>6, <1>12, <1>17 DEF OwnOK, fresh
  <2>3. FreshOK(u, doc, ready)
    BY <1>1, <1>4, <1>6, <1>12, <1>13, <1>14, <1>15 DEF FreshOK, fresh
  <2> QED
    BY <2>1, <2>2, <2>3

(* A finite set of numbers that is not empty has a last one.               *)
LEMMA LastExists ==
    ASSUME NEW T, T \subseteq Int, IsFiniteSet(T), T # {}
    PROVE  \E x \in T : \A y \in T : y <= x
<1>1. PICK R : R = {p \in T \X T : p[1] < p[2]}
  OBVIOUS
<1>2. \A x \in T : x \in Int
  OBVIOUS
<1>3. \A i, j \in T : <<i, j>> \in R <=> i < j
  BY <1>1
<1>4. /\ \A i \in T : <<i, i>> \notin R
      /\ \A i, j \in T : i # j => <<i, j>> \in R \/ <<j, i>> \in R
      /\ \A i, j, k \in T : <<i, j>> \in R /\ <<j, k>> \in R => <<i, k>> \in R
  BY <1>2, <1>3
<1>5. PICK s \in SetToSeqs(T) : \A a, b \in DOMAIN s : a < b => <<s[a], s[b]>> \in R
  BY <1>4, OrderExists
<1>6. PICK n \in Nat : n = Cardinality(T)
  BY FS_CardinalityType
<1>7. n # 0
  BY <1>6, FS_EmptySet
<1>8. s \in [1 .. n -> T] /\ \A a, b \in 1 .. n : a # b => s[a] # s[b]
  BY <1>5, <1>6 DEF SetToSeqs
<1>9. s \in Injection(1 .. n, T)
  BY <1>8, Fun_IsInj
<1>10. IsFiniteSet(1 .. n) /\ Cardinality(1 .. n) = n
  BY CountIs
<1>11. s \in Surjection(1 .. n, T)
  BY <1>6, <1>9, <1>10, FS_Injection
<1>12. \A x \in T : \E a \in 1 .. n : s[a] = x
  BY <1>11, Fun_SurjectionProperties
<1>13. n \in 1 .. n /\ s[n] \in T
  BY <1>7, <1>8
<1>14. ASSUME NEW y \in T PROVE y <= s[n]
  <2>1. PICK a \in 1 .. n : s[a] = y
    BY <1>12
  <2>2. CASE a = n
    BY <1>2, <1>13, <2>1, <2>2
  <2>3. CASE a # n
    <3>1. a < n
      BY <2>3
    <3>2. <<s[a], s[n]>> \in R
      BY <1>5, <1>8, <1>13, <3>1
    <3>3. y < s[n]
      BY <1>3, <1>13, <2>1, <3>2
    <3>4. y \in Int /\ s[n] \in Int
      BY <1>2, <1>13
    <3> QED
      BY <3>3, <3>4
  <2> QED
    BY <2>2, <2>3
<1> QED
  BY <1>13, <1>14

(* The table t after the writes of some prepared events.                   *)
WritesOK(ready, written, t) ==
    LET ids == {ready[k].id : k \in written} IN
    /\ DOMAIN t = DOMAIN rows \cup ids /\ t = [i \in DOMAIN t |-> t[i]]
    /\ \A i \in ids : \E k \in written :
          ready[k].id = i /\ t[i] = EventParams(ready[k])
    /\ \A i \in DOMAIN rows \ ids : t[i] = rows[i]

(* The writes of prepared events that the table does not refuse: of those  *)
(* under one id, the last one decides.                                     *)
LEMMA ImportedIs ==
    ASSUME RowsOK, NEW u, NEW doc, DocOK(doc),
           NEW ready, ready = PreparedItems(u, doc),
           NEW written, written \subseteq DOMAIN ready,
           \A k \in written : ~ Refused(EventParams(ready[k]))
    PROVE  WritesOK(ready, written, Imported(ready, written))
<1>0. PICK ids, t : ids = {ready[k].id : k \in written} /\ t = Imported(ready, written)
  OBVIOUS
<1> DEFINE IsLast(k, i) == /\ ready[k].id = i
                           /\ \A j \in written : ready[j].id = i => j <= k
           last(i) == CHOOSE k \in written : IsLast(k, i)
<1>1. t = [i \in DOMAIN rows \cup ids |->
             IF i \in ids THEN Write(rows, ready[last(i)])[i] ELSE rows[i]]
  BY <1>0 DEF Imported
<1>2. IsFiniteSet(written) /\ written \subseteq Int
  <2>1. DOMAIN ready \subseteq 1 .. Len(doc) /\ Len(doc) \in Nat
    BY DEF DocOK, PreparedItems
  <2>2. IsFiniteSet(1 .. Len(doc))
    BY <2>1, FS_Interval
  <2>3. written \in SUBSET (1 .. Len(doc))
    BY <2>1
  <2>4. IsFiniteSet(written)
    BY <2>2, <2>3, FS_Subset
  <2> QED
    BY <2>1, <2>3, <2>4
<1>3. ASSUME NEW i \in ids
      PROVE  last(i) \in written /\ ready[last(i)].id = i
  <2>1. PICK T : T = {k \in written : ready[k].id = i}
    OBVIOUS
  <2>2. T \in SUBSET written /\ T # {}
    BY <1>0, <2>1
  <2>3. T \subseteq Int /\ IsFiniteSet(T)
    BY <1>2, <2>2, FS_Subset
  <2>4. PICK k \in T : \A j \in T : j <= k
    BY <2>2, <2>3, LastExists
  <2>5. k \in written /\ IsLast(k, i)
    BY <2>1, <2>4
  <2> HIDE DEF IsLast
  <2>6. last(i) \in written /\ IsLast(last(i), i)
    BY <2>5
  <2> QED
    BY <2>6 DEF IsLast
<1>4. ASSUME NEW i \in ids
      PROVE  t[i] = EventParams(ready[last(i)])
  <2>1. PICK k \in written : k = last(i)
    BY <1>3
  <2> HIDE DEF last
  <2>2. PICK e, row, c : e = ready[k] /\ row = EventParams(e) /\ c = rows[i].created_at
    OBVIOUS
  <2>3. e.id = i /\ ~ Refused(row) /\ k \in DOMAIN ready
    BY <1>3, <2>1, <2>2
  <2>4. t[i] = Write(rows, e)[i]
    BY <1>1, <2>1, <2>2
  <2>5. CASE i \in DOMAIN rows
    <3>1. ~ ready[k].id > lastId
      BY <2>2, <2>3, <2>5 DEF RowsOK
    <3>2. k \in DOMAIN ready \ Fresh(ready)
      BY <2>3, <3>1 DEF Fresh
    <3>3. ready[k].created = rows[ready[k].id].created_at
      <4>1. OwnOK(u, doc, ready)
        BY PreparedSays
      <4> QED
        BY <3>2, <4>1 DEF OwnOK
    <3>4. e.created = c
      BY <2>2, <2>3, <3>3
    <3>5. Micros(c) = c
      BY <2>2, <2>5 DEF RowsOK, GoodRow
    <3>6. row.created_at = c
      BY <2>2, <3>4, <3>5 DEF EventParams
    <3>7. PICK new : new = [row EXCEPT !.created_at = c]
      OBVIOUS
    <3>8. new = row
      BY <2>2, <3>6, <3>7 DEF EventParams
    <3>9. Write(rows, e) = [rows EXCEPT ![i] = new]
      BY <2>2, <2>3, <2>5, <3>7, Zenon DEF Write, Updated
    <3>10. Write(rows, e)[i] = new
      BY <2>5, <3>9
    <3> QED
      BY <2>1, <2>2, <2>4, <3>8, <3>10
  <2>6. CASE i \notin DOMAIN rows
    <3>1. Write(rows, e) = [x \in DOMAIN rows \cup {i} |-> IF x = i THEN row ELSE rows[x]]
      BY <2>2, <2>3, <2>6, Zenon DEF Write, Inserted
    <3>2. Write(rows, e)[i] = row
      BY <3>1
    <3> QED
      BY <2>1, <2>2, <2>4, <3>2
  <2> QED
    BY <2>5, <2>6
<1>5. DOMAIN t = DOMAIN rows \cup ids /\ t = [i \in DOMAIN t |-> t[i]]
  BY <1>1
<1>6. \A i \in DOMAIN rows \ ids : t[i] = rows[i]
  BY <1>1
<1> HIDE DEF last
<1>7. \A i \in ids : \E k \in written : ready[k].id = i /\ t[i] = EventParams(ready[k])
  BY <1>3, <1>4
<1> QED
  BY <1>0, <1>5, <1>6, <1>7 DEF WritesOK

(* The answer of an import.                                                *)
LEMMA ImportSays ==
    ASSUME NEW u, NEW doc, NEW code, NEW failed,
           Respond([Asks("import", u, 0, doc) EXCEPT !.code = code, !.failed = failed])
    PROVE  /\ response'.op = "import" /\ response'.user = u /\ response'.asked = doc
           /\ response'.code = code /\ response'.failed = failed
           /\ done' = done + 1
<1>1. PICK n : n = NoResponse
  OBVIOUS
<1>2. PICK q : q = [n EXCEPT !.op = "import", !.user = u, !.id = 0, !.asked = doc]
  OBVIOUS
<1>3. PICK r : r = [q EXCEPT !.code = code, !.failed = failed]
  OBVIOUS
<1>4. q = [op |-> "import", user |-> u, id |-> 0, asked |-> doc, code |-> "none",
           events |-> <<>>, empty |-> FALSE, failed |-> 0]
  BY <1>1, <1>2 DEF NoResponse
<1>5. r = [op |-> "import", user |-> u, id |-> 0, asked |-> doc, code |-> code,
           events |-> <<>>, empty |-> FALSE, failed |-> failed]
  BY <1>3, <1>4
<1>6. response' = r /\ done' = done + 1
  BY <1>1, <1>2, <1>3, Zenon DEF Asks, Respond
<1> QED
  BY <1>5, <1>6

(* An import leaves rows that the validators and the table have let        *)
(* through, under ids that it has handed out.                              *)
LEMMA ImportStores ==
    ASSUME RowsOK, NEW u, NEW doc, DocOK(doc), NEW mode, ImportItems(u, doc, mode)
    PROVE  /\ RowsOK' /\ AnswerIsStored' /\ backup' = backup
           /\ response'.op = "import" /\ response'.user = u /\ response'.asked = doc
<1>1. PICK ready, bad, written, failed :
        /\ ready = PreparedItems(u, doc)
        /\ bad = {k \in DOMAIN ready : Refused(EventParams(ready[k]))}
        /\ written = {k \in DOMAIN ready : \A j \in bad : k < j}
        /\ failed = Cardinality(DOMAIN doc \ DOMAIN ready)
  OBVIOUS
<1>2. /\ IF mode = "atomic" /\ failed > 0
         THEN /\ Respond([Asks("import", u, 0, doc)
                            EXCEPT !.code = "validation_failed", !.failed = failed])
              /\ rows' = rows
         ELSE /\ Respond([Asks("import", u, 0, doc)
                            EXCEPT !.code = IF bad = {} THEN "ok" ELSE "internal_error",
                                   !.failed = IF bad = {} THEN failed ELSE 0])
              /\ rows' = Imported(ready, written)
      /\ lastId' = lastId + Cardinality({k \in DOMAIN ready : ready[k].id > lastId})
      /\ backup' = backup
  BY <1>1, Zenon DEF ImportItems
<1>3. /\ EventsOK(u, doc, ready) /\ OwnOK(u, doc, ready) /\ FreshOK(u, doc, ready)
  BY <1>1, PreparedSays
<1>4. /\ response'.op = "import" /\ response'.user = u /\ response'.asked = doc
      /\ done' = done + 1
  BY <1>2, ImportSays
<1>5. AnswerIsStored'
  BY <1>4 DEF AnswerIsStored
<1>6. PICK fresh \in Nat : fresh = Cardinality(Fresh(ready))
  BY <1>3 DEF FreshOK
<1>7. lastId \in Nat /\ lastId' = lastId + fresh /\ lastId' \in Nat /\ lastId' >= lastId
  BY <1>2, <1>6 DEF Fresh, RowsOK
<1>8. CASE rows' = rows
  BY <1>2, <1>4, <1>5, <1>7, <1>8, SameKeeps
<1>9. CASE rows' = Imported(ready, written)
  <2>1. written \subseteq DOMAIN ready
    BY <1>1
  <2>2. \A k \in written : ~ Refused(EventParams(ready[k]))
    <3>1. \A k \in DOMAIN ready : ~ (k < k)
      <4>1. DOMAIN ready \subseteq 1 .. Len(doc)
        BY <1>3 DEF EventsOK, DocOK
      <4>2. \A k \in 1 .. Len(doc) : ~ (k < k)
        BY DEF DocOK
      <4> QED
        BY <4>1, <4>2
    <3> QED
      BY <1>1, <3>1
  <2>3. PICK ids : ids = {ready[k].id : k \in written}
    OBVIOUS
  <2>4. /\ DOMAIN rows' = DOMAIN rows \cup ids /\ rows' = [i \in DOMAIN rows' |-> rows'[i]]
        /\ \A i \in ids : \E k \in written :
              ready[k].id = i /\ rows'[i] = EventParams(ready[k])
        /\ \A i \in DOMAIN rows \ ids : rows'[i] = rows[i]
    <3>1. WritesOK(ready, written, Imported(ready, written))
      BY <1>1, <2>1, <2>2, ImportedIs
    <3> QED
      BY <1>9, <2>3, <3>1 DEF WritesOK
  <2>5. ASSUME NEW i \in ids
        PROVE  i \in 1 .. lastId'
    <3>1. PICK k \in DOMAIN ready : ready[k].id = i
      BY <2>1, <2>3
    <3>2. CASE k \in Fresh(ready)
      <4>1. i \in lastId + 1 .. lastId + fresh
        BY <1>3, <1>6, <3>1, <3>2 DEF FreshOK
      <4> QED
        BY <1>6, <1>7, <4>1
    <3>3. CASE k \notin Fresh(ready)
      <4>1. i \in Owned(u)
        BY <1>3, <3>1, <3>3 DEF OwnOK
      <4>2. i \in 1 .. lastId
        BY <4>1 DEF Owned, RowsOK
      <4> QED
        BY <1>6, <1>7, <4>2
    <3> QED
      BY <3>2, <3>3
  <2>6. \A i \in DOMAIN rows : i \in 1 .. lastId'
    <3>1. \A i \in 1 .. lastId : i \in 1 .. lastId'
      BY <1>7
    <3> QED
      BY <3>1 DEF RowsOK
  <2>7. ASSUME NEW i \in DOMAIN rows'
        PROVE  GoodRow(rows'[i])
    <3>1. CASE i \in ids
      <4>1. PICK k \in written : rows'[i] = EventParams(ready[k])
        BY <2>4, <3>1
      <4>2. GoodRow(EventParams(ready[k]))
        BY <1>3, <2>1, <2>2 DEF EventsOK
      <4> QED
        BY <4>1, <4>2
    <3>2. CASE i \notin ids
      BY <2>4, <3>2 DEF RowsOK
    <3> QED
      BY <3>1, <3>2
  <2>8. done' \in Nat
    BY <1>4 DEF RowsOK
  <2>9. DOMAIN rows' \subseteq 1 .. lastId'
    BY <2>4, <2>5, <2>6
  <2>10. RowsOK'
    BY <1>7, <2>4, <2>7, <2>8, <2>9 DEF RowsOK
  <2> QED
    BY <1>2, <1>4, <1>5, <2>10
<1> QED
  BY <1>2, <1>8, <1>9

(* The events of an export decode again.                                   *)
LEMMA ItemDecodes ==
    ASSUME NEW it, ItemOK(it)
    PROVE  /\ TypedBody(it) /\ ~ Malformed(it, ItemKey)
           /\ DOMAIN it = {"id", "userId", "createdAt", "updatedAt"} \cup ContentKey
           /\ \A k \in ContentKey : it[k] # Null
           /\ it["id"] = it.id /\ it["id"] # Null
<1>1. PICK i, row : i = it.id /\ row = RowOf(it)
  OBVIOUS
<1>2. i \in Nat /\ GoodRow(row) /\ it = Shown(i, row)
  BY <1>1 DEF ItemOK
<1>3. /\ DOMAIN it = {"id", "userId", "createdAt", "updatedAt"} \cup ContentKey
      /\ it["id"] = i
      /\ \A k \in ContentKey : it[k] \notin {Null, WrongType} /\ OfType(k, it[k])
  <2>1. DOMAIN it = {"id", "userId", "createdAt", "updatedAt"} \cup ContentKey
    BY <1>2, RowShows, ZenonT(60)
  <2>2. it["id"] = i
    BY <1>1
  <2>3. \A k \in ContentKey : it[k] \notin {Null, WrongType} /\ OfType(k, it[k])
    BY <1>2, RowShows, ZenonT(60)
  <2> QED
    BY <2>1, <2>2, <2>3
<1>4. i # Null /\ i # WrongType
  <2>1. i \in Int
    BY <1>2
  <2> QED
    BY <2>1, ValuesDecode
<1>5. TypedBody(it)
  BY <1>3 DEF TypedBody, ContentKey
<1>6. ~ Malformed(it, ItemKey)
  BY <1>3, <1>4 DEF Malformed, ItemKey
<1> QED
  BY <1>1, <1>3, <1>4, <1>5, <1>6

(* What a client sends is of the types of its keys, or does not decode.    *)
LEMMA DocumentsTyped ==
    ASSUME BackupOK, backup # NoBackup, NEW doc \in Documents
    PROVE  /\ Len(doc) \in Nat /\ DOMAIN doc = 1 .. Len(doc)
           /\ \A k \in DOMAIN doc : TypedBody(doc[k])
<1>1. PICK n \in Nat : n = Len(backup)
  BY DEF BackupOK
<1>2. /\ DOMAIN backup = 1 .. n
      /\ backup = [k \in DOMAIN backup |-> backup[k]]
      /\ \A k \in DOMAIN backup : TypedBody(backup[k])
  BY <1>1, ItemDecodes DEF BackupOK
<1>3. CASE doc = backup
  BY <1>1, <1>2, <1>3
<1>4. ASSUME NEW k \in DOMAIN backup, NEW f \in DOMAIN ItemChange,
             NEW v \in ItemChange[f], doc = [backup EXCEPT ![k] = Changed(@, f, v)]
      PROVE  /\ Len(doc) \in Nat /\ DOMAIN doc = 1 .. Len(doc)
             /\ \A j \in DOMAIN doc : TypedBody(doc[j])
  <2>1. PICK it, new : it = backup[k] /\ new = Changed(it, f, v)
    OBVIOUS
  <2>2. new = [x \in DOMAIN it \cup {f} |-> IF x = f THEN v ELSE it[x]]
    BY <2>1 DEF Changed
  <2>3. TypedBody(new)
    <3>1. TypedBody(it)
      BY <1>2, <2>1
    <3>2. f \in ContentKey => v \in {Null, WrongType} \/ OfType(f, v)
      BY BodyAssumption
    <3>3. InputKey \subseteq ContentKey
      BY DEF ContentKey
    <3> QED
      BY <2>2, <3>1, <3>2, <3>3 DEF TypedBody
  <2>4. doc = [backup EXCEPT ![k] = new]
    BY <1>4, <2>1
  <2>5. DOMAIN doc = 1 .. n /\ doc = [j \in DOMAIN doc |-> doc[j]]
        /\ \A j \in DOMAIN doc : TypedBody(doc[j])
    BY <1>2, <2>3, <2>4
  <2>6. Len(doc) = n
    BY <2>5, LengthIs
  <2> QED
    BY <2>5, <2>6
<1> QED
  <2>1. doc = backup \/ \E k \in DOMAIN backup : \E f \in DOMAIN ItemChange :
          \E v \in ItemChange[f] : doc = [backup EXCEPT ![k] = Changed(@, f, v)]
    BY DEF Documents
  <2> QED
    BY <1>3, <1>4, <2>1

(* What POST /events/import leaves, and what it may have done.             *)
LEMMA ImportKeeps ==
    ASSUME RowsOK, BackupOK, NEW u, ImportEvents(u)
    PROVE  /\ RowsOK' /\ AnswerIsStored' /\ backup' = backup
           /\ response'.op = "import" /\ response'.user = u
           /\ backup # NoBackup
           /\ \/ Len(response'.asked) > MaxItems
              \/ /\ Len(response'.asked) <= MaxItems
                 /\ \E k \in DOMAIN response'.asked : Malformed(response'.asked[k], ItemKey)
              \/ /\ DocOK(response'.asked)
                 /\ \E mode \in {"partial", "atomic"} :
                       ImportItems(u, response'.asked, mode)
<1>1. PICK doc \in Documents, mode \in {"partial", "atomic"} :
          \/ /\ Len(doc) > MaxItems
             /\ Answers(Asks("import", u, 0, doc), "payload_too_large")
             /\ UNCHANGED <<rows, lastId, backup>>
          \/ /\ Len(doc) <= MaxItems
             /\ \E k \in DOMAIN doc : Malformed(doc[k], ItemKey)
             /\ Answers(Asks("import", u, 0, doc), "bad_request")
             /\ UNCHANGED <<rows, lastId, backup>>
          \/ /\ Len(doc) <= MaxItems
             /\ \A k \in DOMAIN doc : ~ Malformed(doc[k], ItemKey)
             /\ lastId + Len(doc) <= LastId
             /\ ImportItems(u, doc, mode)
  BY Zenon DEF ImportEvents
<1>2. backup # NoBackup
  BY DEF ImportEvents
<1>3. CASE /\ Len(doc) > MaxItems
           /\ Answers(Asks("import", u, 0, doc), "payload_too_large")
           /\ UNCHANGED <<rows, lastId, backup>>
  <2>1. /\ RowsOK' /\ AnswerIsStored' /\ backup' = backup
        /\ response'.op = "import" /\ response'.user = u /\ response'.asked = doc
    BY <1>3, RejectKeeps
  <2> QED
    BY <1>2, <1>3, <2>1
<1>4. CASE /\ Len(doc) <= MaxItems
           /\ \E k \in DOMAIN doc : Malformed(doc[k], ItemKey)
           /\ Answers(Asks("import", u, 0, doc), "bad_request")
           /\ UNCHANGED <<rows, lastId, backup>>
  <2>1. /\ RowsOK' /\ AnswerIsStored' /\ backup' = backup
        /\ response'.op = "import" /\ response'.user = u /\ response'.asked = doc
    BY <1>4, RejectKeeps
  <2> QED
    BY <1>2, <1>4, <2>1
<1>5. CASE /\ \A k \in DOMAIN doc : ~ Malformed(doc[k], ItemKey)
           /\ ImportItems(u, doc, mode)
  <2>1. DocOK(doc)
    BY <1>2, <1>5, DocumentsTyped DEF DocOK
  <2>2. /\ RowsOK' /\ AnswerIsStored' /\ backup' = backup
        /\ response'.op = "import" /\ response'.user = u /\ response'.asked = doc
    BY <1>5, <2>1, ImportStores
  <2> QED
    BY <1>2, <1>5, <2>1, <2>2
<1> QED
  BY <1>1, <1>3, <1>4, <1>5, Zenon

-----------------------------------------------------------------------------
(* The restore.                                                            *)

(* An item as it was exported makes an event again, with its content.      *)
LEMMA ItemCopied ==
    ASSUME RowsOK, NEW it, ItemOK(it), NEW u, NEW i, NEW created \in Int,
           NEW e, e = Sealed(ItemEvent(u, it), i, created, Now),
           NEW row, row = EventParams(e), NEW x
    PROVE  /\ ItemCode(it) = "ok" /\ ~ Refused(row) /\ row.user_id = u
           /\ row.created_at = Micros(created)
           /\ Content(Shown(x, row)) = Content(it)
<1>1. PICK r, in : r = RowOf(it) /\ in = ToInput(it)
  OBVIOUS
<1>2. GoodRow(r) /\ it = Shown(it.id, r)
  BY <1>1 DEF ItemOK
<1>3. /\ it["eventType"] = r.event_type /\ it["contactName"] = r.contact_name
      /\ it["contactRef"] = r.contact_ref /\ it["locationLat"] = r.location_lat
      /\ it["locationLng"] = r.location_lng /\ it["locationLabel"] = r.location_label
      /\ it["description"] = r.description /\ it["startsAt"] = r.starts_at
      /\ it["reminderType"] = r.reminder_type /\ it["eventStatus"] = r.event_status
  BY <1>1 DEF RowOf
<1>4. ASSUME NEW k \in ContentKey PROVE Brings(it, k) /\ Get(it, k) = it[k]
  BY ItemDecodes DEF Brings, Get
<1>5. in = [type |-> r.event_type,
            contact |-> [name |-> r.contact_name, ref |-> r.contact_ref],
            location |-> [lat |-> r.location_lat, lng |-> r.location_lng,
                          label |-> r.location_label],
            description |-> r.description,
            startsAt |-> [at |-> r.starts_at, fits |-> TRUE],
            reminder |-> r.reminder_type]
  <2>1. /\ Get(it, "eventType") = r.event_type
        /\ Get(it, "contactName") = r.contact_name
        /\ Get(it, "contactRef") = r.contact_ref
        /\ Get(it, "locationLat") = r.location_lat
        /\ Get(it, "locationLng") = r.location_lng
        /\ Get(it, "locationLabel") = r.location_label
        /\ Get(it, "description") = r.description
        /\ Get(it, "startsAt") = r.starts_at
        /\ Get(it, "reminderType") = r.reminder_type
    BY <1>3, <1>4 DEF ContentKey, InputKey
  <2> QED
    BY <1>1, <2>1 DEF ToInput, Parsed
<1>6. NewEventCode(in) = "ok"
  <2>1. /\ in.type \in EventType /\ in.reminder \in Reminder
        /\ Trim[in.description] # ""
    BY <1>2, <1>5 DEF GoodRow
  <2>2. LocationOK(in.location)
    BY <1>2, <1>5 DEF GoodRow, LocationOK
  <2> QED
    BY <2>1, <2>2, NewEventSays
<1>7. Brings(it, "eventStatus") /\ it["eventStatus"] = r.event_status
      /\ r.event_status \in EventStatus
  <2>1. "eventStatus" \in ContentKey
    BY DEF ContentKey
  <2>2. r.event_status \in EventStatus
    BY <1>2 DEF GoodRow
  <2> QED
    BY <1>3, <1>4, <2>1, <2>2
<1>8. ItemCode(it) = "ok"
  BY <1>1, <1>6, <1>7, ItemSays
<1>9. PICK new, f, now : /\ new = NewEvent(u, in) /\ now = Now
                         /\ f = [new EXCEPT !.status = r.event_status]
  OBVIOUS
<1>10. e = [f EXCEPT !.id = i, !.created = created, !.updated = now]
  <2>1. PICK g : g = ItemEvent(u, it)
    OBVIOUS
  <2>2. g = f
    BY <1>1, <1>7, <1>9, <2>1 DEF ItemEvent, NewEvent
  <2> QED
    BY <1>9, <2>1, <2>2, Zenon DEF Sealed
<1>11. f = [id |-> 0, user |-> u, type |-> in.type, contact |-> in.contact,
            location |-> in.location, description |-> Trim[in.description],
            startsAt |-> in.startsAt, status |-> r.event_status,
            reminder |-> in.reminder, created |-> 0, updated |-> 0]
  BY <1>9 DEF NewEvent
<1>12. /\ e.user = u /\ e.type = in.type /\ e.contact = in.contact
       /\ e.location = in.location /\ e.description = Trim[in.description]
       /\ e.startsAt = in.startsAt /\ e.status = r.event_status
       /\ e.reminder = in.reminder /\ e.created = created
  BY <1>10, <1>11
<1>13. Trim[r.description] = r.description /\ Micros(r.starts_at) = r.starts_at
  BY <1>2 DEF GoodRow
<1>14. /\ row.user_id = u /\ row.event_type = r.event_type
       /\ row.contact_name = r.contact_name /\ row.contact_ref = r.contact_ref
       /\ row.location_lat = r.location_lat /\ row.location_lng = r.location_lng
       /\ row.location_label = r.location_label /\ row.description = r.description
       /\ row.starts_at = r.starts_at /\ row.event_status = r.event_status
       /\ row.reminder_type = r.reminder_type /\ row.created_at = Micros(created)
  BY <1>5, <1>12, <1>13 DEF EventParams
<1>15. ~ Refused(row)
  BY <1>2, <1>14 DEF GoodRow, Refused
<1>16. PICK said : said = Shown(x, row)
  OBVIOUS
<1>17. /\ said["eventType"] = row.event_type /\ said["contactName"] = row.contact_name
       /\ said["contactRef"] = row.contact_ref /\ said["locationLat"] = row.location_lat
       /\ said["locationLng"] = row.location_lng
       /\ said["locationLabel"] = row.location_label
       /\ said["description"] = row.description /\ said["startsAt"] = row.starts_at
       /\ said["reminderType"] = row.reminder_type
       /\ said["eventStatus"] = row.event_status
  BY <1>16 DEF Shown, ToEventResponse, ToDomainEvent
<1>18. \A k \in ContentKey : said[k] = it[k]
  BY <1>3, <1>14, <1>17 DEF ContentKey, InputKey
<1>19. Content(said) = Content(it)
  BY <1>18 DEF Content
<1> QED
  BY <1>8, <1>14, <1>15, <1>16, <1>19

(* What a restore by u leaves: the body of RestoreRestores.                *)
RestoredFor(u) ==
    LET kept == {k \in DOMAIN backup : backup[k].id \in Owned(u)}
        new == DOMAIN rows' \ DOMAIN rows
        IsCopy(i, k) == Content(Shown(i, rows'[i])) = Content(backup[k]) IN
    /\ response'.code = "ok" /\ response'.failed = 0
    /\ \A k \in kept :
          LET i == backup[k].id IN
          IsCopy(i, k) /\ rows'[i].created_at = rows[i].created_at
    /\ Cardinality(new) = Cardinality(DOMAIN backup \ kept)
    /\ \E copy \in [DOMAIN backup \ kept -> new] :
          /\ {copy[k] : k \in DOMAIN copy} = new
          /\ \A k \in DOMAIN copy :
                IsCopy(copy[k], k) /\ rows'[copy[k]].user_id = u
    /\ \A i \in DOMAIN rows \ {backup[k].id : k \in kept} :
          rows'[i] = rows[i]

(* An import of the document as it was exported.                           *)
LEMMA RestoreDone ==
    ASSUME RowsOK, BackupOK, backup # NoBackup, NEW u, NEW mode,
           ImportItems(u, backup, mode)
    PROVE  RestoredFor(u)
<1>1. PICK ready, bad, written, failed, gone :
        /\ ready = PreparedItems(u, backup)
        /\ bad = {k \in DOMAIN ready : Refused(EventParams(ready[k]))}
        /\ written = {k \in DOMAIN ready : \A j \in bad : k < j}
        /\ gone = DOMAIN backup \ DOMAIN ready
        /\ failed = Cardinality(gone)
  OBVIOUS
<1>2. /\ IF mode = "atomic" /\ failed > 0
         THEN /\ Respond([Asks("import", u, 0, backup)
                            EXCEPT !.code = "validation_failed", !.failed = failed])
              /\ rows' = rows
         ELSE /\ Respond([Asks("import", u, 0, backup)
                            EXCEPT !.code = IF bad = {} THEN "ok" ELSE "internal_error",
                                   !.failed = IF bad = {} THEN failed ELSE 0])
              /\ rows' = Imported(ready, written)
  BY <1>1, Zenon DEF ImportItems
<1>3. \A k \in DOMAIN backup : ItemOK(backup[k])
  BY DEF BackupOK
<1>4. DocOK(backup)
  BY <1>3, ItemDecodes DEF BackupOK, DocOK
<1>5. EventsOK(u, backup, ready) /\ OwnOK(u, backup, ready) /\ FreshOK(u, backup, ready)
  BY <1>1, <1>4, PreparedSays
<1>6. ASSUME NEW k \in DOMAIN backup
      PROVE  ItemCode(backup[k]) = "ok"
  <2>1. PICK created \in Int : created = 0
    OBVIOUS
  <2>2. PICK it, e, row :
          /\ it = backup[k] /\ e = Sealed(ItemEvent(u, it), 0, created, Now)
          /\ row = EventParams(e)
    OBVIOUS
  <2> QED
    BY <1>3, <2>2, ItemCopied
<1>7. DOMAIN ready = DOMAIN backup
  BY <1>5, <1>6 DEF EventsOK
<1>8. ASSUME NEW k \in DOMAIN backup
      PROVE  OwnId(u, backup[k])
               = IF backup[k].id \in Owned(u) THEN backup[k].id ELSE 0
  <2>1. PICK it : it = backup[k]
    OBVIOUS
  <2>2. DOMAIN it = {"id", "userId", "createdAt", "updatedAt"} \cup ContentKey
        /\ it["id"] # Null
    BY <1>3, <2>1, ItemDecodes
  <2>3. Brings(it, "id")
    BY <2>2 DEF Brings
  <2> QED
    BY <2>1, <2>3 DEF OwnId
<1>9. \A i \in Owned(u) : i \in 1 .. lastId /\ i # 0 /\ i \in DOMAIN rows
  BY DEF Owned, RowsOK
<1>10. lastId \in Nat /\ \A i \in DOMAIN rows : i \in 1 .. lastId
  BY DEF RowsOK
<1> DEFINE kept == {k \in DOMAIN backup : backup[k].id \in Owned(u)}
           fresh == DOMAIN backup \ kept
<1>11. Fresh(ready) = fresh
  BY <1>5, <1>7, <1>8, <1>9 DEF FreshOK
<1>12. ASSUME NEW k \in kept
       PROVE  /\ k \in DOMAIN backup /\ backup[k].id \in Owned(u)
              /\ ready[k].id = backup[k].id
              /\ ready[k].created = rows[backup[k].id].created_at
  <2>1. k \in DOMAIN ready \ Fresh(ready)
    BY <1>7, <1>11
  <2> QED
    BY <1>5, <1>8, <2>1 DEF OwnOK
<1>13. PICK n \in Nat : n = Cardinality(fresh)
  BY <1>5, <1>11 DEF FreshOK
<1>14. /\ \A k \in fresh : k \in DOMAIN backup /\ ready[k].id \in lastId + 1 .. lastId + n
       /\ \A j, k \in fresh : ready[j].id = ready[k].id => j = k
       /\ \A m \in lastId + 1 .. lastId + n : \E k \in fresh : ready[k].id = m
  BY <1>5, <1>7, <1>11, <1>13 DEF FreshOK
<1> HIDE DEF kept, fresh
<1>15. \A k \in DOMAIN backup : k \in kept <=> k \notin fresh
  BY DEF fresh, kept
<1>16. \A k \in fresh : ready[k].id \notin DOMAIN rows /\ ready[k].id \in Int
  BY <1>10, <1>14
<1>17. ASSUME NEW k \in DOMAIN backup, NEW i
       PROVE  /\ ~ Refused(EventParams(ready[k])) /\ EventParams(ready[k]).user_id = u
              /\ EventParams(ready[k]).created_at = Micros(ready[k].created)
              /\ Content(Shown(i, EventParams(ready[k]))) = Content(backup[k])
  <2>1. PICK it, e, row, created, id :
          /\ it = backup[k] /\ e = ready[k] /\ row = EventParams(e)
          /\ created = e.created /\ id = e.id
    OBVIOUS
  <2>2. e = Sealed(ItemEvent(u, it), id, created, Now)
    BY <1>5, <1>7, <2>1 DEF EventsOK
  <2>3. ItemOK(it)
    BY <1>3, <2>1
  <2>4. created \in Int
    BY <1>5, <1>7, <2>1 DEF EventsOK
  <2> QED
    BY <2>1, <2>2, <2>3, <2>4, ItemCopied
<1>18. bad = {}
  BY <1>1, <1>7, <1>17
<1>19. gone = {} /\ failed = 0
  BY <1>1, <1>7, FS_EmptySet
<1>20. response'.code = "ok" /\ response'.failed = 0
  <2>1. Respond([Asks("import", u, 0, backup) EXCEPT !.code = "ok", !.failed = 0])
    BY <1>2, <1>18, <1>19
  <2> QED
    BY <2>1, ImportSays
<1>21. written = DOMAIN ready
  BY <1>1, <1>18
<1>22. PICK ids : ids = {ready[k].id : k \in DOMAIN backup}
  OBVIOUS
<1>23. /\ DOMAIN rows' = DOMAIN rows \cup ids
       /\ \A i \in ids : \E k \in DOMAIN backup :
             ready[k].id = i /\ rows'[i] = EventParams(ready[k])
       /\ \A i \in DOMAIN rows \ ids : rows'[i] = rows[i]
  <2>1. rows' = Imported(ready, written)
    BY <1>2, <1>19
  <2>2. WritesOK(ready, written, Imported(ready, written))
    BY <1>1, <1>4, <1>7, <1>17, <1>21, ImportedIs
  <2> QED
    BY <1>7, <1>21, <1>22, <2>1, <2>2 DEF WritesOK
<1>24. ASSUME NEW k \in DOMAIN backup
       PROVE  rows'[ready[k].id] = EventParams(ready[k])
  <2>1. PICK j \in DOMAIN backup :
          ready[j].id = ready[k].id /\ rows'[ready[k].id] = EventParams(ready[j])
    BY <1>22, <1>23
  <2>2. CASE k \in fresh
    <3>1. j \in fresh
      BY <1>9, <1>12, <1>15, <1>16, <2>1, <2>2
    <3> QED
      BY <1>14, <2>1, <2>2, <3>1
  <2>3. CASE k \in kept
    <3>1. j \in kept
      BY <1>9, <1>12, <1>15, <1>16, <2>1, <2>3
    <3>2. backup[j].id = backup[k].id
      BY <1>12, <2>1, <2>3, <3>1
    <3>3. j = k
      BY <3>2 DEF BackupOK
    <3> QED
      BY <2>1, <3>3
  <2> QED
    BY <1>15, <2>2, <2>3
<1>25. PICK new : new = DOMAIN rows' \ DOMAIN rows
  OBVIOUS
<1>26. new = {ready[k].id : k \in fresh}
  <2>1. \A k \in kept : ready[k].id \in DOMAIN rows
    BY <1>9, <1>12
  <2> QED
    BY <1>14, <1>15, <1>16, <1>22, <1>23, <1>25, <2>1
<1>27. Cardinality(new) = Cardinality(fresh)
  <2>1. new = lastId + 1 .. lastId + n
    BY <1>14, <1>26
  <2>2. Cardinality(lastId + 1 .. lastId + n)
          = IF lastId + 1 > lastId + n THEN 0 ELSE lastId + n - (lastId + 1) + 1
    BY <1>10, FS_Interval
  <2> QED
    BY <1>10, <1>13, <2>1, <2>2
<1>28. ASSUME NEW k \in kept
       PROVE  /\ Content(Shown(backup[k].id, rows'[backup[k].id])) = Content(backup[k])
              /\ rows'[backup[k].id].created_at = rows[backup[k].id].created_at
  <2>1. PICK i, row : i = backup[k].id /\ row = rows'[i]
    OBVIOUS
  <2>2. /\ k \in DOMAIN backup /\ i \in Owned(u) /\ ready[k].id = i
        /\ ready[k].created = rows[i].created_at
    BY <1>12, <2>1
  <2>3. row = EventParams(ready[k])
    BY <1>24, <2>1, <2>2
  <2>4. Content(Shown(i, row)) = Content(backup[k])
    BY <1>17, <2>2, <2>3
  <2>5. row.created_at = Micros(rows[i].created_at)
    BY <1>17, <2>2, <2>3
  <2>6. Micros(rows[i].created_at) = rows[i].created_at
    <3>1. GoodRow(rows[i])
      BY <2>2, FoundIs
    <3> QED
      BY <3>1 DEF GoodRow
  <2> QED
    BY <2>1, <2>4, <2>5, <2>6
<1>29. PICK copy : copy = [k \in fresh |-> ready[k].id]
  OBVIOUS
<1>30. /\ DOMAIN copy = fresh /\ copy \in [fresh -> new]
       /\ {copy[k] : k \in DOMAIN copy} = new
  BY <1>26, <1>29
<1>31. ASSUME NEW k \in fresh
       PROVE  /\ Content(Shown(copy[k], rows'[copy[k]])) = Content(backup[k])
              /\ rows'[copy[k]].user_id = u
  <2>1. PICK i : i = copy[k]
    OBVIOUS
  <2>2. k \in DOMAIN backup /\ i = ready[k].id
    BY <1>14, <1>29, <2>1
  <2>3. rows'[i] = EventParams(ready[k])
    BY <1>24, <2>2
  <2> QED
    BY <1>17, <2>1, <2>2, <2>3
<1>32. ASSUME NEW i \in DOMAIN rows, i \notin {backup[k].id : k \in kept}
       PROVE  rows'[i] = rows[i]
  <2>1. i \notin ids
    BY <1>12, <1>15, <1>16, <1>22, <1>32
  <2> QED
    BY <1>23, <2>1
<1>33. kept = {k \in DOMAIN backup : backup[k].id \in Owned(u)}
       /\ fresh = DOMAIN backup \ kept
  BY DEF kept, fresh
<1>34. \E c \in [fresh -> new] :
          /\ {c[k] : k \in DOMAIN c} = new
          /\ \A k \in DOMAIN c :
                /\ Content(Shown(c[k], rows'[c[k]])) = Content(backup[k])
                /\ rows'[c[k]].user_id = u
  BY <1>30, <1>31
<1> QED
  BY <1>20, <1>25, <1>27, <1>28, <1>32, <1>33, <1>34 DEF RestoredFor

-----------------------------------------------------------------------------
(* The specification.                                                      *)

(* The body of RestoreRestores.                                            *)
Restores ==
    (/\ response'.op = "import" /\ response'.asked = backup
     /\ backup # NoBackup /\ Len(backup) <= MaxItems
     => LET u == response'.user
            kept == {k \in DOMAIN backup : backup[k].id \in Owned(u)}
            new == DOMAIN rows' \ DOMAIN rows
            IsCopy(i, k) == Content(Shown(i, rows'[i])) = Content(backup[k]) IN
        /\ response'.code = "ok" /\ response'.failed = 0
        /\ \A k \in kept :
              LET i == backup[k].id IN
              IsCopy(i, k) /\ rows'[i].created_at = rows[i].created_at
        /\ Cardinality(new) = Cardinality(DOMAIN backup \ kept)
        /\ \E copy \in [DOMAIN backup \ kept -> new] :
              /\ {copy[k] : k \in DOMAIN copy} = new
              /\ \A k \in DOMAIN copy :
                    IsCopy(copy[k], k) /\ rows'[copy[k]].user_id = u
        /\ \A i \in DOMAIN rows \ {backup[k].id : k \in kept} :
              rows'[i] = rows[i])

(* An import restores, if it is of that document.                          *)
LEMMA RestoreIs ==
    ASSUME RowsOK, BackupOK, NEW u, ImportEvents(u)
    PROVE  Restores
<1> SUFFICES ASSUME response'.op = "import", response'.asked = backup,
                    backup # NoBackup, Len(backup) <= MaxItems
             PROVE  RestoredFor(u) /\ response'.user = u
  BY DEF Restores, RestoredFor
<1>1. /\ response'.user = u
      /\ \/ Len(backup) > MaxItems
         \/ \E k \in DOMAIN backup : Malformed(backup[k], ItemKey)
         \/ \E mode \in {"partial", "atomic"} : ImportItems(u, backup, mode)
  BY ImportKeeps
<1>2. ~ Len(backup) > MaxItems
  BY ApiAssumption DEF BackupOK
<1>3. \A k \in DOMAIN backup : ~ Malformed(backup[k], ItemKey)
  BY ItemDecodes DEF BackupOK
<1>4. PICK mode : ImportItems(u, backup, mode)
  BY <1>1, <1>2, <1>3
<1> QED
  BY <1>1, <1>4, RestoreDone

(* The inductive invariant: the table, and the document that the client    *)
(* may send back, have rows that were let through.                         *)
ApiInv == RowsOK /\ BackupOK

(* A write of one event leaves the client's document alone.                *)
LEMMA BackupSame ==
    ASSUME NEW u, CreateEvent(u) \/ UpdateEvent(u) \/ ChangeStatus(u)
    PROVE  backup' = backup
<1>1. CASE CreateEvent(u)
  BY <1>1 DEF CreateEvent
<1>2. CASE UpdateEvent(u)
  BY <1>2 DEF UpdateEvent, Update
<1>3. CASE ChangeStatus(u)
  BY <1>3 DEF ChangeStatus, Update
<1> QED
  BY <1>1, <1>2, <1>3

(* Every request keeps the invariant, and has the properties of its answer.*)
LEMMA ApiStep ==
    ASSUME ApiInv, ApiNext
    PROVE  /\ ApiInv' /\ ExportIsComplete' /\ AnswerIsStored'
           /\ PatchMerges /\ Restores
<1>1. RowsOK /\ BackupOK
  BY DEF ApiInv
<1>2. PICK u \in User :
        \/ BodyTooLarge(u) \/ CreateEvent(u) \/ GetEvent(u) \/ UpdateEvent(u)
        \/ ChangeStatus(u) \/ DeleteEvent(u) \/ ExportEvents(u)
        \/ ImportEvents(u) \/ ImportRefused(u)
  BY Zenon DEF ApiNext
<1>3. CASE BodyTooLarge(u) \/ GetEvent(u) \/ DeleteEvent(u) \/ ImportRefused(u)
  <2>1. /\ RowsOK' /\ AnswerIsStored'
        /\ response'.op \in {"create", "get", "update", "status", "delete", "import"}
        /\ response'.op = "update" => response'.id = 0
        /\ response'.op = "import" => response'.asked = NoBackup
        /\ backup' = backup
    BY <1>1, <1>3, OthersKeep
  <2>2. BackupOK'
    BY <1>1, <2>1, BackupKeeps
  <2>3. ExportIsComplete'
    BY <2>1 DEF ExportIsComplete
  <2>4. 0 \notin DOMAIN rows
    BY <1>1 DEF RowsOK
  <2>5. PatchMerges
    BY <2>1, <2>4 DEF PatchMerges, Owned
  <2>6. Restores
    BY <2>1 DEF Restores
  <2> QED
    BY <2>1, <2>2, <2>3, <2>5, <2>6 DEF ApiInv
<1>4. CASE CreateEvent(u)
  <2>1. RowsOK' /\ AnswerIsStored' /\ response'.op = "create"
    BY <1>1, <1>4, CreateStores
  <2>2. BackupOK'
    BY <1>1, <1>4, BackupSame, BackupKeeps
  <2> QED
    BY <2>1, <2>2 DEF ApiInv, ExportIsComplete, PatchMerges, Restores
<1>5. CASE UpdateEvent(u)
  <2>1. RowsOK' /\ AnswerIsStored' /\ PatchMerges /\ response'.op = "update"
    BY <1>1, <1>5, PatchStores
  <2>2. BackupOK'
    BY <1>1, <1>5, BackupSame, BackupKeeps
  <2> QED
    BY <2>1, <2>2 DEF ApiInv, ExportIsComplete, Restores
<1>6. CASE ChangeStatus(u)
  <2>1. RowsOK' /\ AnswerIsStored' /\ response'.op = "status"
    BY <1>1, <1>6, StatusStores
  <2>2. BackupOK'
    BY <1>1, <1>6, BackupSame, BackupKeeps
  <2> QED
    BY <2>1, <2>2 DEF ApiInv, ExportIsComplete, PatchMerges, Restores
<1>7. CASE ExportEvents(u)
  <2>1. RowsOK' /\ BackupOK' /\ ExportIsComplete' /\ response'.op = "export"
    BY <1>1, <1>7, ExportShows
  <2> QED
    BY <2>1 DEF ApiInv, AnswerIsStored, PatchMerges, Restores
<1>8. CASE ImportEvents(u)
  <2>1. /\ RowsOK' /\ AnswerIsStored' /\ backup' = backup
        /\ response'.op = "import"
    BY <1>1, <1>8, ImportKeeps
  <2>2. BackupOK'
    BY <1>1, <2>1, BackupKeeps
  <2>3. Restores
    BY <1>1, <1>8, RestoreIs
  <2> QED
    BY <2>1, <2>2, <2>3 DEF ApiInv, ExportIsComplete, PatchMerges
<1> QED
  BY <1>2, <1>3, <1>4, <1>5, <1>6, <1>7, <1>8, Zenon

(* At every moment every row of the table, and every event of the document *)
(* that the client keeps, is one that the validators and the table take.   *)
THEOREM ApiInvariance == ApiSpec => []ApiInv
<1>1. ApiInit => ApiInv
  <2> SUFFICES ASSUME ApiInit PROVE ApiInv
    OBVIOUS
  <2>1. RowsOK
    BY DEF ApiInit, RowsOK
  <2>2. BackupOK
    BY DEF ApiInit, BackupOK
  <2> QED
    BY <2>1, <2>2 DEF ApiInv
<1>2. ApiInv /\ [ApiNext]_apiVars => ApiInv'
  <2> SUFFICES ASSUME ApiInv, [ApiNext]_apiVars PROVE ApiInv'
    OBVIOUS
  <2>1. CASE ApiNext
    BY <2>1, ApiStep
  <2>2. CASE UNCHANGED apiVars
    BY <2>2 DEF ApiInv, RowsOK, BackupOK, apiVars
  <2> QED
    BY <2>1, <2>2
<1> QED
  BY <1>1, <1>2, PTL DEF ApiSpec

(* A backup is whole: an export answers every event of the user, once, as  *)
(* a read shows it, or nothing at all behind its 200 when one of them      *)
(* starts in a year that JSON cannot carry.                                *)
THEOREM ExportsAreComplete == ApiSpec => []ExportIsComplete
<1>1. ApiInit => ExportIsComplete
  BY DEF ApiInit, NoResponse, ExportIsComplete
<1>2. ApiInv /\ ExportIsComplete /\ [ApiNext]_apiVars => ExportIsComplete'
  <2> SUFFICES ASSUME ApiInv, ExportIsComplete, [ApiNext]_apiVars
               PROVE  ExportIsComplete'
    OBVIOUS
  <2>1. CASE ApiNext
    BY <2>1, ApiStep
  <2>2. CASE UNCHANGED apiVars
    BY <2>2 DEF ExportIsComplete, Owned, Shown, ToEventResponse, ToDomainEvent, apiVars
  <2> QED
    BY <2>1, <2>2
<1> QED
  BY <1>1, <1>2, ApiInvariance, PTL DEF ApiSpec

(* What a create, an update or a change of status answers, from memory, is *)
(* what the table has of the event, but for the instants it rounds, and    *)
(* what the next read shows; of an event that starts in a year JSON cannot *)
(* carry the next read shows nothing.                                      *)
THEOREM AnswersAreStored == ApiSpec => []AnswerIsStored
<1>1. ApiInit => AnswerIsStored
  BY DEF ApiInit, NoResponse, AnswerIsStored
<1>2. ApiInv /\ AnswerIsStored /\ [ApiNext]_apiVars => AnswerIsStored'
  <2> SUFFICES ASSUME ApiInv, AnswerIsStored, [ApiNext]_apiVars
               PROVE  AnswerIsStored'
    OBVIOUS
  <2>1. CASE ApiNext
    BY <2>1, ApiStep
  <2>2. CASE UNCHANGED apiVars
    BY <2>2 DEF AnswerIsStored, Owned, apiVars
  <2> QED
    BY <2>1, <2>2
<1> QED
  BY <1>1, <1>2, ApiInvariance, PTL DEF ApiSpec

(* A PATCH is a merge: the answer to it, and the row it leaves, are those  *)
(* of creating the event as it was shown with the keys of the patch over   *)
(* it.                                                                     *)
THEOREM PatchesMerge == ApiSpec => PatchIsMerge
<1>1. ApiInv /\ [ApiNext]_apiVars => [PatchMerges]_apiVars
  BY ApiStep
<1> QED
  BY <1>1, ApiInvariance, PTL DEF ApiSpec, PatchIsMerge, PatchMerges

(* A restore restores: importing an untouched backup that fits in a body   *)
(* fails no item, gives the events the user still has the content they had *)
(* when it was exported, makes of every other item a new event with its    *)
(* content, and touches nothing else.                                      *)
THEOREM RestoresRestore == ApiSpec => RestoreRestores
<1>1. ApiInv /\ [ApiNext]_apiVars => [Restores]_apiVars
  BY ApiStep
<1> QED
  BY <1>1, ApiInvariance, PTL DEF ApiSpec, RestoreRestores, Restores
=============================================================================

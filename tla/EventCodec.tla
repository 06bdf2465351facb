----------------------------- MODULE EventCodec -----------------------------
(***************************************************************************)
(* The three shapes of an event and the conversions between them: the flat *)
(* JSON object of requests and responses, the aggregate of the domain with *)
(* its validators, and the row of table events.                            *)
(*                                                                         *)
(* A JSON object is a function from the keys it brings to their values.    *)
(* Instants are numbers of half microseconds, as time.Time is finer than   *)
(* timestamptz.                                                            *)
(***************************************************************************)
EXTENDS Integers, Sequences, ErrorCodes

CONSTANTS
    Null,          \* JSON null
    WrongType,     \* a value of a type the key does not have
    Trim,          \* strings.TrimSpace, over the descriptions of requests
    NulText,       \* texts with a NUL, which type text of Postgres refuses
    LastYearEnd    \* the last instant of year 9999 in the server's zone (the
                   \* other end, year 0, is not told apart)

ASSUME TrimAssumption ==
    /\ "" \in DOMAIN Trim
    /\ \A s \in DOMAIN Trim : Trim[s] \in DOMAIN Trim /\ Trim[Trim[s]] = Trim[s]

EventType == {"cita", "junta", "entrega_proyecto", "examen", "otros"}
EventStatus == {"pendiente", "realizado", "aplazado"}
Reminder == {"none", "at_time", "ten_minutes_before", "one_day_before"}

ASSUME ValueAssumption ==
    /\ Null # WrongType
    /\ \A v \in {Null, WrongType} :
          /\ v \notin Int /\ v \notin DOMAIN Trim
          /\ v \notin EventType \cup EventStatus \cup Reminder
    /\ LastYearEnd \in Int

(* The keys of a request that make an event, and of a response.            *)
InputKey ==
    {"eventType", "contactName", "contactRef", "locationLat", "locationLng",
     "locationLabel", "description", "startsAt", "reminderType"}

ContentKey == InputKey \cup {"eventStatus"}

(* The values of a key that are of its type.                               *)
OfType(k, v) ==
    CASE k \in {"locationLat", "locationLng", "startsAt"} -> v \in Int
      [] k = "description" -> v \in DOMAIN Trim
      [] OTHER -> TRUE

-----------------------------------------------------------------------------
(* From JSON.                                                              *)

(* null leaves a value at its zero, and a pointer nil.                     *)
Brings(b, k) == k \in DOMAIN b /\ b[k] # Null

Malformed(b, keys) == \E k \in keys \cap DOMAIN b : b[k] = WrongType

Zero(k) == IF k \in {"locationLat", "locationLng", "startsAt"} THEN 0 ELSE ""

Get(b, k) == IF Brings(b, k) THEN b[k] ELSE Zero(k)

(* time.Time as parsed keeps the zone it was written in, where its year    *)
(* has four digits.                                                        *)
Parsed(t) == [at |-> t, fits |-> TRUE]

ToInput(b) ==
    [type |-> Get(b, "eventType"),
     contact |-> [name |-> Get(b, "contactName"), ref |-> Get(b, "contactRef")],
     location |-> [lat |-> Get(b, "locationLat"), lng |-> Get(b, "locationLng"),
                   label |-> Get(b, "locationLabel")],
     description |-> Get(b, "description"),
     startsAt |-> Parsed(Get(b, "startsAt")),
     reminder |-> Get(b, "reminderType")]

ToPatch(b) == [k \in {k \in InputKey : Brings(b, k)} |-> b[k]]

-----------------------------------------------------------------------------
(* The domain.                                                             *)

Check(holds, code) == [holds |-> holds, code |-> code]

(* The code of the first check that fails.                                 *)
FirstFailed(checks) ==
    IF \A k \in DOMAIN checks : checks[k].holds THEN "ok"
    ELSE LET k == CHOOSE k \in DOMAIN checks :
                    /\ ~ checks[k].holds
                    /\ \A j \in 1 .. k - 1 : checks[j].holds
         IN checks[k].code

LocationOK(l) ==
    /\ -90 <= l.lat /\ l.lat <= 90
    /\ -180 <= l.lng /\ l.lng <= 180

NewEventCode(in) ==
    FirstFailed(<<Check(in.type \in EventType, "invalid_event_type"),
                  Check(in.reminder \in Reminder, "invalid_reminder"),
                  Check(Trim[in.description] # "", "empty_description"),
                  Check(LocationOK(in.location), "invalid_location")>>)

NewEvent(u, in) ==
    [id |-> 0, user |-> u, type |-> in.type, contact |-> in.contact,
     location |-> in.location, description |-> Trim[in.description],
     startsAt |-> in.startsAt, status |-> "pendiente",
     reminder |-> in.reminder, created |-> 0, updated |-> 0]

Sealed(e, i, created, updated) ==
    [e EXCEPT !.id = i, !.created = created, !.updated = updated]

Or(p, k, old) == IF k \in DOMAIN p THEN p[k] ELSE old

EditedLocation(e, p) ==
    [lat |-> Or(p, "locationLat", e.location.lat),
     lng |-> Or(p, "locationLng", e.location.lng),
     label |-> Or(p, "locationLabel", e.location.label)]

(* Mutant: the coordinates are validated as they come, each by itself, and *)
(* a longitude by the bounds of a latitude.                                *)
EditCode_OwnBounds(e, p) ==
    FirstFailed(<<
        Check("eventType" \in DOMAIN p => p["eventType"] \in EventType,
              "invalid_event_type"),
        Check("reminderType" \in DOMAIN p => p["reminderType"] \in Reminder,
              "invalid_reminder"),
        Check("description" \in DOMAIN p => Trim[p["description"]] # "",
              "empty_description"),
        Check(\A k \in {"locationLat", "locationLng"} \cap DOMAIN p : p[k] <= 90,
              "invalid_location")>>)

EditCode(e, p) ==
    FirstFailed(<<
        Check("eventType" \in DOMAIN p => p["eventType"] \in EventType,
              "invalid_event_type"),
        Check("reminderType" \in DOMAIN p => p["reminderType"] \in Reminder,
              "invalid_reminder"),
        Check("description" \in DOMAIN p => Trim[p["description"]] # "",
              "empty_description"),
        Check({"locationLat", "locationLng"} \cap DOMAIN p # {}
                 => LocationOK(EditedLocation(e, p)), "invalid_location")>>)

Edit(e, p) ==
    [e EXCEPT !.type = Or(p, "eventType", @),
              !.reminder = Or(p, "reminderType", @),
              !.description = IF "description" \in DOMAIN p
                              THEN Trim[p["description"]] ELSE @,
              !.startsAt = IF "startsAt" \in DOMAIN p
                           THEN Parsed(p["startsAt"]) ELSE @,
              !.contact = [name |-> Or(p, "contactName", @.name),
                           ref |-> Or(p, "contactRef", @.ref)],
              !.location = EditedLocation(e, p)]

-----------------------------------------------------------------------------
(* To the table and back.                                                  *)

Micros(t) == t - (t % 2)

(* Mutant: the UPDATE forgets a column.                                    *)
EventParams_NoRef(e) ==
    [user_id |-> e.user, event_type |-> e.type,
     contact_name |-> e.contact.name, contact_ref |-> "",
     location_lat |-> e.location.lat, location_lng |-> e.location.lng,
     location_label |-> e.location.label, description |-> e.description,
     starts_at |-> Micros(e.startsAt.at), event_status |-> e.status,
     reminder_type |-> e.reminder,
     created_at |-> Micros(e.created), updated_at |-> Micros(e.updated)]

EventParams(e) ==
    [user_id |-> e.user, event_type |-> e.type,
     contact_name |-> e.contact.name, contact_ref |-> e.contact.ref,
     location_lat |-> e.location.lat, location_lng |-> e.location.lng,
     location_label |-> e.location.label, description |-> e.description,
     starts_at |-> Micros(e.startsAt.at), event_status |-> e.status,
     reminder_type |-> e.reminder,
     created_at |-> Micros(e.created), updated_at |-> Micros(e.updated)]

(* What Postgres refuses of a row although the validators accept it.       *)
Refused(row) ==
    {row.contact_name, row.contact_ref, row.location_label, row.description}
        \cap NulText # {}

(* A timestamptz is read in the server's zone.                             *)
ToDomainEvent(i, row) ==
    [id |-> i, user |-> row.user_id, type |-> row.event_type,
     contact |-> [name |-> row.contact_name, ref |-> row.contact_ref],
     location |-> [lat |-> row.location_lat, lng |-> row.location_lng,
                   label |-> row.location_label],
     description |-> row.description,
     startsAt |-> [at |-> row.starts_at, fits |-> row.starts_at <= LastYearEnd],
     status |-> row.event_status, reminder |-> row.reminder_type,
     created |-> row.created_at, updated |-> row.updated_at]

-----------------------------------------------------------------------------
(* To JSON.                                                                *)

ToEventResponse(e) ==
    [id |-> e.id, userId |-> e.user, eventType |-> e.type,
     contactName |-> e.contact.name, contactRef |-> e.contact.ref,
     locationLat |-> e.location.lat, locationLng |-> e.location.lng,
     locationLabel |-> e.location.label, description |-> e.description,
     startsAt |-> e.startsAt.at, eventStatus |-> e.status,
     reminderType |-> e.reminder, createdAt |-> e.created,
     updatedAt |-> e.updated]

(* time.Time.MarshalJSON refuses a year that has not four digits.          *)
CanEncode(es) == \A k \in DOMAIN es : es[k].startsAt.fits

Content(j) == [k \in ContentKey |-> j[k]]
=============================================================================

----------------------------- MODULE ErrorCodes -----------------------------
(***************************************************************************)
(* The stable error codes of the API and the HTTP status each one gets.    *)
(* "none": no answer yet; "ok": the handler writes its success response.   *)
(***************************************************************************)
EXTENDS Naturals

ErrorCode ==
    {"invalid_event_type", "invalid_status", "invalid_reminder",
     "empty_description", "invalid_location", "event_not_found",
     "user_not_found", "email_taken", "google_link_conflict",
     "cannot_unlink_google", "email_not_verified", "invalid_google_token",
     "invalid_verification_token", "verification_token_expired",
     "invalid_credential", "validation_failed", "unauthorized",
     "internal_error"}

(* Codes the HTTP adapter answers by itself, for a body or a field that it *)
(* refuses and for a method that a path does not have.                     *)
CodecCode == {"bad_request", "payload_too_large"}

RouterCode == {"method_not_allowed"}

Code == ErrorCode \cup CodecCode \cup RouterCode \cup {"none", "ok"}

StatusForCode(code) ==
    CASE code \in {"invalid_event_type", "invalid_status", "invalid_reminder",
                   "empty_description", "invalid_location",
                   "validation_failed"} -> 422
      [] code \in {"event_not_found", "user_not_found"} -> 404
      [] code \in {"email_taken", "google_link_conflict",
                   "cannot_unlink_google"} -> 409
      [] code \in {"invalid_credential", "unauthorized"} -> 401
      [] code = "email_not_verified" -> 403
      [] code \in {"bad_request", "invalid_google_token",
                   "invalid_verification_token"} -> 400
      [] code = "verification_token_expired" -> 410
      [] code = "method_not_allowed" -> 405
      [] code = "payload_too_large" -> 413
      [] OTHER -> 500
=============================================================================

-------------------------------- MODULE Errors --------------------------------
(***************************************************************************)
(* How an error travels: libs/models/src/error/error-codes-map.ts, the     *)
(* exception filters of the services and the answers they make of it.      *)
(* A message is what the filters look at: either an error code, or the set *)
(* of phrases its text holds among those the gateway searches for.         *)
(***************************************************************************)
EXTENDS Integers, Sequences, FiniteSetsExt

NoCode == "none"

(***************************************************************************)
(* ERROR_CODE_TO_HTTP_STATUS                                               *)
(***************************************************************************)
CodesOf == [s \in {400, 401, 403, 404, 409, 429, 500, 502, 503} |->
  CASE s = 400 -> {"VERIFICATION_TOKEN_INVALID", "VERIFICATION_TOKEN_EXPIRED", "EMAIL_ALREADY_VERIFIED",
                   "USER_UPDATE_FAILED", "INVALID_USER_ID", "VALIDATION_FAILED", "INVALID_INPUT", "BAD_REQUEST",
                   "MISSING_REQUIRED_FIELD", "INVALID_FORMAT", "INVALID_EMAIL", "INVALID_PASSWORD"}
    [] s = 401 -> {"INVALID_CREDENTIALS", "INVALID_TOKEN", "TOKEN_EXPIRED", "TOKEN_NOT_FOUND",
                   "REFRESH_TOKEN_INVALID", "REFRESH_TOKEN_NOT_FOUND", "AUTHENTICATION_FAILED",
                   "SESSION_EXPIRED", "TOKEN_PAYLOAD_MISMATCH", "UNAUTHORIZED"}
    [] s = 403 -> {"FORBIDDEN", "ACCESS_DENIED", "PERMISSION_DENIED", "INSUFFICIENT_PERMISSIONS",
                   "EMAIL_NOT_VERIFIED", "EMAIL_VERIFICATION_REQUIRED", "USER_NOT_ACTIVE", "USER_NO_LONGER_EXISTS",
                   "CSRF_TOKEN_MISSING", "CSRF_TOKEN_INVALID", "CSRF_VALIDATION_FAILED"}
    [] s = 404 -> {"NOT_FOUND", "USER_NOT_FOUND", "RESOURCE_NOT_FOUND"}
    [] s = 409 -> {"UNVERIFIED_ACCOUNT_EXISTS", "ALREADY_EXISTS", "EMAIL_ALREADY_EXISTS", "USER_ALREADY_EXISTS",
                   "DUPLICATE_ENTRY", "CONFLICT"}
    [] s = 429 -> {"RATE_LIMIT_EXCEEDED", "TOO_MANY_REQUESTS"}
    [] s = 500 -> {"INTERNAL_SERVER_ERROR", "SERVER_ERROR", "DATABASE_ERROR"}
    [] s = 502 -> {"EXTERNAL_SERVICE_ERROR"}
    [] s = 503 -> {"SERVICE_UNAVAILABLE"}]

ErrorCodes == UNION {CodesOf[s] : s \in DOMAIN CodesOf}
StatusOf(code) == CHOOSE s \in DOMAIN CodesOf : code \in CodesOf[s]

(***************************************************************************)
(* ERROR_CODE_MESSAGES: the phrases in the text of a code                  *)
(***************************************************************************)
PhrasesOf(code) ==
  CASE code = "INVALID_CREDENTIALS" -> {"invalid email or password"}
    [] code = "REFRESH_TOKEN_INVALID" -> {"invalid refresh token"}
    [] code = "REFRESH_TOKEN_NOT_FOUND" -> {"refresh token not found", "not found"}
    [] code = "USER_NOT_FOUND" -> {"user not found", "not found"}
    [] code \in {"TOKEN_NOT_FOUND", "NOT_FOUND"} -> {"not found"}
    [] code = "AUTHENTICATION_FAILED" -> {"authentication failed"}
    [] code = "UNAUTHORIZED" -> {"unauthorized"}
    [] code = "FORBIDDEN" -> {"forbidden"}
    [] code = "ACCESS_DENIED" -> {"access denied"}
    [] code = "INSUFFICIENT_PERMISSIONS" -> {"insufficient permission"}
    [] code = "EMAIL_NOT_VERIFIED" -> {"verify your email"}
    [] code \in {"UNVERIFIED_ACCOUNT_EXISTS", "ALREADY_EXISTS", "USER_ALREADY_EXISTS"} -> {"already exists"}
    [] code = "DUPLICATE_ENTRY" -> {"duplicate"}
    [] code = "CONFLICT" -> {"conflict"}
    [] code = "INVALID_INPUT" -> {"invalid input"}
    [] code \in {"CSRF_TOKEN_MISSING", "CSRF_TOKEN_INVALID", "CSRF_VALIDATION_FAILED"} -> {"validation failed"}
    [] code = "BAD_REQUEST" -> {"bad request"}
    [] code = "MISSING_REQUIRED_FIELD" -> {"missing required"}
    [] code = "INVALID_FORMAT" -> {"invalid format"}
    [] OTHER -> {}

(***************************************************************************)
(* inferErrorCodeFromMessage of the gateway's filter: the first rule wins  *)
(***************************************************************************)
Rules == <<
  <<"INVALID_CREDENTIALS", {"invalid credentials", "invalid email or password"}>>,
  <<"INVALID_TOKEN", {"invalid token", "token expired", "session expired"}>>,
  <<"REFRESH_TOKEN_INVALID", {"invalid refresh token", "refresh token not found"}>>,
  <<"AUTHENTICATION_FAILED", {"authentication failed", "unauthorized"}>>,
  <<"PERMISSION_DENIED", {"access denied", "permission denied", "insufficient permission"}>>,
  <<"FORBIDDEN", {"forbidden"}>>,
  <<"EMAIL_NOT_VERIFIED", {"verify your email", "email not verified"}>>,
  <<"USER_NOT_FOUND", {"user not found"}>>,
  <<"NOT_FOUND", {"not found", "does not exist"}>>,
  <<"EMAIL_ALREADY_EXISTS", {"user with this email already exists"}>>,
  <<"ALREADY_EXISTS", {"already exists", "duplicate"}>>,
  <<"CONFLICT", {"conflict"}>>,
  <<"VALIDATION_FAILED", {"validation failed", "invalid input"}>>,
  <<"BAD_REQUEST", {"bad request", "missing required", "invalid format"}>> >>

\* Variant: the last rule wins.
InferErrorCodeLast(phrases) ==
  LET hits == {i \in DOMAIN Rules : Rules[i][2] \cap phrases # {}}
  IN  IF hits = {} THEN NoCode ELSE Rules[Max(hits)][1]

InferErrorCode(phrases) ==
  LET hits == {i \in DOMAIN Rules : Rules[i][2] \cap phrases # {}}
  IN  IF hits = {} THEN NoCode ELSE Rules[Min(hits)][1]

(***************************************************************************)
(* Exceptions and the answers the filters give                             *)
(***************************************************************************)
HttpException(status, code) == [http |-> TRUE, status |-> status, code |-> code, phrases |-> {}]
TextException(status, phrases) == [http |-> TRUE, status |-> status, code |-> NoCode, phrases |-> phrases]
PlainError(phrases) == [http |-> FALSE, status |-> 500, code |-> NoCode, phrases |-> phrases]

\* getErrorResponse of the shared filter
ErrorResponse(e) ==
  [status |-> e.status,
   code |-> e.code,
   phrases |-> IF e.code # NoCode THEN PhrasesOf(e.code) ELSE IF e.http THEN e.phrases ELSE {}]

\* catch of the gateway's filter
GatewayResponse(e) ==
  LET code == IF e.http THEN NoCode ELSE InferErrorCode(e.phrases)
  IN  ErrorResponse(IF code # NoCode THEN HttpException(StatusOf(code), code) ELSE e)
=============================================================================

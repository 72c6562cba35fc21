------------------------------- MODULE HttpApi -------------------------------
(***************************************************************************)
(* One request through the HTTP interface (api/app.py): the body limit,    *)
(* the request's JSON, the bearer credential (api/auth.py), the validation *)
(* of the request model, the route's own checks, the call of the backend   *)
(* and the mapping of its outcome to a status; and the callback route,     *)
(* which does all of these itself.  What the backend does is the subject   *)
(* of other modules: here it changes its state or not.                     *)
(***************************************************************************)
EXTENDS Integers, FiniteSets

CONSTANTS
  Limit,   \* MAX_REQUEST_BODY_BYTES, in units of a chunk's size
  Chunks,  \* sizes of the chunks of a body
  Scopes,  \* scopes a configured credential may hold, one per credential
  None     \* no header, no scope, no answer

VARIABLES
  runtime,  \* what this deployment configures: credentials, live, training, callback
  request,  \* the request as far as it has been read
  changes,  \* how many times the backend's state was changed for it
  answer    \* the response: its status and who decided it

httpVars == <<runtime, request, changes, answer>>

(* A route: its scope, the optional service it needs, the statuses it maps *)
(* that service's errors to, the status of a result, and whether no result *)
(* is a 404.                                                               *)
Route(name, scope, needs, maps, success, missing) ==
  [name |-> name, scope |-> scope, needs |-> needs, maps |-> maps,
   success |-> success, missing |-> missing]
Read(name, missing) == Route(name, None, "backend", {}, 200, missing)
Change(name, scope, success) == Route(name, scope, "backend", {}, success, FALSE)

HealthRoutes == {Read("health", FALSE), Read("memory graph", FALSE)}
EpisodeRoutes == {Read("episodes", FALSE), Read("episode", TRUE), Read("episode notes", TRUE)}
NoteRoutes ==
  {Change("create note", "episodes:write", 201),
   Route("update note", "episodes:write", "backend", {}, 200, TRUE)}
TelemetryRoutes == {Read("telemetry", TRUE), Read("replay", TRUE)}
LiveOptions == {Read("live options", FALSE)}
LiveStart == {Route("start live", "episodes:write", "live", {422, 409, 503}, 202, FALSE)}
LiveRoutes ==
  {Route("live status", None, "live", {404}, 200, FALSE),
   Route("cancel live", "episodes:write", "live", {404}, 202, FALSE)}
TrainingRoutes ==
  {Route("start training", "training:write", "training", {409, 503}, 202, FALSE),
   Route("training jobs", None, "training", {}, 200, FALSE),
   Route("training job", None, "training", {404}, 200, FALSE)}
VideoRoutes ==
  {Route("video stream", None, "live", {404}, 200, FALSE),
   Route("video frame", None, "live", {404}, 200, TRUE)}
ApprovalRoutes ==
  {Read("pending approvals", FALSE), Change("decide approval", "approvals:write", 200)}
WorkflowRoutes ==
  {Change("review workflow", "workflows:write", 201), Read("workflow", TRUE),
   Change("execute workflow", "workflows:write", 200),
   Change("resume workflow", "workflows:write", 200)}
CorrectionRoutes ==
  {Change("submit correction", "corrections:write", 201),
   Change("decide correction", "corrections:write", 200)}
PolicyRoutes ==
  {Read("policies", FALSE), Read("eligibility", FALSE), Read("assets", FALSE),
   Read("asset", TRUE)}
CallbackRoute == Route("callback", None, "callback", {401, 403, 409, 422, 502}, 200, FALSE)

Routes ==
  HealthRoutes \cup EpisodeRoutes \cup NoteRoutes \cup TelemetryRoutes \cup LiveOptions
    \cup LiveStart \cup LiveRoutes \cup TrainingRoutes \cup VideoRoutes
    \cup ApprovalRoutes \cup WorkflowRoutes \cup CorrectionRoutes \cup PolicyRoutes
    \cup {CallbackRoute}
Changing(route) == route.scope # None \/ route.name = "callback"

(* create_app: the services a deployment may leave unconfigured.           *)
Init ==
  /\ runtime \in [credentials : BOOLEAN, live : BOOLEAN, training : BOOLEAN, callback : BOOLEAN]
  /\ request = [at |-> "headers", route |-> None, read |-> 0, principal |-> None, valid |-> None]
  /\ changes = 0
  /\ answer = None

At(step) == answer = None /\ request.at = step
Goes(step) == request' = [request EXCEPT !.at = step]
Continues == UNCHANGED <<runtime, changes, answer>>
Answers(status, by) ==
  /\ answer' = [status |-> status, by |-> by]
  /\ UNCHANGED <<runtime, request, changes>>

-----------------------------------------------------------------------------
(* _RequestBodyLimitMiddleware: first the declared length, then the bytes  *)
(* that arrive, whatever was declared.                                     *)
Declared == {"absent", "not a number", "negative", "within", "over"}
Acceptable(declared) == declared \in {"absent", "within"}

\* Mutant: an acceptable declared length is taken for the body's.
TooLargeUndeclared(size) == FALSE
TooLarge(size) == size > Limit

ReadHeaders(route, declared) ==
  /\ At("headers")
  /\ Acceptable(declared)
  /\ request' = [request EXCEPT !.at = "body", !.route = route]
  /\ Continues

RefuseHeaders(declared) ==
  /\ At("headers")
  /\ ~Acceptable(declared)
  /\ Answers(IF declared = "over" THEN 413 ELSE 400, "http")

ReadChunk(size, more) ==
  /\ At("body")
  /\ request.read <= Limit
  /\ IF TooLarge(request.read + size)
       THEN Answers(413, "http")
       ELSE /\ request' = [request EXCEPT !.read = @ + size,
                !.at = IF more THEN "body"
                       ELSE IF request.route = CallbackRoute THEN "callback" ELSE "json"]
            /\ Continues

(* The client goes away before its body is complete: no route reads it.    *)
Disconnect ==
  /\ At("body")
  /\ Answers(None, "client")

-----------------------------------------------------------------------------
(* A route with a body decodes its JSON before its dependencies run; its   *)
(* model is validated after them.                                          *)
DecodeBody(valid) ==
  /\ At("json")
  /\ IF valid = "not json" THEN Answers(422, "http")
     ELSE /\ request' = [request EXCEPT !.valid = valid,
                           !.at = IF request.route.scope = None THEN "model" ELSE "credential"]
          /\ Continues

(* require_principal: no credential is configured, none or another scheme  *)
(* is supplied, no configured digest matches, or the scope is missing.     *)
\* Mutant: any authenticated principal will do.
Authenticated(scope) == TRUE
InScope(scope) == scope = request.route.scope

Authorize(scope) ==
  /\ At("credential")
  /\ IF ~runtime.credentials \/ scope = None
       THEN Answers(401, "http")
       ELSE IF ~InScope(scope)
         THEN Answers(403, "http")
         ELSE /\ request' = [request EXCEPT !.principal = scope, !.at = "model"]
              /\ Continues

ValidateModel ==
  /\ At("model")
  /\ IF request.valid = "not valid" THEN Answers(422, "http")
     ELSE Goes("service") /\ Continues

(* _live_control and _training_control.                                    *)
Configured(service) ==
  CASE service = "live" -> runtime.live
    [] service = "training" -> runtime.training
    [] OTHER -> TRUE

FindService ==
  /\ At("service")
  /\ IF Configured(request.route.needs) THEN Goes("call") /\ Continues
     ELSE Answers(503, "http")

(* The callback: its bearer token, its content type, a body that is not    *)
(* empty, JSON of one field, and only then the dispatcher.                 *)
Callback(token, typed, shape) ==
  /\ At("callback")
  /\ CASE ~runtime.callback -> Answers(503, "http")
       [] runtime.callback /\ ~token -> Answers(401, "http")
       [] runtime.callback /\ token /\ ~typed -> Answers(415, "http")
       [] runtime.callback /\ token /\ typed /\ request.read = 0 -> Answers(422, "http")
       [] runtime.callback /\ token /\ typed /\ request.read # 0 /\ shape = "not json" ->
            Answers(400, "http")
       [] runtime.callback /\ token /\ typed /\ request.read # 0 /\ shape = "not valid" ->
            Answers(422, "http")
       [] OTHER -> /\ request' = [request EXCEPT !.at = "call", !.valid = shape,
                                    !.principal = "callback"]
                   /\ Continues

-----------------------------------------------------------------------------
(* The call returns a result, or nothing; it raises what the route maps to *)
(* a status, an ApiBackendError, or anything else, before or after it      *)
(* changed the backend's state.                                            *)
Effects == IF Changing(request.route) THEN {0, 1} ELSE {0}

Succeed ==
  /\ At("call")
  /\ changes' = changes + (IF Changing(request.route) THEN 1 ELSE 0)
  /\ answer' = [status |-> request.route.success, by |-> "backend"]
  /\ UNCHANGED <<runtime, request>>

FindNothing ==
  /\ At("call") /\ request.route.missing
  /\ Answers(404, "backend")

Raise(statuses) ==
  /\ At("call")
  /\ \E status \in statuses, effect \in Effects :
       /\ answer' = [status |-> status, by |-> "backend"]
       /\ changes' = changes + effect
  /\ UNCHANGED <<runtime, request>>

RaiseMapped == Raise(request.route.maps)
RaiseBackendError == Raise({404, 409, 422, 503})
RaiseUnexpected == Raise({500})

Next ==
  \/ \E route \in Routes, declared \in Declared :
       ReadHeaders(route, declared)
  \/ \E size \in Chunks, more \in BOOLEAN : ReadChunk(size, more)
  \/ Disconnect \/ \E declared \in Declared : RefuseHeaders(declared)
  \/ \E valid \in {"not json", "not valid", "valid"} : DecodeBody(valid)
  \/ \E scope \in Scopes \cup {None} : Authorize(scope)
  \/ ValidateModel \/ FindService
  \/ \E token, typed \in BOOLEAN, shape \in {"not json", "not valid", "valid"} :
       Callback(token, typed, shape)
  \/ Succeed \/ FindNothing \/ RaiseMapped \/ RaiseBackendError \/ RaiseUnexpected

Spec == Init /\ [][Next]_httpVars

-----------------------------------------------------------------------------
(* The backend's state changes at most once for a request, and only for    *)
(* one whose whole body was within the limit however it was sent and       *)
(* declared, whose model was valid, and whose credential held the scope of *)
(* the route (or the callback's own token); a refusal of the interface     *)
(* itself changes nothing, and a success of a changing route changed it.   *)
ChangesEarned ==
  /\ changes <= 1
  /\ changes = 1 =>
       /\ Changing(request.route)
       /\ request.read <= Limit
       /\ request.valid = "valid"
       /\ request.principal =
            IF request.route = CallbackRoute THEN "callback" ELSE request.route.scope
       /\ answer.by = "backend"
  /\ (answer # None /\ answer.by = "backend" /\ answer.status \in 200..299
        /\ Changing(request.route)) => changes = 1
=============================================================================

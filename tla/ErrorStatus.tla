---------------------------- MODULE ErrorStatus -----------------------------
(***************************************************************************)
(* How a domain exception becomes an HTTP answer: the classes of           *)
(* domain/exceptions.py with their base classes, the handlers that         *)
(* api/v1/errors.py registers, the search for the handler along the base   *)
(* classes, and the status, the code and the message of the answer.        *)
(***************************************************************************)
EXTENDS Integers

\* Two lists of classes as one; none is in both.
Union(f, g) == [x \in DOMAIN f \cup DOMAIN g |-> IF x \in DOMAIN f THEN f[x] ELSE g[x]]

-----------------------------------------------------------------------------
(* The exceptions: each with its base class *)

RegistryErrors ==
    [NotFoundError |-> "AgentABIError", ConflictError |-> "AgentABIError",
     ProjectNotFound |-> "NotFoundError", ComponentNotFound |-> "NotFoundError",
     DuplicateComponent |-> "ConflictError", ComponentVersionNotFound |-> "NotFoundError",
     DuplicateComponentVersion |-> "ConflictError", InvalidComponentContent |-> "AgentABIError",
     GraphComponentNotFound |-> "NotFoundError", GraphUnavailable |-> "AgentABIError",
     InvalidDependencyRelationship |-> "AgentABIError",
     CompatibilityScanNotFound |-> "NotFoundError", SchemaNormalizationError |-> "AgentABIError",
     InvalidCompatibilityComparison |-> "AgentABIError",
     UnsupportedCompatibilityType |-> "AgentABIError"]

TrajectoryErrors ==
    [TrajectoryNotFound |-> "NotFoundError", TrajectoryAlreadyExists |-> "ConflictError",
     TrajectoryTerminal |-> "ConflictError", InvalidTrajectoryTransition |-> "ConflictError",
     InvalidTrajectoryEvent |-> "AgentABIError", DuplicateTrajectoryEvent |-> "ConflictError",
     TrajectoryPayloadTooLarge |-> "AgentABIError"]

ReplayErrors ==
    [ReplayNotFound |-> "NotFoundError", ReplayAlreadyExists |-> "ConflictError",
     InvalidReplayTransition |-> "ConflictError", InvalidReplaySubstitution |-> "AgentABIError",
     ReplayExecutorUnavailable |-> "AgentABIError", ReplayExecutionFailed |-> "AgentABIError"]

AuthenticationErrors ==
    [AuthenticationError |-> "AgentABIError", AuthenticationRequired |-> "AuthenticationError",
     InvalidToken |-> "AuthenticationError", ExpiredToken |-> "AuthenticationError",
     UnknownUser |-> "AuthenticationError", DisabledUser |-> "AuthenticationError"]

OAuthErrors ==
    [OAuthError |-> "AgentABIError", OAuthStateInvalid |-> "OAuthError",
     OAuthStateStoreUnavailable |-> "OAuthError", GitHubOAuthNotConfigured |-> "OAuthError",
     MissingAuthorizationCode |-> "OAuthError", GitHubAuthorizationDenied |-> "OAuthError",
     GitHubTokenExchangeFailed |-> "OAuthError", GitHubIdentityLookupFailed |-> "OAuthError",
     MalformedGitHubIdentity |-> "OAuthError"]

AccessErrors ==
    [AuthorizationError |-> "AgentABIError", PermissionDenied |-> "AuthorizationError",
     OrganizationAccessDenied |-> "AuthorizationError",
     ProjectAccessDenied |-> "AuthorizationError", DuplicateProject |-> "ConflictError",
     OrganizationAlreadyProvisioned |-> "ConflictError", RateLimited |-> "AgentABIError",
     RateLimiterUnavailable |-> "AgentABIError"]

WebhookErrors ==
    [WebhookSignatureError |-> "AgentABIError", MissingWebhookSignature |-> "WebhookSignatureError",
     MalformedWebhookSignature |-> "WebhookSignatureError",
     InvalidWebhookSignature |-> "WebhookSignatureError",
     GitHubWebhookNotConfigured |-> "AgentABIError", MissingWebhookDeliveryId |-> "AgentABIError",
     WebhookDeliveryConflict |-> "ConflictError"]

EvidenceErrors ==
    [LLMError |-> "AgentABIError", LLMProviderNotConfigured |-> "LLMError",
     LLMProviderUnavailable |-> "LLMError", LLMProviderTimeout |-> "LLMError",
     LLMInvalidResponse |-> "LLMError", DifferentialReportNotFound |-> "NotFoundError",
     ReplayNotReadyForDifferential |-> "ConflictError",
     RiskAssessmentNotFound |-> "NotFoundError",
     RiskAssessmentInputRequired |-> "AgentABIError", LLMExplanationFailed |-> "LLMError"]

GitHubErrors ==
    [GitHubRepositoryNotMapped |-> "NotFoundError",
     GitHubRepositoryMappingNotFound |-> "NotFoundError",
     DuplicateGitHubRepositoryMapping |-> "ConflictError",
     GitHubPullRequestAnalysisNotFound |-> "NotFoundError",
     InvalidGitHubPullRequestPayload |-> "AgentABIError",
     MissingAgentABIConfiguration |-> "AgentABIError",
     InvalidAgentABIConfiguration |-> "AgentABIError", GitHubAPIUnavailable |-> "AgentABIError",
     GitHubAuthenticationFailed |-> "AgentABIError", GitHubCheckPublishFailed |-> "AgentABIError",
     GitHubAnalysisHeadShaMismatch |-> "AgentABIError"]

\* Anything else, such as an IntegrityError that nobody catches, is an
\* Exception only.
Base ==
    Union(Union(Union(RegistryErrors, TrajectoryErrors), Union(ReplayErrors, AuthenticationErrors)),
        Union(Union(Union(OAuthErrors, AccessErrors), Union(WebhookErrors, EvidenceErrors)),
            Union(GitHubErrors, [AgentABIError |-> "Exception", IntegrityError |-> "Exception",
                               Crash |-> "Exception"])))

-----------------------------------------------------------------------------
(* The handlers *)

\* _DOMAIN_ERROR_MAP
DomainErrorMap ==
    [NotFoundError |-> 404, ConflictError |-> 409, InvalidComponentContent |-> 422,
     InvalidDependencyRelationship |-> 422, GraphUnavailable |-> 503,
     InvalidCompatibilityComparison |-> 422, UnsupportedCompatibilityType |-> 422,
     SchemaNormalizationError |-> 422, InvalidTrajectoryEvent |-> 422,
     TrajectoryPayloadTooLarge |-> 422, InvalidReplaySubstitution |-> 422,
     ReplayExecutorUnavailable |-> 503, ReplayExecutionFailed |-> 422, OAuthStateInvalid |-> 401,
     GitHubAuthorizationDenied |-> 401, MissingAuthorizationCode |-> 400,
     GitHubTokenExchangeFailed |-> 502, GitHubIdentityLookupFailed |-> 502,
     MalformedGitHubIdentity |-> 502, OAuthStateStoreUnavailable |-> 503,
     GitHubOAuthNotConfigured |-> 503, PermissionDenied |-> 403,
     OrganizationAccessDenied |-> 404, ProjectAccessDenied |-> 404,
     RateLimiterUnavailable |-> 503, WebhookSignatureError |-> 401,
     GitHubWebhookNotConfigured |-> 503, MissingWebhookDeliveryId |-> 400,
     LLMProviderNotConfigured |-> 503, LLMProviderTimeout |-> 504, LLMProviderUnavailable |-> 502,
     LLMInvalidResponse |-> 502, LLMExplanationFailed |-> 502,
     InvalidGitHubPullRequestPayload |-> 400, MissingAgentABIConfiguration |-> 422,
     InvalidAgentABIConfiguration |-> 422, GitHubAPIUnavailable |-> 502,
     GitHubAuthenticationFailed |-> 502, GitHubCheckPublishFailed |-> 502,
     GitHubAnalysisHeadShaMismatch |-> 409, AgentABIError |-> 400]

\* register_exception_handlers
Handlers ==
    Union(DomainErrorMap, [AuthenticationError |-> 401, RateLimited |-> 429, Exception |-> 500])

\* The nearest class that has a handler.
HandlerOf(error) ==
    LET of[e \in DOMAIN Base \cup {"Exception"}] ==
            IF e \in DOMAIN Handlers THEN e ELSE of[Base[e]]
    IN  of[error]

-----------------------------------------------------------------------------
(* The answer *)

Status(error) == Handlers[HandlerOf(error)]

\* The code that goes with a status, which 401 leaves open.
CodeFor(status) ==
    CASE status = 400 -> "INVALID_REQUEST"
      [] status = 401 -> "INVALID_TOKEN"
      [] status = 403 -> "AUTHORIZATION_DENIED"
      [] status = 404 -> "RESOURCE_NOT_FOUND"
      [] status = 409 -> "CONFLICT"
      [] status = 422 -> "VALIDATION_ERROR"
      [] status = 429 -> "RATE_LIMITED"
      [] status = 500 -> "INTERNAL_ERROR"
      [] status = 503 -> "SERVICE_UNAVAILABLE"
      [] status \in {502, 504} -> "UPSTREAM_ERROR"

Code(error) ==
    CASE error = "ExpiredToken" -> "TOKEN_EXPIRED"
      [] error = "AuthenticationRequired" -> "AUTHENTICATION_REQUIRED"
      [] HandlerOf(error) = "WebhookSignatureError" -> "INVALID_WEBHOOK_SIGNATURE"
      [] OTHER -> CodeFor(Status(error))

\* The message is str(exc).  A class has a wording of its own, for which its
\* name stands here ("Project {id} not found" of ProjectNotFound, with the id
\* of the request); but two classes say "Not found" and no more, signature
\* errors inherit their wording, and what nobody catches is worded by its
\* handler.
Message(error) ==
    CASE error \in {"OrganizationAccessDenied", "ProjectAccessDenied"} -> "Not found"
      [] HandlerOf(error) = "WebhookSignatureError" -> "Invalid webhook signature"
      [] HandlerOf(error) = "Exception" -> "An internal error occurred"
      [] OTHER -> error

\* _envelope; the request_id is a new one each time.
ErrorAnswer(error) ==
    [status |-> Status(error), code |-> Code(error), message |-> Message(error)]

=============================================================================

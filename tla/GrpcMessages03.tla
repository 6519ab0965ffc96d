--------------------------- MODULE GrpcMessages03 ---------------------------
(***************************************************************************)
(* The messages of protocol 0.3 as its gRPC transport writes and reads     *)
(* them.                                                                   *)
(***************************************************************************)
EXTENDS WireSchema

SendMessageConfiguration == <<
    Repeated(1, "acceptedOutputModes", "string"),
    Optional(2, "pushNotification", "PushNotificationConfig"),
    Implicit(3, "historyLength", "int32"), Implicit(4, "blocking", "bool")>>
Task == <<
    Implicit(1, "id", "string"), Implicit(2, "contextId", "string"),
    Optional(3, "status", "TaskStatus"), Repeated(4, "artifacts", "Artifact"),
    Repeated(5, "history", "Message"), Optional(6, "metadata", "Struct")>>
TaskStatus == <<
    Implicit(1, "state", "int32"), Optional(2, "update", "Message"),
    Optional(3, "timestamp", "Timestamp")>>
Part == <<
    OneOf("part", 1, "text", "string"), OneOf("part", 2, "file", "FilePart"),
    OneOf("part", 3, "data", "DataPart")>>
FilePart == <<
    OneOf("file", 1, "fileWithUri", "string"), OneOf("file", 2, "fileWithBytes", "bytes"),
    Implicit(3, "mimeType", "string")>>
DataPart == <<Optional(1, "data", "Struct")>>
Message == <<
    Implicit(1, "messageId", "string"), Implicit(2, "contextId", "string"),
    Implicit(3, "taskId", "string"), Implicit(4, "role", "int32"), Repeated(5, "content", "Part"),
    Optional(6, "metadata", "Struct"), Repeated(7, "extensions", "string")>>
Artifact == <<
    Implicit(1, "artifactId", "string"), Implicit(3, "name", "string"),
    Implicit(4, "description", "string"), Repeated(5, "parts", "Part"),
    Optional(6, "metadata", "Struct"), Repeated(7, "extensions", "string")>>
TaskStatusUpdateEvent == <<
    Implicit(1, "taskId", "string"), Implicit(2, "contextId", "string"),
    Optional(3, "status", "TaskStatus"), Implicit(4, "final", "bool"),
    Optional(5, "metadata", "Struct")>>
TaskArtifactUpdateEvent == <<
    Implicit(1, "taskId", "string"), Implicit(2, "contextId", "string"),
    Optional(3, "artifact", "Artifact"), Implicit(4, "append", "bool"),
    Implicit(5, "lastChunk", "bool"), Optional(6, "metadata", "Struct")>>
PushNotificationConfig == <<
    Implicit(1, "id", "string"), Implicit(2, "url", "string"), Implicit(3, "token", "string"),
    Optional(4, "authentication", "AuthenticationInfo")>>
AuthenticationInfo == <<Repeated(1, "schemes", "string"), Implicit(2, "credentials", "string")>>
AgentInterface == <<Implicit(1, "url", "string"), Implicit(2, "transport", "string")>>
AgentCard == <<
    Implicit(16, "protocolVersion", "string"), Implicit(1, "name", "string"),
    Implicit(2, "description", "string"), Implicit(3, "url", "string"),
    Implicit(14, "preferredTransport", "string"),
    Repeated(15, "additionalInterfaces", "AgentInterface"),
    Optional(4, "provider", "AgentProvider"), Implicit(5, "version", "string"),
    Implicit(6, "documentationUrl", "string"), Optional(7, "capabilities", "AgentCapabilities"),
    Map(8, "securitySchemes", "AgentCard_SecuritySchemesEntry"),
    Repeated(9, "security", "Security"), Repeated(10, "defaultInputModes", "string"),
    Repeated(11, "defaultOutputModes", "string"), Repeated(12, "skills", "AgentSkill"),
    Implicit(13, "supportsAuthenticatedExtendedCard", "bool"),
    Repeated(17, "signatures", "AgentCardSignature")>>
AgentCard_SecuritySchemesEntry == <<
    Implicit(1, "key", "string"), Optional(2, "value", "SecurityScheme")>>
AgentProvider == <<Implicit(1, "url", "string"), Implicit(2, "organization", "string")>>
AgentCapabilities == <<
    Implicit(1, "streaming", "bool"), Implicit(2, "pushNotifications", "bool"),
    Repeated(3, "extensions", "AgentExtension")>>
AgentExtension == <<
    Implicit(1, "uri", "string"), Implicit(2, "description", "string"),
    Implicit(3, "required", "bool"), Optional(4, "params", "Struct")>>
AgentSkill == <<
    Implicit(1, "id", "string"), Implicit(2, "name", "string"),
    Implicit(3, "description", "string"), Repeated(4, "tags", "string"),
    Repeated(5, "examples", "string"), Repeated(6, "inputModes", "string"),
    Repeated(7, "outputModes", "string"), Repeated(8, "security", "Security")>>
AgentCardSignature == <<
    Implicit(1, "protected", "string"), Implicit(2, "signature", "string"),
    Optional(3, "header", "Struct")>>
TaskPushNotificationConfig == <<
    Implicit(1, "name", "string"),
    Optional(2, "pushNotificationConfig", "PushNotificationConfig")>>
StringList == <<Repeated(1, "list", "string")>>
Security == <<Map(1, "schemes", "Security_SchemesEntry")>>
Security_SchemesEntry == <<Implicit(1, "key", "string"), Optional(2, "value", "StringList")>>
SecurityScheme == <<
    OneOf("scheme", 1, "apiKeySecurityScheme", "APIKeySecurityScheme"),
    OneOf("scheme", 2, "httpAuthSecurityScheme", "HTTPAuthSecurityScheme"),
    OneOf("scheme", 3, "oauth2SecurityScheme", "OAuth2SecurityScheme"),
    OneOf("scheme", 4, "openIdConnectSecurityScheme", "OpenIdConnectSecurityScheme"),
    OneOf("scheme", 5, "mtlsSecurityScheme", "MutualTlsSecurityScheme")>>
APIKeySecurityScheme == <<
    Implicit(1, "description", "string"), Implicit(2, "location", "string"),
    Implicit(3, "name", "string")>>
HTTPAuthSecurityScheme == <<
    Implicit(1, "description", "string"), Implicit(2, "scheme", "string"),
    Implicit(3, "bearerFormat", "string")>>
OAuth2SecurityScheme == <<
    Implicit(1, "description", "string"), Optional(2, "flows", "OAuthFlows"),
    Implicit(3, "oauth2MetadataUrl", "string")>>
OpenIdConnectSecurityScheme == <<
    Implicit(1, "description", "string"), Implicit(2, "openIdConnectUrl", "string")>>
MutualTlsSecurityScheme == <<Implicit(1, "description", "string")>>
OAuthFlows == <<
    OneOf("flow", 1, "authorizationCode", "AuthorizationCodeOAuthFlow"),
    OneOf("flow", 2, "clientCredentials", "ClientCredentialsOAuthFlow"),
    OneOf("flow", 3, "implicit", "ImplicitOAuthFlow"),
    OneOf("flow", 4, "password", "PasswordOAuthFlow")>>
AuthorizationCodeOAuthFlow == <<
    Implicit(1, "authorizationUrl", "string"), Implicit(2, "tokenUrl", "string"),
    Implicit(3, "refreshUrl", "string"),
    Map(4, "scopes", "AuthorizationCodeOAuthFlow_ScopesEntry")>>
AuthorizationCodeOAuthFlow_ScopesEntry == <<
    Implicit(1, "key", "string"), Implicit(2, "value", "string")>>
ClientCredentialsOAuthFlow == <<
    Implicit(1, "tokenUrl", "string"), Implicit(2, "refreshUrl", "string"),
    Map(3, "scopes", "ClientCredentialsOAuthFlow_ScopesEntry")>>
ClientCredentialsOAuthFlow_ScopesEntry == <<
    Implicit(1, "key", "string"), Implicit(2, "value", "string")>>
ImplicitOAuthFlow == <<
    Implicit(1, "authorizationUrl", "string"), Implicit(2, "refreshUrl", "string"),
    Map(3, "scopes", "ImplicitOAuthFlow_ScopesEntry")>>
ImplicitOAuthFlow_ScopesEntry == <<Implicit(1, "key", "string"), Implicit(2, "value", "string")>>
PasswordOAuthFlow == <<
    Implicit(1, "tokenUrl", "string"), Implicit(2, "refreshUrl", "string"),
    Map(3, "scopes", "PasswordOAuthFlow_ScopesEntry")>>
PasswordOAuthFlow_ScopesEntry == <<Implicit(1, "key", "string"), Implicit(2, "value", "string")>>
SendMessageRequest == <<
    Optional(1, "request", "Message"), Optional(2, "configuration", "SendMessageConfiguration"),
    Optional(3, "metadata", "Struct")>>
GetTaskRequest == <<Implicit(1, "name", "string"), Implicit(2, "historyLength", "int32")>>
CancelTaskRequest == <<Implicit(1, "name", "string")>>
GetTaskPushNotificationConfigRequest == <<Implicit(1, "name", "string")>>
DeleteTaskPushNotificationConfigRequest == <<Implicit(1, "name", "string")>>
CreateTaskPushNotificationConfigRequest == <<
    Implicit(1, "parent", "string"), Implicit(2, "configId", "string"),
    Optional(3, "config", "TaskPushNotificationConfig")>>
TaskSubscriptionRequest == <<Implicit(1, "name", "string")>>
ListTaskPushNotificationConfigRequest == <<
    Implicit(1, "parent", "string"), Implicit(2, "pageSize", "int32"),
    Implicit(3, "pageToken", "string")>>
GetAgentCardRequest == <<>>
SendMessageResponse == <<
    OneOf("payload", 1, "task", "Task"), OneOf("payload", 2, "msg", "Message")>>
StreamResponse == <<
    OneOf("payload", 1, "task", "Task"), OneOf("payload", 2, "msg", "Message"),
    OneOf("payload", 3, "statusUpdate", "TaskStatusUpdateEvent"),
    OneOf("payload", 4, "artifactUpdate", "TaskArtifactUpdateEvent")>>
ListTaskPushNotificationConfigResponse == <<
    Repeated(1, "configs", "TaskPushNotificationConfig"), Implicit(2, "nextPageToken", "string")>>

Schema == [
    SendMessageConfiguration |-> SendMessageConfiguration, Task |-> Task,
    TaskStatus |-> TaskStatus, Part |-> Part, FilePart |-> FilePart, DataPart |-> DataPart,
    Message |-> Message, Artifact |-> Artifact, TaskStatusUpdateEvent |-> TaskStatusUpdateEvent,
    TaskArtifactUpdateEvent |-> TaskArtifactUpdateEvent,
    PushNotificationConfig |-> PushNotificationConfig, AuthenticationInfo |-> AuthenticationInfo,
    AgentInterface |-> AgentInterface, AgentCard |-> AgentCard,
    AgentCard_SecuritySchemesEntry |-> AgentCard_SecuritySchemesEntry,
    AgentProvider |-> AgentProvider, AgentCapabilities |-> AgentCapabilities,
    AgentExtension |-> AgentExtension, AgentSkill |-> AgentSkill,
    AgentCardSignature |-> AgentCardSignature,
    TaskPushNotificationConfig |-> TaskPushNotificationConfig, StringList |-> StringList,
    Security |-> Security, Security_SchemesEntry |-> Security_SchemesEntry,
    SecurityScheme |-> SecurityScheme, APIKeySecurityScheme |-> APIKeySecurityScheme,
    HTTPAuthSecurityScheme |-> HTTPAuthSecurityScheme,
    OAuth2SecurityScheme |-> OAuth2SecurityScheme,
    OpenIdConnectSecurityScheme |-> OpenIdConnectSecurityScheme,
    MutualTlsSecurityScheme |-> MutualTlsSecurityScheme, OAuthFlows |-> OAuthFlows,
    AuthorizationCodeOAuthFlow |-> AuthorizationCodeOAuthFlow,
    AuthorizationCodeOAuthFlow_ScopesEntry |-> AuthorizationCodeOAuthFlow_ScopesEntry,
    ClientCredentialsOAuthFlow |-> ClientCredentialsOAuthFlow,
    ClientCredentialsOAuthFlow_ScopesEntry |-> ClientCredentialsOAuthFlow_ScopesEntry,
    ImplicitOAuthFlow |-> ImplicitOAuthFlow,
    ImplicitOAuthFlow_ScopesEntry |-> ImplicitOAuthFlow_ScopesEntry,
    PasswordOAuthFlow |-> PasswordOAuthFlow,
    PasswordOAuthFlow_ScopesEntry |-> PasswordOAuthFlow_ScopesEntry,
    SendMessageRequest |-> SendMessageRequest, GetTaskRequest |-> GetTaskRequest,
    CancelTaskRequest |-> CancelTaskRequest,
    GetTaskPushNotificationConfigRequest |-> GetTaskPushNotificationConfigRequest,
    DeleteTaskPushNotificationConfigRequest |-> DeleteTaskPushNotificationConfigRequest,
    CreateTaskPushNotificationConfigRequest |-> CreateTaskPushNotificationConfigRequest,
    TaskSubscriptionRequest |-> TaskSubscriptionRequest,
    ListTaskPushNotificationConfigRequest |-> ListTaskPushNotificationConfigRequest,
    GetAgentCardRequest |-> GetAgentCardRequest, SendMessageResponse |-> SendMessageResponse,
    StreamResponse |-> StreamResponse,
    ListTaskPushNotificationConfigResponse |-> ListTaskPushNotificationConfigResponse]
=============================================================================

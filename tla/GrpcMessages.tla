---------------------------- MODULE GrpcMessages ----------------------------
(***************************************************************************)
(* The messages of protocol 1.0 as its gRPC transport writes and reads     *)
(* them: each field in the order encode writes it, with its number, its    *)
(* name, and the condition under which it is written.                      *)
(***************************************************************************)
EXTENDS WireSchema

SendMessageConfiguration == <<
    Repeated(1, "acceptedOutputModes", "string"),
    Optional(2, "taskPushNotificationConfig", "TaskPushNotificationConfig"),
    Optional(3, "historyLength", "int32"), Implicit(4, "returnImmediately", "bool")>>
Task == <<
    Implicit(1, "id", "string"), Implicit(2, "contextId", "string"),
    Optional(3, "status", "TaskStatus"), Repeated(4, "artifacts", "Artifact"),
    Repeated(5, "history", "Message"), Optional(6, "metadata", "Struct")>>
TaskStatus == <<
    Implicit(1, "state", "int32"), Optional(2, "message", "Message"),
    Optional(3, "timestamp", "Timestamp")>>
Part == <<
    OneOf("content", 1, "text", "string"), OneOf("content", 2, "raw", "bytes"),
    OneOf("content", 3, "url", "string"), OneOf("content", 4, "data", "Value"),
    Optional(5, "metadata", "Struct"), Implicit(6, "filename", "string"),
    Implicit(7, "mediaType", "string")>>
Message == <<
    Implicit(1, "messageId", "string"), Implicit(2, "contextId", "string"),
    Implicit(3, "taskId", "string"), Implicit(4, "role", "int32"), Repeated(5, "parts", "Part"),
    Optional(6, "metadata", "Struct"), Repeated(7, "extensions", "string"),
    Repeated(8, "referenceTaskIds", "string")>>
Artifact == <<
    Implicit(1, "artifactId", "string"), Implicit(2, "name", "string"),
    Implicit(3, "description", "string"), Repeated(4, "parts", "Part"),
    Optional(5, "metadata", "Struct"), Repeated(6, "extensions", "string")>>
TaskStatusUpdateEvent == <<
    Implicit(1, "taskId", "string"), Implicit(2, "contextId", "string"),
    Optional(3, "status", "TaskStatus"), Optional(4, "metadata", "Struct")>>
TaskArtifactUpdateEvent == <<
    Implicit(1, "taskId", "string"), Implicit(2, "contextId", "string"),
    Optional(3, "artifact", "Artifact"), Implicit(4, "append", "bool"),
    Implicit(5, "lastChunk", "bool"), Optional(6, "metadata", "Struct")>>
AuthenticationInfo == <<Implicit(1, "scheme", "string"), Implicit(2, "credentials", "string")>>
AgentInterface == <<
    Implicit(1, "url", "string"), Implicit(2, "protocolBinding", "string"),
    Implicit(3, "tenant", "string"), Implicit(4, "protocolVersion", "string")>>
AgentCard == <<
    Implicit(1, "name", "string"), Implicit(2, "description", "string"),
    Repeated(3, "supportedInterfaces", "AgentInterface"),
    Optional(4, "provider", "AgentProvider"), Implicit(5, "version", "string"),
    Optional(6, "documentationUrl", "string"), Optional(7, "capabilities", "AgentCapabilities"),
    Map(8, "securitySchemes", "AgentCard_SecuritySchemesEntry"),
    Repeated(9, "securityRequirements", "SecurityRequirement"),
    Repeated(10, "defaultInputModes", "string"), Repeated(11, "defaultOutputModes", "string"),
    Repeated(12, "skills", "AgentSkill"), Repeated(13, "signatures", "AgentCardSignature"),
    Optional(14, "iconUrl", "string")>>
AgentCard_SecuritySchemesEntry == <<
    Implicit(1, "key", "string"), Optional(2, "value", "SecurityScheme")>>
AgentProvider == <<Implicit(1, "url", "string"), Implicit(2, "organization", "string")>>
AgentCapabilities == <<
    Optional(1, "streaming", "bool"), Optional(2, "pushNotifications", "bool"),
    Repeated(3, "extensions", "AgentExtension"), Optional(4, "extendedAgentCard", "bool")>>
AgentExtension == <<
    Implicit(1, "uri", "string"), Implicit(2, "description", "string"),
    Implicit(3, "required", "bool"), Optional(4, "params", "Struct")>>
AgentSkill == <<
    Implicit(1, "id", "string"), Implicit(2, "name", "string"),
    Implicit(3, "description", "string"), Repeated(4, "tags", "string"),
    Repeated(5, "examples", "string"), Repeated(6, "inputModes", "string"),
    Repeated(7, "outputModes", "string"),
    Repeated(8, "securityRequirements", "SecurityRequirement")>>
AgentCardSignature == <<
    Implicit(1, "protected", "string"), Implicit(2, "signature", "string"),
    Optional(3, "header", "Struct")>>
TaskPushNotificationConfig == <<
    Implicit(1, "tenant", "string"), Implicit(2, "id", "string"), Implicit(3, "taskId", "string"),
    Implicit(4, "url", "string"), Implicit(5, "token", "string"),
    Optional(6, "authentication", "AuthenticationInfo")>>
StringList == <<Repeated(1, "list", "string")>>
SecurityRequirement == <<Map(1, "schemes", "SecurityRequirement_SchemesEntry")>>
SecurityRequirement_SchemesEntry == <<
    Implicit(1, "key", "string"), Optional(2, "value", "StringList")>>
SecurityScheme == <<
    OneOf("scheme", 1, "apiKeySecurityScheme", "APIKeySecurityScheme"),
    OneOf("scheme", 2, "httpAuthSecurityScheme", "HTTPAuthSecurityScheme"),
    OneOf("scheme", 3, "oauth2SecurityScheme", "OAuth2SecurityScheme"),
    OneOf("scheme", 4, "openIdConnectSecurityScheme", "OpenIdConnectSecurityScheme"),
    OneOf("scheme", 5, "mtlsSecurityScheme", "MutualTlsSecurityScheme")>>
APIKeySecurityScheme == <<
    Implicit(1, "description", "string"), Implicit(2, "location", "string"),
    Implicit(3, "name", "string")>>
HTTPAuthSecurityScheme == <<
    Implicit(1, "description", "string"), Implicit(2, "scheme", "string"),
    Implicit(3, "bearerFormat", "string")>>
OAuth2SecurityScheme == <<
    Implicit(1, "description", "string"), Optional(2, "flows", "OAuthFlows"),
    Implicit(3, "oauth2MetadataUrl", "string")>>
OpenIdConnectSecurityScheme == <<
    Implicit(1, "description", "string"), Implicit(2, "openIdConnectUrl", "string")>>
MutualTlsSecurityScheme == <<Implicit(1, "description", "string")>>
OAuthFlows == <<
    OneOf("flow", 1, "authorizationCode", "AuthorizationCodeOAuthFlow"),
    OneOf("flow", 2, "clientCredentials", "ClientCredentialsOAuthFlow"),
    OneOf("flow", 3, "implicit", "ImplicitOAuthFlow"),
    OneOf("flow", 4, "password", "PasswordOAuthFlow"),
    OneOf("flow", 5, "deviceCode", "DeviceCodeOAuthFlow")>>
AuthorizationCodeOAuthFlow == <<
    Implicit(1, "authorizationUrl", "string"), Implicit(2, "tokenUrl", "string"),
    Implicit(3, "refreshUrl", "string"),
    Map(4, "scopes", "AuthorizationCodeOAuthFlow_ScopesEntry"),
    Implicit(5, "pkceRequired", "bool")>>
AuthorizationCodeOAuthFlow_ScopesEntry == <<
    Implicit(1, "key", "string"), Implicit(2, "value", "string")>>
ClientCredentialsOAuthFlow == <<
    Implicit(1, "tokenUrl", "string"), Implicit(2, "refreshUrl", "string"),
    Map(3, "scopes", "ClientCredentialsOAuthFlow_ScopesEntry")>>
ClientCredentialsOAuthFlow_ScopesEntry == <<
    Implicit(1, "key", "string"), Implicit(2, "value", "string")>>
ImplicitOAuthFlow == <<
    Implicit(1, "authorizationUrl", "string"), Implicit(2, "refreshUrl", "string"),
    Map(3, "scopes", "ImplicitOAuthFlow_ScopesEntry")>>
ImplicitOAuthFlow_ScopesEntry == <<Implicit(1, "key", "string"), Implicit(2, "value", "string")>>
PasswordOAuthFlow == <<
    Implicit(1, "tokenUrl", "string"), Implicit(2, "refreshUrl", "string"),
    Map(3, "scopes", "PasswordOAuthFlow_ScopesEntry")>>
PasswordOAuthFlow_ScopesEntry == <<Implicit(1, "key", "string"), Implicit(2, "value", "string")>>
DeviceCodeOAuthFlow == <<
    Implicit(1, "deviceAuthorizationUrl", "string"), Implicit(2, "tokenUrl", "string"),
    Implicit(3, "refreshUrl", "string"), Map(4, "scopes", "DeviceCodeOAuthFlow_ScopesEntry")>>
DeviceCodeOAuthFlow_ScopesEntry == <<
    Implicit(1, "key", "string"), Implicit(2, "value", "string")>>
SendMessageRequest == <<
    Implicit(1, "tenant", "string"), Optional(2, "message", "Message"),
    Optional(3, "configuration", "SendMessageConfiguration"), Optional(4, "metadata", "Struct")>>
GetTaskRequest == <<
    Implicit(1, "tenant", "string"), Implicit(2, "id", "string"),
    Optional(3, "historyLength", "int32")>>
ListTasksRequest == <<
    Implicit(1, "tenant", "string"), Implicit(2, "contextId", "string"),
    Implicit(3, "status", "int32"), Optional(4, "pageSize", "int32"),
    Implicit(5, "pageToken", "string"), Optional(6, "historyLength", "int32"),
    Optional(7, "statusTimestampAfter", "Timestamp"), Optional(8, "includeArtifacts", "bool")>>
ListTasksResponse == <<
    Repeated(1, "tasks", "Task"), Implicit(2, "nextPageToken", "string"),
    Implicit(3, "pageSize", "int32"), Implicit(4, "totalSize", "int32")>>
CancelTaskRequest == <<
    Implicit(1, "tenant", "string"), Implicit(2, "id", "string"),
    Optional(3, "metadata", "Struct")>>
GetTaskPushNotificationConfigRequest == <<
    Implicit(1, "tenant", "string"), Implicit(2, "taskId", "string"),
    Implicit(3, "id", "string")>>
DeleteTaskPushNotificationConfigRequest == <<
    Implicit(1, "tenant", "string"), Implicit(2, "taskId", "string"),
    Implicit(3, "id", "string")>>
SubscribeToTaskRequest == <<Implicit(1, "tenant", "string"), Implicit(2, "id", "string")>>
ListTaskPushNotificationConfigsRequest == <<
    Implicit(4, "tenant", "string"), Implicit(1, "taskId", "string"),
    Implicit(2, "pageSize", "int32"), Implicit(3, "pageToken", "string")>>
GetExtendedAgentCardRequest == <<Implicit(1, "tenant", "string")>>
SendMessageResponse == <<
    OneOf("payload", 1, "task", "Task"), OneOf("payload", 2, "message", "Message")>>
StreamResponse == <<
    OneOf("payload", 1, "task", "Task"), OneOf("payload", 2, "message", "Message"),
    OneOf("payload", 3, "statusUpdate", "TaskStatusUpdateEvent"),
    OneOf("payload", 4, "artifactUpdate", "TaskArtifactUpdateEvent")>>
ListTaskPushNotificationConfigsResponse == <<
    Repeated(1, "configs", "TaskPushNotificationConfig"), Implicit(2, "nextPageToken", "string")>>

Schema == [
    SendMessageConfiguration |-> SendMessageConfiguration, Task |-> Task,
    TaskStatus |-> TaskStatus, Part |-> Part, Message |-> Message, Artifact |-> Artifact,
    TaskStatusUpdateEvent |-> TaskStatusUpdateEvent,
    TaskArtifactUpdateEvent |-> TaskArtifactUpdateEvent,
    AuthenticationInfo |-> AuthenticationInfo, AgentInterface |-> AgentInterface,
    AgentCard |-> AgentCard, AgentCard_SecuritySchemesEntry |-> AgentCard_SecuritySchemesEntry,
    AgentProvider |-> AgentProvider, AgentCapabilities |-> AgentCapabilities,
    AgentExtension |-> AgentExtension, AgentSkill |-> AgentSkill,
    AgentCardSignature |-> AgentCardSignature,
    TaskPushNotificationConfig |-> TaskPushNotificationConfig, StringList |-> StringList,
    SecurityRequirement |-> SecurityRequirement,
    SecurityRequirement_SchemesEntry |-> SecurityRequirement_SchemesEntry,
    SecurityScheme |-> SecurityScheme, APIKeySecurityScheme |-> APIKeySecurityScheme,
    HTTPAuthSecurityScheme |-> HTTPAuthSecurityScheme,
    OAuth2SecurityScheme |-> OAuth2SecurityScheme,
    OpenIdConnectSecurityScheme |-> OpenIdConnectSecurityScheme,
    MutualTlsSecurityScheme |-> MutualTlsSecurityScheme, OAuthFlows |-> OAuthFlows,
    AuthorizationCodeOAuthFlow |-> AuthorizationCodeOAuthFlow,
    AuthorizationCodeOAuthFlow_ScopesEntry |-> AuthorizationCodeOAuthFlow_ScopesEntry,
    ClientCredentialsOAuthFlow |-> ClientCredentialsOAuthFlow,
    ClientCredentialsOAuthFlow_ScopesEntry |-> ClientCredentialsOAuthFlow_ScopesEntry,
    ImplicitOAuthFlow |-> ImplicitOAuthFlow,
    ImplicitOAuthFlow_ScopesEntry |-> ImplicitOAuthFlow_ScopesEntry,
    PasswordOAuthFlow |-> PasswordOAuthFlow,
    PasswordOAuthFlow_ScopesEntry |-> PasswordOAuthFlow_ScopesEntry,
    DeviceCodeOAuthFlow |-> DeviceCodeOAuthFlow,
    DeviceCodeOAuthFlow_ScopesEntry |-> DeviceCodeOAuthFlow_ScopesEntry,
    SendMessageRequest |-> SendMessageRequest, GetTaskRequest |-> GetTaskRequest,
    ListTasksRequest |-> ListTasksRequest, ListTasksResponse |-> ListTasksResponse,
    CancelTaskRequest |-> CancelTaskRequest,
    GetTaskPushNotificationConfigRequest |-> GetTaskPushNotificationConfigRequest,
    DeleteTaskPushNotificationConfigRequest |-> DeleteTaskPushNotificationConfigRequest,
    SubscribeToTaskRequest |-> SubscribeToTaskRequest,
    ListTaskPushNotificationConfigsRequest |-> ListTaskPushNotificationConfigsRequest,
    GetExtendedAgentCardRequest |-> GetExtendedAgentCardRequest,
    SendMessageResponse |-> SendMessageResponse, StreamResponse |-> StreamResponse,
    ListTaskPushNotificationConfigsResponse |-> ListTaskPushNotificationConfigsResponse]
=============================================================================

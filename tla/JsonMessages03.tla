--------------------------- MODULE JsonMessages03 ---------------------------
(***************************************************************************)
(* The messages of protocol 0.3 as its REST transport writes and reads     *)
(* them.                                                                   *)
(***************************************************************************)
EXTENDS WireSchema

SendMessageConfiguration == <<
    Repeated(<<"acceptedOutputModes", "accepted_output_modes">>, "acceptedOutputModes", "string"),
    Optional(<<"pushNotification", "push_notification">>, "pushNotification",
         "PushNotificationConfig"),
    Implicit(<<"historyLength", "history_length">>, "historyLength", "int32"),
    Implicit(<<"blocking">>, "blocking", "bool")>>
Task == <<
    Implicit(<<"id">>, "id", "string"),
    Implicit(<<"contextId", "context_id">>, "contextId", "string"),
    Optional(<<"status">>, "status", "TaskStatus"),
    Repeated(<<"artifacts">>, "artifacts", "Artifact"),
    Repeated(<<"history">>, "history", "Message"),
    Optional(<<"metadata">>, "metadata", "Struct")>>
TaskStatus == <<
    Implicit(<<"state">>, "state", "TaskState"),
    Optional(<<"message", "update">>, "update", "Message"),
    Optional(<<"timestamp">>, "timestamp", "string")>>
Part == <<
    OneOf("part", <<"text">>, "text", "string"), OneOf("part", <<"file">>, "file", "FilePart"),
    OneOf("part", <<"data">>, "data", "DataPart")>>
FilePart == <<
    OneOf("file", <<"fileWithUri", "file_with_uri">>, "fileWithUri", "string"),
    OneOf("file", <<"fileWithBytes", "file_with_bytes">>, "fileWithBytes", "bytes"),
    Implicit(<<"mimeType", "mime_type">>, "mimeType", "string")>>
DataPart == <<Optional(<<"data">>, "data", "Struct")>>
Message == <<
    Implicit(<<"messageId", "message_id">>, "messageId", "string"),
    Implicit(<<"contextId", "context_id">>, "contextId", "string"),
    Implicit(<<"taskId", "task_id">>, "taskId", "string"), Implicit(<<"role">>, "role", "Role"),
    Repeated(<<"content">>, "content", "Part"), Optional(<<"metadata">>, "metadata", "Struct"),
    Repeated(<<"extensions">>, "extensions", "string")>>
Artifact == <<
    Implicit(<<"artifactId", "artifact_id">>, "artifactId", "string"),
    Implicit(<<"name">>, "name", "string"), Implicit(<<"description">>, "description", "string"),
    Repeated(<<"parts">>, "parts", "Part"), Optional(<<"metadata">>, "metadata", "Struct"),
    Repeated(<<"extensions">>, "extensions", "string")>>
TaskStatusUpdateEvent == <<
    Implicit(<<"taskId", "task_id">>, "taskId", "string"),
    Implicit(<<"contextId", "context_id">>, "contextId", "string"),
    Optional(<<"status">>, "status", "TaskStatus"), Implicit(<<"final">>, "final", "bool"),
    Optional(<<"metadata">>, "metadata", "Struct")>>
TaskArtifactUpdateEvent == <<
    Implicit(<<"taskId", "task_id">>, "taskId", "string"),
    Implicit(<<"contextId", "context_id">>, "contextId", "string"),
    Optional(<<"artifact">>, "artifact", "Artifact"), Implicit(<<"append">>, "append", "bool"),
    Implicit(<<"lastChunk", "last_chunk">>, "lastChunk", "bool"),
    Optional(<<"metadata">>, "metadata", "Struct")>>
PushNotificationConfig == <<
    Implicit(<<"id">>, "id", "string"), Implicit(<<"url">>, "url", "string"),
    Implicit(<<"token">>, "token", "string"),
    Optional(<<"authentication">>, "authentication", "AuthenticationInfo")>>
AuthenticationInfo == <<
    Repeated(<<"schemes">>, "schemes", "string"),
    Implicit(<<"credentials">>, "credentials", "string")>>
AgentInterface == <<
    Implicit(<<"url">>, "url", "string"), Implicit(<<"transport">>, "transport", "string")>>
AgentCard == <<
    Implicit(<<"protocolVersion", "protocol_version">>, "protocolVersion", "string"),
    Implicit(<<"name">>, "name", "string"), Implicit(<<"description">>, "description", "string"),
    Implicit(<<"url">>, "url", "string"),
    Implicit(<<"preferredTransport", "preferred_transport">>, "preferredTransport", "string"),
    Repeated(<<"additionalInterfaces", "additional_interfaces">>, "additionalInterfaces",
         "AgentInterface"), Optional(<<"provider">>, "provider", "AgentProvider"),
    Implicit(<<"version">>, "version", "string"),
    Implicit(<<"documentationUrl", "documentation_url">>, "documentationUrl", "string"),
    Optional(<<"capabilities">>, "capabilities", "AgentCapabilities"),
    Map(<<"securitySchemes", "security_schemes">>, "securitySchemes", "SecurityScheme"),
    Repeated(<<"security">>, "security", "Security"),
    Repeated(<<"defaultInputModes", "default_input_modes">>, "defaultInputModes", "string"),
    Repeated(<<"defaultOutputModes", "default_output_modes">>, "defaultOutputModes", "string"),
    Repeated(<<"skills">>, "skills", "AgentSkill"),
    Implicit(<<"supportsAuthenticatedExtendedCard", "supports_authenticated_extended_card">>,
         "supportsAuthenticatedExtendedCard", "bool"),
    Repeated(<<"signatures">>, "signatures", "AgentCardSignature")>>
AgentCard_SecuritySchemesEntry == <<
    Implicit(<<"key">>, "key", "string"), Optional(<<"value">>, "value", "SecurityScheme")>>
AgentProvider == <<
    Implicit(<<"url">>, "url", "string"), Implicit(<<"organization">>, "organization", "string")>>
AgentCapabilities == <<
    Implicit(<<"streaming">>, "streaming", "bool"),
    Implicit(<<"pushNotifications", "push_notifications">>, "pushNotifications", "bool"),
    Repeated(<<"extensions">>, "extensions", "AgentExtension")>>
AgentExtension == <<
    Implicit(<<"uri">>, "uri", "string"), Implicit(<<"description">>, "description", "string"),
    Implicit(<<"required">>, "required", "bool"), Optional(<<"params">>, "params", "Struct")>>
AgentSkill == <<
    Implicit(<<"id">>, "id", "string"), Implicit(<<"name">>, "name", "string"),
    Implicit(<<"description">>, "description", "string"), Repeated(<<"tags">>, "tags", "string"),
    Repeated(<<"examples">>, "examples", "string"),
    Repeated(<<"inputModes", "input_modes">>, "inputModes", "string"),
    Repeated(<<"outputModes", "output_modes">>, "outputModes", "string"),
    Repeated(<<"security">>, "security", "Security")>>
AgentCardSignature == <<
    Implicit(<<"protected">>, "protected", "string"),
    Implicit(<<"signature">>, "signature", "string"), Optional(<<"header">>, "header", "Struct")>>
TaskPushNotificationConfig == <<
    Implicit(<<"name">>, "name", "string"),
    Optional(<<"pushNotificationConfig", "push_notification_config">>, "pushNotificationConfig",
         "PushNotificationConfig")>>
StringList == <<Repeated(<<"list">>, "list", "string")>>
Security == <<Map(<<"schemes">>, "schemes", "StringList")>>
Security_SchemesEntry == <<
    Implicit(<<"key">>, "key", "string"), Optional(<<"value">>, "value", "StringList")>>
SecurityScheme == <<
   
    OneOf("scheme", <<"apiKeySecurityScheme", "api_key_security_scheme">>,
         "apiKeySecurityScheme", "APIKeySecurityScheme"),
    OneOf("scheme", <<"httpAuthSecurityScheme", "http_auth_security_scheme">>,
         "httpAuthSecurityScheme", "HTTPAuthSecurityScheme"),
    OneOf("scheme", <<"oauth2SecurityScheme", "oauth2_security_scheme">>, "oauth2SecurityScheme",
         "OAuth2SecurityScheme"),
    OneOf("scheme", <<"openIdConnectSecurityScheme", "open_id_connect_security_scheme">>,
         "openIdConnectSecurityScheme", "OpenIdConnectSecurityScheme"),
    OneOf("scheme", <<"mtlsSecurityScheme", "mtls_security_scheme">>, "mtlsSecurityScheme",
         "MutualTlsSecurityScheme")>>
APIKeySecurityScheme == <<
    Implicit(<<"description">>, "description", "string"),
    Implicit(<<"location">>, "location", "string"), Implicit(<<"name">>, "name", "string")>>
HTTPAuthSecurityScheme == <<
    Implicit(<<"description">>, "description", "string"),
    Implicit(<<"scheme">>, "scheme", "string"),
    Implicit(<<"bearerFormat", "bearer_format">>, "bearerFormat", "string")>>
OAuth2SecurityScheme == <<
    Implicit(<<"description">>, "description", "string"),
    Optional(<<"flows">>, "flows", "OAuthFlows"),
    Implicit(<<"oauth2MetadataUrl", "oauth2_metadata_url">>, "oauth2MetadataUrl", "string")>>
OpenIdConnectSecurityScheme == <<
    Implicit(<<"description">>, "description", "string"),
    Implicit(<<"openIdConnectUrl", "open_id_connect_url">>, "openIdConnectUrl", "string")>>
MutualTlsSecurityScheme == <<Implicit(<<"description">>, "description", "string")>>
OAuthFlows == <<
   
    OneOf("flow", <<"authorizationCode", "authorization_code">>, "authorizationCode",
         "AuthorizationCodeOAuthFlow"),
    OneOf("flow", <<"clientCredentials", "client_credentials">>, "clientCredentials",
         "ClientCredentialsOAuthFlow"),
    OneOf("flow", <<"implicit">>, "implicit", "ImplicitOAuthFlow"),
    OneOf("flow", <<"password">>, "password", "PasswordOAuthFlow")>>
AuthorizationCodeOAuthFlow == <<
    Implicit(<<"authorizationUrl", "authorization_url">>, "authorizationUrl", "string"),
    Implicit(<<"tokenUrl", "token_url">>, "tokenUrl", "string"),
    Implicit(<<"refreshUrl", "refresh_url">>, "refreshUrl", "string"),
    Map(<<"scopes">>, "scopes", "string")>>
AuthorizationCodeOAuthFlow_ScopesEntry == <<
    Implicit(<<"key">>, "key", "string"), Implicit(<<"value">>, "value", "string")>>
ClientCredentialsOAuthFlow == <<
    Implicit(<<"tokenUrl", "token_url">>, "tokenUrl", "string"),
    Implicit(<<"refreshUrl", "refresh_url">>, "refreshUrl", "string"),
    Map(<<"scopes">>, "scopes", "string")>>
ClientCredentialsOAuthFlow_ScopesEntry == <<
    Implicit(<<"key">>, "key", "string"), Implicit(<<"value">>, "value", "string")>>
ImplicitOAuthFlow == <<
    Implicit(<<"authorizationUrl", "authorization_url">>, "authorizationUrl", "string"),
    Implicit(<<"refreshUrl", "refresh_url">>, "refreshUrl", "string"),
    Map(<<"scopes">>, "scopes", "string")>>
ImplicitOAuthFlow_ScopesEntry == <<
    Implicit(<<"key">>, "key", "string"), Implicit(<<"value">>, "value", "string")>>
PasswordOAuthFlow == <<
    Implicit(<<"tokenUrl", "token_url">>, "tokenUrl", "string"),
    Implicit(<<"refreshUrl", "refresh_url">>, "refreshUrl", "string"),
    Map(<<"scopes">>, "scopes", "string")>>
PasswordOAuthFlow_ScopesEntry == <<
    Implicit(<<"key">>, "key", "string"), Implicit(<<"value">>, "value", "string")>>
SendMessageRequest == <<
    Optional(<<"message", "request">>, "request", "Message"),
    Optional(<<"configuration">>, "configuration", "SendMessageConfiguration"),
    Optional(<<"metadata">>, "metadata", "Struct")>>
GetTaskRequest == <<
    Implicit(<<"name">>, "name", "string"),
    Implicit(<<"historyLength", "history_length">>, "historyLength", "int32")>>
CancelTaskRequest == <<Implicit(<<"name">>, "name", "string")>>
GetTaskPushNotificationConfigRequest == <<Implicit(<<"name">>, "name", "string")>>
DeleteTaskPushNotificationConfigRequest == <<Implicit(<<"name">>, "name", "string")>>
CreateTaskPushNotificationConfigRequest == <<
    Implicit(<<"parent">>, "parent", "string"),
    Implicit(<<"configId", "config_id">>, "configId", "string"),
    Optional(<<"config">>, "config", "TaskPushNotificationConfig")>>
TaskSubscriptionRequest == <<Implicit(<<"name">>, "name", "string")>>
ListTaskPushNotificationConfigRequest == <<
    Implicit(<<"parent">>, "parent", "string"),
    Implicit(<<"pageSize", "page_size">>, "pageSize", "int32"),
    Implicit(<<"pageToken", "page_token">>, "pageToken", "string")>>
GetAgentCardRequest == <<>>
SendMessageResponse == <<
    OneOf("payload", <<"task">>, "task", "Task"),
    OneOf("payload", <<"message", "msg">>, "msg", "Message")>>
StreamResponse == <<
    OneOf("payload", <<"task">>, "task", "Task"),
    OneOf("payload", <<"message", "msg">>, "msg", "Message"),
    OneOf("payload", <<"statusUpdate", "status_update">>, "statusUpdate",
         "TaskStatusUpdateEvent"),
    OneOf("payload", <<"artifactUpdate", "artifact_update">>, "artifactUpdate",
         "TaskArtifactUpdateEvent")>>
ListTaskPushNotificationConfigResponse == <<
    Repeated(<<"configs">>, "configs", "TaskPushNotificationConfig"),
    Implicit(<<"nextPageToken", "next_page_token">>, "nextPageToken", "string")>>

Schema == [
    SendMessageConfiguration |-> SendMessageConfiguration, Task |-> Task,
    TaskStatus |-> TaskStatus, Part |-> Part, FilePart |-> FilePart, DataPart |-> DataPart,
    Message |-> Message, Artifact |-> Artifact, TaskStatusUpdateEvent |-> TaskStatusUpdateEvent,
    TaskArtifactUpdateEvent |-> TaskArtifactUpdateEvent,
    PushNotificationConfig |-> PushNotificationConfig, AuthenticationInfo |-> AuthenticationInfo,
    AgentInterface |-> AgentInterface, AgentCard |-> AgentCard,
    AgentCard_SecuritySchemesEntry |-> AgentCard_SecuritySchemesEntry,
    AgentProvider |-> AgentProvider, AgentCapabilities |-> AgentCapabilities,
    AgentExtension |-> AgentExtension, AgentSkill |-> AgentSkill,
    AgentCardSignature |-> AgentCardSignature,
    TaskPushNotificationConfig |-> TaskPushNotificationConfig, StringList |-> StringList,
    Security |-> Security, Security_SchemesEntry |-> Security_SchemesEntry,
    SecurityScheme |-> SecurityScheme, APIKeySecurityScheme |-> APIKeySecurityScheme,
    HTTPAuthSecurityScheme |-> HTTPAuthSecurityScheme,
    OAuth2SecurityScheme |-> OAuth2SecurityScheme,
    OpenIdConnectSecurityScheme |-> OpenIdConnectSecurityScheme,
    MutualTlsSecurityScheme |-> MutualTlsSecurityScheme, OAuthFlows |-> OAuthFlows,
    AuthorizationCodeOAuthFlow |-> AuthorizationCodeOAuthFlow,
    AuthorizationCodeOAuthFlow_ScopesEntry |-> AuthorizationCodeOAuthFlow_ScopesEntry,
    ClientCredentialsOAuthFlow |-> ClientCredentialsOAuthFlow,
    ClientCredentialsOAuthFlow_ScopesEntry |-> ClientCredentialsOAuthFlow_ScopesEntry,
    ImplicitOAuthFlow |-> ImplicitOAuthFlow,
    ImplicitOAuthFlow_ScopesEntry |-> ImplicitOAuthFlow_ScopesEntry,
    PasswordOAuthFlow |-> PasswordOAuthFlow,
    PasswordOAuthFlow_ScopesEntry |-> PasswordOAuthFlow_ScopesEntry,
    SendMessageRequest |-> SendMessageRequest, GetTaskRequest |-> GetTaskRequest,
    CancelTaskRequest |-> CancelTaskRequest,
    GetTaskPushNotificationConfigRequest |-> GetTaskPushNotificationConfigRequest,
    DeleteTaskPushNotificationConfigRequest |-> DeleteTaskPushNotificationConfigRequest,
    CreateTaskPushNotificationConfigRequest |-> CreateTaskPushNotificationConfigRequest,
    TaskSubscriptionRequest |-> TaskSubscriptionRequest,
    ListTaskPushNotificationConfigRequest |-> ListTaskPushNotificationConfigRequest,
    GetAgentCardRequest |-> GetAgentCardRequest, SendMessageResponse |-> SendMessageResponse,
    StreamResponse |-> StreamResponse,
    ListTaskPushNotificationConfigResponse |-> ListTaskPushNotificationConfigResponse]
=============================================================================

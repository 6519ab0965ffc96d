---------------------------- MODULE JsonMessages ----------------------------
(***************************************************************************)
(* The messages of protocol 1.0 as its JSON transports write and read      *)
(* them: each field with the keys fromJSON tries, in its order; toJSON     *)
(* writes the first of them.                                               *)
(***************************************************************************)
EXTENDS WireSchema

SendMessageConfiguration == <<
    Repeated(<<"acceptedOutputModes", "accepted_output_modes">>, "acceptedOutputModes", "string"),
    Optional(<<"taskPushNotificationConfig", "task_push_notification_config">>,
         "taskPushNotificationConfig", "TaskPushNotificationConfig"),
    Optional(<<"historyLength", "history_length">>, "historyLength", "int32"),
    Implicit(<<"returnImmediately", "return_immediately">>, "returnImmediately", "bool")>>
Task == <<
    Implicit(<<"id">>, "id", "string"),
    Implicit(<<"contextId", "context_id">>, "contextId", "string"),
    Optional(<<"status">>, "status", "TaskStatus"),
    Repeated(<<"artifacts">>, "artifacts", "Artifact"),
    Repeated(<<"history">>, "history", "Message"),
    Optional(<<"metadata">>, "metadata", "Struct")>>
TaskStatus == <<
    Implicit(<<"state">>, "state", "TaskState"), Optional(<<"message">>, "message", "Message"),
    Optional(<<"timestamp">>, "timestamp", "string")>>
Part == <<
    OneOf("content", <<"text">>, "text", "string"), OneOf("content", <<"raw">>, "raw", "bytes"),
    OneOf("content", <<"url">>, "url", "string"), OneOf("content", <<"data">>, "data", "Value"),
    Optional(<<"metadata">>, "metadata", "Struct"),
    Implicit(<<"filename">>, "filename", "string"),
    Implicit(<<"mediaType", "media_type">>, "mediaType", "string")>>
Message == <<
    Implicit(<<"messageId", "message_id">>, "messageId", "string"),
    Implicit(<<"contextId", "context_id">>, "contextId", "string"),
    Implicit(<<"taskId", "task_id">>, "taskId", "string"), Implicit(<<"role">>, "role", "Role"),
    Repeated(<<"parts">>, "parts", "Part"), Optional(<<"metadata">>, "metadata", "Struct"),
    Repeated(<<"extensions">>, "extensions", "string"),
    Repeated(<<"referenceTaskIds", "reference_task_ids">>, "referenceTaskIds", "string")>>
Artifact == <<
    Implicit(<<"artifactId", "artifact_id">>, "artifactId", "string"),
    Implicit(<<"name">>, "name", "string"), Implicit(<<"description">>, "description", "string"),
    Repeated(<<"parts">>, "parts", "Part"), Optional(<<"metadata">>, "metadata", "Struct"),
    Repeated(<<"extensions">>, "extensions", "string")>>
TaskStatusUpdateEvent == <<
    Implicit(<<"taskId", "task_id">>, "taskId", "string"),
    Implicit(<<"contextId", "context_id">>, "contextId", "string"),
    Optional(<<"status">>, "status", "TaskStatus"),
    Optional(<<"metadata">>, "metadata", "Struct")>>
TaskArtifactUpdateEvent == <<
    Implicit(<<"taskId", "task_id">>, "taskId", "string"),
    Implicit(<<"contextId", "context_id">>, "contextId", "string"),
    Optional(<<"artifact">>, "artifact", "Artifact"), Implicit(<<"append">>, "append", "bool"),
    Implicit(<<"lastChunk", "last_chunk">>, "lastChunk", "bool"),
    Optional(<<"metadata">>, "metadata", "Struct")>>
AuthenticationInfo == <<
    Implicit(<<"scheme">>, "scheme", "string"),
    Implicit(<<"credentials">>, "credentials", "string")>>
AgentInterface == <<
    Implicit(<<"url">>, "url", "string"),
    Implicit(<<"protocolBinding", "protocol_binding">>, "protocolBinding", "string"),
    Implicit(<<"tenant">>, "tenant", "string"),
    Implicit(<<"protocolVersion", "protocol_version">>, "protocolVersion", "string")>>
AgentCard == <<
    Implicit(<<"name">>, "name", "string"), Implicit(<<"description">>, "description", "string"),
    Repeated(<<"supportedInterfaces", "supported_interfaces">>, "supportedInterfaces",
         "AgentInterface"), Optional(<<"provider">>, "provider", "AgentProvider"),
    Implicit(<<"version">>, "version", "string"),
    Optional(<<"documentationUrl", "documentation_url">>, "documentationUrl", "string"),
    Optional(<<"capabilities">>, "capabilities", "AgentCapabilities"),
    Map(<<"securitySchemes", "security_schemes">>, "securitySchemes", "SecurityScheme"),
    Repeated(<<"securityRequirements", "security_requirements">>, "securityRequirements",
         "SecurityRequirement"),
    Repeated(<<"defaultInputModes", "default_input_modes">>, "defaultInputModes", "string"),
    Repeated(<<"defaultOutputModes", "default_output_modes">>, "defaultOutputModes", "string"),
    Repeated(<<"skills">>, "skills", "AgentSkill"),
    Repeated(<<"signatures">>, "signatures", "AgentCardSignature"),
    Optional(<<"iconUrl", "icon_url">>, "iconUrl", "string")>>
AgentCard_SecuritySchemesEntry == <<
    Implicit(<<"key">>, "key", "string"), Optional(<<"value">>, "value", "SecurityScheme")>>
AgentProvider == <<
    Implicit(<<"url">>, "url", "string"), Implicit(<<"organization">>, "organization", "string")>>
AgentCapabilities == <<
    Optional(<<"streaming">>, "streaming", "bool"),
    Optional(<<"pushNotifications", "push_notifications">>, "pushNotifications", "bool"),
    Repeated(<<"extensions">>, "extensions", "AgentExtension"),
    Optional(<<"extendedAgentCard", "extended_agent_card">>, "extendedAgentCard", "bool")>>
AgentExtension == <<
    Implicit(<<"uri">>, "uri", "string"), Implicit(<<"description">>, "description", "string"),
    Implicit(<<"required">>, "required", "bool"), Optional(<<"params">>, "params", "Struct")>>
AgentSkill == <<
    Implicit(<<"id">>, "id", "string"), Implicit(<<"name">>, "name", "string"),
    Implicit(<<"description">>, "description", "string"), Repeated(<<"tags">>, "tags", "string"),
    Repeated(<<"examples">>, "examples", "string"),
    Repeated(<<"inputModes", "input_modes">>, "inputModes", "string"),
    Repeated(<<"outputModes", "output_modes">>, "outputModes", "string"),
    Repeated(<<"securityRequirements", "security_requirements">>, "securityRequirements",
         "SecurityRequirement")>>
AgentCardSignature == <<
    Implicit(<<"protected">>, "protected", "string"),
    Implicit(<<"signature">>, "signature", "string"), Optional(<<"header">>, "header", "Struct")>>
TaskPushNotificationConfig == <<
    Implicit(<<"tenant">>, "tenant", "string"), Implicit(<<"id">>, "id", "string"),
    Implicit(<<"taskId", "task_id">>, "taskId", "string"), Implicit(<<"url">>, "url", "string"),
    Implicit(<<"token">>, "token", "string"),
    Optional(<<"authentication">>, "authentication", "AuthenticationInfo")>>
StringList == <<Repeated(<<"list">>, "list", "string")>>
SecurityRequirement == <<Map(<<"schemes">>, "schemes", "StringList")>>
SecurityRequirement_SchemesEntry == <<
    Implicit(<<"key">>, "key", "string"), Optional(<<"value">>, "value", "StringList")>>
SecurityScheme == <<
   
    OneOf("scheme", <<"apiKeySecurityScheme", "api_key_security_scheme">>,
         "apiKeySecurityScheme", "APIKeySecurityScheme"),
    OneOf("scheme", <<"httpAuthSecurityScheme", "http_auth_security_scheme">>,
         "httpAuthSecurityScheme", "HTTPAuthSecurityScheme"),
    OneOf("scheme", <<"oauth2SecurityScheme", "oauth2_security_scheme">>, "oauth2SecurityScheme",
         "OAuth2SecurityScheme"),
    OneOf("scheme", <<"openIdConnectSecurityScheme", "open_id_connect_security_scheme">>,
         "openIdConnectSecurityScheme", "OpenIdConnectSecurityScheme"),
    OneOf("scheme", <<"mtlsSecurityScheme", "mtls_security_scheme">>, "mtlsSecurityScheme",
         "MutualTlsSecurityScheme")>>
APIKeySecurityScheme == <<
    Implicit(<<"description">>, "description", "string"),
    Implicit(<<"location">>, "location", "string"), Implicit(<<"name">>, "name", "string")>>
HTTPAuthSecurityScheme == <<
    Implicit(<<"description">>, "description", "string"),
    Implicit(<<"scheme">>, "scheme", "string"),
    Implicit(<<"bearerFormat", "bearer_format">>, "bearerFormat", "string")>>
OAuth2SecurityScheme == <<
    Implicit(<<"description">>, "description", "string"),
    Optional(<<"flows">>, "flows", "OAuthFlows"),
    Implicit(<<"oauth2MetadataUrl", "oauth2_metadata_url">>, "oauth2MetadataUrl", "string")>>
OpenIdConnectSecurityScheme == <<
    Implicit(<<"description">>, "description", "string"),
    Implicit(<<"openIdConnectUrl", "open_id_connect_url">>, "openIdConnectUrl", "string")>>
MutualTlsSecurityScheme == <<Implicit(<<"description">>, "description", "string")>>
OAuthFlows == <<
   
    OneOf("flow", <<"authorizationCode", "authorization_code">>, "authorizationCode",
         "AuthorizationCodeOAuthFlow"),
    OneOf("flow", <<"clientCredentials", "client_credentials">>, "clientCredentials",
         "ClientCredentialsOAuthFlow"),
    OneOf("flow", <<"implicit">>, "implicit", "ImplicitOAuthFlow"),
    OneOf("flow", <<"password">>, "password", "PasswordOAuthFlow"),
    OneOf("flow", <<"deviceCode", "device_code">>, "deviceCode", "DeviceCodeOAuthFlow")>>
AuthorizationCodeOAuthFlow == <<
    Implicit(<<"authorizationUrl", "authorization_url">>, "authorizationUrl", "string"),
    Implicit(<<"tokenUrl", "token_url">>, "tokenUrl", "string"),
    Implicit(<<"refreshUrl", "refresh_url">>, "refreshUrl", "string"),
    Map(<<"scopes">>, "scopes", "string"),
    Implicit(<<"pkceRequired", "pkce_required">>, "pkceRequired", "bool")>>
AuthorizationCodeOAuthFlow_ScopesEntry == <<
    Implicit(<<"key">>, "key", "string"), Implicit(<<"value">>, "value", "string")>>
ClientCredentialsOAuthFlow == <<
    Implicit(<<"tokenUrl", "token_url">>, "tokenUrl", "string"),
    Implicit(<<"refreshUrl", "refresh_url">>, "refreshUrl", "string"),
    Map(<<"scopes">>, "scopes", "string")>>
ClientCredentialsOAuthFlow_ScopesEntry == <<
    Implicit(<<"key">>, "key", "string"), Implicit(<<"value">>, "value", "string")>>
ImplicitOAuthFlow == <<
    Implicit(<<"authorizationUrl", "authorization_url">>, "authorizationUrl", "string"),
    Implicit(<<"refreshUrl", "refresh_url">>, "refreshUrl", "string"),
    Map(<<"scopes">>, "scopes", "string")>>
ImplicitOAuthFlow_ScopesEntry == <<
    Implicit(<<"key">>, "key", "string"), Implicit(<<"value">>, "value", "string")>>
PasswordOAuthFlow == <<
    Implicit(<<"tokenUrl", "token_url">>, "tokenUrl", "string"),
    Implicit(<<"refreshUrl", "refresh_url">>, "refreshUrl", "string"),
    Map(<<"scopes">>, "scopes", "string")>>
PasswordOAuthFlow_ScopesEntry == <<
    Implicit(<<"key">>, "key", "string"), Implicit(<<"value">>, "value", "string")>>
DeviceCodeOAuthFlow == <<
   
    Implicit(<<"deviceAuthorizationUrl", "device_authorization_url">>, "deviceAuthorizationUrl",
         "string"), Implicit(<<"tokenUrl", "token_url">>, "tokenUrl", "string"),
    Implicit(<<"refreshUrl", "refresh_url">>, "refreshUrl", "string"),
    Map(<<"scopes">>, "scopes", "string")>>
DeviceCodeOAuthFlow_ScopesEntry == <<
    Implicit(<<"key">>, "key", "string"), Implicit(<<"value">>, "value", "string")>>
SendMessageRequest == <<
    Implicit(<<"tenant">>, "tenant", "string"), Optional(<<"message">>, "message", "Message"),
    Optional(<<"configuration">>, "configuration", "SendMessageConfiguration"),
    Optional(<<"metadata">>, "metadata", "Struct")>>
GetTaskRequest == <<
    Implicit(<<"tenant">>, "tenant", "string"), Implicit(<<"id">>, "id", "string"),
    Optional(<<"historyLength", "history_length">>, "historyLength", "int32")>>
ListTasksRequest == <<
    Implicit(<<"tenant">>, "tenant", "string"),
    Implicit(<<"contextId", "context_id">>, "contextId", "string"),
    Implicit(<<"status">>, "status", "TaskState"),
    Optional(<<"pageSize", "page_size">>, "pageSize", "int32"),
    Implicit(<<"pageToken", "page_token">>, "pageToken", "string"),
    Optional(<<"historyLength", "history_length">>, "historyLength", "int32"),
    Optional(<<"statusTimestampAfter", "status_timestamp_after">>, "statusTimestampAfter",
         "string"),
    Optional(<<"includeArtifacts", "include_artifacts">>, "includeArtifacts", "bool")>>
ListTasksResponse == <<
    Repeated(<<"tasks">>, "tasks", "Task"),
    Implicit(<<"nextPageToken", "next_page_token">>, "nextPageToken", "string"),
    Implicit(<<"pageSize", "page_size">>, "pageSize", "int32"),
    Implicit(<<"totalSize", "total_size">>, "totalSize", "int32")>>
CancelTaskRequest == <<
    Implicit(<<"tenant">>, "tenant", "string"), Implicit(<<"id">>, "id", "string"),
    Optional(<<"metadata">>, "metadata", "Struct")>>
GetTaskPushNotificationConfigRequest == <<
    Implicit(<<"tenant">>, "tenant", "string"),
    Implicit(<<"taskId", "task_id">>, "taskId", "string"), Implicit(<<"id">>, "id", "string")>>
DeleteTaskPushNotificationConfigRequest == <<
    Implicit(<<"tenant">>, "tenant", "string"),
    Implicit(<<"taskId", "task_id">>, "taskId", "string"), Implicit(<<"id">>, "id", "string")>>
SubscribeToTaskRequest == <<
    Implicit(<<"tenant">>, "tenant", "string"), Implicit(<<"id">>, "id", "string")>>
ListTaskPushNotificationConfigsRequest == <<
    Implicit(<<"tenant">>, "tenant", "string"),
    Implicit(<<"taskId", "task_id">>, "taskId", "string"),
    Implicit(<<"pageSize", "page_size">>, "pageSize", "int32"),
    Implicit(<<"pageToken", "page_token">>, "pageToken", "string")>>
GetExtendedAgentCardRequest == <<Implicit(<<"tenant">>, "tenant", "string")>>
SendMessageResponse == <<
    OneOf("payload", <<"task">>, "task", "Task"),
    OneOf("payload", <<"message">>, "message", "Message")>>
StreamResponse == <<
    OneOf("payload", <<"task">>, "task", "Task"),
    OneOf("payload", <<"message">>, "message", "Message"),
    OneOf("payload", <<"statusUpdate", "status_update">>, "statusUpdate",
         "TaskStatusUpdateEvent"),
    OneOf("payload", <<"artifactUpdate", "artifact_update">>, "artifactUpdate",
         "TaskArtifactUpdateEvent")>>
ListTaskPushNotificationConfigsResponse == <<
    Repeated(<<"configs">>, "configs", "TaskPushNotificationConfig"),
    Implicit(<<"nextPageToken", "next_page_token">>, "nextPageToken", "string")>>

Schema == [
    SendMessageConfiguration |-> SendMessageConfiguration, Task |-> Task,
    TaskStatus |-> TaskStatus, Part |-> Part, Message |-> Message, Artifact |-> Artifact,
    TaskStatusUpdateEvent |-> TaskStatusUpdateEvent,
    TaskArtifactUpdateEvent |-> TaskArtifactUpdateEvent,
    AuthenticationInfo |-> AuthenticationInfo, AgentInterface |-> AgentInterface,
    AgentCard |-> AgentCard, AgentCard_SecuritySchemesEntry |-> AgentCard_SecuritySchemesEntry,
    AgentProvider |-> AgentProvider, AgentCapabilities |-> AgentCapabilities,
    AgentExtension |-> AgentExtension, AgentSkill |-> AgentSkill,
    AgentCardSignature |-> AgentCardSignature,
    TaskPushNotificationConfig |-> TaskPushNotificationConfig, StringList |-> StringList,
    SecurityRequirement |-> SecurityRequirement,
    SecurityRequirement_SchemesEntry |-> SecurityRequirement_SchemesEntry,
    SecurityScheme |-> SecurityScheme, APIKeySecurityScheme |-> APIKeySecurityScheme,
    HTTPAuthSecurityScheme |-> HTTPAuthSecurityScheme,
    OAuth2SecurityScheme |-> OAuth2SecurityScheme,
    OpenIdConnectSecurityScheme |-> OpenIdConnectSecurityScheme,
    MutualTlsSecurityScheme |-> MutualTlsSecurityScheme, OAuthFlows |-> OAuthFlows,
    AuthorizationCodeOAuthFlow |-> AuthorizationCodeOAuthFlow,
    AuthorizationCodeOAuthFlow_ScopesEntry |-> AuthorizationCodeOAuthFlow_ScopesEntry,
    ClientCredentialsOAuthFlow |-> ClientCredentialsOAuthFlow,
    ClientCredentialsOAuthFlow_ScopesEntry |-> ClientCredentialsOAuthFlow_ScopesEntry,
    ImplicitOAuthFlow |-> ImplicitOAuthFlow,
    ImplicitOAuthFlow_ScopesEntry |-> ImplicitOAuthFlow_ScopesEntry,
    PasswordOAuthFlow |-> PasswordOAuthFlow,
    PasswordOAuthFlow_ScopesEntry |-> PasswordOAuthFlow_ScopesEntry,
    DeviceCodeOAuthFlow |-> DeviceCodeOAuthFlow,
    DeviceCodeOAuthFlow_ScopesEntry |-> DeviceCodeOAuthFlow_ScopesEntry,
    SendMessageRequest |-> SendMessageRequest, GetTaskRequest |-> GetTaskRequest,
    ListTasksRequest |-> ListTasksRequest, ListTasksResponse |-> ListTasksResponse,
    CancelTaskRequest |-> CancelTaskRequest,
    GetTaskPushNotificationConfigRequest |-> GetTaskPushNotificationConfigRequest,
    DeleteTaskPushNotificationConfigRequest |-> DeleteTaskPushNotificationConfigRequest,
    SubscribeToTaskRequest |-> SubscribeToTaskRequest,
    ListTaskPushNotificationConfigsRequest |-> ListTaskPushNotificationConfigsRequest,
    GetExtendedAgentCardRequest |-> GetExtendedAgentCardRequest,
    SendMessageResponse |-> SendMessageResponse, StreamResponse |-> StreamResponse,
    ListTaskPushNotificationConfigsResponse |-> ListTaskPushNotificationConfigsResponse]
=============================================================================

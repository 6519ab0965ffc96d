--------------------------- MODULE LegacyFromProto ---------------------------
(***************************************************************************)
(* FromProto: the protobuf messages of protocol 0.3 as its objects.        *)
(***************************************************************************)
EXTENDS Translation

part ==
    Case({"text", "data"}) \cup Named("uri", Case({"fileWithUri"})) \cup Named("bytes", Case({"fileWithBytes"}))
    \cup Copy({"mimeType"})
message ==
    Copy({"messageId", "role", "metadata", "extensions"}) \cup Named("parts", Copy({"content"}))
    \cup NonEmpty({"contextId", "taskId"})
\* without extensions
artifact == Copy({"artifactId", "parts", "metadata"}) \cup NonEmpty({"name", "description"})
taskStatus == Copy({"state", "timestamp"}) \cup Named("message", Copy({"update"}))
task == Copy({"id", "contextId", "artifacts", "history", "metadata"}) \cup Required({"status"})
taskStatusUpdateEvent == Copy({"taskId", "contextId", "metadata", "final"}) \cup Required({"status"})

\* without append
taskArtifactUpdateEvent ==
    Copy({"taskId", "contextId", "metadata", "lastChunk"}) \cup Required({"artifact"})

messageSendParams == Named("message", Required({"request"})) \cup Copy({"configuration", "metadata"})
\* without historyLength
messageSendConfiguration ==
    Copy({"blocking", "acceptedOutputModes"}) \cup Named("pushNotificationConfig", Copy({"pushNotification"}))
sendMessageResult == Case({"task"}) \cup Named("message", Case({"msg"}))
messageStreamResult ==
    Case({"task", "statusUpdate", "artifactUpdate"}) \cup Named("message", Case({"msg"}))

\* extractTaskId and extractTaskAndPushNotificationConfigId refuse an empty id
taskQueryParams == Named("id", NonZero({"name"})) \cup Copy({"historyLength"})
taskIdParams == Named("id", NonZero({"name"}))
taskSubscription == Named("id", NonZero({"name"}))
getTaskPushNotificationConfigParams ==
    Named("id", NonZero({"name.task"})) \cup Named("pushNotificationConfigId", NonZero({"name.config"}))
deleteTaskPushNotificationConfigParams ==
    Named("id", NonZero({"name.task"})) \cup Named("pushNotificationConfigId", NonZero({"name.config"}))
listTaskPushNotificationConfigParams == Named("id", NonZero({"parent"}))
listTaskPushNotificationConfig == Copy({"configs"})
taskPushNotificationConfig_Identified ==
    Named("taskId", NonZero({"name.task"})) \cup NonZero({"id"}) \cup Copy({"url", "authentication"})
    \cup NonEmpty({"token"})

taskPushNotificationConfig ==
    Named("taskId", NonZero({"name.task"})) \cup Copy({"id", "url", "authentication"})
    \cup NonEmpty({"token"})
pushNotificationAuthenticationInfo == Copy({"schemes", "credentials"})
getAgentCardRequest == {}

-----------------------------------------------------------------------------
agentInterface == Copy({"transport", "url"})
agentProvider == Copy({"organization", "url"})
agentExtension == Copy({"uri", "required", "params"}) \cup NonEmpty({"description"})
agentCapabilities ==
    Copy({"extensions", "pushNotifications", "streaming", "supportsAuthenticatedExtendedCard"})
skills ==
    Copy({"id", "name", "description", "tags", "examples", "inputModes", "outputModes", "security"})
agentCardSignature == Copy({"protected", "signature", "header"})
\* without iconUrl
agentCard ==
    Copy({"name", "description", "version", "provider", "primary", "additionalInterfaces",
          "capabilities", "security", "securitySchemes", "defaultInputModes", "defaultOutputModes",
          "skills", "signatures"})
    \cup NonEmpty({"documentationUrl"})

security == Copy({"schemes"})
securityScheme ==
    Case({"apiKeySecurityScheme", "httpAuthSecurityScheme", "mtlsSecurityScheme",
          "oauth2SecurityScheme", "openIdConnectSecurityScheme"})
apiKey == Copy({"name"}) \cup Named("in", Copy({"location"})) \cup NonEmpty({"description"})
http == Copy({"scheme"}) \cup NonEmpty({"description", "bearerFormat"})
mutualTLS == NonEmpty({"description"})
oauth2 == Required({"flows"}) \cup NonEmpty({"description", "oauth2MetadataUrl"})
openIdConnect == Copy({"openIdConnectUrl"}) \cup NonEmpty({"description"})
oauthFlows == Case({"implicit", "password", "authorizationCode", "clientCredentials"})
authorizationCode == Copy({"authorizationUrl", "tokenUrl", "scopes"}) \cup NonEmpty({"refreshUrl"})
tokenFlow == Copy({"tokenUrl", "scopes"}) \cup NonEmpty({"refreshUrl"})
implicit == Copy({"authorizationUrl", "scopes"}) \cup NonEmpty({"refreshUrl"})
=============================================================================

---------------------------- MODULE LegacyToProto ----------------------------
(***************************************************************************)
(* ToProto: the objects of protocol 0.3 as its protobuf messages, for gRPC *)
(* and for the bodies of REST. A name "tasks/t/pushNotificationConfigs/c"  *)
(* is written as its two ids, and nested messages flat, as in              *)
(* LegacyTranslate.                                                        *)
(***************************************************************************)
EXTENDS Translation

\* neither metadata nor the name of a file
part ==
    Case({"text", "data"}) \cup Named("fileWithUri", Case({"uri"})) \cup Named("fileWithBytes", Case({"bytes"}))
    \cup OrZero({"mimeType"})
message ==
    Copy({"messageId", "role", "metadata", "extensions"}) \cup Named("content", Copy({"parts"}))
    \cup OrZero({"contextId", "taskId"})
artifact == Copy({"artifactId", "parts", "metadata", "extensions"}) \cup OrZero({"name", "description"})
taskStatus == Copy({"state", "timestamp"}) \cup Named("update", Copy({"message"}))
task == Copy({"id", "contextId", "status", "artifacts", "history", "metadata"})
taskStatusUpdateEvent == Copy({"taskId", "status", "contextId", "metadata", "final"})
taskArtifactUpdateEvent ==
    Copy({"taskId", "artifact", "contextId", "metadata"}) \cup OrZero({"append", "lastChunk"})

messageSendParams == Named("request", Copy({"message"})) \cup Copy({"configuration", "metadata"})
configuration ==
    Copy({"acceptedOutputModes"}) \cup Named("pushNotification", Copy({"pushNotificationConfig"}))
    \cup OrZero({"blocking", "historyLength"})
messageSendResult == Case({"task"}) \cup Named("msg", Case({"message"}))
messageStreamResult ==
    Case({"task", "statusUpdate", "artifactUpdate"}) \cup Named("msg", Case({"message"}))

taskQueryParams == Named("name", Copy({"id"})) \cup OrZero({"historyLength"})
cancelTaskRequest == Named("name", Copy({"id"}))
taskIdParams == Named("name", Copy({"id"}))
getTaskPushNotificationConfigParams ==
    Named("name.task", Copy({"id"})) \cup Named("name.config", OrZero({"pushNotificationConfigId"}))
deleteTaskPushNotificationConfigParams ==
    Named("name.task", Copy({"id"})) \cup Named("name.config", Copy({"pushNotificationConfigId"}))
listTaskPushNotificationConfigParams ==
    Named("parent", Copy({"id"})) \cup Fixed("pageToken", "zero") \cup Fixed("pageSize", "zero")
listTaskPushNotificationConfig == Copy({"configs"}) \cup Fixed("nextPageToken", "zero")
taskPushNotificationConfig ==
    Named("name.task", Copy({"taskId"})) \cup Named("name.config", OrZero({"id"}))
    \cup Copy({"url", "authentication"}) \cup OrZero({"id", "token"})
pushNotificationAuthenticationInfo == Copy({"schemes"}) \cup OrZero({"credentials"})
getAgentCardRequest == {}

-----------------------------------------------------------------------------
agentInterface == Copy({"transport", "url"})
agentProvider == Copy({"url", "organization"})
agentExtension == Copy({"uri", "params"}) \cup OrZero({"description", "required"})
agentCapabilities ==
    Copy({"extensions"})
    \cup OrZero({"streaming", "pushNotifications", "supportsAuthenticatedExtendedCard"})
agentSkill ==
    Copy({"id", "name", "description", "tags", "examples", "inputModes", "outputModes", "security"})
agentCardSignature == Copy({"protected", "signature", "header"})
agentCard ==
    Copy({"name", "description", "version", "provider", "primary", "additionalInterfaces",
          "capabilities", "security", "securitySchemes", "defaultInputModes", "defaultOutputModes",
          "skills", "signatures"})
    \cup OrZero({"documentationUrl"})

security == Copy({"schemes"})
securityScheme ==
    Case({"apiKeySecurityScheme", "httpAuthSecurityScheme", "mtlsSecurityScheme",
          "oauth2SecurityScheme", "openIdConnectSecurityScheme"})
apiKey == Copy({"name"}) \cup Named("location", Copy({"in"})) \cup OrZero({"description"})
http == Copy({"scheme"}) \cup OrZero({"description", "bearerFormat"})
mutualTLS == OrZero({"description"})
oauth2 == Copy({"flows"}) \cup OrZero({"description", "oauth2MetadataUrl"})
openIdConnect == Copy({"openIdConnectUrl"}) \cup OrZero({"description"})
oauthFlows == Case({"implicit", "password", "clientCredentials", "authorizationCode"})
authorizationCode == Copy({"authorizationUrl", "tokenUrl", "scopes"}) \cup OrZero({"refreshUrl"})
tokenFlow == Copy({"tokenUrl", "scopes"}) \cup OrZero({"refreshUrl"})
implicit == Copy({"authorizationUrl", "scopes"}) \cup OrZero({"refreshUrl"})
=============================================================================

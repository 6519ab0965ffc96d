--------------------------- MODULE LegacyTranslate ---------------------------
(***************************************************************************)
(* What protocol 1.0 has, as the objects of protocol 0.3, and back. Params *)
(* stand for the request they are in; what 0.3 nests (a file, a push       *)
(* configuration, the primary interface of a card) is written flat.        *)
(***************************************************************************)
EXTENDS Translation

toCompatPart ==
    Case({"text"}) \cup Named("bytes", Case({"raw"})) \cup Named("uri", Case({"url"}))
    \cup {Row("data", "data", "wrap", "one be set")}
    \cup By("flag", "data_part_compat") \cup By("besideFlag", "metadata")
    \cup Named("mimeType", By("ofFile", "mediaType")) \cup Named("name", By("ofFile", "filename"))
toCorePart ==
    Case({"text"}) \cup Named("raw", Case({"bytes"})) \cup Named("url", Case({"uri"}))
    \cup {Row("data", "data", "unwrap", "one be set")}
    \cup By("withoutFlag", "metadata")
    \cup Named("mediaType", OrZero({"mimeType"})) \cup Named("filename", OrZero({"name"}))

toCompatMessage ==
    Copy({"messageId", "parts", "metadata", "extensions", "referenceTaskIds"})
    \cup By("role", "role") \cup NonEmpty({"contextId", "taskId"})
toCoreMessage ==
    Copy({"parts", "metadata", "extensions", "referenceTaskIds", "role"})
    \cup NonZero({"messageId"}) \cup OrZero({"contextId", "taskId"})

toCompatArtifact ==
    Copy({"artifactId", "parts", "metadata", "extensions"}) \cup NonEmpty({"name", "description"})
toCoreArtifact ==
    Copy({"artifactId", "parts", "metadata", "extensions"}) \cup OrZero({"name", "description"})

toCompatTaskStatus == By("state", "state") \cup Copy({"message"}) \cup NonEmpty({"timestamp"})
toCoreTaskStatus == Copy({"state", "message", "timestamp"})

toCompatTask_HistoryLost == Copy({"id", "contextId", "artifacts", "metadata"}) \cup OrZero({"status"})
toCompatTask == Copy({"id", "contextId", "artifacts", "history", "metadata"}) \cup OrZero({"status"})
toCoreTask == Copy({"id", "contextId", "status", "artifacts", "history", "metadata"})

\* "final" is computed from the state
toCompatTaskStatusUpdateEvent ==
    Copy({"taskId", "contextId", "metadata"}) \cup OrZero({"status"}) \cup Fixed("final", "some")
toCoreTaskStatusUpdateEvent == Copy({"taskId", "contextId", "status", "metadata"})

toCompatTaskArtifactUpdateEvent ==
    Copy({"taskId", "contextId", "append", "lastChunk", "metadata"}) \cup Required({"artifact"})
toCoreTaskArtifactUpdateEvent ==
    Copy({"taskId", "contextId", "artifact", "metadata"}) \cup OrZero({"append", "lastChunk"})

-----------------------------------------------------------------------------
toCompatSendMessageConfiguration ==
    Copy({"acceptedOutputModes", "historyLength"})
    \cup Named("pushNotificationConfig", Copy({"taskPushNotificationConfig"}))
    \cup Named("blocking", By("not", "returnImmediately"))
toCoreSendMessageConfiguration_Copied ==
    Copy({"acceptedOutputModes", "historyLength"})
    \cup Named("taskPushNotificationConfig", Copy({"pushNotificationConfig"}))
    \cup Named("returnImmediately", OrZero({"blocking"}))

\* undefined is not blocking
toCoreSendMessageConfiguration ==
    Copy({"acceptedOutputModes", "historyLength"})
    \cup Named("taskPushNotificationConfig", Copy({"pushNotificationConfig"}))
    \cup Named("returnImmediately", By("not", "blocking"))

toCompatSendMessageRequest == Required({"message"}) \cup Copy({"configuration", "metadata"})
toCoreSendMessageRequest == Copy({"message", "configuration", "metadata"}) \cup Fixed("tenant", "zero")

toCompatSendMessageResponse == Case({"task", "message"})
toCoreSendMessageResponse == Case({"task", "message"})

toCompatStreamResponse == Case({"message", "task", "statusUpdate", "artifactUpdate"})
toCoreStreamResponse == Case({"message", "task", "statusUpdate", "artifactUpdate"})

toCompatGetTaskRequest == Copy({"id", "historyLength"})
toCoreGetTaskRequest == Copy({"id", "historyLength"}) \cup Fixed("tenant", "zero")

toCompatCancelTaskRequest == Copy({"id", "metadata"})
toCoreCancelTaskRequest == Copy({"id", "metadata"}) \cup Fixed("tenant", "zero")

toCompatTaskResubscriptionRequest == Copy({"id"})
toCoreSubscribeToTaskRequest == Copy({"id"}) \cup Fixed("tenant", "zero")

toCompatGetTaskPushNotificationConfigRequest ==
    Named("id", Copy({"taskId"})) \cup Named("pushNotificationConfigId", NonEmpty({"id"}))
toCoreGetTaskPushNotificationConfigRequest ==
    Named("taskId", Copy({"id"})) \cup Named("id", OrZero({"pushNotificationConfigId"}))
    \cup Fixed("tenant", "zero")

toCompatDeleteTaskPushNotificationConfigRequest ==
    Named("id", Copy({"taskId"})) \cup Named("pushNotificationConfigId", Copy({"id"}))
toCoreDeleteTaskPushNotificationConfigRequest ==
    Named("taskId", Copy({"id"})) \cup Named("id", Copy({"pushNotificationConfigId"}))
    \cup Fixed("tenant", "zero")

toCompatListTaskPushNotificationConfigRequest == Named("id", Copy({"taskId"}))
toCoreListTaskPushNotificationConfigsRequest ==
    Named("taskId", Copy({"id"}))
    \cup Fixed("tenant", "zero") \cup Fixed("pageSize", "zero") \cup Fixed("pageToken", "zero")

toCompatListTaskPushNotificationConfigSuccessResponse == Copy({"configs"})
toCoreListTaskPushNotificationConfigsResponse == Copy({"configs"}) \cup Fixed("nextPageToken", "zero")

toCompatGetAuthenticatedExtendedCardRequest == {}
toCoreGetExtendedAgentCardRequest == Fixed("tenant", "zero")

toCompatAuthenticationInfo == Named("schemes", NonEmpty({"scheme"})) \cup NonEmpty({"credentials"})
toCoreAuthenticationInfo == Named("scheme", By("first", "schemes")) \cup OrZero({"credentials"})

toCompatTaskPushNotificationConfig ==
    Copy({"taskId", "url", "authentication"}) \cup NonEmpty({"id", "token"})
toCoreTaskPushNotificationConfig ==
    Copy({"taskId", "url", "authentication"}) \cup OrZero({"id", "token"}) \cup Fixed("tenant", "zero")

-----------------------------------------------------------------------------
toCompatAgentInterface == Copy({"url"}) \cup Named("transport", Copy({"protocolBinding"}))
toCoreAgentInterface ==
    Copy({"url"}) \cup Named("protocolBinding", Copy({"transport"}))
    \cup Fixed("tenant", "zero") \cup Fixed("protocolVersion", "0.3")

toCompatAgentProvider == Copy({"url", "organization"})
toCoreAgentProvider == Copy({"url", "organization"})

toCompatAgentExtension == Copy({"uri", "required", "params"}) \cup NonEmpty({"description"})
toCoreAgentExtension == Copy({"uri", "params"}) \cup OrZero({"description", "required"})

\* with the flag for the extended card, which a card of 0.3 has at its top
toCompatAgentCapabilities ==
    Copy({"streaming", "pushNotifications", "extensions"})
    \cup Named("supportsAuthenticatedExtendedCard", Copy({"extendedAgentCard"}))
toCoreAgentCapabilities ==
    Copy({"streaming", "pushNotifications", "extensions"})
    \cup Named("extendedAgentCard", Copy({"supportsAuthenticatedExtendedCard"}))

toCompatAgentSkill ==
    Copy({"id", "name", "description", "tags", "examples", "inputModes", "outputModes"})
    \cup Named("security", Copy({"securityRequirements"}))
toCoreAgentSkill ==
    Copy({"id", "name", "description", "tags", "examples", "inputModes", "outputModes"})
    \cup Named("securityRequirements", Copy({"security"}))

toCompatAgentCardSignature == Copy({"protected", "signature", "header"})
toCoreAgentCardSignature == Copy({"protected", "signature", "header"})

CardLists == {"securitySchemes", "defaultInputModes", "defaultOutputModes", "skills", "signatures"}

\* throws unless one interface is of the 0.3 range; "primary" is the card's
\* own url, preferredTransport and protocolVersion
toCompatAgentCard ==
    Copy({"name", "description", "version", "provider"} \cup CardLists)
    \cup {Row("primary", "supportedInterfaces", "firstLegacy", "be set")}
    \cup Named("additionalInterfaces", By("otherLegacy", "supportedInterfaces"))
    \cup NonEmpty({"documentationUrl", "iconUrl"}) \cup OrZero({"capabilities"})
    \cup Named("security", Copy({"securityRequirements"}))
toCoreAgentCard ==
    Copy({"name", "description", "version", "provider", "documentationUrl", "iconUrl"} \cup CardLists)
    \cup Named("supportedInterfaces", By("primaryFirst", "primary"))
    \cup Required({"capabilities"})
    \cup Named("securityRequirements", Copy({"security"}))

-----------------------------------------------------------------------------
toCompatSecurityRequirement == Copy({"schemes"})
toCoreSecurityRequirement == Copy({"schemes"})

Schemes == {"apiKeySecurityScheme", "httpAuthSecurityScheme", "mtlsSecurityScheme",
            "oauth2SecurityScheme", "openIdConnectSecurityScheme"}
toCompatSecurityScheme == Case(Schemes)
toCoreSecurityScheme == Case(Schemes)

buildCompatApiKey == Copy({"name"}) \cup Named("in", By("location", "location")) \cup NonEmpty({"description"})
buildV1ApiKeyScheme == Copy({"name"}) \cup Named("location", Copy({"in"})) \cup OrZero({"description"})

buildCompatHttp == Copy({"scheme"}) \cup NonEmpty({"description", "bearerFormat"})
buildV1HttpScheme == Copy({"scheme"}) \cup OrZero({"description", "bearerFormat"})

buildCompatMtls == NonEmpty({"description"})
buildV1MtlsScheme == OrZero({"description"})

buildCompatOauth2 == Required({"flows"}) \cup NonEmpty({"description", "oauth2MetadataUrl"})
buildV1Oauth2Scheme == Copy({"flows"}) \cup OrZero({"description", "oauth2MetadataUrl"})

buildCompatOidc == Copy({"openIdConnectUrl"}) \cup NonEmpty({"description"})
buildV1OidcScheme == Copy({"openIdConnectUrl"}) \cup OrZero({"description"})

Flows == {"authorizationCode", "clientCredentials", "implicit", "password"}
\* a deviceCode is left out, and may leave nothing
toCompatOAuthFlows == Copy(Flows)
toCoreOAuthFlows == Case(Flows) \cup Copy({"deviceCode"})

compatAuthorizationCode == Copy({"authorizationUrl", "tokenUrl", "scopes"}) \cup NonEmpty({"refreshUrl"})
coreAuthorizationCode ==
    Copy({"authorizationUrl", "tokenUrl", "scopes"}) \cup OrZero({"refreshUrl"})
    \cup Fixed("pkceRequired", "zero")

\* clientCredentials and password
compatTokenFlow == Copy({"tokenUrl", "scopes"}) \cup NonEmpty({"refreshUrl"})
coreTokenFlow == Copy({"tokenUrl", "scopes"}) \cup OrZero({"refreshUrl"})

compatImplicit == Copy({"authorizationUrl", "scopes"}) \cup NonEmpty({"refreshUrl"})
coreImplicit == Copy({"authorizationUrl", "scopes"}) \cup OrZero({"refreshUrl"})
=============================================================================

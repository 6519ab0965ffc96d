---------------------------- MODULE MCMessageCodec ----------------------------
EXTENDS LegacyRelay, TLC

V1 == INSTANCE GrpcMessages
V1Json == INSTANCE JsonMessages
V03 == INSTANCE GrpcMessages03
V03Json == INSTANCE JsonMessages03
G == INSTANCE GoogleMessages
C == INSTANCE LegacyTranslate
To == INSTANCE LegacyToProto
From == INSTANCE LegacyFromProto

\* the messages of a version are kinds of their own
Versioned(version, schema) ==
    [k \in {<<version, name>> : name \in DOMAIN schema} |-> schema[k[2]]]

MCJson == Versioned("1.0", V1Json!Schema) @@ Versioned("0.3", V03Json!Schema)
MCBinary == Versioned("1.0", V1!Schema) @@ Versioned("0.3", V03!Schema) @@ Versioned("google", G!Schema)

-----------------------------------------------------------------------------
Over(name, toCompat, ToProto, FromProto, toCore) ==
    [name |-> name, toCompat |-> toCompat, ToProto |-> ToProto, FromProto |-> FromProto, toCore |-> toCore]

Crossings == [
    Part |-> Over("Part", C!toCompatPart, To!part, From!part, C!toCorePart),
    Message |-> Over("Message", C!toCompatMessage, To!message, From!message, C!toCoreMessage),
    Artifact |-> Over("Artifact", C!toCompatArtifact, To!artifact, From!artifact, C!toCoreArtifact),
    TaskStatus |-> Over("TaskStatus", C!toCompatTaskStatus, To!taskStatus, From!taskStatus, C!toCoreTaskStatus),
    Task |-> Over("Task", C!toCompatTask, To!task, From!task, C!toCoreTask),
    TaskStatusUpdateEvent |-> Over("TaskStatusUpdateEvent", C!toCompatTaskStatusUpdateEvent, To!taskStatusUpdateEvent, From!taskStatusUpdateEvent, C!toCoreTaskStatusUpdateEvent),
    TaskArtifactUpdateEvent |-> Over("TaskArtifactUpdateEvent", C!toCompatTaskArtifactUpdateEvent, To!taskArtifactUpdateEvent, From!taskArtifactUpdateEvent, C!toCoreTaskArtifactUpdateEvent),
    SendMessageConfiguration |-> Over("SendMessageConfiguration", C!toCompatSendMessageConfiguration, To!configuration, From!messageSendConfiguration, C!toCoreSendMessageConfiguration),
    SendMessageRequest |-> Over("SendMessageRequest", C!toCompatSendMessageRequest, To!messageSendParams, From!messageSendParams, C!toCoreSendMessageRequest),
    SendMessageResponse |-> Over("SendMessageResponse", C!toCompatSendMessageResponse, To!messageSendResult, From!sendMessageResult, C!toCoreSendMessageResponse),
    StreamResponse |-> Over("StreamResponse", C!toCompatStreamResponse, To!messageStreamResult, From!messageStreamResult, C!toCoreStreamResponse),
    GetTaskRequest |-> Over("GetTaskRequest", C!toCompatGetTaskRequest, To!taskQueryParams, From!taskQueryParams, C!toCoreGetTaskRequest),
    CancelTaskRequest |-> Over("CancelTaskRequest", C!toCompatCancelTaskRequest, To!cancelTaskRequest, From!taskIdParams, C!toCoreCancelTaskRequest),
    SubscribeToTaskRequest |-> Over("SubscribeToTaskRequest", C!toCompatTaskResubscriptionRequest, To!taskIdParams, From!taskSubscription, C!toCoreSubscribeToTaskRequest),
    GetTaskPushNotificationConfigRequest |-> Over("GetTaskPushNotificationConfigRequest", C!toCompatGetTaskPushNotificationConfigRequest, To!getTaskPushNotificationConfigParams, From!getTaskPushNotificationConfigParams, C!toCoreGetTaskPushNotificationConfigRequest),
    DeleteTaskPushNotificationConfigRequest |-> Over("DeleteTaskPushNotificationConfigRequest", C!toCompatDeleteTaskPushNotificationConfigRequest, To!deleteTaskPushNotificationConfigParams, From!deleteTaskPushNotificationConfigParams, C!toCoreDeleteTaskPushNotificationConfigRequest),
    ListTaskPushNotificationConfigsRequest |-> Over("ListTaskPushNotificationConfigsRequest", C!toCompatListTaskPushNotificationConfigRequest, To!listTaskPushNotificationConfigParams, From!listTaskPushNotificationConfigParams, C!toCoreListTaskPushNotificationConfigsRequest),
    ListTaskPushNotificationConfigsResponse |-> Over("ListTaskPushNotificationConfigsResponse", C!toCompatListTaskPushNotificationConfigSuccessResponse, To!listTaskPushNotificationConfig, From!listTaskPushNotificationConfig, C!toCoreListTaskPushNotificationConfigsResponse),
    GetExtendedAgentCardRequest |-> Over("GetExtendedAgentCardRequest", C!toCompatGetAuthenticatedExtendedCardRequest, To!getAgentCardRequest, From!getAgentCardRequest, C!toCoreGetExtendedAgentCardRequest),
    AuthenticationInfo |-> Over("AuthenticationInfo", C!toCompatAuthenticationInfo, To!pushNotificationAuthenticationInfo, From!pushNotificationAuthenticationInfo, C!toCoreAuthenticationInfo),
    TaskPushNotificationConfig |-> Over("TaskPushNotificationConfig", C!toCompatTaskPushNotificationConfig, To!taskPushNotificationConfig, From!taskPushNotificationConfig, C!toCoreTaskPushNotificationConfig),
    AgentInterface |-> Over("AgentInterface", C!toCompatAgentInterface, To!agentInterface, From!agentInterface, C!toCoreAgentInterface),
    AgentProvider |-> Over("AgentProvider", C!toCompatAgentProvider, To!agentProvider, From!agentProvider, C!toCoreAgentProvider),
    AgentExtension |-> Over("AgentExtension", C!toCompatAgentExtension, To!agentExtension, From!agentExtension, C!toCoreAgentExtension),
    AgentCapabilities |-> Over("AgentCapabilities", C!toCompatAgentCapabilities, To!agentCapabilities, From!agentCapabilities, C!toCoreAgentCapabilities),
    AgentSkill |-> Over("AgentSkill", C!toCompatAgentSkill, To!agentSkill, From!skills, C!toCoreAgentSkill),
    AgentCardSignature |-> Over("AgentCardSignature", C!toCompatAgentCardSignature, To!agentCardSignature, From!agentCardSignature, C!toCoreAgentCardSignature),
    AgentCard |-> Over("AgentCard", C!toCompatAgentCard, To!agentCard, From!agentCard, C!toCoreAgentCard),
    SecurityRequirement |-> Over("SecurityRequirement", C!toCompatSecurityRequirement, To!security, From!security, C!toCoreSecurityRequirement),
    SecurityScheme |-> Over("SecurityScheme", C!toCompatSecurityScheme, To!securityScheme, From!securityScheme, C!toCoreSecurityScheme),
    APIKeySecurityScheme |-> Over("APIKeySecurityScheme", C!buildCompatApiKey, To!apiKey, From!apiKey, C!buildV1ApiKeyScheme),
    HTTPAuthSecurityScheme |-> Over("HTTPAuthSecurityScheme", C!buildCompatHttp, To!http, From!http, C!buildV1HttpScheme),
    MutualTlsSecurityScheme |-> Over("MutualTlsSecurityScheme", C!buildCompatMtls, To!mutualTLS, From!mutualTLS, C!buildV1MtlsScheme),
    OAuth2SecurityScheme |-> Over("OAuth2SecurityScheme", C!buildCompatOauth2, To!oauth2, From!oauth2, C!buildV1Oauth2Scheme),
    OpenIdConnectSecurityScheme |-> Over("OpenIdConnectSecurityScheme", C!buildCompatOidc, To!openIdConnect, From!openIdConnect, C!buildV1OidcScheme),
    OAuthFlows |-> Over("OAuthFlows", C!toCompatOAuthFlows, To!oauthFlows, From!oauthFlows, C!toCoreOAuthFlows),
    AuthorizationCodeOAuthFlow |-> Over("AuthorizationCodeOAuthFlow", C!compatAuthorizationCode, To!authorizationCode, From!authorizationCode, C!coreAuthorizationCode),
    ClientCredentialsOAuthFlow |-> Over("ClientCredentialsOAuthFlow", C!compatTokenFlow, To!tokenFlow, From!tokenFlow, C!coreTokenFlow),
    PasswordOAuthFlow |-> Over("PasswordOAuthFlow", C!compatTokenFlow, To!tokenFlow, From!tokenFlow, C!coreTokenFlow),
    ImplicitOAuthFlow |-> Over("ImplicitOAuthFlow", C!compatImplicit, To!implicit, From!implicit, C!coreImplicit)]

MCCrossing == Versioned("1.0", Crossings)

\* the messages of 0.3 whose fields the model has as they are; it writes the
\* others flat: parts, cards, names of a configuration
Flat ==
    {"Part", "TaskPushNotificationConfig", "GetTaskPushNotificationConfigRequest",
     "DeleteTaskPushNotificationConfigRequest", "AgentCard", "AgentCapabilities"}

NamedOtherwise == [
    SubscribeToTaskRequest |-> "TaskSubscriptionRequest",
    ListTaskPushNotificationConfigsRequest |-> "ListTaskPushNotificationConfigRequest",
    ListTaskPushNotificationConfigsResponse |-> "ListTaskPushNotificationConfigResponse",
    GetExtendedAgentCardRequest |-> "GetAgentCardRequest", SecurityRequirement |-> "Security"]

MCCarrier ==
    [k \in {<<"1.0", name>> : name \in DOMAIN Crossings \ Flat} |->
        <<"0.3", IF k[2] \in DOMAIN NamedOtherwise THEN NamedOtherwise[k[2]] ELSE k[2]>>]

MCGrpcOnly ==
    {<<"1.0", name>> : name \in
        {"GetTaskRequest", "CancelTaskRequest", "SubscribeToTaskRequest", "GetExtendedAgentCardRequest",
         "GetTaskPushNotificationConfigRequest", "DeleteTaskPushNotificationConfigRequest",
         "ListTaskPushNotificationConfigsRequest"}}

\* the translations to protobuf name the fields of the messages that carry them
ASSUME CarrierAssumption ==
    \A k \in DOMAIN MCCarrier :
        {row.to : row \in MCCrossing[k].ToProto} = Names(MCBinary[MCCarrier[k]])

-----------------------------------------------------------------------------
\* the items a field may hold
Special(f) ==
    CASE f.type = "Timestamp" -> {<<"loose">>}
      [] f.type = "Value" /\ f.rule = "oneof" -> {<<"null">>}
      [] f.name = "state" -> {<<"unknown">>}
      [] f.name = "role" -> {<<"unknown">>, <<"agent">>}
      [] f.name = "location" -> {<<"elsewhere">>}
      [] f.name = "supportedInterfaces" -> {<<"legacy", "some">>, <<"legacy", "legacy">>}
      [] OTHER -> {}

Held(f) ==
    CASE f.rule = "repeated" -> {<<"some">>, <<"some", "zero">>} \cup Special(f)
      [] f.rule = "map" -> {{<<"a", "zero">>}, {<<"a", "some">>, <<"b", "zero">>}}
      [] f.rule = "implicit" -> {<<"some">>} \cup Special(f)
      [] OTHER -> {<<"zero">>, <<"some">>} \cup Special(f)

\* at most two fields that are not as createBase has them
MCSample(k) ==
    LET fields == MCBinary[k]
        fits == UNION {{<<i, x>> : x \in Held(fields[i])} : i \in DOMAIN fields}
        apart(p, q) == fields[p[1]].name \notin Alternatives(fields, fields[q[1]]) /\ p[1] # q[1]
        with(S) == [name \in Names(fields) |->
            IF \E p \in S : fields[p[1]].name = name
            THEN (CHOOSE p \in S : fields[p[1]].name = name)[2] ELSE Unset(Named(fields, name))]
    IN  {with({})} \cup {with({p}) : p \in fits}
        \cup {with({pq[1], pq[2]}) : pq \in {pq \in fits \X fits : apart(pq[1], pq[2])}}
=============================================================================

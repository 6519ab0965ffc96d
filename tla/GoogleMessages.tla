--------------------------- MODULE GoogleMessages ---------------------------
(***************************************************************************)
(* The messages of Google's libraries that a gRPC message nests, and those *)
(* of the error details that travel beside it.                             *)
(***************************************************************************)
EXTENDS WireSchema

Struct == <<Map(1, "fields", "Struct_FieldsEntry")>>
Struct_FieldsEntry == <<Implicit(1, "key", "string"), Optional(2, "value", "Value")>>
Value == <<
    OneOf("kind", 1, "nullValue", "int32"), OneOf("kind", 2, "numberValue", "double"),
    OneOf("kind", 3, "stringValue", "string"), OneOf("kind", 4, "boolValue", "bool"),
    OneOf("kind", 5, "structValue", "Struct"), OneOf("kind", 6, "listValue", "ListValue")>>
ListValue == <<Repeated(1, "values", "Value")>>
Timestamp == <<Implicit(1, "seconds", "int64"), Implicit(2, "nanos", "int32")>>
Any == <<Implicit(1, "typeUrl", "string"), Implicit(2, "value", "bytes")>>
Status == <<
    Implicit(1, "code", "int32"), Implicit(2, "message", "string"),
    Repeated(3, "details", "Any")>>
ErrorInfo == <<
    Implicit(1, "reason", "string"), Implicit(2, "domain", "string"),
    Map(3, "metadata", "ErrorInfo_MetadataEntry")>>
ErrorInfo_MetadataEntry == <<Implicit(1, "key", "string"), Implicit(2, "value", "string")>>
RetryInfo == <<Optional(1, "retryDelay", "Duration")>>
DebugInfo == <<Repeated(1, "stackEntries", "string"), Implicit(2, "detail", "string")>>
QuotaFailure == <<Repeated(1, "violations", "QuotaFailure_Violation")>>
QuotaFailure_Violation == <<
    Implicit(1, "subject", "string"), Implicit(2, "description", "string"),
    Implicit(3, "apiService", "string"), Implicit(4, "quotaMetric", "string"),
    Implicit(5, "quotaId", "string"),
    Map(6, "quotaDimensions", "QuotaFailure_Violation_QuotaDimensionsEntry"),
    Implicit(7, "quotaValue", "int64"), Optional(8, "futureQuotaValue", "int64")>>
QuotaFailure_Violation_QuotaDimensionsEntry == <<
    Implicit(1, "key", "string"), Implicit(2, "value", "string")>>
PreconditionFailure == <<Repeated(1, "violations", "PreconditionFailure_Violation")>>
PreconditionFailure_Violation == <<
    Implicit(1, "type", "string"), Implicit(2, "subject", "string"),
    Implicit(3, "description", "string")>>
BadRequest == <<Repeated(1, "fieldViolations", "BadRequest_FieldViolation")>>
BadRequest_FieldViolation == <<
    Implicit(1, "field", "string"), Implicit(2, "description", "string"),
    Implicit(3, "reason", "string"), Optional(4, "localizedMessage", "LocalizedMessage")>>
RequestInfo == <<Implicit(1, "requestId", "string"), Implicit(2, "servingData", "string")>>
ResourceInfo == <<
    Implicit(1, "resourceType", "string"), Implicit(2, "resourceName", "string"),
    Implicit(3, "owner", "string"), Implicit(4, "description", "string")>>
Help == <<Repeated(1, "links", "Help_Link")>>
Help_Link == <<Implicit(1, "description", "string"), Implicit(2, "url", "string")>>
LocalizedMessage == <<Implicit(1, "locale", "string"), Implicit(2, "message", "string")>>

Schema == [
    Struct |-> Struct, Struct_FieldsEntry |-> Struct_FieldsEntry, Value |-> Value,
    ListValue |-> ListValue, Timestamp |-> Timestamp, Any |-> Any, Status |-> Status,
    ErrorInfo |-> ErrorInfo, ErrorInfo_MetadataEntry |-> ErrorInfo_MetadataEntry,
    RetryInfo |-> RetryInfo, DebugInfo |-> DebugInfo, QuotaFailure |-> QuotaFailure,
    QuotaFailure_Violation |-> QuotaFailure_Violation,
    QuotaFailure_Violation_QuotaDimensionsEntry |-> QuotaFailure_Violation_QuotaDimensionsEntry,
    PreconditionFailure |-> PreconditionFailure,
    PreconditionFailure_Violation |-> PreconditionFailure_Violation, BadRequest |-> BadRequest,
    BadRequest_FieldViolation |-> BadRequest_FieldViolation, RequestInfo |-> RequestInfo,
    ResourceInfo |-> ResourceInfo, Help |-> Help, Help_Link |-> Help_Link,
    LocalizedMessage |-> LocalizedMessage]
=============================================================================

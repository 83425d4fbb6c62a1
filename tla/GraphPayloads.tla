---------------------------- MODULE GraphPayloads ----------------------------
(*****************************************************************************)
(* The wire payloads of reading and changing entities, statements, relations *)
(* and schemas, and the space and session registries, as wire/types.py       *)
(* declares them: for each class, the convention each field follows in       *)
(* to_map and from_map (see Schema).  A field is named by its key in the     *)
(* map.                                                                      *)
(*****************************************************************************)
EXTENDS Schema

EntityReadPayloads == [
  EntityView |-> Req({"entity_id", "entity_type_id", "canonical_name", "normalized_name",
      "mention_count", "created_at_unix_nanos", "updated_at_unix_nanos", "merged_into",
      "embedding_version", "flags"}) @@ List({"aliases", "attributes_blob"}),
  EntityGetRequest |-> Req({"entity_id"}) @@ OptSub([act_as |-> "ActAs"]),
  EntityGetResponse |-> Sub([entity |-> "EntityView"]) @@ List({"resolved_from"}),
  EntityListRequest |-> Req({"entity_type_id", "name_prefix", "mention_count_min",
      "include_tombstoned", "include_merged", "limit"}) @@ List({"cursor"})
      @@ OptSub([act_as |-> "ActAs"])]

EntityListPayloads == [
  EntityListItem |-> Sub([entity |-> "EntityView"]),
  EntityListResponseFrame |-> Sub([items |-> "EntityListItem"]) @@ List({"next_cursor"})
      @@ Req({"cumulative_count", "is_final"})]

EntityResolvePayloads == [
  EntityResolveRequest |-> Req({"candidate_name", "resolution_context", "entity_type_hint",
      "allow_create", "request_id"}) @@ OptSub([act_as |-> "ActAs"]),
  EntityResolveResponse |-> Req({"outcome", "tier", "resolved_entity", "audit_id"})
      @@ F32({"confidence"}) @@ List({"candidate_ids"})]

StatementValuePayloads == [StatementValue |-> Double({"value"})]

StatementReadPayloads == [
  StatementView |-> Req({"statement_id", "kind", "subject", "subject_pending_audit_id",
      "predicate", "extractor_id", "extracted_at_unix_nanos", "schema_version",
      "valid_from_unix_nanos", "valid_to_unix_nanos", "event_at_unix_nanos", "version",
      "superseded_by", "supersedes", "chain_root", "tombstoned", "tombstoned_at_unix_nanos",
      "tombstone_reason", "flags", "is_stateful"}) @@ Sub([object |-> "StatementObject",
      evidence |-> "EvidenceRef"]) @@ F32({"confidence"}),
  StatementGetRequest |-> Req({"statement_id", "follow_supersession"})
      @@ OptSub([act_as |-> "ActAs"]),
  StatementGetResponse |-> Sub([statement |-> "StatementView"])
      @@ Req({"returned_via_supersession"})]

StatementListPayloads == [
  StatementListRequest |-> Req({"subject", "predicate", "kind", "time_range_start_unix_nanos",
      "time_range_end_unix_nanos", "only_current", "include_tombstoned", "limit"})
      @@ F32({"min_confidence"}) @@ List({"cursor"}) @@ OptSub([act_as |-> "ActAs"]),
  StatementListResponseFrame |-> Sub([items |-> "StatementView"]) @@ List({"next_cursor"})
      @@ Req({"cumulative_count", "is_final"})]

RelationReadPayloads == [
  RelationView |-> Req({"relation_id", "chain_root", "relation_type", "from_entity", "to_entity",
      "extractor_id", "extracted_at_unix_nanos", "valid_from_unix_nanos", "valid_to_unix_nanos",
      "version", "superseded_by", "supersedes", "tombstoned", "tombstoned_at_unix_nanos","flags"})
      @@ List({"properties_blob"}) @@ Sub([evidence |-> "EvidenceRef"]) @@ F32({"confidence"}),
  RelationListFromRequest |-> Req({"from_entity", "relation_type_filter",
      "time_range_start_unix_nanos", "time_range_end_unix_nanos", "include_superseded",
      "include_tombstoned", "limit"}) @@ List({"cursor"}) @@ OptSub([act_as |-> "ActAs"]),
  RelationListFromResponseFrame |-> Sub([items |-> "RelationView"]) @@ List({"next_cursor"})
      @@ Req({"cumulative_count", "is_final"})]

SchemaReadPayloads == [
  RelationListToRequest |-> Req({"to_entity", "relation_type_filter",
      "time_range_start_unix_nanos", "time_range_end_unix_nanos", "include_superseded",
      "include_tombstoned", "limit"}) @@ List({"cursor"}) @@ OptSub([act_as |-> "ActAs"]),
  RelationListToResponseFrame |-> Sub([items |-> "RelationView"]) @@ List({"next_cursor"})
      @@ Req({"cumulative_count", "is_final"}),
  SchemaGetRequest |-> Req({"namespace", "version"}) @@ OptSub([act_as |-> "ActAs"]),
  SchemaGetResponse |-> Req({"namespace", "schema_version", "schema_document",
      "uploaded_at_unix_nanos", "validator_version"}) @@ List({"source_blob"})]

SchemaListPayloads == [
  SchemaListRequest |-> Req({"namespace", "limit"}) @@ List({"cursor"})
      @@ OptSub([act_as |-> "ActAs"]),
  SchemaListItem |-> Req({"schema_version", "uploaded_at_unix_nanos", "validator_version",
      "has_source_text"}),
  SchemaListResponseFrame |-> Req({"namespace", "total", "is_final"})
      @@ Sub([items |-> "SchemaListItem"]) @@ List({"next_cursor"}),
  SchemaValidateRequest |-> Req({"schema_document"}) @@ OptSub([act_as |-> "ActAs"]),
  SchemaValidateResponse |-> Req({"namespace", "would_be_version"})
      @@ Sub([validation_errors |-> "SchemaValidationError"])]

EntityUpdatePayloads == [
  EntityUpdateRequest |-> Req({"entity_id", "canonical_name", "request_id"}) @@ List({"aliases",
      "attributes_blob"}) @@ OptSub([act_as |-> "ActAs"]),
  EntityUpdateResponse |-> Sub([entity |-> "EntityView"]),
  EntityRenameRequest |-> Req({"entity_id", "new_canonical_name", "move_to_alias", "request_id"})
      @@ OptSub([act_as |-> "ActAs"]),
  EntityRenameResponse |-> Sub([entity |-> "EntityView"]),
  EntityMergeRequest |-> Req({"survivor", "merged", "reason", "request_id"})@@ F32({"confidence"})
      @@ OptSub([act_as |-> "ActAs"])]

EntityRetirePayloads == [
  EntityMergeResponse |-> Req({"audit_id", "grace_period_seconds"}),
  EntityUnmergeRequest |-> Req({"merged_entity", "request_id"}) @@ OptSub([act_as |-> "ActAs"]),
  EntityUnmergeResponse |-> Req({"restored_entity_id"}),
  EntityTombstoneRequest |-> Req({"entity_id", "reason", "request_id"})
      @@ OptSub([act_as |-> "ActAs"]),
  EntityTombstoneResponse |-> Req({"tombstoned_at_unix_nanos"}),
  StatementSupersedeRequest |-> Req({"old_statement_id", "request_id"})
      @@ Sub([new_statement |-> "StatementCreateRequest"]) @@ OptSub([act_as |-> "ActAs"])]

StatementRetirePayloads == [
  StatementSupersedeResponse |-> Req({"new_statement_id", "chain_root", "version"}),
  StatementTombstoneRequest |-> Req({"statement_id", "reason", "reason_message", "request_id"})
      @@ OptSub([act_as |-> "ActAs"]),
  StatementTombstoneResponse |-> Req({"tombstoned_at_unix_nanos"}),
  StatementRetractRequest |-> Req({"statement_id", "reason", "reason_message", "request_id"})
      @@ OptSub([act_as |-> "ActAs"]),
  StatementRetractResponse |-> Req({"retracted_at_unix_nanos", "will_zero_at_unix_nanos"})]

StatementHistoryPayloads == [
  StatementHistoryRequest |-> Req({"anchor_id", "include_tombstoned", "limit"})@@ List({"cursor"})
      @@ OptSub([act_as |-> "ActAs"]),
  StatementHistoryResponseFrame |-> Sub([items |-> "StatementView"]) @@ Req({"chain_root",
      "total_versions", "is_final"}) @@ List({"next_cursor"}),
  RelationGetRequest |-> Req({"relation_id", "follow_supersession"})
      @@ OptSub([act_as |-> "ActAs"]),
  RelationGetResponse |-> Sub([relation |-> "RelationView"]) @@ Req({"returned_via_supersession"})]

RelationRetirePayloads == [
  RelationSupersedeRequest |-> Req({"old_relation_id", "request_id"})
      @@ Sub([new_relation |-> "RelationCreateRequest"]) @@ OptSub([act_as |-> "ActAs"]),
  RelationSupersedeResponse |-> Req({"new_relation_id", "version"}),
  RelationTombstoneRequest |-> Req({"relation_id", "reason", "request_id"})
      @@ OptSub([act_as |-> "ActAs"]),
  RelationTombstoneResponse |-> Req({"tombstoned_at_unix_nanos"}),
  TraversalStepWire |-> Req({"relation_id", "from", "to", "relation_type", "depth"}),
  TraversalPathWire |-> Sub([steps |-> "TraversalStepWire"])]

TraversePayloads == [
  RelationTraverseRequest |-> Req({"start_entity", "direction", "max_depth", "max_nodes",
      "time_at_unix_nanos", "include_superseded", "request_id"}) @@ List({"relation_types"})
      @@ OptSub([act_as |-> "ActAs"]),
  RelationTraverseResponseFrame |-> Sub([paths |-> "TraversalPathWire"]) @@ Req({"total_paths",
      "truncated", "is_final"}),
  QueryExplainRequest |-> Sub([query |-> "QueryRequest"]) @@ OptSub([act_as |-> "ActAs"]),
  QueryExplainResponse |-> Req({"plan_text"}) @@ F32({"estimated_cost_ms"})]

QueryTracesPayloads == [
  QueryTraceRequest |-> Sub([query |-> "QueryRequest"]) @@ OptSub([act_as |-> "ActAs"]),
  QueryTraceResponse |-> Req({"trace_text"}) @@ F64({"total_latency_ms"}),
  SpaceView |-> Req({"space", "created_at_unix_nanos", "last_active_unix_nanos", "memory_count",
      "session_count"}),
  SpaceCreateRequest |-> Req({"request_id"}) @@ OptList({"metadata"})
      @@ OptSub([act_as |-> "ActAs"]),
  SpaceCreateResponse |-> Req({"space", "created", "created_at_unix_nanos",
      "last_active_unix_nanos", "memory_count", "session_count"})]

SpacePayloads == [
  SpaceListRequest |-> Req({"limit"}) @@ OptSub([act_as |-> "ActAs"]),
  SpaceListResponse |-> Sub([spaces |-> "SpaceView"]) @@ Req({"cross_shard_complete"}),
  SpaceDeleteRequest |-> Req({"request_id"}) @@ OptSub([act_as |-> "ActAs"]),
  SpaceDeleteResponse |-> Req({"space", "existed", "memories_forgotten"}),
  SessionView |-> Req({"session_id", "created_at_unix_nanos", "last_active_unix_nanos",
      "memory_count"}) @@ Opt({"title"})]

SessionOpsPayloads == [
  SessionCreateRequest |-> Req({"session_id", "request_id"}) @@ Opt({"title"})
      @@ OptSub([act_as |-> "ActAs"]),
  SessionCreateResponse |-> Req({"space_id", "session_id", "created", "created_at_unix_nanos",
      "last_active_unix_nanos", "memory_count"}),
  SessionListRequest |-> Req({"limit"}) @@ OptSub([act_as |-> "ActAs"]),
  SessionListResponse |-> Req({"space_id"}) @@ Sub([sessions |-> "SessionView"]),
  SessionDeleteRequest |-> Req({"session_id", "request_id"}) @@ TolBool({"hard"})
      @@ OptSub([act_as |-> "ActAs"])]

SessionDeletePayloads == [
  SessionDeleteResponse |-> Req({"space_id", "session_id", "existed", "memories_forgotten"})]

GraphClasses ==
  EntityReadPayloads @@ EntityListPayloads @@ EntityResolvePayloads @@ StatementReadPayloads
  @@ StatementValuePayloads
  @@ StatementListPayloads @@ RelationReadPayloads @@ SchemaReadPayloads @@
  SchemaListPayloads @@ EntityUpdatePayloads @@ EntityRetirePayloads @@
  StatementRetirePayloads @@ StatementHistoryPayloads @@ RelationRetirePayloads @@
  TraversePayloads @@ QueryTracesPayloads @@ SpacePayloads @@ SessionOpsPayloads @@
  SessionDeletePayloads
=============================================================================

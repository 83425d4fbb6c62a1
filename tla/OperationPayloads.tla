-------------------------- MODULE OperationPayloads --------------------------
(*****************************************************************************)
(* The wire payloads of creating graph nodes, schema changes, LINK, PLAN,    *)
(* REASON, transactions and subscription events, as wire/types.py declares   *)
(* them: for each class, the convention each field follows in to_map and     *)
(* from_map (see Schema).  A field is named by its key in the map.           *)
(*****************************************************************************)
EXTENDS Schema

CreateNodePayloads == [
  EntityCreateRequest |-> Req({"entity_type_id", "canonical_name", "session_id", "request_id"})
      @@ List({"aliases", "attributes_blob"}) @@ OptSub([act_as |-> "ActAs"]),
  EntityCreateResponse |-> Req({"entity_id"}),
  StatementCreateRequest |-> Req({"kind", "subject", "predicate", "extractor_id",
      "valid_from_unix_nanos", "valid_to_unix_nanos", "event_at_unix_nanos", "schema_version",
      "session_id", "request_id"}) @@ Sub([object |-> "StatementObject",
      evidence |-> "EvidenceRef"]) @@ F32({"confidence"}) @@ OptSub([act_as |-> "ActAs"]),
  StatementCreateResponse |-> Req({"statement_id", "auto_superseded", "chain_root"})]

CreateRelationPayloads == [
  RelationCreateRequest |-> Req({"relation_type", "from_entity", "to_entity", "extractor_id",
      "valid_from_unix_nanos", "valid_to_unix_nanos", "session_id", "request_id"})
      @@ List({"properties_blob"}) @@ Sub([evidence |-> "EvidenceRef"]) @@ F32({"confidence"})
      @@ OptSub([act_as |-> "ActAs"]),
  RelationCreateResponse |-> Req({"relation_id"}),
  SchemaUploadRequest |-> Req({"schema_document", "dry_run", "allow_breaking", "request_id"})
      @@ OptSub([act_as |-> "ActAs"]),
  SchemaValidationError |-> Req({"code", "message", "line", "column", "length", "severity"})]

SchemaChangePayloads == [
  SchemaDropRequest |-> Req({"namespace", "target_kind", "target_name", "force", "request_id"})
      @@ OptSub([act_as |-> "ActAs"]),
  SchemaDropResponse |-> Req({"namespace", "schema_version", "target_kind", "target_name",
      "dropped", "live_rows"}) @@ TolSub([validation_errors |-> "SchemaValidationError"]),
  SchemaReplaceRequest |-> Req({"schema_document", "force_drop_existing", "request_id"})
      @@ OptSub([act_as |-> "ActAs"])]

SchemaResultPayloads == [
  SchemaReplaceResponse |-> Req({"namespace", "schema_version", "dropped_count"})
      @@ TolSub([validation_errors |-> "SchemaValidationError"]),
  CancelStreamRequest |-> Req({"target_stream_id"}) @@ Tol({"reason"}),
  CancelStreamAck |-> Req({"target_stream_id", "cancelled_at_unix_nanos"}),
  SchemaUploadResponse |-> Req({"namespace", "schema_version", "backward_compatible"})
      @@ Sub([validation_errors |-> "SchemaValidationError"]) @@ List({"migration_summary_blob"}),
  TimeRange |-> Nul({"from_unix_ms", "to_unix_ms"}),
  FusionConfig |-> Req({"k"}) @@ F32({"semantic_weight", "lexical_weight", "graph_weight"})]

QueryPayloads == [
  QueryRequest |-> Req({"text", "include_tombstoned", "include_superseded", "limit","request_id"})
      @@ Nul({"entity_anchor", "as_of_record_time_unix_nanos"}) @@ List({"kind_filter",
      "predicate_filter"}) @@ NulList({"session_filter"}) @@ NulSub([time_filter |-> "TimeRange",
      fusion_config |-> "FusionConfig"]) @@ NulF32({"confidence_min"})
      @@ Sub([retrievers |-> "RetrieverSelection"]),
  MaterializeProceduralRequest |-> Req({"space_id", "top_k", "request_id"})
      @@ NulList({"session_filter"}) @@ F32({"min_confidence"}) @@ List({"categories"})
      @@ OptSub([act_as |-> "ActAs"]),
  MaterializeProceduralResponse |-> Req({"system_block", "total_candidates", "trimmed_by_budget"})
      @@ List({"statement_ids"})]

LinkOpsPayloads == [
  LinkRequest |-> Req({"source", "target", "kind", "request_id"}) @@ F32({"weight"})
      @@ Nul({"txn_id"}) @@ OptSub([act_as |-> "ActAs"]),
  LinkResponse |-> Req({"source", "target", "kind", "created_at_unix_nanos", "already_existed"})
      @@ F32({"weight"}),
  UnlinkRequest |-> Req({"source", "target", "kind", "request_id"}) @@ Nul({"txn_id"})
      @@ OptSub([act_as |-> "ActAs"]),
  UnlinkResponse |-> Req({"source", "target", "kind", "removed"})]

PlanPayloads == [
  PlanBudget |-> Req({"max_steps", "max_wall_time_ms", "max_branches_explored"}),
  PlanRequest |-> Sub([start |-> "PlanState", goal |-> "PlanState", budget |-> "PlanBudget"])
      @@ Nul({"strategy_hint", "request_id", "txn_id"}) @@ NulList({"session_filter"})
      @@ TolBool({"trace"}) @@ OptSub([act_as |-> "ActAs"]),
  PlanStep |-> Req({"step_index", "memory_id", "text"})
      @@ Sub([transition_kind |-> "TransitionKind"]) @@ F32({"confidence",
      "estimated_distance_to_goal"}),
  PlanResponseFrame |-> Sub([steps |-> "PlanStep"]) @@ Req({"is_final"}) @@ Nul({"plan_status"})
      @@ OptSub([trace |-> "PlanTrace"])]

PlanTracesPayloads == [
  PlanTraceNode |-> Req({"memory_id", "text", "direction", "depth"}) @@ Nul({"parent_edge"})
      @@ NulF32({"alignment_score"}),
  PlanTraceMeetingPoint |-> Req({"memory_id", "text", "included_in_result"}),
  PlanTrace |-> Sub([explored |-> "PlanTraceNode", meeting_points |-> "PlanTraceMeetingPoint"])]

ReasonPayloads == [
  ReasonRequest |-> Sub([observation |-> "ObservationInput"]) @@ Req({"depth", "max_inferences",
      "budget_wall_time_ms"}) @@ F32({"confidence_threshold"}) @@ NulList({"session_filter"})
      @@ Nul({"request_id", "txn_id"}) @@ TolBool({"trace"}) @@ OptSub([act_as |-> "ActAs"]),
  InferenceStep |-> Req({"step_index", "claim"}) @@ List({"supporting_memories",
      "contradicting_memories"}) @@ F32({"confidence"})
      @@ Sub([inference_kind |-> "InferenceKind"]),
  ReasonResponseFrame |-> Sub([inferences |-> "InferenceStep"]) @@ Req({"is_final"})
      @@ Nul({"reason_status"}) @@ OptSub([trace |-> "ReasonTrace"]),
  ReasonTraceCandidate |-> Req({"memory_id", "text"}) @@ F32({"score"})]

ReasonWalkPayloads == [
  ReasonTraceBase |-> Sub([candidates |-> "ReasonTraceCandidate"]),
  ReasonTraceEdgeCandidate |-> Req({"memory_id", "text", "edge_kind", "depth", "from_memory_id"})
      @@ F32({"raw_score"}),
  ReasonTraceIdWithText |-> Req({"memory_id", "text"}),
  ReasonTraceScoredId |-> Req({"memory_id", "text"}) @@ F32({"score"}),
  ReasonTraceWalk |-> Sub([considered |-> "ReasonTraceEdgeCandidate",
      dropped_by_edge_kind |-> "ReasonTraceEdgeCandidate",
      dropped_by_tombstone |-> "ReasonTraceIdWithText",
      dropped_by_visited |-> "ReasonTraceIdWithText",
      dropped_by_confidence |-> "ReasonTraceScoredId",
      dropped_by_max_supporting |-> "ReasonTraceIdWithText",
      dropped_by_max_contradicting |-> "ReasonTraceIdWithText"])]

ReasonScoresPayloads == [
  ReasonTraceScoreBreakdown |-> Req({"memory_id", "text"}) @@ F32({"base_similarity", "decay",
      "weight_product", "alignment", "analogical_fit", "final_score"}),
  ReasonTraceCentroid |-> Req({"computed"}) @@ Nul({"skipped_reason"}),
  ReasonTrace |-> Sub([base |-> "ReasonTraceBase", walk |-> "ReasonTraceWalk",
      scoring |-> "ReasonTraceScoreBreakdown", centroid |-> "ReasonTraceCentroid"]),
  TxnBeginRequest |-> Req({"txn_id", "timeout_seconds"}) @@ OptSub([act_as |-> "ActAs"]),
  TxnBeginResponse |-> Req({"txn_id", "timeout_seconds", "started_at_unix_nanos"})]

TxnPayloads == [
  TxnCommitRequest |-> Req({"txn_id"}),
  TxnCommitResponse |-> Req({"txn_id", "committed_at_unix_nanos", "operations_applied"}),
  TxnAbortRequest |-> Req({"txn_id"}),
  TxnAbortResponse |-> Req({"txn_id", "operations_discarded"})]

StagePayloads == [
  StageAutoEdgePayload |-> Req({"edges_written"}),
  StageTemporalEdgePayload |-> Req({"edges_written"}),
  StageHypePayload |-> Req({"questions_written", "cost_micro_usd", "error_message"}),
  StageExtractorPayload |-> Req({"entity_count", "statement_count", "relation_count",
      "audit_status", "error_message"})]

SubscribePayloads == [
  SimilarityFilter |-> Req({"reference_memory_id"}) @@ F32({"threshold"}),
  SubscriptionFilter |-> NulList({"session_filter", "kinds", "spaces"})
      @@ NulSub([similar_to |-> "SimilarityFilter"]) @@ GetList({"memory_ids"}),
  SubscribeRequest |-> Sub([filter |-> "SubscriptionFilter"]) @@ Req({"include_history",
      "max_inflight"}) @@ Nul({"from_lsn"}) @@ OptSub([act_as |-> "ActAs"]),
  EdgeEventPayload |-> Req({"from_kind", "from_id", "to_kind", "to_id", "edge_kind_tag",
      "edge_kind_byte", "origin"}) @@ Nul({"relation_type_id", "relation_id",
      "superseded_relation_id"}) @@ F32({"weight"}),
  EntityCreatedEvent |-> Req({"entity_id", "entity_type_id", "canonical_name"})]

EntityEventPayloads == [
  EntityUpdatedEvent |-> Req({"entity_id", "entity_type_id", "canonical_name",
      "embedding_version_changed"}),
  EntityRenamedEvent |-> Req({"entity_id", "old_canonical_name", "new_canonical_name",
      "old_moved_to_alias"}),
  EntityMergedEvent |-> Req({"survivor", "merged", "audit_id", "statements_rerouted",
      "relations_rerouted"}) @@ F32({"confidence"}),
  EntityUnmergedEvent |-> Req({"restored_entity_id", "from_survivor", "audit_id"}),
  EntityTombstonedEvent |-> Req({"entity_id", "reason"}),
  StatementCreatedEvent |-> Req({"statement_id", "kind", "subject", "predicate"})
      @@ F32({"confidence"})]

GraphEventPayloads == [
  StatementSupersededEvent |-> Req({"old_statement_id", "new_statement_id", "chain_root"}),
  StatementTombstonedEvent |-> Req({"statement_id", "reason"}),
  RelationCreatedEvent |-> Req({"relation_id", "relation_type", "from", "to"}),
  RelationSupersededEvent |-> Req({"old_relation_id", "new_relation_id"}),
  RelationTombstonedEvent |-> Req({"relation_id", "reason"}),
  SchemaUpdatedEvent |-> Req({"namespace", "from_version", "to_version", "backward_compatible"})]

PushPayloads == [
  SubscriptionEvent |-> Req({"event_type", "memory_id", "session_id", "text", "kind",
      "timestamp_unix_nanos", "lsn"}) @@ F32({"salience"})
      @@ NulSub([graph_payload |-> "GraphEventPayload", edge_payload |-> "EdgeEventPayload",
      stage_payload |-> "StagePayload"]) @@ Nul({"stage_kind", "stage_outcome"}),
  UnsubscribeRequest |-> Req({"target_stream_id"}),
  UnsubscribeResponse |-> Req({"target_stream_id", "final_lsn"}),
  GetCapabilitiesRequest |-> OptSub([act_as |-> "ActAs"]),
  Capabilities |-> Req({"rerank", "llm_extractor", "classifier_extractor", "pattern_extractor",
      "vector_dim"}) @@ List({"schema_namespaces"})]

CapabilityPayloads == [
  GetCapabilitiesResponse |-> Sub([capabilities |-> "Capabilities"]),
  ExtractorListRequest |-> OptSub([act_as |-> "ActAs"]),
  ExtractorListItem |-> Req({"extractor_id", "namespace", "name", "kind", "schema_version",
      "created_at_unix_nanos"}),
  ExtractorListResponseFrame |-> Sub([items |-> "ExtractorListItem"]) @@ Req({"total","is_final"})]

OperationClasses ==
  CreateNodePayloads @@ CreateRelationPayloads @@ SchemaChangePayloads @@
  SchemaResultPayloads @@ QueryPayloads @@ LinkOpsPayloads @@ PlanPayloads @@
  PlanTracesPayloads @@ ReasonPayloads @@ ReasonWalkPayloads @@ ReasonScoresPayloads @@
  TxnPayloads @@ StagePayloads @@ SubscribePayloads @@ EntityEventPayloads @@
  GraphEventPayloads @@ PushPayloads @@ CapabilityPayloads
=============================================================================

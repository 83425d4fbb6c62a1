-------------------------- MODULE CognitivePayloads --------------------------
(*****************************************************************************)
(* The wire payloads of the handshake, keep-alive, ENCODE, RECALL, FORGET,   *)
(* MEMORY_LIST, GRAPH_FETCH and ERROR, as wire/types.py declares them: for   *)
(* each class, the convention each field follows in to_map and from_map (see *)
(* Schema).  A field is named by its key in the map.                         *)
(*****************************************************************************)
EXTENDS Schema

HelloPayloads == [
  HelloCapabilities |-> Req({"streaming", "compression_zstd", "server_push"}),
  HelloPayload |-> Req({"client_id"}) @@ List({"supported_versions"})
      @@ Sub([capabilities |-> "HelloCapabilities"]) @@ Nul({"client_connection_token"}),
  MtlsClaim |-> Req({"cert_fingerprint", "asserted_subject"})]

(* Mutation of WelcomePayloads: can_act_as has a default again.              *)
WelcomePayloadsDefaulted == [
  AuthPayload |-> Req({"method"}) @@ Sub([credentials |-> "AuthCredentials"]),
  SpacePermissions |-> Req({"can_encode", "can_recall", "can_plan", "can_reason", "can_forget",
      "can_admin"}) @@ TolBool({"can_act_as"}),
  ServerFeatures |-> Req({"max_payload_size", "max_concurrent_streams", "idle_timeout_seconds"})
      @@ List({"auth_methods"}),
  WelcomePayload |-> Req({"server_id", "chosen_version", "connection_id"})
      @@ Sub([capabilities |-> "HelloCapabilities", server_features |-> "ServerFeatures"])]

WelcomePayloads == [
  AuthPayload |-> Req({"method"}) @@ Sub([credentials |-> "AuthCredentials"]),
  SpacePermissions |-> Req({"can_encode", "can_recall", "can_plan", "can_reason", "can_forget",
      "can_admin", "can_act_as"}),
  ServerFeatures |-> Req({"max_payload_size", "max_concurrent_streams", "idle_timeout_seconds"})
      @@ List({"auth_methods"}),
  WelcomePayload |-> Req({"server_id", "chosen_version", "connection_id"})
      @@ Sub([capabilities |-> "HelloCapabilities", server_features |-> "ServerFeatures"])]

SessionPayloads == [
  AuthOkPayload |-> Req({"space_id", "bound_shard_id", "namespace", "server_time_unix_nanos"})
      @@ Sub([permissions |-> "SpacePermissions"]),
  ByeRequest |-> Get({"reason"}),
  PingRequest |-> Tol({"client_timestamp_unix_nanos"}),
  PongResponse |-> Tol({"client_timestamp_unix_nanos", "server_timestamp_unix_nanos"}),
  ServerPingResponse |-> Tol({"server_timestamp_unix_nanos"}),
  ClientPongRequest |-> Tol({"server_timestamp_unix_nanos", "client_timestamp_unix_nanos"})]

EncodeReqPayloads == [
  ActAs |-> Req({"namespace", "space"}) @@ DefInt({"grant"}),
  EdgeRequest |-> Req({"target", "kind"}) @@ F32({"weight"}),
  EncodeRequest |-> Req({"text", "session_id", "request_id"}) @@ Nul({"txn_id",
      "occurred_at_unix_nanos"}) @@ OptSub([act_as |-> "ActAs"]) @@ DefInt({"wait"})
      @@ DefBool({"allow_duplicates"})]

EncodeRespPayloads == [
  EncodeVectorDirectRequest |-> Req({"text", "model_fingerprint", "session_id", "kind",
      "request_id", "deduplicate"}) @@ F32({"salience_hint"}) @@ Sub([edges |-> "EdgeRequest"])
      @@ Nul({"txn_id"}) @@ OptSub([act_as |-> "ActAs"]),
  EncodeResponse |-> Req({"memory_id", "was_deduplicated", "auto_edges_added", "lsn", "space_id",
      "session_id", "kind", "created_at_unix_nanos", "edges_out_count", "embedding_model_fp",
      "has_active_schema"}) @@ F32({"salience"}) @@ List({"pending_stages"})
      @@ OptSub([trace |-> "EncodeTrace"])]

EncodeTracePayloads == [
  EncodeTraceStage |-> Req({"name", "status", "latency_us", "detail"})
      @@ OptSub([artifact |-> "EncodeStageArtifact"]),
  EncodeTraceEntity |-> Req({"id", "name", "type_qname"}),
  EncodeTraceStatement |-> Req({"id", "subject_name", "predicate", "object_name"})
      @@ F32({"confidence"}) @@ Opt({"event_at_unix_nanos"}),
  EncodeTraceRelation |-> Req({"source_name", "predicate", "target_name"}),
  EncodeTraceIndex |-> Req({"name", "status"}),
  EncodeTraceDedup |-> Req({"was_deduplicated"}) @@ Nul({"matched_memory_id"})]

EncodeArtifactsPayloads == [
  EncodeTraceArtifacts |-> Sub([entities |-> "EncodeTraceEntity",
      statements |-> "EncodeTraceStatement", relations |-> "EncodeTraceRelation",
      indexes |-> "EncodeTraceIndex", dedup |-> "EncodeTraceDedup"]),
  EncodeTrace |-> Sub([stages |-> "EncodeTraceStage", artifacts |-> "EncodeTraceArtifacts"])
      @@ Req({"total_latency_us"}),
  EncodeStageRecord |-> Req({"memory_id", "kind", "created_at_unix_nanos",
      "occurred_at_unix_nanos", "vector_dim", "text_len", "lsn"}) @@ F32({"salience"}),
  EncodeStageKeywordField |-> Req({"field"}) @@ List({"terms"}),
  EncodeGraphNode |-> Req({"id", "name", "kind", "type_qname"})]

EncodeGraphPayloads == [
  EncodeGraphEdge |-> Req({"source", "target", "predicate", "kind"}) @@ F32({"confidence"})
      @@ Opt({"event_at_unix_nanos"}),
  EncodeStageGraph |-> Sub([nodes |-> "EncodeGraphNode", edges |-> "EncodeGraphEdge"]),
  EncodeStageArtifact |-> DefF32s({"vector"}) @@ OptSub([record |-> "EncodeStageRecord",
      graph |-> "EncodeStageGraph"]) @@ DefList({"hype_questions"})
      @@ DefSub([keyword_fields |-> "EncodeStageKeywordField"]),
  MemoryInspectRequest |-> Req({"memory_id"}) @@ OptSub([act_as |-> "ActAs"])]

MemoryInspectPayloads == [
  MemoryEdge |-> Req({"kind", "direction", "peer", "created_at_unix_nanos"}) @@ F32({"weight"})
      @@ Get({"annotation"}),
  MemoryInspectResponse |-> Req({"memory_id", "text"})@@ Sub([artifact |-> "EncodeStageArtifact"])
      @@ TolSub([edges |-> "MemoryEdge"])]

RecallReqPayloads == [
  RecallRequest |-> Req({"cue_text", "subject_name", "max_results", "include_edges",
      "include_graph", "include_text"}) @@ F32({"confidence_threshold", "salience_floor"})
      @@ NulList({"session_filter", "kind_filter"}) @@ Nul({"age_bound_unix_nanos",
      "as_of_record_time_unix_nanos", "request_id", "txn_id"}) @@ TolBool({"trace"})
      @@ OptSub([act_as |-> "ActAs"]) @@ Tol({"scope"}),
  EdgeView |-> Req({"target", "kind"}) @@ F32({"weight"}),
  EnrichedEntity |-> Req({"id", "name", "type_qname"})]

EnrichmentPayloads == [
  EnrichedStatement |-> Req({"id", "subject_name", "predicate", "object_label"})
      @@ F32({"confidence"}) @@ Opt({"event_at_unix_nanos", "object_entity_id"}),
  EnrichedRelation |-> Req({"from_name", "predicate", "to_name"}),
  GraphEnrichment |-> Sub([entities |-> "EnrichedEntity", statements |-> "EnrichedStatement",
      relations |-> "EnrichedRelation"])]

RecallRespPayloads == [
  MemoryResult |-> Req({"memory_id", "text", "kind", "space_id", "session_id",
      "created_at_unix_nanos", "last_accessed_at_unix_nanos", "access_count", "lsn", "flags",
      "edges_out_count", "edges_in_count"}) @@ F32({"similarity_score", "confidence", "salience",
      "fused_score", "salience_initial"}) @@ NulSub([edges |-> "EdgeView",
      graph |-> "GraphEnrichment"]) @@ List({"contributing_retrievers"})
      @@ NulF32({"rerank_score"}) @@ Nul({"consolidated_at_unix_nanos", "occurred_at_unix_nanos"}),
  RecallResponseFrame |-> Req({"answer_kind", "is_final", "cumulative_count"})
      @@ Sub([memories |-> "MemoryResult"]) @@ Nul({"estimated_remaining"})
      @@ OptSub([trace |-> "RecallTrace"])]

RetrieverTracePayloads == [
  RecallTraceRetriever |-> Req({"name", "status", "status_detail", "candidate_count"})
      @@ F64({"latency_ms"}) @@ TolSub([candidates |-> "RecallTraceCandidate"]),
  RecallTraceCandidate |-> Req({"item_id", "kind", "text"}) @@ F32({"score"})]

FilterTracePayloads == [
  RecallTraceDroppedId |-> Req({"kind", "id"}),
  RecallTraceFilterChain |-> Req({"before", "after_type", "after_temporal", "after_confidence",
      "after_tombstone", "after_supersession", "after_as_of", "after_limit"})
      @@ TolList({"dropped_by_type", "dropped_by_temporal", "dropped_by_confidence",
      "dropped_by_tombstone"}) @@ TolSub([dropped_by_supersession |-> "RecallTraceDroppedId",
      dropped_by_as_of |-> "RecallTraceDroppedId", dropped_by_limit |-> "RecallTraceDroppedId"]),
  RecallTraceRerank |-> Req({"applied", "candidates"}) @@ F64({"latency_ms"})
      @@ TolList({"before_order", "after_order"}),
  RecallTraceFusionItem |-> Req({"memory_id"}) @@ F32({"rrf_score"}) @@ F32s({"lane_scores"})]

RecallTracePayloads == [
  RecallTraceFusion |-> Sub([items |-> "RecallTraceFusionItem"]),
  RecallTrace |-> Sub([retrievers |-> "RecallTraceRetriever",
      filter_chain |-> "RecallTraceFilterChain"]) @@ NulSub([rerank |-> "RecallTraceRerank"])
      @@ F64({"total_latency_ms"}) @@ GetSub([fusion |-> "RecallTraceFusion"])]

ForgetPayloads == [
  ForgetRequest |-> Req({"memory_id", "mode", "request_id"}) @@ Nul({"txn_id"})
      @@ OptSub([act_as |-> "ActAs"]),
  ForgetResponse |-> Req({"memory_id", "was_already_forgotten", "edges_removed"})]

MemoryListPayloads == [
  MemoryListRequest |-> Req({"sort", "dir", "limit", "include_tombstoned", "time_axis",
      "from_unix_nanos", "to_unix_nanos", "text_contains"}) @@ List({"cursor", "kinds"})
      @@ F32({"salience_min", "salience_max"}) @@ OptSub([act_as |-> "ActAs"]),
  MemoryListItem |-> Req({"memory_id", "space_id", "session_id", "text", "kind", "state",
      "created_at_unix_nanos", "occurred_at_unix_nanos", "last_accessed_at_unix_nanos",
      "access_count", "source_request_id", "statement_count", "entity_count", "relation_count"})
      @@ F32({"salience"})]

GraphFetchReqPayloads == [
  MemoryListResponseFrame |-> Sub([items |-> "MemoryListItem"]) @@ List({"next_cursor"})
      @@ Req({"cumulative_count", "is_final"}),
  GraphNode |-> Req({"id", "kind", "label", "type_qname"}),
  GraphEdge |-> Req({"from_id", "to_id", "kind", "label"}),
  GraphFetchRequest |-> Req({"limit", "include_statements", "include_memories",
      "include_memory_edges", "include_tombstoned"}) @@ List({"cursor"})
      @@ OptSub([act_as |-> "ActAs"])]

GraphFetchRespPayloads == [
  GraphFetchResponseFrame |-> Sub([nodes |-> "GraphNode", edges |-> "GraphEdge"])
      @@ List({"next_cursor"}) @@ Req({"is_final"}),
  ErrorDetails |-> Nul({"field", "expected", "actual"}),
  ErrorResponse |-> Req({"code", "category", "message"}) @@ NulSub([details |-> "ErrorDetails"])
      @@ Nul({"retry_after_ms"})]

CognitiveClasses ==
  HelloPayloads @@ WelcomePayloads @@ SessionPayloads @@ EncodeReqPayloads @@
  EncodeRespPayloads @@ EncodeTracePayloads @@ EncodeArtifactsPayloads @@
  EncodeGraphPayloads @@ MemoryInspectPayloads @@ RecallReqPayloads @@ EnrichmentPayloads @@
  RecallRespPayloads @@ RetrieverTracePayloads @@ FilterTracePayloads @@ RecallTracePayloads
  @@ ForgetPayloads @@ MemoryListPayloads @@ GraphFetchReqPayloads @@ GraphFetchRespPayloads
=============================================================================

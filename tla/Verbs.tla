-------------------------------- MODULE Verbs --------------------------------
(***************************************************************************)
(* The opcodes of wire/opcode.py and the verbs of client.py: for each      *)
(* exchange, the opcode it sends and the one it accepts, the payload       *)
(* classes of both, and how it collects its answer.  aio/client.py makes   *)
(* the same calls with the same arguments, verb by verb.                   *)
(*                                                                         *)
(* The flattening forms (recall, memory_list, plan, ...) concatenate what  *)
(* the *_frames form of the same verb returns, and are not listed.         *)
(***************************************************************************)
EXTENDS TLC

SubstrateOpcodes == [
  HELLO |-> \h0001, WELCOME |-> \h0081, AUTH |-> \h0002, AUTH_OK |-> \h0082, BYE |-> \h001F,
  PING |-> \h0010, PONG |-> \h0090, CLIENT_PONG |-> \h0011, SERVER_PING |-> \h0091,
  CANCEL_STREAM |-> \h0050, CANCEL_STREAM_ACK |-> \h00D0, ENCODE_REQ |-> \h0020,
  ENCODE_RESP |-> \h00A0, RECALL_REQ |-> \h0021, RECALL_RESP |-> \h00A1, PLAN_REQ |-> \h0022,
  PLAN_RESP |-> \h00A2, REASON_REQ |-> \h0023, REASON_RESP |-> \h00A3, FORGET_REQ |-> \h0024,
  FORGET_RESP |-> \h00A4, LINK_REQ |-> \h0025, LINK_RESP |-> \h00A5, UNLINK_REQ |-> \h0026,
  UNLINK_RESP |-> \h00A6, MEMORY_LIST_REQ |-> \h0027, MEMORY_LIST_RESP |-> \h00A7,
  MEMORY_INSPECT_REQ |-> \h0028, MEMORY_INSPECT_RESP |-> \h00A8,
  ENCODE_VECTOR_DIRECT_REQ |-> \h002A, ENCODE_VECTOR_DIRECT_RESP |-> \h00AA,
  SUBSCRIBE_REQ |-> \h0030, SUBSCRIBE_EVENT |-> \h00B0, UNSUBSCRIBE_REQ |-> \h0031,
  UNSUBSCRIBE_RESP |-> \h00B1, GET_CAPABILITIES_REQ |-> \h0032, GET_CAPABILITIES_RESP |-> \h00B2,
  SPACE_CREATE_REQ |-> \h0070, SPACE_CREATE_RESP |-> \h00F0, SPACE_LIST_REQ |-> \h0071,
  SPACE_LIST_RESP |-> \h00F1, SPACE_DELETE_REQ |-> \h0072, SPACE_DELETE_RESP |-> \h00F2,
  SESSION_CREATE_REQ |-> \h0073, SESSION_CREATE_RESP |-> \h00F3, SESSION_LIST_REQ |-> \h0074,
  SESSION_LIST_RESP |-> \h00F4, SESSION_DELETE_REQ |-> \h0075, SESSION_DELETE_RESP |-> \h00F5,
  TXN_BEGIN |-> \h0040, TXN_BEGIN_RESP |-> \h00C0, TXN_COMMIT |-> \h0041,
  TXN_COMMIT_RESP |-> \h00C1, TXN_ABORT |-> \h0042, TXN_ABORT_RESP |-> \h00C2, ERROR |-> \h00FF]

TypedGraphOpcodes == [
  SCHEMA_UPLOAD_REQ |-> \h0120, SCHEMA_UPLOAD_RESP |-> \h01A0, SCHEMA_GET_REQ |-> \h0121,
  SCHEMA_GET_RESP |-> \h01A1, SCHEMA_LIST_REQ |-> \h0122, SCHEMA_LIST_RESP |-> \h01A2,
  SCHEMA_VALIDATE_REQ |-> \h0123, SCHEMA_VALIDATE_RESP |-> \h01A3, SCHEMA_DROP_REQ |-> \h0125,
  SCHEMA_DROP_RESP |-> \h01A5, SCHEMA_REPLACE_REQ |-> \h0127, SCHEMA_REPLACE_RESP |-> \h01A7,
  EXTRACTOR_LIST_REQ |-> \h0124, EXTRACTOR_LIST_RESP |-> \h01A4, ENTITY_CREATE_REQ |-> \h0130,
  ENTITY_CREATE_RESP |-> \h01B0, ENTITY_GET_REQ |-> \h0131, ENTITY_GET_RESP |-> \h01B1,
  ENTITY_RESOLVE_REQ |-> \h0136, ENTITY_RESOLVE_RESP |-> \h01B6, ENTITY_LIST_REQ |-> \h0137,
  ENTITY_LIST_RESP |-> \h01B7, ENTITY_UPDATE_REQ |-> \h0132, ENTITY_UPDATE_RESP |-> \h01B2,
  ENTITY_RENAME_REQ |-> \h0133, ENTITY_RENAME_RESP |-> \h01B3, ENTITY_MERGE_REQ |-> \h0134,
  ENTITY_MERGE_RESP |-> \h01B4, ENTITY_UNMERGE_REQ |-> \h0135, ENTITY_UNMERGE_RESP |-> \h01B5,
  ENTITY_TOMBSTONE_REQ |-> \h0138, ENTITY_TOMBSTONE_RESP |-> \h01B8,
  STATEMENT_CREATE_REQ |-> \h0140, STATEMENT_CREATE_RESP |-> \h01C0,
  STATEMENT_GET_REQ |-> \h0141, STATEMENT_GET_RESP |-> \h01C1, STATEMENT_LIST_REQ |-> \h0146,
  STATEMENT_LIST_RESP |-> \h01C6, STATEMENT_SUPERSEDE_REQ |-> \h0142,
  STATEMENT_SUPERSEDE_RESP |-> \h01C2, STATEMENT_TOMBSTONE_REQ |-> \h0143,
  STATEMENT_TOMBSTONE_RESP |-> \h01C3, STATEMENT_RETRACT_REQ |-> \h0144,
  STATEMENT_RETRACT_RESP |-> \h01C4, STATEMENT_HISTORY_REQ |-> \h0145,
  STATEMENT_HISTORY_RESP |-> \h01C5, RELATION_CREATE_REQ |-> \h0150,
  RELATION_CREATE_RESP |-> \h01D0, RELATION_LIST_FROM_REQ |-> \h0154,
  RELATION_LIST_FROM_RESP |-> \h01D4, RELATION_LIST_TO_REQ |-> \h0155,
  RELATION_LIST_TO_RESP |-> \h01D5, RELATION_GET_REQ |-> \h0151, RELATION_GET_RESP |-> \h01D1,
  RELATION_SUPERSEDE_REQ |-> \h0152, RELATION_SUPERSEDE_RESP |-> \h01D2,
  RELATION_TOMBSTONE_REQ |-> \h0153, RELATION_TOMBSTONE_RESP |-> \h01D3,
  RELATION_TRAVERSE_REQ |-> \h0156, RELATION_TRAVERSE_RESP |-> \h01D6,
  QUERY_EXPLAIN_REQ |-> \h0161, QUERY_EXPLAIN_RESP |-> \h01E1, QUERY_TRACE_REQ |-> \h0162,
  QUERY_TRACE_RESP |-> \h01E2, GRAPH_FETCH_REQ |-> \h0163, GRAPH_FETCH_RESP |-> \h01E3,
  MATERIALIZE_PROCEDURAL_REQ |-> \h0164, MATERIALIZE_PROCEDURAL_RESP |-> \h01E4]

Opcodes == SubstrateOpcodes @@ TypedGraphOpcodes

Exchange(shape, req, resp, sends, answers) ==
  [shape |-> shape, req |-> Opcodes[req], resp |-> Opcodes[resp], sends |-> sends,
   answers |-> answers]

(* _unary: one frame.  _streamed: frames up to EOS.                        *)
Unary(req, resp, sends, answers) == Exchange("unary", req, resp, sends, answers)
Streamed(req, resp, sends, answers) == Exchange("streamed", req, resp, sends, answers)

(* MuxConnection: the two steps of the handshake, each waiting for one     *)
(* frame (_expect); PING; a subscription and its end; BYE and the pong,    *)
(* which nothing answers.                                                  *)
HandshakeExchanges == [
  hello |-> Exchange("expect", "HELLO", "WELCOME", "HelloPayload", "WelcomePayload"),
  auth |-> Exchange("expect", "AUTH", "AUTH_OK", "AuthPayload", "AuthOkPayload")]

PingExchange == [ping |-> Unary("PING", "PONG", "PingRequest", "PongResponse")]

SubscriptionExchanges == [
  subscribe |-> Exchange("pushed", "SUBSCRIBE_REQ", "SUBSCRIBE_EVENT", "SubscribeRequest",
      "SubscriptionEvent"),
  unsubscribe |-> Unary("UNSUBSCRIBE_REQ", "UNSUBSCRIBE_RESP", "UnsubscribeRequest",
      "UnsubscribeResponse")]

OneWayExchanges == [
  bye |-> Exchange("oneway", "BYE", "BYE", "ByeRequest", "ByeRequest"),
  pong |-> Exchange("oneway", "CLIENT_PONG", "CLIENT_PONG", "ClientPongRequest",
      "ServerPingResponse")]

MemoryVerbs == [
  encode |-> Unary("ENCODE_REQ", "ENCODE_RESP", "EncodeRequest", "EncodeResponse"),
  encode_vector_direct |-> Unary("ENCODE_VECTOR_DIRECT_REQ", "ENCODE_VECTOR_DIRECT_RESP",
      "EncodeVectorDirectRequest", "EncodeResponse"),
  recall_frames |-> Streamed("RECALL_REQ", "RECALL_RESP", "RecallRequest", "RecallResponseFrame"),
  forget |-> Unary("FORGET_REQ", "FORGET_RESP", "ForgetRequest", "ForgetResponse"),
  memory_list_frames |-> Streamed("MEMORY_LIST_REQ", "MEMORY_LIST_RESP",
      "MemoryListRequest", "MemoryListResponseFrame"),
  memory_inspect |-> Unary("MEMORY_INSPECT_REQ", "MEMORY_INSPECT_RESP",
      "MemoryInspectRequest", "MemoryInspectResponse"),
  graph_fetch_frames |-> Streamed("GRAPH_FETCH_REQ", "GRAPH_FETCH_RESP",
      "GraphFetchRequest", "GraphFetchResponseFrame")]

AuthoringVerbs == [
  create_entity |-> Unary("ENTITY_CREATE_REQ", "ENTITY_CREATE_RESP",
      "EntityCreateRequest", "EntityCreateResponse"),
  create_statement |-> Unary("STATEMENT_CREATE_REQ", "STATEMENT_CREATE_RESP",
      "StatementCreateRequest", "StatementCreateResponse"),
  update_entity |-> Unary("ENTITY_UPDATE_REQ", "ENTITY_UPDATE_RESP",
      "EntityUpdateRequest", "EntityUpdateResponse"),
  rename_entity |-> Unary("ENTITY_RENAME_REQ", "ENTITY_RENAME_RESP",
      "EntityRenameRequest", "EntityRenameResponse"),
  merge_entities |-> Unary("ENTITY_MERGE_REQ", "ENTITY_MERGE_RESP",
      "EntityMergeRequest", "EntityMergeResponse"),
  unmerge_entity |-> Unary("ENTITY_UNMERGE_REQ", "ENTITY_UNMERGE_RESP",
      "EntityUnmergeRequest", "EntityUnmergeResponse"),
  tombstone_entity |-> Unary("ENTITY_TOMBSTONE_REQ", "ENTITY_TOMBSTONE_RESP",
      "EntityTombstoneRequest", "EntityTombstoneResponse"),
  supersede_statement |-> Unary("STATEMENT_SUPERSEDE_REQ", "STATEMENT_SUPERSEDE_RESP",
      "StatementSupersedeRequest", "StatementSupersedeResponse"),
  tombstone_statement |-> Unary("STATEMENT_TOMBSTONE_REQ", "STATEMENT_TOMBSTONE_RESP",
      "StatementTombstoneRequest", "StatementTombstoneResponse"),
  retract_statement |-> Unary("STATEMENT_RETRACT_REQ", "STATEMENT_RETRACT_RESP",
      "StatementRetractRequest", "StatementRetractResponse"),
  statement_history_frames |-> Streamed("STATEMENT_HISTORY_REQ", "STATEMENT_HISTORY_RESP",
      "StatementHistoryRequest", "StatementHistoryResponseFrame")]

RelationVerbs == [
  create_relation |-> Unary("RELATION_CREATE_REQ", "RELATION_CREATE_RESP",
      "RelationCreateRequest", "RelationCreateResponse"),
  get_relation |-> Unary("RELATION_GET_REQ", "RELATION_GET_RESP",
      "RelationGetRequest", "RelationGetResponse"),
  supersede_relation |-> Unary("RELATION_SUPERSEDE_REQ", "RELATION_SUPERSEDE_RESP",
      "RelationSupersedeRequest", "RelationSupersedeResponse"),
  tombstone_relation |-> Unary("RELATION_TOMBSTONE_REQ", "RELATION_TOMBSTONE_RESP",
      "RelationTombstoneRequest", "RelationTombstoneResponse"),
  traverse_relations_frames |-> Streamed("RELATION_TRAVERSE_REQ", "RELATION_TRAVERSE_RESP",
      "RelationTraverseRequest", "RelationTraverseResponseFrame"),
  upload_schema |-> Unary("SCHEMA_UPLOAD_REQ", "SCHEMA_UPLOAD_RESP",
      "SchemaUploadRequest", "SchemaUploadResponse"),
  query_explain |-> Unary("QUERY_EXPLAIN_REQ", "QUERY_EXPLAIN_RESP",
      "QueryExplainRequest", "QueryExplainResponse"),
  query_trace |-> Unary("QUERY_TRACE_REQ", "QUERY_TRACE_RESP",
      "QueryTraceRequest", "QueryTraceResponse")]

RegistryVerbs == [
  materialize_procedural |-> Unary("MATERIALIZE_PROCEDURAL_REQ", "MATERIALIZE_PROCEDURAL_RESP",
      "MaterializeProceduralRequest", "MaterializeProceduralResponse"),
  create_space |-> Unary("SPACE_CREATE_REQ", "SPACE_CREATE_RESP",
      "SpaceCreateRequest", "SpaceCreateResponse"),
  list_spaces |-> Unary("SPACE_LIST_REQ", "SPACE_LIST_RESP",
      "SpaceListRequest", "SpaceListResponse"),
  delete_space |-> Unary("SPACE_DELETE_REQ", "SPACE_DELETE_RESP",
      "SpaceDeleteRequest", "SpaceDeleteResponse"),
  create_session |-> Unary("SESSION_CREATE_REQ", "SESSION_CREATE_RESP",
      "SessionCreateRequest", "SessionCreateResponse"),
  list_sessions |-> Unary("SESSION_LIST_REQ", "SESSION_LIST_RESP",
      "SessionListRequest", "SessionListResponse"),
  delete_session |-> Unary("SESSION_DELETE_REQ", "SESSION_DELETE_RESP",
      "SessionDeleteRequest", "SessionDeleteResponse"),
  link |-> Unary("LINK_REQ", "LINK_RESP", "LinkRequest", "LinkResponse"),
  unlink |-> Unary("UNLINK_REQ", "UNLINK_RESP", "UnlinkRequest", "UnlinkResponse"),
  capabilities |-> Unary("GET_CAPABILITIES_REQ", "GET_CAPABILITIES_RESP",
      "GetCapabilitiesRequest", "GetCapabilitiesResponse")]

LookupVerbs == [
  extractor_list |-> Unary("EXTRACTOR_LIST_REQ", "EXTRACTOR_LIST_RESP",
      "ExtractorListRequest", "ExtractorListResponseFrame"),
  get_entity |-> Unary("ENTITY_GET_REQ", "ENTITY_GET_RESP",
      "EntityGetRequest", "EntityGetResponse"),
  resolve_entity |-> Unary("ENTITY_RESOLVE_REQ", "ENTITY_RESOLVE_RESP",
      "EntityResolveRequest", "EntityResolveResponse"),
  get_statement |-> Unary("STATEMENT_GET_REQ", "STATEMENT_GET_RESP",
      "StatementGetRequest", "StatementGetResponse"),
  get_schema |-> Unary("SCHEMA_GET_REQ", "SCHEMA_GET_RESP",
      "SchemaGetRequest", "SchemaGetResponse"),
  validate_schema |-> Unary("SCHEMA_VALIDATE_REQ", "SCHEMA_VALIDATE_RESP",
      "SchemaValidateRequest", "SchemaValidateResponse"),
  replace_schema |-> Unary("SCHEMA_REPLACE_REQ", "SCHEMA_REPLACE_RESP",
      "SchemaReplaceRequest", "SchemaReplaceResponse"),
  drop_schema |-> Unary("SCHEMA_DROP_REQ", "SCHEMA_DROP_RESP",
      "SchemaDropRequest", "SchemaDropResponse"),
  cancel_stream |-> Unary("CANCEL_STREAM", "CANCEL_STREAM_ACK",
      "CancelStreamRequest", "CancelStreamAck"),
  txn_begin |-> Unary("TXN_BEGIN", "TXN_BEGIN_RESP", "TxnBeginRequest", "TxnBeginResponse"),
  txn_commit |-> Unary("TXN_COMMIT", "TXN_COMMIT_RESP", "TxnCommitRequest", "TxnCommitResponse"),
  txn_abort |-> Unary("TXN_ABORT", "TXN_ABORT_RESP", "TxnAbortRequest", "TxnAbortResponse")]

ListingVerbs == [
  plan_frames |-> Streamed("PLAN_REQ", "PLAN_RESP", "PlanRequest", "PlanResponseFrame"),
  reason_frames |-> Streamed("REASON_REQ", "REASON_RESP", "ReasonRequest", "ReasonResponseFrame"),
  list_entities_frames |-> Streamed("ENTITY_LIST_REQ", "ENTITY_LIST_RESP",
      "EntityListRequest", "EntityListResponseFrame"),
  list_statements_frames |-> Streamed("STATEMENT_LIST_REQ", "STATEMENT_LIST_RESP",
      "StatementListRequest", "StatementListResponseFrame"),
  list_relations_from_frames |-> Streamed("RELATION_LIST_FROM_REQ", "RELATION_LIST_FROM_RESP",
      "RelationListFromRequest", "RelationListFromResponseFrame"),
  list_relations_to_frames |-> Streamed("RELATION_LIST_TO_REQ", "RELATION_LIST_TO_RESP",
      "RelationListToRequest", "RelationListToResponseFrame"),
  list_schemas_frames |-> Streamed("SCHEMA_LIST_REQ", "SCHEMA_LIST_RESP",
      "SchemaListRequest", "SchemaListResponseFrame")]

WireExchanges ==
  HandshakeExchanges @@ PingExchange @@ SubscriptionExchanges @@ OneWayExchanges @@ MemoryVerbs
  @@ AuthoringVerbs @@ RelationVerbs @@ RegistryVerbs @@ LookupVerbs @@ ListingVerbs
=============================================================================

------------------------------ MODULE PageWire ------------------------------
(***************************************************************************)
(* The bundle the page loads and a server of this commit, class by class.  *)
(* The assumptions are facts about the two generations of generated code,  *)
(* evaluated by TLC: they say for which classes SharedFieldsArrive (see    *)
(* PageProofs) applies to what the page and the server exchange.           *)
(***************************************************************************)
EXTENDS Wire

B == INSTANCE BundleMessages
V == INSTANCE ServerMessages

ASSUME SchemasWellFormed == \A S \in B!Classes \cup V!Classes : WellFormed(S)

\* The bundle's class and this commit's, for what the page's own code sends or reads ...
PageUses ==
  { <<B!Empty, V!Empty>>,
    <<B!ExtensionList, V!ExtensionList>>,
    <<B!Extension, V!ExtensionMsg>>,
    <<B!ExtensionRequest, V!ExtensionRequest>>,
    <<B!ExtensionResponse, V!ExtensionResponse>>,
    <<B!EditExtensionRequest, V!EditExtensionRequest>>,
    <<B!SendExtensionDataRequest, V!SendExtensionDataRequest>>,
    <<B!ExtensionActionResult, V!ExtensionActionResult>>,
    <<B!ChangecorerpcSettingsRequest, V!ChangeCoreSettingsRequest>>,
    <<B!ParseRequest, V!ParseRequest>>,
    <<B!ParseResponse, V!ParseResponse>>,
    <<B!StartRequest, V!StartRequest>>,
    <<B!CoreInfoResponse, V!CoreInfoResponse>> }

\* ... for the rest that did not change incompatibly ...
Unchanged ==
  { <<B!HelloRequest, V!HelloRequest>>,
    <<B!HelloResponse, V!HelloResponse>>,
    <<B!SetupRequest, V!SetupRequest>>,
    <<B!Response, V!Response>>,
    <<B!SystemInfo, V!SystemInfo>>,
    <<B!OutboundGroupList, V!OutboundGroupList>>,
    <<B!WarpAccount, V!WarpAccount>>,
    <<B!WarpWireguardConfig, V!WarpWireguardConfig>>,
    <<B!WarpGenerationResponse, V!WarpGenerationResponse>>,
    <<B!SystemProxyStatus, V!SystemProxyStatus>>,
    <<B!GenerateConfigRequest, V!GenerateConfigRequest>>,
    <<B!GenerateConfigResponse, V!GenerateConfigResponse>>,
    <<B!SelectOutboundRequest, V!SelectOutboundRequest>>,
    <<B!UrlTestRequest, V!UrlTestRequest>>,
    <<B!GenerateWarpConfigRequest, V!GenerateWarpConfigRequest>>,
    <<B!SetSystemProxyEnabledRequest, V!SetSystemProxyEnabledRequest>>,
    <<B!LogMessage, V!LogMessage>>,
    <<B!StopRequest, V!StopRequest>>,
    <<B!TunnelResponse, V!TunnelResponse>> }

\* ... and for the three whose fields were renumbered or retyped.
Changed ==
  { <<B!OutboundGroupItem, V!OutboundInfo>>,
    <<B!OutboundGroup, V!OutboundGroup>>,
    <<B!TunnelStartRequest, V!TunnelStartRequest>> }

ASSUME GenerationsAgree == \A p \in PageUses \cup Unchanged : Agree(p[1], p[2])

\* In each of the three some field changed its wire type, so that a reader of
\* the other generation throws when it is set (PageProofs, ChangedAreRefused).
ASSUME GenerationsDisagree ==
  \A p \in Changed : \E n \in DOMAIN p[1] \cap DOMAIN p[2] : WireType(p[1][n]) # WireType(p[2][n])

\* Every path of the bundle names a service of package corerpc, which a server
\* of this commit never registers: it answers each of the page's calls with
\* UNIMPLEMENTED.  What the page's modules say of answered calls is said of the
\* page beside a server that still registers the old names.
ASSUME PathsDiffer == \A m \in B!Methods : m.path[1] \notin V!Services
=============================================================================

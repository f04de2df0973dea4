------------------------------ MODULE BundleMessages ------------------------------
(*****************************************************************************)
(* The message classes and the methods the page's bundle was built with:     *)
(* package corerpc, an earlier generation of the classes in                  *)
(* ServerMessages. One definition per class (its constructor, readers,       *)
(* writers, getters and setters follow from the schema and Wire) and one     *)
(* per method of the clients (descriptor and both stubs).                    *)
(*****************************************************************************)
EXTENDS Wire

\* base.proto

HelloRequest == <<Str("name")>>
HelloResponse == <<Str("message")>>
Empty == <<>>

ResponseCode == [OK |-> 0, FAILED |-> 1]

\* extension.proto

ExtensionActionResult == <<Str("extension_id"), Enum("code"), Str("message")>>
ExtensionList == <<Subs("extensions")>>
EditExtensionRequest == <<Str("extension_id"), Bool("enable")>>
Extension == <<Str("id"), Str("title"), Str("description"), Bool("enable")>>
ExtensionRequest == <<Str("extension_id"), StrMap("data")>>
SendExtensionDataRequest == <<Str("extension_id"), Str("button"), StrMap("data")>>
ExtensionResponse == <<Enum("type"), Str("extension_id"), Str("json_ui")>>

ExtensionResponseType == [NOTHING |-> 0, UPDATE_UI |-> 1, SHOW_DIALOG |-> 2, END |-> 3]

\* corerpc.proto

CoreInfoResponse == <<Enum("core_state"), Enum("message_type"), Str("message")>>
StartRequest ==
  <<Str("config_path"), Str("config_content"), Bool("disable_memory_limit"),
    Bool("delay_start"), Bool("enable_old_command_server"),
    Bool("enable_raw_config")>>
SetupRequest == <<Str("base_path"), Str("working_path"), Str("temp_path")>>
Response == <<Enum("response_code"), Str("message")>>
SystemInfo ==
  <<Int64("memory"), Int32("goroutines"), Int32("connections_in"),
    Int32("connections_out"), Bool("traffic_available"), Int64("uplink"),
    Int64("downlink"), Int64("uplink_total"), Int64("downlink_total")>>
OutboundGroupItem ==
  <<Str("tag"), Str("type"), Int64("url_test_time"), Int32("url_test_delay")>>
OutboundGroup == <<Str("tag"), Str("type"), Str("selected"), Subs("items")>>
OutboundGroupList == <<Subs("items")>>
WarpAccount == <<Str("account_id"), Str("access_token")>>
WarpWireguardConfig ==
  <<Str("private_key"), Str("local_address_ipv4"), Str("local_address_ipv6"),
    Str("peer_public_key"), Str("client_id")>>
WarpGenerationResponse == <<Sub("account"), Str("log"), Sub("config")>>
SystemProxyStatus == <<Bool("available"), Bool("enabled")>>
ParseRequest ==
  <<Str("content"), Str("config_path"), Str("temp_path"), Bool("debug")>>
ParseResponse == <<Enum("response_code"), Str("content"), Str("message")>>
ChangecorerpcSettingsRequest == <<Str("corerpc_settings_json")>>
GenerateConfigRequest == <<Str("path"), Str("temp_path"), Bool("debug")>>
GenerateConfigResponse == <<Str("config_content")>>
SelectOutboundRequest == <<Str("group_tag"), Str("outbound_tag")>>
UrlTestRequest == <<Str("group_tag")>>
GenerateWarpConfigRequest ==
  <<Str("license_key"), Str("account_id"), Str("access_token")>>
SetSystemProxyEnabledRequest == <<Bool("is_enabled")>>
LogMessage == <<Enum("level"), Enum("type"), Str("message")>>
StopRequest == <<>>
TunnelStartRequest ==
  <<Bool("ipv6"), Int32("server_port"), Bool("strict_route"),
    Bool("endpoint_independent_nat"), Str("stack")>>
TunnelResponse == <<Str("message")>>

CoreState == [STOPPED |-> 0, STARTING |-> 1, STARTED |-> 2, STOPPING |-> 3]

\* The clients' methods: the path a call is posted to, the class of what is sent
\* and of what comes back, once or as a stream.
Method(service, name, request, response, stream) ==
  [path |-> <<service, name>>, request |-> request, response |-> response, stream |-> stream]

Unary(service, name, request, response)  == Method(service, name, request, response, FALSE)
Stream(service, name, request, response) == Method(service, name, request, response, TRUE)

Host_ListExtensions == Unary("corerpc.ExtensionHostService", "ListExtensions", Empty, ExtensionList)
Host_Connect ==
  Stream("corerpc.ExtensionHostService", "Connect", ExtensionRequest, ExtensionResponse)
Host_EditExtension ==
  Unary("corerpc.ExtensionHostService", "EditExtension", EditExtensionRequest, ExtensionActionResult)
Host_SubmitForm ==
  Unary("corerpc.ExtensionHostService", "SubmitForm", SendExtensionDataRequest, ExtensionActionResult)
Host_Close ==
  Unary("corerpc.ExtensionHostService", "Close", ExtensionRequest, ExtensionActionResult)
Host_GetUI ==
  Unary("corerpc.ExtensionHostService", "GetUI", ExtensionRequest, ExtensionActionResult)
Hello_SayHello == Unary("corerpc.Hello", "SayHello", HelloRequest, HelloResponse)
Core_Start == Unary("corerpc.Core", "Start", StartRequest, CoreInfoResponse)
Core_CoreInfoListener == Stream("corerpc.Core", "CoreInfoListener", Empty, CoreInfoResponse)
Core_OutboundsInfo == Stream("corerpc.Core", "OutboundsInfo", Empty, OutboundGroupList)
Core_MainOutboundsInfo == Stream("corerpc.Core", "MainOutboundsInfo", Empty, OutboundGroupList)
Core_GetSystemInfo == Stream("corerpc.Core", "GetSystemInfo", Empty, SystemInfo)
Core_Setup == Unary("corerpc.Core", "Setup", SetupRequest, Response)
Core_Parse == Unary("corerpc.Core", "Parse", ParseRequest, ParseResponse)
Core_ChangecorerpcSettings ==
  Unary("corerpc.Core", "ChangecorerpcSettings", ChangecorerpcSettingsRequest, CoreInfoResponse)
Core_StartService == Unary("corerpc.Core", "StartService", StartRequest, CoreInfoResponse)
Core_Stop == Unary("corerpc.Core", "Stop", Empty, CoreInfoResponse)
Core_Restart == Unary("corerpc.Core", "Restart", StartRequest, CoreInfoResponse)
Core_SelectOutbound == Unary("corerpc.Core", "SelectOutbound", SelectOutboundRequest, Response)
Core_UrlTest == Unary("corerpc.Core", "UrlTest", UrlTestRequest, Response)
Core_GenerateWarpConfig ==
  Unary("corerpc.Core", "GenerateWarpConfig", GenerateWarpConfigRequest, WarpGenerationResponse)
Core_GetSystemProxyStatus == Unary("corerpc.Core", "GetSystemProxyStatus", Empty, SystemProxyStatus)
Core_SetSystemProxyEnabled ==
  Unary("corerpc.Core", "SetSystemProxyEnabled", SetSystemProxyEnabledRequest, Response)
Core_LogListener == Stream("corerpc.Core", "LogListener", Empty, LogMessage)
Tunnel_Start == Unary("corerpc.TunnelService", "Start", TunnelStartRequest, TunnelResponse)
Tunnel_Stop == Unary("corerpc.TunnelService", "Stop", Empty, TunnelResponse)
Tunnel_Status == Unary("corerpc.TunnelService", "Status", Empty, TunnelResponse)
Tunnel_Exit == Unary("corerpc.TunnelService", "Exit", Empty, TunnelResponse)

Classes ==
  {HelloRequest, HelloResponse, Empty, ExtensionActionResult, ExtensionList,
   EditExtensionRequest, Extension, ExtensionRequest, SendExtensionDataRequest,
   ExtensionResponse, CoreInfoResponse, StartRequest, SetupRequest, Response,
   SystemInfo, OutboundGroupItem, OutboundGroup, OutboundGroupList, WarpAccount,
   WarpWireguardConfig, WarpGenerationResponse, SystemProxyStatus, ParseRequest,
   ParseResponse, ChangecorerpcSettingsRequest, GenerateConfigRequest,
   GenerateConfigResponse, SelectOutboundRequest, UrlTestRequest,
   GenerateWarpConfigRequest, SetSystemProxyEnabledRequest, LogMessage,
   StopRequest, TunnelStartRequest, TunnelResponse}

Methods ==
  {Host_ListExtensions, Host_Connect, Host_EditExtension, Host_SubmitForm,
   Host_Close, Host_GetUI, Hello_SayHello, Core_Start, Core_CoreInfoListener,
   Core_OutboundsInfo, Core_MainOutboundsInfo, Core_GetSystemInfo, Core_Setup,
   Core_Parse, Core_ChangecorerpcSettings, Core_StartService, Core_Stop,
   Core_Restart, Core_SelectOutbound, Core_UrlTest, Core_GenerateWarpConfig,
   Core_GetSystemProxyStatus, Core_SetSystemProxyEnabled, Core_LogListener,
   Tunnel_Start, Tunnel_Stop, Tunnel_Status, Tunnel_Exit}
=============================================================================

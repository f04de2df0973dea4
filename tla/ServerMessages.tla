------------------------------ MODULE ServerMessages ------------------------------
(*****************************************************************************)
(* The message classes of this commit, as the JavaScript generated from      *)
(* its .proto files has them (the Go classes are generated from the same     *)
(* files): what a server of this commit reads and writes. One definition     *)
(* per class.                                                                *)
(*****************************************************************************)
EXTENDS Wire, TLC

\* extension/extension.proto

ExtensionActionResult == <<Str("extension_id"), Enum("code"), Str("message")>>
ExtensionList == <<Subs("extensions")>>
EditExtensionRequest == <<Str("extension_id"), Bool("enable")>>
ExtensionMsg == <<Str("id"), Str("title"), Str("description"), Bool("enable")>>
ExtensionRequest == <<Str("extension_id"), StrMap("data")>>
SendExtensionDataRequest == <<Str("extension_id"), Str("button"), StrMap("data")>>
ExtensionResponse == <<Enum("type"), Str("extension_id"), Str("json_ui")>>

\* v2/config/route_rule.proto

RouteRule == <<Subs("rules")>>
Rule ==
  <<Uint32("list_order"), Bool("enabled"), Str("name"), Enum("outbound"),
    Strs("rule_sets"), Strs("package_names"), Strs("process_names"),
    Strs("process_paths"), Enum("network"), Strs("port_ranges"),
    Strs("source_port_ranges"), Enums("protocols"), Strs("ip_cidrs"),
    Strs("source_ip_cidrs"), Strs("domains"), Strs("domain_suffixes"),
    Strs("domain_keywords"), Strs("domain_regexes")>>

\* v2/core_msg_options/core_options.proto

CoreOptions ==
  <<Bool("enable_full_config"), Str("log_level"), Str("log_file"),
    Bool("enable_clash_api"), Uint32("clash_api_port"), Str("web_secret"),
    Str("region"), Bool("block_ads"), Bool("use_xray_core_when_possible"),
    Subs("rules"), Sub("warp"), Sub("warp2"), Sub("mux"), Sub("tls_tricks"),
    Sub("dns_options"), Sub("inbound_options"), Sub("url_test_options"),
    Sub("route_options")>>
IntRange == <<Int32("from"), Int32("to")>>
DNSOptions ==
  <<Str("remote_dns_address"), Enum("remote_dns_domain_strategy"),
    Str("direct_dns_address"), Enum("direct_dns_domain_strategy"),
    Bool("independent_dns_cache"), Bool("enable_fake_dns"),
    Bool("enable_dns_routing")>>
InboundOptions ==
  <<Bool("enable_tun"), Bool("enable_tun_service"), Bool("set_system_proxy"),
    Uint32("mixed_port"), Uint32("tproxy_port"), Uint32("local_dns_port"),
    Uint32("mtu"), Bool("strict_route"), Str("tun_stack")>>
URLTestOptions == <<Str("connection_test_url"), Int64("url_test_interval")>>
RouteOptions ==
  <<Bool("resolve_destination"), Enum("ipv6_mode"), Bool("bypass_lan"),
    Bool("allow_connection_from_lan")>>
TLSTricks ==
  <<Bool("enable_fragment"), Sub("fragment_size"), Sub("fragment_sleep"),
    Bool("mixed_sni_case"), Bool("enable_padding"), Sub("padding_size")>>
MuxOptions ==
  <<Bool("enable"), Bool("padding"), Int32("max_streams"), Str("protocol")>>
WarpOptions ==
  1 :> Str("id") @@ 2 :> Bool("enable_warp") @@ 3 :> Str("mode") @@
  5 :> Sub("wireguard_config") @@ 6 :> Str("fake_packets") @@
  7 :> Sub("fake_packet_size") @@ 8 :> Sub("fake_packet_delay") @@
  9 :> Str("fake_packet_mode") @@ 10 :> Str("clean_ip") @@ 11 :> Uint32("clean_port") @@
  12 :> Sub("account")
OptionsWarpAccount == <<Str("account_id"), Str("access_token")>>
OptionsWarpWireguardConfig ==
  <<Str("private_key"), Str("local_address_ipv4"), Str("local_address_ipv6"),
    Str("peer_public_key"), Str("client_id")>>
OptionsRule ==
  <<Str("rule_set_url"), Str("domains"), Str("ip"), Str("port"), Str("network"),
    Str("protocol"), Str("outbound")>>

\* v2/hcommon/common.proto

Empty == <<>>
Response == <<Enum("code"), Str("message")>>

\* v2/hcore/hcore.proto

CoreInfoResponse == <<Enum("core_state"), Enum("message_type"), Str("message")>>
StartRequest ==
  <<Str("config_path"), Str("config_content"), Bool("disable_memory_limit"),
    Bool("delay_start"), Bool("enable_old_command_server"),
    Bool("enable_raw_config"), Str("config_name")>>
SetupRequest ==
  <<Str("base_path"), Str("working_dir"), Str("temp_dir"),
    Int64("flutter_status_port"), Str("listen"), Str("secret"), Bool("debug"),
    Enum("mode")>>
SystemInfo ==
  <<Int64("memory"), Int32("goroutines"), Int32("connections_in"),
    Int32("connections_out"), Bool("traffic_available"), Int64("uplink"),
    Int64("downlink"), Int64("uplink_total"), Int64("downlink_total"),
    Str("current_outbound"), Str("current_profile")>>
OutboundInfo ==
  <<Str("tag"), Str("type"), Sub("url_test_time"), Int32("url_test_delay"),
    Sub("ipinfo"), Bool("is_selected"), Bool("is_group"), Bool("is_secure"),
    Bool("is_visible"), Uint32("port"), Str("host"), Str("tag_display"),
    Sub("group_selected_outbound")>>
IpInfo ==
  <<Str("ip"), Str("country_code"), Str("region"), Str("city"), Int32("asn"),
    Str("org"), Double("latitude"), Double("longitude"), Str("postal_code")>>
OutboundGroup ==
  <<Str("tag"), Str("type"), Sub("selected"), Bool("selectable"),
    Bool("is_expand"), Subs("items")>>
OutboundGroupList == <<Subs("items")>>
WarpAccount == <<Str("account_id"), Str("access_token")>>
WarpWireguardConfig ==
  <<Str("private_key"), Str("local_address_ipv4"), Str("local_address_ipv6"),
    Str("peer_public_key"), Str("client_id")>>
WarpGenerationResponse == <<Sub("account"), Str("log"), Sub("config")>>
SystemProxyStatus == <<Bool("available"), Bool("enabled")>>
ParseRequest ==
  <<Str("content"), Str("config_path"), Str("temp_path"), Bool("debug")>>
ParseResponse == <<Enum("response_code"), Str("content"), Str("message")>>
ChangeCoreSettingsRequest == <<Str("core_settings_json")>>
GenerateConfigRequest == <<Str("path"), Str("temp_path"), Bool("debug")>>
GenerateConfigResponse == <<Str("config_content")>>
SelectOutboundRequest == <<Str("group_tag"), Str("outbound_tag")>>
UrlTestRequest == <<Str("group_tag")>>
GenerateWarpConfigRequest ==
  <<Str("license_key"), Str("account_id"), Str("access_token")>>
SetSystemProxyEnabledRequest == <<Bool("is_enabled")>>
LogMessage == <<Enum("level"), Enum("type"), Str("message"), Sub("time")>>
StopRequest == <<>>

\* v2/hcore/tunnelservice/tunnel.proto

TunnelStartRequest ==
  <<Bool("ipv6"), Int32("server_port"), Str("server_username"),
    Str("server_password"), Bool("strict_route"), Bool("endpoint_independent_nat"),
    Str("stack")>>
TunnelResponse == <<Str("message")>>

\* v2/hello/hello.proto

HelloRequest == <<Str("name")>>
HelloResponse == <<Str("message")>>

\* v2/profile/profile.proto

ProfileEntity ==
  1 :> Str("id") @@ 3 :> Str("name") @@ 4 :> Str("url") @@ 5 :> Int64("last_update") @@
  6 :> Sub("options") @@ 7 :> Sub("sub_info") @@ 8 :> Sub("override_core_options")
ProfileOptions == <<Int64("update_interval")>>
SubscriptionInfo ==
  <<Int64("upload"), Int64("download"), Int64("total"), Int64("expire"),
    Str("web_page_url"), Str("support_url")>>

\* v2/profile/profile_service.proto

ProfileRequest == <<Str("id"), Str("name"), Str("url")>>
AddProfileRequest ==
  <<Str("url"), Str("content"), Str("name"), Bool("mark_as_active")>>
ProfileResponse == <<Sub("profile"), Enum("response_code"), Str("message")>>
MultiProfilesResponse == <<Subs("profiles"), Enum("response_code"), Str("message")>>

Classes ==
  {ExtensionActionResult, ExtensionList, EditExtensionRequest, ExtensionMsg,
   ExtensionRequest, SendExtensionDataRequest, ExtensionResponse, RouteRule, Rule,
   CoreOptions, IntRange, DNSOptions, InboundOptions, URLTestOptions, RouteOptions,
   TLSTricks, MuxOptions, WarpOptions, OptionsWarpAccount,
   OptionsWarpWireguardConfig, OptionsRule, Empty, Response, CoreInfoResponse,
   StartRequest, SetupRequest, SystemInfo, OutboundInfo, IpInfo, OutboundGroup,
   OutboundGroupList, WarpAccount, WarpWireguardConfig, WarpGenerationResponse,
   SystemProxyStatus, ParseRequest, ParseResponse, ChangeCoreSettingsRequest,
   GenerateConfigRequest, GenerateConfigResponse, SelectOutboundRequest,
   UrlTestRequest, GenerateWarpConfigRequest, SetSystemProxyEnabledRequest,
   LogMessage, StopRequest, TunnelStartRequest, TunnelResponse, HelloRequest,
   HelloResponse, ProfileEntity, ProfileOptions, SubscriptionInfo, ProfileRequest,
   AddProfileRequest, ProfileResponse, MultiProfilesResponse}

\* The services a server of this commit can register, by the name in their paths.
Services ==
  {"hcore.Core", "hello.Hello", "profile.ProfileService",
   "extension.ExtensionHostService", "tunnelservice.TunnelService"}
=============================================================================

---------------------------- MODULE Configuration ----------------------------
(***************************************************************************)
(* The configuration (bitchat-core, config.rs): twelve sections, each with *)
(* constructors for situations, whole configurations composed of them, a   *)
(* builder that sets sections one by one or all at once, presets applied to*)
(* a configuration that exists, and the validation.                        *)
(*                                                                         *)
(* A section is the name of the constructor it comes from, or the name of a*)
(* record an application made itself; what a section contains is what the  *)
(* validation reads of it. Durations are in milliseconds, multipliers in   *)
(* tenths.                                                                 *)
(***************************************************************************)
EXTENDS Integers, Functions

CONSTANTS
    CustomDelivery, CustomSession, CustomBle,   \* [name -> record], made by an application
    FragmentHeader,                             \* FragmentHeader::SIZE, 13
    MaxConfigCalls                              \* bound: calls of setters and presets

\* Sizes are counts, and a header is shorter than the least fragment_size that validates.
ASSUME ConfigAssumption ==
    /\ \A n \in DOMAIN CustomBle : CustomBle[n].fragment_size \in Nat
    /\ FragmentHeader \in Nat /\ FragmentHeader < 100

VARIABLES
    chosen,     \* the builder: section -> name, or Unset
    config,     \* section -> name, or NoConfig
    config_accepted,   \* validate succeeded on config as it is now
    config_calls

configVars == <<chosen, config, config_accepted, config_calls>>

Unset == "unset"
Section == {"channels", "delivery", "message_store", "session", "monitoring", "rate_limiting",
            "test", "ble", "nostr", "limits", "timing", "ui"}
NoConfig == [s \in Section |-> Unset]

(* The constructors of each section *)
RateLimitConfig == {"default", "permissive", "strict"}
MessageStoreConfig == {"default", "low_memory", "high_capacity", "testing"}
TestConfig == {"new", "with_logging"}
TimingConfig == {"canonical", "testing"}
UiConfig == {"canonical", "testing"}

Buffers(c, e, f, a) == [command |-> c, event |-> e, effect |-> f, app_event |-> a]
ChannelConfig ==
    [default           |-> Buffers(32, 128, 64, 64),
     browser_optimized |-> Buffers(20, 50, 50, 100),
     high_memory       |-> Buffers(100, 256, 128, 200),
     low_memory        |-> Buffers(10, 25, 25, 50),
     testing           |-> Buffers(100, 100, 100, 100)]

Retries(n, initial, max, multiplier) ==
    [max_retries |-> n, initial_retry_delay |-> initial, max_retry_delay |-> max,
     backoff_multiplier |-> multiplier]
DeliveryConfig ==
    [default      |-> Retries(5, 500, 30000, 20),
     aggressive   |-> Retries(10, 100, 10000, 15),
     conservative |-> Retries(3, 2000, 60000, 30),
     testing      |-> Retries(2, 10, 100, 20)]

Sessions(handshake, idle, n) ==
    [handshake_timeout |-> handshake, idle_timeout |-> idle, max_concurrent_sessions |-> n]
SessionConfig ==
    [default       |-> Sessions(30000, 300000, 100),
     low_latency   |-> Sessions(10000, 120000, 50),
     high_security |-> Sessions(60000, 600000, 20),
     testing       |-> Sessions(100, 10000, 10)]

\* The other constructors change only durations, which are not validated.
BleCanonical == [fragment_size |-> 469, max_central_links |-> 6, high_degree_threshold |-> 6,
                 dynamic_rssi_threshold |-> -90]
BleTransportConfig ==
    [canonical |-> BleCanonical, battery_optimized |-> BleCanonical,
     development |-> BleCanonical, testing |-> BleCanonical]

NostrTransportConfig ==
    [canonical   |-> [geo_relay_count |-> 5, max_reconnects |-> 10, backoff_multiplier |-> 20],
     development |-> [geo_relay_count |-> 5, max_reconnects |-> 10, backoff_multiplier |-> 20],
     testing     |-> [geo_relay_count |-> 5, max_reconnects |-> 3, backoff_multiplier |-> 20]]

\* As the monitoring feature builds it, which std enables.
Monitoring(events, samples) == [max_comm_events |-> events, max_performance_samples |-> samples]
MonitoringConfig ==
    [default  |-> Monitoring(1000, 500),
     minimal  |-> Monitoring(100, 50),
     detailed |-> Monitoring(5000, 2000),
     testing  |-> Monitoring(50, 25)]

LimitsConfig ==
    [canonical  |-> [ttl |-> 7, max_message_length |-> 60000, max_nickname_length |-> 50],
     low_memory |-> [ttl |-> 5, max_message_length |-> 10000, max_nickname_length |-> 30],
     testing    |-> [ttl |-> 3, max_message_length |-> 1000, max_nickname_length |-> 20]]

Constructors(s) ==
    CASE s = "channels"      -> DOMAIN ChannelConfig
      [] s = "delivery"      -> DOMAIN DeliveryConfig
      [] s = "message_store" -> MessageStoreConfig
      [] s = "session"       -> DOMAIN SessionConfig
      [] s = "monitoring"    -> DOMAIN MonitoringConfig
      [] s = "rate_limiting" -> RateLimitConfig
      [] s = "test"          -> TestConfig
      [] s = "ble"           -> DOMAIN BleTransportConfig
      [] s = "nostr"         -> DOMAIN NostrTransportConfig
      [] s = "limits"        -> DOMAIN LimitsConfig
      [] s = "timing"        -> TimingConfig
      [] OTHER               -> UiConfig

Custom(s) == CASE s = "delivery" -> DOMAIN CustomDelivery
               [] s = "session"  -> DOMAIN CustomSession
               [] s = "ble"      -> DOMAIN CustomBle
               [] OTHER          -> {}

(* Whole configurations *)
canonical ==
    [s \in Section |-> CASE s = "test" -> Unset
                         [] s \in {"ble", "nostr", "limits", "timing", "ui"} -> "canonical"
                         [] OTHER -> "default"]

browser_optimized ==
    [canonical EXCEPT !["channels"] = "browser_optimized", !["delivery"] = "conservative",
                      !["message_store"] = "low_memory", !["session"] = "low_latency",
                      !["monitoring"] = "minimal", !["limits"] = "low_memory"]

server_optimized ==
    [canonical EXCEPT !["channels"] = "high_memory", !["delivery"] = "aggressive",
                      !["message_store"] = "high_capacity", !["monitoring"] = "detailed",
                      !["rate_limiting"] = "permissive"]

mobile_optimized ==
    [canonical EXCEPT !["channels"] = "low_memory", !["delivery"] = "conservative",
                      !["message_store"] = "low_memory", !["session"] = "low_latency",
                      !["monitoring"] = "minimal", !["rate_limiting"] = "strict",
                      !["ble"] = "battery_optimized", !["limits"] = "low_memory"]

high_security ==
    [canonical EXCEPT !["delivery"] = "conservative", !["session"] = "high_security",
                      !["monitoring"] = "detailed", !["rate_limiting"] = "strict"]

testing ==
    [s \in Section |-> CASE s = "test" -> "new"
                         [] s = "rate_limiting" -> "permissive"
                         [] OTHER -> "testing"]

embedded == mobile_optimized

(* ConfigPreset, applied to the five sections of the transports and the interface *)
ConfigPreset == {"Canonical", "Development", "Production", "BatteryOptimized", "Testing"}

apply_to_ble_config(p) ==
    CASE p = "Development"      -> "development"
      [] p = "BatteryOptimized" -> "battery_optimized"
      [] p = "Testing"          -> "testing"
      [] OTHER                  -> "canonical"

apply_to_nostr_config(p) ==
    CASE p = "Development" -> "development"
      [] p = "Testing"     -> "testing"
      [] OTHER             -> "canonical"

apply_to_limits_config(p) ==
    CASE p = "BatteryOptimized" -> "low_memory"
      [] p = "Testing"          -> "testing"
      [] OTHER                  -> "canonical"

apply_to_timing_config(p) == IF p = "Testing" THEN "testing" ELSE "canonical"

apply_to_ui_config(p) == IF p = "Testing" THEN "testing" ELSE "canonical"

with_preset(c, p) ==
    [c EXCEPT !["ble"] = apply_to_ble_config(p), !["nostr"] = apply_to_nostr_config(p),
              !["limits"] = apply_to_limits_config(p), !["timing"] = apply_to_timing_config(p),
              !["ui"] = apply_to_ui_config(p)]

development ==
    [with_preset(canonical, "Development") EXCEPT
        !["monitoring"] = "detailed", !["rate_limiting"] = "permissive", !["test"] = "with_logging"]

production == with_preset(canonical, "Production")

(* Validation *)
Within(x, lo, hi) == lo <= x /\ x <= hi

BugValidateBle(b) == b.fragment_size <= 1024 /\ b.max_central_links <= 10
validate_ble_config(b) ==
    /\ Within(b.fragment_size, 100, 1024)
    /\ b.max_central_links <= 10
    /\ b.high_degree_threshold <= 20
    /\ Within(b.dynamic_rssi_threshold, -120, -50)

validate_nostr_config(n) ==
    n.geo_relay_count <= 20 /\ n.max_reconnects <= 50 /\ Within(n.backoff_multiplier, 11, 50)

validate_limits_config(l) ==
    l.ttl <= 15 /\ l.max_message_length <= 100000 /\ l.max_nickname_length <= 200

InTables(table, custom, n) == IF n \in DOMAIN table THEN table[n] ELSE custom[n]
DeliveryOf(c) == InTables(DeliveryConfig, CustomDelivery, c["delivery"])
SessionOf(c) == InTables(SessionConfig, CustomSession, c["session"])
BleOf(c) == InTables(BleTransportConfig, CustomBle, c["ble"])

\* The message store and the rate limits are not looked at.
validate(c) ==
    /\ \A b \in Range(ChannelConfig[c["channels"]]) : b # 0
    /\ DeliveryOf(c).max_retries # 0
    /\ DeliveryOf(c).backoff_multiplier > 10
    /\ DeliveryOf(c).initial_retry_delay <= DeliveryOf(c).max_retry_delay
    /\ SessionOf(c).max_concurrent_sessions # 0
    /\ SessionOf(c).handshake_timeout <= SessionOf(c).idle_timeout
    /\ MonitoringConfig[c["monitoring"]].max_comm_events # 0
    /\ MonitoringConfig[c["monitoring"]].max_performance_samples # 0
    /\ validate_ble_config(BleOf(c))
    /\ validate_nostr_config(NostrTransportConfig[c["nostr"]])
    /\ validate_limits_config(LimitsConfig[c["limits"]])

(* The operations *)
ConfigInit == chosen = NoConfig /\ config = NoConfig /\ config_accepted = FALSE /\ config_calls = 0

ConfigCall == config_calls < MaxConfigCalls /\ config_calls' = config_calls + 1

builder_section(s, n) ==
    /\ config = NoConfig /\ ConfigCall
    /\ chosen' = [chosen EXCEPT ![s] = n]
    /\ UNCHANGED <<config, config_accepted>>

\* Every section is replaced, one that was set before and the test section too.
builder_preset(whole) ==
    /\ config = NoConfig /\ ConfigCall
    /\ chosen' = whole
    /\ UNCHANGED <<config, config_accepted>>

\* unwrap_or_default of every section but the test.
Built == [s \in Section |-> IF chosen[s] = Unset THEN canonical[s] ELSE chosen[s]]

\* A configuration that is refused is dropped with its builder.
build ==
    /\ config = NoConfig /\ validate(Built)
    /\ config' = Built /\ config_accepted' = TRUE
    /\ UNCHANGED <<chosen, config_calls>>

build_unchecked ==
    /\ config = NoConfig
    /\ config' = Built /\ config_accepted' = FALSE
    /\ UNCHANGED <<chosen, config_calls>>

from_whole(whole) ==
    /\ config = NoConfig /\ chosen = NoConfig
    /\ config' = whole /\ config_accepted' = FALSE
    /\ UNCHANGED <<chosen, config_calls>>

with_section(s, n) ==
    /\ config # NoConfig /\ ConfigCall
    /\ config' = [config EXCEPT ![s] = n] /\ config_accepted' = FALSE
    /\ UNCHANGED chosen

use_preset(p) ==
    /\ config # NoConfig /\ ConfigCall
    /\ config' = with_preset(config, p) /\ config_accepted' = FALSE
    /\ UNCHANGED chosen

validate_config ==
    /\ config # NoConfig /\ ~config_accepted /\ validate(config)
    /\ config_accepted' = TRUE
    /\ UNCHANGED <<chosen, config, config_calls>>

Whole == {canonical, browser_optimized, server_optimized, mobile_optimized, high_security, testing}

ConfigNext ==
    \/ \E s \in Section : \E n \in Constructors(s) \cup Custom(s) :
           builder_section(s, n) \/ with_section(s, n)
    \/ \E w \in Whole : builder_preset(w)
    \/ \E w \in Whole \cup {development, production, embedded} : from_whole(w)
    \/ \E p \in ConfigPreset : use_preset(p)
    \/ build \/ build_unchecked \/ validate_config

ConfigSpec == ConfigInit /\ [][ConfigNext]_configVars

-----------------------------------------------------------------------------
(* Properties *)

OwnSections(c) == \A s \in Section : c[s] \notin Custom(s)

\* The constructors go together: however sections and presets are mixed, in the
\* builder or on a finished configuration, the result is one validate accepts,
\* unless an application brought a section of its own.
PresetsCompose == config # NoConfig /\ OwnSections(config) => validate(config)

\* What validate accepted can be run with: a fragment has room for more than its
\* header, so that Fragmenter::fragment_message never divides by zero.
FragmentsCarryData == config_accepted => BleOf(config).fragment_size > FragmentHeader

\* Configurations the library's own constructors give are valid, and valid ones can
\* be run with (validate).
ConfigSound == PresetsCompose /\ FragmentsCarryData
=============================================================================

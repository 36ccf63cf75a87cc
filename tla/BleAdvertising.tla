---------------------------- MODULE BleAdvertising ----------------------------
(***************************************************************************)
(* Advertising as a BLE peripheral (bitchat-ble, advertising/ and the      *)
(* discovery that owns it): the manager keeps the peer id it advertises,   *)
(* the advertiser of the platform a flag and what it holds of the          *)
(* operating system. What is on the air is the operating system's: BlueZ   *)
(* answers a request to advertise, Core Bluetooth gives no answer that     *)
(* macos.rs would look at.                                                 *)
(*                                                                         *)
(* Rotation stops and starts again; nothing in the transport calls it.     *)
(***************************************************************************)
EXTENDS Integers

CONSTANTS
    AdPeer,
    MaxAdCalls      \* bound: calls, and so the stamps of the announcements

ASSUME AdConstants == MaxAdCalls \in Nat

VARIABLES
    platform,           \* PlatformAdvertiser::new chooses it once and for all
    initialized,        \* the session and adapter, or the peripheral manager
    is_advertising,
    current_peer_id,    \* a peer or NoAdPeer
    on_air,             \* [peer, stamp] of the signed announcement, or Silent
    gatt_services,      \* services registered with the operating system
    ad_calls

adVars == <<platform, initialized, is_advertising, current_peer_id, on_air, gatt_services, ad_calls>>

PlatformAdvertiser == {"Linux", "MacOS", "Fallback"}
NoAdPeer == "none"
Silent == [peer |-> NoAdPeer, stamp |-> 0]

AdInit ==
    /\ platform \in PlatformAdvertiser
    /\ initialized = FALSE /\ is_advertising = FALSE /\ current_peer_id = NoAdPeer
    /\ on_air = Silent /\ gatt_services = 0 /\ ad_calls = 0

AdCall ==
    /\ ad_calls < MaxAdCalls
    /\ ad_calls' = ad_calls + 1
    /\ UNCHANGED platform

(* What an advertiser's start and stop make of its state *)
Advertiser == [init |-> initialized, flag |-> is_advertising, air |-> on_air, gatt |-> gatt_services]

Announcement(p) == [peer |-> p, stamp |-> ad_calls + 1]

OnAir(p, gatt) == [init |-> TRUE, flag |-> TRUE, air |-> Announcement(p), gatt |-> gatt]

initialize(s) == [s EXCEPT !.init = TRUE]
initialize_peripheral_manager(s) == [s EXCEPT !.init = TRUE]

\* The result of start_advertising that gets as far as step: "init" failed, "gatt"
\* failed after initialisation, "advertise" failed with the service registered,
\* "ignored" succeeded but for the operating system, or "done". BlueZ drops the application with its handle when the function returns;
\* the new handle replaces the old one, which ends the old advertisement.
LinuxStart(s, p, step) ==
    CASE step = "init"      -> s
      [] step = "gatt"      -> initialize(s)
      [] step = "advertise" -> initialize(s)
      [] step = "done"      -> OnAir(p, s.gatt)

\* Every start makes and adds a service of its own; it is added before the classes
\* of the advertising data are looked up. startAdvertising returns nothing: the
\* flag goes up also when the system leaves on the air what there was.
MacOSStart(s, p, step) ==
    CASE step = "init"      -> s
      [] step = "gatt"      -> initialize_peripheral_manager(s)
      [] step = "advertise" -> [initialize_peripheral_manager(s) EXCEPT !.gatt = @ + 1]
      [] step = "ignored"   -> [OnAir(p, s.gatt + 1) EXCEPT !.air = s.air]
      [] step = "done"      -> OnAir(p, s.gatt + 1)

FallbackStart(s, p, step) == s

StartAdvertising(s, p, step) ==
    CASE platform = "Linux" -> LinuxStart(s, p, step)
      [] platform = "MacOS" -> MacOSStart(s, p, step)
      [] OTHER              -> FallbackStart(s, p, step)

\* Once initialised, initialisation cannot fail; the fallback never does.
StepsOf(s) ==
    IF platform = "Fallback" THEN {"done"}
    ELSE {"gatt", "advertise", "done"} \cup (IF s.init THEN {} ELSE {"init"})
         \cup (IF platform = "MacOS" THEN {"ignored"} ELSE {})
Ok(step) == step \in {"ignored", "done"}

\* Without a handle, or a peripheral manager, there is nothing to stop.
StopAdvertising(s) ==
    IF (platform = "Linux" /\ s.air # Silent) \/ (platform = "MacOS" /\ s.init)
    THEN [init |-> s.init, flag |-> FALSE, air |-> Silent, gatt |-> s.gatt]
    ELSE s

Becomes(s) ==
    /\ initialized' = s.init /\ is_advertising' = s.flag
    /\ on_air' = s.air /\ gatt_services' = s.gatt

\* Mutant of manager_start: the peer id is kept before the start has succeeded.
BugManagerStart(p) ==
    /\ AdCall
    /\ \E step \in StepsOf(Advertiser) :
           /\ Becomes(StartAdvertising(Advertiser, p, step))
           /\ current_peer_id' = p
manager_start(p) ==
    /\ AdCall
    /\ \E step \in StepsOf(Advertiser) :
           /\ Becomes(StartAdvertising(Advertiser, p, step))
           /\ current_peer_id' = IF Ok(step) THEN p ELSE current_peer_id

manager_stop ==
    /\ AdCall
    /\ Becomes(StopAdvertising(Advertiser))
    /\ current_peer_id' = NoAdPeer

\* update_advertising_data: a flag that is off leaves everything as it is, and a
\* start that fails leaves the advertiser stopped with the peer id still there.
rotate ==
    /\ AdCall
    /\ IF current_peer_id # NoAdPeer /\ is_advertising
       THEN LET stopped == StopAdvertising(Advertiser)
            IN  \E step \in StepsOf(stopped) :
                    Becomes(StartAdvertising(stopped, current_peer_id, step))
       ELSE Becomes(Advertiser)
    /\ UNCHANGED current_peer_id

AdNext == (\E p \in AdPeer : manager_start(p)) \/ manager_stop \/ rotate

AdSpec == AdInit /\ [][AdNext]_adVars

-----------------------------------------------------------------------------
(* Properties *)

\* Nothing is on the air while the flag is down, whichever step of a start or of a
\* rotation failed: is_advertising never hides an advertisement from update and
\* stop. On Linux the flag also never stays up over silence; on macOS it may.
FlagTellsAir ==
    /\ on_air # Silent => is_advertising
    /\ platform = "Linux" /\ is_advertising => on_air # Silent

\* On Linux what is on the air announces the peer id the manager would rotate to,
\* even when a start for another peer id failed after the first was advertised.
AirIsCurrent == platform = "Linux" /\ on_air # Silent => on_air.peer = current_peer_id

\* What the manager believes about advertising fits what the platform does, as far
\* as the platform tells it (AdvertisingManager::start, stop, rotate).
AdvertisingSound == FlagTellsAir /\ AirIsCurrent
=============================================================================

---------------------------- MODULE BridgeContract ----------------------------
(***************************************************************************)
(* One exchange over the Android bridge, seen from the device: the requests *)
(* and responses core/src/bridge.rs accepts, and what the native client in  *)
(* crates/android-bridge makes of an endpoint, a credential and the bytes a *)
(* server sends back.                                                       *)
(***************************************************************************)
EXTENDS Naturals

SchemaVersion == 1

(* A request carries the fields the contract demands; a blank one is "".    *)
RequestAccepted(header) ==
  /\ header.version = SchemaVersion
  /\ "" \notin {header.account, header.type, header.authority}

-----------------------------------------------------------------------------
(* The endpoint is split into scheme, authority and path; the authority may *)
(* not name a user, and plain HTTP goes to this machine only.               *)

Loopback == {"localhost", "127.0.0.1", "::1"}

Port(e) == IF e.port # {} THEN e.port ELSE IF e.scheme = "https" THEN {443} ELSE {80}

EndpointAccepted(e) ==
  /\ e.scheme \in {"http", "https"}
  /\ ~e.userinfo
  /\ e.host # ""
  /\ Port(e) \subseteq 0..65535
  /\ e.scheme = "http" => e.host \in Loopback

(* The account's link to a service: its endpoint, if one is configured, and *)
(* its token, which may be blank or hold a space.                           *)
Unlinked(link)  == link.endpoint = {}
Sendable(link)  == link.token = "clean" /\ \A e \in link.endpoint : EndpointAccepted(e)

(* What the device is told when nothing is sent at all. *)
LocalVerdict(header, link) ==
  CASE ~RequestAccepted(header) -> "invalid_request"
    [] Unlinked(link)           -> "not_linked"
    [] OTHER                    -> "transport_unavailable"

Leaves(header, link) ==
  RequestAccepted(header) /\ ~Unlinked(link) /\ link.token # "blank" /\ Sendable(link)

-----------------------------------------------------------------------------
(* The response: a status, the length it declares, if it does, and as much  *)
(* of the body as arrived.  A body cut short is not JSON.                   *)

MaxBody == 4 * 1024 * 1024

Framed(r) ==
  /\ r.received <= MaxBody
  /\ \A length \in r.declared : length = r.received

Readable(r) == r.received = r.sent

(* Texts that look like credentials are refused wherever they stand.        *)
Valid(r) == r.version = SchemaVersion /\ r.secrets = {}

Verdict(r) ==
  CASE ~Framed(r)                  -> "transport_unavailable"
    [] r.status \in {401, 403}     -> "permission_denied"
    [] r.status = 409              -> "conflict"
    [] r.status \notin 200..299    -> "transport_unavailable"
    [] ~Readable(r)                -> "invalid_request"
    [] "message" \in r.secrets     -> "transport_unavailable"
    [] ~Valid(r)                   -> "invalid_request"
    [] OTHER                       -> r.code
=============================================================================

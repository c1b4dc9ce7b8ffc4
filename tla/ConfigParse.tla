----------------------------- MODULE ConfigParse -----------------------------
(***************************************************************************)
(* What the gateway makes of a configuration payload: _parse_gateway_config*)
(* decides which devices are kept and when the whole payload is refused,   *)
(* signals_for which signals a device is polled with.                      *)
(*                                                                         *)
(* A payload is a record:                                                  *)
(*   devices  a sequence of raw devices [ip, endpoint, port, policy,       *)
(*            address, profile]; texts are reduced to what the parser      *)
(*            tells apart (ip: "none", "inside" or "outside" the operator's*)
(*            subnets, a host "name", "unsafe"; endpoint, policy: a known  *)
(*            value or "bad"; port: a number, 0 when it is missing or no   *)
(*            number; address: "ok", "range" or "text")                    *)
(*   flat     the profiles whose signals the flat list holds, or Bad       *)
(*   catalog  profile -> the profiles whose signals its set holds, or Bad  *)
(* Signals stand for the device model (profile) whose addresses they name. *)
(* `subnets` is the operator's DNP3_DEVICE_ALLOWED_SUBNETS as this process *)
(* read it: "off" or "on"; one without a valid entry ends the process      *)
(* before it asks for a configuration (main.run, SystemExit).              *)
(***************************************************************************)
EXTENDS Integers, Sequences, FiniteSets

CONSTANTS
    Profile,        \* signal profiles (device models)
    Builtin,        \* profiles the gateway ships a map for (profiles/*.json)
    Bad,            \* a value that is not a list
    MaxDevices      \* _MAX_DEVICES_HARD_LIMIT

ASSUME ParseAssumption ==
    /\ Builtin \subseteq Profile
    /\ \A S \in SUBSET Profile : Bad # S
    /\ MaxDevices \in Nat \ {0}

Settings == {"off", "on"}

MinPort == 1024
MaxPort == 65535

RawDevice ==
    [ip : {"none", "inside", "outside", "name", "unsafe"},
     endpoint : {"listening", "initiating", "bad"}, port : Nat,
     policy : {"continuous", "smart", "auto", "bad"},
     address : {"ok", "range", "text"}, profile : Profile]

IsPayload(p) ==
    /\ DOMAIN p = {"devices", "flat", "catalog"}
    /\ p.devices \in Seq(RawDevice)
    /\ p.flat = Bad \/ p.flat \subseteq Profile
    /\ DOMAIN p.catalog \subseteq Profile
    /\ \A f \in DOMAIN p.catalog :
         p.catalog[f] = Bad \/ p.catalog[f] \subseteq Profile

-----------------------------------------------------------------------------
\* The operator's subnets; an initiating device may have no address.
Allows(subnets, ip) == subnets = "on" => ip \in {"none", "inside"}

\* Devices beyond the hard limit are cut off, and those with an unsafe or a
\* foreign address are left out before anything else of them is looked at.
Admitted(p, subnets) ==
    {i \in DOMAIN p.devices :
        /\ i <= MaxDevices /\ p.devices[i].ip # "unsafe"
        /\ Allows(subnets, p.devices[i].ip)}

\* A link address that is no number leaves its device out; one out of range is
\* replaced by the default.
Kept(p, subnets) == {i \in Admitted(p, subnets) : p.devices[i].address # "text"}

PortOK(d) == d.port >= MinPort /\ d.port <= MaxPort

\* Who opens the connection, where it is awaited and how the session lives are
\* never guessed: a wrong value refuses the whole payload.
Refuses(p, subnets, i) ==
    LET d == p.devices[i]
    IN \/ d.endpoint = "bad"
       \/ i \in Kept(p, subnets) /\ d.endpoint = "initiating" /\ ~PortOK(d)
       \/ i \in Kept(p, subnets) /\ d.policy = "bad"

\* Two listeners on one port (_dogrula_dinleyici_portlari).
SharedPort(p, subnets) ==
    \E i, j \in Kept(p, subnets) :
        /\ i # j
        /\ p.devices[i].endpoint = "initiating"
        /\ p.devices[j].endpoint = "initiating"
        /\ p.devices[i].port = p.devices[j].port

\* The payload becomes a configuration; else GatewayConfigError is raised.
Parses(p, subnets) ==
    /\ \A i \in Admitted(p, subnets) : ~Refuses(p, subnets, i)
    /\ ~SharedPort(p, subnets)
    /\ p.flat # Bad

-----------------------------------------------------------------------------
\* The profiles the gateway knows from the payload: a set that is no list is
\* skipped, an empty one is kept.
Known(p) == {f \in DOMAIN p.catalog : p.catalog[f] # Bad}

\* The models of the devices of a configuration.
Fleet(p, subnets) == {p.devices[i].profile : i \in Kept(p, subnets)}

\* A mistake: a profile the catalog does not know falls back to the flat list.
SignalsOrFlat(p, subnets, f) ==
    IF Known(p) = {} THEN p.flat
    ELSE IF f \in Known(p) /\ p.catalog[f] # {} THEN p.catalog[f]
    ELSE IF f \in Builtin THEN {f}
    ELSE IF f \in Known(p) THEN {}
    ELSE p.flat

\* signals_for: the backend's set, then the map shipped with the gateway, then
\* the flat list, but only where no second model can be meant.
SignalsFor(p, subnets, f) ==
    IF Known(p) = {} THEN p.flat
    ELSE IF f \in Known(p) /\ p.catalog[f] # {} THEN p.catalog[f]
    ELSE IF f \in Builtin THEN {f}
    ELSE IF f \in Known(p) THEN {}
    ELSE IF Cardinality(Known(p)) <= 1 /\ Cardinality(Fleet(p, subnets)) <= 1
         THEN p.flat
    ELSE {}

\* What the backend owes: the set of a profile holds signals of that profile.
HonestCatalog(p) == \A f \in Known(p) : p.catalog[f] \subseteq {f}
=============================================================================

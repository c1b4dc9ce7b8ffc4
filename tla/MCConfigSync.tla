---------------------------- MODULE MCConfigSync ----------------------------
(***************************************************************************)
(* A small instance of ConfigSync for TLC: payloads that differ in what the*)
(* parser tells apart.                                                     *)
(***************************************************************************)
EXTENDS ConfigSync

CONSTANTS A, B

Dev(ip, endpoint, port, profile) ==
    [ip |-> ip, endpoint |-> endpoint, port |-> port, policy |-> "smart",
     address |-> "ok", profile |-> profile]

Odd(endpoint, policy, address) ==
    [ip |-> "inside", endpoint |-> endpoint, port |-> 0, policy |-> policy,
     address |-> address, profile |-> A]

Only(f) == [g \in {f} |-> {f}]

\* Two models, one of them unknown to the catalog and shipped by nobody, and a
\* device that is foreign when the operator has allowed some subnets only.
Mixed == [devices |-> <<Dev("inside", "listening", 0, A),
                        Dev("none", "initiating", 2000, B),
                        Dev("outside", "listening", 0, A)>>,
          flat |-> {A, B}, catalog |-> Only(A)]

\* One port for two devices that are not neighbours, between them one of an
\* unreadable address; where the first of them is foreign it is left out, and the
\* payload is no longer refused.
Clash == [devices |-> <<Dev("outside", "initiating", 2000, A),
                        Odd("listening", "bad", "text"),
                        Dev("inside", "initiating", 2000, A)>>,
          flat |-> {A}, catalog |-> [f \in {A, B} |-> IF f = A THEN {} ELSE Bad]]

MCName == 1..2
MCPayload == <<Mixed, Clash>>

=============================================================================

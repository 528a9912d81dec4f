----------------------- MODULE MCOperationalContainer -----------------------
(***************************************************************************)
(* Small instances of OperationalContainer for TLC.                        *)
(***************************************************************************)
EXTENDS OperationalContainer

K(p, proto) == [port |-> p, proto |-> proto]
B(ip, p)    == [ip |-> ip, port |-> p]

\* Port 80 over both protocols, port 90, and a key without a protocol.
SomeKeys == {K(80, "tcp"), K(80, "udp"), K(90, "tcp"), K(90, "none")}

\* What publish_all_ports, modify_port_map and a broken answer can report.
SomeBindings == {Unpublished, <<B("v6", 1), B("v4", 2)>>, <<B("v4", 3), B("v4", 7)>>,
                 <<B("v6", 4)>>, <<B("v4", 5), B("bad", 6)>>}

SomePortMaps ==
    UNION {[ks -> SomeBindings] :
             ks \in {{}, {K(80, "tcp"), K(80, "udp")}, {K(80, "tcp"), K(90, "tcp")},
                     {K(80, "udp"), K(90, "none")}}}
=============================================================================

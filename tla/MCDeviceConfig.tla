--------------------------- MODULE MCDeviceConfig ---------------------------
(***************************************************************************)
(* TLC instance of DeviceConfig: requests that add, change, skip, refuse   *)
(* and remove peers, of which two fit, and every kind of parameter.        *)
(***************************************************************************)
EXTENDS DeviceConfig, TLC

CONSTANTS ip1, ip2

MCSizeof == [HandshakeInitiation |-> 4, HandshakeResponse |-> 3, HandshakeCookie |-> 2, Data |-> 1]
NoJunk == [Count |-> Absent, Min |-> Absent, Max |-> Absent]
NoSizes == [k \in Handshakes \cup {"Data"} |-> Absent]
NoChange == [junk |-> NoJunk, sizes |-> NoSizes, port |-> Absent, replace |-> FALSE,
           private |-> Absent, peers |-> <<>>]
Plain(k) == [key |-> k, psk |-> Absent, endpoint |-> Absent, keepalive |-> Absent, version |-> 0,
             replace |-> FALSE, remove |-> FALSE, updateOnly |-> FALSE, ips |-> <<>>]
Ip(a) == [address |-> a, remove |-> FALSE, valid |-> TRUE]
MCRequests ==
    {[NoChange EXCEPT !.private = k, !.port = 1] : k \in {"k1", "k2", "zero"}}
    \cup {[NoChange EXCEPT !.junk = [Count |-> c, Min |-> 1, Max |-> 3], !.sizes["HandshakeCookie"] = 3] :
               c \in {1, 2}}
    \cup {[NoChange EXCEPT !.junk = [Count |-> Absent, Min |-> 4, Max |-> Absent]]}
    \cup {[NoChange EXCEPT !.sizes["HandshakeResponse"] = 1]}
    \cup {[NoChange EXCEPT !.sizes["HandshakeCookie"] = 6]}
    \cup {[NoChange EXCEPT !.sizes["Data"] = n] : n \in {1, 4}}
    \cup {[NoChange EXCEPT !.replace = TRUE, !.private = "k1",
              !.peers = <<[Plain("k2") EXCEPT !.ips = <<Ip(ip1), Ip(ip2)>>],
                          [Plain("k1") EXCEPT !.psk = 1, !.ips = <<Ip(ip1)>>]>>],
          [NoChange EXCEPT !.private = "k2",
              !.peers = <<[Plain("k1") EXCEPT !.keepalive = 1, !.replace = TRUE,
                                              !.ips = <<[Ip(ip2) EXCEPT !.remove = TRUE]>>],
                          [Plain("k2") EXCEPT !.endpoint = "e"]>>],
          [NoChange EXCEPT !.peers = <<[Plain("k2") EXCEPT !.remove = TRUE]>>],
          [NoChange EXCEPT !.peers = <<[Plain("k3") EXCEPT !.endpoint = "e", !.ips = <<Ip(ip1)>>],
                                      [Plain("k2") EXCEPT !.version = 2]>>],
          [NoChange EXCEPT !.peers = <<[Plain("k1") EXCEPT !.updateOnly = TRUE, !.endpoint = "unknown"],
                                      [Plain("k1") EXCEPT !.ips = <<[Ip(ip2) EXCEPT !.valid = FALSE]>>]>>],
          [NoChange EXCEPT !.peers = <<Plain(Absent)>>]}
=============================================================================

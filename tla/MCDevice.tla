------------------------------ MODULE MCDevice ------------------------------
(***************************************************************************)
(* TLC instance of a device: a peer's timers, the configuration and the    *)
(* sockets.  They do not interact here, so a behaviour moves one of them,  *)
(* chosen at the start.                                                    *)
(*                                                                         *)
(*   timers: one network thread, one packet in flight, one call, one       *)
(*     request, one retry;                                                 *)
(*   configuration: as in MCDeviceConfig;                                  *)
(*   sockets: a sender with two packets, a peer with an IPv4 or IPv6       *)
(*     address, a route change, a change of port.                          *)
(***************************************************************************)
EXTENDS MCDeviceConfig, PeerTimers, Sockets

CONSTANT Parts

VARIABLE part

Route(i, c, cov, m) == [index |-> i, cidr |-> c, covers |-> cov, metric |-> m, up |-> TRUE]
MCTables == 4 :> << <<Route(3, 2, {41}, 0), Route(1, 0, {41}, 2), Route(2, 0, {41}, 1)>>,
                    <<Route(1, 1, {41}, 2), Route(2, 0, {41}, 1)>> >>
            @@ 6 :> << <<Route(1, 0, {61}, 1)>> >>
MCFamily == 41 :> 4 @@ 61 :> 6
MCArrivals == {[from |-> 41, via |-> 1], [from |-> 61, via |-> 3]}

\* Timers and sockets have several initial states; the other parts take one
\* of them.
MCInit ==
    /\ part \in Parts
    /\ Init /\ DeviceConfigInit /\ SocketsInit
    /\ part # "timers" => isUp /\ ~paused /\ keys = "none" /\ ~initiated
    /\ part # "sockets" => endpoint.addr = 0 /\ ~running

MCNext ==
    /\ UNCHANGED part
    /\ IF part = "timers" THEN Next ELSE UNCHANGED vars
    /\ IF part = "configuration" THEN DeviceConfigNext ELSE UNCHANGED dcVars
    /\ IF part = "sockets" THEN SocketsNext ELSE UNCHANGED skVars

\* What Fairness of PeerTimers lets each thread, timer and deadline do, any
\* one of them: less than Fairness, and enough.
SomethingMoves ==
    \/ \E th \in Threads : Step(th)
    \/ \E t \in Timers : Expire(t) \/ TimerDpcCallback(t)
    \/ RekeyTimeoutPasses \/ DequeueEntry
    \/ \E n \in NetThreads : PacketPeerTxWork(n)

MCSpec ==
    /\ MCInit /\ [][MCNext]_<<part, vars, dcVars, skVars>>
    /\ WF_vars(part = "timers" /\ SomethingMoves)
=============================================================================

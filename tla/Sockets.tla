-------------------------------- MODULE Sockets --------------------------------
(***************************************************************************)
(* The UDP sockets of a device and one peer's endpoint (driver/socket.c).    *)
(*                                                                         *)
(* A sender resolves the endpoint's source address, then sends through the *)
(* socket of the address family; received packets keep their socket alive    *)
(* (ItemsInFlight) and may move the endpoint; a configuration thread binds    *)
(* new sockets and closes the old ones.  EndpointLock is the set of its       *)
(* shared holders: exclusive sections are one step and need it empty.  The    *)
(* Winsock kernel's socket is a port that was bound, a routing table is a   *)
(* list of routes in the order of GetIpForwardTable2.  The routing generation *)
(* of a family moves some time after its table.                               *)
(***************************************************************************)
EXTENDS Integers, Sequences, SequencesExt, FiniteSets

CONSTANTS
    Senders,        \* threads that send to the peer
    Arrivals,       \* packets from outside: their sender and the interface
    RemoteAddresses,
    Family,         \* the family of an address: 4 or 6
    Own,            \* the tunnel's own interface
    Tables,         \* per family, the routing tables in their order in time
    Sockets,        \* memory for SOCKET objects, 4 and 6 among it
    Transports,     \* WskHasIpv4Transport, WskHasIpv6Transport
    Ports,
    MaxRetries,     \* bound: 100 in SocketInit
    MaxBinds, MaxSends, MaxPackets,  \* bounds
    NoSocket

Families == {4, 6}

(* Addresses and interfaces have numbers other than 0, and so have ports.      *)
ASSUME SocketsAssumption ==
    /\ NoSocket \notin Sockets /\ "packet" \notin Senders
    /\ Transports \subseteq Families /\ Transports \subseteq Sockets
    /\ Ports \subseteq Nat \ {0} /\ 1 \in Ports
    /\ Own \in Nat \ {0}
    /\ \A a \in Arrivals : a.from # 0 /\ Family[a.from] \in Families /\ a.via \in Nat \ {0}
    /\ \A a \in RemoteAddresses : a # 0 /\ Family[a] \in Families
    /\ \A f \in Families :
         /\ Len(Tables[f]) \in Nat \ {0} /\ DOMAIN Tables[f] = 1..Len(Tables[f])
         /\ \A n \in DOMAIN Tables[f] : \A i \in DOMAIN Tables[f][n] :
              Tables[f][n][i].index \in Nat
    /\ MaxSends \in Nat /\ MaxBinds \in Nat /\ MaxPackets \in Nat /\ MaxRetries \in Nat

VARIABLES
    endpoint,  \* Addr, the source's interface and the address it is for, the
               \* two generations, and kept: Addr moved while the source stayed
    table,     \* the routing table in force
    generation,\* RoutingGenerationV4 and V6, here what they have announced
    sending,    \* per sending: where it is, its copy of the endpoint, its socket
    packet,    \* the packet being handled: where it is, its socket, the reply's
    installed, \* Sock4 and Sock6
    socket,    \* per SOCKET: "free", "open", or "closing" after the rundown began,
               \* its family and port
    port,      \* IncomingPort
    running,   \* IsUp
    config,    \* the thread that holds DeviceUpdateLock
    sends, binds, packets

skVars == <<endpoint, table, generation, sending, packet, installed, socket, port,
            running, config, sends, binds, packets>>

Free == [st |-> "free", family |-> 0, port |-> 0]
NoPacket == [at |-> "rest", from |-> 0, via |-> 0, sock |-> NoSocket, out |-> NoSocket]
AtRest == [at |-> "rest", addr |-> 0, update |-> 0, best |-> 0, sock |-> NoSocket]
ConfigRest == [at |-> "rest", op |-> "none", want |-> 0, new |-> [f \in Families |-> NoSocket],
               got |-> 0, retries |-> 0, old |-> <<>>, await |-> {}]

(* A device that is down, or one that was brought up on a port. *)
SocketsInit ==
    /\ \E a \in RemoteAddresses \cup {0} :
         endpoint = [addr |-> a, src |-> 0, for |-> 0, routing |-> 0, update |-> 0, kept |-> FALSE]
    /\ table = [f \in Families |-> 1] /\ generation = [f \in Families |-> 1]
    /\ sending = [s \in Senders |-> AtRest]
    /\ packet = NoPacket
    /\ \/ /\ installed = [f \in Families |-> NoSocket]
          /\ socket = [k \in Sockets |-> Free]
          /\ port = 0 /\ running = FALSE
       \/ /\ installed = [f \in Families |-> IF f \in Transports THEN f ELSE NoSocket]
          /\ socket = [k \in Sockets |-> IF k \in Transports
                                        THEN [st |-> "open", family |-> k, port |-> 1] ELSE Free]
          /\ port = 1 /\ running = TRUE
    /\ config = ConfigRest
    /\ sends = 0 /\ binds = 0 /\ packets = 0

EndpointSide == UNCHANGED <<endpoint, table, generation>>
SocketSide == UNCHANGED <<installed, socket, port, running, config, binds>>

(* RcuReadUnlock: one reader less to wait for. *)
RcuUnlock(reader) ==
    /\ config' = [config EXCEPT !.await = @ \ {reader}]
    /\ UNCHANGED <<installed, socket, port, running, binds>>

(* Holders of EndpointLock in shared mode. *)
Sharing == {s \in Senders : sending[s].at \in {"reading", "sending"}}

(* Readers inside RcuReadLock: senders, and the reply to a packet. *)
Reading == Sharing
              \cup (IF packet.at \in {"replying", "reply"} THEN {"packet"} ELSE {})

-----------------------------------------------------------------------------
(* The routing table changes; RouteNotification follows. *)

RouteChange(f) ==
    /\ table[f] < Len(Tables[f]) /\ table' = [table EXCEPT ![f] = @ + 1]
    /\ UNCHANGED <<endpoint, generation, sending, packet, sends, packets>> /\ SocketSide

RouteNotification(f) ==
    /\ generation[f] < table[f]
    /\ generation' = [generation EXCEPT ![f] = table[f]]
    /\ UNCHANGED <<endpoint, table, sending, packet, sends, packets>> /\ SocketSide

(* GetIpForwardTable2 *)
Routes(addr) == Tables[Family[addr]][table[Family[addr]]]

(* A route to the address that does not lead into the tunnel itself, over an  *)
(* interface that is up.                                                      *)
Candidate(route, addr) == route.index # Own /\ addr \in route.covers /\ route.up

(* The longest prefix, then the smallest metric, the last such route; none or *)
(* one interface.                                                             *)
NotBetter(routes, i, j) ==
    \/ routes[i].cidr < routes[j].cidr
    \/ routes[i].cidr = routes[j].cidr /\ routes[i].metric > routes[j].metric
    \/ routes[i].cidr = routes[j].cidr /\ routes[i].metric = routes[j].metric /\ i <= j

BestRoute(routes, addr) ==
    LET candidates == {i \in DOMAIN routes : Candidate(routes[i], addr)}
    IN {routes[j].index : j \in {k \in candidates :
                                   \A i \in candidates : NotBetter(routes, i, k)}}

-----------------------------------------------------------------------------
(* SocketResolvePeerEndpoint. *)

Move(s, to) == sending' = [sending EXCEPT ![s] = to]

(* The interface index as the peer's family lays out the source: after a      *)
(* change of family with the old source kept, bytes 4 to 7 of an IPv6 address *)
(* for IPv4, and cmsg_level, which is zero, for IPv6.                          *)
SourceIndex ==
    IF endpoint.for = 0 \/ Family[endpoint.for] = Family[endpoint.addr] THEN {endpoint.src}
    ELSE IF Family[endpoint.addr] = 6 THEN {0} ELSE {0, 1}

Resolved(index) ==
    /\ endpoint.routing = generation[Family[endpoint.addr]]
    /\ index \notin {0, Own}

(* With the lock shared: the source is current, or it is looked up for a copy *)
(* of the address.  A peer without an address has no route.                   *)
CheckSource(s) ==
    IF endpoint.addr = 0 THEN Move(s, AtRest)
    ELSE \E index \in SourceIndex :
           Move(s, IF Resolved(index) THEN [AtRest EXCEPT !.at = "reading"]
                   ELSE [at |-> "lookup", addr |-> endpoint.addr, update |-> endpoint.update,
                         best |-> 0, sock |-> NoSocket])

StartSend(s) ==
    /\ sending[s].at = "rest" /\ sends < MaxSends
    /\ CheckSource(s)
    /\ sends' = sends + 1
    /\ EndpointSide /\ SocketSide /\ UNCHANGED <<packet, packets>>

(* Without the lock; no route, no memory: the send fails. *)
LookupRoute(s) ==
    /\ sending[s].at = "lookup"
    /\ \/ \E best \in BestRoute(Routes(sending[s].addr), sending[s].addr) \ {0} :
             Move(s, [sending[s] EXCEPT !.at = "store", !.best = best])
       \/ Move(s, AtRest)
    /\ EndpointSide /\ SocketSide /\ UNCHANGED <<packet, sends, packets>>

(* Mutant: the endpoint may have been updated since. *)
SameEndpointAnyway(s) == TRUE

SameEndpoint(s) == sending[s].update = endpoint.update

StoreSource(s) ==
    /\ sending[s].at = "store" /\ Sharing = {}
    /\ IF SameEndpoint(s)
       THEN /\ endpoint' = [addr |-> endpoint.addr, src |-> sending[s].best,
                             for |-> sending[s].addr,
                             routing |-> generation[Family[endpoint.addr]],
                             update |-> endpoint.update + 1, kept |-> FALSE]
            /\ Move(s, [sending[s] EXCEPT !.at = "again", !.update = endpoint.update + 1])
       ELSE Move(s, [sending[s] EXCEPT !.at = "again"]) /\ UNCHANGED endpoint
    /\ UNCHANGED <<table, generation, packet, sends, packets>> /\ SocketSide

(* The lock is shared again; another update means another try. *)
LockAgain(s) ==
    /\ sending[s].at = "again"
    /\ IF SameEndpoint(s) THEN Move(s, [AtRest EXCEPT !.at = "reading"]) ELSE CheckSource(s)
    /\ EndpointSide /\ SocketSide /\ UNCHANGED <<packet, sends, packets>>

-----------------------------------------------------------------------------
(* SocketSendNblsToPeer and SocketSendBufferToPeer, with the lock shared: the *)
(* socket is read under RcuReadLock and used before RcuReadUnlock.            *)

ReadSocket(s) ==
    /\ sending[s].at = "reading"
    /\ LET sock == installed[Family[endpoint.addr]] IN
       IF sock = NoSocket
       THEN Move(s, AtRest) /\ RcuUnlock(s)
       ELSE Move(s, [sending[s] EXCEPT !.at = "sending", !.sock = sock]) /\ SocketSide
    /\ EndpointSide /\ UNCHANGED <<packet, sends, packets>>

WskSend(s) ==
    /\ sending[s].at = "sending"
    /\ Move(s, AtRest) /\ RcuUnlock(s)
    /\ EndpointSide /\ UNCHANGED <<packet, sends, packets>>

-----------------------------------------------------------------------------
(* Receive accepts a datagram while the device is up and the socket's rundown *)
(* has not begun; others are released at once.                                *)

Receive(a, k) ==
    /\ packet = NoPacket /\ packets < MaxPackets
    /\ socket[k].st = "open" /\ socket[k].family = Family[a.from] /\ running
    /\ packet' = [at |-> "held", from |-> a.from, via |-> a.via, sock |-> k, out |-> NoSocket]
    /\ packets' = packets + 1
    /\ EndpointSide /\ SocketSide /\ UNCHANGED <<sending, sends>>

(* SocketSetPeerEndpointFromNbl: compared without the lock ... *)
EndpointEq == endpoint.addr = packet.from /\ endpoint.for = packet.from /\ endpoint.src = packet.via

CompareEndpoint ==
    /\ packet.at = "held"
    /\ packet' = [packet EXCEPT !.at = IF EndpointEq THEN "done" ELSE "move"]
    /\ EndpointSide /\ SocketSide /\ UNCHANGED <<sending, sends, packets>>

(* ... and written with it; the source stays if the packet came through the   *)
(* tunnel itself.                                                             *)
SocketSetPeerEndpoint(addr, via, routing) ==
    endpoint' = [addr |-> addr,
                 src |-> IF via = Own THEN endpoint.src ELSE via,
                 for |-> IF via = Own THEN endpoint.for ELSE addr,
                 routing |-> routing, update |-> endpoint.update + 1, kept |-> (via = Own)]

MoveEndpoint ==
    /\ packet.at = "move" /\ Sharing = {}
    /\ SocketSetPeerEndpoint(packet.from, packet.via, generation[Family[packet.from]])
    /\ packet' = [packet EXCEPT !.at = "done"]
    /\ UNCHANGED <<table, generation, sending, sends, packets>> /\ SocketSide

(* SocketSendBufferAsReplyToNbl. *)
StartReply ==
    /\ packet.at = "held" /\ packet.via # Own
    /\ packet' = [packet EXCEPT !.at = "replying"]
    /\ EndpointSide /\ SocketSide /\ UNCHANGED <<sending, sends, packets>>

ReadReplySocket ==
    /\ packet.at = "replying"
    /\ LET sock == installed[Family[packet.from]] IN
       IF sock = NoSocket
       THEN packet' = [packet EXCEPT !.at = "done"] /\ RcuUnlock("packet")
       ELSE packet' = [packet EXCEPT !.at = "reply", !.out = sock] /\ SocketSide
    /\ EndpointSide /\ UNCHANGED <<sending, sends, packets>>

SendReply ==
    /\ packet.at = "reply"
    /\ packet' = [packet EXCEPT !.at = "done", !.out = NoSocket] /\ RcuUnlock("packet")
    /\ EndpointSide /\ UNCHANGED <<sending, sends, packets>>

ReturnNetBufferLists ==
    /\ packet.at \in {"held", "done"}
    /\ packet' = NoPacket
    /\ EndpointSide /\ SocketSide /\ UNCHANGED <<sending, sends, packets>>

-----------------------------------------------------------------------------
(* The configuration thread: Up, SetListenPort and Down, which call           *)
(* SocketInit and SocketReinit.                                               *)

SocketConfigStep(to) == config' = to
ConfigOnly == UNCHANGED <<table, generation, sending, packet, sends, packets>>

StartUp ==
    /\ config.at = "rest" /\ ~running /\ binds < MaxBinds
    /\ SocketConfigStep([ConfigRest EXCEPT !.at = "bind4", !.op = "up", !.want = port])
    /\ binds' = binds + 1
    /\ ConfigOnly /\ UNCHANGED <<endpoint, installed, socket, port, running>>

(* Every peer's source is cleared first. *)
SocketClearPeerEndpointSrc ==
    endpoint' = [addr |-> endpoint.addr, src |-> 0, for |-> 0, routing |-> 0,
                 update |-> endpoint.update + 1, kept |-> endpoint.kept]

SetPort(p) ==
    /\ config.at = "rest" /\ p # port /\ binds < MaxBinds /\ Sharing = {}
    /\ SocketClearPeerEndpointSrc
    /\ IF running
       THEN /\ SocketConfigStep([ConfigRest EXCEPT !.at = "bind4", !.op = "port", !.want = p])
            /\ UNCHANGED port
       ELSE port' = p /\ UNCHANGED config
    /\ binds' = binds + 1
    /\ ConfigOnly /\ UNCHANGED <<installed, socket, running>>

SetEndpoint(a) ==
    /\ config.at = "rest" /\ Sharing = {} /\ endpoint.addr # a
    /\ packets < MaxPackets /\ packets' = packets + 1
    /\ SocketSetPeerEndpoint(a, 0, 0)
    /\ UNCHANGED <<table, generation, sending, packet, sends>> /\ SocketSide

StartDown ==
    /\ config.at = "rest" /\ running
    /\ running' = FALSE
    /\ SocketConfigStep([ConfigRest EXCEPT !.at = "stop", !.op = "down", !.await = Reading])
    /\ ConfigOnly /\ UNCHANGED <<endpoint, installed, socket, port, binds>>

(* CreateAndBindSocket: it may fail, and leaves no socket then. *)
Those(pair) == (IF pair[4] = NoSocket THEN <<>> ELSE <<pair[4]>>)
                  \o (IF pair[6] = NoSocket THEN <<>> ELSE <<pair[6]>>)
CreateAndBindSocket(k, f, p) == socket' = [socket EXCEPT ![k] = [st |-> "open", family |-> f, port |-> p]]
AnyFree == CHOOSE k \in Sockets : socket[k].st = "free"
Memory == \E k \in Sockets : socket[k].st = "free"

Bind4 ==
    /\ config.at = "bind4"
    /\ \/ /\ 4 \in Transports /\ Memory
          /\ \E p \in (IF config.want = 0 THEN Ports ELSE {config.want}) :
                /\ CreateAndBindSocket(AnyFree, 4, p)
                /\ SocketConfigStep([config EXCEPT !.at = "bind6", !.got = p,
                                                   !.new = [@ EXCEPT ![4] = AnyFree]])
       \/ /\ 4 \notin Transports
          /\ SocketConfigStep([config EXCEPT !.at = "bind6", !.got = config.want]) /\ UNCHANGED socket
       \/ 4 \in Transports /\ SocketConfigStep(ConfigRest) /\ UNCHANGED socket
    /\ ConfigOnly /\ UNCHANGED <<endpoint, installed, port, running, binds>>

Port6 == {p \in Ports : config.got \in {0, p}}

(* The port of the IPv4 socket is asked for; if it is taken and any port will *)
(* do, both are bound anew.                                                   *)
Bind6 ==
    /\ config.at = "bind6"
    /\ \/ /\ 6 \in Transports /\ Memory
          /\ \E p \in Port6 :
                /\ CreateAndBindSocket(AnyFree, 6, p)
                /\ SocketConfigStep([config EXCEPT !.at = "swap", !.got = p,
                                                   !.new = [@ EXCEPT ![6] = AnyFree]])
       \/ 6 \notin Transports /\ SocketConfigStep([config EXCEPT !.at = "swap"]) /\ UNCHANGED socket
       \/ /\ 6 \in Transports
          /\ \E at \in {"fail"} \cup (IF config.want = 0 /\ config.retries < MaxRetries
                                      THEN {"retry"} ELSE {}) :
                SocketConfigStep([config EXCEPT !.at = at, !.old = Those(config.new),
                                                !.new = [@ EXCEPT ![4] = NoSocket]])
          /\ UNCHANGED socket
    /\ ConfigOnly /\ UNCHANGED <<endpoint, installed, port, running, binds>>

(* SocketReinit: Down installs no sockets. *)
Swap ==
    /\ config.at \in {"swap", "stop"}
    /\ config.at = "stop" => config.await = {}
    /\ installed' = config.new
    /\ port' = IF config.new = ConfigRest.new THEN port ELSE config.got
    /\ SocketConfigStep([config EXCEPT !.at = "sync", !.await = Reading,
                                 !.old = Those(installed)])
    /\ ConfigOnly /\ UNCHANGED <<endpoint, socket, running, binds>>

(* Mutant: the readers are not waited for. *)
NoSynchronize == TRUE

Synchronized == config.await = {}

RcuSynchronize ==
    /\ config.at = "sync" /\ Synchronized
    /\ SocketConfigStep([config EXCEPT !.at = "close", !.await = {}])
    /\ ConfigOnly /\ UNCHANGED <<endpoint, installed, socket, port, running, binds>>

Closing == config.at \in {"close", "retry", "fail"}

(* CloseSocket: the rundown begins, ... *)
BeginClose ==
    /\ Closing /\ config.old # <<>>
    /\ socket[Head(config.old)].st = "open"
    /\ socket' = [socket EXCEPT ![Head(config.old)].st = "closing"]
    /\ ConfigOnly /\ UNCHANGED <<endpoint, installed, port, running, config, binds>>

(* ... and the memory is freed once no packet holds the socket. *)
FreeSocket ==
    /\ Closing /\ config.old # <<>>
    /\ socket[Head(config.old)].st = "closing" /\ packet.sock # Head(config.old)
    /\ socket' = [socket EXCEPT ![Head(config.old)] = Free]
    /\ SocketConfigStep([config EXCEPT !.old = Tail(@)])
    /\ ConfigOnly /\ UNCHANGED <<endpoint, installed, port, running, binds>>

Closed ==
    /\ Closing /\ config.old = <<>>
    /\ running' = (running \/ (config.at = "close" /\ config.op = "up"))
    /\ SocketConfigStep(IF config.at = "retry"
                  THEN [config EXCEPT !.at = "bind4", !.retries = @ + 1] ELSE ConfigRest)
    /\ ConfigOnly /\ UNCHANGED <<endpoint, installed, socket, port, binds>>

SocketsNext ==
    \/ \E f \in Families : RouteChange(f) \/ RouteNotification(f)
    \/ \E s \in Senders : \/ StartSend(s) \/ LookupRoute(s) \/ StoreSource(s)
                          \/ LockAgain(s) \/ ReadSocket(s) \/ WskSend(s)
    \/ \E a \in Arrivals, k \in Sockets : Receive(a, k)
    \/ CompareEndpoint \/ MoveEndpoint \/ StartReply \/ ReadReplySocket \/ SendReply
    \/ ReturnNetBufferLists
    \/ StartUp \/ (\E p \in Ports : SetPort(p)) \/ (\E a \in RemoteAddresses : SetEndpoint(a))
    \/ StartDown \/ Bind4 \/ Bind6 \/ Swap \/ RcuSynchronize \/ Closed
    \/ BeginClose \/ FreeSocket

SocketsSpec == SocketsInit /\ [][SocketsNext]_skVars

-----------------------------------------------------------------------------
(* A packet to the peer leaves with a source that was found for its           *)
(* destination, by a packet from there or by the routing table, and never     *)
(* into the tunnel itself; the exception is an endpoint that moved because    *)
(* of a packet through the tunnel, which keeps its source.                    *)
SourceFits ==
    \A s \in Senders : sending[s].at = "sending" =>
        /\ endpoint.src # Own
        /\ endpoint.kept \/ (endpoint.for = endpoint.addr /\ endpoint.src # 0)

(* A socket that a sender, a reply or a packet still uses was not freed.       *)
(* Whenever no configuration is under way, a device that is up listens on its *)
(* port with every transport, and one that is down on none.                   *)
SocketsAlive ==
    /\ \A s \in Senders : sending[s].at = "sending" => socket[sending[s].sock].st # "free"
    /\ packet # NoPacket => socket[packet.sock].st # "free"
    /\ packet.at = "reply" => socket[packet.out].st # "free"
    /\ config.at = "rest" =>
         /\ \A f \in Families :
              IF running /\ f \in Transports
              THEN installed[f] # NoSocket /\ socket[installed[f]].st = "open"
                   /\ socket[installed[f]].port = port
              ELSE installed[f] = NoSocket
         /\ \A k \in Sockets : socket[k].st = "open" => \E f \in Families : installed[f] = k
=============================================================================

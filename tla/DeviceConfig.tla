----------------------------- MODULE DeviceConfig -----------------------------
(***************************************************************************)
(* The device's configuration: AWG_IOCTL_SET, AWG_IOCTL_GET and the adapter *)
(* state (driver/ioctl.c), PeerCreate and PeerRemoval as they change the     *)
(* lists (driver/peer.c), and what the obfuscation parameters mean on the   *)
(* wire (driver/send.c, driver/receive.c).                                  *)
(*                                                                         *)
(* A request runs under DeviceUpdateLock, one step for every point where    *)
(* other threads see the device in between.  A key pair is one value: the   *)
(* private key's; a private key outside PublicKeys has no public key.  A    *)
(* field that a request's Flags leave out is Absent.  The allowed IPs are   *)
(* a table here (module AllowedIps shows that the trie is one), binding     *)
(* sockets succeeds or fails (module Sockets).                              *)
(***************************************************************************)
EXTENDS Integers, Sequences, SequencesExt, FiniteSets

CONSTANTS
    Requests,               \* the requests that are made
    PublicKeys, AllowedAddresses,
    ListenPorts,            \* ports that the system may choose for port 0
    MAX_PEERS_PER_DEVICE, MAX_JUNK_COUNT, MAX_PREFIX_SIZE_DATA,
    MAXUSHORT,              \* the largest USHORT
    Sizeof,                 \* sizes of the four message structs
    AuthTagLen,             \* NoiseEncryptedLen(0)
    MaxPlain,               \* bound: length of a packet inside
    Absent

Handshakes == {"HandshakeInitiation", "HandshakeResponse", "HandshakeCookie"}

(* Fields are USHORTs, the structs differ in size and the largest offsets fit. *)
ASSUME ConfigAssumption ==
    /\ MAXUSHORT \in Nat /\ AuthTagLen \in Nat /\ MaxPlain \in Nat
    /\ MAX_JUNK_COUNT \in Nat /\ MAX_PREFIX_SIZE_DATA \in Nat
    /\ MAX_PEERS_PER_DEVICE \in Nat
    /\ Sizeof \in [Handshakes \cup {"Data"} -> 0..MAXUSHORT]
    /\ \A g, h \in Handshakes : g # h => Sizeof[g] # Sizeof[h]
    /\ Absent \notin 0..MAXUSHORT
    /\ \A r \in Requests :
         /\ r.junk \in [{"Count", "Min", "Max"} -> 0..MAXUSHORT \cup {Absent}]
         /\ r.sizes \in [Handshakes \cup {"Data"} -> 0..MAXUSHORT \cup {Absent}]
         /\ DOMAIN r.peers = 1..Len(r.peers) /\ Len(r.peers) \in Nat
         /\ \A i \in DOMAIN r.peers : r.peers[i].key \in PublicKeys \cup {Absent}

VARIABLES
    junk, sizes,            \* JunkPackets, PrefixSizes
    incomingPort, up,
    identity,               \* StaticIdentity's key, "zero" at first
    peerList,               \* PeerList; the hash table has the same peers
    conf,                   \* per peer: pre-shared key, endpoint, keepalive
    owner,                  \* PeerAllowedIps
    call,                   \* the request that holds the lock: where it is, its peer and IP
    status                  \* of the last request

dcVars == <<junk, sizes, incomingPort, identity, up, peerList, conf, owner, call, status>>

Ushort(n) == n % (MAXUSHORT + 1)

(* DeviceInitialize: no junk, no prefixes. *)
FreshJunk == [Count |-> 0, Min |-> 0, Max |-> 0]
FreshSizes == [k \in Handshakes \cup {"Data"} |-> IF k = "Data" THEN 0 ELSE Sizeof[k]]

ConfigIdle == [at |-> "idle"]
NoPeers == [k \in {} |-> 0]

DeviceConfigInit ==
    /\ junk = FreshJunk /\ sizes = FreshSizes
    /\ incomingPort = 0 /\ identity = "zero" /\ up = FALSE
    /\ peerList = <<>> /\ conf = NoPeers
    /\ owner = [a \in AllowedAddresses |-> Absent]
    /\ call = ConfigIdle /\ status = "none"

-----------------------------------------------------------------------------
(* Merging and validating the obfuscation parameters. *)

MergeJunkPackets(old, given) ==
    [f \in DOMAIN old |-> IF given[f] = Absent THEN old[f] ELSE given[f]]

(* The sum is stored in a USHORT and may wrap. *)
MergePrefixSizes(old, given) ==
    [f \in DOMAIN old |-> IF given[f] = Absent THEN old[f]
                          ELSE IF f = "Data" THEN given[f]
                          ELSE Ushort(given[f] + Sizeof[f])]

ValidateJunkPackets(j) == j.Count <= MAX_JUNK_COUNT /\ j.Min <= j.Max

(* Mutant: totals may coincide. *)
ValidateSizesAlone(s) ==
    /\ \A h \in Handshakes : s[h] >= Sizeof[h]
    /\ s.Data <= MAX_PREFIX_SIZE_DATA

ValidatePrefixSizes(s) ==
    /\ \A h \in Handshakes : s[h] >= Sizeof[h]
    /\ s.Data <= MAX_PREFIX_SIZE_DATA
    /\ \A g, h \in Handshakes : g # h => s[g] # s[h]

-----------------------------------------------------------------------------
(* Peers. *)

DefaultConf == [psk |-> 0, endpoint |-> Absent, keepalive |-> 0]

(* SetPeer's fields; an endpoint of an unknown family is ignored. *)
Updated(c, p) ==
    [c EXCEPT !.psk = IF p.psk = Absent THEN @ ELSE p.psk,
              !.endpoint = IF p.endpoint \in {Absent, "unknown"} THEN @ ELSE p.endpoint]

Without(f, k) == [x \in DOMAIN f \ {k} |-> f[x]]
NotOwnedBy(k) == [a \in AllowedAddresses |-> IF owner[a] = k THEN Absent ELSE owner[a]]

PeerRemoval(k) ==
    /\ peerList' = RemoveAt(peerList, CHOOSE i \in DOMAIN peerList : peerList[i] = k)
    /\ conf' = Without(conf, k)
    /\ owner' = NotOwnedBy(k)

PeerRemoveAll ==
    /\ peerList' = <<>> /\ conf' = NoPeers
    /\ owner' = [a \in AllowedAddresses |-> Absent]

PeerCreate(k, c) ==
    /\ Len(peerList) < MAX_PEERS_PER_DEVICE
    /\ peerList' = Append(peerList, k)
    /\ conf' = [x \in DOMAIN conf \cup {k} |-> IF x = k THEN c ELSE conf[x]]

SamePeers == UNCHANGED <<peerList, conf, owner>>

(* The request goes on, or releases the lock (cleanupLock). *)
GoTo(at) == call' = [call EXCEPT !.at = at] /\ UNCHANGED status
Finish(s) == call' = ConfigIdle /\ status' = s

-----------------------------------------------------------------------------
(* SetInterface, in its order.  Nothing is changed before both groups of      *)
(* parameters have been found valid.                                          *)

ValidRequest(r) ==
    /\ (\E f \in DOMAIN r.junk : r.junk[f] # Absent)
          => ValidateJunkPackets(MergeJunkPackets(junk, r.junk))
    /\ (\E f \in DOMAIN r.sizes : r.sizes[f] # Absent)
          => ValidatePrefixSizes(MergePrefixSizes(sizes, r.sizes))

SetInterface(r) ==
    /\ call = ConfigIdle
    /\ IF ValidRequest(r)
       THEN call' = [at |-> "port", req |-> r, peer |-> 1, ip |-> 1] /\ UNCHANGED status
       ELSE Finish("invalid")
    /\ UNCHANGED <<junk, sizes, incomingPort, identity, up>> /\ SamePeers

(* SocketInit binds the port, or one of the system's choice for port 0. *)
SocketInit(port) ==
    IF port = 0 THEN incomingPort' \in ListenPorts ELSE incomingPort' = port

SetListenPort ==
    /\ call.at = "port"
    /\ LET port == call.req.port IN
       \/ /\ port \in {Absent, incomingPort}
          /\ GoTo("replace") /\ UNCHANGED incomingPort
       \/ /\ port \notin {Absent, incomingPort}
          /\ IF up THEN SocketInit(port) ELSE incomingPort' = port
          /\ GoTo("replace")
       \/ /\ port \notin {Absent, incomingPort} /\ up
          /\ Finish("socket failed") /\ UNCHANGED incomingPort
    /\ UNCHANGED <<junk, sizes, identity, up>> /\ SamePeers

ReplacePeers ==
    /\ call.at = "replace"
    /\ IF call.req.replace THEN PeerRemoveAll ELSE SamePeers
    /\ GoTo("own")
    /\ UNCHANGED <<junk, sizes, incomingPort, identity, up>>

(* Mutant: the peer with the device's new key stays. *)
KeepOwnPeer ==
    /\ call.at = "own"
    /\ GoTo("key") /\ SamePeers
    /\ UNCHANGED <<junk, sizes, incomingPort, identity, up>>

(* SetPrivateKey first removes the peer that has the new public key, ... *)
RemoveOwnPeer ==
    /\ call.at = "own"
    /\ LET key == call.req.private IN
       IF key # identity /\ key \in ToSet(peerList) THEN PeerRemoval(key) ELSE SamePeers
    /\ GoTo("key")
    /\ UNCHANGED <<junk, sizes, incomingPort, identity, up>>

(* ... then sets the key. *)
SetPrivateKey ==
    /\ call.at = "key"
    /\ identity' = IF call.req.private = Absent THEN identity ELSE call.req.private
    /\ GoTo("parameters") /\ SamePeers
    /\ UNCHANGED <<junk, sizes, incomingPort, up>>

SetParameters ==
    /\ call.at = "parameters"
    /\ junk' = MergeJunkPackets(junk, call.req.junk)
    /\ sizes' = MergePrefixSizes(sizes, call.req.sizes)
    /\ GoTo("peer") /\ SamePeers
    /\ UNCHANGED <<incomingPort, identity, up>>

-----------------------------------------------------------------------------
(* SetPeer. *)

ThisPeer == call.req.peers[call.peer]
MorePeers == call.at = "peer" /\ call.peer <= Len(call.req.peers)
NextPeer == call' = [call EXCEPT !.at = "peer", !.peer = @ + 1, !.ip = 1] /\ UNCHANGED status

NoMorePeers ==
    /\ call.at = "peer" /\ call.peer > Len(call.req.peers)
    /\ Finish("success") /\ SamePeers
    /\ UNCHANGED <<junk, sizes, incomingPort, identity, up>>

(* No public key, or a protocol version that is not known. *)
RefusePeer ==
    /\ MorePeers /\ (ThisPeer.key = Absent \/ ThisPeer.version > 1)
    /\ Finish("peer refused") /\ SamePeers
    /\ UNCHANGED <<junk, sizes, incomingPort, identity, up>>

AcceptedPeer == MorePeers /\ ThisPeer.key # Absent /\ ThisPeer.version <= 1
Known == ThisPeer.key \in ToSet(peerList)

(* Ignored without an error: removing or updating a peer that is not there,   *)
(* and the device's own key.                                                  *)
Skipped == ThisPeer.remove \/ ThisPeer.updateOnly \/ ThisPeer.key = identity

SkipPeer ==
    /\ AcceptedPeer /\ ~Known /\ Skipped
    /\ NextPeer /\ SamePeers
    /\ UNCHANGED <<junk, sizes, incomingPort, identity, up>>

AddPeer ==
    /\ AcceptedPeer /\ ~Known /\ ~Skipped
    /\ PeerCreate(ThisPeer.key, Updated(DefaultConf, ThisPeer))
    /\ GoTo("ips") /\ UNCHANGED owner
    /\ UNCHANGED <<junk, sizes, incomingPort, identity, up>>

(* Too many peers, or no memory. *)
CannotAddPeer ==
    /\ AcceptedPeer /\ ~Known /\ ~Skipped
    /\ Finish("no peer") /\ SamePeers
    /\ UNCHANGED <<junk, sizes, incomingPort, identity, up>>

DropPeer ==
    /\ AcceptedPeer /\ Known /\ ThisPeer.remove
    /\ PeerRemoval(ThisPeer.key)
    /\ NextPeer
    /\ UNCHANGED <<junk, sizes, incomingPort, identity, up>>

UpdatePeer ==
    /\ AcceptedPeer /\ Known /\ ~ThisPeer.remove
    /\ conf' = [conf EXCEPT ![ThisPeer.key] = Updated(@, ThisPeer)]
    /\ owner' = IF ThisPeer.replace THEN NotOwnedBy(ThisPeer.key) ELSE owner
    /\ GoTo("ips")
    /\ UNCHANGED <<junk, sizes, incomingPort, identity, up, peerList>>

(* Inserting an allowed IP takes it from its owner; removing another peer's   *)
(* does nothing.                                                              *)
SetAllowedIp ==
    /\ call.at = "ips" /\ call.ip <= Len(ThisPeer.ips)
    /\ LET ip == ThisPeer.ips[call.ip] IN
       \/ /\ ip.valid
          /\ owner' = IF ~ip.remove THEN [owner EXCEPT ![ip.address] = ThisPeer.key]
                      ELSE IF owner[ip.address] = ThisPeer.key
                      THEN [owner EXCEPT ![ip.address] = Absent] ELSE owner
          /\ call' = [call EXCEPT !.ip = @ + 1] /\ UNCHANGED status
       \/ /\ ip.valid => ~ip.remove
          /\ Finish("allowed IP refused") /\ UNCHANGED owner
    /\ UNCHANGED <<junk, sizes, incomingPort, identity, up, peerList, conf>>

(* PersistentKeepaliveInterval is set last. *)
EndPeer ==
    /\ call.at = "ips" /\ call.ip > Len(ThisPeer.ips)
    /\ conf' = IF ThisPeer.keepalive = Absent THEN conf
               ELSE [conf EXCEPT ![ThisPeer.key].keepalive = ThisPeer.keepalive]
    /\ NextPeer
    /\ UNCHANGED <<junk, sizes, incomingPort, identity, up, peerList, owner>>

-----------------------------------------------------------------------------
(* AWG_IOCTL_SET_ADAPTER_STATE. *)

DeviceUp ==
    /\ call = ConfigIdle /\ ~up
    /\ \/ SocketInit(incomingPort) /\ up' = TRUE /\ status' = "success"
       \/ status' = "socket failed" /\ UNCHANGED <<incomingPort, up>>
    /\ UNCHANGED <<junk, sizes, identity, call>> /\ SamePeers

DeviceDown ==
    /\ call = ConfigIdle /\ up
    /\ up' = FALSE /\ status' = "success"
    /\ UNCHANGED <<junk, sizes, incomingPort, identity, call>> /\ SamePeers

DeviceConfigNext ==
    \/ \E r \in Requests : SetInterface(r)
    \/ SetListenPort \/ ReplacePeers \/ RemoveOwnPeer \/ SetPrivateKey \/ SetParameters
    \/ NoMorePeers \/ RefusePeer \/ SkipPeer \/ AddPeer \/ CannotAddPeer \/ DropPeer
    \/ UpdatePeer \/ SetAllowedIp \/ EndPeer
    \/ DeviceUp \/ DeviceDown

DeviceConfigSpec == DeviceConfigInit /\ [][DeviceConfigNext]_dcVars

-----------------------------------------------------------------------------
(* AWG_IOCTL_GET lists the interface and then every peer with its allowed IPs  *)
(* and writes what fits; what is zero is left out.                             *)

NonZero(n) == IF n = 0 THEN Absent ELSE n

ReportedJunk == [f \in DOMAIN junk |-> NonZero(junk[f])]

(* Mutant: the totals are reported as they are stored. *)
TotalSizes == [f \in DOMAIN sizes |-> NonZero(sizes[f])]

ReportedSizes ==
    [f \in DOMAIN sizes |-> NonZero(IF f = "Data" THEN sizes[f] ELSE sizes[f] - Sizeof[f])]

ReportedInterface ==
    [junk |-> ReportedJunk, sizes |-> ReportedSizes, port |-> NonZero(incomingPort),
     private |-> IF identity \in PublicKeys THEN identity ELSE Absent]

AllowedIpsList(k) == SetToSeq({a \in AllowedAddresses : owner[a] = k})

ReportedPeer(k) ==
    <<[key |-> k, psk |-> NonZero(conf[k].psk), endpoint |-> conf[k].endpoint,
       keepalive |-> conf[k].keepalive]>> \o AllowedIpsList(k)

(* The items of the buffer; each has a size of one. *)
Items == <<ReportedInterface>> \o FlattenSeq([i \in 1..Len(peerList) |-> ReportedPeer(peerList[i])])

Get(outSize) ==
    [items |-> SubSeq(Items, 1, IF outSize < Len(Items) THEN outSize ELSE Len(Items)),
     final |-> Len(Items), success |-> outSize >= Len(Items)]

(* What a fresh device has after a request with these items. *)
IsPeer(x) == x \notin AllowedAddresses
OwnerAt(items, a) ==
    LET at == {i \in 2..Len(items) : items[i] = a}
    IN IF at = {} THEN Absent
       ELSE LET i == CHOOSE i \in at : TRUE
                before == {j \in 2..(i - 1) : IsPeer(items[j])}
            IN items[CHOOSE j \in before : \A k \in before : k <= j].key

Loaded(items) ==
    LET peers == SelectSeq(Tail(items), IsPeer)
        Of(k) == CHOOSE p \in ToSet(peers) : p.key = k
    IN [junk |-> MergeJunkPackets(FreshJunk, items[1].junk),
        sizes |-> MergePrefixSizes(FreshSizes, items[1].sizes),
        port |-> IF items[1].port = Absent THEN 0 ELSE items[1].port,
        key |-> items[1].private,
        peers |-> [i \in 1..Len(peers) |-> peers[i].key],
        conf |-> [k \in {p.key : p \in ToSet(peers)} |->
                    [Updated(DefaultConf, Of(k)) EXCEPT !.keepalive = Of(k).keepalive]],
        owner |-> [a \in AllowedAddresses |-> OwnerAt(items, a)]]

-----------------------------------------------------------------------------
(* On the wire.  A datagram has a length, and a message header of some type at *)
(* one offset; four bytes read anywhere else match no message type.           *)

MessageDataLen(n) == Sizeof["Data"] + n + AuthTagLen

(* PacketSendHandshake*: PrefixSize is the total less the struct, a USHORT.   *)
HandshakeDatagram(h) ==
    [length |-> sizes[h], at |-> Ushort(sizes[h] - Sizeof[h]), type |-> h]

(* EncryptPacket *)
DataDatagram(n) == [length |-> MessageDataLen(n) + sizes.Data, at |-> sizes.Data, type |-> "Data"]

TypeAt(d, offset) == IF offset = d.at THEN d.type ELSE "other"

(* PrepareNetBufferListHeader, for a datagram in one MDL: the handshake whose  *)
(* total length fits, in order, then data.                                    *)
Order == <<"HandshakeInitiation", "HandshakeResponse", "HandshakeCookie">>

PrepareNetBufferListHeader(d) ==
    LET fitting == {i \in DOMAIN Order : d.length = sizes[Order[i]]}
        first == Order[CHOOSE i \in fitting : \A j \in fitting : i <= j]
    IN IF fitting # {} /\ TypeAt(d, sizes[first] - Sizeof[first]) = first
       THEN first
       ELSE IF d.length >= sizes.Data + MessageDataLen(0) /\ TypeAt(d, sizes.Data) = "Data"
       THEN "Data" ELSE "dropped"

(* SocketSendNblsToPeer, for a batch of one. *)
AllKeepalive(d) == d.length = MessageDataLen(0)

(* SendJunkPackets maps a 16-bit draw into the range with a 32-bit product.   *)
PacketLengthRange == junk.Max - junk.Min + 1
PacketLength(draw) ==
    Ushort(junk.Min + ((draw * PacketLengthRange) % ((MAXUSHORT + 1) * (MAXUSHORT + 1)))
                        \div (MAXUSHORT + 1))

-----------------------------------------------------------------------------
(* No peer has the device's own public key, not even while a request is being *)
(* carried out: SetPrivateKey removes before it sets, SetPeer ignores the key. *)
OwnKeyIsNoPeer == identity \notin ToSet(peerList)

(* AWG_IOCTL_GET and AWG_IOCTL_SET agree: between requests a fresh device that *)
(* is given what Get reports has the same configuration.                       *)
GetRestoresSet ==
    call = ConfigIdle =>
        LET reported == Get(Len(Items)) IN
        /\ reported.success
        /\ Loaded(reported.items) =
              [junk |-> junk, sizes |-> sizes, port |-> incomingPort,
               key |-> IF identity \in PublicKeys THEN identity ELSE Absent,
               peers |-> peerList, conf |-> conf, owner |-> owner]

(* With every configuration that requests can reach, a message sent by a      *)
(* device with the same parameters is classified as what it is, and a junk    *)
(* packet has a length between the two limits.                                *)
MessagesRecognised ==
    /\ \A h \in Handshakes : PrepareNetBufferListHeader(HandshakeDatagram(h)) = h
    /\ \A n \in 0..MaxPlain : PrepareNetBufferListHeader(DataDatagram(n)) = "Data"
    /\ \A draw \in 0..MAXUSHORT : PacketLength(draw) \in junk.Min..junk.Max

(* A batch that is sent counts as keepalives, after which TimersDataSent       *)
(* (timers.c) is not called, exactly when nothing is inside.                   *)
KeepalivesRecognised == \A n \in 0..MaxPlain : AllKeepalive(DataDatagram(n)) <=> n = 0
=============================================================================

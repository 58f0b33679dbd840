------------------------------ MODULE ConfigProofs ------------------------------
(***************************************************************************)
(* The configuration and the sockets, for any requests, addresses, routing  *)
(* tables and senders: a device is never its own peer (OwnKeyIsNoPeer),     *)
(* messages are recognised by their lengths (MessagesRecognised), a packet  *)
(* leaves with a source that fits (SourceFits), and no socket in use is     *)
(* freed (SocketsAlive).                                                    *)
(*                                                                          *)
(* KeyInv follows a request: a key is in the list once, so that removing    *)
(* its peer removes it, and it is gone when SetPrivateKey stores it.        *)
(* ParamInv keeps the parameters valid through every merge. SourceInv says  *)
(* what a sender's copy of the endpoint is worth: if UpdateGeneration did  *)
(* not move, the copy is of the endpoint as it is. SocketInv follows a      *)
(* SocketInit and SocketReinit: which sockets are in place, which are new,  *)
(* which are to be closed, and that a reader's socket is in place or the    *)
(* reader is one RcuSynchronize waits for.                                  *)
(***************************************************************************)
EXTENDS DeviceConfig, Sockets, TLAPS, SequenceTheorems

-----------------------------------------------------------------------------
(* DeviceConfig.  A public key is in the list once, so that removing the    *)
(* peer that has it removes the key.                                        *)
ListOK ==
    /\ peerList \in Seq(PublicKeys)
    /\ \A i, j \in DOMAIN peerList : peerList[i] = peerList[j] => i = j

Places == {"port", "replace", "own", "key", "parameters", "peer", "ips"}

(* A request keeps its peer until the peer's allowed IPs are done. *)
CallOK ==
    \/ call = ConfigIdle
    \/ call \in [at : Places, req : Requests, peer : Nat \ {0}, ip : Nat \ {0}]

(* SetPrivateKey has removed the peer with the new key. *)
OwnInv ==
    /\ identity \notin ToSet(peerList)
    /\ call.at = "key" => call.req.private \notin ToSet(peerList)

KeyInv == ListOK /\ CallOK /\ OwnInv

(* Removing a peer removes its key, and no other. *)
LEMMA RemovedFromList ==
    ASSUME ListOK, NEW k \in ToSet(peerList), PeerRemoval(k)
    PROVE  ListOK' /\ ToSet(peerList)' = ToSet(peerList) \ {k}
<1> DEFINE n == CHOOSE i \in DOMAIN peerList : peerList[i] = k
<1>1. n \in DOMAIN peerList /\ peerList[n] = k
  BY DEF ToSet
<1> HIDE DEF n
<1>2. peerList' = SubSeq(peerList, 1, n - 1) \o SubSeq(peerList, n + 1, Len(peerList))
  BY DEF PeerRemoval, RemoveAt, n
<1>3. /\ peerList' \in Seq(PublicKeys) /\ Len(peerList') = Len(peerList) - 1
      /\ \A i \in 1..(Len(peerList) - 1) :
           peerList'[i] = IF i < n THEN peerList[i] ELSE peerList[i + 1]
  <2>1. n \in 1..Len(peerList) /\ Len(peerList) \in Nat
    BY <1>1 DEF ListOK
  <2>2. /\ SubSeq(peerList, 1, n - 1) \in Seq(PublicKeys)
        /\ Len(SubSeq(peerList, 1, n - 1)) = n - 1
        /\ \A i \in 1..(n - 1) : SubSeq(peerList, 1, n - 1)[i] = peerList[i]
    BY <2>1 DEF ListOK
  <2>3. /\ SubSeq(peerList, n + 1, Len(peerList)) \in Seq(PublicKeys)
        /\ Len(SubSeq(peerList, n + 1, Len(peerList))) = Len(peerList) - n
        /\ \A i \in 1..(Len(peerList) - n) :
             SubSeq(peerList, n + 1, Len(peerList))[i] = peerList[n + i]
    BY <2>1 DEF ListOK
  <2> DEFINE s == SubSeq(peerList, 1, n - 1)
             u == SubSeq(peerList, n + 1, Len(peerList))
  <2>4. /\ s \in Seq(PublicKeys) /\ u \in Seq(PublicKeys) /\ peerList' = s \o u
        /\ Len(s) = n - 1 /\ Len(u) = Len(peerList) - n
        /\ \A i \in 1..(n - 1) : s[i] = peerList[i]
        /\ \A i \in 1..(Len(peerList) - n) : u[i] = peerList[n + i]
    BY <1>2, <2>2, <2>3
  <2> HIDE DEF s, u
  <2>5. /\ peerList' \in Seq(PublicKeys) /\ Len(peerList') = Len(s) + Len(u)
        /\ \A i \in 1..(Len(s) + Len(u)) :
             peerList'[i] = IF i <= Len(s) THEN s[i] ELSE u[i - Len(s)]
    BY <2>4, ConcatProperties
  <2>6. ASSUME NEW i \in 1..(Len(peerList) - 1)
        PROVE  peerList'[i] = IF i < n THEN peerList[i] ELSE peerList[i + 1]
    <3>1. CASE i < n
      BY <2>1, <2>4, <2>5, <3>1
    <3>2. CASE i >= n
      <4>1. i - Len(s) \in 1..(Len(peerList) - n) /\ i + 1 = n + (i - Len(s))
        BY <2>1, <2>4, <3>2
      <4>2. peerList'[i] = u[i - Len(s)]
        BY <2>1, <2>4, <2>5, <3>2
      <4>3. u[i - Len(s)] = peerList[n + (i - Len(s))]
        BY <2>4, <4>1
      <4> QED
        BY <2>1, <3>2, <4>1, <4>2, <4>3
    <3> QED
      BY <2>1, <3>1, <3>2
  <2> QED
    BY <2>1, <2>4, <2>5, <2>6
<1>4. ListOK'
  BY <1>1, <1>3 DEF ListOK
<1>5. ASSUME NEW x PROVE x \in ToSet(peerList)' <=> x \in ToSet(peerList) /\ x # k
  <2>1. x \in ToSet(peerList)' <=> \E i \in 1..(Len(peerList) - 1) : peerList'[i] = x
    BY <1>3 DEF ToSet
  <2>2. x \in ToSet(peerList) <=> \E i \in 1..Len(peerList) : peerList[i] = x
    BY DEF ToSet, ListOK
  <2>3. n \in 1..Len(peerList)
    BY <1>1 DEF ListOK
  <2>4. ASSUME NEW i \in 1..(Len(peerList) - 1), peerList'[i] = x
        PROVE  x \in ToSet(peerList) /\ x # k
    BY <1>1, <1>3, <2>2, <2>3, <2>4 DEF ListOK
  <2>5. ASSUME NEW i \in 1..Len(peerList), peerList[i] = x, x # k
        PROVE  \E j \in 1..(Len(peerList) - 1) : peerList'[j] = x
    <3>1. CASE i < n
      BY <1>3, <2>3, <2>5, <3>1 DEF ListOK
    <3>2. CASE i > n
      <4>1. i - 1 \in 1..(Len(peerList) - 1) /\ peerList'[i - 1] = x
        BY <1>3, <2>3, <2>5, <3>2 DEF ListOK
      <4> QED
        BY <4>1
    <3> QED
      BY <1>1, <2>3, <2>5, <3>1, <3>2
  <2> QED
    BY <2>1, <2>2, <2>4, <2>5
<1> QED
  BY <1>4, <1>5

(* An action that leaves list and key alone and does not reach SetPrivateKey. *)
LEMMA ListUnmoved ==
    ASSUME KeyInv, UNCHANGED <<peerList, identity>>, CallOK',
           call'.at = "key" => call.at = "key" /\ call'.req = call.req
    PROVE  KeyInv'
  BY DEF KeyInv, ListOK, OwnInv, ToSet

(* The next part of a request, ... *)
LEMMA GoesOn ==
    ASSUME CallOK, call # ConfigIdle, NEW at \in Places, GoTo(at)
    PROVE  CallOK' /\ call'.at = at /\ call'.req = call.req
  BY DEF CallOK, GoTo

(* ... the next peer, or the end. *)
LEMMA EndsOrNext ==
    ASSUME CallOK, call # ConfigIdle, NextPeer \/ \E s : Finish(s)
    PROVE  CallOK' /\ call'.at # "key"
<1>1. CASE NextPeer
  <2>1. call \in [at : Places, req : Requests, peer : Nat \ {0}, ip : Nat \ {0}]
    BY DEF CallOK
  <2>2. call' = [at |-> "peer", req |-> call.req, peer |-> call.peer + 1, ip |-> 1]
    BY <1>1, <2>1 DEF NextPeer
  <2> QED
    BY <2>1, <2>2 DEF CallOK, Places
<1>2. CASE \E s : Finish(s)
  BY <1>2 DEF Finish, CallOK, ConfigIdle
<1> QED
  BY <1>1, <1>2

(* KeyInv holds initially, ... *)
LEMMA KeyInvInit == DeviceConfigInit => KeyInv
  BY DEF DeviceConfigInit, KeyInv, ListOK, CallOK, OwnInv, ToSet, ConfigIdle

(* ... and every action preserves it. *)
LEMMA KeyInvNext == KeyInv /\ [DeviceConfigNext]_dcVars => KeyInv'
<1> SUFFICES ASSUME KeyInv, [DeviceConfigNext]_dcVars PROVE KeyInv'
  OBVIOUS
<1>0. ConfigIdle.at = "idle" /\ "idle" \notin Places
  BY DEF ConfigIdle, Places
<1>1. CASE UNCHANGED dcVars
  BY <1>1, ListUnmoved DEF dcVars, KeyInv, CallOK
<1>2. ASSUME NEW r \in Requests, SetInterface(r) PROVE KeyInv'
  <2>1. CallOK' /\ call'.at # "key"
    <3>1. CASE call' = [at |-> "port", req |-> r, peer |-> 1, ip |-> 1]
      BY <3>1 DEF CallOK, Places
    <3>2. CASE call' = ConfigIdle
      BY <1>0, <3>2 DEF CallOK, ConfigIdle
    <3> QED
      BY <1>2, <3>1, <3>2 DEF SetInterface, Finish
  <2> QED
    BY <1>2, <2>1, ListUnmoved DEF SetInterface, SamePeers
<1>3. CASE SetListenPort
  <2>1. call # ConfigIdle
    BY <1>0, <1>3 DEF SetListenPort
  <2>2. CallOK' /\ call'.at # "key"
    BY <1>3, <2>1, GoesOn, EndsOrNext DEF SetListenPort, KeyInv, Places
  <2> QED
    BY <1>3, <2>2, ListUnmoved DEF SetListenPort, SamePeers
<1>4. CASE ReplacePeers
  <2>1. call # ConfigIdle
    BY <1>0, <1>4 DEF ReplacePeers
  <2>2. CallOK' /\ call'.at = "own"
    BY <1>4, <2>1, GoesOn DEF ReplacePeers, KeyInv, Places
  <2>3. CASE call.req.replace
    BY <1>4, <2>2, <2>3 DEF ReplacePeers, PeerRemoveAll, KeyInv, ListOK, OwnInv, ToSet
  <2>4. CASE ~call.req.replace
    BY <1>4, <2>2, <2>4, ListUnmoved DEF ReplacePeers, SamePeers
  <2> QED
    BY <2>3, <2>4
<1>5. CASE RemoveOwnPeer
  <2> DEFINE key == call.req.private
  <2>1. call # ConfigIdle
    BY <1>0, <1>5 DEF RemoveOwnPeer
  <2>2. CallOK' /\ call'.at = "key" /\ call'.req = call.req
    BY <1>5, <2>1, GoesOn DEF RemoveOwnPeer, KeyInv, Places
  <2>3. CASE key # identity /\ key \in ToSet(peerList)
    <3>1. ListOK' /\ ToSet(peerList)' = ToSet(peerList) \ {key}
      BY <1>5, <2>3, RemovedFromList DEF RemoveOwnPeer, KeyInv
    <3> QED
      BY <1>5, <2>2, <3>1 DEF RemoveOwnPeer, KeyInv, OwnInv
  <2>4. CASE ~(key # identity /\ key \in ToSet(peerList))
    BY <1>5, <2>2, <2>4 DEF RemoveOwnPeer, KeyInv, OwnInv, SamePeers, ListOK, ToSet
  <2> QED
    BY <2>3, <2>4
<1>6. CASE SetPrivateKey
  <2>1. call # ConfigIdle
    BY <1>0, <1>6 DEF SetPrivateKey
  <2>2. CallOK' /\ call'.at = "parameters"
    BY <1>6, <2>1, GoesOn DEF SetPrivateKey, KeyInv, Places
  <2> QED
    BY <1>6, <2>2 DEF SetPrivateKey, KeyInv, OwnInv, SamePeers, ListOK, ToSet
<1>7. CASE SetParameters
  <2>1. call # ConfigIdle
    BY <1>0, <1>7 DEF SetParameters
  <2>2. CallOK' /\ call'.at # "key"
    BY <1>7, <2>1, GoesOn DEF SetParameters, KeyInv, Places
  <2> QED
    BY <1>7, <2>2, ListUnmoved DEF SetParameters, SamePeers
<1>8. CASE NoMorePeers \/ RefusePeer \/ SkipPeer \/ CannotAddPeer
  <2>1. call # ConfigIdle
    BY <1>0, <1>8 DEF NoMorePeers, RefusePeer, SkipPeer, CannotAddPeer, AcceptedPeer, MorePeers
  <2>2. CallOK' /\ call'.at # "key"
    BY <1>8, <2>1, EndsOrNext
       DEF NoMorePeers, RefusePeer, SkipPeer, CannotAddPeer, KeyInv
  <2> QED
    BY <1>8, <2>2, ListUnmoved
       DEF NoMorePeers, RefusePeer, SkipPeer, CannotAddPeer, SamePeers
<1>9. CASE AddPeer
  <2> DEFINE key == ThisPeer.key
  <2>1. call # ConfigIdle
    BY <1>0, <1>9 DEF AddPeer, AcceptedPeer, MorePeers
  <2>2. CallOK' /\ call'.at = "ips"
    BY <1>9, <2>1, GoesOn DEF AddPeer, KeyInv, Places
  <2>3. key \in PublicKeys
    <3>1. call.req \in Requests /\ call.peer \in DOMAIN call.req.peers
      BY <1>9, <2>1, ConfigAssumption DEF AddPeer, AcceptedPeer, MorePeers, KeyInv, CallOK
    <3> QED
      BY <1>9, <3>1, ConfigAssumption DEF AddPeer, AcceptedPeer, ThisPeer
  <2>4. key \notin ToSet(peerList) /\ key # identity
    BY <1>9 DEF AddPeer, Known, Skipped
  <2>5. peerList' = Append(peerList, key) /\ identity' = identity
    BY <1>9 DEF AddPeer, PeerCreate
  <2> HIDE DEF key
  <2>6. ListOK'
    BY <2>3, <2>4, <2>5 DEF KeyInv, ListOK, ToSet
  <2>7. identity' \notin ToSet(peerList)'
    BY <2>3, <2>4, <2>5 DEF KeyInv, ListOK, OwnInv, ToSet
  <2> QED
    BY <2>2, <2>6, <2>7 DEF KeyInv, OwnInv
<1>10. CASE DropPeer
  <2>1. call # ConfigIdle
    BY <1>0, <1>10 DEF DropPeer, AcceptedPeer, MorePeers
  <2>2. CallOK' /\ call'.at # "key"
    BY <1>10, <2>1, EndsOrNext DEF DropPeer, KeyInv
  <2>3. ListOK' /\ ToSet(peerList)' = ToSet(peerList) \ {ThisPeer.key}
    BY <1>10, RemovedFromList DEF DropPeer, Known, KeyInv
  <2> QED
    BY <1>10, <2>2, <2>3 DEF DropPeer, KeyInv, OwnInv
<1>11. CASE UpdatePeer
  <2>1. call # ConfigIdle
    BY <1>0, <1>11 DEF UpdatePeer, AcceptedPeer, MorePeers
  <2>2. CallOK' /\ call'.at # "key"
    BY <1>11, <2>1, GoesOn DEF UpdatePeer, KeyInv, Places
  <2> QED
    BY <1>11, <2>2, ListUnmoved DEF UpdatePeer
<1>12. CASE SetAllowedIp
  <2>1. call # ConfigIdle
    BY <1>0, <1>12 DEF SetAllowedIp
  <2>2. CallOK' /\ call'.at # "key"
    <3>1. CASE call' = [call EXCEPT !.ip = @ + 1]
      <4>1. call \in [at : Places, req : Requests, peer : Nat \ {0}, ip : Nat \ {0}]
        BY <2>1 DEF KeyInv, CallOK
      <4>2. call' \in [at : Places, req : Requests, peer : Nat \ {0}, ip : Nat \ {0}]
        BY <3>1, <4>1
      <4>3. call'.at = call.at
        BY <3>1, <4>1
      <4> QED
        BY <1>12, <4>2, <4>3 DEF SetAllowedIp, CallOK
    <3>2. CASE Finish("allowed IP refused")
      BY <2>1, <3>2, EndsOrNext DEF KeyInv
    <3> QED
      BY <1>12, <3>1, <3>2 DEF SetAllowedIp
  <2> QED
    BY <1>12, <2>2, ListUnmoved DEF SetAllowedIp
<1>13. CASE EndPeer
  <2>1. call # ConfigIdle
    BY <1>0, <1>13 DEF EndPeer
  <2>2. CallOK' /\ call'.at # "key"
    BY <1>13, <2>1, EndsOrNext DEF EndPeer, KeyInv
  <2> QED
    BY <1>13, <2>2, ListUnmoved DEF EndPeer
<1>14. CASE DeviceUp \/ DeviceDown
  <2>1. CallOK' /\ call' = call
    BY <1>14 DEF DeviceUp, DeviceDown, KeyInv, CallOK
  <2> QED
    BY <1>14, <2>1, ListUnmoved DEF DeviceUp, DeviceDown, SamePeers
<1> QED
  BY <1>1, <1>2, <1>3, <1>4, <1>5, <1>6, <1>7, <1>8, <1>9, <1>10, <1>11, <1>12, <1>13, <1>14
     DEF DeviceConfigNext

(* However requests change key and peers, the device is not a peer of its own,
   not even while a request is being carried out (ioctl.c: SetPrivateKey removes
   before it sets, SetPeer ignores the key).                                 *)
THEOREM DeviceIsNoPeer == DeviceConfigSpec => []OwnKeyIsNoPeer
<1>1. KeyInv => OwnKeyIsNoPeer
  BY DEF KeyInv, OwnInv, OwnKeyIsNoPeer
<1> QED
  BY <1>1, KeyInvInit, KeyInvNext, PTL DEF DeviceConfigSpec

-----------------------------------------------------------------------------
(* The parameters.  A request that is being carried out was found valid with *)
(* the parameters as they still are, since it holds DeviceUpdateLock.        *)
JunkFields == {"Count", "Min", "Max"}
SizeFields == Handshakes \cup {"Data"}

ParametersOK(j, s) ==
    /\ j \in [JunkFields -> 0..MAXUSHORT] /\ ValidateJunkPackets(j)
    /\ s \in [SizeFields -> 0..MAXUSHORT] /\ ValidatePrefixSizes(s)

ParamInv ==
    /\ CallOK /\ ParametersOK(junk, sizes)
    /\ call.at \in {"port", "replace", "own", "key", "parameters"} => ValidRequest(call.req)

(* A sum that fits a USHORT stays what it is. *)
LEMMA UshortRange ==
    ASSUME NEW n \in Nat
    PROVE  Ushort(n) \in 0..MAXUSHORT /\ (n <= MAXUSHORT => Ushort(n) = n)
  BY ConfigAssumption DEF Ushort

(* What a valid request makes of valid parameters is valid. *)
LEMMA MergedParameters ==
    ASSUME ParametersOK(junk, sizes), NEW r \in Requests, ValidRequest(r)
    PROVE  ParametersOK(MergeJunkPackets(junk, r.junk), MergePrefixSizes(sizes, r.sizes))
<1> DEFINE j == MergeJunkPackets(junk, r.junk)
           s == MergePrefixSizes(sizes, r.sizes)
<1>1. /\ r.junk \in [JunkFields -> 0..MAXUSHORT \cup {Absent}]
      /\ r.sizes \in [SizeFields -> 0..MAXUSHORT \cup {Absent}]
      /\ MAXUSHORT \in Nat /\ Sizeof \in [SizeFields -> 0..MAXUSHORT]
  BY ConfigAssumption DEF JunkFields, SizeFields
<1>2. /\ junk \in [JunkFields -> 0..MAXUSHORT] /\ ValidateJunkPackets(junk)
      /\ sizes \in [SizeFields -> 0..MAXUSHORT] /\ ValidatePrefixSizes(sizes)
  BY DEF ParametersOK
<1>3. j \in [JunkFields -> 0..MAXUSHORT]
  BY <1>1, <1>2 DEF MergeJunkPackets
<1>4. ASSUME NEW f \in SizeFields
      PROVE  (IF r.sizes[f] = Absent THEN sizes[f]
              ELSE IF f = "Data" THEN r.sizes[f]
              ELSE Ushort(r.sizes[f] + Sizeof[f])) \in 0..MAXUSHORT
  <2>1. r.sizes[f] # Absent => Ushort(r.sizes[f] + Sizeof[f]) \in 0..MAXUSHORT
    <3>1. r.sizes[f] # Absent => r.sizes[f] + Sizeof[f] \in Nat
      BY <1>1
    <3> QED
      BY <3>1, UshortRange
  <2> QED
    BY <1>1, <1>2, <2>1
<1>5. s \in [SizeFields -> 0..MAXUSHORT]
  BY <1>2, <1>4 DEF MergePrefixSizes
<1>6. ValidateJunkPackets(j)
  <2>1. CASE \A f \in JunkFields : r.junk[f] = Absent
    <3>1. j = [f \in JunkFields |-> junk[f]]
      BY <1>2, <2>1 DEF MergeJunkPackets
    <3> QED
      BY <1>2, <3>1
  <2>2. CASE \E f \in DOMAIN r.junk : r.junk[f] # Absent
    BY <2>2 DEF ValidRequest
  <2> QED
    BY <1>1, <2>1, <2>2
<1>7. ValidatePrefixSizes(s)
  <2>1. CASE \A f \in SizeFields : r.sizes[f] = Absent
    <3>1. s = [f \in SizeFields |-> sizes[f]]
      BY <1>2, <2>1 DEF MergePrefixSizes
    <3> QED
      BY <1>2, <3>1
  <2>2. CASE \E f \in DOMAIN r.sizes : r.sizes[f] # Absent
    BY <2>2 DEF ValidRequest
  <2> QED
    BY <1>1, <2>1, <2>2
<1> QED
  BY <1>3, <1>5, <1>6, <1>7 DEF ParametersOK

(* ParamInv holds initially, ... *)
LEMMA ParamInvInit == DeviceConfigInit => ParamInv
<1> SUFFICES ASSUME DeviceConfigInit PROVE ParamInv
  OBVIOUS
<1>1. junk = [Count |-> 0, Min |-> 0, Max |-> 0] /\ 0 \in 0..MAXUSHORT
  BY ConfigAssumption DEF DeviceConfigInit, FreshJunk
<1>2. junk \in [JunkFields -> 0..MAXUSHORT] /\ ValidateJunkPackets(junk)
  BY <1>1, ConfigAssumption DEF JunkFields, ValidateJunkPackets
<1>3. sizes \in [SizeFields -> 0..MAXUSHORT] /\ ValidatePrefixSizes(sizes)
  BY <1>1, ConfigAssumption
     DEF DeviceConfigInit, FreshSizes, SizeFields, ValidatePrefixSizes, Handshakes
<1>4. call.at = "idle" /\ call = ConfigIdle
  BY DEF DeviceConfigInit, ConfigIdle
<1> QED
  BY <1>2, <1>3, <1>4 DEF ParamInv, ParametersOK, CallOK

Validated == {"port", "replace", "own", "key", "parameters"}

(* An action that leaves the parameters alone and keeps the request. *)
LEMMA ParametersUnmoved ==
    ASSUME ParamInv, UNCHANGED <<junk, sizes>>, CallOK',
           call'.at \in Validated => call.at \in Validated /\ call'.req = call.req
    PROVE  ParamInv'
  BY SMTT(30) DEF ParamInv, ParametersOK, ValidateJunkPackets, ValidatePrefixSizes, ValidRequest,
         MergeJunkPackets, MergePrefixSizes, Validated

(* ... and every action preserves it. *)
LEMMA ParamInvNext ==
    ASSUME KeyInv, ParamInv, [DeviceConfigNext]_dcVars
    PROVE  ParamInv'
<1>0. CallOK' /\ ConfigIdle.at = "idle" /\ "idle" \notin Validated \cup Places
  BY KeyInvNext DEF KeyInv, ConfigIdle, Places, Validated
<1>1. CASE UNCHANGED dcVars
  BY <1>0, <1>1, ParametersUnmoved DEF dcVars
<1>2. ASSUME NEW r \in Requests, SetInterface(r) PROVE ParamInv'
  <2>1. CASE ValidRequest(r)
    <3>1. call'.req = r /\ UNCHANGED <<junk, sizes>>
      BY <1>2, <2>1 DEF SetInterface
    <3>2. ValidRequest(r)'
      BY <2>1, <3>1 DEF ValidRequest, MergeJunkPackets, MergePrefixSizes,
                        ValidateJunkPackets, ValidatePrefixSizes
    <3>3. ValidRequest(call.req)'
      BY <3>1, <3>2
    <3> QED
      BY <1>0, <3>1, <3>3 DEF ParamInv
  <2>2. CASE ~ValidRequest(r)
    <3>1. call'.at \notin Validated /\ UNCHANGED <<junk, sizes>>
      BY <1>0, <1>2, <2>2 DEF SetInterface, Finish
    <3> QED
      BY <1>0, <3>1, ParametersUnmoved
  <2> QED
    BY <2>1, <2>2
<1>3. CASE SetListenPort \/ ReplacePeers \/ RemoveOwnPeer \/ SetPrivateKey
  <2>1. call.at \in Validated /\ call # ConfigIdle /\ UNCHANGED <<junk, sizes>>
    BY <1>0, <1>3 DEF SetListenPort, ReplacePeers, RemoveOwnPeer, SetPrivateKey, Validated
  <2>2. \/ \E at \in Places : GoTo(at)
        \/ \E s : Finish(s)
    BY <1>3 DEF SetListenPort, ReplacePeers, RemoveOwnPeer, SetPrivateKey, Places
  <2>3. call'.at \in Validated => call'.req = call.req
    BY <1>0, <2>1, <2>2, GoesOn DEF ParamInv, Finish
  <2> QED
    BY <1>0, <2>1, <2>3, ParametersUnmoved
<1>4. CASE SetParameters
  <2>1. call.req \in Requests /\ ValidRequest(call.req)
    BY <1>0, <1>4 DEF SetParameters, ParamInv, CallOK
  <2>2. ParametersOK(junk', sizes')
    BY <1>4, <2>1, MergedParameters DEF SetParameters, ParamInv
  <2>3. call'.at \notin Validated
    BY <1>0, <1>4, GoesOn DEF SetParameters, ParamInv, Places, Validated
  <2> QED
    BY <1>0, <2>2, <2>3 DEF ParamInv, Validated, ParametersOK
<1>5. CASE \/ NoMorePeers \/ RefusePeer \/ SkipPeer \/ AddPeer \/ CannotAddPeer \/ DropPeer
           \/ UpdatePeer \/ SetAllowedIp \/ EndPeer
  <2>1. call.at \in {"peer", "ips"} /\ call # ConfigIdle /\ UNCHANGED <<junk, sizes>>
    BY <1>0, <1>5
       DEF NoMorePeers, RefusePeer, SkipPeer, AddPeer, CannotAddPeer, DropPeer, UpdatePeer,
           SetAllowedIp, EndPeer, AcceptedPeer, MorePeers
  <2>2. \/ GoTo("ips") \/ NextPeer \/ \E s : Finish(s)
        \/ call' = [call EXCEPT !.ip = @ + 1]
    BY <1>5
       DEF NoMorePeers, RefusePeer, SkipPeer, AddPeer, CannotAddPeer, DropPeer, UpdatePeer,
           SetAllowedIp, EndPeer
  <2>3. GoTo("ips") => call'.at = "ips"
    BY <2>1, GoesOn DEF ParamInv, Places
  <2>4. NextPeer => call'.at = "peer"
    BY <2>1 DEF NextPeer, ParamInv, CallOK
  <2>5. call' = [call EXCEPT !.ip = @ + 1] => call'.at = call.at
    BY <2>1 DEF ParamInv, CallOK
  <2>6. call'.at \notin Validated
    BY <1>0, <2>1, <2>2, <2>3, <2>4, <2>5 DEF Finish, Validated
  <2> QED
    BY <1>0, <2>1, <2>6, ParametersUnmoved
<1>6. CASE DeviceUp \/ DeviceDown
  BY <1>0, <1>6, ParametersUnmoved DEF DeviceUp, DeviceDown
<1> QED
  BY <1>1, <1>2, <1>3, <1>4, <1>5, <1>6 DEF DeviceConfigNext

(* A handshake message is found where its total length says that it is. *)
LEMMA HandshakeRecognised ==
    ASSUME ParametersOK(junk, sizes), NEW h \in Handshakes
    PROVE  PrepareNetBufferListHeader(HandshakeDatagram(h)) = h
<1> DEFINE d == HandshakeDatagram(h)
           fitting == {i \in DOMAIN Order : d.length = sizes[Order[i]]}
           n == CHOOSE i \in fitting : \A j \in fitting : i <= j
<1>1. DOMAIN Order = 1..3 /\ \A i \in 1..3 : Order[i] \in Handshakes
  BY DEF Order, Handshakes
<1>2. PICK m \in 1..3 : Order[m] = h
  <2>1. \/ h = Order[1] \/ h = Order[2] \/ h = Order[3]
    BY DEF Order, Handshakes
  <2> QED
    BY <2>1
<1>3. \A i, j \in 1..3 : Order[i] = Order[j] => i = j
  BY DEF Order
<1>4. \A g \in Handshakes : g # h => sizes[g] # sizes[h]
  BY DEF ParametersOK, ValidatePrefixSizes
<1>5. d.length = sizes[h] /\ d.at = Ushort(sizes[h] - Sizeof[h]) /\ d.type = h
  BY DEF HandshakeDatagram
<1> HIDE DEF d
<1>6. fitting = {m}
  <2>1. \A i \in 1..3 : d.length = sizes[Order[i]] <=> i = m
    BY <1>1, <1>2, <1>3, <1>4, <1>5
  <2> QED
    BY <1>1, <2>1
<1>7. n = m
  BY <1>6
<1>8. Ushort(sizes[h] - Sizeof[h]) = sizes[h] - Sizeof[h]
  <2>1. /\ sizes[h] \in 0..MAXUSHORT /\ Sizeof[h] \in 0..MAXUSHORT /\ MAXUSHORT \in Nat
        /\ sizes[h] >= Sizeof[h]
    BY ConfigAssumption DEF ParametersOK, ValidatePrefixSizes, SizeFields
  <2>2. sizes[h] - Sizeof[h] \in Nat /\ sizes[h] - Sizeof[h] <= MAXUSHORT
    BY <2>1
  <2> QED
    BY <2>2, UshortRange
<1>9. Order[n] = h /\ fitting # {} /\ TypeAt(d, sizes[Order[n]] - Sizeof[Order[n]]) = h
  BY <1>2, <1>5, <1>6, <1>7, <1>8 DEF TypeAt
<1> HIDE DEF fitting, n
<1>10. PrepareNetBufferListHeader(d) =
         IF fitting # {} /\ TypeAt(d, sizes[Order[n]] - Sizeof[Order[n]]) = Order[n]
         THEN Order[n]
         ELSE IF d.length >= sizes.Data + MessageDataLen(0) /\ TypeAt(d, sizes.Data) = "Data"
         THEN "Data" ELSE "dropped"
  BY DEF PrepareNetBufferListHeader, fitting, n
<1> QED
  BY <1>9, <1>10 DEF d

(* A data packet, which may be as long as any message, is told by its type. *)
LEMMA DataRecognised ==
    ASSUME ParametersOK(junk, sizes), NEW n \in 0..MaxPlain
    PROVE  PrepareNetBufferListHeader(DataDatagram(n)) = "Data"
<1> DEFINE d == DataDatagram(n)
           fitting == {i \in DOMAIN Order : d.length = sizes[Order[i]]}
           first == Order[CHOOSE i \in fitting : \A j \in fitting : i <= j]
<1>1. /\ sizes.Data \in Nat /\ Sizeof["Data"] \in Nat /\ AuthTagLen \in Nat /\ n \in Nat
  BY ConfigAssumption DEF ParametersOK, SizeFields
<1>2. /\ d.length = Sizeof["Data"] + n + AuthTagLen + sizes.Data
      /\ d.at = sizes.Data /\ d.type = "Data"
  BY DEF DataDatagram, MessageDataLen
<1>3. /\ d.length >= sizes.Data + MessageDataLen(0)
      /\ TypeAt(d, sizes.Data) = "Data"
  BY <1>1, <1>2 DEF MessageDataLen, TypeAt
<1> HIDE DEF d
<1>4. fitting # {} => TypeAt(d, sizes[first] - Sizeof[first]) # first
  <2>1. fitting # {} => first \in Handshakes
    <3>1. fitting \subseteq 1..3 /\ \A i \in 1..3 : Order[i] \in Handshakes
      BY DEF Order, Handshakes
    <3>2. ASSUME NEW i \in fitting
          PROVE  \E k \in fitting : \A j \in fitting : k <= j
      BY <3>1
    <3> HIDE DEF fitting
    <3> QED
      BY <3>1, <3>2
  <2>2. TypeAt(d, sizes[first] - Sizeof[first]) \in {"Data", "other"}
    BY <1>2 DEF TypeAt
  <2> QED
    BY <2>1, <2>2 DEF Handshakes
<1> HIDE DEF fitting, first
<1>5. PrepareNetBufferListHeader(d) =
         IF fitting # {} /\ TypeAt(d, sizes[first] - Sizeof[first]) = first
         THEN first
         ELSE IF d.length >= sizes.Data + MessageDataLen(0) /\ TypeAt(d, sizes.Data) = "Data"
         THEN "Data" ELSE "dropped"
  BY DEF PrepareNetBufferListHeader, fitting, first
<1> QED
  BY <1>3, <1>4, <1>5 DEF d

(* The 32-bit product of a draw and the range has room. *)
LEMMA JunkFits ==
    ASSUME ParametersOK(junk, sizes), NEW draw \in 0..MAXUSHORT
    PROVE  PacketLength(draw) \in junk.Min..junk.Max
<1> DEFINE K == MAXUSHORT + 1
           r == PacketLengthRange
<1>1. /\ K \in Nat \ {0} /\ draw \in 0..(K - 1)
      /\ junk.Min \in 0..(K - 1) /\ junk.Max \in 0..(K - 1) /\ junk.Min <= junk.Max
  BY ConfigAssumption DEF ParametersOK, ValidateJunkPackets, JunkFields
<1>2. r = junk.Max - junk.Min + 1 /\ r \in 1..K
  BY <1>1 DEF PacketLengthRange
<1>3. PacketLength(draw) = Ushort(junk.Min + ((draw * r) % (K * K)) \div K)
  BY DEF PacketLength
<1> HIDE DEF K, r
<1>4. draw * r \in Nat /\ draw * r < K * r /\ draw * r < K * K
  BY <1>1, <1>2
<1>5. (draw * r) % (K * K) = draw * r
  BY <1>1, <1>4
<1>6. (draw * r) \div K \in Nat /\ (draw * r) \div K < r
  BY <1>1, <1>2, <1>4
<1>7. junk.Min + (draw * r) \div K \in junk.Min..junk.Max
  BY <1>1, <1>2, <1>6
<1>8. Ushort(junk.Min + (draw * r) \div K) = junk.Min + (draw * r) \div K
  <2>1. junk.Min + (draw * r) \div K \in Nat /\ junk.Min + (draw * r) \div K <= MAXUSHORT
    BY <1>1, <1>7, ConfigAssumption DEF K
  <2> QED
    BY <2>1, UshortRange
<1> QED
  BY <1>3, <1>5, <1>7, <1>8

(* Whatever requests a device was given and the lengths that were configured,
   sums that wrap included, a message that a device with the same parameters
   sends is taken for what it is, and junk keeps to its limits (ioctl.c:
   SetInterface validates what it has merged, and SetPrivateKey and the rest
   of the request run under the same lock).                                  *)
THEOREM MessagesAreRecognised == DeviceConfigSpec => []MessagesRecognised
<1>1. ParamInv => MessagesRecognised
  BY HandshakeRecognised, DataRecognised, JunkFits DEF ParamInv, MessagesRecognised
<1> QED
  BY <1>1, KeyInvInit, KeyInvNext, ParamInvInit, ParamInvNext, PTL DEF DeviceConfigSpec

-----------------------------------------------------------------------------
(* Sockets: where a packet's source comes from.                             *)
Addresses == RemoteAddresses \cup {a.from : a \in Arrivals} \cup {0}

SendPlaces == {"rest", "reading", "lookup", "store", "again", "sending"}
PacketPlaces == {"rest", "held", "move", "replying", "reply", "done"}

EndpointOK ==
    /\ endpoint \in [addr : Addresses, src : Nat, for : Addresses, routing : Nat,
                     update : Nat, kept : BOOLEAN]
    /\ generation \in [Families -> Nat] /\ table \in [Families -> Nat]
    /\ \A f \in Families : table[f] \in DOMAIN Tables[f]

SendersOK ==
    /\ sending \in [Senders -> [at : SendPlaces, addr : Addresses, update : Nat, best : Nat,
                                sock : Sockets \cup {NoSocket}]]
    /\ packet \in [at : PacketPlaces, from : Addresses, via : Nat,
                   sock : Sockets \cup {NoSocket}, out : Sockets \cup {NoSocket}]
    /\ packet.at # "rest" => packet.from # 0 /\ packet.via # 0

(* What is asked of a packet that leaves. *)
Fits ==
    /\ endpoint.addr # 0
    /\ endpoint.kept \/ (endpoint.for = endpoint.addr /\ endpoint.src # 0)

(* An endpoint's source is none, or was found for its address, unless it was
   kept. *)
EndpointInv ==
    /\ endpoint.src # Own
    /\ endpoint.for = 0 => endpoint.src = 0
    /\ endpoint.kept \/ endpoint.for \in {0, endpoint.addr}

(* A copy is of the endpoint as it is, unless a later update says otherwise. *)
CopyInv(c) ==
    /\ c.at \in {"reading", "sending"} => Fits
    /\ c.at \in {"lookup", "store"} =>
         /\ c.addr # 0 /\ c.update <= endpoint.update
         /\ c.update = endpoint.update => c.addr = endpoint.addr
    /\ c.at = "store" => c.best \notin {0, Own}
    /\ c.at = "again" => /\ c.update <= endpoint.update
                         /\ c.update = endpoint.update => Fits

SourceInv ==
    /\ EndpointOK /\ SendersOK /\ EndpointInv
    /\ \A s \in Senders : CopyInv(sending[s])

(* Every address has a family, ... *)
LEMMA AddressFamily == \A a \in Addresses : a # 0 => Family[a] \in Families
  BY SocketsAssumption DEF Addresses

(* ... and its best route does not lead into the tunnel. *)
LEMMA BestIsNotOwn ==
    ASSUME SourceInv, NEW addr \in Addresses, addr # 0,
           NEW best \in BestRoute(Routes(addr), addr)
    PROVE  best \in Nat /\ best # Own
<1>1. \A i \in DOMAIN Routes(addr) : Routes(addr)[i].index \in Nat
  <2>1. Family[addr] \in Families
    BY AddressFamily
  <2> QED
    BY <2>1, SocketsAssumption DEF Routes, SourceInv, EndpointOK
<1> QED
  BY <1>1 DEF BestRoute, Candidate

(* A sender that moves on without touching the endpoint. *)
LEMMA SenderMoves ==
    ASSUME SourceInv, NEW s \in Senders, NEW to, Move(s, to), UNCHANGED packet,
           UNCHANGED <<endpoint, table, generation>>, CopyInv(to),
           to \in [at : SendPlaces, addr : Addresses, update : Nat, best : Nat,
                   sock : Sockets \cup {NoSocket}]
    PROVE  SourceInv'
<1>1. sending'[s] = to /\ \A t \in Senders \ {s} : sending'[t] = sending[t]
  BY DEF Move, SourceInv, SendersOK
<1>2. \A t \in Senders : CopyInv(sending'[t])
  BY <1>1 DEF SourceInv
<1>3. SendersOK'
  BY DEF SourceInv, SendersOK, Move
<1> QED
  BY <1>2, <1>3 DEF SourceInv, EndpointOK, EndpointInv, CopyInv, Fits

(* A sender at rest has no copy. *)
LEMMA AtRestIsOK ==
    /\ CopyInv(AtRest)
    /\ AtRest \in [at : SendPlaces, addr : Addresses, update : Nat, best : Nat,
                    sock : Sockets \cup {NoSocket}]
  BY DEF CopyInv, AtRest, SendPlaces, Addresses

(* A sender checks the source it finds. *)
LEMMA SourceIsChecked ==
    ASSUME SourceInv, NEW s \in Senders, CheckSource(s), UNCHANGED packet,
           UNCHANGED <<endpoint, table, generation>>
    PROVE  SourceInv'
<1>1. CASE endpoint.addr = 0
  BY <1>1, AtRestIsOK, SenderMoves DEF CheckSource
<1>2. CASE endpoint.addr # 0
  <2>1. PICK index \in SourceIndex :
          Move(s, IF Resolved(index) THEN [AtRest EXCEPT !.at = "reading"]
                  ELSE [at |-> "lookup", addr |-> endpoint.addr, update |-> endpoint.update,
                        best |-> 0, sock |-> NoSocket])
    BY <1>2 DEF CheckSource
  <2>2. CASE Resolved(index)
    <3>1. Fits
      BY <1>2, <2>1, <2>2 DEF SourceInv, EndpointInv, Fits, Resolved, SourceIndex
    <3>2. /\ CopyInv([AtRest EXCEPT !.at = "reading"])
          /\ [AtRest EXCEPT !.at = "reading"] \in
                [at : SendPlaces, addr : Addresses, update : Nat, best : Nat,
                 sock : Sockets \cup {NoSocket}]
      BY <3>1 DEF CopyInv, AtRest, SendPlaces, Addresses
    <3> QED
      BY <2>1, <2>2, <3>2, SenderMoves
  <2>3. CASE ~Resolved(index)
    <3> DEFINE to == [at |-> "lookup", addr |-> endpoint.addr, update |-> endpoint.update,
                      best |-> 0, sock |-> NoSocket]
    <3>1. endpoint.addr \in Addresses /\ endpoint.update \in Nat
      BY DEF SourceInv, EndpointOK
    <3>3. /\ to \in [at : SendPlaces, addr : Addresses, update : Nat, best : Nat,
                      sock : Sockets \cup {NoSocket}]
          /\ CopyInv(to)
      BY <1>2, <3>1 DEF CopyInv, SendPlaces
    <3> QED
      BY <2>1, <2>3, <3>3, SenderMoves
  <2> QED
    BY <2>2, <2>3
<1> QED
  BY <1>1, <1>2

(* Whoever changes the endpoint holds EndpointLock alone and counts the update. *)
LEMMA EndpointMoves ==
    ASSUME SourceInv, Sharing = {}, UNCHANGED <<table, generation>>,
           SendersOK', EndpointOK', EndpointInv', endpoint'.update = endpoint.update + 1,
           NEW movers, \A t \in Senders \ movers : sending'[t] = sending[t],
           \A t \in movers \cap Senders : CopyInv(sending[t])'
    PROVE  SourceInv'
<1>1. ASSUME NEW t \in Senders \ movers PROVE CopyInv(sending[t])'
  <2>1. sending[t].at \notin {"reading", "sending"}
    BY DEF Sharing
  <2>2. /\ sending'[t] = sending[t] /\ sending[t].update \in Nat
        /\ endpoint.update \in Nat /\ CopyInv(sending[t])
    BY DEF SourceInv, SendersOK, EndpointOK
  <2> QED
    BY <2>1, <2>2 DEF CopyInv
<1> QED
  BY <1>1 DEF SourceInv

(* SourceInv holds initially. *)
LEMMA SourceInvInit == SocketsInit => SourceInv
<1> SUFFICES ASSUME SocketsInit PROVE SourceInv
  OBVIOUS
<1>1. EndpointOK /\ EndpointInv
  BY SocketsAssumption DEF SocketsInit, EndpointOK, EndpointInv, Addresses, Families
<1>2. SendersOK
  BY SocketsAssumption DEF SocketsInit, SendersOK, AtRest, NoPacket, SendPlaces, PacketPlaces,
                           Addresses, Families
<1>3. \A s \in Senders : CopyInv(sending[s])
  BY AtRestIsOK DEF SocketsInit
<1> QED
  BY <1>1, <1>2, <1>3 DEF SourceInv

(* SocketSetPeerEndpoint, from a packet or a request. *)
LEMMA PeerEndpointSet ==
    ASSUME SourceInv, Sharing = {}, UNCHANGED <<table, generation, sending>>, SendersOK',
           NEW addr \in Addresses \ {0}, NEW via \in Nat, NEW routing \in Nat,
           SocketSetPeerEndpoint(addr, via, routing)
    PROVE  SourceInv'
<1> DEFINE next == endpoint.update + 1
<1>1. /\ endpoint.update \in Nat /\ endpoint.src \in Nat /\ endpoint.for \in Addresses
      /\ endpoint.src # Own /\ (endpoint.for = 0 => endpoint.src = 0)
  BY DEF SourceInv, EndpointOK, EndpointInv
<1>2. next \in Nat
  BY <1>1
<1>3. endpoint' = [addr |-> addr, src |-> IF via = Own THEN endpoint.src ELSE via,
                   for |-> IF via = Own THEN endpoint.for ELSE addr,
                   routing |-> routing, update |-> next, kept |-> (via = Own)]
  BY DEF SocketSetPeerEndpoint
<1> HIDE DEF next
<1>4. endpoint' \in [addr : Addresses, src : Nat, for : Addresses, routing : Nat,
                     update : Nat, kept : BOOLEAN]
  BY <1>1, <1>2, <1>3
<1>5. EndpointOK'
  BY <1>4 DEF SourceInv, EndpointOK
<1>6. EndpointInv'
  BY <1>1, <1>3 DEF EndpointInv
<1>7. endpoint'.update = endpoint.update + 1
  BY <1>3 DEF next
<1> QED
  BY <1>5, <1>6, <1>7, EndpointMoves

(* Neither endpoint nor senders. *)
LEMMA SourceUnmoved ==
    ASSUME SourceInv, UNCHANGED <<endpoint, generation, table, sending>>,
           SendersOK'
    PROVE  SourceInv'
  BY DEF SourceInv, EndpointOK, EndpointInv, CopyInv, Fits

InstalledOK == installed \in [Families -> Sockets \cup {NoSocket}]

(* Every action preserves SourceInv. *)
LEMMA SourceInvNext ==
    ASSUME SourceInv, InstalledOK, [SocketsNext]_skVars
    PROVE  SourceInv'
<1> DEFINE Copies == [at : SendPlaces, addr : Addresses, update : Nat, best : Nat,
                      sock : Sockets \cup {NoSocket}]
<1>0. \A s \in Senders : sending[s] \in Copies
  BY DEF SourceInv, SendersOK
<1>1. CASE UNCHANGED skVars
  BY <1>1, SourceUnmoved DEF skVars, SourceInv, SendersOK
<1>2. ASSUME NEW f \in Families, RouteChange(f) \/ RouteNotification(f) PROVE SourceInv'
  <2>1. EndpointOK'
    <3>1. CASE RouteChange(f)
      <4>1. table[f] \in Nat /\ table[f] + 1 \in DOMAIN Tables[f]
        BY <3>1, SocketsAssumption DEF RouteChange, SourceInv, EndpointOK
      <4> QED
        BY <3>1, <4>1 DEF RouteChange, SourceInv, EndpointOK
    <3>2. CASE RouteNotification(f)
      BY <3>2 DEF RouteNotification, SourceInv, EndpointOK
    <3> QED
      BY <1>2, <3>1, <3>2
  <2> QED
    BY <1>2, <2>1
       DEF RouteChange, RouteNotification, SourceInv, SendersOK, EndpointInv, CopyInv, Fits
<1>3. ASSUME NEW s \in Senders, StartSend(s) PROVE SourceInv'
  BY <1>3, SourceIsChecked DEF StartSend, EndpointSide
<1>4. ASSUME NEW s \in Senders, LookupRoute(s) PROVE SourceInv'
  <2>1. CASE Move(s, AtRest)
    BY <1>4, <2>1, AtRestIsOK, SenderMoves DEF LookupRoute, EndpointSide
  <2>2. ASSUME NEW best \in BestRoute(Routes(sending[s].addr), sending[s].addr) \ {0},
               Move(s, [sending[s] EXCEPT !.at = "store", !.best = best])
        PROVE  SourceInv'
    <3> DEFINE to == [sending[s] EXCEPT !.at = "store", !.best = best]
    <3>1. CopyInv(sending[s]) /\ sending[s].at = "lookup" /\ sending[s].addr \in Addresses
      BY <1>0, <1>4 DEF LookupRoute, SourceInv
    <3>2. best \in Nat /\ best \notin {0, Own}
      BY <2>2, <3>1, BestIsNotOwn DEF CopyInv
    <3>3. to \in Copies
      BY <1>0, <3>2 DEF SendPlaces
    <3>4. /\ to.at = "store" /\ to.best = best /\ to.addr = sending[s].addr
          /\ to.update = sending[s].update
      BY <1>0
    <3> HIDE DEF to
    <3>5. CopyInv(to)
      BY <3>1, <3>2, <3>4 DEF CopyInv
    <3> QED
      BY <1>4, <2>2, <3>3, <3>5, SenderMoves DEF LookupRoute, EndpointSide, to
  <2> QED
    BY <1>4, <2>1, <2>2 DEF LookupRoute
<1>5. ASSUME NEW s \in Senders, LockAgain(s) PROVE SourceInv'
  <2>1. CASE SameEndpoint(s)
    <3>1. Fits
      BY <1>5, <2>1 DEF LockAgain, SameEndpoint, SourceInv, CopyInv
    <3>2. /\ CopyInv([AtRest EXCEPT !.at = "reading"])
          /\ [AtRest EXCEPT !.at = "reading"] \in Copies
      BY <3>1 DEF CopyInv, AtRest, SendPlaces, Addresses
    <3> QED
      BY <1>5, <2>1, <3>2, SenderMoves DEF LockAgain, EndpointSide
  <2>2. CASE ~SameEndpoint(s)
    BY <1>5, <2>2, SourceIsChecked DEF LockAgain, EndpointSide
  <2> QED
    BY <2>1, <2>2
<1>6. ASSUME NEW s \in Senders, ReadSocket(s) PROVE SourceInv'
  <2> DEFINE sock == installed[Family[endpoint.addr]]
             to == [sending[s] EXCEPT !.at = "sending", !.sock = sock]
  <2>1. CASE sock = NoSocket
    BY <1>6, <2>1, AtRestIsOK, SenderMoves DEF ReadSocket, EndpointSide
  <2>2. CASE sock # NoSocket
    <3>1. Fits
      BY <1>6 DEF ReadSocket, SourceInv, CopyInv
    <3>2. sock \in Sockets \cup {NoSocket}
      BY <3>1, AddressFamily DEF Fits, SourceInv, EndpointOK, InstalledOK
    <3>3. to \in Copies
      BY <1>0, <3>2 DEF SendPlaces
    <3>4. to.at = "sending"
      BY <1>0
    <3>5. CopyInv(to)
      BY <3>1, <3>4 DEF CopyInv
    <3> QED
      BY <1>6, <2>2, <3>3, <3>5, SenderMoves DEF ReadSocket, EndpointSide
  <2> QED
    BY <2>1, <2>2
<1>7. ASSUME NEW s \in Senders, WskSend(s) PROVE SourceInv'
  BY <1>7, AtRestIsOK, SenderMoves DEF WskSend, EndpointSide
<1>8. ASSUME NEW s \in Senders, StoreSource(s) PROVE SourceInv'
  <2>1. /\ sending[s].at = "store" /\ Sharing = {} /\ CopyInv(sending[s])
        /\ sending[s].best \in Nat /\ sending[s].addr \in Addresses
        /\ sending[s].update \in Nat /\ endpoint.update \in Nat
    BY <1>0, <1>8 DEF StoreSource, SourceInv, EndpointOK
  <2>2. CASE SameEndpoint(s)
    <3> DEFINE next == endpoint.update + 1
               to == [sending[s] EXCEPT !.at = "again", !.update = next]
    <3>1. /\ sending[s].best \notin {0, Own} /\ sending[s].addr = endpoint.addr
          /\ endpoint.addr # 0 /\ sending[s].update = endpoint.update
      BY <2>1, <2>2 DEF CopyInv, SameEndpoint
    <3>11. next \in Nat
      BY <2>1
    <3> HIDE DEF next
    <3>2. to \in Copies /\ to.at = "again" /\ to.update = next
      BY <1>0, <3>11 DEF SendPlaces
    <3> HIDE DEF to
    <3>3. sending' = [sending EXCEPT ![s] = to] /\ UNCHANGED packet
      BY <1>8, <2>2 DEF StoreSource, Move, to, next
    <3>4. SendersOK'
      BY <3>2, <3>3 DEF SourceInv, SendersOK
    <3>5. generation[Family[endpoint.addr]] \in Nat
      BY <3>1, AddressFamily DEF SourceInv, EndpointOK
    <3>12. endpoint' = [addr |-> endpoint.addr, src |-> sending[s].best,
                        for |-> sending[s].addr,
                        routing |-> generation[Family[endpoint.addr]],
                        update |-> next, kept |-> FALSE]
      BY <1>8, <2>2 DEF StoreSource, next
    <3>13. endpoint.addr \in Addresses
      BY DEF SourceInv, EndpointOK
    <3>6. /\ endpoint' \in [addr : Addresses, src : Nat, for : Addresses, routing : Nat,
                             update : Nat, kept : BOOLEAN]
          /\ endpoint'.addr = endpoint.addr /\ endpoint'.src = sending[s].best
          /\ endpoint'.for = sending[s].addr /\ endpoint'.update = next
      BY <2>1, <3>5, <3>11, <3>12, <3>13
    <3>7. EndpointOK'
      BY <1>8, <3>6 DEF StoreSource, SourceInv, EndpointOK
    <3>8. EndpointInv' /\ Fits'
      BY <3>1, <3>6 DEF EndpointInv, Fits
    <3>9. sending'[s] = to /\ \A t \in Senders \ {s} : sending'[t] = sending[t]
      BY <3>3 DEF SourceInv, SendersOK
    <3>10. CopyInv(sending[s])'
      BY <3>2, <3>6, <3>8, <3>9 DEF CopyInv
    <3>14. endpoint'.update = endpoint.update + 1 /\ UNCHANGED <<table, generation>>
      BY <1>8, <3>6 DEF StoreSource, next
    <3>15. \A t \in {s} \cap Senders : CopyInv(sending[t])'
      BY <3>10
    <3> QED
      BY <2>1, <3>4, <3>7, <3>8, <3>9, <3>14, <3>15, EndpointMoves
  <2>3. CASE ~SameEndpoint(s)
    <3> DEFINE to == [sending[s] EXCEPT !.at = "again"]
    <3>1. to \in Copies /\ to.at = "again" /\ to.update = sending[s].update
      BY <1>0, <2>1 DEF SendPlaces
    <3> HIDE DEF to
    <3>2. CopyInv(to)
      BY <2>1, <2>3, <3>1 DEF CopyInv, SameEndpoint
    <3> QED
      BY <1>8, <2>3, <3>1, <3>2, SenderMoves DEF StoreSource, to
  <2> QED
    BY <2>2, <2>3
<1>9. ASSUME NEW a \in Arrivals, NEW k \in Sockets, Receive(a, k) PROVE SourceInv'
  <2>1. SendersOK'
    BY <1>9, SocketsAssumption DEF Receive, SourceInv, SendersOK, Addresses, PacketPlaces
  <2> QED
    BY <1>9, <2>1, SourceUnmoved DEF Receive, EndpointSide
<1>10. CASE \/ CompareEndpoint \/ StartReply \/ ReadReplySocket \/ SendReply
            \/ ReturnNetBufferLists
  <2>1. packet.at # "rest" => Family[packet.from] \in Families
    BY AddressFamily DEF SourceInv, SendersOK
  <2>2. SendersOK'
    <3>1. CASE CompareEndpoint
      BY <3>1 DEF CompareEndpoint, SourceInv, SendersOK, PacketPlaces
    <3>2. CASE StartReply
      BY <3>2 DEF StartReply, SourceInv, SendersOK, PacketPlaces
    <3>3. CASE ReadReplySocket
      BY <2>1, <3>3 DEF ReadReplySocket, SourceInv, SendersOK, PacketPlaces, InstalledOK
    <3>4. CASE SendReply
      BY <3>4 DEF SendReply, SourceInv, SendersOK, PacketPlaces
    <3>5. CASE ReturnNetBufferLists
      BY <3>5 DEF ReturnNetBufferLists, NoPacket, SourceInv, SendersOK, PacketPlaces, Addresses
    <3> QED
      BY <1>10, <3>1, <3>2, <3>3, <3>4, <3>5
  <2> QED
    BY <1>10, <2>2, SourceUnmoved
       DEF CompareEndpoint, StartReply, ReadReplySocket, SendReply, ReturnNetBufferLists,
           EndpointSide
<1>11. CASE MoveEndpoint
  <2>1. SendersOK'
    BY <1>11 DEF MoveEndpoint, SourceInv, SendersOK, PacketPlaces
  <2>2. packet.from \in Addresses \ {0} /\ packet.via \in Nat
    BY <1>11 DEF MoveEndpoint, SourceInv, SendersOK
  <2>3. generation[Family[packet.from]] \in Nat
    BY <2>2, AddressFamily DEF SourceInv, EndpointOK
  <2> QED
    BY <1>11, <2>1, <2>2, <2>3, PeerEndpointSet DEF MoveEndpoint
<1>12. ASSUME NEW a \in RemoteAddresses, SetEndpoint(a) PROVE SourceInv'
  <2>1. SendersOK' /\ a \in Addresses \ {0}
    BY <1>12, SocketsAssumption DEF SetEndpoint, SourceInv, SendersOK, Addresses
  <2> QED
    BY <1>12, <2>1, PeerEndpointSet DEF SetEndpoint
<1>13. ASSUME NEW p \in Ports, SetPort(p) PROVE SourceInv'
  <2> DEFINE next == endpoint.update + 1
  <2>1. Sharing = {} /\ UNCHANGED <<table, generation, sending, packet>>
    BY <1>13 DEF SetPort, ConfigOnly
  <2>2. /\ endpoint.addr \in Addresses /\ endpoint.update \in Nat
        /\ endpoint.kept \in BOOLEAN /\ 0 \in Addresses
    BY DEF SourceInv, EndpointOK, Addresses
  <2>3. next \in Nat
    BY <2>2
  <2>4. endpoint' = [addr |-> endpoint.addr, src |-> 0, for |-> 0, routing |-> 0,
                     update |-> next, kept |-> endpoint.kept]
    BY <1>13 DEF SetPort, SocketClearPeerEndpointSrc
  <2> HIDE DEF next
  <2>5. endpoint' \in [addr : Addresses, src : Nat, for : Addresses, routing : Nat,
                       update : Nat, kept : BOOLEAN]
    BY <2>2, <2>3, <2>4
  <2>6. EndpointOK'
    BY <2>1, <2>5 DEF SourceInv, EndpointOK
  <2>7. EndpointInv'
    BY <2>4, SocketsAssumption DEF EndpointInv
  <2>8. endpoint'.update = endpoint.update + 1
    BY <2>4 DEF next
  <2>9. SendersOK'
    BY <2>1 DEF SourceInv, SendersOK
  <2> QED
    BY <2>1, <2>6, <2>7, <2>8, <2>9, EndpointMoves
<1>14. CASE \/ StartUp \/ StartDown \/ Bind4 \/ Bind6 \/ Swap \/ RcuSynchronize \/ Closed
            \/ BeginClose \/ FreeSocket
  <2>1. UNCHANGED <<endpoint, generation, table, sending, packet>>
    BY <1>14 DEF StartUp, StartDown, Bind4, Bind6, Swap, RcuSynchronize, Closed, BeginClose,
                 FreeSocket, ConfigOnly
  <2>2. SendersOK'
    BY <2>1 DEF SourceInv, SendersOK
  <2> QED
    BY <2>1, <2>2, SourceUnmoved
<1> QED
  BY <1>1, <1>2, <1>3, <1>4, <1>5, <1>6, <1>7, <1>8, <1>9, <1>10, <1>11, <1>12, <1>13, <1>14
     DEF SocketsNext

-----------------------------------------------------------------------------
(* Which sockets there are.  installed and config.new are the sockets in     *)
(* place and to be put in place, config.old the ones to be closed.           *)
ConfigPlaces == {"rest", "bind4", "bind6", "swap", "stop", "sync", "close", "retry", "fail"}

Configs == [at : ConfigPlaces, op : {"none", "up", "port", "down"}, want : Nat,
            new : [Families -> Sockets \cup {NoSocket}], got : Nat, retries : Nat,
            old : Seq(Sockets), await : SUBSET (Senders \cup {"packet"})]

ConfigOK ==
    /\ InstalledOK /\ config \in Configs
    /\ socket \in [Sockets -> [st : {"free", "open", "closing"}, family : Nat, port : Nat]]
    /\ port \in Nat /\ running \in BOOLEAN

Installed(k) == \E f \in Families : installed[f] = k
None == [f \in Families |-> NoSocket]
ToClose(k) == \E i \in DOMAIN config.old : config.old[i] = k

(* Open sockets of a port, one for every transport. *)
Bound(sockets, pair, p) ==
    /\ \A f \in Families : IF f \in Transports
                           THEN pair[f] \in Sockets /\ sockets[pair[f]].st = "open"
                                /\ sockets[pair[f]].port = p
                           ELSE pair[f] = NoSocket
    /\ pair[4] = pair[6] => pair[4] = NoSocket

(* How far the configuration has come. *)
StageInv ==
    /\ config.at = "rest" => IF running THEN Bound(socket, installed, port) ELSE installed = None
    /\ config.at \in {"bind4", "bind6", "swap", "retry", "fail"} =>
         \/ config.op = "up" /\ ~running /\ installed = None
         \/ config.op = "port" /\ running /\ Bound(socket, installed, port)
    /\ config.at = "stop" => config.op = "down" /\ ~running /\ Bound(socket, installed, port)
    /\ config.at \in {"sync", "close"} =>
         \/ config.op = "down" /\ ~running /\ installed = None
         \/ config.op = "up" /\ ~running /\ Bound(socket, installed, port)
         \/ config.op = "port" /\ running /\ Bound(socket, installed, port)

(* New sockets are open and not yet in place. *)
NewSocketsInv ==
    /\ config.at \in {"bind4", "stop", "retry", "fail"} => config.new = None
    /\ config.at = "bind6" =>
         /\ config.new[6] = NoSocket
         /\ IF 4 \in Transports
            THEN /\ config.new[4] \in Sockets /\ ~Installed(config.new[4])
                 /\ socket[config.new[4]].st = "open"
                 /\ socket[config.new[4]].port = config.got /\ config.got # 0
            ELSE config.new[4] = NoSocket
    /\ config.at = "swap" =>
         /\ Bound(socket, config.new, config.got)
         /\ \A f \in Transports : ~Installed(config.new[f])

(* Old ones are in place no more, and each is closed once. *)
OldSocketsInv ==
    /\ config.at \notin {"sync", "close", "retry", "fail"} => config.old = <<>>
    /\ \A i, j \in DOMAIN config.old : config.old[i] = config.old[j] => i = j
    /\ \A i \in DOMAIN config.old : /\ ~Installed(config.old[i])
                                     /\ socket[config.old[i]].st # "free"

(* No socket is forgotten. *)
OpenInv ==
    \A k \in Sockets : socket[k].st = "open" =>
        \/ Installed(k) \/ ToClose(k)
        \/ config.at \in {"bind6", "swap"} /\ \E f \in Families : config.new[f] = k

(* A reader's socket is in place, or RcuSynchronize waits for the reader. *)
Protected(reader, k) ==
    /\ k \in Sockets
    /\ Installed(k) \/ (config.at = "sync" /\ reader \in config.await /\ ToClose(k))

UsersInv ==
    /\ \A s \in Senders : sending[s].at = "sending" => Protected(s, sending[s].sock)
    /\ packet.at = "reply" => Protected("packet", packet.out)
    /\ packet.at # "rest" => packet.sock \in Sockets /\ socket[packet.sock].st # "free"
    /\ packet.at = "rest" => packet = NoPacket

SocketInv ==
    /\ ConfigOK /\ StageInv /\ NewSocketsInv /\ OldSocketsInv /\ OpenInv /\ UsersInv

(* SocketInv holds initially, ... *)
LEMMA SocketInvInit == SocketsInit => SocketInv
<1> SUFFICES ASSUME SocketsInit PROVE SocketInv
  OBVIOUS
<1>1. config = ConfigRest /\ sending = [s \in Senders |-> AtRest] /\ packet = NoPacket
  BY DEF SocketsInit
<1>2. config \in Configs
  BY <1>1 DEF ConfigRest, Configs, ConfigPlaces
<1>3. ConfigOK
  <2>1. InstalledOK
    BY SocketsAssumption DEF SocketsInit, InstalledOK, Families
  <2>2. \A k \in Transports : k \in Nat
    BY SocketsAssumption DEF Families
  <2>3. socket \in [Sockets -> [st : {"free", "open", "closing"}, family : Nat, port : Nat]]
    BY <2>2 DEF SocketsInit, Free
  <2>4. port \in {0, 1} /\ (running = TRUE \/ running = FALSE)
    BY DEF SocketsInit
  <2>5. port \in Nat
    BY <2>4
  <2> QED
    BY <1>2, <2>1, <2>3, <2>4, <2>5 DEF ConfigOK
<1>4. config.at = "rest" /\ config.old = <<>>
  BY <1>1 DEF ConfigRest
<1>5. StageInv
  BY <1>4, SocketsAssumption DEF SocketsInit, StageInv, Bound, None, Families
<1>6. OpenInv
  BY <1>4, SocketsAssumption DEF SocketsInit, OpenInv, Installed, Free
<1>7. UsersInv
  BY <1>1 DEF UsersInv, AtRest, NoPacket
<1> QED
  BY <1>3, <1>4, <1>5, <1>6, <1>7 DEF SocketInv, NewSocketsInv, OldSocketsInv

(* What is in place is open. *)
LEMMA InstalledAreOpen ==
    ASSUME SocketInv, NEW k \in Sockets, Installed(k)
    PROVE  socket[k].st = "open"
  BY SocketsAssumption
     DEF SocketInv, StageInv, Bound, None, Installed, ConfigOK, Configs, ConfigPlaces

(* The property follows. *)
LEMMA InvGivesAlive == SocketInv => SocketsAlive
<1> SUFFICES ASSUME SocketInv PROVE SocketsAlive
  OBVIOUS
<1>1. ASSUME NEW r, NEW k, Protected(r, k) PROVE socket[k].st # "free"
  BY <1>1, InstalledAreOpen DEF Protected, SocketInv, OldSocketsInv, ToClose
<1>2. config.at = "rest" => \A k \in Sockets : socket[k].st = "open" => Installed(k)
  BY DEF SocketInv, OpenInv, OldSocketsInv, ToClose
<1> QED
  BY <1>1, <1>2, SocketsAssumption
     DEF SocketsAlive, SocketInv, UsersInv, StageInv, Bound, None, Installed

(* Only the sockets of the pair matter. *)
LEMMA BoundStays ==
    ASSUME NEW sockets, NEW others, NEW pair, NEW p, Bound(sockets, pair, p),
           \A f \in Transports : others[pair[f]] = sockets[pair[f]]
    PROVE  Bound(others, pair, p)
  BY DEF Bound

(* Memory that is free is neither in place nor to be closed. *)
LEMMA FreeIsUnused ==
    ASSUME SocketInv, Memory
    PROVE  /\ AnyFree \in Sockets /\ socket[AnyFree].st = "free"
           /\ ~Installed(AnyFree) /\ ~ToClose(AnyFree)
<1>1. AnyFree \in Sockets /\ socket[AnyFree].st = "free"
  BY DEF Memory, AnyFree
<1> QED
  BY <1>1, InstalledAreOpen DEF SocketInv, OldSocketsInv, ToClose

(* The sockets to be closed are those of the pair, each once. *)
LEMMA ThoseSockets ==
    ASSUME NEW pair \in [Families -> Sockets \cup {NoSocket}],
           pair[4] = pair[6] => pair[4] = NoSocket
    PROVE  /\ Those(pair) \in Seq(Sockets)
           /\ \A k : (\E i \in DOMAIN Those(pair) : Those(pair)[i] = k)
                        <=> k # NoSocket /\ \E f \in Families : pair[f] = k
           /\ \A i, j \in DOMAIN Those(pair) : Those(pair)[i] = Those(pair)[j] => i = j
<1>1. CASE pair[4] = NoSocket /\ pair[6] = NoSocket
  BY <1>1 DEF Those, Families
<1>2. CASE pair[4] = NoSocket /\ pair[6] # NoSocket
  <2>1. Those(pair) = <<pair[6]>>
    BY <1>2 DEF Those
  <2> QED
    BY <1>2, <2>1 DEF Families
<1>3. CASE pair[4] # NoSocket /\ pair[6] = NoSocket
  <2>1. Those(pair) = <<pair[4]>>
    BY <1>3 DEF Those
  <2> QED
    BY <1>3, <2>1 DEF Families
<1>4. CASE pair[4] # NoSocket /\ pair[6] # NoSocket
  <2>1. /\ pair[4] \in Sockets /\ pair[6] \in Sockets
        /\ Those(pair) = <<pair[4]>> \o <<pair[6]>>
    BY <1>4 DEF Those, Families
  <2>2. /\ <<pair[4]>> \in Seq(Sockets) /\ <<pair[6]>> \in Seq(Sockets)
        /\ Len(<<pair[4]>>) = 1 /\ Len(<<pair[6]>>) = 1
    BY <2>1
  <2>3. /\ Those(pair) \in Seq(Sockets) /\ Len(Those(pair)) = 2
        /\ Those(pair)[1] = pair[4] /\ Those(pair)[2] = pair[6]
    BY <2>1, <2>2, ConcatProperties
  <2>4. DOMAIN Those(pair) = {1, 2}
    BY <2>3
  <2> QED
    BY <1>4, <2>3, <2>4 DEF Families
<1> QED
  BY <1>1, <1>2, <1>3, <1>4

(* Senders and packets move, the configuration does not. *)
LEMMA UsersMove ==
    ASSUME SocketInv, SocketSide, UsersInv'
    PROVE  SocketInv'
<1>1. UNCHANGED <<installed, socket, port, running, config>>
  BY DEF SocketSide
<1>2. ConfigOK'
  BY <1>1 DEF SocketInv, ConfigOK, InstalledOK
<1>3. StageInv'
  BY <1>1 DEF SocketInv, StageInv
<1>4. NewSocketsInv' /\ OldSocketsInv' /\ OpenInv'
  BY <1>1 DEF SocketInv, NewSocketsInv, OldSocketsInv, OpenInv, Installed, ToClose
<1> QED
  BY <1>2, <1>3, <1>4 DEF SocketInv

(* A reader leaves. *)
LEMMA ReaderLeaves ==
    ASSUME SocketInv, NEW reader, RcuUnlock(reader), UsersInv'
    PROVE  SocketInv'
<1>1. config \in Configs
  BY DEF SocketInv, ConfigOK
<1>2. /\ config' \in Configs
      /\ config'.at = config.at /\ config'.op = config.op /\ config'.new = config.new
      /\ config'.got = config.got /\ config'.old = config.old
  BY <1>1 DEF RcuUnlock, Configs
<1>3. UNCHANGED <<installed, socket, port, running>>
  BY DEF RcuUnlock
<1>4. ConfigOK'
  BY <1>2, <1>3 DEF SocketInv, ConfigOK, InstalledOK
<1>5. StageInv'
  BY <1>2, <1>3 DEF SocketInv, StageInv
<1>6. NewSocketsInv' /\ OldSocketsInv' /\ OpenInv'
  BY <1>2, <1>3 DEF SocketInv, NewSocketsInv, OldSocketsInv, OpenInv, Installed, ToClose
<1> QED
  BY <1>4, <1>5, <1>6 DEF SocketInv

(* A sender moves on, as a reader only with a socket in place. *)
LEMMA SenderKeepsSockets ==
    ASSUME SocketInv, SendersOK, NEW s \in Senders, NEW to, Move(s, to), UNCHANGED packet,
           \/ SocketSide /\ (to.at = "sending" => Protected(s, to.sock))
           \/ RcuUnlock(s) /\ to.at # "sending"
    PROVE  SocketInv'
<1>1. sending'[s] = to /\ \A t \in Senders \ {s} : sending'[t] = sending[t]
  BY DEF Move, SendersOK
<1>2. CASE SocketSide /\ (to.at = "sending" => Protected(s, to.sock))
  <2>1. UNCHANGED <<installed, socket, config>>
    BY <1>2 DEF SocketSide
  <2>2. \A r, k : Protected(r, k) => Protected(r, k)'
    BY <2>1 DEF Protected, Installed, ToClose
  <2>3. \A t \in Senders : sending'[t].at = "sending" => Protected(t, sending'[t].sock)
    BY <1>1, <1>2 DEF SocketInv, UsersInv
  <2>4. UsersInv'
    BY <2>1, <2>2, <2>3 DEF SocketInv, UsersInv, Protected, Installed, ToClose
  <2> QED
    BY <1>2, <2>4, UsersMove
<1>3. CASE RcuUnlock(s) /\ to.at # "sending"
  <2>1. /\ UNCHANGED <<installed, socket>> /\ config \in Configs
        /\ config' = [config EXCEPT !.await = @ \ {s}]
    BY <1>3 DEF RcuUnlock, SocketInv, ConfigOK
  <2>2. /\ config'.at = config.at /\ config'.old = config.old
        /\ config'.await = config.await \ {s}
    BY <2>1 DEF Configs
  <2>3. \A r, k : Protected(r, k) /\ r # s => Protected(r, k)'
    BY <2>1, <2>2 DEF Protected, Installed, ToClose
  <2>4. \A t \in Senders : sending'[t].at = "sending" => Protected(t, sending[t].sock)'
    <3> SUFFICES ASSUME NEW t \in Senders, sending'[t].at = "sending"
                 PROVE  Protected(t, sending[t].sock)'
      OBVIOUS
    <3>1. t # s /\ sending'[t] = sending[t] /\ Protected(t, sending[t].sock)
      BY <1>1, <1>3 DEF SocketInv, UsersInv
    <3> QED
      BY <2>1, <2>2, <3>1 DEF Protected, Installed, ToClose
  <2>5. packet.at = "reply" => Protected("packet", packet.out)'
    <3>1. s # "packet"
      BY SocketsAssumption
    <3> QED
      BY <2>1, <2>2, <3>1 DEF SocketInv, UsersInv, Protected, Installed, ToClose
  <2>6. UsersInv'
    BY <2>1, <2>4, <2>5 DEF SocketInv, UsersInv
  <2> QED
    BY <1>3, <2>6, ReaderLeaves
<1> QED
  BY <1>2, <1>3

(* A packet moves on. *)
LEMMA PacketKeepsSockets ==
    ASSUME SocketInv, UNCHANGED sending,
           \/ SocketSide /\ (packet'.at = "reply" => Protected("packet", packet'.out))
           \/ RcuUnlock("packet") /\ packet'.at # "reply",
           packet'.at # "rest" => packet'.sock \in Sockets /\ socket[packet'.sock].st # "free",
           packet'.at = "rest" => packet' = NoPacket
    PROVE  SocketInv'
<1>1. CASE SocketSide /\ (packet'.at = "reply" => Protected("packet", packet'.out))
  <2>1. UNCHANGED <<installed, socket, config>>
    BY <1>1 DEF SocketSide
  <2>2. UsersInv'
    BY <1>1, <2>1 DEF SocketInv, UsersInv, Protected, Installed, ToClose
  <2> QED
    BY <1>1, <2>2, UsersMove
<1>2. CASE RcuUnlock("packet") /\ packet'.at # "reply"
  <2>1. /\ UNCHANGED <<installed, socket>> /\ config \in Configs
        /\ config' = [config EXCEPT !.await = @ \ {"packet"}]
    BY <1>2 DEF RcuUnlock, SocketInv, ConfigOK
  <2>2. /\ config'.at = config.at /\ config'.old = config.old
        /\ config'.await = config.await \ {"packet"}
    BY <2>1 DEF Configs
  <2>3. ASSUME NEW s \in Senders, sending[s].at = "sending"
        PROVE  Protected(s, sending[s].sock)'
    <3>1. s # "packet"
      BY SocketsAssumption
    <3> QED
      BY <2>1, <2>2, <2>3, <3>1 DEF SocketInv, UsersInv, Protected, Installed, ToClose
  <2>4. UsersInv'
    BY <1>2, <2>1, <2>3 DEF UsersInv
  <2> QED
    BY <1>2, <2>4, ReaderLeaves
<1> QED
  BY <1>1, <1>2

-----------------------------------------------------------------------------
(* The configuration's steps. *)

(* Readers' sockets stay in place, and no socket in use is freed. *)
LEMMA UsersUnmoved ==
    ASSUME SocketInv, UNCHANGED <<sending, packet, installed>>,
           config.at = "sync" => config'.at = "sync" /\ UNCHANGED config,
           packet.at # "rest" => socket'[packet.sock].st # "free"
    PROVE  UsersInv'
<1>1. \A r, k : Protected(r, k) => Protected(r, k)'
  BY DEF Protected, Installed, ToClose
<1> QED
  BY <1>1 DEF SocketInv, UsersInv, Protected, Installed, ToClose

(* A configuration at rest. *)
LEMMA ConfigRestIsOK ==
    /\ ConfigRest \in Configs /\ ConfigRest.at = "rest" /\ ConfigRest.new = None
    /\ ConfigRest.old = <<>>
  BY DEF ConfigRest, Configs, ConfigPlaces, None

(* Up, SetListenPort and Down begin. *)
LEMMA StartKeepsSockets ==
    ASSUME SocketInv, UNCHANGED <<sending, packet, installed, socket>>, config.at = "rest",
           \/ StartUp \/ (\E p \in Ports : SetPort(p)) \/ StartDown
    PROVE  SocketInv'
<1>1. /\ config.old = <<>> /\ config \in Configs /\ port \in Nat /\ running \in BOOLEAN
      /\ IF running THEN Bound(socket, installed, port) ELSE installed = None
  BY DEF SocketInv, ConfigOK, OldSocketsInv, StageInv
<1>2. UsersInv'
  BY UsersUnmoved DEF SocketInv, UsersInv
<1>3. CASE StartUp
  <2>1. /\ config' \in Configs /\ config'.at = "bind4" /\ config'.op = "up"
        /\ config'.new = None /\ config'.old = <<>> /\ ~running /\ UNCHANGED <<port, running>>
    BY <1>1, <1>3, ConfigRestIsOK DEF StartUp, SocketConfigStep, Configs, ConfigPlaces
  <2> QED
    BY <1>1, <1>2, <2>1
       DEF SocketInv, ConfigOK, InstalledOK, StageInv, NewSocketsInv, OldSocketsInv, OpenInv,
           Installed, ToClose
<1>4. ASSUME NEW p \in Ports, SetPort(p) PROVE SocketInv'
  <2>1. CASE running
    <3>2. p \in Nat
      BY SocketsAssumption
    <3>3. /\ config' = [ConfigRest EXCEPT !.at = "bind4", !.op = "port", !.want = p]
          /\ UNCHANGED <<port, running>>
      BY <1>4, <2>1 DEF SetPort, SocketConfigStep
    <3>1. /\ config' \in Configs /\ config'.at = "bind4" /\ config'.op = "port"
          /\ config'.new = None /\ config'.old = <<>> /\ UNCHANGED <<port, running>>
      BY <3>2, <3>3, ConfigRestIsOK DEF Configs, ConfigPlaces
    <3> QED
      BY <1>1, <1>2, <2>1, <3>1
         DEF SocketInv, ConfigOK, InstalledOK, StageInv, NewSocketsInv, OldSocketsInv, OpenInv,
             Installed, ToClose
  <2>2. CASE ~running
    <3>1. UNCHANGED <<config, running>> /\ port' \in Nat
      BY <1>4, <2>2, SocketsAssumption DEF SetPort
    <3> QED
      BY <1>1, <1>2, <2>2, <3>1
         DEF SocketInv, ConfigOK, InstalledOK, StageInv, NewSocketsInv, OldSocketsInv, OpenInv,
             Installed, ToClose
  <2> QED
    BY <2>1, <2>2
<1>5. CASE StartDown
  <2>1. Reading \subseteq Senders \cup {"packet"}
    BY DEF Reading, Sharing
  <2>2. /\ config' \in Configs /\ config'.at = "stop" /\ config'.op = "down"
        /\ config'.new = None /\ config'.old = <<>>
    BY <1>5, <2>1, ConfigRestIsOK DEF StartDown, SocketConfigStep, Configs, ConfigPlaces
  <2>3. running /\ running' = FALSE /\ port' = port
    BY <1>5 DEF StartDown
  <2>4. ConfigOK' /\ StageInv'
    BY <1>1, <2>2, <2>3 DEF SocketInv, ConfigOK, InstalledOK, StageInv
  <2>5. NewSocketsInv' /\ OldSocketsInv' /\ OpenInv'
    BY <1>1, <2>2 DEF SocketInv, NewSocketsInv, OldSocketsInv, OpenInv, Installed, ToClose
  <2> QED
    BY <1>2, <2>4, <2>5 DEF SocketInv
<1> QED
  BY <1>3, <1>4, <1>5

(* The grace period and the closing of the old sockets. *)
LEMMA CloseKeepsSockets ==
    ASSUME SocketInv, UNCHANGED <<sending, packet, installed, port>>,
           RcuSynchronize \/ Closed \/ BeginClose \/ FreeSocket
    PROVE  SocketInv'
<1>1. /\ config \in Configs /\ running \in BOOLEAN /\ config.old \in Seq(Sockets)
      /\ socket \in [Sockets -> [st : {"free", "open", "closing"}, family : Nat, port : Nat]]
  BY DEF SocketInv, ConfigOK, Configs
<1>2. CASE RcuSynchronize
  <2>1. /\ config' \in Configs /\ config.at = "sync" /\ config.await = {}
        /\ config'.at = "close" /\ config'.op = config.op /\ config'.old = config.old
        /\ UNCHANGED <<running, socket>>
    BY <1>1, <1>2 DEF RcuSynchronize, Synchronized, SocketConfigStep, Configs, ConfigPlaces
  <2>2. \A r, k : Protected(r, k) => Installed(k)
    BY <2>1 DEF Protected
  <2>3. UsersInv'
    BY <2>1, <2>2 DEF SocketInv, UsersInv, Protected, Installed
  <2> QED
    BY <1>2, <2>1, <2>3
       DEF SocketInv, ConfigOK, InstalledOK, StageInv, NewSocketsInv, OldSocketsInv, OpenInv,
           Installed, ToClose
<1>3. CASE Closed
  <2>1. Closing /\ config.old = <<>> /\ UNCHANGED socket
    BY <1>3 DEF Closed
  <2>2. UsersInv'
    BY <2>1, UsersUnmoved DEF Closing, SocketInv, UsersInv
  <2>3. CASE config.at = "retry"
    <3> DEFINE retries == config.retries + 1
    <3>2. retries \in Nat
      BY <1>1 DEF Configs
    <3>3. config' = [config EXCEPT !.at = "bind4", !.retries = retries]
      BY <1>3, <2>3 DEF Closed, SocketConfigStep
    <3> HIDE DEF retries
    <3>1. /\ config' \in Configs /\ config'.at = "bind4" /\ config'.op = config.op
          /\ config'.old = config.old /\ config'.new = config.new /\ running' = running
      BY <1>1, <1>3, <2>3, <3>2, <3>3 DEF Closed, Configs, ConfigPlaces
    <3> QED
      BY <2>1, <2>2, <2>3, <3>1
         DEF SocketInv, ConfigOK, InstalledOK, StageInv, NewSocketsInv, OldSocketsInv, OpenInv,
             Installed, ToClose
  <2>4. CASE config.at # "retry"
    <3>1. config' \in Configs /\ config'.at = "rest" /\ config'.old = <<>>
      BY <1>3, <2>4, ConfigRestIsOK DEF Closed, SocketConfigStep
    <3>2. /\ config.at \in {"close", "fail"} /\ running' \in BOOLEAN
          /\ running' <=> running \/ (config.at = "close" /\ config.op = "up")
      BY <1>1, <1>3, <2>4 DEF Closed, Closing
    <3>3. IF running' THEN Bound(socket, installed, port) ELSE installed = None
      BY <3>2 DEF SocketInv, StageInv
    <3> QED
      BY <2>1, <2>2, <3>1, <3>2, <3>3
         DEF SocketInv, ConfigOK, InstalledOK, StageInv, NewSocketsInv, OldSocketsInv, OpenInv,
             Installed, ToClose
  <2> QED
    BY <2>3, <2>4
<1> DEFINE head == Head(config.old)
<1>4. CASE BeginClose \/ FreeSocket
  <2>1. /\ Closing /\ config.old # <<>> /\ running' = running
        /\ config.at \in {"close", "retry", "fail"}
    BY <1>4 DEF BeginClose, FreeSocket, Closing
  <2>2. /\ head \in Sockets /\ head = config.old[1] /\ 1 \in DOMAIN config.old
        /\ DOMAIN config.old = 1..Len(config.old)
    BY <1>1, <2>1, HeadTailProperties
  <2>3. ~Installed(head)
    BY <2>2 DEF SocketInv, OldSocketsInv
  <2> HIDE DEF head
  <2>4. \A k \in Sockets \ {head} : socket'[k] = socket[k]
    BY <1>1, <1>4 DEF BeginClose, FreeSocket, head
  <2>5. \A f \in Transports : installed[f] \in Sockets => installed[f] # head
    BY <2>3, SocketsAssumption DEF Installed
  <2>6. ASSUME NEW p, Bound(socket, installed, p) PROVE Bound(socket', installed, p)
    <3>1. \A f \in Transports : socket'[installed[f]] = socket[installed[f]]
      BY <2>4, <2>5, <2>6, SocketsAssumption DEF Bound
    <3> QED
      BY <2>6, <3>1, BoundStays
  <2>7. CASE BeginClose
    <3>1. /\ UNCHANGED config /\ socket[head].st = "open"
          /\ socket' = [socket EXCEPT ![head].st = "closing"]
      BY <2>7 DEF BeginClose, head
    <3>2. /\ socket' \in [Sockets -> [st : {"free", "open", "closing"}, family : Nat, port : Nat]]
          /\ socket'[head].st = "closing"
      BY <1>1, <2>2, <3>1
    <3>3. \A k \in Sockets : socket[k].st # "free" => socket'[k].st # "free"
      BY <2>4, <3>2
    <3>4. UsersInv'
      BY <2>1, <3>3, UsersUnmoved DEF SocketInv, UsersInv
    <3>5. ConfigOK' /\ StageInv'
      BY <2>1, <2>6, <3>1, <3>2 DEF SocketInv, ConfigOK, InstalledOK, StageInv
    <3>6. NewSocketsInv'
      BY <2>1, <3>1 DEF SocketInv, NewSocketsInv
    <3>7. OldSocketsInv'
      BY <1>1, <2>1, <3>1, <3>3 DEF SocketInv, OldSocketsInv, Installed
    <3>8. OpenInv'
      BY <2>4, <3>1, <3>2 DEF SocketInv, OpenInv, Installed, ToClose
    <3> QED
      BY <3>4, <3>5, <3>6, <3>7, <3>8 DEF SocketInv
  <2>8. CASE FreeSocket
    <3>1. /\ config' = [config EXCEPT !.old = Tail(@)] /\ packet.sock # head
          /\ socket' = [socket EXCEPT ![head] = Free]
      BY <2>8 DEF FreeSocket, SocketConfigStep, head
    <3>2. /\ socket' \in [Sockets -> [st : {"free", "open", "closing"}, family : Nat, port : Nat]]
          /\ socket'[head].st = "free"
      BY <1>1, <2>2, <3>1 DEF Free
    <3>3. Tail(config.old) \in Seq(Sockets)
      BY <1>1, <2>1, HeadTailProperties
    <3>4. /\ config' \in Configs /\ config'.at = config.at /\ config'.op = config.op
          /\ config'.new = config.new /\ config'.old = Tail(config.old)
      BY <1>1, <3>1, <3>3 DEF Configs
    <3>5. /\ DOMAIN Tail(config.old) = {i \in Nat : i + 1 \in DOMAIN config.old /\ i # 0}
          /\ \A i \in DOMAIN Tail(config.old) : Tail(config.old)[i] = config.old[i + 1]
      <4>1. /\ Len(config.old) \in Nat \ {0} /\ Len(Tail(config.old)) = Len(config.old) - 1
            /\ DOMAIN Tail(config.old) = 1..Len(Tail(config.old))
            /\ \A i \in 1..Len(Tail(config.old)) : Tail(config.old)[i] = config.old[i + 1]
        BY <1>1, <2>1, <2>2, <3>3, HeadTailProperties
      <4> QED
        BY <2>2, <4>1
    <3>6. \A i \in DOMAIN Tail(config.old) :
            /\ i + 1 \in DOMAIN config.old /\ config.old[i + 1] \in Sockets \ {head}
            /\ i \in Nat
      <4> SUFFICES ASSUME NEW i \in DOMAIN Tail(config.old)
                   PROVE  /\ i + 1 \in DOMAIN config.old
                          /\ config.old[i + 1] \in Sockets \ {head} /\ i \in Nat
        OBVIOUS
      <4>1. i \in Nat /\ i + 1 \in DOMAIN config.old /\ i + 1 # 1
        BY <3>5
      <4>2. config.old[i + 1] # config.old[1]
        BY <2>2, <4>1 DEF SocketInv, OldSocketsInv
      <4> QED
        BY <1>1, <2>2, <4>1, <4>2
    <3>7. \A k \in Sockets \ {head} : ToClose(k) => ToClose(k)'
      <4> SUFFICES ASSUME NEW k \in Sockets \ {head}, NEW i \in DOMAIN config.old,
                          config.old[i] = k
                   PROVE  \E j \in DOMAIN Tail(config.old) : Tail(config.old)[j] = k
        BY <3>4 DEF ToClose
      <4>1. i # 1 /\ i \in 1..Len(config.old)
        BY <2>2
      <4>2. i - 1 \in DOMAIN Tail(config.old) /\ (i - 1) + 1 = i
        BY <1>1, <2>2, <3>5, <4>1
      <4> QED
        BY <3>5, <4>2
    <3>8. UsersInv'
      BY <2>1, <2>4, <3>1, UsersUnmoved DEF SocketInv, UsersInv
    <3>9. ConfigOK' /\ StageInv'
      BY <2>1, <2>6, <3>2, <3>4 DEF SocketInv, ConfigOK, InstalledOK, StageInv
    <3>10. NewSocketsInv'
      BY <2>1, <3>4 DEF SocketInv, NewSocketsInv
    <3>11. OldSocketsInv'
      <4>1. ASSUME NEW i \in DOMAIN config'.old, NEW j \in DOMAIN config'.old,
                   config'.old[i] = config'.old[j]
            PROVE  i = j
        <5>1. i + 1 = j + 1
          BY <3>4, <3>5, <3>6, <4>1 DEF SocketInv, OldSocketsInv
        <5> QED
          BY <3>4, <3>6, <5>1
      <4>2. \A i \in DOMAIN config'.old : /\ ~Installed(config'.old[i])
                                           /\ socket'[config'.old[i]].st # "free"
        BY <2>4, <3>4, <3>5, <3>6 DEF SocketInv, OldSocketsInv
      <4> QED
        BY <2>1, <3>4, <4>1, <4>2 DEF OldSocketsInv, Installed
    <3>12. OpenInv'
      BY <2>1, <2>4, <3>2, <3>4, <3>7 DEF SocketInv, OpenInv, Installed
    <3> QED
      BY <3>8, <3>9, <3>10, <3>11, <3>12 DEF SocketInv
  <2> QED
    BY <1>4, <2>7, <2>8
<1> QED
  BY <1>2, <1>3, <1>4

(* A socket is created: one of the free ones. *)
LEMMA CreatedIsNew ==
    ASSUME SocketInv, Memory, NEW f \in Nat, NEW p \in Nat, CreateAndBindSocket(AnyFree, f, p)
    PROVE  /\ AnyFree \in Sockets /\ ~Installed(AnyFree) /\ ~ToClose(AnyFree)
           /\ socket[AnyFree].st = "free"
           /\ socket' \in [Sockets -> [st : {"free", "open", "closing"}, family : Nat, port : Nat]]
           /\ socket'[AnyFree].st = "open" /\ socket'[AnyFree].port = p
           /\ \A k \in Sockets \ {AnyFree} : socket'[k] = socket[k]
           /\ \A q : Bound(socket, installed, q) => Bound(socket', installed, q)
           /\ packet.at # "rest" => socket'[packet.sock].st # "free"
<1>1. /\ AnyFree \in Sockets /\ ~Installed(AnyFree) /\ ~ToClose(AnyFree)
      /\ socket[AnyFree].st = "free"
  BY FreeIsUnused
<1>2. /\ socket \in [Sockets -> [st : {"free", "open", "closing"}, family : Nat, port : Nat]]
      /\ socket' = [socket EXCEPT ![AnyFree] = [st |-> "open", family |-> f, port |-> p]]
  BY DEF SocketInv, ConfigOK, CreateAndBindSocket
<1>3. /\ socket' \in [Sockets -> [st : {"free", "open", "closing"}, family : Nat, port : Nat]]
      /\ socket'[AnyFree].st = "open" /\ socket'[AnyFree].port = p
      /\ \A k \in Sockets \ {AnyFree} : socket'[k] = socket[k]
  BY <1>1, <1>2
<1>4. ASSUME NEW q, Bound(socket, installed, q) PROVE Bound(socket', installed, q)
  <2>1. \A g \in Transports : installed[g] \in Sockets \ {AnyFree}
    BY <1>1, <1>4, SocketsAssumption DEF Bound, Installed
  <2>2. \A g \in Transports : socket'[installed[g]] = socket[installed[g]]
    BY <1>3, <2>1
  <2> QED
    BY <1>4, <2>2, BoundStays
<1>5. packet.at # "rest" => socket'[packet.sock].st # "free"
  BY <1>1, <1>3 DEF SocketInv, UsersInv
<1> QED
  BY <1>1, <1>3, <1>4, <1>5

(* SocketInit: the sockets are created, one after the other. *)
LEMMA BindKeepsSockets ==
    ASSUME SocketInv, UNCHANGED <<sending, packet, installed, port, running>>, Bind4 \/ Bind6
    PROVE  SocketInv'
<1>1. /\ config \in Configs /\ InstalledOK /\ port \in Nat /\ running \in BOOLEAN
      /\ config.old = <<>> /\ config.at \in {"bind4", "bind6"}
      /\ config.new \in [Families -> Sockets \cup {NoSocket}]
      /\ \/ config.op = "up" /\ ~running /\ installed = None
         \/ config.op = "port" /\ running /\ Bound(socket, installed, port)
  BY DEF Bind4, Bind6, SocketInv, ConfigOK, OldSocketsInv, StageInv, Configs
<1>2. ASSUME UNCHANGED socket PROVE UsersInv'
  BY <1>1, <1>2, UsersUnmoved DEF SocketInv, UsersInv
<1>3. ASSUME NEW f \in Families, NEW at \in {"bind6", "swap"}, NEW p \in Nat \ {0}, Memory,
             CreateAndBindSocket(AnyFree, f, p),
             SocketConfigStep([config EXCEPT !.at = at, !.got = p,
                                             !.new = [@ EXCEPT ![f] = AnyFree]])
      PROVE  /\ ConfigOK' /\ StageInv' /\ OldSocketsInv' /\ UsersInv'
             /\ config'.at = at /\ config'.got = p
             /\ config'.new = [config.new EXCEPT ![f] = AnyFree]
             /\ at = "swap" => config'.old = <<>>
  <2>1. p \in Nat /\ f \in Nat
    BY SocketsAssumption DEF Families
  <2> DEFINE new == [config.new EXCEPT ![f] = AnyFree]
  <2>2. AnyFree \in Sockets
    BY <1>3, FreeIsUnused
  <2>3. new \in [Families -> Sockets \cup {NoSocket}]
    BY <1>1, <2>2
  <2>4. config' = [config EXCEPT !.at = at, !.got = p, !.new = new]
    BY <1>3 DEF SocketConfigStep
  <2> HIDE DEF new
  <2>5. /\ config' \in Configs /\ config'.at = at /\ config'.got = p /\ config'.new = new
        /\ config'.op = config.op /\ config'.old = config.old
    BY <1>1, <2>1, <2>3, <2>4 DEF Configs, ConfigPlaces
  <2>6. ConfigOK'
    BY <1>1, <1>3, <2>1, <2>5, CreatedIsNew DEF ConfigOK, InstalledOK
  <2>7. StageInv'
    BY <1>1, <1>3, <2>1, <2>5, CreatedIsNew DEF StageInv
  <2>8. OldSocketsInv'
    BY <1>1, <2>5 DEF OldSocketsInv
  <2>9. UsersInv'
    BY <1>1, <1>3, <2>1, CreatedIsNew, UsersUnmoved
  <2> QED
    BY <1>1, <2>5, <2>6, <2>7, <2>8, <2>9 DEF new
<1>4. CASE Bind4
  <2>1. config.at = "bind4" /\ config.new = None
    BY <1>4 DEF Bind4, SocketInv, NewSocketsInv
  <2>2. ASSUME 4 \in Transports, Memory,
               NEW p \in (IF config.want = 0 THEN Ports ELSE {config.want}),
               CreateAndBindSocket(AnyFree, 4, p),
               SocketConfigStep([config EXCEPT !.at = "bind6", !.got = p,
                                               !.new = [@ EXCEPT ![4] = AnyFree]])
        PROVE  SocketInv'
    <3>1. p \in Nat \ {0}
      BY <1>1, <2>2, SocketsAssumption DEF Configs
    <3>2. /\ ConfigOK' /\ StageInv' /\ OldSocketsInv' /\ UsersInv'
          /\ config'.at = "bind6" /\ config'.got = p
          /\ config'.new = [config.new EXCEPT ![4] = AnyFree]
      BY <1>3, <2>2, <3>1 DEF Families
    <3>3. PICK k \in Sockets : k = AnyFree
      BY <2>2, FreeIsUnused
    <3>4. /\ ~Installed(k) /\ socket'[k].st = "open" /\ socket'[k].port = p
          /\ \A l \in Sockets \ {k} : socket'[l] = socket[l]
      BY <2>2, <3>1, <3>3, CreatedIsNew
    <3>5. config'.new[4] = k /\ config'.new[6] = NoSocket
      BY <1>1, <2>1, <3>2, <3>3 DEF None, Families
    <3>6. NewSocketsInv'
      BY <2>2, <3>1, <3>2, <3>4, <3>5 DEF NewSocketsInv, Installed
    <3>7. OpenInv'
      BY <1>1, <2>1, <3>2, <3>4, <3>5
         DEF SocketInv, OpenInv, Installed, ToClose, Families
    <3> QED
      BY <3>2, <3>6, <3>7 DEF SocketInv
  <2>3. CASE /\ 4 \notin Transports /\ UNCHANGED socket
             /\ SocketConfigStep([config EXCEPT !.at = "bind6", !.got = config.want])
    <3>1. config.want \in Nat
      BY <1>1 DEF Configs
    <3>2. /\ config' \in Configs /\ config'.at = "bind6" /\ config'.op = config.op
          /\ config'.new = config.new /\ config'.old = config.old
      BY <1>1, <2>3, <3>1 DEF SocketConfigStep, Configs, ConfigPlaces
    <3>3. ConfigOK' /\ StageInv'
      BY <1>1, <2>1, <2>3, <3>2 DEF SocketInv, ConfigOK, InstalledOK, StageInv
    <3>4. NewSocketsInv' /\ OldSocketsInv' /\ OpenInv'
      BY <1>1, <2>1, <2>3, <3>2
         DEF SocketInv, NewSocketsInv, OldSocketsInv, OpenInv, Installed, ToClose, None, Families
    <3> QED
      BY <1>2, <2>3, <3>3, <3>4 DEF SocketInv
  <2>4. CASE SocketConfigStep(ConfigRest) /\ UNCHANGED socket
    <3>1. config' \in Configs /\ config'.at = "rest" /\ config'.old = <<>>
      BY <2>4, ConfigRestIsOK DEF SocketConfigStep
    <3>2. ConfigOK' /\ StageInv'
      BY <1>1, <2>1, <2>4, <3>1 DEF SocketInv, ConfigOK, InstalledOK, StageInv
    <3>3. NewSocketsInv' /\ OldSocketsInv' /\ OpenInv'
      BY <1>1, <2>1, <2>4, <3>1
         DEF SocketInv, NewSocketsInv, OldSocketsInv, OpenInv, Installed, ToClose
    <3> QED
      BY <1>2, <2>4, <3>2, <3>3 DEF SocketInv
  <2> QED
    BY <1>4, <2>2, <2>3, <2>4 DEF Bind4
<1>5. CASE Bind6
  <2>1. /\ config.at = "bind6" /\ config.new[6] = NoSocket
        /\ IF 4 \in Transports
           THEN /\ config.new[4] \in Sockets /\ ~Installed(config.new[4])
                /\ socket[config.new[4]].st = "open"
                /\ socket[config.new[4]].port = config.got /\ config.got # 0
           ELSE config.new[4] = NoSocket
    BY <1>5 DEF Bind6, SocketInv, NewSocketsInv
  <2>2. ASSUME 6 \in Transports, Memory, NEW p \in Port6, CreateAndBindSocket(AnyFree, 6, p),
               SocketConfigStep([config EXCEPT !.at = "swap", !.got = p,
                                               !.new = [@ EXCEPT ![6] = AnyFree]])
        PROVE  SocketInv'
    <3>1. p \in Nat \ {0} /\ (config.got # 0 => p = config.got)
      BY <2>2, SocketsAssumption DEF Port6
    <3>2. /\ ConfigOK' /\ StageInv' /\ OldSocketsInv' /\ UsersInv'
          /\ config'.at = "swap" /\ config'.got = p /\ config'.old = <<>>
          /\ config'.new = [config.new EXCEPT ![6] = AnyFree]
      BY <1>3, <2>2, <3>1 DEF Families
    <3>3. PICK k \in Sockets : k = AnyFree
      BY <2>2, FreeIsUnused
    <3>4. /\ ~Installed(k) /\ socket[k].st = "free"
          /\ socket'[k].st = "open" /\ socket'[k].port = p
          /\ \A l \in Sockets \ {k} : socket'[l] = socket[l]
      BY <2>2, <3>1, <3>3, CreatedIsNew
    <3>5. config'.new[6] = k /\ config'.new[4] = config.new[4]
      BY <1>1, <3>2, <3>3 DEF Families
    <3>6. config.new[4] # k
      BY <2>1, <3>4, SocketsAssumption
    <3>7. Bound(socket', config'.new, p)
      BY <2>1, <2>2, <3>1, <3>4, <3>5, <3>6 DEF Bound, Families
    <3>8. NewSocketsInv'
      BY <2>1, <2>2, <3>2, <3>4, <3>5, <3>7, SocketsAssumption
         DEF NewSocketsInv, Installed, Families
    <3>9. OpenInv'
      <4> SUFFICES ASSUME NEW l \in Sockets, socket'[l].st = "open"
                   PROVE  Installed(l) \/ \E f \in Families : config'.new[f] = l
        BY <3>2 DEF OpenInv, Installed
      <4>1. CASE l = k
        BY <3>5, <4>1 DEF Families
      <4>2. CASE l # k
        <5>1. socket[l].st = "open" /\ ~ToClose(l)
          BY <1>1, <3>4, <4>2 DEF ToClose
        <5>2. Installed(l) \/ \E f \in Families : config.new[f] = l
          BY <5>1 DEF SocketInv, OpenInv
        <5>3. NoSocket # l
          BY SocketsAssumption
        <5> QED
          BY <2>1, <3>5, <5>2, <5>3 DEF Families
      <4> QED
        BY <4>1, <4>2
    <3> QED
      BY <3>2, <3>8, <3>9 DEF SocketInv
  <2>3. CASE /\ 6 \notin Transports /\ UNCHANGED socket
             /\ SocketConfigStep([config EXCEPT !.at = "swap"])
    <3>1. /\ config' \in Configs /\ config'.at = "swap" /\ config'.op = config.op
          /\ config'.new = config.new /\ config'.old = config.old /\ config'.got = config.got
      BY <1>1, <2>3 DEF SocketConfigStep, Configs, ConfigPlaces
    <3>2. ConfigOK' /\ StageInv'
      BY <1>1, <2>1, <2>3, <3>1 DEF SocketInv, ConfigOK, InstalledOK, StageInv
    <3>3. Bound(socket, config.new, config.got)
      BY <2>1, <2>3 DEF Bound, Families
    <3>4. NewSocketsInv'
      BY <2>1, <2>3, <3>1, <3>3, SocketsAssumption DEF NewSocketsInv, Installed, Families
    <3>5. OldSocketsInv' /\ OpenInv'
      BY <1>1, <2>1, <2>3, <3>1 DEF SocketInv, OldSocketsInv, OpenInv, Installed, ToClose
    <3> QED
      BY <1>2, <2>3, <3>2, <3>4, <3>5 DEF SocketInv
  <2>4. ASSUME NEW at \in {"fail", "retry"}, UNCHANGED socket,
               SocketConfigStep([config EXCEPT !.at = at, !.old = Those(config.new),
                                               !.new = [@ EXCEPT ![4] = NoSocket]])
        PROVE  SocketInv'
    <3> DEFINE new == [config.new EXCEPT ![4] = NoSocket]
               old == Those(config.new)
    <3>1. new \in [Families -> Sockets \cup {NoSocket}] /\ new = None
      BY <1>1, <2>1 DEF None, Families
    <3>2. /\ old \in Seq(Sockets)
          /\ \A k : (\E i \in DOMAIN old : old[i] = k)
                       <=> k # NoSocket /\ \E f \in Families : config.new[f] = k
          /\ \A i, j \in DOMAIN old : old[i] = old[j] => i = j
      BY <1>1, <2>1, ThoseSockets
    <3>3. config' = [config EXCEPT !.at = at, !.old = old, !.new = new]
      BY <2>4 DEF SocketConfigStep
    <3> HIDE DEF new, old
    <3>4. /\ config' \in Configs /\ config'.at = at /\ config'.op = config.op
          /\ config'.new = None /\ config'.old = old
      BY <1>1, <3>1, <3>2, <3>3 DEF Configs, ConfigPlaces
    <3>5. ConfigOK' /\ StageInv'
      BY <1>1, <2>1, <2>4, <3>4 DEF SocketInv, ConfigOK, InstalledOK, StageInv
    <3>6. \A i \in DOMAIN old : ~Installed(old[i]) /\ socket[old[i]].st # "free"
      <4> SUFFICES ASSUME NEW i \in DOMAIN old
                   PROVE  ~Installed(old[i]) /\ socket[old[i]].st # "free"
        OBVIOUS
      <4>1. old[i] # NoSocket /\ \E f \in Families : config.new[f] = old[i]
        BY <3>2
      <4>2. old[i] = config.new[4] /\ 4 \in Transports
        BY <2>1, <4>1 DEF Families
      <4> QED
        BY <2>1, <4>2
    <3>7. NewSocketsInv' /\ OldSocketsInv'
      BY <2>4, <3>2, <3>4, <3>6 DEF NewSocketsInv, OldSocketsInv, Installed
    <3>8. OpenInv'
      <4> SUFFICES ASSUME NEW k \in Sockets, socket[k].st = "open"
                   PROVE  Installed(k) \/ \E i \in DOMAIN old : old[i] = k
        BY <2>4, <3>4 DEF OpenInv, Installed, ToClose
      <4>1. ~ToClose(k) /\ k # NoSocket
        BY <1>1, SocketsAssumption DEF ToClose
      <4>2. Installed(k) \/ \E f \in Families : config.new[f] = k
        BY <4>1 DEF SocketInv, OpenInv
      <4> QED
        BY <3>2, <4>1, <4>2
    <3> QED
      BY <1>2, <2>4, <3>5, <3>7, <3>8 DEF SocketInv
  <2> QED
    BY <1>5, <2>2, <2>3, <2>4 DEF Bind6
<1> QED
  BY <1>4, <1>5

(* SocketReinit: the new pair is put in place. *)
LEMMA SwapKeepsSockets ==
    ASSUME SocketInv, UNCHANGED <<sending, packet, socket, running>>, Swap
    PROVE  SocketInv'
<1> DEFINE old == Those(installed)
           waiting == Reading
<1>1. /\ config \in Configs /\ InstalledOK /\ port \in Nat /\ running \in BOOLEAN
      /\ config.old = <<>> /\ config.at \in {"swap", "stop"}
      /\ config.new \in [Families -> Sockets \cup {NoSocket}]
      /\ config.got \in Nat
  BY DEF Swap, SocketInv, ConfigOK, OldSocketsInv, Configs
<1>2. waiting \subseteq Senders \cup {"packet"}
  BY DEF Reading, Sharing
<1>3. /\ installed[4] = installed[6] => installed[4] = NoSocket
      /\ \A f \in Families : installed[f] # NoSocket => socket[installed[f]].st = "open"
  BY <1>1, SocketsAssumption DEF SocketInv, StageInv, Bound, None, Families
<1>4. /\ old \in Seq(Sockets)
      /\ \A k : (\E i \in DOMAIN old : old[i] = k)
                   <=> k # NoSocket /\ \E f \in Families : installed[f] = k
      /\ \A i, j \in DOMAIN old : old[i] = old[j] => i = j
  BY <1>1, <1>3, ThoseSockets DEF InstalledOK
<1>5. /\ installed' = config.new
      /\ config' = [config EXCEPT !.at = "sync", !.await = waiting, !.old = old]
      /\ port' = IF config.new = ConfigRest.new THEN port ELSE config.got
  BY DEF Swap, SocketConfigStep
<1>6. \A s \in Senders : sending[s].at = "sending" => s \in waiting
  BY DEF Reading, Sharing
<1>7. packet.at = "reply" => "packet" \in waiting
  BY DEF Reading
<1> HIDE DEF old, waiting
<1>8. /\ config' \in Configs /\ config'.at = "sync" /\ config'.op = config.op
      /\ config'.await = waiting /\ config'.old = old
  BY <1>1, <1>2, <1>4, <1>5 DEF Configs, ConfigPlaces
<1>9. ConfigOK'
  BY <1>1, <1>5, <1>8 DEF SocketInv, ConfigOK, InstalledOK
<1>10. ASSUME NEW k \in Sockets, NEW f \in Families, config.new[f] = k PROVE ~Installed(k)
  BY <1>1, <1>10, SocketsAssumption DEF SocketInv, NewSocketsInv, Bound, None
<1>11. StageInv'
  <2>1. CASE config.at = "stop"
    <3>1. config.new = None /\ config.op = "down" /\ ~running
      BY <2>1 DEF SocketInv, NewSocketsInv, StageInv
    <3> QED
      BY <1>5, <1>8, <3>1 DEF StageInv
  <2>2. CASE config.at = "swap"
    <3>1. /\ Bound(socket, config.new, config.got)
          /\ (config.op = "up" /\ ~running) \/ (config.op = "port" /\ running)
      BY <2>2 DEF SocketInv, NewSocketsInv, StageInv
    <3>2. Bound(socket, config.new, port')
      <4>1. CASE config.new = None
        BY <3>1, <4>1, SocketsAssumption DEF Bound, None
      <4>2. CASE config.new # None
        BY <1>5, <3>1, <4>2, ConfigRestIsOK
      <4> QED
        BY <4>1, <4>2
    <3> QED
      BY <1>5, <1>8, <3>1, <3>2 DEF StageInv
  <2> QED
    BY <1>1, <2>1, <2>2
<1>12. NewSocketsInv'
  BY <1>8 DEF NewSocketsInv
<1>13. OldSocketsInv'
  <2>1. ASSUME NEW i \in DOMAIN old
        PROVE  socket[old[i]].st # "free" /\ \A f \in Families : config.new[f] # old[i]
    <3>2. old[i] \in Sockets /\ \E j \in DOMAIN old : old[j] = old[i]
      BY <1>4
    <3>1. /\ old[i] \in Sockets /\ old[i] # NoSocket
          /\ \E f \in Families : installed[f] = old[i]
      BY <1>4, <3>2, Zenon
    <3> QED
      BY <1>3, <1>10, <3>1 DEF Installed
  <2> QED
    BY <1>4, <1>5, <1>8, <2>1 DEF OldSocketsInv, Installed
<1>14. OpenInv'
  <2> SUFFICES ASSUME NEW k \in Sockets, socket[k].st = "open"
               PROVE  \/ \E f \in Families : config.new[f] = k
                      \/ \E i \in DOMAIN old : old[i] = k
    BY <1>5, <1>8 DEF OpenInv, Installed, ToClose
  <2>1. CASE Installed(k)
    BY <1>4, <2>1, SocketsAssumption DEF Installed
  <2>2. CASE ~Installed(k)
    BY <1>1, <2>2 DEF SocketInv, OpenInv, ToClose
  <2> QED
    BY <2>1, <2>2
<1>15. UsersInv'
  <2>1. ASSUME NEW r \in waiting, NEW k, Protected(r, k)
        PROVE  k \in Sockets /\ \E i \in DOMAIN old : old[i] = k
    BY <1>1, <1>4, <2>1, SocketsAssumption DEF Protected, Installed
  <2>2. \A s \in Senders : sending[s].at = "sending" => Protected(s, sending[s].sock)'
    BY <1>6, <1>8, <2>1 DEF SocketInv, UsersInv, Protected, ToClose
  <2>3. packet.at = "reply" => Protected("packet", packet.out)'
    BY <1>7, <1>8, <2>1 DEF SocketInv, UsersInv, Protected, ToClose
  <2> QED
    BY <2>2, <2>3 DEF SocketInv, UsersInv
<1> QED
  BY <1>9, <1>11, <1>12, <1>13, <1>14, <1>15 DEF SocketInv

(* ... and every action preserves it. *)
LEMMA SocketInvNext ==
    ASSUME SourceInv, SocketInv, [SocketsNext]_skVars
    PROVE  SocketInv'
<1>1. /\ SendersOK /\ packet \in [at : PacketPlaces, from : Addresses, via : Nat,
                                  sock : Sockets \cup {NoSocket}, out : Sockets \cup {NoSocket}]
      /\ InstalledOK
      /\ packet.at # "rest" => packet.sock \in Sockets /\ socket[packet.sock].st # "free"
      /\ packet.at = "rest" => packet = NoPacket
      /\ packet.at = "reply" => Protected("packet", packet.out)
  BY DEF SourceInv, SendersOK, SocketInv, ConfigOK, UsersInv
<1>2. CASE UNCHANGED skVars
  <2>1. UsersInv'
    BY <1>2 DEF skVars, SocketInv, UsersInv, Protected, Installed, ToClose
  <2> QED
    BY <1>2, <2>1, UsersMove DEF skVars, SocketSide
<1>3. ASSUME UNCHANGED <<sending, packet>>, SocketSide PROVE SocketInv'
  <2>1. UsersInv'
    BY <1>3 DEF SocketSide, SocketInv, UsersInv, Protected, Installed, ToClose
  <2> QED
    BY <1>3, <2>1, UsersMove
<1>4. ASSUME NEW f \in Families, RouteChange(f) \/ RouteNotification(f) PROVE SocketInv'
  BY <1>3, <1>4 DEF RouteChange, RouteNotification
<1>5. ASSUME NEW s \in Senders, CheckSource(s), UNCHANGED packet, SocketSide PROVE SocketInv'
  <2>1. PICK to : Move(s, to) /\ to.at # "sending"
    <3>1. AtRest.at = "rest" /\ [AtRest EXCEPT !.at = "reading"].at = "reading"
      BY DEF AtRest
    <3>2. CASE endpoint.addr = 0
      BY <1>5, <3>1, <3>2 DEF CheckSource
    <3>3. CASE endpoint.addr # 0
      <4> DEFINE to == [at |-> "lookup", addr |-> endpoint.addr, update |-> endpoint.update,
                        best |-> 0, sock |-> NoSocket]
      <4>1. to.at = "lookup"
        OBVIOUS
      <4> HIDE DEF to
      <4>2. \E index \in SourceIndex :
              Move(s, IF Resolved(index) THEN [AtRest EXCEPT !.at = "reading"] ELSE to)
        BY <1>5, <3>3 DEF CheckSource, to
      <4> QED
        BY <3>1, <4>1, <4>2
    <3> QED
      BY <3>2, <3>3
  <2> QED
    BY <1>1, <1>5, <2>1, SenderKeepsSockets
<1>6. ASSUME NEW s \in Senders, StartSend(s) PROVE SocketInv'
  BY <1>5, <1>6 DEF StartSend
<1>7. ASSUME NEW s \in Senders, NEW to, Move(s, to), UNCHANGED packet, SocketSide,
             to.at # "sending"
      PROVE  SocketInv'
  BY <1>1, <1>7, SenderKeepsSockets
<1>8. /\ AtRest.at = "rest" /\ [AtRest EXCEPT !.at = "reading"].at = "reading"
      /\ \A s \in Senders : sending[s] \in [at : SendPlaces, addr : Addresses, update : Nat,
                                            best : Nat, sock : Sockets \cup {NoSocket}]
  BY <1>1 DEF AtRest, SendersOK
<1>9. ASSUME NEW s \in Senders, LookupRoute(s) PROVE SocketInv'
  <2>1. \A b : [sending[s] EXCEPT !.at = "store", !.best = b].at = "store"
    BY <1>8
  <2> QED
    BY <1>7, <1>8, <1>9, <2>1 DEF LookupRoute
<1>10. ASSUME NEW s \in Senders, StoreSource(s) PROVE SocketInv'
  <2>1. /\ \A u : [sending[s] EXCEPT !.at = "again", !.update = u].at = "again"
        /\ [sending[s] EXCEPT !.at = "again"].at = "again"
    BY <1>8
  <2> QED
    BY <1>7, <1>10, <2>1 DEF StoreSource
<1>11. ASSUME NEW s \in Senders, LockAgain(s) PROVE SocketInv'
  BY <1>5, <1>7, <1>8, <1>11 DEF LockAgain
<1>12. ASSUME NEW s \in Senders, ReadSocket(s) PROVE SocketInv'
  <2> DEFINE sock == installed[Family[endpoint.addr]]
             to == [sending[s] EXCEPT !.at = "sending", !.sock = sock]
  <2>1. CASE sock = NoSocket
    BY <1>1, <1>8, <1>12, <2>1, SenderKeepsSockets DEF ReadSocket
  <2>2. CASE sock # NoSocket
    <3>1. Family[endpoint.addr] \in Families
      BY <1>12, AddressFamily DEF ReadSocket, SourceInv, CopyInv, Fits, EndpointOK
    <3>2. Protected(s, sock)
      BY <1>1, <2>2, <3>1 DEF InstalledOK, Protected, Installed
    <3>3. to.sock = sock
      BY <1>8
    <3>4. Move(s, to) /\ SocketSide /\ UNCHANGED packet
      BY <1>12, <2>2 DEF ReadSocket
    <3> QED
      BY <1>1, <3>2, <3>3, <3>4, SenderKeepsSockets
  <2> QED
    BY <2>1, <2>2
<1>13. ASSUME NEW s \in Senders, WskSend(s) PROVE SocketInv'
  BY <1>1, <1>8, <1>13, SenderKeepsSockets DEF WskSend
<1>14. ASSUME NEW a \in Arrivals, NEW k \in Sockets, Receive(a, k) PROVE SocketInv'
  BY <1>14, PacketKeepsSockets DEF Receive
<1>15. CASE CompareEndpoint \/ MoveEndpoint \/ StartReply \/ ReturnNetBufferLists
  <2>1. CASE CompareEndpoint
    <3>1. packet'.sock = packet.sock /\ packet'.at \in {"done", "move"} /\ packet.at = "held"
      BY <1>1, <2>1 DEF CompareEndpoint
    <3> QED
      BY <1>1, <2>1, <3>1, PacketKeepsSockets DEF CompareEndpoint
  <2>2. CASE MoveEndpoint
    <3>1. packet'.sock = packet.sock /\ packet'.at = "done" /\ packet.at = "move"
      BY <1>1, <2>2 DEF MoveEndpoint
    <3> QED
      BY <1>1, <2>2, <3>1, PacketKeepsSockets DEF MoveEndpoint
  <2>3. CASE StartReply
    <3>1. packet'.sock = packet.sock /\ packet'.at = "replying" /\ packet.at = "held"
      BY <1>1, <2>3 DEF StartReply
    <3> QED
      BY <1>1, <2>3, <3>1, PacketKeepsSockets DEF StartReply
  <2>4. CASE ReturnNetBufferLists
    <3>1. packet' = NoPacket /\ NoPacket.at = "rest"
      BY <2>4 DEF ReturnNetBufferLists, NoPacket
    <3> QED
      BY <2>4, <3>1, PacketKeepsSockets DEF ReturnNetBufferLists
  <2> QED
    BY <1>15, <2>1, <2>2, <2>3, <2>4
<1>16. CASE ReadReplySocket
  <2> DEFINE sock == installed[Family[packet.from]]
  <2>1. CASE sock = NoSocket
    <3>1. packet'.sock = packet.sock /\ packet'.at = "done" /\ packet.at = "replying"
      BY <1>1, <1>16, <2>1 DEF ReadReplySocket
    <3> QED
      BY <1>1, <1>16, <2>1, <3>1, PacketKeepsSockets DEF ReadReplySocket
  <2>2. CASE sock # NoSocket
    <3>1. Family[packet.from] \in Families
      BY <1>1, <1>16, AddressFamily DEF ReadReplySocket, SendersOK
    <3>2. Protected("packet", sock)
      BY <1>1, <2>2, <3>1 DEF InstalledOK, Protected, Installed
    <3>3. packet' = [packet EXCEPT !.at = "reply", !.out = sock]
      BY <1>16, <2>2 DEF ReadReplySocket
    <3> HIDE DEF sock
    <3>4. packet'.sock = packet.sock /\ packet'.at = "reply" /\ packet'.out = sock
      BY <1>1, <3>3
    <3> QED
      BY <1>1, <1>16, <2>2, <3>2, <3>4, PacketKeepsSockets DEF ReadReplySocket, sock
  <2> QED
    BY <2>1, <2>2
<1>17. CASE SendReply
  <2>1. packet'.sock = packet.sock /\ packet'.at = "done" /\ packet.at = "reply"
    BY <1>1, <1>17 DEF SendReply
  <2> QED
    BY <1>1, <1>17, <2>1, PacketKeepsSockets DEF SendReply
<1>18. ASSUME NEW a \in RemoteAddresses, SetEndpoint(a) PROVE SocketInv'
  BY <1>3, <1>18 DEF SetEndpoint
<1>19. CASE StartUp \/ (\E p \in Ports : SetPort(p)) \/ StartDown
  <2>1. UNCHANGED <<sending, packet, installed, socket>> /\ config.at = "rest"
    BY <1>19 DEF StartUp, SetPort, StartDown, ConfigOnly
  <2> QED
    BY <1>19, <2>1, StartKeepsSockets
<1>20. CASE RcuSynchronize \/ Closed \/ BeginClose \/ FreeSocket
  <2>1. UNCHANGED <<sending, packet, installed, port>>
    BY <1>20 DEF RcuSynchronize, Closed, BeginClose, FreeSocket, ConfigOnly
  <2> QED
    BY <1>20, <2>1, CloseKeepsSockets
<1>21. CASE Bind4 \/ Bind6
  <2>1. UNCHANGED <<sending, packet, installed, port, running>>
    BY <1>21 DEF Bind4, Bind6, ConfigOnly
  <2> QED
    BY <1>21, <2>1, BindKeepsSockets
<1>22. CASE Swap
  <2>1. UNCHANGED <<sending, packet, socket, running>>
    BY <1>22 DEF Swap, ConfigOnly
  <2> QED
    BY <1>22, <2>1, SwapKeepsSockets
<1> QED
  BY <1>2, <1>4, <1>6, <1>9, <1>10, <1>11, <1>12, <1>13, <1>14, <1>15, <1>16, <1>17, <1>18,
     <1>19, <1>20, <1>21, <1>22
     DEF SocketsNext

(* No interleaving of senders, replies and received packets with Up, Down and
   SetListenPort frees a socket that one of them still uses, and a device that
   is left alone has the sockets it should have (SocketReinit waits for the
   readers, CloseSocket for the packets).                                    *)
THEOREM SocketsStayAlive == SocketsSpec => []SocketsAlive
<1>1. SourceInv /\ SocketInv /\ [SocketsNext]_skVars => (SourceInv /\ SocketInv)'
  BY SourceInvNext, SocketInvNext DEF SocketInv, ConfigOK
<1> QED
  BY <1>1, SourceInvInit, SocketInvInit, InvGivesAlive, PTL DEF SocketsSpec

(* A packet to the peer leaves with a source that was found for its
   destination, whatever moves the endpoint or the routes between the lookup,
   its being stored and the sending (SocketResolvePeerEndpoint).              *)
THEOREM SourceIsFound == SocketsSpec => []SourceFits
<1>1. SourceInv /\ SocketInv /\ [SocketsNext]_skVars => (SourceInv /\ SocketInv)'
  BY SourceInvNext, SocketInvNext DEF SocketInv, ConfigOK
<1>2. SourceInv => SourceFits
  BY DEF SourceInv, CopyInv, Fits, EndpointInv, SourceFits
<1> QED
  BY <1>1, <1>2, SourceInvInit, SocketInvInit, PTL DEF SocketsSpec
=============================================================================

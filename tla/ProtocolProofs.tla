---------------------------- MODULE ProtocolProofs ----------------------------
(***************************************************************************)
(* What two devices promise each other, proved for any number of workers,  *)
(* messages and secrets: the sessions of the handshake (SessionsAgree,     *)
(* KeysRepeatOnlyRenewed, StaleInitiationsRefused), the cookies           *)
(* (CookieProvesAddress, LoadCounted) and the rate limiter's count of its  *)
(* entries (EntriesCounted).                                               *)
(*                                                                         *)
(* HandshakeInv says for each state of a handshake what it holds (PeerOK): *)
(* an initiator's chain is made of its own newest secret, a responder's of *)
(* the two that are agreed on. WorkerOK says it of what a worker copied    *)
(* before it gave up the lock, and that the handshake has not gone back    *)
(* behind it. MadeOnce gives a secret to one end, so that two sessions     *)
(* with the same keys would be of one initiation. CookieInv says that      *)
(* every cookie in a message, in the ring, in a worker's hands or stored   *)
(* by the sender is one the device sent, to the address it was made for.   *)
(***************************************************************************)
EXTENDS Handshake, CookieExchange, Ratelimiter, TLAPS, SequenceTheorems, FiniteSetTheorems

-----------------------------------------------------------------------------
(* Handshake: what the two ends agree on when r answers i. *)
Agreed(i, r) == <<i, r, {r, i}>>

Chains == {<<>>} \cup {<<i>> : i \in Nat} \cup {Agreed(i, r) : i, r \in Nat}

States == {"ZEROED", "CREATED_INITIATION", "CONSUMED_INITIATION",
           "CREATED_RESPONSE", "CONSUMED_RESPONSE"}

NoiseHandshakes ==
    [State : States, chain : Chains, EphemeralPrivate : Nat, RemoteEphemeral : Nat,
     RemoteIndex : Nat, index : Nat, LatestTimestamp : Nat, LastInitiationConsumption : Nat]

SessionKeys == {Agreed(i, r) : i, r \in Nat} \X {1, 2}

NewKeypairs == [Sending : SessionKeys, Receiving : SessionKeys, initiator : BOOLEAN,
                RemoteIndex : Nat, index : Nat]

HandshakeTypeOK ==
    /\ tai \in Nat /\ fresh \in Nat
    /\ peer \in [Ends -> NoiseHandshakes]
    /\ sessions \in [Ends -> Seq(NewKeypairs)]
    /\ hsWorker = [w \in HsWorkers |-> hsWorker[w]]
    /\ answered \in [Ends -> SUBSET messages]

(* An initiation was made by the end that it is not addressed to, and a    *)
(* response is sent when a session of its or of a later number stands.     *)
InitiationOK(m) ==
    /\ m.type = "initiation" /\ m.to \in Ends
    /\ m.e \in 1..fresh /\ m.SenderIndex = m.e /\ m.timestamp \in Nat
    /\ m.chain = <<m.e>>

ResponseOK(m) ==
    /\ m.type = "response" /\ m.to \in Ends
    /\ m.e \in 1..fresh /\ m.SenderIndex = m.e /\ m.timestamp \in Nat
    /\ m.ReceiverIndex \in 1..fresh /\ m.ReceiverIndex < m.e
    /\ m.chain = Agreed(m.ReceiverIndex, m.e)

Made(e, i) == \E m \in messages : m.type = "initiation" /\ m.to = Other(e) /\ m.e = i

Stands(e, r) == \E t \in ToSet(sessions[e]) : t.index >= r

MessageOK(m) ==
    \/ InitiationOK(m)
    \/ /\ ResponseOK(m)
       /\ Stands(Other(m.to), m.e)

MadeOnce ==
    \A m, n \in messages :
      m.type = "initiation" /\ n.type = "initiation" /\ m.e = n.e => m.to = n.to

(* What a handshake holds, state by state. *)
ResponseOf(s) == ChainOf(s)[2]

NewestInitiation(e) == \A q \in ToSet(sessions[e]) : InitiationOf(q) < peer[e].index

CreatedInitiation(e) ==
    /\ peer[e].index \in 1..fresh
    /\ peer[e].chain = <<peer[e].index>>
    /\ peer[e].EphemeralPrivate = peer[e].index
    /\ Made(e, peer[e].index)
    /\ NewestInitiation(e)

ConsumedInitiation(e) ==
    /\ peer[e].RemoteIndex \in 1..fresh
    /\ peer[e].RemoteEphemeral = peer[e].RemoteIndex
    /\ peer[e].chain = <<peer[e].RemoteIndex>>

CreatedResponse(e) ==
    /\ peer[e].index \in 1..fresh /\ peer[e].RemoteIndex \in 1..fresh
    /\ peer[e].RemoteIndex < peer[e].index
    /\ peer[e].chain = Agreed(peer[e].RemoteIndex, peer[e].index)
    /\ \A q \in ToSet(sessions[e]) : ResponseOf(q) < peer[e].index

ConsumedResponse(e) ==
    /\ peer[e].index \in 1..fresh /\ peer[e].RemoteIndex \in 1..fresh
    /\ \E i \in 1..fresh : /\ i <= peer[e].index
                           /\ peer[e].chain = Agreed(i, peer[e].RemoteIndex)
                           /\ Made(e, i)
    /\ Stands(Other(e), peer[e].RemoteIndex)
    /\ NewestInitiation(e)

PeerOK(e) ==
    /\ peer[e].State = "CREATED_INITIATION" => CreatedInitiation(e)
    /\ peer[e].State = "CONSUMED_INITIATION" => ConsumedInitiation(e)
    /\ peer[e].State = "CREATED_RESPONSE" => CreatedResponse(e)
    /\ peer[e].State = "CONSUMED_RESPONSE" => ConsumedResponse(e)

(* A session of either role of the exchange of i and r. *)
InitiatorOK(e, s, i, r) ==
    /\ s.initiator
    /\ s.Sending = <<Agreed(i, r), 1>> /\ s.Receiving = <<Agreed(i, r), 2>>
    /\ s.RemoteIndex = r /\ s.index >= i
    /\ Made(e, i) /\ Stands(Other(e), r)

ResponderOK(s, i, r) ==
    /\ ~s.initiator
    /\ s.Sending = <<Agreed(i, r), 2>> /\ s.Receiving = <<Agreed(i, r), 1>>
    /\ s.RemoteIndex = i /\ s.index = r

SessionOK(e, s) ==
    /\ s.index \in 1..fresh
    /\ \E i, r \in 1..fresh : InitiatorOK(e, s, i, r) \/ ResponderOK(s, i, r)

(* What a worker has in hand, and that the handshake has not gone back     *)
(* behind it.                                                              *)
Keeping == {"CREATED_INITIATION", "CREATED_RESPONSE", "CONSUMED_RESPONSE"}

ConsumeOK(w) ==
    LET k == hsWorker[w]
    IN  /\ k.end \in Ends
        /\ k.msg \in messages /\ k.msg.type = "initiation" /\ k.msg.to = k.end
        /\ \A m \in k.before : m.timestamp < k.msg.timestamp

AcceptOK(w) ==
    LET k == hsWorker[w]
    IN  /\ k.end \in Ends
        /\ k.msg \in messages /\ k.msg.type = "response" /\ k.msg.to = k.end
        /\ k.copy.State = "CREATED_INITIATION"
        /\ k.copy.index = k.msg.ReceiverIndex
        /\ k.copy.chain = <<k.copy.index>> /\ k.copy.EphemeralPrivate = k.copy.index
        /\ Made(k.end, k.copy.index)
        /\ peer[k.end].State = "CREATED_INITIATION" => k.copy.index <= peer[k.end].index

BeginOK(w) ==
    LET k == hsWorker[w]
    IN  /\ k.end \in Ends
        /\ \A m \in k.send :
             /\ ResponseOK(m) /\ m.to = Other(k.end)
             /\ peer[k.end].State \in Keeping => m.e <= peer[k.end].index

WorkerOK(w) ==
    LET k == hsWorker[w]
    IN  /\ k.at \in {"idle", "consume", "respond", "accept", "begin"}
        /\ k.at = "consume" => ConsumeOK(w)
        /\ k.at = "respond" => k.end \in Ends
        /\ k.at = "accept" => AcceptOK(w)
        /\ k.at = "begin" => BeginOK(w)

TimestampsOK ==
    \A e \in Ends : \A m \in answered[e] : m.timestamp <= peer[e].LatestTimestamp

HandshakeInv ==
    /\ HandshakeTypeOK
    /\ \A m \in messages : MessageOK(m)
    /\ MadeOnce
    /\ \A e \in Ends : PeerOK(e)
    /\ \A e \in Ends : \A s \in ToSet(sessions[e]) : SessionOK(e, s)
    /\ \A w \in HsWorkers : WorkerOK(w)
    /\ TimestampsOK
    /\ KeysRepeatOnlyRenewed

-----------------------------------------------------------------------------
(* The two ends, and the terms of the exchange. *)
LEMMA OtherEnd ==
    ASSUME NEW e \in Ends
    PROVE  /\ Other(e) \in Ends /\ Other(e) # e /\ Other(Other(e)) = e
           /\ \A f \in Ends : f = e \/ f = Other(e)
<1>1. PICK a, b \in Ends : a # b /\ Ends = {a, b}
  BY HandshakeAssumption
<1>2. /\ \A f \in Ends : Other(f) \in Ends /\ Other(f) # f
  BY <1>1 DEF Other
<1> QED
  BY <1>1, <1>2

LEMMA AppendPair ==
    ASSUME NEW x, NEW y
    PROVE  Append(<<x>>, y) = <<x, y>>
<1> DEFINE S == {x, y}
<1>1. <<x>> \in Seq(S) /\ y \in S /\ <<x, y>> \in Seq(S)
  OBVIOUS
<1> HIDE DEF S
<1>2. /\ Append(<<x>>, y) \in Seq(S) /\ Len(Append(<<x>>, y)) = 2
      /\ Append(<<x>>, y)[1] = x /\ Append(<<x>>, y)[2] = y
  BY <1>1, AppendProperties
<1>3. \A i \in 1..Len(Append(<<x>>, y)) : Append(<<x>>, y)[i] = <<x, y>>[i]
  BY <1>2
<1> QED
  BY <1>1, <1>2, <1>3, SeqEqual

LEMMA AppendTriple ==
    ASSUME NEW x, NEW y, NEW z
    PROVE  Append(<<x, y>>, z) = <<x, y, z>>
<1> DEFINE S == {x, y, z}
<1>1. <<x, y>> \in Seq(S) /\ z \in S /\ <<x, y, z>> \in Seq(S)
  OBVIOUS
<1> HIDE DEF S
<1>2. /\ Append(<<x, y>>, z) \in Seq(S) /\ Len(Append(<<x, y>>, z)) = 3
      /\ Append(<<x, y>>, z)[1] = x /\ Append(<<x, y>>, z)[2] = y
      /\ Append(<<x, y>>, z)[3] = z
  BY <1>1, AppendProperties
<1>3. \A i \in 1..Len(Append(<<x, y>>, z)) : Append(<<x, y>>, z)[i] = <<x, y, z>>[i]
  BY <1>2
<1> QED
  BY <1>1, <1>2, <1>3, SeqEqual

LEMMA AgreedIs ==
    ASSUME NEW i \in Nat, NEW r \in Nat
    PROVE  /\ Agreed(i, r)[1] = i /\ Agreed(i, r)[2] = r /\ Head(Agreed(i, r)) = i
           /\ Agreed(i, r) \in Chains
           /\ \A private, public :
                {private, public} = {i, r} =>
                  MixDh(MessageEphemeral(<<i>>, r), private, public) = Agreed(i, r)
<1>1. Agreed(i, r)[1] = i /\ Agreed(i, r)[2] = r /\ Head(Agreed(i, r)) = i
  BY DEF Agreed
<1>2. Agreed(i, r) \in Chains
  BY DEF Chains
<1>3. ASSUME NEW private, NEW public, {private, public} = {i, r}
      PROVE  MixDh(MessageEphemeral(<<i>>, r), private, public) = Agreed(i, r)
  <2> DEFINE dh == {private, public}
  <2> HIDE DEF dh
  <2>1. Append(<<i>>, r) = <<i, r>>
    BY AppendPair
  <2>2. Append(<<i, r>>, dh) = <<i, r, dh>>
    BY AppendTriple
  <2> USE DEF dh
  <2>3. dh = {r, i}
    BY <1>3
  <2> QED
    BY <2>1, <2>2, <2>3 DEF MixDh, MessageEphemeral, Agreed
<1> QED
  BY <1>1, <1>2, <1>3

LEMMA AgreedOnce ==
    ASSUME NEW i \in Nat, NEW r \in Nat, NEW j \in Nat, NEW q \in Nat, Agreed(i, r) = Agreed(j, q)
    PROVE  i = j /\ r = q
  BY DEF Agreed

LEMMA OneMore ==
    ASSUME NEW S, NEW s \in Seq(S), NEW x \in S
    PROVE  /\ Append(s, x) \in Seq(S)
           /\ ToSet(Append(s, x)) = ToSet(s) \cup {x}
           /\ DOMAIN Append(s, x) = DOMAIN s \cup {Len(s) + 1}
           /\ \A i \in DOMAIN s : Append(s, x)[i] = s[i] /\ i \in Nat /\ i <= Len(s)
           /\ Append(s, x)[Len(s) + 1] = x
  BY DEF ToSet

LEMMA SessionIs ==
    ASSUME NEW e, NEW q, NEW i \in Nat, NEW r \in Nat,
           InitiatorOK(e, q, i, r) \/ ResponderOK(q, i, r)
    PROVE  ChainOf(q) = Agreed(i, r) /\ InitiationOf(q) = i /\ ResponseOf(q) = r
<1>1. ChainOf(q) = Agreed(i, r)
  BY DEF InitiatorOK, ResponderOK, ChainOf
<1>2. Head(Agreed(i, r)) = i /\ Agreed(i, r)[2] = r
  BY AgreedIs
<1> QED
  BY <1>1, <1>2 DEF InitiationOf, ResponseOf

LEMMA ZeroIs ==
    ASSUME NEW h \in NoiseHandshakes
    PROVE  /\ [HandshakeZero(h) EXCEPT !.index = NoSecret] \in NoiseHandshakes
           /\ [HandshakeZero(h) EXCEPT !.index = NoSecret].State = "ZEROED"
           /\ [HandshakeZero(h) EXCEPT !.index = NoSecret].LatestTimestamp = h.LatestTimestamp
<1>1. <<>> \in Chains /\ NoSecret \in Nat
  BY DEF Chains, NoSecret
<1> DEFINE z == HandshakeZero(h)
<1>2. z \in NoiseHandshakes /\ z.State = "ZEROED" /\ z.LatestTimestamp = h.LatestTimestamp
  BY <1>1 DEF NoiseHandshakes, States, HandshakeZero
<1> HIDE DEF z
<1>3. /\ [z EXCEPT !.index = NoSecret] \in NoiseHandshakes
      /\ [z EXCEPT !.index = NoSecret].State = "ZEROED"
      /\ [z EXCEPT !.index = NoSecret].LatestTimestamp = h.LatestTimestamp
  BY <1>1, <1>2 DEF NoiseHandshakes
<1> QED
  BY <1>3 DEF z

-----------------------------------------------------------------------------
(* What a step never takes back: messages, numbers and sessions. *)
Grow ==
    /\ messages \subseteq messages'
    /\ fresh \in Nat /\ fresh' \in Nat /\ fresh <= fresh'
    /\ \A e \in Ends : ToSet(sessions[e]) \subseteq ToSet(sessions'[e])

(* What a step may do to a handshake that a worker has looked at. *)
Onward(e) ==
    \/ peer'[e].State \notin Keeping
    \/ peer'[e].index > fresh /\ peer'[e].index \in Nat
    \/ /\ peer[e].State \in Keeping
       /\ peer'[e].index = peer[e].index
       /\ peer'[e].State = "CREATED_INITIATION" => peer[e].State = "CREATED_INITIATION"

LEMMA TermsKept ==
    ASSUME Grow, NEW e \in Ends, NEW i, NEW r
    PROVE  (Made(e, i) => Made(e, i)') /\ (Stands(e, r) => Stands(e, r)')
  BY DEF Grow, Made, Stands

LEMMA MessageKept ==
    ASSUME Grow, NEW m, MessageOK(m)
    PROVE  MessageOK(m)'
<1>1. InitiationOK(m) => InitiationOK(m)'
  BY DEF Grow, InitiationOK
<1>2. ResponseOK(m) => ResponseOK(m)'
  BY DEF Grow, ResponseOK
<1>3. ResponseOK(m) /\ Stands(Other(m.to), m.e) => Stands(Other(m.to), m.e)'
  BY OtherEnd DEF Grow, Stands, ResponseOK
<1> QED
  BY <1>1, <1>2, <1>3 DEF MessageOK

LEMMA PeerKept ==
    ASSUME Grow, NEW e \in Ends, PeerOK(e), peer'[e] = peer[e],
           ToSet(sessions'[e]) = ToSet(sessions[e])
    PROVE  PeerOK(e)'
<1>1. NewestInitiation(e) => NewestInitiation(e)'
  BY DEF NewestInitiation
<1>2. CreatedInitiation(e) => CreatedInitiation(e)'
  BY <1>1 DEF CreatedInitiation, Grow, Made
<1>3. ConsumedInitiation(e) => ConsumedInitiation(e)'
  BY DEF ConsumedInitiation, Grow
<1>4. CreatedResponse(e) => CreatedResponse(e)'
  BY DEF CreatedResponse, Grow
<1>5. ConsumedResponse(e) => ConsumedResponse(e)'
  <2> SUFFICES ASSUME ConsumedResponse(e) PROVE ConsumedResponse(e)'
    OBVIOUS
  <2>1. PICK i \in 1..fresh : /\ i <= peer[e].index
                              /\ peer[e].chain = Agreed(i, peer[e].RemoteIndex)
                              /\ Made(e, i)
    BY DEF ConsumedResponse
  <2>2. Made(e, i)' /\ i \in 1..fresh'
    BY <2>1, TermsKept DEF Grow
  <2>3. Stands(Other(e), peer[e].RemoteIndex)'
    BY OtherEnd DEF ConsumedResponse, Stands, Grow
  <2> QED
    BY <1>1, <2>1, <2>2, <2>3 DEF ConsumedResponse, Grow
<1> QED
  BY <1>2, <1>3, <1>4, <1>5 DEF PeerOK

LEMMA SessionKept ==
    ASSUME Grow, NEW e \in Ends, NEW s, SessionOK(e, s)
    PROVE  SessionOK(e, s)'
<1>1. PICK i, r \in 1..fresh : InitiatorOK(e, s, i, r) \/ ResponderOK(s, i, r)
  BY DEF SessionOK
<1>2. i \in 1..fresh' /\ r \in 1..fresh' /\ s.index \in 1..fresh'
  BY DEF Grow, SessionOK
<1>3. InitiatorOK(e, s, i, r) => InitiatorOK(e, s, i, r)'
  BY TermsKept, OtherEnd DEF InitiatorOK
<1> QED
  BY <1>1, <1>2, <1>3 DEF SessionOK, ResponderOK

LEMMA WorkerKept ==
    ASSUME Grow, NEW w \in HsWorkers, WorkerOK(w), hsWorker'[w] = hsWorker[w],
           \A m \in messages : MessageOK(m), \A e \in Ends : Onward(e)
    PROVE  WorkerOK(w)'
<1>1. ConsumeOK(w) => ConsumeOK(w)'
  BY DEF ConsumeOK, Grow
<1>2. AcceptOK(w) => AcceptOK(w)'
  <2> SUFFICES ASSUME AcceptOK(w) PROVE AcceptOK(w)'
    OBVIOUS
  <2> DEFINE k == hsWorker[w]
  <2>1. /\ k.end \in Ends /\ k.msg \in messages /\ k.msg.type = "response"
        /\ k.copy.index = k.msg.ReceiverIndex
        /\ peer[k.end].State = "CREATED_INITIATION" => k.copy.index <= peer[k.end].index
    BY DEF AcceptOK
  <2>2. k.copy.index \in 1..fresh
    BY <2>1 DEF MessageOK, ResponseOK, InitiationOK
  <2>3. Made(k.end, k.copy.index)'
    BY DEF AcceptOK, Made, Grow
  <2>4. peer'[k.end].State = "CREATED_INITIATION" => k.copy.index <= peer'[k.end].index
    BY <2>1, <2>2 DEF Onward, Keeping, Grow
  <2> QED
    BY <2>3, <2>4 DEF AcceptOK, Grow
<1>3. BeginOK(w) => BeginOK(w)'
  <2> SUFFICES ASSUME BeginOK(w), NEW m \in hsWorker[w].send
               PROVE  /\ ResponseOK(m)' /\ m.to = Other(hsWorker[w].end)
                      /\ peer'[hsWorker[w].end].State \in Keeping
                           => m.e <= peer'[hsWorker[w].end].index
    BY DEF BeginOK
  <2> DEFINE e == hsWorker[w].end
  <2>1. /\ e \in Ends /\ ResponseOK(m) /\ m.to = Other(e)
        /\ peer[e].State \in Keeping => m.e <= peer[e].index
    BY DEF BeginOK
  <2>2. ResponseOK(m)' /\ m.e \in 1..fresh
    BY <2>1 DEF ResponseOK, Grow
  <2>3. peer'[e].State \in Keeping => m.e <= peer'[e].index
    <3> HIDE DEF e
    <3> QED
      BY <2>1, <2>2 DEF Onward, Grow
  <2> QED
    BY <2>1, <2>2, <2>3
<1> QED
  BY <1>1, <1>2, <1>3 DEF WorkerOK

(* The invariant after a step, from what the step changes. *)
LEMMA StepKeeps ==
    ASSUME HandshakeInv, Grow, HandshakeTypeOK',
           \A m \in messages' : m \in messages \/ MessageOK(m)',
           \A e \in Ends : \/ /\ peer'[e] = peer[e]
                              /\ ToSet(sessions'[e]) = ToSet(sessions[e])
                           \/ PeerOK(e)' /\ Onward(e),
           \A e \in Ends : \A s \in ToSet(sessions'[e]) :
               s \in ToSet(sessions[e]) \/ SessionOK(e, s)',
           \A w \in HsWorkers : hsWorker'[w] = hsWorker[w] \/ WorkerOK(w)',
           messages' = messages \/ MadeOnce',
           sessions' = sessions \/ KeysRepeatOnlyRenewed',
           \/ /\ answered' = answered
              /\ \A e \in Ends : peer'[e].LatestTimestamp = peer[e].LatestTimestamp
           \/ TimestampsOK'
    PROVE  HandshakeInv'
<1>0. /\ \A m \in messages : MessageOK(m)
      /\ \A e \in Ends : PeerOK(e)
      /\ \A e \in Ends : \A s \in ToSet(sessions[e]) : SessionOK(e, s)
      /\ \A w \in HsWorkers : WorkerOK(w)
      /\ HandshakeTypeOK /\ MadeOnce /\ TimestampsOK /\ KeysRepeatOnlyRenewed
  BY DEF HandshakeInv
<1>1. \A e \in Ends : Onward(e)
  BY <1>0 DEF Onward, Keeping, PeerOK, HandshakeTypeOK, NoiseHandshakes, States
<1>2. \A m \in messages' : MessageOK(m)'
  BY <1>0, MessageKept
<1>3. \A e \in Ends : PeerOK(e)'
  BY <1>0, PeerKept
<1>4. \A e \in Ends : \A s \in ToSet(sessions'[e]) : SessionOK(e, s)'
  BY <1>0, SessionKept
<1>5. \A w \in HsWorkers : WorkerOK(w)'
  BY <1>0, <1>1, WorkerKept
<1>6. MadeOnce'
  BY <1>0 DEF MadeOnce
<1>7. KeysRepeatOnlyRenewed'
  BY <1>0 DEF KeysRepeatOnlyRenewed
<1>8. TimestampsOK'
  BY <1>0 DEF TimestampsOK
<1> QED
  BY <1>2, <1>3, <1>4, <1>5, <1>6, <1>7, <1>8 DEF HandshakeInv

-----------------------------------------------------------------------------
(* The actions. *)
LEMMA HandshakeStarts == HandshakeInit => HandshakeInv
<1> SUFFICES ASSUME HandshakeInit PROVE HandshakeInv
  OBVIOUS
<1>1. HandshakeTypeOK
  BY DEF HandshakeInit, HandshakeTypeOK, NoiseHandshakes, States, Chains, NoSecret
<1>2. /\ \A e \in Ends : PeerOK(e)
      /\ \A w \in HsWorkers : WorkerOK(w)
  BY DEF HandshakeInit, PeerOK, WorkerOK, Waiting
<1>3. \A e \in Ends : ToSet(sessions[e]) = {}
  BY DEF HandshakeInit, ToSet
<1>4. KeysRepeatOnlyRenewed
  BY DEF HandshakeInit, KeysRepeatOnlyRenewed
<1> QED
  BY <1>1, <1>2, <1>3, <1>4 DEF HandshakeInit, HandshakeInv, MadeOnce, TimestampsOK

LEMMA TickKeeps ==
    ASSUME HandshakeInv, TaiTick
    PROVE  HandshakeInv'
<1>1. HandshakeTypeOK /\ HandshakeTypeOK'
  BY DEF HandshakeInv, HandshakeTypeOK, TaiTick
<1>2. Grow
  BY <1>1 DEF Grow, HandshakeTypeOK, TaiTick
<1> QED
  BY <1>1, <1>2, StepKeeps DEF TaiTick

LEMMA CreateInitiationKeeps ==
    ASSUME HandshakeInv, NEW e \in Ends, NoiseHandshakeCreateInitiation(e)
    PROVE  HandshakeInv'
<1> SUFFICES ASSUME NEW s, s = fresh + 1, NEW m,
                    m = [type |-> "initiation", to |-> Other(e), chain |-> <<s>>, e |-> s,
                         SenderIndex |-> s, ReceiverIndex |-> NoSecret, timestamp |-> tai]
             PROVE  HandshakeInv'
  OBVIOUS
<1>0. /\ HandshakeTypeOK /\ MadeOnce /\ PeerOK(e)
      /\ \A n \in messages : MessageOK(n)
      /\ \A q \in ToSet(sessions[e]) : SessionOK(e, q)
  BY DEF HandshakeInv
<1>1. /\ fresh' = s /\ messages' = messages \cup {m}
      /\ sessions' = sessions /\ hsWorker' = hsWorker /\ answered' = answered /\ tai' = tai
  BY DEF NoiseHandshakeCreateInitiation
<1>2. MessageEphemeral(<<>>, s) = <<s>>
  BY DEF MessageEphemeral
<1>3. /\ s \in Nat /\ Other(e) \in Ends
      /\ <<s>> \in Chains
  BY <1>0, OtherEnd DEF HandshakeTypeOK, Chains
<1> DEFINE h == [peer[e] EXCEPT !.State = "CREATED_INITIATION", !.chain = <<s>>,
                                !.EphemeralPrivate = s, !.index = s]
<1>4. /\ h \in NoiseHandshakes /\ h.State = "CREATED_INITIATION" /\ h.chain = <<s>>
      /\ h.EphemeralPrivate = s /\ h.index = s
      /\ h.LatestTimestamp = peer[e].LatestTimestamp
  BY ZenonT(60), <1>0, <1>3 DEF HandshakeTypeOK, NoiseHandshakes, States
<1>5. /\ HandshakeTypeOK'
      /\ \A f \in Ends : f # e => peer'[f] = peer[f]
      /\ peer'[e].State = "CREATED_INITIATION" /\ peer'[e].chain = <<s>>
      /\ peer'[e].EphemeralPrivate = s /\ peer'[e].index = s
      /\ peer'[e].LatestTimestamp = peer[e].LatestTimestamp
  <2>1. peer' = [peer EXCEPT ![e] = h]
    BY <1>2 DEF NoiseHandshakeCreateInitiation
  <2> HIDE DEF h
  <2> QED
    BY <1>0, <1>1, <1>3, <1>4, <2>1 DEF HandshakeTypeOK
<1>6. Grow /\ s = fresh + 1 /\ s \in 1..fresh'
  BY <1>0, <1>1 DEF Grow, HandshakeTypeOK
<1>7. /\ m \in messages' /\ m.type = "initiation" /\ m.to = Other(e) /\ m.e = s
      /\ m.SenderIndex = s /\ m.chain = <<s>> /\ m.timestamp = tai
  BY <1>1
<1>11. MessageOK(m)'
  BY <1>3, <1>6, <1>7, <1>0 DEF MessageOK, InitiationOK, HandshakeTypeOK
<1>8. MadeOnce'
  <2>1. \A n \in messages : n.type = "initiation" => n.e # s
    BY SMTT(30), <1>0, <1>6 DEF MessageOK, InitiationOK, ResponseOK, HandshakeTypeOK
  <2> QED
    BY <2>1, <1>0, <1>1, <1>7 DEF MadeOnce
<1>9. PeerOK(e)'
  <2>1. ASSUME NEW q \in ToSet(sessions[e]) PROVE InitiationOf(q) < s
    <3>1. PICK i, r \in 1..fresh : InitiatorOK(e, q, i, r) \/ ResponderOK(q, i, r)
      BY <1>0 DEF SessionOK
    <3>2. InitiationOf(q) = i
      BY <3>1, <1>0, SessionIs DEF HandshakeTypeOK
    <3> QED
      BY <3>2, <1>6, <1>0 DEF HandshakeTypeOK
  <2>2. NewestInitiation(e)'
    BY <2>1, <1>1, <1>5 DEF NewestInitiation
  <2>3. Made(e, s)'
    BY <1>7 DEF Made
  <2> QED
    BY <2>2, <2>3, <1>5, <1>6 DEF PeerOK, CreatedInitiation
<1>10. Onward(e)
  BY <1>5, <1>6, <1>0 DEF Onward, HandshakeTypeOK
<1> QED
  BY <1>1, <1>5, <1>6, <1>8, <1>9, <1>10, <1>11, StepKeeps

LEMMA ClearKeeps ==
    ASSUME HandshakeInv, NEW e \in Ends, ClearHandshake(e)
    PROVE  HandshakeInv'
<1>0. HandshakeTypeOK
  BY DEF HandshakeInv
<1>1. /\ UNCHANGED <<tai, fresh, messages, sessions, hsWorker, answered>>
      /\ peer' = [peer EXCEPT ![e] = [HandshakeZero(@) EXCEPT !.index = NoSecret]]
  BY DEF ClearHandshake
<1>2. /\ HandshakeTypeOK'
      /\ \A f \in Ends : f # e => peer'[f] = peer[f]
      /\ peer'[e].State = "ZEROED"
      /\ peer'[e].LatestTimestamp = peer[e].LatestTimestamp
  <2> DEFINE z == [HandshakeZero(peer[e]) EXCEPT !.index = NoSecret]
  <2>1. /\ z \in NoiseHandshakes /\ z.State = "ZEROED"
        /\ z.LatestTimestamp = peer[e].LatestTimestamp
    BY <1>0, ZeroIs DEF HandshakeTypeOK
  <2>2. peer' = [peer EXCEPT ![e] = z]
    BY <1>1
  <2> HIDE DEF z
  <2> QED
    BY <1>0, <1>1, <2>1, <2>2 DEF HandshakeTypeOK
<1>3. Grow
  BY <1>0, <1>1 DEF Grow, HandshakeTypeOK
<1>4. PeerOK(e)' /\ Onward(e)
  BY <1>2 DEF PeerOK, Onward, Keeping
<1> QED
  BY <1>1, <1>2, <1>3, <1>4, StepKeeps

LEMMA CheckInitiationKeeps ==
    ASSUME HandshakeInv, NEW w \in HsWorkers, NEW m \in messages, CheckInitiation(w, m)
    PROVE  HandshakeInv'
<1>0. HandshakeTypeOK /\ TimestampsOK /\ MessageOK(m) /\ \A n \in messages : MessageOK(n)
  BY DEF HandshakeInv
<1>1. /\ UNCHANGED <<tai, fresh, messages, peer, sessions, answered>>
      /\ m.type = "initiation" /\ m.timestamp > peer[m.to].LatestTimestamp
      /\ hsWorker' = [hsWorker EXCEPT ![w] = [at |-> "consume", end |-> m.to, msg |-> m,
                                              before |-> answered[m.to]]]
  BY DEF CheckInitiation
<1>2. InitiationOK(m)
  BY <1>0, <1>1 DEF MessageOK, ResponseOK
<1>3. /\ HandshakeTypeOK'
      /\ \A v \in HsWorkers : v # w => hsWorker'[v] = hsWorker[v]
      /\ hsWorker'[w] = [at |-> "consume", end |-> m.to, msg |-> m, before |-> answered[m.to]]
  BY <1>0, <1>1 DEF HandshakeTypeOK
<1>4. \A n \in answered[m.to] : n.timestamp < m.timestamp
  <2> TAKE n \in answered[m.to]
  <2>1. n \in messages /\ n.timestamp <= peer[m.to].LatestTimestamp
    BY <1>0, <1>2 DEF HandshakeTypeOK, TimestampsOK, InitiationOK
  <2>2. n.timestamp \in Nat /\ m.timestamp \in Nat /\ peer[m.to].LatestTimestamp \in Nat
    BY <1>0, <1>2, <2>1
    DEF HandshakeTypeOK, NoiseHandshakes, MessageOK, InitiationOK, ResponseOK
  <2> QED
    BY <2>1, <2>2, <1>1
<1>5. WorkerOK(w)'
  BY <1>1, <1>2, <1>3, <1>4 DEF WorkerOK, ConsumeOK, InitiationOK
<1>6. Grow
  BY <1>0, <1>1 DEF Grow, HandshakeTypeOK
<1> QED
  BY <1>1, <1>3, <1>5, <1>6, StepKeeps

LEMMA CopyHandshakeKeeps ==
    ASSUME HandshakeInv, NEW w \in HsWorkers, NEW m \in messages, CopyHandshake(w, m)
    PROVE  HandshakeInv'
<1>0. HandshakeTypeOK /\ MessageOK(m) /\ \A e \in Ends : PeerOK(e)
  BY DEF HandshakeInv
<1> DEFINE h == peer[m.to]
<1>1. /\ UNCHANGED <<tai, fresh, messages, peer, sessions, answered>>
      /\ m.type = "response" /\ h.index = m.ReceiverIndex /\ h.State = "CREATED_INITIATION"
      /\ hsWorker' = [hsWorker EXCEPT ![w] = [at |-> "accept", end |-> m.to, msg |-> m,
                                              copy |-> h]]
  BY DEF CopyHandshake
<1>2. ResponseOK(m) /\ CreatedInitiation(m.to)
  BY <1>0, <1>1 DEF MessageOK, InitiationOK, ResponseOK, PeerOK
<1>3. /\ HandshakeTypeOK'
      /\ \A v \in HsWorkers : v # w => hsWorker'[v] = hsWorker[v]
      /\ hsWorker'[w] = [at |-> "accept", end |-> m.to, msg |-> m, copy |-> h]
  BY <1>0, <1>1 DEF HandshakeTypeOK
<1>4. Made(m.to, h.index)'
  BY <1>1, <1>2 DEF CreatedInitiation, Made
<1>5. WorkerOK(w)'
  BY <1>1, <1>2, <1>3, <1>4, <1>0
  DEF WorkerOK, AcceptOK, ResponseOK, CreatedInitiation, HandshakeTypeOK
<1>6. Grow
  BY <1>0, <1>1 DEF Grow, HandshakeTypeOK
<1> QED
  BY <1>1, <1>3, <1>5, <1>6, StepKeeps

IsConsumed(g, h, c, r, x, t, n) ==
    g = [h EXCEPT !.State = "CONSUMED_INITIATION", !.chain = c, !.RemoteEphemeral = r,
                  !.RemoteIndex = x, !.LatestTimestamp = t, !.LastInitiationConsumption = n]

LEMMA ConsumedIs ==
    ASSUME NEW h \in NoiseHandshakes, NEW c \in Chains, NEW r \in Nat, NEW x \in Nat,
           NEW t \in Nat, NEW n \in Nat, NEW g, IsConsumed(g, h, c, r, x, t, n)
    PROVE  /\ g \in NoiseHandshakes /\ g.State = "CONSUMED_INITIATION" /\ g.chain = c
           /\ g.RemoteEphemeral = r /\ g.RemoteIndex = x /\ g.LatestTimestamp = t
  BY DEF NoiseHandshakes, States, IsConsumed

LEMMA ConsumeInitiationKeeps ==
    ASSUME HandshakeInv, NEW w \in HsWorkers, NoiseHandshakeConsumeInitiation(w)
    PROVE  HandshakeInv'
<1>0. /\ HandshakeTypeOK /\ TimestampsOK /\ ConsumeOK(w)
      /\ \A n \in messages : MessageOK(n)
  BY DEF HandshakeInv, WorkerOK, NoiseHandshakeConsumeInitiation
<1> SUFFICES ASSUME NEW e, e = hsWorker[w].end, NEW m, m = hsWorker[w].msg
             PROVE  HandshakeInv'
  OBVIOUS
<1>1. /\ UNCHANGED <<tai, fresh, messages, sessions>>
      /\ answered' = [answered EXCEPT ![e] = @ \cup {m}]
      /\ hsWorker' = [hsWorker EXCEPT ![w] = [at |-> "respond", end |-> e]]
  BY DEF NoiseHandshakeConsumeInitiation
<1>2. e \in Ends /\ m \in messages /\ InitiationOK(m)
  BY <1>0 DEF ConsumeOK, MessageOK, ResponseOK
<1>3. /\ m.chain = <<m.e>> /\ m.SenderIndex = m.e /\ m.e \in 1..fresh /\ m.e \in Nat
      /\ m.timestamp \in Nat /\ <<m.e>> \in Chains
  BY <1>0, <1>2 DEF InitiationOK, HandshakeTypeOK, Chains
<1>4. /\ LatestOf(peer[e], m.timestamp) \in Nat
      /\ LatestOf(peer[e], m.timestamp) >= m.timestamp
      /\ LatestOf(peer[e], m.timestamp) >= peer[e].LatestTimestamp
  BY SMTT(30), <1>0, <1>2, <1>3 DEF LatestOf, HandshakeTypeOK, NoiseHandshakes
<1>5. PICK h :
        /\ peer' = [peer EXCEPT ![e] = h]
        /\ IsConsumed(h, peer[e], m.chain, m.e, m.SenderIndex,
                      LatestOf(peer[e], m.timestamp), tai)
  BY DEF NoiseHandshakeConsumeInitiation, IsConsumed
<1>11. /\ h \in NoiseHandshakes /\ h.State = "CONSUMED_INITIATION" /\ h.chain = <<m.e>>
       /\ h.RemoteEphemeral = m.e /\ h.RemoteIndex = m.e
       /\ h.LatestTimestamp = LatestOf(peer[e], m.timestamp)
  <2>1. /\ peer[e] \in NoiseHandshakes /\ m.chain \in Chains /\ m.SenderIndex \in Nat
        /\ tai \in Nat
    BY <1>0, <1>2, <1>3 DEF HandshakeTypeOK
  <2> QED
    BY SMTT(30), <2>1, <1>3, <1>4, <1>5, ConsumedIs
<1>6. /\ HandshakeTypeOK'
      /\ \A f \in Ends : f # e => peer'[f] = peer[f] /\ answered'[f] = answered[f]
      /\ peer'[e] = h
      /\ answered'[e] = answered[e] \cup {m}
      /\ \A v \in HsWorkers : v # w => hsWorker'[v] = hsWorker[v]
      /\ hsWorker'[w] = [at |-> "respond", end |-> e]
  BY <1>0, <1>1, <1>2, <1>5, <1>11 DEF HandshakeTypeOK
<1>7. Grow
  BY <1>0, <1>1 DEF Grow, HandshakeTypeOK
<1>8. PeerOK(e)' /\ Onward(e)
  BY <1>1, <1>3, <1>11, <1>6 DEF PeerOK, ConsumedInitiation, Onward, Keeping
<1>9. WorkerOK(w)'
  BY <1>2, <1>6 DEF WorkerOK
<1>10. TimestampsOK'
  <2> SUFFICES ASSUME NEW f \in Ends, NEW n \in answered'[f]
               PROVE  n.timestamp <= peer'[f].LatestTimestamp
    BY DEF TimestampsOK
  <2>1. CASE f # e
    BY <2>1, <1>0, <1>6 DEF TimestampsOK
  <2>2. CASE f = e /\ n = m
    BY <2>2, <1>4, <1>11, <1>6
  <2>3. CASE f = e /\ n \in answered[e]
    <3>1. n.timestamp \in Nat /\ peer[e].LatestTimestamp \in Nat
      BY <2>3, <1>0
      DEF HandshakeTypeOK, NoiseHandshakes, MessageOK, InitiationOK, ResponseOK
    <3>2. n.timestamp <= peer[e].LatestTimestamp
      BY <2>3, <1>0 DEF TimestampsOK
    <3> QED
      BY <2>3, <3>1, <3>2, <1>4, <1>11, <1>6
  <2> QED
    BY <2>1, <2>2, <2>3, <1>6
<1> QED
  BY <1>1, <1>6, <1>7, <1>8, <1>9, <1>10, StepKeeps

LEMMA RestKeeps ==
    ASSUME HandshakeInv, NEW w \in HsWorkers, hsWorker' = [hsWorker EXCEPT ![w] = Waiting],
           UNCHANGED <<tai, fresh, messages, peer, sessions, answered>>
    PROVE  HandshakeInv'
<1>0. HandshakeTypeOK
  BY DEF HandshakeInv
<1>1. /\ HandshakeTypeOK'
      /\ \A v \in HsWorkers : v # w => hsWorker'[v] = hsWorker[v]
      /\ hsWorker'[w] = Waiting
  BY <1>0 DEF HandshakeTypeOK
<1>2. WorkerOK(w)'
  BY <1>1 DEF WorkerOK, Waiting
<1>3. Grow
  BY <1>0 DEF Grow, HandshakeTypeOK
<1> QED
  BY <1>1, <1>2, <1>3, StepKeeps

IsResponded(g, h, c, s) ==
    g = [h EXCEPT !.State = "CREATED_RESPONSE", !.chain = c, !.EphemeralPrivate = s,
                  !.index = s]

LEMMA RespondedIs ==
    ASSUME NEW h \in NoiseHandshakes, NEW c \in Chains, NEW s \in Nat, NEW g,
           IsResponded(g, h, c, s)
    PROVE  /\ g \in NoiseHandshakes /\ g.State = "CREATED_RESPONSE" /\ g.chain = c
           /\ g.index = s /\ g.RemoteIndex = h.RemoteIndex
           /\ g.LatestTimestamp = h.LatestTimestamp
  BY DEF NoiseHandshakes, States, IsResponded

LEMMA CreateResponseKeeps ==
    ASSUME HandshakeInv, NEW w \in HsWorkers, NoiseHandshakeCreateResponse(w)
    PROVE  HandshakeInv'
<1>0. /\ HandshakeTypeOK /\ hsWorker[w].end \in Ends
      /\ \A f \in Ends : PeerOK(f) /\ \A q \in ToSet(sessions[f]) : SessionOK(f, q)
  BY DEF HandshakeInv, WorkerOK, NoiseHandshakeCreateResponse
<1>1. CASE peer[hsWorker[w].end].State # "CONSUMED_INITIATION"
  BY <1>1, RestKeeps DEF NoiseHandshakeCreateResponse
<1>2. CASE peer[hsWorker[w].end].State = "CONSUMED_INITIATION"
  <2> SUFFICES ASSUME NEW e \in Ends, e = hsWorker[w].end, NEW s, s = fresh + 1,
                      NEW i, i = peer[e].RemoteIndex, NEW m,
                      m = [type |-> "response", to |-> Other(e), chain |-> Agreed(i, s),
                           e |-> s, SenderIndex |-> s, ReceiverIndex |-> i, timestamp |-> 0]
               PROVE  HandshakeInv'
    BY <1>0
  <2>1. /\ s \in Nat /\ i \in 1..fresh /\ i \in Nat /\ Agreed(i, s) \in Chains
        /\ peer[e].chain = <<i>> /\ peer[e].RemoteEphemeral = i
        /\ MixDh(MessageEphemeral(peer[e].chain, s), s, peer[e].RemoteEphemeral) = Agreed(i, s)
    <3>1. s \in Nat /\ i \in 1..fresh /\ i \in Nat
      BY <1>0, <1>2 DEF PeerOK, ConsumedInitiation, HandshakeTypeOK
    <3>2. peer[e].chain = <<i>> /\ peer[e].RemoteEphemeral = i
      BY <1>0, <1>2 DEF PeerOK, ConsumedInitiation
    <3>3. {s, i} = {i, s}
      OBVIOUS
    <3> QED
      BY SMTT(30), <3>1, <3>2, <3>3, AgreedIs
  <2> DEFINE k == [at |-> "begin", end |-> e, send |-> {m}]
  <2>2. PICK h :
          /\ UNCHANGED <<tai, messages, sessions, answered>>
          /\ fresh' = s
          /\ peer' = [peer EXCEPT ![e] = h]
          /\ IsResponded(h, peer[e], Agreed(i, s), s)
          /\ hsWorker' = [hsWorker EXCEPT ![w] = k]
    BY <1>2, <2>1 DEF NoiseHandshakeCreateResponse, IsResponded
  <2>3. /\ h \in NoiseHandshakes /\ h.State = "CREATED_RESPONSE" /\ h.chain = Agreed(i, s)
        /\ h.index = s /\ h.RemoteIndex = i
        /\ h.LatestTimestamp = peer[e].LatestTimestamp
    <3>1. peer[e] \in NoiseHandshakes
      BY <1>0 DEF HandshakeTypeOK
    <3> QED
      BY SMTT(30), <3>1, <2>1, <2>2, RespondedIs
  <2>4. k.at = "begin" /\ k.end = e /\ k.send = {m}
    OBVIOUS
  <2> HIDE DEF k
  <2>5. /\ HandshakeTypeOK'
        /\ \A f \in Ends : f # e => peer'[f] = peer[f]
        /\ peer'[e] = h
        /\ \A v \in HsWorkers : v # w => hsWorker'[v] = hsWorker[v]
        /\ hsWorker'[w] = k
    BY <1>0, <2>1, <2>2, <2>3 DEF HandshakeTypeOK
  <2>6. Grow /\ s \in 1..fresh' /\ i \in 1..fresh' /\ i < s
    BY <1>0, <2>1, <2>2 DEF Grow, HandshakeTypeOK
  <2>7. \A q \in ToSet(sessions[e]) : ResponseOf(q) < s
    <3> TAKE q \in ToSet(sessions[e])
    <3>1. PICK j, r \in 1..fresh : InitiatorOK(e, q, j, r) \/ ResponderOK(q, j, r)
      BY <1>0 DEF SessionOK
    <3>2. ResponseOf(q) = r
      BY <3>1, <1>0, SessionIs DEF HandshakeTypeOK
    <3> QED
      BY <3>2, <1>0 DEF HandshakeTypeOK
  <2>8. PeerOK(e)'
    BY <2>2, <2>3, <2>5, <2>6, <2>7 DEF PeerOK, CreatedResponse
  <2>9. Onward(e)
    BY <2>1, <2>3, <2>5, <1>0 DEF Onward, HandshakeTypeOK
  <2>10. ResponseOK(m)' /\ m.to = Other(e) /\ m.e = s
    <3>1. /\ m.type = "response" /\ m.to = Other(e) /\ m.e = s /\ m.SenderIndex = s
          /\ m.chain = Agreed(i, s) /\ m.ReceiverIndex = i /\ m.timestamp = 0
      OBVIOUS
    <3> QED
      BY <3>1, <2>6, OtherEnd DEF ResponseOK
  <2>11. WorkerOK(w)'
    <3>1. BeginOK(w)'
      BY SMTT(30), <2>1, <2>3, <2>4, <2>5, <2>10 DEF BeginOK
    <3> QED
      BY <3>1, <2>4, <2>5 DEF WorkerOK
  <2> QED
    BY <2>2, <2>3, <2>5, <2>6, <2>8, <2>9, <2>11, StepKeeps
<1> QED
  BY <1>1, <1>2

IsAccepted(g, h, c, r) ==
    g = [h EXCEPT !.State = "CONSUMED_RESPONSE", !.chain = c, !.RemoteEphemeral = r,
                  !.RemoteIndex = r]

LEMMA AcceptedIs ==
    ASSUME NEW h \in NoiseHandshakes, NEW c \in Chains, NEW r \in Nat, NEW g,
           IsAccepted(g, h, c, r)
    PROVE  /\ g \in NoiseHandshakes /\ g.State = "CONSUMED_RESPONSE" /\ g.chain = c
           /\ g.RemoteIndex = r /\ g.index = h.index
           /\ g.LatestTimestamp = h.LatestTimestamp
  BY DEF NoiseHandshakes, States, IsAccepted

LEMMA ConsumeResponseKeeps ==
    ASSUME HandshakeInv, NEW w \in HsWorkers, NoiseHandshakeConsumeResponse(w)
    PROVE  HandshakeInv'
<1>0. /\ HandshakeTypeOK /\ AcceptOK(w)
      /\ \A n \in messages : MessageOK(n)
      /\ \A f \in Ends : PeerOK(f)
  BY DEF HandshakeInv, WorkerOK, NoiseHandshakeConsumeResponse
<1> SUFFICES ASSUME NEW e \in Ends, e = hsWorker[w].end,
                    NEW m \in messages, m = hsWorker[w].msg,
                    NEW copy, copy = hsWorker[w].copy, NEW i, i = copy.index
             PROVE  HandshakeInv'
  BY <1>0 DEF AcceptOK
<1> DEFINE c == MixDh(MessageEphemeral(copy.chain, m.e), copy.EphemeralPrivate, m.e)
<1>1. CASE ~(c = m.chain /\ StillTheSame(peer[e], copy))
  BY <1>1, RestKeeps DEF NoiseHandshakeConsumeResponse
<1>2. CASE c = m.chain /\ StillTheSame(peer[e], copy)
  <2>1. /\ ResponseOK(m) /\ Stands(Other(e), m.e) /\ m.to = e
        /\ copy.State = "CREATED_INITIATION" /\ i = m.ReceiverIndex
        /\ Made(e, i)
        /\ peer[e].State = "CREATED_INITIATION" => i <= peer[e].index
    BY <1>0 DEF AcceptOK, MessageOK, InitiationOK
  <2>2. /\ peer[e].State = "CREATED_INITIATION"
        /\ CreatedInitiation(e) /\ i <= peer[e].index
    BY <2>1, <1>0, <1>2 DEF StillTheSame, PeerOK
  <2>3. PICK r : r = m.e /\ r \in 1..fresh /\ r \in Nat /\ m.SenderIndex = r
                 /\ m.chain = Agreed(i, r) /\ i \in 1..fresh /\ i \in Nat
                 /\ Agreed(i, r) \in Chains
    <3>1. /\ m.e \in 1..fresh /\ m.e \in Nat /\ m.SenderIndex = m.e
          /\ m.chain = Agreed(i, m.e) /\ i \in 1..fresh /\ i \in Nat
      BY <2>1, <1>0 DEF ResponseOK, HandshakeTypeOK
    <3> QED
      BY <3>1, AgreedIs
  <2> DEFINE k == [at |-> "begin", end |-> e, send |-> {}]
  <2>4. PICK h :
          /\ UNCHANGED <<tai, fresh, messages, sessions, answered>>
          /\ peer' = [peer EXCEPT ![e] = h]
          /\ IsAccepted(h, peer[e], Agreed(i, r), r)
          /\ hsWorker' = [hsWorker EXCEPT ![w] = k]
    BY <1>2, <2>3 DEF NoiseHandshakeConsumeResponse, IsAccepted
  <2>5. /\ h \in NoiseHandshakes /\ h.State = "CONSUMED_RESPONSE" /\ h.chain = Agreed(i, r)
        /\ h.RemoteIndex = r /\ h.index = peer[e].index
        /\ h.LatestTimestamp = peer[e].LatestTimestamp
    <3>1. peer[e] \in NoiseHandshakes
      BY <1>0 DEF HandshakeTypeOK
    <3> QED
      BY <3>1, <2>3, <2>4, AcceptedIs
  <2>6. k.at = "begin" /\ k.end = e /\ k.send = {}
    OBVIOUS
  <2> HIDE DEF c, k
  <2>7. /\ HandshakeTypeOK'
        /\ \A f \in Ends : f # e => peer'[f] = peer[f]
        /\ peer'[e] = h
        /\ \A v \in HsWorkers : v # w => hsWorker'[v] = hsWorker[v]
        /\ hsWorker'[w] = k
    BY <1>0, <2>4, <2>5 DEF HandshakeTypeOK
  <2>8. Grow
    BY <1>0, <2>4 DEF Grow, HandshakeTypeOK
  <2>9. /\ Made(e, i)' /\ Stands(Other(e), r)'
    BY <2>1, <2>3, <2>8, TermsKept, OtherEnd
  <2>10. NewestInitiation(e)'
    BY <2>2, <2>4, <2>5, <2>7 DEF CreatedInitiation, NewestInitiation
  <2>11. ConsumedResponse(e)'
    <3>1. Stands(Other(e), peer[e].RemoteIndex)'
      BY <2>5, <2>7, <2>9 DEF Stands
    <3> QED
      BY SMTT(60), <3>1, <2>2, <2>3, <2>4, <2>5, <2>7, <2>9, <2>10
      DEF ConsumedResponse, CreatedInitiation
  <2>12. PeerOK(e)' /\ Onward(e)
    BY <2>2, <2>5, <2>7, <2>11 DEF PeerOK, Onward, Keeping
  <2>13. WorkerOK(w)'
    BY <2>6, <2>7 DEF WorkerOK, BeginOK
  <2> QED
    BY <2>4, <2>5, <2>7, <2>8, <2>12, <2>13, StepKeeps
<1> QED
  BY <1>1, <1>2

(* The keypair that a handshake gives, in either role, and that its keys were *)
(* not used before.                                                           *)
LEMMA NewKeypairIs ==
    ASSUME HandshakeInv, NEW e \in Ends,
           peer[e].State \in {"CREATED_RESPONSE", "CONSUMED_RESPONSE"},
           NEW q, q = NewKeypair(peer[e])
    PROVE  /\ q \in NewKeypairs /\ SessionOK(e, q) /\ q.index = peer[e].index
           /\ \A p \in ToSet(sessions[e]) :
                p.Sending = q.Sending => q.initiator /\ q.index > InitiationOf(q)
<1>0. HandshakeTypeOK /\ PeerOK(e) /\ \A p \in ToSet(sessions[e]) : SessionOK(e, p)
  BY DEF HandshakeInv
<1>1. CASE peer[e].State = "CREATED_RESPONSE"
  <2>1. PICK i, s \in 1..fresh : /\ i = peer[e].RemoteIndex /\ s = peer[e].index
                                 /\ peer[e].chain = Agreed(i, s) /\ i \in Nat /\ s \in Nat
    BY <1>0, <1>1 DEF PeerOK, CreatedResponse, HandshakeTypeOK
  <2>2. /\ q.Sending = <<Agreed(i, s), 2>> /\ q.Receiving = <<Agreed(i, s), 1>>
        /\ q.initiator = FALSE /\ q.RemoteIndex = i /\ q.index = s
        /\ q = [Sending |-> q.Sending, Receiving |-> q.Receiving, initiator |-> q.initiator,
                RemoteIndex |-> q.RemoteIndex, index |-> q.index]
    BY <1>1, <2>1 DEF NewKeypair, IAmTheInitiator
  <2>3. q \in NewKeypairs
    <3>1. /\ <<Agreed(i, s), 2>> \in SessionKeys /\ <<Agreed(i, s), 1>> \in SessionKeys
      BY <2>1 DEF SessionKeys
    <3> QED
      BY <2>1, <2>2, <3>1 DEF NewKeypairs
  <2>4. ResponderOK(q, i, s)
    BY <2>2 DEF ResponderOK
  <2>5. SessionOK(e, q) /\ ResponseOf(q) = s
    BY <2>1, <2>2, <2>4, SessionIs DEF SessionOK
  <2>6. ASSUME NEW p \in ToSet(sessions[e]), p.Sending = q.Sending
        PROVE  FALSE
    <3>1. ResponseOf(p) < s
      BY <1>0, <1>1, <2>1 DEF PeerOK, CreatedResponse
    <3>2. ResponseOf(p) = ResponseOf(q)
      BY <2>6 DEF ResponseOf, ChainOf
    <3> QED
      BY <2>1, <2>5, <3>1, <3>2
  <2> QED
    BY <2>1, <2>2, <2>3, <2>5, <2>6
<1>2. CASE peer[e].State = "CONSUMED_RESPONSE"
  <2>1. PICK i, r, x \in 1..fresh :
             /\ r = peer[e].RemoteIndex /\ x = peer[e].index /\ i <= x
             /\ peer[e].chain = Agreed(i, r) /\ i \in Nat /\ r \in Nat /\ x \in Nat
             /\ Made(e, i) /\ Stands(Other(e), r) /\ NewestInitiation(e)
    <3>1. ConsumedResponse(e) /\ fresh \in Nat
      BY <1>0, <1>2 DEF PeerOK, HandshakeTypeOK
    <3>2. PICK i \in 1..fresh : /\ i <= peer[e].index
                                /\ peer[e].chain = Agreed(i, peer[e].RemoteIndex)
                                /\ Made(e, i)
      BY <3>1 DEF ConsumedResponse
    <3>3. /\ peer[e].RemoteIndex \in 1..fresh /\ peer[e].index \in 1..fresh
          /\ peer[e].RemoteIndex \in Nat /\ peer[e].index \in Nat /\ i \in Nat
          /\ Stands(Other(e), peer[e].RemoteIndex) /\ NewestInitiation(e)
      BY <3>1 DEF ConsumedResponse
    <3> QED
      BY <3>2, <3>3
  <2>2. /\ q.Sending = <<Agreed(i, r), 1>> /\ q.Receiving = <<Agreed(i, r), 2>>
        /\ q.initiator = TRUE /\ q.RemoteIndex = r /\ q.index = x
        /\ q = [Sending |-> q.Sending, Receiving |-> q.Receiving, initiator |-> q.initiator,
                RemoteIndex |-> q.RemoteIndex, index |-> q.index]
    BY <1>2, <2>1 DEF NewKeypair, IAmTheInitiator
  <2>3. q \in NewKeypairs
    <3>1. /\ <<Agreed(i, r), 2>> \in SessionKeys /\ <<Agreed(i, r), 1>> \in SessionKeys
      BY <2>1 DEF SessionKeys
    <3> QED
      BY <2>1, <2>2, <3>1 DEF NewKeypairs
  <2>4. InitiatorOK(e, q, i, r)
    BY <2>1, <2>2 DEF InitiatorOK
  <2>5. SessionOK(e, q) /\ InitiationOf(q) = i
    BY <2>1, <2>2, <2>4, SessionIs DEF SessionOK
  <2>6. ASSUME NEW p \in ToSet(sessions[e]), p.Sending = q.Sending
        PROVE  q.initiator /\ q.index > InitiationOf(q)
    <3>1. InitiationOf(p) < x
      BY <2>1 DEF NewestInitiation
    <3>2. InitiationOf(p) = InitiationOf(q)
      BY <2>6 DEF InitiationOf, ChainOf
    <3> QED
      BY <2>1, <2>2, <2>5, <3>1, <3>2
  <2> QED
    BY <2>1, <2>2, <2>3, <2>5, <2>6
<1> QED
  BY <1>1, <1>2

LEMMA BeginSessionKeeps ==
    ASSUME HandshakeInv, NEW w \in HsWorkers, NoiseHandshakeBeginSession(w)
    PROVE  HandshakeInv'
<1>0. /\ HandshakeTypeOK /\ BeginOK(w) /\ MadeOnce /\ KeysRepeatOnlyRenewed
      /\ \A f \in Ends : PeerOK(f)
  BY DEF HandshakeInv, WorkerOK, NoiseHandshakeBeginSession
<1> SUFFICES ASSUME NEW e \in Ends, e = hsWorker[w].end, NEW send, send = hsWorker[w].send
             PROVE  HandshakeInv'
  BY <1>0 DEF BeginOK
<1>1. CASE peer[e].State \notin {"CREATED_RESPONSE", "CONSUMED_RESPONSE"}
  BY <1>1, RestKeeps DEF NoiseHandshakeBeginSession
<1>2. CASE peer[e].State \in {"CREATED_RESPONSE", "CONSUMED_RESPONSE"}
  <2>1. /\ peer[e].index \in 1..fresh /\ peer[e].index \in Nat /\ peer[e].index # NoSecret
        /\ peer[e].State \in Keeping
    BY <1>0, <1>2
    DEF PeerOK, CreatedResponse, ConsumedResponse, Keeping, HandshakeTypeOK, NoSecret
  <2>2. PICK q, h :
          /\ q = NewKeypair(peer[e])
          /\ h = [HandshakeZero(peer[e]) EXCEPT !.index = NoSecret]
          /\ sessions' = [sessions EXCEPT ![e] = Append(sessions[e], q)]
          /\ peer' = [peer EXCEPT ![e] = h]
          /\ messages' = messages \cup send
          /\ hsWorker' = [hsWorker EXCEPT ![w] = Waiting]
          /\ UNCHANGED <<tai, fresh, answered>>
    BY <1>2, <2>1 DEF NoiseHandshakeBeginSession
  <2>3. /\ q \in NewKeypairs /\ SessionOK(e, q) /\ q.index = peer[e].index
        /\ \A p \in ToSet(sessions[e]) :
             p.Sending = q.Sending => q.initiator /\ q.index > InitiationOf(q)
    BY <1>2, <2>2, NewKeypairIs
  <2>4. /\ h \in NoiseHandshakes /\ h.State = "ZEROED"
        /\ h.LatestTimestamp = peer[e].LatestTimestamp
    <3>1. peer[e] \in NoiseHandshakes
      BY <1>0 DEF HandshakeTypeOK
    <3> QED
      BY <2>2, <3>1, ZeroIs
  <2>5. PICK old : /\ old = sessions[e] /\ old \in Seq(NewKeypairs)
    BY <1>0 DEF HandshakeTypeOK
  <2>6. /\ Append(old, q) \in Seq(NewKeypairs)
        /\ ToSet(Append(old, q)) = ToSet(old) \cup {q}
        /\ DOMAIN Append(old, q) = DOMAIN old \cup {Len(old) + 1}
        /\ \A i \in DOMAIN old : Append(old, q)[i] = old[i] /\ i \in Nat /\ i <= Len(old)
        /\ Append(old, q)[Len(old) + 1] = q
    BY <2>3, <2>5, OneMore
  <2>7. /\ HandshakeTypeOK'
        /\ \A f \in Ends : f # e => peer'[f] = peer[f] /\ sessions'[f] = sessions[f]
        /\ peer'[e] = h /\ sessions'[e] = Append(old, q)
        /\ \A v \in HsWorkers : v # w => hsWorker'[v] = hsWorker[v]
        /\ hsWorker'[w] = Waiting
    BY <1>0, <2>2, <2>4, <2>5, <2>6 DEF HandshakeTypeOK
  <2>8. Grow
    BY SMTT(60), <1>0, <2>2, <2>5, <2>6, <2>7 DEF Grow, HandshakeTypeOK
  <2>9. ASSUME NEW m \in send PROVE MessageOK(m)' /\ m.type = "response"
    <3>1. ResponseOK(m) /\ m.to = Other(e) /\ m.e <= peer[e].index
      BY <1>0, <2>1, <2>9 DEF BeginOK
    <3>2. ResponseOK(m)'
      BY <3>1, <2>2 DEF ResponseOK
    <3>3. Other(m.to) = e
      BY <3>1, OtherEnd
    <3>4. q \in ToSet(sessions'[e]) /\ q.index >= m.e
      BY <2>1, <2>3, <2>6, <2>7, <3>1, <1>0 DEF ResponseOK, HandshakeTypeOK
    <3>5. Stands(Other(m.to), m.e)'
      BY <3>3, <3>4 DEF Stands
    <3> QED
      BY <3>1, <3>2, <3>5 DEF MessageOK, ResponseOK
  <2>10. MadeOnce'
    BY <1>0, <2>2, <2>9 DEF MadeOnce
  <2>11. SessionOK(e, q)'
    BY <2>3, <2>8, SessionKept
  <2>12. PeerOK(e)' /\ Onward(e)
    BY <2>4, <2>7 DEF PeerOK, Onward, Keeping
  <2>13. WorkerOK(w)'
    BY <2>7 DEF WorkerOK, Waiting
  <2>14. KeysRepeatOnlyRenewed'
    <3> SUFFICES ASSUME NEW f \in Ends, NEW i \in DOMAIN sessions'[f],
                        NEW j \in DOMAIN sessions'[f], i < j,
                        sessions'[f][i].Sending = sessions'[f][j].Sending
                 PROVE  /\ sessions'[f][j].initiator
                        /\ sessions'[f][j].index > InitiationOf(sessions'[f][j])
      BY DEF KeysRepeatOnlyRenewed
    <3>1. CASE f # e
      BY <3>1, <1>0, <2>7 DEF KeysRepeatOnlyRenewed
    <3>2. CASE f = e /\ j \in DOMAIN old
      <4>1. i \in DOMAIN old
        BY <3>2, <2>5, <2>6, <2>7
      <4> QED
        BY <3>2, <4>1, <1>0, <2>5, <2>6, <2>7 DEF KeysRepeatOnlyRenewed
    <3>3. CASE f = e /\ j = Len(old) + 1
      <4>1. i \in DOMAIN old /\ old[i] \in ToSet(old)
        BY SMTT(60), <3>3, <2>5, <2>6, <2>7 DEF ToSet
      <4> QED
        BY SMTT(60), <3>3, <4>1, <2>3, <2>5, <2>6, <2>7
    <3> QED
      BY <3>1, <3>2, <3>3, <2>6, <2>7
  <2> QED
    BY SMTT(60), <2>2, <2>4, <2>5, <2>6, <2>7, <2>8, <2>9, <2>10, <2>11, <2>12, <2>13,
        <2>14, StepKeeps
<1> QED
  BY <1>1, <1>2

LEMMA HandshakeStep ==
    ASSUME HandshakeInv, [HandshakeNext]_hsVars
    PROVE  HandshakeInv'
<1>1. CASE UNCHANGED hsVars
  <2>1. UNCHANGED <<tai, fresh, messages, peer, sessions, hsWorker, answered>>
    BY <1>1 DEF hsVars
  <2>2. HandshakeTypeOK /\ HandshakeTypeOK'
    BY <2>1 DEF HandshakeInv, HandshakeTypeOK
  <2>3. Grow
    BY <2>1, <2>2 DEF Grow, HandshakeTypeOK
  <2> QED
    BY <2>1, <2>2, <2>3, StepKeeps
<1>2. CASE TaiTick
  BY <1>2, TickKeeps
<1>3. ASSUME NEW e \in Ends, NoiseHandshakeCreateInitiation(e) \/ ClearHandshake(e)
      PROVE  HandshakeInv'
  BY <1>3, CreateInitiationKeeps, ClearKeeps
<1>4. ASSUME NEW w \in HsWorkers, NEW m \in messages, CheckInitiation(w, m) \/ CopyHandshake(w, m)
      PROVE  HandshakeInv'
  BY <1>4, CheckInitiationKeeps, CopyHandshakeKeeps
<1>5. ASSUME NEW w \in HsWorkers,
             \/ NoiseHandshakeConsumeInitiation(w) \/ NoiseHandshakeCreateResponse(w)
             \/ NoiseHandshakeConsumeResponse(w) \/ NoiseHandshakeBeginSession(w)
      PROVE  HandshakeInv'
  BY <1>5, ConsumeInitiationKeeps, CreateResponseKeeps, ConsumeResponseKeeps,
      BeginSessionKeeps
<1> QED
  BY <1>1, <1>2, <1>3, <1>4, <1>5 DEF HandshakeNext

THEOREM HandshakeInvariance == HandshakeSpec => []HandshakeInv
<1>1. HandshakeInit => HandshakeInv
  BY HandshakeStarts
<1>2. HandshakeInv /\ [HandshakeNext]_hsVars => HandshakeInv'
  BY HandshakeStep
<1> QED
  BY <1>1, <1>2, PTL DEF HandshakeSpec

(* No worker acts on an initiation that is no newer than one which was already *)
(* stored when it looked (NoiseHandshakeConsumeInitiation).                    *)
THEOREM ReplaysRefused == HandshakeSpec => []StaleInitiationsRefused
<1>1. HandshakeInv => StaleInitiationsRefused
  BY DEF HandshakeInv, WorkerOK, ConsumeOK, StaleInitiationsRefused
<1> QED
  BY <1>1, HandshakeInvariance, PTL

(* No worker begins a responder's session with the keys of an earlier one, and *)
(* an initiator's only under the index of a later initiation                   *)
(* (NoiseHandshakeConsumeResponse).                                            *)
THEOREM ReuseIsRenewed == HandshakeSpec => []KeysRepeatOnlyRenewed
<1>1. HandshakeInv => KeysRepeatOnlyRenewed
  BY DEF HandshakeInv
<1> QED
  BY <1>1, HandshakeInvariance, PTL

(* The two ends of a session agree on its keys and on its indices, and the     *)
(* initiator never has one that the responder has nothing to answer with       *)
(* (NoiseHandshakeBeginSession).                                               *)
THEOREM EndsAgree == HandshakeSpec => []SessionsAgree
<1>1. HandshakeInv => SessionsAgree
  <2> SUFFICES ASSUME HandshakeInv, NEW e \in Ends, NEW s \in ToSet(sessions[e]), s.initiator
               PROVE  /\ Stands(Other(e), s.RemoteIndex)
                      /\ \A t \in ToSet(sessions[Other(e)]) :
                           ChainOf(t) = ChainOf(s) =>
                             /\ s.Sending = t.Receiving /\ t.Sending = s.Receiving
                             /\ s.RemoteIndex = t.index
                             /\ t.RemoteIndex = s.index \/ s.index > InitiationOf(s)
    BY DEF SessionsAgree, Stands
  <2>0. /\ fresh \in Nat /\ MadeOnce /\ SessionOK(e, s) /\ Other(e) \in Ends
        /\ \A t \in ToSet(sessions[Other(e)]) : SessionOK(Other(e), t)
    BY OtherEnd DEF HandshakeInv, HandshakeTypeOK
  <2>1. PICK i, r \in Nat : /\ InitiatorOK(e, s, i, r) /\ s.index \in Nat
    BY <2>0 DEF SessionOK, ResponderOK
  <2>2. /\ ChainOf(s) = Agreed(i, r) /\ InitiationOf(s) = i
        /\ s.index >= i /\ s.RemoteIndex = r /\ Made(e, i) /\ Stands(Other(e), r)
    BY <2>1, SessionIs DEF InitiatorOK
  <2>3. ASSUME NEW t \in ToSet(sessions[Other(e)]), ChainOf(t) = ChainOf(s)
        PROVE  ResponderOK(t, i, r)
    <3>1. PICK j, q \in Nat : InitiatorOK(Other(e), t, j, q) \/ ResponderOK(t, j, q)
      BY <2>0 DEF SessionOK
    <3>2. j = i /\ q = r
      <4>1. ChainOf(t) = Agreed(j, q)
        BY <3>1, SessionIs
      <4>2. Agreed(j, q) = Agreed(i, r)
        BY <4>1, <2>2, <2>3
      <4> QED
        BY <4>2, AgreedOnce
    <3>3. ~Made(Other(e), i)
      <4>1. Other(Other(e)) # Other(e)
        BY OtherEnd
      <4> QED
        BY <4>1, <2>0, <2>2 DEF Made, MadeOnce
    <3> QED
      BY <3>1, <3>2, <3>3 DEF InitiatorOK
  <2> QED
    BY <2>1, <2>2, <2>3 DEF InitiatorOK, ResponderOK
<1> QED
  BY <1>1, HandshakeInvariance, PTL

-----------------------------------------------------------------------------
(* Cookies: types. *)
Cookies == [secret : Nat, src : Addresses]

Datagrams == [type : {"initiation", "cookie"}, mac1 : Nat, addr : Addresses,
              mac2 : Cookies \cup {Null}]

RxPlaces == {"idle", "load", "check secret", "rotate", "compare", "check secret again",
             "rotate again", "reply", "admitted", "done"}

RxQueues == [queue : Seq(Datagrams), Len : Int, LastUnderLoad : Nat \cup {Null},
             downs : Nat, missed : Nat]

RxStates == [at : RxPlaces, msg : Datagrams \cup {Null}, secret : Nat, load : BOOLEAN]

CookieTypeOK ==
    /\ clock \in Nat
    /\ net \subseteq Datagrams
    /\ rx \in RxQueues
    /\ producer \in BOOLEAN
    /\ checker \in [Secret : Nat, SecretBirthdate : Nat]
    /\ worker \in [RxWorkers -> RxStates]
    /\ sender \in [addr : Addresses, sent : Nat, making : BOOLEAN]
    /\ cookie \in [Cookie : Cookies \cup {Null}, Birthdate : Nat, LastMac1Sent : Nat,
                   HaveSentMac1 : BOOLEAN]
    /\ consumer \in [CookieWorkers -> Datagrams \cup {Null}]

(* A cookie is one that the device sent, to the address it is made for. *)
Sent(c) ==
    \E m \in net : m.type = "cookie" /\ m.mac2 = c /\ m.addr = c.src

Known(c) == c # Null => Sent(c)

CookiesKnown ==
    /\ \A m \in net : Known(m.mac2) /\ (m.type = "cookie" => m.mac2 # Null)
    /\ \A i \in DOMAIN rx.queue : Known(rx.queue[i].mac2)
    /\ Known(cookie.Cookie)
    /\ \A c \in CookieWorkers : consumer[c] # Null => Known(consumer[c].mac2)

HandledKnown ==
    \A w \in RxWorkers :
      worker[w].at # "idle" => worker[w].msg \in Datagrams /\ Known(worker[w].msg.mac2)

CookieInv ==
    CookieTypeOK /\ CookiesKnown /\ HandledKnown /\ CookieProvesAddress /\ LoadCounted

-----------------------------------------------------------------------------
(* Cookies: a reply never leaves the network, so what was sent stays sent. *)
Remembered ==
    \A m \in net : m.type = "cookie" => m \in net'

LEMMA KnownKept ==
    ASSUME Remembered, NEW c, Known(c)
    PROVE  Known(c)'
  BY DEF Remembered, Known, Sent

(* The invariant after a step, from what the step changes. *)
LEMMA CookieStepKeeps ==
    ASSUME CookieInv, CookieTypeOK', Remembered,
           \A m \in net' : \/ m \in net
                           \/ Known(m.mac2)' /\ (m.type = "cookie" => m.mac2 # Null),
           \/ rx'.queue = rx.queue
           \/ \A i \in DOMAIN rx'.queue : \E c : c = rx'.queue[i].mac2 /\ Known(c),
           cookie'.Cookie = cookie.Cookie \/ \E c : c = cookie'.Cookie /\ Known(c),
           \A c \in CookieWorkers :
             \/ consumer'[c] = consumer[c]
             \/ consumer'[c] = Null
             \/ \E d : d = consumer'[c].mac2 /\ Known(d),
           \A w \in RxWorkers :
             \/ worker'[w] = worker[w]
             \/ worker'[w].at = "idle"
             \/ /\ \E m \in Datagrams : m = worker'[w].msg /\ Known(m.mac2)
                /\ worker'[w].at = "admitted" /\ worker'[w].load =>
                     \E m \in net : /\ m.type = "cookie"
                                    /\ m.addr = worker'[w].msg.addr
                                    /\ m.mac2.secret = worker'[w].secret,
           LoadCounted' \/ (rx' = rx /\ producer' = producer /\ Handled' = Handled)
    PROVE  CookieInv'
<1>0. CookieTypeOK /\ CookiesKnown /\ HandledKnown /\ CookieProvesAddress /\ LoadCounted
  BY DEF CookieInv
<1>1. \A m \in net' : Known(m.mac2)' /\ (m.type = "cookie" => m.mac2 # Null)
  <2> TAKE m \in net'
  <2>1. CASE m \in net
    <3>1. PICK c : c = m.mac2 /\ Known(c)
      BY <2>1, <1>0 DEF CookiesKnown
    <3>2. Known(c)'
      BY <3>1, KnownKept
    <3> QED
      BY <2>1, <3>1, <3>2, <1>0 DEF CookiesKnown
  <2> QED
    BY <2>1
<1>2. ASSUME NEW i \in DOMAIN rx'.queue PROVE Known(rx.queue[i].mac2)'
  <2>1. PICK c : c = rx'.queue[i].mac2 /\ Known(c)
    BY <1>0 DEF CookiesKnown
  <2>2. Known(c)'
    BY <2>1, KnownKept
  <2> QED
    BY <2>1, <2>2 DEF Known, Sent
<1>3. Known(cookie.Cookie)'
  <2>1. PICK c : c = cookie'.Cookie /\ Known(c)
    BY <1>0 DEF CookiesKnown
  <2>2. Known(c)'
    BY <2>1, KnownKept
  <2> QED
    BY <2>1, <2>2 DEF Known, Sent
<1>4. ASSUME NEW c \in CookieWorkers, consumer'[c] # Null PROVE Known(consumer[c].mac2)'
  <2>1. PICK d : d = consumer'[c].mac2 /\ Known(d)
    BY <1>4, <1>0 DEF CookiesKnown
  <2>2. Known(d)'
    BY <2>1, KnownKept
  <2> QED
    BY <2>1, <2>2 DEF Known, Sent
<1>5. CookiesKnown'
  BY <1>1, <1>2, <1>3, <1>4 DEF CookiesKnown
<1>6. HandledKnown'
  <2> SUFFICES ASSUME NEW w \in RxWorkers, worker'[w].at # "idle"
               PROVE  worker'[w].msg \in Datagrams /\ Known(worker[w].msg.mac2)'
    BY DEF HandledKnown
  <2>1. PICK m \in Datagrams : m = worker'[w].msg /\ Known(m.mac2)
    BY <1>0 DEF HandledKnown
  <2>2. Known(m.mac2)'
    BY <2>1, KnownKept
  <2> QED
    BY <2>1, <2>2 DEF Known, Sent
<1>7. CookieProvesAddress'
  <2> SUFFICES ASSUME NEW w \in RxWorkers, worker'[w].at = "admitted", worker'[w].load
               PROVE  \E m \in net' : /\ m.type = "cookie"
                                      /\ m.addr = worker'[w].msg.addr
                                      /\ m.mac2.secret = worker'[w].secret
    BY DEF CookieProvesAddress
  <2>1. PICK m \in net : /\ m.type = "cookie"
                         /\ m.addr = worker'[w].msg.addr
                         /\ m.mac2.secret = worker'[w].secret
    BY <1>0 DEF CookieProvesAddress
  <2> QED
    BY <2>1 DEF Remembered
<1>8. LoadCounted'
  BY <1>0 DEF LoadCounted
<1> QED
  BY <1>5, <1>6, <1>7, <1>8 DEF CookieInv

LEMMA SenderStepKeeps ==
    ASSUME CookieInv, CookieTypeOK', rx' = rx, producer' = producer, worker' = worker,
           \/ net' = net
           \/ \E m : net' = net \cup {m} /\ m.type = "initiation" /\ Known(m.mac2),
           cookie'.Cookie = cookie.Cookie \/ \E c : c = cookie'.Cookie /\ Known(c),
           \A c \in CookieWorkers :
             \/ consumer'[c] = consumer[c]
             \/ consumer'[c] = Null
             \/ \E d : d = consumer'[c].mac2 /\ Known(d)
    PROVE  CookieInv'
<1>1. Remembered
  BY DEF Remembered
<1>2. Handled' = Handled
  BY DEF Handled
<1>3. \A m \in net' : \/ m \in net
                      \/ Known(m.mac2)' /\ (m.type = "cookie" => m.mac2 # Null)
  <2> TAKE m \in net'
  <2>1. CASE m \in net
    BY <2>1
  <2>2. CASE m \notin net
    <3>1. PICK c : c = m.mac2 /\ m.type = "initiation" /\ Known(c)
      BY <2>2
    <3>2. Known(c)'
      BY <1>1, <3>1, KnownKept
    <3> QED
      BY <3>1, <3>2 DEF Known, Sent
  <2> QED
    BY <2>1, <2>2
<1>4. \A w \in RxWorkers : worker'[w] = worker[w]
  OBVIOUS
<1>5. rx'.queue = rx.queue
  OBVIOUS
<1> QED
  BY <1>1, <1>2, <1>3, <1>4, <1>5, CookieStepKeeps

-----------------------------------------------------------------------------
(* Cookies: the actions. *)
LEMMA CookieStarts == CookieInit => CookieInv
<1> SUFFICES ASSUME CookieInit PROVE CookieInv
  OBVIOUS
<1>1. /\ clock = 0 /\ net = {} /\ producer = FALSE
      /\ rx = [queue |-> <<>>, Len |-> 0, LastUnderLoad |-> Null, downs |-> 0, missed |-> 0]
      /\ checker = [Secret |-> 1, SecretBirthdate |-> 0]
      /\ worker = [w \in RxWorkers |-> Resting]
      /\ consumer = [c \in CookieWorkers |-> Null]
      /\ cookie = [Cookie |-> Null, Birthdate |-> 0, LastMac1Sent |-> 0, HaveSentMac1 |-> FALSE]
  BY DEF CookieInit
<1>2. rx \in RxQueues
  BY <1>1 DEF RxQueues
<1>3. Resting \in RxStates /\ Resting.at = "idle"
  BY DEF Resting, RxStates, RxPlaces
<1>4. sender \in [addr : Addresses, sent : Nat, making : BOOLEAN]
  BY CookieAssumption DEF CookieInit
<1>5. CookieTypeOK
  BY <1>1, <1>2, <1>3, <1>4 DEF CookieTypeOK
<1>6. CookiesKnown /\ HandledKnown /\ CookieProvesAddress
  BY <1>1, <1>3 DEF CookiesKnown, HandledKnown, CookieProvesAddress, Known
<1>7. LoadCounted
  <2>1. Handled = {}
    BY <1>1, <1>3 DEF Handled
  <2>2. Cardinality(Handled) = 0
    BY <2>1, FS_EmptySet
  <2> QED
    BY <1>1, <2>2 DEF LoadCounted
<1> QED
  BY <1>5, <1>6, <1>7 DEF CookieInv

LEMMA SenderKeeps ==
    ASSUME CookieInv,
           \/ ClockTick \/ AddMac1 \/ AddMac2
           \/ \E a \in Addresses : Roam(a)
           \/ \E c \in CookieWorkers : (\E m \in net : OpenReply(c, m)) \/ StoreCookie(c)
    PROVE  CookieInv'
<1>0. CookieTypeOK /\ CookiesKnown
  BY DEF CookieInv
<1>1. CASE ClockTick
  <2>1. CookieTypeOK' /\ UNCHANGED <<rx, producer, worker, net, cookie, consumer>>
    BY <1>0, <1>1 DEF ClockTick, CookieTypeOK
  <2> QED
    BY <2>1, SenderStepKeeps
<1>2. CASE AddMac1
  <2>1. PICK n \in Nat :
          /\ UNCHANGED <<clock, net, rx, producer, checker, worker, consumer>>
          /\ sender' = [sender EXCEPT !.sent = n, !.making = TRUE]
          /\ cookie' = [cookie EXCEPT !.LastMac1Sent = n, !.HaveSentMac1 = TRUE]
    <3>1. sender.sent + 1 \in Nat
      BY <1>0 DEF CookieTypeOK
    <3> QED
      BY <1>2, <3>1 DEF AddMac1
  <2>2. /\ sender' \in [addr : Addresses, sent : Nat, making : BOOLEAN]
    BY <1>0, <2>1 DEF CookieTypeOK
  <2>3. /\ cookie' \in [Cookie : Cookies \cup {Null}, Birthdate : Nat, LastMac1Sent : Nat,
                       HaveSentMac1 : BOOLEAN]
        /\ cookie'.Cookie = cookie.Cookie
    BY <1>0, <2>1 DEF CookieTypeOK
  <2>4. CookieTypeOK'
    BY <1>0, <2>1, <2>2, <2>3 DEF CookieTypeOK
  <2> QED
    BY <2>1, <2>3, <2>4, SenderStepKeeps
<1>3. CASE AddMac2
  <2>1. PICK c \in {cookie.Cookie, Null} :
             /\ net' = net \cup {Initiation(sender.sent, sender.addr, c)}
             /\ sender' = [sender EXCEPT !.making = FALSE]
             /\ UNCHANGED <<clock, rx, producer, checker, worker, cookie, consumer>>
    BY <1>3 DEF AddMac2
  <2>2. c \in Cookies \cup {Null} /\ Known(c)
    BY <2>1, <1>0 DEF CookieTypeOK, CookiesKnown, Known
  <2>3. PICK m : m = Initiation(sender.sent, sender.addr, c)
    OBVIOUS
  <2>4. m \in Datagrams /\ m.mac2 = c /\ m.type = "initiation"
    BY <1>0, <2>2, <2>3 DEF Initiation, Datagrams, CookieTypeOK
  <2>5. CookieTypeOK'
    BY <1>0, <2>1, <2>3, <2>4 DEF CookieTypeOK
  <2> QED
    BY <2>1, <2>2, <2>3, <2>4, <2>5, SenderStepKeeps
<1>4. ASSUME NEW a \in Addresses, Roam(a) PROVE CookieInv'
  <2>1. CookieTypeOK' /\ UNCHANGED <<rx, producer, worker, net, cookie, consumer>>
    BY <1>0, <1>4 DEF Roam, CookieTypeOK
  <2> QED
    BY <2>1, SenderStepKeeps
<1>5. ASSUME NEW c \in CookieWorkers, NEW m \in net, OpenReply(c, m) PROVE CookieInv'
  <2>1. /\ CookieTypeOK' /\ UNCHANGED <<rx, producer, worker, net, cookie>>
        /\ \A d \in CookieWorkers : d # c => consumer'[d] = consumer[d]
        /\ consumer'[c] = m
    BY <1>0, <1>5 DEF OpenReply, CookieTypeOK
  <2>2. Known(m.mac2)
    BY <1>0 DEF CookiesKnown
  <2> QED
    BY <2>1, <2>2, SenderStepKeeps
<1>6. ASSUME NEW c \in CookieWorkers, StoreCookie(c) PROVE CookieInv'
  <2>1. PICK d : d = consumer[c].mac2 /\ Known(d) /\ d \in Cookies \cup {Null}
    BY <1>0, <1>6 DEF StoreCookie, CookiesKnown, CookieTypeOK, Datagrams
  <2>2. /\ CookieTypeOK' /\ UNCHANGED <<rx, producer, worker, net>>
        /\ \A x \in CookieWorkers : x # c => consumer'[x] = consumer[x]
        /\ consumer'[c] = Null /\ cookie'.Cookie = d
    BY <1>0, <1>6, <2>1 DEF StoreCookie, CookieTypeOK
  <2> QED
    BY <2>1, <2>2, SenderStepKeeps
<1> QED
  BY <1>1, <1>2, <1>3, <1>4, <1>5, <1>6

LEMMA HandledFinite == IsFiniteSet(Handled)
  BY FS_Subset, CookieAssumption DEF Handled

LEMMA QueueKeeps ==
    ASSUME CookieInv,
           \/ \E m \in net : ProduceHandshake(m)
           \/ CountHandshake
           \/ FreeIncomingHandshakes
    PROVE  CookieInv'
<1>0. /\ CookieTypeOK /\ CookiesKnown /\ LoadCounted
      /\ rx.queue \in Seq(Datagrams) /\ rx.Len \in Int /\ rx.missed \in Nat
      /\ Cardinality(Handled) \in Nat
  BY HandledFinite, FS_CardinalityType DEF CookieInv, CookieTypeOK, RxQueues
<1>1. ASSUME NEW m \in net, ProduceHandshake(m) PROVE CookieInv'
  <2>1. PICK q : q = Append(rx.queue, m)
    OBVIOUS
  <2>2. /\ rx' = [rx EXCEPT !.queue = q] /\ net' = net \ {m} /\ m.type = "initiation"
        /\ ~producer /\ producer' = TRUE
        /\ UNCHANGED <<clock, checker, worker, sender, cookie, consumer>>
    BY <1>1, <2>1 DEF ProduceHandshake
  <2>3. /\ q \in Seq(Datagrams) /\ Len(q) = Len(rx.queue) + 1
        /\ \A i \in DOMAIN q : q[i] = m \/ (i \in DOMAIN rx.queue /\ q[i] = rx.queue[i])
    BY <1>0, <2>1 DEF CookieTypeOK
  <2>4. rx' \in RxQueues /\ rx'.queue = q /\ rx'.Len = rx.Len /\ rx'.missed = rx.missed
    BY <1>0, <2>2, <2>3 DEF CookieTypeOK, RxQueues
  <2>5. CookieTypeOK'
    BY <1>0, <2>2, <2>4 DEF CookieTypeOK
  <2>6. Remembered /\ Handled' = Handled
    BY <2>2 DEF Remembered, Handled
  <2>7. LoadCounted'
    BY SMTT(30), <1>0, <2>2, <2>3, <2>4, <2>6 DEF LoadCounted
  <2>8. \A i \in DOMAIN rx'.queue : \E c : c = rx'.queue[i].mac2 /\ Known(c)
    BY <1>0, <2>3, <2>4 DEF CookiesKnown
  <2> QED
    BY <2>2, <2>5, <2>6, <2>7, <2>8, CookieStepKeeps
<1>2. CASE CountHandshake
  <2>1. /\ rx' = [rx EXCEPT !.Len = rx.Len + 1] /\ producer /\ producer' = FALSE
        /\ UNCHANGED <<clock, net, checker, worker, sender, cookie, consumer>>
    BY <1>2 DEF CountHandshake
  <2>2. rx' \in RxQueues /\ rx'.queue = rx.queue /\ rx'.Len = rx.Len + 1 /\ rx'.missed = rx.missed
    BY SMTT(30), <1>0, <2>1 DEF CookieTypeOK, RxQueues
  <2>3. CookieTypeOK'
    BY <1>0, <2>1, <2>2 DEF CookieTypeOK
  <2>4. Remembered /\ Handled' = Handled
    BY <2>1 DEF Remembered, Handled
  <2>5. LoadCounted'
    BY <1>0, <2>1, <2>2, <2>4 DEF LoadCounted
  <2> QED
    BY <2>1, <2>2, <2>3, <2>4, <2>5, CookieStepKeeps
<1>3. CASE FreeIncomingHandshakes
  <2>0. rx.downs + 1 \in Nat /\ rx \in RxQueues
    BY <1>0 DEF CookieTypeOK, RxQueues
  <2>1. PICK d \in Nat, n \in Nat :
          /\ rx' = [rx EXCEPT !.queue = <<>>, !.Len = 0, !.downs = d, !.missed = n]
          /\ n = Cardinality(Handled) /\ ~producer
          /\ UNCHANGED <<clock, net, producer, checker, worker, sender, cookie, consumer>>
    BY <1>0, <1>3, <2>0 DEF FreeIncomingHandshakes
  <2>2. rx' \in RxQueues /\ rx'.queue = <<>> /\ rx'.Len = 0 /\ rx'.missed = n
    <3>0. PICK q : q = <<>> /\ q \in Seq(Datagrams)
      <4>1. <<>> \in Seq(Datagrams)
        OBVIOUS
      <4> QED
        BY <4>1
    <3>1. PICK z : z = 0 /\ z \in Int
      OBVIOUS
    <3>2. rx' = [rx EXCEPT !.queue = q, !.Len = z, !.downs = d, !.missed = n]
      BY <2>1, <3>0, <3>1
    <3>3. rx' \in RxQueues /\ rx'.queue = q /\ rx'.Len = z /\ rx'.missed = n
      BY <2>0, <3>0, <3>1, <3>2 DEF RxQueues
    <3> QED
      BY <3>0, <3>1, <3>3
  <2>3. CookieTypeOK'
    BY <1>0, <2>1, <2>2 DEF CookieTypeOK
  <2>4. Remembered /\ Handled' = Handled
    BY <2>1 DEF Remembered, Handled
  <2>5. LoadCounted'
    BY <1>0, <2>1, <2>2, <2>4 DEF LoadCounted
  <2>6. \A i \in DOMAIN rx'.queue : \E c : c = rx'.queue[i].mac2 /\ Known(c)
    BY <2>2
  <2> QED
    BY <2>1, <2>3, <2>4, <2>5, <2>6, CookieStepKeeps
<1> QED
  BY <1>1, <1>2, <1>3

LEMMA TakeKeeps ==
    ASSUME CookieInv, NEW w \in RxWorkers, ConsumeHandshake(w)
    PROVE  CookieInv'
<1>0. /\ CookieTypeOK /\ CookiesKnown /\ LoadCounted
      /\ rx.queue \in Seq(Datagrams) /\ rx.Len \in Int /\ rx.missed \in Nat
      /\ rx.queue # <<>> /\ worker[w].at = "idle"
      /\ Cardinality(Handled) \in Nat
  BY HandledFinite, FS_CardinalityType
  DEF CookieInv, CookieTypeOK, RxQueues, ConsumeHandshake
<1>1. PICK q, m, s :
        /\ q = Tail(rx.queue) /\ m = Head(rx.queue)
        /\ s = [Resting EXCEPT !.at = "load", !.msg = m]
        /\ rx' = [rx EXCEPT !.queue = q]
        /\ worker' = [worker EXCEPT ![w] = s]
        /\ UNCHANGED <<clock, net, producer, checker, sender, cookie, consumer>>
  BY DEF ConsumeHandshake
<1>2. /\ q \in Seq(Datagrams) /\ Len(q) = Len(rx.queue) - 1 /\ m \in Datagrams
      /\ m = rx.queue[1] /\ 1 \in DOMAIN rx.queue
      /\ \A i \in DOMAIN q : i + 1 \in DOMAIN rx.queue /\ q[i] = rx.queue[i + 1]
  BY <1>0, <1>1
<1>3. /\ s \in RxStates /\ s.at = "load" /\ s.msg = m
  BY <1>1, <1>2 DEF Resting, RxStates, RxPlaces
<1>4. rx' \in RxQueues /\ rx'.queue = q /\ rx'.Len = rx.Len /\ rx'.missed = rx.missed
  BY <1>0, <1>1, <1>2 DEF CookieTypeOK, RxQueues
<1>5. /\ CookieTypeOK'
      /\ \A v \in RxWorkers : v # w => worker'[v] = worker[v]
      /\ worker'[w] = s
  BY <1>0, <1>1, <1>3, <1>4 DEF CookieTypeOK
<1>6. Remembered
  BY <1>1 DEF Remembered
<1>7. Handled' = Handled \cup {w} /\ w \notin Handled
  BY <1>0, <1>3, <1>5 DEF Handled
<1>8. LoadCounted'
  <2>1. Cardinality(Handled') = Cardinality(Handled) + 1
    BY <1>7, HandledFinite, FS_AddElement
  <2> QED
    BY SMTT(30), <1>0, <1>1, <1>2, <1>4, <2>1 DEF LoadCounted
<1>9. \A i \in DOMAIN rx'.queue : \E c : c = rx'.queue[i].mac2 /\ Known(c)
  BY <1>0, <1>2, <1>4 DEF CookiesKnown
<1>10. Known(m.mac2)
  BY <1>0, <1>2 DEF CookiesKnown
<1> QED
  BY <1>1, <1>2, <1>3, <1>5, <1>6, <1>8, <1>9, <1>10, CookieStepKeeps

LEMMA DoneKeeps ==
    ASSUME CookieInv, NEW w \in RxWorkers, HandshakeDone(w)
    PROVE  CookieInv'
<1>0. /\ CookieTypeOK /\ LoadCounted /\ rx.Len \in Int /\ rx.missed \in Nat
      /\ rx.queue \in Seq(Datagrams)
      /\ worker[w].at \in {"admitted", "done"} /\ Cardinality(Handled) \in Nat
  BY HandledFinite, FS_CardinalityType
  DEF CookieInv, CookieTypeOK, RxQueues, HandshakeDone
<1>1. PICK n \in Int :
        /\ rx' = [rx EXCEPT !.Len = n] /\ n = rx.Len - 1
        /\ worker' = [worker EXCEPT ![w] = Resting]
        /\ UNCHANGED <<clock, net, producer, checker, sender, cookie, consumer>>
  <2>1. rx' = [rx EXCEPT !.Len = rx.Len - 1] /\ rx.Len - 1 \in Int
    BY <1>0 DEF HandshakeDone
  <2> QED
    BY <2>1 DEF HandshakeDone
<1>2. Resting \in RxStates /\ Resting.at = "idle"
  BY DEF Resting, RxStates, RxPlaces
<1>3. rx' \in RxQueues /\ rx'.queue = rx.queue /\ rx'.Len = rx.Len - 1 /\ rx'.missed = rx.missed
  BY <1>0, <1>1 DEF CookieTypeOK, RxQueues
<1>4. /\ CookieTypeOK'
      /\ \A v \in RxWorkers : v # w => worker'[v] = worker[v]
      /\ worker'[w] = Resting
  BY <1>0, <1>1, <1>2, <1>3 DEF CookieTypeOK
<1>5. Remembered
  BY <1>1 DEF Remembered
<1>6. Handled' = Handled \ {w} /\ w \in Handled
  BY <1>0, <1>2, <1>4 DEF Handled
<1>7. LoadCounted'
  <2>1. Cardinality(Handled') = Cardinality(Handled) - 1
    BY <1>6, HandledFinite, FS_RemoveElement
  <2> QED
    BY <1>0, <1>1, <1>3, <2>1 DEF LoadCounted
<1> QED
  BY <1>1, <1>2, <1>3, <1>4, <1>5, <1>7, CookieStepKeeps

LEMMA CheckStepKeeps ==
    ASSUME CookieInv, NEW w \in RxWorkers, worker[w].at # "idle",
           NEW s \in RxStates, s.at # "idle", s.msg = worker[w].msg,
           worker' = [worker EXCEPT ![w] = s],
           s.at = "admitted" /\ s.load =>
             \E m \in net : /\ m.type = "cookie"
                            /\ m.addr = s.msg.addr
                            /\ m.mac2.secret = s.secret,
           rx' \in RxQueues, rx'.queue = rx.queue, rx'.Len = rx.Len, rx'.missed = rx.missed,
           checker' \in [Secret : Nat, SecretBirthdate : Nat],
           \/ net' = net
           \/ \E m \in Datagrams : /\ net' = net \cup {m} /\ m.type = "cookie"
                                   /\ m.mac2 # Null /\ m.mac2.src = m.addr,
           UNCHANGED <<clock, producer, sender, cookie, consumer>>
    PROVE  CookieInv'
<1>0. CookieTypeOK /\ LoadCounted /\ HandledKnown
  BY DEF CookieInv
<1>1. /\ CookieTypeOK'
      /\ \A v \in RxWorkers : v # w => worker'[v] = worker[v]
      /\ worker'[w] = s
  BY <1>0 DEF CookieTypeOK
<1>2. Remembered
  BY DEF Remembered
<1>3. Handled' = Handled
  BY <1>1 DEF Handled
<1>4. LoadCounted'
  BY <1>0, <1>3 DEF LoadCounted
<1>5. \A m \in net' : m \in net \/ (Known(m.mac2)' /\ (m.type = "cookie" => m.mac2 # Null))
  BY DEF Known, Sent
<1>6. \E m \in Datagrams : m = s.msg /\ Known(m.mac2)
  BY <1>0 DEF HandledKnown
<1> QED
  BY <1>1, <1>2, <1>4, <1>5, <1>6, CookieStepKeeps

LEMMA CheckKeeps ==
    ASSUME CookieInv, NEW w \in RxWorkers,
           \/ CheckLoad(w) \/ CheckSecret(w) \/ RotateSecret(w)
           \/ ValidateMac2(w) \/ CookieMessageCreate(w)
    PROVE  CookieInv'
<1>0. /\ CookieTypeOK /\ CookiesKnown /\ HandledKnown
      /\ worker[w] \in RxStates /\ rx \in RxQueues
      /\ checker \in [Secret : Nat, SecretBirthdate : Nat]
      /\ worker[w].at # "idle" /\ worker[w].msg \in Datagrams
      /\ clock \in Nat
  BY DEF CookieInv, CookieTypeOK, HandledKnown, CheckLoad, CheckSecret, RotateSecret,
         ValidateMac2, CookieMessageCreate
<1>1. CASE CheckLoad(w)
  <2>1. PICK b \in BOOLEAN, l \in Nat \cup {Null} :
          /\ rx' = [rx EXCEPT !.LastUnderLoad = l]
          /\ worker' = [worker EXCEPT ![w] =
               [@ EXCEPT !.load = b, !.at = IF b THEN "check secret" ELSE "admitted"]]
          /\ UNCHANGED <<clock, net, producer, checker, sender, cookie, consumer>>
    <3> DEFINE recent == rx.LastUnderLoad # Null /\ ~BirthdateHasExpired(rx.LastUnderLoad, 1)
               b == OverThreshold \/ recent
               l == IF OverThreshold THEN clock ELSE IF recent THEN rx.LastUnderLoad ELSE Null
    <3>1. b \in BOOLEAN /\ l \in Nat \cup {Null}
      BY <1>0 DEF RxQueues
    <3>2. /\ rx' = [rx EXCEPT !.LastUnderLoad = l]
          /\ worker' = [worker EXCEPT ![w] =
               [@ EXCEPT !.load = b, !.at = IF b THEN "check secret" ELSE "admitted"]]
          /\ UNCHANGED <<clock, net, producer, checker, sender, cookie, consumer>>
      BY <1>1 DEF CheckLoad
    <3> HIDE DEF b, l
    <3> QED
      BY <3>1, <3>2
  <2>2. PICK s : s = [worker[w] EXCEPT !.load = b,
                                      !.at = IF b THEN "check secret" ELSE "admitted"]
    OBVIOUS
  <2>3. /\ s \in RxStates /\ s.at # "idle" /\ s.msg = worker[w].msg
        /\ ~(s.at = "admitted" /\ s.load)
    <3>1. CASE b = TRUE
      BY <1>0, <2>2, <3>1 DEF RxStates, RxPlaces
    <3>2. CASE b = FALSE
      BY <1>0, <2>2, <3>2 DEF RxStates, RxPlaces
    <3> QED
      BY <3>1, <3>2
  <2>4. rx' \in RxQueues /\ rx'.queue = rx.queue /\ rx'.Len = rx.Len /\ rx'.missed = rx.missed
    BY <1>0, <2>1 DEF RxQueues
  <2>5. worker' = [worker EXCEPT ![w] = s]
    BY <2>1, <2>2
  <2> QED
    BY <1>0, <2>1, <2>3, <2>4, <2>5, CheckStepKeeps
<1>2. CASE CheckSecret(w)
  <2>1. PICK p \in {"rotate", "compare", "rotate again", "reply"} :
          /\ worker' = [worker EXCEPT ![w] = [@ EXCEPT !.at = p]]
          /\ UNCHANGED <<clock, net, rx, producer, checker, sender, cookie, consumer>>
    BY <1>2 DEF CheckSecret
  <2>2. PICK s : s = [worker[w] EXCEPT !.at = p]
    OBVIOUS
  <2>3. s \in RxStates /\ s.at # "idle" /\ s.at # "admitted" /\ s.msg = worker[w].msg
    BY <1>0, <2>1, <2>2 DEF RxStates, RxPlaces
  <2>4. worker' = [worker EXCEPT ![w] = s]
    BY <2>1, <2>2
  <2> QED
    BY <1>0, <2>1, <2>3, <2>4, CheckStepKeeps
<1>3. CASE RotateSecret(w)
  <2>1. PICK p \in {"compare", "reply"} :
          /\ worker' = [worker EXCEPT ![w] = [@ EXCEPT !.at = p]]
          /\ checker' = [Secret |-> checker.Secret + 1, SecretBirthdate |-> clock]
          /\ UNCHANGED <<clock, net, rx, producer, sender, cookie, consumer>>
    BY <1>3 DEF RotateSecret
  <2>2. PICK s : s = [worker[w] EXCEPT !.at = p]
    OBVIOUS
  <2>3. s \in RxStates /\ s.at # "idle" /\ s.at # "admitted" /\ s.msg = worker[w].msg
    BY <1>0, <2>1, <2>2 DEF RxStates, RxPlaces
  <2>4. worker' = [worker EXCEPT ![w] = s]
    BY <2>1, <2>2
  <2>5. checker' \in [Secret : Nat, SecretBirthdate : Nat]
    BY <1>0, <2>1
  <2> QED
    BY <1>0, <2>1, <2>3, <2>4, <2>5, CheckStepKeeps
<1>4. CASE ValidateMac2(w)
  <2> DEFINE m == worker[w].msg
             c == MakeCookie(m.addr)
  <2>1. PICK p \in {"check secret again", "admitted", "done"} :
          /\ p = "admitted" => m.mac2 = c
          /\ worker' = [worker EXCEPT ![w] = [@ EXCEPT !.secret = checker.Secret, !.at = p]]
          /\ UNCHANGED <<clock, net, rx, producer, checker, sender, cookie, consumer>>
    BY <1>4 DEF ValidateMac2
  <2>2. PICK s : s = [worker[w] EXCEPT !.secret = checker.Secret, !.at = p]
    OBVIOUS
  <2>3. /\ s \in RxStates /\ s.at # "idle" /\ s.msg = worker[w].msg
        /\ s.at = p /\ s.secret = checker.Secret
    BY <1>0, <2>1, <2>2 DEF RxStates, RxPlaces
  <2>4. worker' = [worker EXCEPT ![w] = s]
    BY <2>1, <2>2
  <2>5. ASSUME p = "admitted"
        PROVE  \E n \in net : /\ n.type = "cookie"
                              /\ n.addr = s.msg.addr
                              /\ n.mac2.secret = s.secret
    <3>1. c \in Cookies /\ c.secret = checker.Secret /\ c.src = m.addr
      BY <1>0 DEF MakeCookie, Cookies, Datagrams
    <3>2. c # Null
      BY <3>1, CookieAssumption DEF Cookies
    <3>3. Known(c)
      BY <2>1, <2>5, <1>0 DEF HandledKnown
    <3>4. PICK n \in net : n.type = "cookie" /\ n.mac2 = c /\ n.addr = c.src
      BY <3>2, <3>3 DEF Known, Sent
    <3> QED
      BY <2>3, <3>1, <3>4
  <2> HIDE DEF m, c
  <2> QED
    BY <1>0, <2>1, <2>3, <2>4, <2>5, CheckStepKeeps
<1>5. CASE CookieMessageCreate(w)
  <2> DEFINE m == worker[w].msg
  <2>1. /\ net' \in {net, net \cup {Reply(m.mac1, m.addr, MakeCookie(m.addr))}}
        /\ worker' = [worker EXCEPT ![w] = [@ EXCEPT !.at = "done"]]
        /\ UNCHANGED <<clock, rx, producer, checker, sender, cookie, consumer>>
    BY <1>5 DEF CookieMessageCreate
  <2>2. PICK s : s = [worker[w] EXCEPT !.at = "done"]
    OBVIOUS
  <2>3. s \in RxStates /\ s.at # "idle" /\ s.at # "admitted" /\ s.msg = worker[w].msg
    BY <1>0, <2>2 DEF RxStates, RxPlaces
  <2>4. worker' = [worker EXCEPT ![w] = s]
    BY <2>1, <2>2
  <2>5. PICK d : d = Reply(m.mac1, m.addr, MakeCookie(m.addr))
    OBVIOUS
  <2>6. d \in Datagrams /\ d.type = "cookie" /\ d.mac2 # Null /\ d.mac2.src = d.addr
    <3>1. PICK c : c = MakeCookie(m.addr)
      OBVIOUS
    <3>2. c \in Cookies /\ c.src = m.addr /\ c # Null
      BY <1>0, <3>1, CookieAssumption DEF MakeCookie, Cookies, Datagrams
    <3> QED
      BY <1>0, <2>5, <3>1, <3>2 DEF Reply, Datagrams
  <2>7. net' = net \/ net' = net \cup {d}
    BY <2>1, <2>5
  <2> HIDE DEF m
  <2> QED
    BY ZenonT(60), <1>0, <2>1, <2>3, <2>4, <2>6, <2>7, CheckStepKeeps
<1> QED
  BY <1>1, <1>2, <1>3, <1>4, <1>5

THEOREM CookieInvariance == CookieSpec => []CookieInv
<1>1. CookieInit => CookieInv
  BY CookieStarts
<1>2. CookieInv /\ [CookieNext]_ckVars => CookieInv'
  <2> SUFFICES ASSUME CookieInv, [CookieNext]_ckVars PROVE CookieInv'
    OBVIOUS
  <2>1. CASE UNCHANGED ckVars
    <3>1. UNCHANGED <<clock, net, rx, producer, checker, worker, sender, cookie, consumer>>
      BY <2>1 DEF ckVars
    <3>2. CookieTypeOK'
      BY <3>1 DEF CookieInv, CookieTypeOK
    <3> QED
      BY <3>1, <3>2, SenderStepKeeps
  <2>2. CASE CookieNext
    BY <2>2, SenderKeeps, QueueKeeps, TakeKeeps, DoneKeeps, CheckKeeps DEF CookieNext
  <2> QED
    BY <2>1, <2>2
<1> QED
  BY <1>1, <1>2, PTL DEF CookieSpec

(* Under load a handshake is only worked on for a sender to whose address the *)
(* device has sent a cookie made with the secret that was in use when the     *)
(* message was checked (CookieValidatePacket).                                *)
THEOREM AddressProved == CookieSpec => []CookieProvesAddress
<1>1. CookieInv => CookieProvesAddress
  BY DEF CookieInv
<1> QED
  BY <1>1, CookieInvariance, PTL

(* HandshakeRxQueueLen is the messages in the ring and in hand, but for the   *)
(* one not yet counted and those in hand when the device last went down.      *)
THEOREM QueueLenIsExact == CookieSpec => []LoadCounted
<1>1. CookieInv => LoadCounted
  BY DEF CookieInv
<1> QED
  BY <1>1, CookieInvariance, PTL

-----------------------------------------------------------------------------
(* The rate limiter.  Every piece of memory is at one place (OnePlace), so *)
(* that what is counted can be added up, and the last sweep has emptied    *)
(* what it has behind it (LastSweepInv).                                   *)

AllowPlaces == {"idle", "charge", "reserve", "allocate", "insert", "oom", "allowed", "refused"}

(* Idle's source is one of Sources, if there are any. *)
AllowStates == [at : AllowPlaces, src : Sources \cup {Idle.src}, e : Entries \cup {NoEntry}]

SweepStates ==
    [at : {"start", "sweep", "wait", "last sweep", "unloaded"}, Now : Nat, i : Nat,
     left : SUBSET Entries]

RatelimiterTypeOK ==
    /\ bucket \in [Sources -> Seq(Entries)]
    /\ retired \subseteq Entries
    /\ TotalEntries \in Nat
    /\ caller \in [Callers -> AllowStates]
    /\ gc \in SweepStates /\ gc.i >= 1
    /\ now \in Nat

Promised == {c \in Callers : caller[c].at \in {"allocate", "insert"}}
Refusing == {c \in Callers : caller[c].at = "oom"}
Inserting == {c \in Callers : caller[c].at = "insert"}

(* An entry is at one place of the table, or retired, or with one caller. *)
OnePlace ==
    /\ \A s, t \in Sources : \A j \in 1 .. Len(bucket[s]), k \in 1 .. Len(bucket[t]) :
         bucket[s][j] = bucket[t][k] => s = t /\ j = k
    /\ InTable \cap retired = {}
    /\ \A c \in Inserting : caller[c].e \in Entries \ (InTable \cup retired)
    /\ \A c, d \in Inserting : caller[c].e = caller[d].e => c = d

(* Who may still insert has a source that the table is for. *)
SourcesKnown ==
    \A c \in Callers :
      caller[c].at \in {"reserve", "allocate", "insert"} => caller[c].src \in Sources

EntriesInv ==
    /\ TotalEntries = Cardinality(InTable) + Cardinality(retired)
                        + Cardinality(Promised) + Cardinality(Refusing)
    /\ Cardinality(InTable) + Cardinality(retired) + Cardinality(Promised) <= MAX_ENTRIES

(* What the last sweep has behind it is empty, but for what it is looking at. *)
LastSweepInv ==
    /\ gc.left \subseteq InTable
    /\ gc.at \in {"start", "wait", "unloaded"} => gc.left = {}
    /\ gc.at \in {"last sweep", "unloaded"} =>
         /\ \A c \in Callers : caller[c].at = "idle"
         /\ \A j \in 1 .. Len(Table) : j < gc.i => \A s \in Table[j] : ToSet(bucket[s]) \subseteq gc.left
    /\ gc.at = "unloaded" => gc.i > Len(Table) /\ retired = {}

LimiterIInv == RatelimiterTypeOK /\ OnePlace /\ SourcesKnown /\ EntriesInv /\ LastSweepInv

-----------------------------------------------------------------------------
(* What is in the chains of a table. *)
LEMMA TableOf ==
  ASSUME NEW b \in [Sources -> Seq(Entries)]
  PROVE  /\ \A s \in Sources : \A e : e \in ToSet(b[s]) <=> \E k \in 1 .. Len(b[s]) : e = b[s][k]
         /\ \A e : e \in UNION {ToSet(b[s]) : s \in Sources}
                    <=> \E s \in Sources : \E k \in 1 .. Len(b[s]) : e = b[s][k]
         /\ UNION {ToSet(b[s]) : s \in Sources} \subseteq Entries
<1>1. ASSUME NEW s \in Sources
      PROVE  /\ ToSet(b[s]) \subseteq Entries
             /\ \A e : e \in ToSet(b[s]) <=> \E k \in 1 .. Len(b[s]) : e = b[s][k]
  <2>1. PICK q \in Seq(Entries) : q = b[s]
    OBVIOUS
  <2>2. DOMAIN q = 1 .. Len(q) /\ \A k \in 1 .. Len(q) : q[k] \in Entries
    OBVIOUS
  <2>3. QED
    BY <2>1, <2>2 DEF ToSet
<1>2. QED
  BY <1>1

(* The entries of the table, by their places. *)
LEMMA InTableIs ==
  ASSUME RatelimiterTypeOK
  PROVE  /\ \A e : e \in InTable <=> \E s \in Sources : \E k \in 1 .. Len(bucket[s]) : e = bucket[s][k]
         /\ InTable \subseteq Entries
BY TableOf DEF InTable, RatelimiterTypeOK

(* There is only so much memory, and only so many threads. *)
LEMMA LimiterFinite ==
  ASSUME RatelimiterTypeOK
  PROVE  /\ IsFiniteSet(InTable) /\ IsFiniteSet(retired) /\ IsFiniteSet(Promised) /\ IsFiniteSet(Refusing)
         /\ Cardinality(InTable) \in Nat /\ Cardinality(retired) \in Nat
         /\ Cardinality(Promised) \in Nat /\ Cardinality(Refusing) \in Nat
<1>1. InTable \subseteq Entries /\ retired \subseteq Entries
  BY InTableIs DEF RatelimiterTypeOK
<1>2. Promised \subseteq Callers /\ Refusing \subseteq Callers
  BY DEF Promised, Refusing
<1>3. IsFiniteSet(InTable) /\ IsFiniteSet(retired) /\ IsFiniteSet(Promised) /\ IsFiniteSet(Refusing)
  BY <1>1, <1>2, FS_Subset, RatelimiterAssumption
<1>4. QED
  BY <1>3, FS_CardinalityType

(* The sources of the table's buckets. *)
LEMMA TableIs ==
  /\ Len(Table) \in Nat
  /\ \A j \in 1 .. Len(Table) : Table[j] \subseteq Sources
  /\ \A s \in Sources : \E j \in 1 .. Len(Table) : s \in Table[j]
<1>1. Table \in Seq(SUBSET Sources)
  BY RatelimiterAssumption
<1>2. DOMAIN Table = 1 .. Len(Table) /\ Len(Table) \in Nat
  BY <1>1
<1>3. QED
  BY <1>2 DEF Sources, ToSet

(* Counting one more. *)
LEMMA OneMoreOf ==
  ASSUME NEW S, IsFiniteSet(S), NEW x, x \notin S
  PROVE  Cardinality(S \cup {x}) = Cardinality(S) + 1
BY FS_AddElement

(* Counting one less. *)
LEMMA OneLessOf ==
  ASSUME NEW S, IsFiniteSet(S), NEW x, x \in S
  PROVE  Cardinality(S \ {x}) = Cardinality(S) - 1
BY FS_RemoveElement

(* What HlistDelRcu leaves of a chain. *)
LEMMA RemoveAtIs ==
  ASSUME NEW S, NEW q \in Seq(S), NEW k \in 1 .. Len(q)
  PROVE  /\ RemoveAt(q, k) \in Seq(S) /\ Len(RemoveAt(q, k)) = Len(q) - 1
         /\ \A j \in 1 .. Len(q) - 1 : RemoveAt(q, k)[j] = IF j < k THEN q[j] ELSE q[j + 1]
<1>1. \A j \in 1 .. Len(q) : q[j] \in S
  OBVIOUS
<1>2. /\ SubSeq(q, 1, k - 1) \in Seq(S) /\ Len(SubSeq(q, 1, k - 1)) = k - 1
      /\ \A j \in 1 .. k - 1 : SubSeq(q, 1, k - 1)[j] = q[j]
  BY <1>1, SubSeqProperties
<1>3. /\ SubSeq(q, k + 1, Len(q)) \in Seq(S) /\ Len(SubSeq(q, k + 1, Len(q))) = Len(q) - k
      /\ \A j \in 1 .. Len(q) - k : SubSeq(q, k + 1, Len(q))[j] = q[k + j]
  BY <1>1, SubSeqProperties
<1> DEFINE a == SubSeq(q, 1, k - 1)
           b == SubSeq(q, k + 1, Len(q))
<1>4. RemoveAt(q, k) = a \o b
  BY DEF RemoveAt
<1>5. a \in Seq(S) /\ Len(a) = k - 1 /\ \A j \in 1 .. k - 1 : a[j] = q[j]
  BY <1>2
<1>6. b \in Seq(S) /\ Len(b) = Len(q) - k /\ \A j \in 1 .. Len(q) - k : b[j] = q[k + j]
  BY <1>3
<1> HIDE DEF a, b
<1>7. /\ a \o b \in Seq(S) /\ Len(a \o b) = Len(q) - 1
      /\ \A j \in 1 .. Len(q) - 1 : (a \o b)[j] = IF j <= k - 1 THEN a[j] ELSE b[j - (k - 1)]
  <2>1. k - 1 + (Len(q) - k) = Len(q) - 1 /\ Len(q) \in Nat
    OBVIOUS
  <2>2. a \in Seq(S) /\ b \in Seq(S)
    BY <1>5, <1>6
  <2>3. /\ a \o b \in Seq(S) /\ Len(a \o b) = Len(a) + Len(b)
        /\ \A j \in 1 .. Len(a) + Len(b) : (a \o b)[j] = IF j <= Len(a) THEN a[j] ELSE b[j - Len(a)]
    BY <2>2, ConcatProperties
  <2>4. QED
    BY <1>5, <1>6, <2>1, <2>3
<1>8. ASSUME NEW j \in 1 .. Len(q) - 1
      PROVE  (a \o b)[j] = IF j < k THEN q[j] ELSE q[j + 1]
  <2>1. CASE j < k
    <3>1. j <= k - 1 /\ j \in 1 .. k - 1
      BY <2>1
    <3>2. QED
      BY <1>5, <1>7, <2>1, <3>1
  <2>2. CASE j >= k
    <3>1. (a \o b)[j] = b[j - (k - 1)]
      <4>1. ~(j <= k - 1)
        BY <2>2
      <4>2. QED
        BY <1>7, <4>1
    <3>2. j - (k - 1) \in 1 .. Len(q) - k /\ k + (j - (k - 1)) = j + 1
      BY <2>2
    <3>3. QED
      BY <1>6, <2>2, <3>1, <3>2
  <2>3. j < k \/ j >= k
    OBVIOUS
  <2>4. QED
    BY <2>1, <2>2, <2>3
<1>9. QED
  BY <1>4, <1>7, <1>8

(* The types that the steps need. *)
LEMMA LimiterTypes ==
  ASSUME LimiterIInv
  PROVE  /\ now \in Nat /\ TotalEntries \in Nat /\ caller \in [Callers -> AllowStates]
         /\ gc \in SweepStates /\ gc.i \in Nat /\ gc.i >= 1 /\ gc.Now \in Nat /\ gc.left \subseteq Entries
         /\ bucket \in [Sources -> Seq(Entries)]
<1>1. /\ now \in Nat /\ TotalEntries \in Nat /\ caller \in [Callers -> AllowStates]
      /\ gc \in SweepStates /\ gc.i >= 1 /\ bucket \in [Sources -> Seq(Entries)]
  BY DEF LimiterIInv, RatelimiterTypeOK
<1>2. gc.i \in Nat /\ gc.Now \in Nat /\ gc.left \subseteq Entries
  BY <1>1 DEF SweepStates
<1>3. QED
  BY <1>1, <1>2

(* A step of RatelimiterAllow that changes only where its caller is. *)
LEMMA CallerMoves ==
  ASSUME RatelimiterTypeOK, NEW c \in Callers, NEW p \in AllowPlaces,
         caller' = [caller EXCEPT ![c].at = p]
  PROVE  /\ caller' \in [Callers -> AllowStates]
         /\ caller'[c].at = p /\ caller'[c].src = caller[c].src /\ caller'[c].e = caller[c].e
         /\ \A d \in Callers : d # c => caller'[d] = caller[d]
BY DEF RatelimiterTypeOK, AllowStates

(* A step that leaves the table, the count and the sweep alone. *)
LEMMA OnlyCallers ==
  ASSUME LimiterIInv, bucket' = bucket, retired' = retired, gc' = gc,
         caller' \in [Callers -> AllowStates], now' \in Nat, TotalEntries' \in Nat, SourcesKnown',
         Inserting' \subseteq Inserting, \A c \in Inserting' : caller'[c].e = caller[c].e,
         gc.at \in {"last sweep", "unloaded"} => \A c \in Callers : caller'[c].at = "idle",
         EntriesInv'
  PROVE  LimiterIInv'
<1>1. InTable' = InTable
  BY DEF InTable
<1>2. RatelimiterTypeOK'
  BY DEF LimiterIInv, RatelimiterTypeOK
<1>3. OnePlace'
  <2>1. \A s, t \in Sources : \A j \in 1 .. Len(bucket'[s]), k \in 1 .. Len(bucket'[t]) :
          bucket'[s][j] = bucket'[t][k] => s = t /\ j = k
    <3>1. \A s, t \in Sources : \A j \in 1 .. Len(bucket[s]), k \in 1 .. Len(bucket[t]) :
            bucket[s][j] = bucket[t][k] => s = t /\ j = k
      BY DEF LimiterIInv, OnePlace
    <3>2. SUFFICES ASSUME NEW s \in Sources, NEW t \in Sources, NEW j \in 1 .. Len(bucket'[s]),
                          NEW k \in 1 .. Len(bucket'[t]), bucket'[s][j] = bucket'[t][k]
                   PROVE  s = t /\ j = k
      OBVIOUS
    <3>3. j \in 1 .. Len(bucket[s]) /\ k \in 1 .. Len(bucket[t]) /\ bucket[s][j] = bucket[t][k]
      BY <3>2
    <3>4. QED
      BY <3>1, <3>3
  <2>2. InTable' \cap retired' = {}
    BY <1>1 DEF LimiterIInv, OnePlace
  <2>3. \A c \in Inserting' : caller'[c].e \in Entries \ (InTable' \cup retired')
    BY <1>1 DEF LimiterIInv, OnePlace
  <2>4. \A c, d \in Inserting' : caller'[c].e = caller'[d].e => c = d
    BY DEF LimiterIInv, OnePlace
  <2>5. QED
    BY <2>1, <2>2, <2>3, <2>4 DEF OnePlace
<1>4. LastSweepInv'
  BY <1>1 DEF LimiterIInv, LastSweepInv
<1>5. QED
  BY <1>2, <1>3, <1>4 DEF LimiterIInv

(* Where nothing moves, the count stays right. *)
LEMMA SameCounts ==
  ASSUME EntriesInv, bucket' = bucket, retired' = retired, TotalEntries' = TotalEntries,
         Promised' = Promised, Refusing' = Refusing
  PROVE  EntriesInv'
<1>1. InTable' = InTable
  BY DEF InTable
<1>2. QED
  BY <1>1 DEF EntriesInv

(* Time passes. *)
LEMMA TickAllowed == ASSUME LimiterIInv, RatelimiterTick PROVE LimiterIInv'
<1>1. UNCHANGED <<bucket, retired, TotalEntries, caller, gc>> /\ now' = now + 1
  BY DEF RatelimiterTick
<1>2. Promised' = Promised /\ Refusing' = Refusing /\ Inserting' = Inserting
  BY <1>1 DEF Promised, Refusing, Inserting
<1>3. EntriesInv'
  BY <1>1, <1>2, SameCounts DEF LimiterIInv
<1>4. SourcesKnown' /\ \A c \in Inserting' : caller'[c].e = caller[c].e
  BY <1>1 DEF LimiterIInv, SourcesKnown
<1>5. gc.at \in {"last sweep", "unloaded"} => \A c \in Callers : caller'[c].at = "idle"
  BY <1>1 DEF LimiterIInv, LastSweepInv
<1>6. now' \in Nat /\ TotalEntries' \in Nat /\ caller' \in [Callers -> AllowStates]
  BY <1>1, LimiterTypes
<1>7. QED
  BY <1>1, <1>2, <1>3, <1>4, <1>5, <1>6, OnlyCallers

(* The lookup under RCU. *)
LEMMA FindKeeps == ASSUME LimiterIInv, NEW c \in Callers, NEW s \in Sources, Find(c, s) PROVE LimiterIInv'
<1>1. /\ UNCHANGED <<now, bucket, retired, TotalEntries, gc>>
      /\ gc.at \notin {"last sweep", "unloaded"} /\ caller[c].at = "idle"
  BY DEF Find
<1>2. bucket[s] # <<>> => Head(bucket[s]) \in Entries
  <2>1. PICK q \in Seq(Entries) : q = bucket[s]
    BY DEF LimiterIInv, RatelimiterTypeOK
  <2>2. q # <<>> => Head(q) \in Entries
    OBVIOUS
  <2>3. QED
    BY <2>1, <2>2
<1>3. /\ caller' \in [Callers -> AllowStates]
      /\ caller'[c].at \in {"reserve", "charge"} /\ caller'[c].src = s
      /\ \A d \in Callers : d # c => caller'[d] = caller[d]
  BY <1>2 DEF Find, LimiterIInv, RatelimiterTypeOK, AllowStates, AllowPlaces
<1>4. Promised' = Promised /\ Refusing' = Refusing /\ Inserting' = Inserting
  BY <1>1, <1>3 DEF Promised, Refusing, Inserting
<1>5. EntriesInv'
  BY <1>1, <1>4, SameCounts DEF LimiterIInv
<1>6. SourcesKnown' /\ \A d \in Inserting' : caller'[d].e = caller[d].e
  BY <1>1, <1>3, <1>4 DEF LimiterIInv, SourcesKnown, Inserting
<1>7. QED
  BY <1>1, <1>3, <1>4, <1>5, <1>6, OnlyCallers DEF LimiterIInv, RatelimiterTypeOK

(* The packet's price. *)
LEMMA ChargeKeeps == ASSUME LimiterIInv, NEW c \in Callers, Charge(c) PROVE LimiterIInv'
<1>1. PICK p \in {"allowed", "refused"} : caller' = [caller EXCEPT ![c].at = p]
  BY DEF Charge
<1>2. UNCHANGED <<now, bucket, retired, TotalEntries, gc>> /\ caller[c].at = "charge"
  BY DEF Charge
<1>3. /\ caller' \in [Callers -> AllowStates]
      /\ caller'[c].at = p /\ caller'[c].src = caller[c].src /\ caller'[c].e = caller[c].e
      /\ \A d \in Callers : d # c => caller'[d] = caller[d]
  BY <1>1, CallerMoves DEF LimiterIInv, AllowPlaces
<1>4. Promised' = Promised /\ Refusing' = Refusing /\ Inserting' = Inserting
  BY <1>2, <1>3 DEF Promised, Refusing, Inserting
<1>5. EntriesInv'
  BY <1>2, <1>4, SameCounts DEF LimiterIInv
<1>6. SourcesKnown' /\ \A d \in Inserting' : caller'[d].e = caller[d].e
  BY <1>2, <1>3, <1>4 DEF LimiterIInv, SourcesKnown, Inserting
<1>7. gc.at \notin {"last sweep", "unloaded"}
  BY <1>2 DEF LimiterIInv, LastSweepInv
<1>8. QED
  BY <1>2, <1>3, <1>4, <1>5, <1>6, <1>7, OnlyCallers DEF LimiterIInv, RatelimiterTypeOK

(* RatelimiterAllow returns. *)
LEMMA ReturnKeeps == ASSUME LimiterIInv, NEW c \in Callers, Return(c) PROVE LimiterIInv'
<1>1. UNCHANGED <<now, bucket, retired, TotalEntries, gc>> /\ caller[c].at \in {"allowed", "refused"}
  BY DEF Return
<1>2. Idle \in AllowStates /\ Idle.at = "idle"
  BY DEF Idle, AllowStates, AllowPlaces
<1>3. /\ caller' \in [Callers -> AllowStates] /\ caller'[c].at = "idle"
      /\ \A d \in Callers : d # c => caller'[d] = caller[d]
  BY <1>2 DEF Return, LimiterIInv, RatelimiterTypeOK
<1>4. Promised' = Promised /\ Refusing' = Refusing /\ Inserting' = Inserting
  BY <1>1, <1>3 DEF Promised, Refusing, Inserting
<1>5. EntriesInv'
  BY <1>1, <1>4, SameCounts DEF LimiterIInv
<1>6. SourcesKnown' /\ \A d \in Inserting' : caller'[d].e = caller[d].e
  BY <1>1, <1>3, <1>4 DEF LimiterIInv, SourcesKnown, Inserting
<1>7. gc.at \notin {"last sweep", "unloaded"}
  BY <1>1 DEF LimiterIInv, LastSweepInv
<1>8. QED
  BY <1>1, <1>3, <1>4, <1>5, <1>6, <1>7, OnlyCallers DEF LimiterIInv, RatelimiterTypeOK

(* A place is reserved: one more that is promised, or one more that is refused. *)
LEMMA ReserveKeeps == ASSUME LimiterIInv, NEW c \in Callers, Reserve(c) PROVE LimiterIInv'
<1>1. /\ UNCHANGED <<now, bucket, retired, gc>> /\ caller[c].at = "reserve"
      /\ TotalEntries' = TotalEntries + 1
  BY DEF Reserve
<1>2. PICK p \in {"oom", "allocate"} :
        caller' = [caller EXCEPT ![c].at = p] /\ (p = "allocate" => TotalEntries' <= MAX_ENTRIES)
  <2>1. TotalEntries' \in Nat /\ MAX_ENTRIES \in Nat
    BY <1>1, LimiterTypes, RatelimiterAssumption
  <2>2. CASE TotalEntries' > MAX_ENTRIES
    BY <2>2 DEF Reserve
  <2>3. CASE ~(TotalEntries' > MAX_ENTRIES)
    BY <2>1, <2>3 DEF Reserve
  <2>4. QED
    BY <2>2, <2>3
<1>3. /\ caller' \in [Callers -> AllowStates]
      /\ caller'[c].at = p /\ caller'[c].src = caller[c].src /\ caller'[c].e = caller[c].e
      /\ \A d \in Callers : d # c => caller'[d] = caller[d]
  <2>1. p \in AllowPlaces /\ RatelimiterTypeOK
    BY DEF AllowPlaces, LimiterIInv
  <2>2. QED
    BY <1>2, <2>1, CallerMoves
<1>4. InTable' = InTable /\ Inserting' = Inserting /\ c \notin Promised /\ c \notin Refusing
  BY <1>1, <1>2, <1>3 DEF InTable, Inserting, Promised, Refusing
<1>5. EntriesInv'
  <2>1. CASE p = "oom"
    <3>1. Promised' = Promised /\ Refusing' = Refusing \cup {c}
      BY <1>1, <1>3, <2>1 DEF Promised, Refusing
    <3>2. Cardinality(Refusing)' = Cardinality(Refusing) + 1
      BY <1>4, <3>1, OneMoreOf, LimiterFinite DEF LimiterIInv
    <3>3. QED
      BY <1>1, <1>4, <3>1, <3>2, LimiterFinite DEF LimiterIInv, EntriesInv
  <2>2. CASE p = "allocate"
    <3>1. Promised' = Promised \cup {c} /\ Refusing' = Refusing
      BY <1>1, <1>3, <2>2 DEF Promised, Refusing
    <3>2. Cardinality(Promised)' = Cardinality(Promised) + 1
      BY <1>4, <3>1, OneMoreOf, LimiterFinite DEF LimiterIInv
    <3>3. /\ Cardinality(Refusing)' = Cardinality(Refusing) /\ Cardinality(InTable)' = Cardinality(InTable)
          /\ Cardinality(retired)' = Cardinality(retired)
      BY <1>1, <1>4, <3>1
    <3>4. /\ Cardinality(InTable) \in Nat /\ Cardinality(retired) \in Nat
          /\ Cardinality(Promised) \in Nat /\ Cardinality(Refusing) \in Nat
      BY LimiterFinite DEF LimiterIInv
    <3>5. TotalEntries' <= MAX_ENTRIES /\ MAX_ENTRIES \in Nat
      BY <1>2, <2>2, RatelimiterAssumption
    <3>6. QED
      BY <1>1, <3>2, <3>3, <3>4, <3>5 DEF LimiterIInv, EntriesInv
  <2>3. QED
    BY <2>1, <2>2
<1>6. SourcesKnown' /\ \A d \in Inserting' : caller'[d].e = caller[d].e
  BY <1>1, <1>3, <1>4 DEF LimiterIInv, SourcesKnown, Inserting
<1>7. gc.at \notin {"last sweep", "unloaded"}
  BY <1>1 DEF LimiterIInv, LastSweepInv
<1>8. TotalEntries' \in Nat /\ now' \in Nat
  BY <1>1, LimiterTypes
<1>9. QED
  BY <1>1, <1>3, <1>4, <1>5, <1>6, <1>7, <1>8, OnlyCallers

(* A refused place is given back. *)
LEMMA OomKeeps == ASSUME LimiterIInv, NEW c \in Callers, Oom(c) PROVE LimiterIInv'
<1>1. /\ UNCHANGED <<now, bucket, retired, gc>> /\ caller[c].at = "oom"
      /\ TotalEntries' = TotalEntries - 1 /\ caller' = [caller EXCEPT ![c].at = "refused"]
  BY DEF Oom
<1>2. /\ caller' \in [Callers -> AllowStates]
      /\ caller'[c].at = "refused" /\ caller'[c].e = caller[c].e
      /\ \A d \in Callers : d # c => caller'[d] = caller[d]
  BY <1>1, CallerMoves DEF LimiterIInv, AllowPlaces
<1>3. InTable' = InTable /\ Inserting' = Inserting /\ Promised' = Promised
  BY <1>1, <1>2 DEF InTable, Inserting, Promised
<1>4. c \in Refusing /\ Refusing' = Refusing \ {c}
  BY <1>1, <1>2 DEF Refusing
<1>5. Cardinality(Refusing)' = Cardinality(Refusing) - 1
  BY <1>4, OneLessOf, LimiterFinite DEF LimiterIInv
<1>6. Cardinality(Refusing) >= 1
  <2>1. IsFiniteSet(Refusing \ {c})
    BY FS_Subset, LimiterFinite DEF LimiterIInv
  <2>2. Cardinality(Refusing)' \in Nat
    BY <1>4, <2>1, FS_CardinalityType
  <2>3. QED
    BY <1>5, <2>2, LimiterFinite DEF LimiterIInv
<1>7. EntriesInv' /\ TotalEntries' \in Nat
  BY <1>1, <1>3, <1>5, <1>6, LimiterFinite DEF LimiterIInv, EntriesInv
<1>8. SourcesKnown' /\ \A d \in Inserting' : caller'[d].e = caller[d].e
  BY <1>1, <1>2, <1>3 DEF LimiterIInv, SourcesKnown, Inserting
<1>9. gc.at \notin {"last sweep", "unloaded"} /\ now' \in Nat
  BY <1>1 DEF LimiterIInv, LastSweepInv, RatelimiterTypeOK
<1>10. QED
  BY <1>1, <1>2, <1>3, <1>7, <1>8, <1>9, OnlyCallers

(* Memory that is nobody's is promised, or the place is refused. *)
LEMMA AllocateKeeps == ASSUME LimiterIInv, NEW c \in Callers, Allocate(c) PROVE LimiterIInv'
<1>1. /\ UNCHANGED <<now, bucket, retired, TotalEntries, gc>> /\ caller[c].at = "allocate"
  BY DEF Allocate
<1>2. gc.at \notin {"last sweep", "unloaded"} /\ now' \in Nat /\ TotalEntries' \in Nat
  BY <1>1 DEF LimiterIInv, LastSweepInv, RatelimiterTypeOK
<1>3. InTable' = InTable
  BY <1>1 DEF InTable
<1>4. CASE caller' = [caller EXCEPT ![c].at = "oom"]
  <2>1. /\ caller' \in [Callers -> AllowStates]
        /\ caller'[c].at = "oom"
        /\ \A d \in Callers : d # c => caller'[d] = caller[d]
    BY <1>4, CallerMoves DEF LimiterIInv, AllowPlaces
  <2>2. Inserting' = Inserting /\ c \in Promised /\ c \notin Refusing
    BY <1>1, <2>1 DEF Inserting, Promised, Refusing
  <2>3. Promised' = Promised \ {c} /\ Refusing' = Refusing \cup {c}
    BY <1>1, <2>1 DEF Promised, Refusing
  <2>4. /\ Cardinality(Promised)' = Cardinality(Promised) - 1
        /\ Cardinality(Refusing)' = Cardinality(Refusing) + 1
    BY <2>2, <2>3, OneMoreOf, OneLessOf, LimiterFinite DEF LimiterIInv
  <2>5. EntriesInv'
    BY <1>1, <1>3, <2>4, LimiterFinite, RatelimiterAssumption DEF LimiterIInv, EntriesInv
  <2>6. SourcesKnown' /\ \A d \in Inserting' : caller'[d].e = caller[d].e
    BY <1>1, <2>1, <2>2 DEF LimiterIInv, SourcesKnown, Inserting
  <2>7. QED
    BY <1>1, <1>2, <2>1, <2>2, <2>5, <2>6, OnlyCallers
<1>5. CASE /\ Unused # {}
           /\ caller' = [caller EXCEPT ![c] = [@ EXCEPT !.at = "insert", !.e = CHOOSE u \in Unused : TRUE]]
  <2>1. PICK e \in Unused : caller' = [caller EXCEPT ![c] = [@ EXCEPT !.at = "insert", !.e = e]]
    BY <1>5
  <2>2. /\ e \in Entries \ (InTable \cup retired)
        /\ \A d \in Inserting : caller[d].e # e
    BY DEF Unused, Inserting
  <2>3. /\ caller' \in [Callers -> AllowStates]
        /\ caller'[c].at = "insert" /\ caller'[c].e = e /\ caller'[c].src = caller[c].src
        /\ \A d \in Callers : d # c => caller'[d] = caller[d]
    BY <2>1, <2>2 DEF LimiterIInv, RatelimiterTypeOK, AllowStates, AllowPlaces
  <2>4. Promised' = Promised /\ Refusing' = Refusing
        /\ Inserting' = Inserting \cup {c} /\ c \notin Inserting
    BY <1>1, <2>3 DEF Promised, Refusing, Inserting
  <2>5. EntriesInv'
    BY <1>1, <2>4, SameCounts DEF LimiterIInv
  <2>6. RatelimiterTypeOK'
    BY <1>1, <2>3 DEF LimiterIInv, RatelimiterTypeOK
  <2>7. OnePlace'
    <3>1. \A d \in Inserting : caller'[d] = caller[d]
      BY <2>3, <2>4 DEF Inserting
    <3>2. \A d \in Inserting' : caller'[d].e \in Entries \ (InTable \cup retired)
      BY <2>2, <2>3, <2>4, <3>1 DEF LimiterIInv, OnePlace
    <3>3. \A d1, d2 \in Inserting' : caller'[d1].e = caller'[d2].e => d1 = d2
      BY <2>2, <2>3, <2>4, <3>1 DEF LimiterIInv, OnePlace
    <3>4. QED
      BY <1>1, <1>3, <3>2, <3>3 DEF LimiterIInv, OnePlace
  <2>8. SourcesKnown'
    BY <1>1, <2>3 DEF LimiterIInv, SourcesKnown
  <2>9. LastSweepInv'
    BY <1>1, <1>2, <1>3 DEF LimiterIInv, LastSweepInv
  <2>10. QED
    BY <2>5, <2>6, <2>7, <2>8, <2>9 DEF LimiterIInv
<1>6. QED
  BY <1>4, <1>5 DEF Allocate

(* A promised entry is now in the table, and only there. *)
LEMMA InsertKeeps == ASSUME LimiterIInv, NEW c \in Callers, Insert(c) PROVE LimiterIInv'
<1>1. /\ UNCHANGED <<now, retired, TotalEntries, gc>> /\ caller[c].at = "insert" /\ gc.left = {}
      /\ caller' = [caller EXCEPT ![c].at = "allowed"]
  BY DEF Insert
<1>2. gc.at \notin {"last sweep", "unloaded"}
  BY <1>1 DEF LimiterIInv, LastSweepInv
<1>3. /\ caller' \in [Callers -> AllowStates]
      /\ caller'[c].at = "allowed"
      /\ \A d \in Callers : d # c => caller'[d] = caller[d]
  BY <1>1, CallerMoves DEF LimiterIInv, AllowPlaces
<1>4. PICK s \in Sources : s = caller[c].src
  BY <1>1 DEF LimiterIInv, SourcesKnown
<1>5. PICK e \in Entries : e = caller[c].e /\ e \notin InTable /\ e \notin retired
  BY <1>1 DEF LimiterIInv, OnePlace, Inserting
<1>6. bucket' = [bucket EXCEPT ![s] = <<e>> \o bucket[s]] /\ bucket[s] \in Seq(Entries)
  BY <1>4, <1>5 DEF Insert, LimiterIInv, RatelimiterTypeOK
<1>7. /\ <<e>> \o bucket[s] \in Seq(Entries) /\ Len(<<e>> \o bucket[s]) = Len(bucket[s]) + 1
      /\ (<<e>> \o bucket[s])[1] = e
      /\ \A j \in 2 .. Len(bucket[s]) + 1 : (<<e>> \o bucket[s])[j] = bucket[s][j - 1]
  BY <1>6
<1>8. /\ bucket' \in [Sources -> Seq(Entries)] /\ Len(bucket'[s]) = Len(bucket[s]) + 1
      /\ bucket'[s][1] = e /\ \A j \in 2 .. Len(bucket'[s]) : bucket'[s][j] = bucket[s][j - 1]
      /\ \A t \in Sources : t # s => bucket'[t] = bucket[t]
  BY <1>6, <1>7 DEF LimiterIInv, RatelimiterTypeOK
<1>9. RatelimiterTypeOK'
  BY <1>1, <1>3, <1>8 DEF LimiterIInv, RatelimiterTypeOK
<1>10. \A x : x \in InTable' <=> x \in InTable \/ x = e
  <2>1. \A x : x \in InTable' <=> \E t \in Sources : \E k \in 1 .. Len(bucket'[t]) : x = bucket'[t][k]
    BY <1>8, TableOf DEF InTable
  <2>2. \A x : x \in InTable <=> \E t \in Sources : \E k \in 1 .. Len(bucket[t]) : x = bucket[t][k]
    BY InTableIs DEF LimiterIInv
  <2>3. ASSUME NEW x, NEW t \in Sources, NEW k \in 1 .. Len(bucket[t]), x = bucket[t][k]
        PROVE  \E k1 \in 1 .. Len(bucket'[t]) : x = bucket'[t][k1]
    <3>1. CASE t = s
      <4>1. k + 1 \in 2 .. Len(bucket'[s]) /\ (k + 1) - 1 = k
        BY <1>6, <1>8, <3>1
      <4>2. k + 1 \in 1 .. Len(bucket'[s]) /\ x = bucket'[s][k + 1]
        BY <1>8, <2>3, <3>1, <4>1
      <4>3. QED
        BY <3>1, <4>2
    <3>2. CASE t # s
      BY <1>8, <2>3, <3>2
    <3>3. QED
      BY <3>1, <3>2
  <2>4. ASSUME NEW x, NEW t \in Sources, NEW k \in 1 .. Len(bucket'[t]), x = bucket'[t][k]
        PROVE  x = e \/ \E k1 \in 1 .. Len(bucket[t]) : x = bucket[t][k1]
    <3>1. CASE t = s /\ k # 1
      <4>1. k \in 2 .. Len(bucket'[s]) /\ k - 1 \in 1 .. Len(bucket[s])
        BY <1>6, <1>8, <3>1
      <4>2. QED
        BY <1>8, <2>4, <3>1, <4>1
    <3>2. CASE t # s
      BY <1>8, <2>4, <3>2
    <3>3. CASE t = s /\ k = 1
      BY <1>8, <2>4, <3>3
    <3>4. QED
      BY <3>1, <3>2, <3>3
  <2>5. \E k \in 1 .. Len(bucket'[s]) : e = bucket'[s][k]
    BY <1>6, <1>8
  <2>6. ASSUME NEW x, x \in InTable' PROVE x \in InTable \/ x = e
    <3>1. PICK t \in Sources : \E k \in 1 .. Len(bucket'[t]) : x = bucket'[t][k]
      BY <2>1, <2>6
    <3>2. QED
      BY <2>2, <2>4, <3>1
  <2>7. ASSUME NEW x, x \in InTable \/ x = e PROVE x \in InTable'
    <3>1. CASE x = e
      BY <2>1, <2>5, <3>1
    <3>2. CASE x \in InTable
      <4>1. PICK t \in Sources : \E k \in 1 .. Len(bucket[t]) : x = bucket[t][k]
        BY <2>2, <3>2
      <4>2. QED
        BY <2>1, <2>3, <4>1
    <3>3. QED
      BY <2>7, <3>1, <3>2
  <2>8. QED
    BY <2>6, <2>7
<1>11. OnePlace'
  <2>1. \A t, u \in Sources : \A j \in 1 .. Len(bucket'[t]), k \in 1 .. Len(bucket'[u]) :
          bucket'[t][j] = bucket'[u][k] => t = u /\ j = k
    <3> DEFINE Old(t, j) == t # s \/ j # 1
               At(t, j) == IF t = s THEN j - 1 ELSE j
    <3>1. ASSUME NEW t \in Sources, NEW j \in 1 .. Len(bucket'[t]), Old(t, j)
          PROVE  At(t, j) \in 1 .. Len(bucket[t]) /\ bucket'[t][j] = bucket[t][At(t, j)]
      <4>1. CASE t = s
        <5>1. j \in 2 .. Len(bucket'[s]) /\ j - 1 \in 1 .. Len(bucket[s])
          BY <1>6, <1>8, <3>1, <4>1
        <5>2. QED
          BY <1>8, <4>1, <5>1
      <4>2. CASE t # s
        BY <1>8, <4>2
      <4>3. QED
        BY <4>1, <4>2
    <3>2. ASSUME NEW t \in Sources, NEW j \in 1 .. Len(bucket'[t]), Old(t, j) PROVE bucket'[t][j] # e
      BY <1>5, <3>1, <3>2, InTableIs DEF LimiterIInv
    <3>3. ASSUME NEW t \in Sources, NEW j \in 1 .. Len(bucket'[t]), ~Old(t, j)
          PROVE t = s /\ j = 1 /\ bucket'[t][j] = e
      BY <1>8, <3>3
    <3>4. ASSUME NEW t \in Sources, NEW u \in Sources,
                 NEW j \in 1 .. Len(bucket'[t]), NEW k \in 1 .. Len(bucket'[u]),
                 Old(t, j), Old(u, k), bucket'[t][j] = bucket'[u][k]
          PROVE  t = u /\ j = k
      <4>1. bucket[t][At(t, j)] = bucket[u][At(u, k)]
        BY <3>1, <3>4
      <4>2. t = u /\ At(t, j) = At(u, k)
        BY <3>1, <3>4, <4>1 DEF LimiterIInv, OnePlace
      <4>3. QED
        BY <4>2, <1>6, <1>8
    <3> HIDE DEF Old, At
    <3>5. QED
      BY <3>2, <3>3, <3>4
  <2>2. Inserting' = Inserting \ {c} /\ c \in Inserting
    BY <1>1, <1>3 DEF Inserting
  <2>3. \A d \in Inserting' : caller'[d] = caller[d] /\ caller[d].e # e /\ d \in Inserting
    <3>1. \A d \in Inserting' : d \in Inserting /\ d # c /\ d \in Callers
      BY <2>2 DEF Inserting
    <3>2. \A d \in Inserting : d # c => caller[d].e # e
      BY <1>5, <2>2 DEF LimiterIInv, OnePlace
    <3>3. QED
      BY <1>3, <3>1, <3>2
  <2>4. InTable' \cap retired' = {}
    BY <1>1, <1>5, <1>10 DEF LimiterIInv, OnePlace
  <2>5. \A d \in Inserting' : caller'[d].e \in Entries \ (InTable' \cup retired')
    BY <1>1, <1>10, <2>3 DEF LimiterIInv, OnePlace
  <2>6. \A d1, d2 \in Inserting' : caller'[d1].e = caller'[d2].e => d1 = d2
    BY <2>3 DEF LimiterIInv, OnePlace
  <2>7. QED
    BY <2>1, <2>4, <2>5, <2>6 DEF OnePlace
<1>12. EntriesInv'
  <2>1. InTable' = InTable \cup {e}
    BY <1>10
  <2>2. c \in Promised /\ Promised' = Promised \ {c} /\ Refusing' = Refusing
    BY <1>1, <1>3 DEF Promised, Refusing
  <2>3. Cardinality(InTable)' = Cardinality(InTable) + 1
        /\ Cardinality(Promised)' = Cardinality(Promised) - 1
    BY <1>5, <2>1, <2>2, OneMoreOf, OneLessOf, LimiterFinite DEF LimiterIInv
  <2>4. QED
    BY SMTT(30), <1>1, <2>2, <2>3, LimiterFinite, RatelimiterAssumption DEF LimiterIInv, EntriesInv
<1>13. SourcesKnown'
  BY <1>1, <1>3 DEF LimiterIInv, SourcesKnown
<1>14. LastSweepInv'
  BY <1>1, <1>2 DEF LimiterIInv, LastSweepInv
<1>15. QED
  BY <1>9, <1>11, <1>12, <1>13, <1>14 DEF LimiterIInv

(* A step of the collector that leaves the entries alone. *)
LEMMA OnlySweep ==
  ASSUME LimiterIInv, UNCHANGED <<now, bucket, retired, TotalEntries, caller>>,
         gc' \in SweepStates, gc'.i >= 1, LastSweepInv'
  PROVE  LimiterIInv'
<1>1. InTable' = InTable /\ Promised' = Promised /\ Refusing' = Refusing /\ Inserting' = Inserting
  BY DEF InTable, Promised, Refusing, Inserting
<1>2. RatelimiterTypeOK'
  BY DEF LimiterIInv, RatelimiterTypeOK
<1>3. OnePlace'
  BY <1>1 DEF LimiterIInv, OnePlace
<1>a. SourcesKnown'
  BY DEF LimiterIInv, SourcesKnown
<1>4. EntriesInv'
  BY <1>1, SameCounts DEF LimiterIInv
<1>5. QED
  BY <1>2, <1>3, <1>a, <1>4 DEF LimiterIInv

(* The collector begins. *)
LEMMA StartSweepKeeps == ASSUME LimiterIInv, StartSweep PROVE LimiterIInv'
<1>1. UNCHANGED <<now, bucket, retired, TotalEntries, caller>>
      /\ gc' = [at |-> "sweep", Now |-> now, i |-> 1, left |-> {}]
  BY DEF StartSweep
<1>2. gc' \in SweepStates /\ gc'.i >= 1
  <2>1. now \in Nat
    BY LimiterTypes
  <2>2. QED
    BY <1>1, <2>1 DEF SweepStates
<1>3. LastSweepInv'
  BY <1>1 DEF LastSweepInv
<1>4. QED
  BY <1>1, <1>2, <1>3, OnlySweep

(* It goes to the next bucket; what it has behind it stays empty. *)
LEMMA EnterBucketKeeps == ASSUME LimiterIInv, EnterBucket PROVE LimiterIInv'
<1>1. /\ UNCHANGED <<now, bucket, retired, TotalEntries, caller>>
      /\ gc.at \in {"sweep", "last sweep"} /\ gc.i <= Len(Table) /\ gc.left = {}
      /\ gc' = [gc EXCEPT !.i = gc.i + 1, !.left = UNION {ToSet(bucket[s]) : s \in Table[gc.i]}]
  BY DEF EnterBucket
<1>2. gc.i \in 1 .. Len(Table)
  <2>1. gc.i \in Nat /\ gc.i >= 1
    BY LimiterTypes
  <2>2. gc.i <= Len(Table) /\ Len(Table) \in Nat
    BY <1>1, TableIs
  <2>3. QED
    BY <2>1, <2>2
<1>3. Table[gc.i] \subseteq Sources
  BY <1>2, TableIs
<1>4. UNION {ToSet(bucket[s]) : s \in Table[gc.i]} \subseteq InTable
  BY <1>3 DEF InTable
<1>5. UNION {ToSet(bucket[s]) : s \in Table[gc.i]} \subseteq Entries
  BY <1>4, InTableIs DEF LimiterIInv
<1>6. /\ gc' \in SweepStates
      /\ gc'.at = gc.at /\ gc'.i = gc.i + 1
      /\ gc'.left = UNION {ToSet(bucket[s]) : s \in Table[gc.i]}
  <2> DEFINE l == UNION {ToSet(bucket[s]) : s \in Table[gc.i]}
  <2>1. l \in SUBSET Entries /\ gc' = [gc EXCEPT !.i = gc.i + 1, !.left = l]
    BY <1>1, <1>5
  <2> HIDE DEF l
  <2>2. gc.i + 1 \in Nat /\ gc \in SweepStates
    BY LimiterTypes
  <2>3. gc' \in SweepStates /\ gc'.at = gc.at /\ gc'.i = gc.i + 1 /\ gc'.left = l
    BY <2>1, <2>2 DEF SweepStates
  <2>4. QED
    BY <2>3 DEF l
<1>7. LastSweepInv'
  <2>1. InTable' = InTable
    BY <1>1 DEF InTable
  <2>2. ASSUME gc.at = "last sweep", NEW j \in 1 .. Len(Table), j < gc.i + 1, NEW s \in Table[j]
        PROVE  ToSet(bucket[s]) \subseteq gc'.left
    <3>1. CASE j = gc.i
      BY <1>6, <3>1
    <3>2. CASE j # gc.i
      <4>1. j < gc.i
        <5>1. gc.i \in Nat /\ j \in Nat
          BY LimiterTypes, TableIs
        <5>2. j < gc.i + 1
          BY <2>2
        <5>3. QED
          BY <3>2, <5>1, <5>2
      <4>2. ToSet(bucket[s]) \subseteq {}
        BY <1>1, <2>2, <4>1 DEF LimiterIInv, LastSweepInv
      <4>3. QED
        BY <4>2
    <3>3. QED
      BY <3>1, <3>2
  <2>3. gc.at = "last sweep" => \A c \in Callers : caller[c].at = "idle"
    BY DEF LimiterIInv, LastSweepInv
  <2>4. QED
    BY <1>1, <1>4, <1>6, <2>1, <2>2, <2>3 DEF LastSweepInv
<1>8. gc'.i >= 1
  BY <1>2, <1>6
<1>9. QED
  BY <1>1, <1>6, <1>7, <1>8, OnlySweep

(* It rests. *)
LEMMA EndSweepKeeps == ASSUME LimiterIInv, EndSweep PROVE LimiterIInv'
<1>1. /\ UNCHANGED <<now, bucket, retired, TotalEntries, caller>>
      /\ gc.left = {} /\ gc' = [gc EXCEPT !.at = "wait", !.Now = now]
  BY DEF EndSweep
<1>2. /\ gc' \in SweepStates
      /\ gc'.at = "wait" /\ gc'.left = {} /\ gc'.i >= 1
  BY <1>1, LimiterTypes DEF SweepStates
<1>3. LastSweepInv'
  BY <1>2 DEF LastSweepInv
<1>4. QED
  BY <1>1, <1>2, <1>3, OnlySweep

(* RatelimiterUnload has ended the thread and sweeps itself. *)
LEMMA UnloadKeeps == ASSUME LimiterIInv, RatelimiterUnload PROVE LimiterIInv'
<1>1. /\ UNCHANGED <<now, bucket, retired, TotalEntries, caller>>
      /\ gc.at = "wait" /\ gc' = [gc EXCEPT !.at = "last sweep", !.i = 1]
      /\ \A c \in Callers : caller[c].at = "idle"
  BY DEF RatelimiterUnload
<1>2. /\ gc' \in SweepStates
      /\ gc'.at = "last sweep" /\ gc'.i = 1 /\ gc'.left = gc.left
  BY <1>1, LimiterTypes DEF SweepStates
<1>3. LastSweepInv'
  <2>1. gc.left = {}
    BY <1>1 DEF LimiterIInv, LastSweepInv
  <2>2. \A j \in 1 .. Len(Table) : ~(j < 1)
    OBVIOUS
  <2>3. QED
    BY <1>1, <1>2, <2>1, <2>2 DEF LastSweepInv
<1>4. QED
  BY <1>1, <1>2, <1>3, OnlySweep

(* RcuBarrier has returned. *)
LEMMA UnloadDoneKeeps == ASSUME LimiterIInv, UnloadDone PROVE LimiterIInv'
<1>1. /\ UNCHANGED <<now, bucket, retired, TotalEntries, caller>>
      /\ gc.at = "last sweep" /\ gc.i > Len(Table) /\ gc.left = {} /\ retired = {}
      /\ gc' = [gc EXCEPT !.at = "unloaded"]
  BY DEF UnloadDone
<1>2. /\ gc' \in SweepStates
      /\ gc'.at = "unloaded" /\ gc'.i = gc.i /\ gc'.left = gc.left /\ gc.i >= 1
  BY <1>1, LimiterTypes DEF SweepStates
<1>3. LastSweepInv'
  BY <1>1, <1>2 DEF LimiterIInv, LastSweepInv
<1>4. QED
  BY <1>1, <1>2, <1>3, OnlySweep

(* A callback gives an entry and its place back. *)
LEMMA EntryFreeKeeps == ASSUME LimiterIInv, NEW e \in Entries, EntryFree(e) PROVE LimiterIInv'
<1>1. /\ UNCHANGED <<now, bucket, caller, gc>>
      /\ e \in retired /\ retired' = retired \ {e} /\ TotalEntries' = TotalEntries - 1
  BY DEF EntryFree
<1>2. InTable' = InTable /\ Promised' = Promised /\ Refusing' = Refusing /\ Inserting' = Inserting
  BY <1>1 DEF InTable, Promised, Refusing, Inserting
<1>3. Cardinality(retired)' = Cardinality(retired) - 1 /\ Cardinality(retired)' \in Nat
  <2>1. IsFiniteSet(retired \ {e})
    BY FS_RemoveElement, LimiterFinite DEF LimiterIInv
  <2>2. Cardinality(retired \ {e}) \in Nat
    BY <2>1, FS_CardinalityType
  <2>3. QED
    BY <1>1, <2>2, OneLessOf, LimiterFinite DEF LimiterIInv
<1>4. EntriesInv' /\ TotalEntries' \in Nat
  <2>1. /\ Cardinality(InTable) \in Nat /\ Cardinality(retired) \in Nat
        /\ Cardinality(Promised) \in Nat /\ Cardinality(Refusing) \in Nat /\ MAX_ENTRIES \in Nat
    BY LimiterFinite, RatelimiterAssumption DEF LimiterIInv
  <2>2. /\ Cardinality(Refusing)' = Cardinality(Refusing) /\ Cardinality(InTable)' = Cardinality(InTable)
        /\ Cardinality(Promised)' = Cardinality(Promised)
    BY <1>2
  <2>3. QED
    BY <1>1, <1>3, <2>1, <2>2 DEF LimiterIInv, EntriesInv
<1>5. RatelimiterTypeOK'
  BY <1>1, <1>4 DEF LimiterIInv, RatelimiterTypeOK
<1>6. OnePlace'
  BY <1>1, <1>2 DEF LimiterIInv, OnePlace
<1>7. SourcesKnown'
  BY <1>1 DEF LimiterIInv, SourcesKnown
<1>8. LastSweepInv'
  BY <1>1, <1>2 DEF LimiterIInv, LastSweepInv
<1>9. QED
  BY <1>4, <1>5, <1>6, <1>7, <1>8 DEF LimiterIInv

(* EntryUninit moves an entry from the table to the callbacks, or the entry stays. *)
LEMMA SweepEntryKeeps ==
  ASSUME LimiterIInv, NEW s \in Sources, NEW k \in DOMAIN bucket[s], SweepEntry(s, k)
  PROVE  LimiterIInv'
<1> DEFINE e == bucket[s][k]
<1>1. /\ e \in gc.left /\ gc' = [gc EXCEPT !.left = gc.left \ {e}]
      /\ \/ /\ Stale(e) /\ retired' = retired \cup {e}
            /\ bucket' = [bucket EXCEPT ![s] = RemoveAt(bucket[s], k)]
         \/ ~Stale(e) /\ UNCHANGED <<bucket, retired>>
      /\ UNCHANGED <<now, TotalEntries, caller>>
  BY DEF SweepEntry
<1>2. PICK q \in Seq(Entries) : q = bucket[s]
  BY DEF LimiterIInv, RatelimiterTypeOK
<1>3. k \in 1 .. Len(q) /\ e = q[k] /\ e \in Entries /\ e \in InTable
  <2>1. k \in 1 .. Len(q) /\ e = q[k]
    BY <1>2
  <2>2. q[k] \in Entries
    BY <2>1
  <2>3. QED
    BY <1>2, <2>1, <2>2, InTableIs DEF LimiterIInv
<1> HIDE DEF e
<1>4. /\ gc' \in SweepStates
      /\ gc'.at = gc.at /\ gc'.i = gc.i /\ gc'.left = gc.left \ {e}
  <2>1. gc \in SweepStates /\ gc.left \ {e} \in SUBSET Entries
    BY LimiterTypes
  <2>2. QED
    BY <1>1, <2>1 DEF SweepStates
<1>5. Promised' = Promised /\ Refusing' = Refusing /\ Inserting' = Inserting
  BY <1>1 DEF Promised, Refusing, Inserting
<1>6. CASE ~Stale(e)
  <2>1. UNCHANGED <<now, bucket, retired, TotalEntries, caller>>
    BY <1>1, <1>6
  <2>2. gc.at # "last sweep"
    BY <1>6 DEF Stale
  <2>3. gc.at # "unloaded" /\ gc.at \notin {"start", "wait"}
    BY <1>1 DEF LimiterIInv, LastSweepInv
  <2>4. LastSweepInv'
    <3>1. InTable' = InTable
      BY <2>1 DEF InTable
    <3>2. QED
      BY <1>4, <2>2, <2>3, <3>1 DEF LimiterIInv, LastSweepInv
  <2>5. gc'.i >= 1
    BY <1>4, LimiterTypes
  <2>6. QED
    BY <1>4, <2>1, <2>4, <2>5, OnlySweep
<1>7. CASE Stale(e)
  <2>1. bucket' = [bucket EXCEPT ![s] = RemoveAt(q, k)] /\ retired' = retired \cup {e}
    BY <1>1, <1>2, <1>7
  <2>2. /\ RemoveAt(q, k) \in Seq(Entries) /\ Len(RemoveAt(q, k)) = Len(q) - 1
        /\ \A j \in 1 .. Len(q) - 1 : RemoveAt(q, k)[j] = IF j < k THEN q[j] ELSE q[j + 1]
    BY <1>3, RemoveAtIs
  <2> DEFINE Was(t, j) == IF t = s /\ j >= k THEN j + 1 ELSE j
             Now(t, j) == IF t = s /\ j > k THEN j - 1 ELSE j
  <2>3. /\ bucket' \in [Sources -> Seq(Entries)] /\ bucket'[s] = RemoveAt(q, k)
        /\ \A t \in Sources : t # s => bucket'[t] = bucket[t]
    BY <2>1, <2>2 DEF LimiterIInv, RatelimiterTypeOK
  <2>4. ASSUME NEW t \in Sources, NEW j \in 1 .. Len(bucket'[t])
        PROVE  /\ Was(t, j) \in 1 .. Len(bucket[t]) /\ bucket'[t][j] = bucket[t][Was(t, j)]
               /\ ~(t = s /\ Was(t, j) = k)
    <3>1. CASE t = s
      <4>1. j \in 1 .. Len(q) - 1 /\ bucket'[t][j] = IF j < k THEN q[j] ELSE q[j + 1]
        BY <2>2, <2>3, <3>1
      <4>2. QED
        BY <1>2, <1>3, <3>1, <4>1
    <3>2. CASE t # s
      BY <2>3, <3>2
    <3>3. QED
      BY <3>1, <3>2
  <2>5. ASSUME NEW t \in Sources, NEW j \in 1 .. Len(bucket[t]), ~(t = s /\ j = k)
        PROVE  /\ Now(t, j) \in 1 .. Len(bucket'[t]) /\ bucket'[t][Now(t, j)] = bucket[t][j]
    <3>1. CASE t = s /\ j > k
      <4>1. j - 1 \in 1 .. Len(q) - 1 /\ ~(j - 1 < k) /\ (j - 1) + 1 = j
        BY <1>2, <1>3, <3>1
      <4>2. RemoveAt(q, k)[j - 1] = q[j]
        BY <2>2, <4>1
      <4>3. QED
        BY <1>2, <2>2, <2>3, <3>1, <4>1, <4>2
    <3>2. CASE t = s /\ j < k
      <4>1. j \in 1 .. Len(q) - 1
        BY <1>2, <1>3, <3>2
      <4>2. RemoveAt(q, k)[j] = q[j]
        BY <2>2, <3>2, <4>1
      <4>3. Now(t, j) = j
        BY <1>3, <3>2, <4>1
      <4>4. QED
        BY <1>2, <2>2, <2>3, <3>2, <4>1, <4>2, <4>3
    <3>3. CASE t # s
      BY <2>3, <3>3
    <3>4. QED
      BY <1>2, <1>3, <2>5, <3>1, <3>2, <3>3
  <2>6. ASSUME NEW t \in Sources, NEW u \in Sources,
               NEW i \in 1 .. Len(bucket'[t]), NEW j \in 1 .. Len(bucket'[u]),
               bucket'[t][i] = bucket'[u][j]
        PROVE  t = u /\ i = j
    <3>1. t = u /\ Was(t, i) = Was(u, j)
      <4>1. /\ Was(t, i) \in 1 .. Len(bucket[t]) /\ Was(u, j) \in 1 .. Len(bucket[u])
            /\ bucket[t][Was(t, i)] = bucket[u][Was(u, j)]
        BY <2>4, <2>6
      <4> HIDE DEF Was
      <4>2. QED
        BY <4>1 DEF LimiterIInv, OnePlace
    <3>2. i \in Nat /\ j \in Nat /\ k \in Nat
      BY <1>3, <2>3
    <3>3. QED
      BY <3>1, <3>2
  <2>7. \A t \in Sources : \A j \in 1 .. Len(bucket[t]) : bucket[t][j] = e <=> t = s /\ j = k
    BY <1>2, <1>3 DEF LimiterIInv, OnePlace
  <2> HIDE DEF Was, Now
  <2>8. ASSUME NEW t \in Sources, NEW x
        PROVE  x \in ToSet(bucket'[t]) <=> x \in ToSet(bucket[t]) /\ x # e
    <3>1. x \in ToSet(bucket'[t]) <=> \E j \in 1 .. Len(bucket'[t]) : x = bucket'[t][j]
      <4>1. PICK b \in [Sources -> Seq(Entries)] : b = bucket'
        BY <2>3
      <4>2. \A s1 \in Sources : \A y : y \in ToSet(b[s1]) <=> \E j \in 1 .. Len(b[s1]) : y = b[s1][j]
        BY TableOf
      <4>3. QED
        BY <4>1, <4>2
    <3>2. x \in ToSet(bucket[t]) <=> \E j \in 1 .. Len(bucket[t]) : x = bucket[t][j]
      <4>1. \A s1 \in Sources : \A y :
              y \in ToSet(bucket[s1]) <=> \E j \in 1 .. Len(bucket[s1]) : y = bucket[s1][j]
        <5>1. bucket \in [Sources -> Seq(Entries)]
          BY LimiterTypes
        <5>2. QED
          BY <5>1, TableOf
      <4>2. QED
        BY <4>1
    <3>3. ASSUME NEW j \in 1 .. Len(bucket'[t]), x = bucket'[t][j]
          PROVE  x # e /\ \E i \in 1 .. Len(bucket[t]) : x = bucket[t][i]
      BY <2>4, <2>7, <3>3
    <3>4. ASSUME NEW j \in 1 .. Len(bucket[t]), x = bucket[t][j], x # e
          PROVE  \E i \in 1 .. Len(bucket'[t]) : x = bucket'[t][i]
      BY <2>5, <2>7, <3>4
    <3>5. QED
      BY <3>1, <3>2, <3>3, <3>4
  <2>9. InTable' = InTable \ {e}
    BY <2>8 DEF InTable
  <2>10. RatelimiterTypeOK'
    BY <1>1, <1>3, <1>4, <2>1, <2>3 DEF LimiterIInv, RatelimiterTypeOK
  <2>11. OnePlace'
    <3>1. InTable' \cap retired' = {} /\ InTable' \cup retired' = InTable \cup retired
      BY <1>3, <2>1, <2>9 DEF LimiterIInv, OnePlace
    <3>2. \A c \in Inserting' : caller'[c].e \in Entries \ (InTable' \cup retired')
      BY <1>1, <1>5, <3>1 DEF LimiterIInv, OnePlace
    <3>3. \A c, d \in Inserting' : caller'[c].e = caller'[d].e => c = d
      BY <1>1, <1>5 DEF LimiterIInv, OnePlace
    <3>4. QED
      BY <2>6, <3>1, <3>2, <3>3 DEF OnePlace
  <2>12. EntriesInv'
    <3>1. e \notin retired
      BY <1>3 DEF LimiterIInv, OnePlace
    <3>2. Cardinality(InTable)' = Cardinality(InTable) - 1
      BY <1>3, <2>9, OneLessOf, LimiterFinite DEF LimiterIInv
    <3>3. Cardinality(retired)' = Cardinality(retired) + 1
      BY <2>1, <3>1, OneMoreOf, LimiterFinite DEF LimiterIInv
    <3>4. /\ Cardinality(InTable) \in Nat /\ Cardinality(retired) \in Nat
          /\ Cardinality(Promised) \in Nat /\ Cardinality(Refusing) \in Nat /\ MAX_ENTRIES \in Nat
      BY LimiterFinite, RatelimiterAssumption DEF LimiterIInv
    <3>5. /\ Cardinality(Refusing)' = Cardinality(Refusing)
          /\ Cardinality(Promised)' = Cardinality(Promised)
          /\ TotalEntries' = TotalEntries
      BY <1>1, <1>5
    <3>6. QED
      BY <3>2, <3>3, <3>4, <3>5 DEF LimiterIInv, EntriesInv
  <2>13. SourcesKnown'
    BY <1>1 DEF LimiterIInv, SourcesKnown
  <2>14. LastSweepInv'
    <3>1. gc.at # "unloaded" /\ gc.at \notin {"start", "wait"}
      BY <1>1 DEF LimiterIInv, LastSweepInv
    <3>2. gc'.left \subseteq InTable'
      BY <1>4, <2>9 DEF LimiterIInv, LastSweepInv
    <3>3. ASSUME gc.at = "last sweep", NEW j \in 1 .. Len(Table), j < gc.i, NEW t \in Table[j]
          PROVE  ToSet(bucket'[t]) \subseteq gc'.left
      <4>1. t \in Sources
        BY <3>3, TableIs
      <4>2. ToSet(bucket[t]) \subseteq gc.left
        BY <3>3 DEF LimiterIInv, LastSweepInv
      <4>3. QED
        BY <1>4, <2>8, <4>1, <4>2
    <3>4. gc.at = "last sweep" => \A c \in Callers : caller[c].at = "idle"
      BY DEF LimiterIInv, LastSweepInv
    <3>5. QED
      BY <1>1, <1>4, <3>1, <3>2, <3>3, <3>4 DEF LastSweepInv
  <2>15. QED
    BY <2>10, <2>11, <2>12, <2>13, <2>14 DEF LimiterIInv
<1>8. QED
  BY <1>6, <1>7

(* The table is empty at first. *)
LEMMA LimiterInit == RatelimiterInit => LimiterIInv
<1> SUFFICES ASSUME RatelimiterInit PROVE LimiterIInv
  OBVIOUS
<1>1. /\ now = 0 /\ bucket = [s \in Sources |-> <<>>] /\ retired = {} /\ TotalEntries = 0
      /\ caller = [c \in Callers |-> Idle] /\ gc = [at |-> "start", Now |-> 0, i |-> 1, left |-> {}]
  BY DEF RatelimiterInit
<1>2. Idle \in AllowStates /\ Idle.at = "idle"
  BY DEF Idle, AllowStates, AllowPlaces
<1>3. RatelimiterTypeOK
  <2>1. gc \in SweepStates /\ gc.i >= 1
    BY <1>1 DEF SweepStates
  <2>2. bucket \in [Sources -> Seq(Entries)]
    BY <1>1
  <2>3. QED
    BY <1>1, <1>2, <2>1, <2>2 DEF RatelimiterTypeOK
<1>4. InTable = {} /\ Promised = {} /\ Refusing = {} /\ Inserting = {}
  BY <1>1, <1>2 DEF InTable, ToSet, Promised, Refusing, Inserting
<1>5. OnePlace
  <2>1. \A s \in Sources : Len(bucket[s]) = 0
    BY <1>1
  <2>2. QED
    BY <1>1, <1>4, <2>1 DEF OnePlace
<1>6. SourcesKnown /\ LastSweepInv
  BY <1>1, <1>2, <1>4 DEF SourcesKnown, LastSweepInv
<1>7. EntriesInv
  BY <1>1, <1>4, FS_EmptySet, RatelimiterAssumption DEF EntriesInv
<1>8. QED
  BY <1>3, <1>5, <1>6, <1>7 DEF LimiterIInv

(* Every step keeps the invariant. *)
LEMMA LimiterStep == LimiterIInv /\ [RatelimiterNext]_rlVars => LimiterIInv'
<1> SUFFICES ASSUME LimiterIInv, [RatelimiterNext]_rlVars PROVE LimiterIInv'
  OBVIOUS
<1>1. CASE RatelimiterTick
  BY <1>1, TickAllowed
<1>2. ASSUME NEW c \in Callers, RatelimiterAllow(c) PROVE LimiterIInv'
  BY <1>2, FindKeeps, ChargeKeeps, ReserveKeeps, AllocateKeeps, InsertKeeps, OomKeeps, ReturnKeeps
     DEF RatelimiterAllow
<1>3. CASE Collector
  BY <1>3, StartSweepKeeps, EnterBucketKeeps, SweepEntryKeeps, EndSweepKeeps, EntryFreeKeeps,
     UnloadKeeps, UnloadDoneKeeps DEF Collector, SweepBucket
<1>4. CASE UNCHANGED rlVars
  <2>1. UNCHANGED <<now, bucket, retired, TotalEntries, caller, gc>>
    BY <1>4 DEF rlVars
  <2>2. InTable' = InTable
    BY <2>1 DEF InTable
  <2>3. LastSweepInv'
    BY <2>1, <2>2 DEF LimiterIInv, LastSweepInv
  <2>4. QED
    BY <2>1, <2>3, OnlySweep DEF LimiterIInv, RatelimiterTypeOK
<1>5. QED
  BY <1>1, <1>2, <1>3, <1>4 DEF RatelimiterNext

(* LimiterIInv holds in every state. *)
LEMMA LimiterInductive == RatelimiterSpec => []LimiterIInv
  BY LimiterInit, LimiterStep, PTL DEF RatelimiterSpec

(* The invariant says more than EntriesCounted. *)
LEMMA CountedLemma == LimiterIInv => EntriesCounted
<1> SUFFICES ASSUME LimiterIInv PROVE EntriesCounted
  OBVIOUS
<1> DEFINE Reserved == {c \in Callers : caller[c].at \in {"allocate", "insert", "oom"}}
<1>1. Reserved = Promised \cup Refusing /\ Promised \cap Refusing = {}
  BY DEF Promised, Refusing
<1>2. Cardinality(Reserved) = Cardinality(Promised) + Cardinality(Refusing)
  <2>1. Cardinality(Promised \cup Refusing) =
          Cardinality(Promised) + Cardinality(Refusing) - Cardinality(Promised \cap Refusing)
    BY FS_Union, LimiterFinite DEF LimiterIInv
  <2>2. Cardinality(Promised \cap Refusing) = 0
    BY <1>1, FS_EmptySet
  <2>3. Cardinality(Promised) \in Nat /\ Cardinality(Refusing) \in Nat
    BY LimiterFinite DEF LimiterIInv
  <2>4. Cardinality(Promised \cup Refusing) = Cardinality(Promised) + Cardinality(Refusing)
    BY <2>1, <2>2, <2>3
  <2>5. QED
    BY <1>1, <2>4
<1>3. Cardinality(InTable \cup retired) = Cardinality(InTable) + Cardinality(retired)
  <2>1. InTable \cap retired = {}
    BY DEF LimiterIInv, OnePlace
  <2>2. Cardinality(InTable \cup retired) =
          Cardinality(InTable) + Cardinality(retired) - Cardinality(InTable \cap retired)
    BY FS_Union, LimiterFinite DEF LimiterIInv
  <2>3. QED
    BY <2>1, <2>2, FS_EmptySet, LimiterFinite DEF LimiterIInv
<1> HIDE DEF Reserved
<1>4. /\ TotalEntries = Cardinality(InTable) + Cardinality(retired) + Cardinality(Reserved)
      /\ Cardinality(InTable \cup retired) <= MAX_ENTRIES
  BY <1>2, <1>3, LimiterFinite, RatelimiterAssumption DEF LimiterIInv, EntriesInv
<1>5. ASSUME gc.at = "unloaded" PROVE TotalEntries = 0
  <2>1. \A c \in Callers : caller[c].at = "idle"
    BY <1>5 DEF LimiterIInv, LastSweepInv
  <2>2. retired = {} /\ gc.left = {} /\ gc.i > Len(Table)
    BY <1>5 DEF LimiterIInv, LastSweepInv
  <2>3. ASSUME NEW s \in Sources PROVE ToSet(bucket[s]) = {}
    <3>1. PICK j \in 1 .. Len(Table) : s \in Table[j]
      BY TableIs
    <3>2. j < gc.i
      BY <2>2, TableIs, LimiterTypes
    <3>3. QED
      BY <1>5, <2>2, <3>1, <3>2 DEF LimiterIInv, LastSweepInv
  <2>4. InTable = {} /\ Reserved = {}
    BY <2>1, <2>3 DEF InTable, Reserved
  <2>5. QED
    BY <1>4, <2>2, <2>4, FS_EmptySet
<1>6. QED
  BY <1>4, <1>5 DEF EntriesCounted, Reserved

(* However first packets of any number of sources and threads, failed      *)
(* allocations, sweeps and the unload interleave: RatelimiterAllow and     *)
(* EntryFree lose no place in TotalEntries and give none back twice, and   *)
(* RatelimiterUnload leaves nothing in the lookaside list.                 *)
THEOREM NoPlaceLost == RatelimiterSpec => []EntriesCounted
  BY CountedLemma, LimiterInductive, PTL
=============================================================================

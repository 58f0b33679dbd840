------------------------------- MODULE Handshake -------------------------------
(***************************************************************************)
(* The Noise_IK handshake of two devices over a network that loses, delays,   *)
(* reorders and duplicates messages (driver/noise.c), with the workers of     *)
(* each device that handle messages concurrently.                             *)
(*                                                                         *)
(* Cryptography is ideal.  ChainingKey and Hash are mixed the same inputs, so *)
(* one term, chain, stands for both: the sequence of what was mixed in.  The  *)
(* static keys and the preshared key are the same at both ends all the time,  *)
(* and left out of it.  A secret and its public key are one number, fresh for *)
(* every message, which also serves as the index that IndexHashtableInsert    *)
(* draws.  A message decrypts exactly when the receiver computes the sender's *)
(* chain.                                                                     *)
(***************************************************************************)
EXTENDS Integers, Sequences, SequencesExt

CONSTANTS Ends,            \* the two devices
          HsWorkers,       \* threads that handle messages, of either device
          MaxInitiations,  \* bound on the initiations each end makes
          MaxFresh,        \* bound on the secrets drawn
          MaxTai,          \* bound on the time, in steps of Tai64nNow
          FloodInterval    \* SYS_TIME_UNITS_PER_SEC / INITIATIONS_PER_SECOND

ASSUME HandshakeAssumption ==
    /\ \E a, b \in Ends : a # b /\ Ends = {a, b}
    /\ {MaxFresh, MaxTai, FloodInterval} \subseteq Nat
    /\ MaxInitiations \in [Ends -> Nat]

VARIABLES tai,       \* the time at both ends
          fresh,     \* the secrets drawn so far
          made,      \* per end: initiations made
          messages,  \* everything that was ever sent
          peer,      \* per end: NOISE_HANDSHAKE of the other end
          sessions,  \* per end: the keypairs that NoiseHandshakeBeginSession made, in order
          hsWorker,  \* per worker: what it is about to do
          answered   \* history, per end: initiations that a worker is done with

hsVars == <<tai, fresh, made, messages, peer, sessions, hsWorker, answered>>

NoSecret == 0
Other(e) == CHOOSE f \in Ends : f # e

(* HandshakeZero leaves the timestamps and the entry in the index table. *)
HandshakeZero(h) ==
    [h EXCEPT !.State = "ZEROED", !.chain = <<>>, !.EphemeralPrivate = NoSecret,
              !.RemoteEphemeral = NoSecret, !.RemoteIndex = NoSecret]

Waiting == [at |-> "idle"]

HandshakeInit ==
    /\ tai = 1 /\ fresh = 0 /\ messages = {}
    /\ made = [e \in Ends |-> 0]
    /\ peer = [e \in Ends |->
                 [State |-> "ZEROED", chain |-> <<>>, EphemeralPrivate |-> NoSecret,
                  RemoteEphemeral |-> NoSecret, RemoteIndex |-> NoSecret, index |-> NoSecret,
                  LatestTimestamp |-> 0, LastInitiationConsumption |-> 0]]
    /\ sessions = [e \in Ends |-> <<>>]
    /\ hsWorker = [w \in HsWorkers |-> Waiting]
    /\ answered = [e \in Ends |-> {}]

TaiTick ==
    /\ tai < MaxTai
    /\ tai' = tai + 1
    /\ UNCHANGED <<fresh, made, messages, peer, sessions, hsWorker, answered>>

-----------------------------------------------------------------------------
(* What the two ends mix into their chain. *)

MessageEphemeral(chain, e) == Append(chain, e)
MixDh(chain, private, public) == Append(chain, {private, public})

(* NoiseHandshakeCreateInitiation.  The timestamp is encrypted under the chain,
   the sender's index is not part of it.                                     *)
NoiseHandshakeCreateInitiation(e) ==
    LET s == fresh + 1
    IN  /\ made[e] < MaxInitiations[e] /\ fresh < MaxFresh
        /\ made' = [made EXCEPT ![e] = @ + 1]
        /\ fresh' = s
        /\ peer' = [peer EXCEPT ![e] =
                      [@ EXCEPT !.State = "CREATED_INITIATION",
                                !.chain = MessageEphemeral(<<>>, s),
                                !.EphemeralPrivate = s,
                                !.index = s]]
        /\ messages' = messages \cup
             {[type |-> "initiation", to |-> Other(e), chain |-> <<s>>, e |-> s,
               SenderIndex |-> s, ReceiverIndex |-> NoSecret, timestamp |-> tai]}
        /\ UNCHANGED <<tai, sessions, hsWorker, answered>>

(* NoiseHandshakeConsumeInitiation up to the release of the shared lock. *)
CheckInitiation(w, m) ==
    LET h == peer[m.to]
    IN  /\ hsWorker[w].at = "idle" /\ m.type = "initiation"
        /\ m.timestamp > h.LatestTimestamp
        /\ h.LastInitiationConsumption + FloodInterval <= tai
        /\ hsWorker' = [hsWorker EXCEPT ![w] =
                          [at |-> "consume", end |-> m.to, msg |-> m,
                           before |-> answered[m.to]]]
        /\ UNCHANGED <<tai, fresh, made, messages, peer, sessions, answered>>

(* Mutant: the timestamp is copied like the rest, without the second comparison. *)
TimestampOverwritten(h, t) == t

LatestOf(h, t) == IF t > h.LatestTimestamp THEN t ELSE h.LatestTimestamp

(* ... and from the exclusive lock on: everything is copied to the peer, the
   timestamps only if they are newer than what another worker has stored.    *)
NoiseHandshakeConsumeInitiation(w) ==
    LET e == hsWorker[w].end
        m == hsWorker[w].msg
    IN  /\ hsWorker[w].at = "consume"
        /\ peer' = [peer EXCEPT ![e] =
                      [@ EXCEPT !.State = "CONSUMED_INITIATION",
                                !.chain = m.chain,
                                !.RemoteEphemeral = m.e,
                                !.RemoteIndex = m.SenderIndex,
                                !.LatestTimestamp = LatestOf(peer[e], m.timestamp),
                                !.LastInitiationConsumption = tai]]
        /\ answered' = [answered EXCEPT ![e] = @ \cup {m}]
        /\ hsWorker' = [hsWorker EXCEPT ![w] = [at |-> "respond", end |-> e]]
        /\ UNCHANGED <<tai, fresh, made, messages, sessions>>

(* NoiseHandshakeCreateResponse: it answers what the handshake holds by now,
   which another worker may have put there, or nothing.                      *)
NoiseHandshakeCreateResponse(w) ==
    LET e == hsWorker[w].end
        h == peer[e]
        s == fresh + 1
        c == MixDh(MessageEphemeral(h.chain, s), s, h.RemoteEphemeral)
    IN  /\ hsWorker[w].at = "respond"
        /\ \/ /\ h.State = "CONSUMED_INITIATION" /\ fresh < MaxFresh
              /\ fresh' = s
              /\ peer' = [peer EXCEPT ![e] =
                            [h EXCEPT !.State = "CREATED_RESPONSE",
                                      !.chain = c,
                                      !.EphemeralPrivate = s,
                                      !.index = s]]
              /\ hsWorker' = [hsWorker EXCEPT ![w] =
                   [at |-> "begin", end |-> e, send |->
                      {[type |-> "response", to |-> Other(e), chain |-> c, e |-> s,
                        SenderIndex |-> s, ReceiverIndex |-> h.RemoteIndex, timestamp |-> 0]}]]
           \/ /\ h.State # "CONSUMED_INITIATION"
              /\ hsWorker' = [hsWorker EXCEPT ![w] = Waiting]
              /\ UNCHANGED <<fresh, peer>>
        /\ UNCHANGED <<tai, made, messages, sessions, answered>>

(* NoiseHandshakeConsumeResponse up to the release of the shared lock: the
   index finds the handshake, which is copied.  (A handshake remade between the
   two would be copied too, and the response would not decrypt with it.)     *)
CopyHandshake(w, m) ==
    LET h == peer[m.to]
    IN  /\ hsWorker[w].at = "idle" /\ m.type = "response"
        /\ h.index = m.ReceiverIndex
        /\ h.State = "CREATED_INITIATION"
        /\ hsWorker' = [hsWorker EXCEPT ![w] =
                          [at |-> "accept", end |-> m.to, msg |-> m, copy |-> h]]
        /\ UNCHANGED <<tai, fresh, made, messages, peer, sessions, answered>>

(* Mutant: the state is not looked at again under the exclusive lock. *)
AcceptAnyState(h, copy) == TRUE

StillTheSame(h, copy) == h.State = copy.State

(* ... and the rest: the response is decrypted with the copy and, if the state
   is still the same, replaces what the handshake has.                       *)
NoiseHandshakeConsumeResponse(w) ==
    LET e == hsWorker[w].end
        m == hsWorker[w].msg
        copy == hsWorker[w].copy
        c == MixDh(MessageEphemeral(copy.chain, m.e), copy.EphemeralPrivate, m.e)
    IN  /\ hsWorker[w].at = "accept"
        /\ \/ /\ c = m.chain /\ StillTheSame(peer[e], copy)
              /\ peer' = [peer EXCEPT ![e] =
                            [@ EXCEPT !.State = "CONSUMED_RESPONSE",
                                      !.chain = c,
                                      !.RemoteEphemeral = m.e,
                                      !.RemoteIndex = m.SenderIndex]]
              /\ hsWorker' = [hsWorker EXCEPT ![w] =
                                [at |-> "begin", end |-> e, send |-> {}]]
           \/ /\ ~(c = m.chain /\ StillTheSame(peer[e], copy))
              /\ hsWorker' = [hsWorker EXCEPT ![w] = Waiting]
              /\ UNCHANGED peer
        /\ UNCHANGED <<tai, fresh, made, messages, sessions, answered>>

(* Mutant: each end takes the other's role. *)
RoleSwapped(h) == h.State = "CREATED_RESPONSE"

IAmTheInitiator(h) == h.State = "CONSUMED_RESPONSE"

(* DeriveKeys of the chain gives two keys; the initiator sends with the first.
   IndexHashtableReplace hands the handshake's index over to the keypair.    *)
NewKeypair(h) ==
    [Sending     |-> <<h.chain, IF IAmTheInitiator(h) THEN 1 ELSE 2>>,
     Receiving   |-> <<h.chain, IF IAmTheInitiator(h) THEN 2 ELSE 1>>,
     initiator   |-> IAmTheInitiator(h),
     RemoteIndex |-> h.RemoteIndex,
     index       |-> h.index]

(* NoiseHandshakeBeginSession, and the sending of the response that
   PacketSendHandshakeResponse does when it succeeds.                        *)
NoiseHandshakeBeginSession(w) ==
    LET e == hsWorker[w].end
        h == peer[e]
    IN  /\ hsWorker[w].at = "begin"
        /\ \/ /\ h.State \in {"CREATED_RESPONSE", "CONSUMED_RESPONSE"}
              /\ sessions' = [sessions EXCEPT ![e] = Append(@, NewKeypair(h))]
              /\ peer' = [peer EXCEPT ![e] = [HandshakeZero(@) EXCEPT !.index = NoSecret]]
              /\ messages' = IF h.index # NoSecret THEN messages \cup hsWorker[w].send
                                                   ELSE messages
           \/ /\ h.State \notin {"CREATED_RESPONSE", "CONSUMED_RESPONSE"}
              /\ UNCHANGED <<sessions, peer, messages>>
        /\ hsWorker' = [hsWorker EXCEPT ![w] = Waiting]
        /\ UNCHANGED <<tai, fresh, made, answered>>

(* NoiseHandshakeClear, when the device goes down. *)
ClearHandshake(e) ==
    /\ peer[e].State # "ZEROED" \/ peer[e].index # NoSecret
    /\ peer' = [peer EXCEPT ![e] = [HandshakeZero(@) EXCEPT !.index = NoSecret]]
    /\ UNCHANGED <<tai, fresh, made, messages, sessions, hsWorker, answered>>

HandshakeNext ==
    \/ TaiTick
    \/ \E e \in Ends : NoiseHandshakeCreateInitiation(e) \/ ClearHandshake(e)
    \/ \E w \in HsWorkers, m \in messages : CheckInitiation(w, m) \/ CopyHandshake(w, m)
    \/ \E w \in HsWorkers :
         \/ NoiseHandshakeConsumeInitiation(w) \/ NoiseHandshakeCreateResponse(w)
         \/ NoiseHandshakeConsumeResponse(w) \/ NoiseHandshakeBeginSession(w)

HandshakeSpec == HandshakeInit /\ [][HandshakeNext]_hsVars
-----------------------------------------------------------------------------
ChainOf(s) == s.Sending[1]
InitiationOf(s) == Head(ChainOf(s))

(* Both ends of a session use it alike, whatever the network and the workers do
   (noise.c, NoiseHandshakeBeginSession): what one sends with the other receives
   with, and the initiator addresses the responder by the responder's index.  The
   responder addresses the initiator by its index, unless the initiator made a
   later initiation while it handled the response.  And the initiator has no
   session without the responder having begun one with this response or, if its
   workers overlapped (the handshake is not locked between
   NoiseHandshakeCreateResponse and NoiseHandshakeBeginSession, send.c:182), a
   later one, of a later response or of an initiation of its own.            *)
SessionsAgree ==
    \A e \in Ends :
      \A s \in ToSet(sessions[e]) :
        s.initiator =>
          /\ \E t \in ToSet(sessions[Other(e)]) :
               t.index >= s.RemoteIndex
          /\ \A t \in ToSet(sessions[Other(e)]) :
               ChainOf(t) = ChainOf(s) =>
                 /\ s.Sending = t.Receiving /\ t.Sending = s.Receiving
                 /\ s.RemoteIndex = t.index
                 /\ t.RemoteIndex = s.index \/ s.index > InitiationOf(s)

(* A keypair counts its packets from zero, so the keys of one session must never
   come back in another, however often a response is delivered and to however
   many workers ("It's important to check that the state is still the same",
   noise.c:795).  The code does not keep to this: the second check compares the
   state alone, and another initiation made meanwhile leaves the same state.  *)
KeysUsedOnce ==
    \A e \in Ends :
      \A i, j \in DOMAIN sessions[e] :
        sessions[e][i].Sending = sessions[e][j].Sending => i = j

(* What the two checks of NoiseHandshakeConsumeResponse and the zeroing of
   NoiseHandshakeBeginSession do achieve: a responder's keys never come back,
   and an initiator's only in a session under the index of a later initiation,
   made after the worker copied the handshake.                               *)
KeysRepeatOnlyRenewed ==
    \A e \in Ends :
      \A i, j \in DOMAIN sessions[e] :
        i < j /\ sessions[e][i].Sending = sessions[e][j].Sending =>
          /\ sessions[e][j].initiator
          /\ sessions[e][j].index > InitiationOf(sessions[e][j])

(* Workers check the timestamp under the shared lock and store it under the
   exclusive one (noise.c, NoiseHandshakeConsumeInitiation).  Whatever two of
   them do in between, no worker acts on an initiation that is no newer than one
   which was already stored when the worker looked.                          *)
StaleInitiationsRefused ==
    \A w \in HsWorkers :
      hsWorker[w].at = "consume" =>
        \A m \in hsWorker[w].before : m.timestamp < hsWorker[w].msg.timestamp
=============================================================================

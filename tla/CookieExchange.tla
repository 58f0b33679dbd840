---------------------------- MODULE CookieExchange -----------------------------
(***************************************************************************)
(* Handshake messages under load (driver/cookie.c, driver/receive.c): how a   *)
(* device queues and counts them, decides that it is under load, asks for     *)
(* proof that the sender owns its address, and checks that proof; and how a   *)
(* sender obtains and uses a cookie.                                          *)
(*                                                                         *)
(* One device answers, another sends initiations to it.  Cryptography is      *)
(* ideal: a MAC1 is the number of the message that carries it, a cookie is    *)
(* what MakeCookie hashes, the secret and the sender's address, and a MAC2    *)
(* is the cookie it was made with.  Messages may arrive late, in any order    *)
(* or never; replies stay in net and may arrive several times.  The rate      *)
(* limiter's answer is left open (module Ratelimiter).                        *)
(***************************************************************************)
EXTENDS Integers, Sequences, SequencesExt, FiniteSets, FiniteSetsExt

CONSTANTS Addresses,       \* addresses the sender may have
          RxWorkers,       \* the answering device's PacketHandshakeRxWorker threads
          CookieWorkers,   \* the sender's threads in CookieMessageConsume
          MaxMessages,     \* bound on the initiations sent
          MaxClock,        \* bound on the time, in seconds
          MaxDowns,        \* bound on FreeIncomingHandshakes
          RingSize,        \* places in HandshakeRxQueue
          LoadThreshold,   \* MAX_QUEUED_INCOMING_HANDSHAKES / 8
          COOKIE_SECRET_MAX_AGE, COOKIE_SECRET_LATENCY,
          Null

ASSUME CookieAssumption ==
    /\ {MaxMessages, MaxClock, MaxDowns, COOKIE_SECRET_LATENCY} \subseteq Nat
    /\ {RingSize, LoadThreshold} \subseteq Nat \ {0}
    /\ COOKIE_SECRET_MAX_AGE \in Nat /\ COOKIE_SECRET_MAX_AGE > COOKIE_SECRET_LATENCY
    /\ IsFiniteSet(RxWorkers)
    /\ Addresses # {}
    /\ Null \notin [secret : Nat, src : Addresses]

VARIABLES clock,
          net,       \* initiations on their way, and all cookie replies
          rx,        \* HandshakeRxQueue, HandshakeRxQueueLen, LastUnderLoad, and for
                     \* FreeIncomingHandshakes how often and how many it missed
          producer,  \* PacketReceive: TRUE between the ring and the counter
          checker,   \* COOKIE_CHECKER: Secret, as a number, and SecretBirthdate
          worker,    \* what each RxWorker is about to do
          sender,    \* its address, its messages so far, and the one half made
          cookie,    \* the sender's COOKIE for the device
          consumer   \* what each CookieWorker is about to do

ckVars == <<clock, net, rx, producer, checker, worker, sender, cookie, consumer>>

Initiation(n, src, mac2) == [type |-> "initiation", mac1 |-> n, addr |-> src, mac2 |-> mac2]
Reply(n, dst, c) == [type |-> "cookie", mac1 |-> n, addr |-> dst, mac2 |-> c]

Resting == [at |-> "idle", msg |-> Null, secret |-> 0, load |-> FALSE]

CookieInit ==
    /\ clock = 0
    /\ net = {}
    /\ rx = [queue |-> <<>>, Len |-> 0, LastUnderLoad |-> Null, downs |-> 0, missed |-> 0]
    /\ producer = FALSE
    /\ checker = [Secret |-> 1, SecretBirthdate |-> 0]
    /\ worker = [w \in RxWorkers |-> Resting]
    /\ sender = [addr |-> CHOOSE a \in Addresses : TRUE, sent |-> 0, making |-> FALSE]
    /\ cookie = [Cookie |-> Null, Birthdate |-> 0, LastMac1Sent |-> 0, HaveSentMac1 |-> FALSE]
    /\ consumer = [c \in CookieWorkers |-> Null]

BirthdateHasExpired(birthdate, age) == birthdate + age <= clock

ClockTick ==
    /\ clock < MaxClock
    /\ clock' = clock + 1
    /\ UNCHANGED <<net, rx, producer, checker, worker, sender, cookie, consumer>>

-----------------------------------------------------------------------------
(* The sender *)

Roam(a) ==
    /\ sender.addr # a
    /\ sender' = [sender EXCEPT !.addr = a]
    /\ UNCHANGED <<clock, net, rx, producer, checker, worker, cookie, consumer>>

(* CookieAddMacToPacket, under the exclusive lock: MAC1 is remembered ... *)
AddMac1 ==
    /\ sender.sent < MaxMessages /\ ~sender.making
    /\ sender' = [sender EXCEPT !.sent = @ + 1, !.making = TRUE]
    /\ cookie' = [cookie EXCEPT !.LastMac1Sent = sender.sent + 1, !.HaveSentMac1 = TRUE]
    /\ UNCHANGED <<clock, net, rx, producer, checker, worker, consumer>>

(* ... and, under the shared one, MAC2 is made with a cookie that is not too old. *)
AddMac2 ==
    LET usable == /\ cookie.Cookie # Null
                  /\ ~BirthdateHasExpired(cookie.Birthdate,
                                          COOKIE_SECRET_MAX_AGE - COOKIE_SECRET_LATENCY)
    IN  /\ sender.making
        /\ net' = net \cup {Initiation(sender.sent, sender.addr,
                                       IF usable THEN cookie.Cookie ELSE Null)}
        /\ sender' = [sender EXCEPT !.making = FALSE]
        /\ UNCHANGED <<clock, rx, producer, checker, worker, cookie, consumer>>

(* CookieMessageConsume, under the shared lock: a reply to the last MAC1 sent, *)
(* which is the additional data of its encryption, opens.                      *)
OpenReply(c, m) ==
    /\ consumer[c] = Null
    /\ m.type = "cookie" /\ m.addr = sender.addr
    /\ cookie.HaveSentMac1 /\ m.mac1 = cookie.LastMac1Sent
    /\ consumer' = [consumer EXCEPT ![c] = m]
    /\ UNCHANGED <<clock, net, rx, producer, checker, worker, sender, cookie>>

(* Under the exclusive lock it is stored, whatever was sent meanwhile. *)
StoreCookie(c) ==
    /\ consumer[c] # Null
    /\ cookie' = [cookie EXCEPT !.Cookie = consumer[c].mac2, !.Birthdate = clock,
                                !.HaveSentMac1 = FALSE]
    /\ consumer' = [consumer EXCEPT ![c] = Null]
    /\ UNCHANGED <<clock, net, rx, producer, checker, worker, sender>>

-----------------------------------------------------------------------------
(* The queue of handshake messages *)

(* PacketReceive: the ring may refuse, and the message is then dropped. *)
ProduceHandshake(m) ==
    /\ ~producer /\ m.type = "initiation"
    /\ Len(rx.queue) < RingSize
    /\ rx' = [rx EXCEPT !.queue = Append(@, m)]
    /\ net' = net \ {m}
    /\ producer' = TRUE
    /\ UNCHANGED <<clock, checker, worker, sender, cookie, consumer>>

(* The counter follows the ring: a worker may be done with the message first. *)
CountHandshake ==
    /\ producer
    /\ rx' = [rx EXCEPT !.Len = @ + 1]
    /\ producer' = FALSE
    /\ UNCHANGED <<clock, net, checker, worker, sender, cookie, consumer>>

ConsumeHandshake(w) ==
    /\ worker[w].at = "idle" /\ rx.queue # <<>>
    /\ worker' = [worker EXCEPT ![w] = [Resting EXCEPT !.at = "load", !.msg = Head(rx.queue)]]
    /\ rx' = [rx EXCEPT !.queue = Tail(@)]
    /\ UNCHANGED <<clock, net, producer, checker, sender, cookie, consumer>>

Handled == {w \in RxWorkers : worker[w].at # "idle"}

(* The device goes down: the ring is emptied and the counter zeroed, but not   *)
(* the hands of the workers.                                                   *)
FreeIncomingHandshakes ==
    /\ rx.downs < MaxDowns /\ ~producer
    /\ rx' = [rx EXCEPT !.queue = <<>>, !.Len = 0, !.downs = @ + 1,
                        !.missed = Cardinality(Handled)]
    /\ UNCHANGED <<clock, net, producer, checker, worker, sender, cookie, consumer>>

-----------------------------------------------------------------------------
(* ReceiveHandshakePacket *)

(* HandshakeRxQueueLen is read as an unsigned number. *)
OverThreshold == rx.Len >= LoadThreshold \/ rx.Len < 0

CheckLoad(w) ==
    LET recent == rx.LastUnderLoad # Null /\ ~BirthdateHasExpired(rx.LastUnderLoad, 1)
    IN  /\ worker[w].at = "load"
        /\ rx' = [rx EXCEPT !.LastUnderLoad = IF OverThreshold THEN clock
                                              ELSE IF recent THEN @ ELSE Null]
        /\ worker' = [worker EXCEPT ![w] =
             [@ EXCEPT !.load = OverThreshold \/ recent,
                       !.at = IF OverThreshold \/ recent THEN "check secret" ELSE "admitted"]]
        /\ UNCHANGED <<clock, net, producer, checker, sender, cookie, consumer>>

(* MakeCookie looks at the secret's age without a lock ... *)
CheckSecret(w) ==
    /\ worker[w].at \in {"check secret", "check secret again"}
    /\ worker' = [worker EXCEPT ![w].at =
         LET expired == BirthdateHasExpired(checker.SecretBirthdate, COOKIE_SECRET_MAX_AGE)
         IN  IF worker[w].at = "check secret"
               THEN IF expired THEN "rotate" ELSE "compare"
               ELSE IF expired THEN "rotate again" ELSE "reply"]
    /\ UNCHANGED <<clock, net, rx, producer, checker, sender, cookie, consumer>>

(* ... and makes a new one, even if another worker has just done so. *)
RotateSecret(w) ==
    /\ worker[w].at \in {"rotate", "rotate again"}
    /\ checker' = [Secret |-> checker.Secret + 1, SecretBirthdate |-> clock]
    /\ worker' = [worker EXCEPT ![w].at =
                    IF worker[w].at = "rotate" THEN "compare" ELSE "reply"]
    /\ UNCHANGED <<clock, net, rx, producer, sender, cookie, consumer>>

MakeCookie(src) == [secret |-> checker.Secret, src |-> src]

(* Mutant: a message without MAC2 is not compared with the cookie. *)
ValidateMac2IfAny(w) ==
    LET m == worker[w].msg
    IN  /\ worker[w].at = "compare"
        /\ \E allow \in BOOLEAN :
             worker' = [worker EXCEPT ![w] =
               [@ EXCEPT !.secret = checker.Secret,
                         !.at = IF m.mac2 \notin {Null, MakeCookie(m.addr)}
                                  THEN "check secret again"
                                ELSE IF allow THEN "admitted" ELSE "done"]]
        /\ UNCHANGED <<clock, net, rx, producer, checker, sender, cookie, consumer>>

(* The rest of CookieValidatePacket: MAC2, and then the rate limiter. *)
ValidateMac2(w) ==
    LET m == worker[w].msg
    IN  /\ worker[w].at = "compare"
        /\ \E allow \in BOOLEAN :
             worker' = [worker EXCEPT ![w] =
               [@ EXCEPT !.secret = checker.Secret,
                         !.at = IF m.mac2 # MakeCookie(m.addr) THEN "check secret again"
                                ELSE IF allow THEN "admitted" ELSE "done"]]
        /\ UNCHANGED <<clock, net, rx, producer, checker, sender, cookie, consumer>>

(* PacketSendHandshakeCookie to the address the message came from; there may   *)
(* be no memory for it.                                                        *)
CookieMessageCreate(w) ==
    LET m == worker[w].msg
    IN  /\ worker[w].at = "reply"
        /\ net' \in {net, net \cup {Reply(m.mac1, m.addr, MakeCookie(m.addr))}}
        /\ worker' = [worker EXCEPT ![w].at = "done"]
        /\ UNCHANGED <<clock, rx, producer, checker, sender, cookie, consumer>>

(* Mutant: a message that was answered with a cookie is not counted down. *)
DoneUnlessAnswered(w) ==
    /\ worker[w].at \in {"admitted", "done"}
    /\ rx' = [rx EXCEPT !.Len = @ - (IF worker[w].at = "admitted" THEN 1 ELSE 0)]
    /\ worker' = [worker EXCEPT ![w] = Resting]
    /\ UNCHANGED <<clock, net, producer, checker, sender, cookie, consumer>>

(* The handshake itself (module Handshake), then the counter. *)
HandshakeDone(w) ==
    /\ worker[w].at \in {"admitted", "done"}
    /\ rx' = [rx EXCEPT !.Len = @ - 1]
    /\ worker' = [worker EXCEPT ![w] = Resting]
    /\ UNCHANGED <<clock, net, producer, checker, sender, cookie, consumer>>

CookieNext ==
    \/ ClockTick
    \/ \E a \in Addresses : Roam(a)
    \/ AddMac1 \/ AddMac2
    \/ \E c \in CookieWorkers : (\E m \in net : OpenReply(c, m)) \/ StoreCookie(c)
    \/ \E m \in net : ProduceHandshake(m)
    \/ CountHandshake
    \/ FreeIncomingHandshakes
    \/ \E w \in RxWorkers :
         \/ ConsumeHandshake(w) \/ CheckLoad(w) \/ CheckSecret(w) \/ RotateSecret(w)
         \/ ValidateMac2(w) \/ CookieMessageCreate(w) \/ HandshakeDone(w)

CookieSpec == CookieInit /\ [][CookieNext]_ckVars

-----------------------------------------------------------------------------
(* Properties *)

(* Under load a handshake is only worked on for a sender that has shown it     *)
(* receives at its address: the device itself sent a cookie to that very       *)
(* address, made with the secret in use when the message was checked           *)
(* (CookieValidatePacket, cookie.c:144).  Secrets rotate, and rotate twice     *)
(* when two workers find them old; the sender roams, and its replies are late, *)
(* repeated and stored after it has sent the next message.                     *)
CookieProvesAddress ==
    \A w \in RxWorkers :
        worker[w].at = "admitted" /\ worker[w].load =>
          \E m \in net : /\ m.type = "cookie"
                         /\ m.addr = worker[w].msg.addr
                         /\ m.mac2.secret = worker[w].secret

(* HandshakeRxQueueLen is the number of messages in the ring and in hand, but  *)
(* for one that a producer has yet to count (receive.c:156, 650) and for those *)
(* in hand when FreeIncomingHandshakes last zeroed it (receive.c:693).  A      *)
(* device that was idle when it went down is not under load when it is idle    *)
(* again; one that was not idle stays below zero, and under load, for good.    *)
LoadCounted ==
    rx.Len = Len(rx.queue) + Cardinality(Handled) - (IF producer THEN 1 ELSE 0) - rx.missed
=============================================================================

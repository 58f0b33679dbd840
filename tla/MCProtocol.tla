----------------------------- MODULE MCProtocol -----------------------------
(***************************************************************************)
(* TLC instance of what driver and library promise towards others, of the  *)
(* tables that all processors share, and of what surrounds the devices:    *)
(* the handshake, the cookies, the rate limiter, the adapters; the allowed *)
(* IPs, RCU, the log ring; bringing devices and driver up and down, and    *)
(* the NSI filter.  They do not interact here, so a behaviour moves one of *)
(* them, chosen at the start.                                              *)
(*                                                                         *)
(*   adapters: two processes with different versions of the driver, two    *)
(*     device instances, three calls, one of the processes killed;         *)
(*   handshake: as in MCHandshake, with five secrets and no flood limit;   *)
(*   cookies: a secret that ages, a load threshold of one, a ring of two;  *)
(*   rate limiter: two sources, three entries of which two are allowed;    *)
(*   allowed IPs: as in MCAllowedIps;                                      *)
(*   RCU: two processors, three objects, a barrier and the unloading;      *)
(*   log ring: two writers, three lines, a burst of one, two readers;      *)
(*   bring-up: two devices of which, or of the driver, one step may fail;  *)
(*   NSI filter: two adapters, two requests that are in flight.            *)
(*                                                                         *)
(* The workers, callers, peers, processors, writers, devices and adapters  *)
(* of the kernel are the same two values, and no state tells them apart:   *)
(* one permutation is a symmetry of them all.                              *)
(***************************************************************************)
EXTENDS Adapters, MCHandshake, CookieExchange, Ratelimiter, MCAllowedIps, Rcu, LogRing,
        Bringup, NsiFilter, TLC

CONSTANTS Parts, p1, p2, k1, k2

VARIABLE part

MCPair == {k1, k2}

MCOurVersion == p1 :> 1 @@ p2 :> 2
MCCalls == p1 :> 2 @@ p2 :> 1

MCTable == <<{"s1"}, {"s2"}>>

\* Of the initial states of the adapters, the parts that stand still take one.
MCInit ==
    /\ part \in Parts
    /\ AdaptersInit /\ HandshakeInit /\ CookieInit /\ RatelimiterInit
    /\ AllowedIpsInit /\ RcuInit /\ LogRingInit /\ BringupInit /\ NsiInit
    /\ part # "adapters" => store = {}

MCNext ==
    /\ UNCHANGED part
    /\ IF part = "adapters" THEN AdaptersNext ELSE UNCHANGED apVars
    /\ IF part = "handshake" THEN HandshakeNext ELSE UNCHANGED hsVars
    /\ IF part = "cookies" THEN CookieNext ELSE UNCHANGED ckVars
    /\ IF part = "rate limiter" THEN RatelimiterNext ELSE UNCHANGED rlVars
    /\ IF part = "allowed IPs" THEN AllowedIpsNext ELSE UNCHANGED aipVars
    /\ IF part = "RCU" THEN RcuNext ELSE UNCHANGED rcuVars
    /\ IF part = "log ring" THEN LogRingNext ELSE UNCHANGED logVars
    /\ IF part = "bring-up" THEN BringupNext ELSE UNCHANGED buVars
    /\ IF part = "NSI filter" THEN NsiNext ELSE UNCHANGED nsiVars

Symmetry == Permutations(MCPair)

\* The other parts' variables never change.
View ==
    CASE part = "adapters" -> <<part, apVars>>
      [] part = "handshake" -> <<part, hsVars>>
      [] part = "cookies" -> <<part, ckVars>>
      [] part = "rate limiter" -> <<part, rlVars>>
      [] part = "allowed IPs" -> <<part, aipVars>>
      [] part = "RCU" -> <<part, rcuVars>>
      [] part = "log ring" -> <<part, logVars>>
      [] part = "bring-up" -> <<part, buVars>>
      [] part = "NSI filter" -> <<part, nsiVars>>

MCSpec ==
    MCInit /\ [][MCNext]_<<part, apVars, hsVars, ckVars, rlVars, aipVars, rcuVars, logVars,
                            buVars, nsiVars>>
=============================================================================

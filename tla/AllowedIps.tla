------------------------------ MODULE AllowedIps -------------------------------
(***************************************************************************)
(* The table of allowed IPs (driver/allowedips.c): a compressed binary trie   *)
(* that one writer at a time changes under DeviceUpdateLock while lookups     *)
(* walk it under RCU.  The device has two, Root4 with Bits = 32 and Root6     *)
(* with Bits = 128, which share nothing; this module is about one of them.    *)
(* An address is the number SwapEndian makes of it.                           *)
(*                                                                         *)
(* A step of the writer is one store that a lookup can see: the stores        *)
(* before RcuAssignPointer are to memory nobody else reaches.  A step of a    *)
(* lookup is one load.  routes is the table the trie stands for; it changes   *)
(* where a lookup first could see the change.                                 *)
(***************************************************************************)
EXTENDS Naturals, Sequences, SequencesExt, FiniteSets, FiniteSetsExt

CONSTANTS Bits,      \* length of an address
          Nodes,     \* memory for nodes, a set of numbers
          Owners,    \* peers
          Readers,   \* threads in Lookup
          Given,     \* the prefixes configured, as <<address, Cidr>>
          LookedUp,  \* the addresses looked up
          AtDispatchLevel,  \* whether lookups are called with RCU held already
          NULL

ASSUME AllowedIpsAssumption ==
    /\ Bits \in Nat \ {0}
    /\ LookedUp \subseteq Nat
    /\ Nodes \subseteq Nat
    /\ AtDispatchLevel \in BOOLEAN
    /\ NULL \notin Nodes \cup Owners

VARIABLES Root,
          trie,     \* the contents of every node
          list,     \* AllowedIpsList of every peer
          referenced, \* the peers with references left
          routes,   \* routes[<<prefix, Cidr>>]: the peer it is routed to
          writer,   \* what the writer has left to do
          reader,   \* what every lookup is about to do
          grace     \* grace[n]: the readers a retired node waits for, else {}

aipVars == <<Root, trie, list, referenced, routes, writer, reader, grace>>

Keys == 0..(2^Bits - 1)

(* Where a node hangs: below Trie itself, or at one of a node's two bits. *)
AtRoot == [n |-> NULL, bit |-> 2]
Blank == [Peer |-> NULL, Bit |-> <<NULL, NULL>>, Cidr |-> 0, Bits |-> 0, Parent |-> AtRoot]

Unlocked == [do |-> "idle", n |-> NULL, todo |-> <<>>]
Outside == [at |-> "idle", key |-> 0, n |-> NULL, found |-> NULL, root |-> NULL, matched |-> {}]

(* The first Cidr bits of a key, as AllowedIpsReadNode masks them. *)
Masked(key, Cidr) == (key \div 2^(Bits - Cidr)) * 2^(Bits - Cidr)

AllPrefixes == {<<Masked(key, Cidr), Cidr>> : key \in Keys, Cidr \in 0..Bits}

CommonBits(a, b) == Max({c \in 0..Bits : Masked(a, c) = Masked(b, c)})

(* CommonBits(trie[n].Bits, key) >= trie[n].Cidr *)
PrefixMatches(n, key) == Masked(trie[n].Bits, trie[n].Cidr) = Masked(key, trie[n].Cidr)

(* The bit of the key just after the node's prefix, as an index into Bit. *)
BitAfter(Cidr, key) == (((2 * key) \div 2^(Bits - Cidr)) % 2) + 1
Choose(n, key) == BitAfter(trie[n].Cidr, key)

AllowedIpsInit ==
    /\ Root = NULL
    /\ trie = [n \in Nodes |-> Blank]
    /\ list = [p \in Owners |-> <<>>]
    /\ referenced = Owners
    /\ routes = [x \in AllPrefixes |-> NULL]
    /\ writer = Unlocked
    /\ reader = [r \in Readers |-> Outside]
    /\ grace = [n \in Nodes |-> {}]

(* The nodes FindNode and NodePlacement meet on the way to a key. *)
Path[n \in Nodes \cup {NULL}, key \in Keys] ==
    IF n = NULL \/ ~PrefixMatches(n, key) THEN <<>>
    ELSE IF trie[n].Cidr = Bits THEN <<n>>
    ELSE <<n>> \o Path[trie[n].Bit[Choose(n, key)], key]

(* Memory the lookaside list may hand out, lowest first. *)
Spare == {n \in Nodes : trie[n] = Blank /\ grace[n] = {}}
TakeNode(i) == CHOOSE n \in Spare : Cardinality({k \in Spare : k < n}) = i - 1

-----------------------------------------------------------------------------
(* Add *)

(* The deepest node whose prefix contains the new one. *)
NodePlacement(key, Cidr) ==
    LET above == SelectSeq(Path[Root, key], LAMBDA n : trie[n].Cidr <= Cidr)
    IN  IF above = <<>> THEN NULL ELSE Last(above)

(* ConnectNode: the child's ParentBitPacked, and the pointer to the child. *)
Connect(f, parent, child) ==
    LET g == [f EXCEPT ![child].Parent = parent]
    IN  IF parent.n = NULL THEN g ELSE [g EXCEPT ![parent.n].Bit[parent.bit] = child]

Below(f, parent, child) == [n |-> parent, bit |-> BitAfter(f[parent].Cidr, f[child].Bits)]

NewNode(key, Cidr, p) == [Blank EXCEPT !.Peer = p, !.Cidr = Cidr, !.Bits = key]

(* What the tables of running lookups may have said of their keys. *)
Matching(t, key) == {t[<<Masked(key, c), c>>] : c \in 0..Bits} \ {NULL}

SetTable(t) ==
    /\ routes' = t
    /\ reader' = [r \in Readers |->
                    IF reader[r].at = "idle" THEN reader[r]
                    ELSE [reader[r] EXCEPT !.matched = @ \cup Matching(t, reader[r].key)]]

(* A prefix that has a node already only changes hands. *)
Reassign(key, Cidr, p) ==
    LET n == NodePlacement(key, Cidr)
    IN  /\ writer.do = "idle" /\ p \in referenced
        /\ n # NULL /\ trie[n].Cidr = Cidr
        /\ trie' = [trie EXCEPT ![n].Peer = p]
        /\ list' = [q \in Owners |->
                      LET rest == SelectSeq(list[q], LAMBDA x : x # n)
                      IN  IF q = p THEN Append(rest, n) ELSE rest]
        /\ SetTable([routes EXCEPT ![<<Masked(key, Cidr), Cidr>>] = p])
        /\ UNCHANGED <<Root, referenced, writer, grace>>

BranchAt(Cidr, down, key) ==
    Min({Cidr, CommonBits(trie[down].Bits, key)})

(* A new node takes the place it belongs to; what was there hangs below it,   *)
(* or next to it below a branch node that has no peer.                        *)
Add(key, Cidr, p) ==
    LET above == NodePlacement(key, Cidr)
        place == IF above = NULL THEN AtRoot ELSE [n |-> above, bit |-> Choose(above, key)]
        down == IF above = NULL THEN Root ELSE trie[above].Bit[place.bit]
        new == TakeNode(1)
        branch == TakeNode(2)
        fresh == [trie EXCEPT ![new] = NewNode(key, Cidr, p)]
        c == BranchAt(Cidr, down, key)
        top == IF down = NULL \/ c = Cidr THEN new ELSE branch
        linked ==
          IF down = NULL THEN fresh
          ELSE IF c = Cidr THEN Connect(fresh, Below(fresh, new, down), down)
          ELSE LET g == [fresh EXCEPT ![branch] = NewNode(key, c, NULL)]
                   h == Connect(g, Below(g, branch, down), down)
               IN  Connect(h, Below(h, branch, new), new)
    IN  /\ writer.do = "idle" /\ p \in referenced
        /\ above # NULL => trie[above].Cidr # Cidr
        /\ Cardinality(Spare) >= IF down = NULL \/ c = Cidr THEN 1 ELSE 2
        /\ trie' = Connect(linked, place, top)
        /\ Root' = IF above = NULL THEN top ELSE Root
        /\ list' = [list EXCEPT ![p] = Append(@, new)]
        /\ SetTable([routes EXCEPT ![<<Masked(key, Cidr), Cidr>>] = p])
        /\ UNCHANGED <<referenced, writer, grace>>

-----------------------------------------------------------------------------
(* RemoveNode, in its three stores *)

(* The lookups under RCU: whoever called at DISPATCH_LEVEL is from the start. *)
InLookup == {r \in Readers : reader[r].at \notin {"idle", "root"}}

(* Mutant: memory is returned to the lookaside list at once. *)
FreeAtOnce(S, f) ==
    /\ grace' = grace
    /\ trie' = [n \in Nodes |-> IF n \in S THEN Blank ELSE f[n]]

(* RcuCall with NodeFreeRcu or RootFreeRcu.  Memory is reused as soon as the  *)
(* lookups that were running have ended, the worst case for them.             *)
Retire(S, f) ==
    /\ grace' = [n \in Nodes |-> IF n \in S THEN InLookup ELSE grace[n]]
    /\ trie' = [n \in Nodes |-> IF n \in S /\ InLookup = {} THEN Blank ELSE f[n]]

(* The node loses its peer, and with it its place in the routing table. *)
Clear(n, todo) ==
    LET x == <<Masked(trie[n].Bits, trie[n].Cidr), trie[n].Cidr>>
    IN  /\ trie' = [trie EXCEPT ![n].Peer = NULL]
        /\ list' = [list EXCEPT ![trie[n].Peer] = SelectSeq(@, LAMBDA y : y # n)]
        /\ SetTable([routes EXCEPT ![x] = NULL])
        /\ writer' = IF \E b \in 1..2 : trie[n].Bit[b] = NULL
                       THEN [do |-> "unlink", n |-> n, todo |-> todo]
                       ELSE [do |-> IF todo = <<>> THEN "idle" ELSE "next", n |-> NULL,
                             todo |-> todo]
        /\ UNCHANGED <<Root, referenced, grace>>

OnlyChild(n) == IF trie[n].Bit[1] # NULL THEN trie[n].Bit[1] ELSE trie[n].Bit[2]

(* n's place is given to its only child, or to nobody. *)
Splice(n, child) ==
    LET g == IF child = NULL THEN trie ELSE [trie EXCEPT ![child].Parent = trie[n].Parent]
    IN  /\ Root' = IF trie[n].Parent.n = NULL THEN child ELSE Root
        /\ Retire({n}, IF trie[n].Parent.n = NULL THEN g
                       ELSE [g EXCEPT ![trie[n].Parent.n].Bit[trie[n].Parent.bit] = child])

(* Mutant: whether the parent has a peer of its own is not looked at. *)
FreeAnyParent(n) ==
    trie[n].Bit = <<NULL, NULL>> /\ trie[n].Parent.n # NULL

(* A branch node that is left with one child is removed with its other child. *)
FreeParent(n) ==
    /\ trie[n].Bit = <<NULL, NULL>>
    /\ trie[n].Parent.n # NULL
    /\ trie[trie[n].Parent.n].Peer = NULL

NextRemoval == [writer EXCEPT !.do = IF writer.todo = <<>> THEN "idle" ELSE "next"]

Unlink ==
    LET n == writer.n
    IN  /\ writer.do = "unlink"
        /\ Splice(n, OnlyChild(n))
        /\ writer' = IF FreeParent(n) THEN [writer EXCEPT !.do = "unlink parent",
                                                          !.n = trie[n].Parent.n]
                                      ELSE NextRemoval
        /\ UNCHANGED <<list, referenced, routes, reader>>

UnlinkParent ==
    /\ writer.do = "unlink parent"
    /\ Splice(writer.n, OnlyChild(writer.n))
    /\ writer' = NextRemoval
    /\ UNCHANGED <<list, referenced, routes, reader>>

RemovePrefix(key, Cidr, p) ==
    LET n == NodePlacement(key, Cidr)
    IN  /\ writer.do = "idle"
        /\ n # NULL /\ trie[n].Cidr = Cidr /\ trie[n].Peer = p
        /\ Clear(n, <<>>)

(* AllowedIpsRemoveByPeer walks the peer's list; the next node is read before *)
(* the current one is removed.                                                *)
AllowedIpsRemoveByPeer(p) ==
    /\ writer.do = "idle"
    /\ list[p] # <<>>
    /\ Clear(Head(list[p]), Tail(list[p]))

RemoveNext ==
    /\ writer.do = "next"
    /\ Clear(Head(writer.todo), Tail(writer.todo))

(* The whole trie is cut off at once; its nodes keep their peers and children. *)
AllowedIpsFree ==
    /\ writer.do = "idle"
    /\ Root # NULL
    /\ Root' = NULL
    /\ list' = [p \in Owners |-> <<>>]
    /\ SetTable([x \in AllPrefixes |-> NULL])
    /\ Retire({n \in Nodes : grace[n] = {} /\ trie[n] # Blank}, trie)
    /\ UNCHANGED <<referenced, writer>>

(* The last reference of a removed peer is put. *)
PeerDies(p) ==
    /\ p \in referenced /\ list[p] = <<>> /\ writer.do = "idle"
    /\ referenced' = referenced \ {p}
    /\ UNCHANGED <<Root, trie, list, routes, writer, reader, grace>>

-----------------------------------------------------------------------------
(* Lookup *)

ReaderAt(r, at) == reader[r].at = at

(* AllowedIpsLookupDst and AllowedIpsLookupSrc read the root, which is the     *)
(* argument of Lookup, before RcuReadLock.  A caller at DISPATCH_LEVEL holds RCU *)
(* by then; the receive worker (receive.c:340) runs at PASSIVE_LEVEL.         *)
StartLookup(r, key) ==
    /\ ReaderAt(r, "idle")
    /\ reader' = [reader EXCEPT ![r] =
                    [at |-> IF AtDispatchLevel THEN "visit" ELSE "root",
                     key |-> key, n |-> Root, found |-> NULL, root |-> Root,
                     matched |-> Matching(routes, key)]]
    /\ UNCHANGED <<Root, trie, list, referenced, routes, writer, grace>>

(* FindNode reads a node's peer, at the root after RcuReadLock ... *)
Visit(r) ==
    LET n == reader[r].n
    IN  /\ reader[r].at \in {"root", "visit"}
        /\ reader' = [reader EXCEPT ![r] =
             IF n = NULL \/ ~PrefixMatches(n, @.key) THEN [@ EXCEPT !.at = "found"]
             ELSE [@ EXCEPT !.found = IF trie[n].Peer # NULL THEN n ELSE @,
                            !.at = IF trie[n].Cidr = Bits THEN "found" ELSE "descend"]]
        /\ UNCHANGED <<Root, trie, list, referenced, routes, writer, grace>>

(* ... and then its child. *)
Descend(r) ==
    LET n == reader[r].n
    IN  /\ ReaderAt(r, "descend")
        /\ reader' = [reader EXCEPT ![r] =
             [@ EXCEPT !.at = "visit", !.n = trie[n].Bit[Choose(n, reader[r].key)]]]
        /\ UNCHANGED <<Root, trie, list, referenced, routes, writer, grace>>

(* PeerGetMaybeZero; if the peer is gone, the walk starts again at the same root. *)
GetPeer(r) ==
    LET p == trie[reader[r].found].Peer
    IN  /\ ReaderAt(r, "found") /\ reader[r].found # NULL
        /\ reader' = [reader EXCEPT ![r] =
             IF p \in referenced THEN [@ EXCEPT !.at = "return", !.found = p]
             ELSE [@ EXCEPT !.at = "visit", !.n = reader[r].root, !.found = NULL]]
        /\ UNCHANGED <<Root, trie, list, referenced, routes, writer, grace>>

(* RcuReadUnlock, with or without a peer. *)
EndLookup(r) ==
    /\ ReaderAt(r, "return") \/ (ReaderAt(r, "found") /\ reader[r].found = NULL)
    /\ reader' = [reader EXCEPT ![r] = Outside]
    /\ grace' = [n \in Nodes |-> grace[n] \ {r}]
    /\ trie' = [n \in Nodes |-> IF grace[n] = {r} THEN Blank ELSE trie[n]]
    /\ UNCHANGED <<Root, list, referenced, routes, writer>>

AllowedIpsNext ==
    \/ \E x \in Given, p \in Owners :
         Reassign(x[1], x[2], p) \/ Add(x[1], x[2], p) \/ RemovePrefix(x[1], x[2], p)
    \/ \E p \in Owners : AllowedIpsRemoveByPeer(p) \/ PeerDies(p)
    \/ Unlink \/ UnlinkParent \/ RemoveNext \/ AllowedIpsFree
    \/ \E r \in Readers :
         \/ \E key \in LookedUp : StartLookup(r, key)
         \/ Visit(r) \/ Descend(r) \/ GetPeer(r) \/ EndLookup(r)

-----------------------------------------------------------------------------
(* Properties *)

(* The peer of the longest prefix that contains the key. *)
LongestMatch(key) ==
    LET hits == {c \in 0..Bits : routes[<<Masked(key, c), c>>] # NULL}
    IN  IF hits = {} THEN NULL ELSE routes[<<Masked(key, Max(hits)), Max(hits)>>]

FindNode(key) ==
    LET hits == SelectSeq(Path[Root, key], LAMBDA n : trie[n].Peer # NULL)
    IN  IF hits = <<>> THEN NULL ELSE trie[Last(hits)].Peer

(* The trie is the routing table at every step of every insertion and         *)
(* removal, half done ones included: a walk from the root finds the longest   *)
(* prefix (FindNode, allowedips.c:128), and the peers' lists, which WG_IOCTL_GET   *)
(* reports through AllowedIpsReadNode, hold exactly the table's prefixes.     *)
TrieIsTable ==
    /\ \A key \in Keys : FindNode(key) = LongestMatch(key)
    /\ \A p \in Owners :
         /\ {<<Masked(trie[n].Bits, trie[n].Cidr), trie[n].Cidr>> : n \in ToSet(list[p])}
              = {x \in AllPrefixes : routes[x] = p}
         /\ Len(list[p]) = Cardinality({x \in AllPrefixes : routes[x] = p})

(* A lookup that runs through any number of updates returns a peer that owned *)
(* a prefix of the address at some time during the lookup, and never one from *)
(* memory that was freed or reused (Lookup, allowedips.c:148).                *)
LookupHonest ==
    \A r \in Readers : ReaderAt(r, "return") => reader[r].found \in reader[r].matched

(* FindNode and RcuDereference are declared _Requires_rcu_held_               *)
(* (allowedips.c:128, rcu.h:90): under RCU, no lookup is at a node whose      *)
(* memory was given back.  The cleared node of the prefix of length zero      *)
(* looks like free memory while it still is the root.                         *)
Freed(n) == trie[n] = Blank /\ grace[n] = {} /\ n # Root

HeldWhileWalked ==
    \A r \in InLookup : reader[r].at \in {"visit", "descend"} /\ reader[r].n # NULL =>
        ~Freed(reader[r].n)
=============================================================================

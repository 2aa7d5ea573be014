----------------------------- MODULE PeerCache ------------------------------
(***************************************************************************)
(* The bundles a node keeps of the other nodes of its roster               *)
(* (cmd/relay/peers.go) and the mirror it serves of them: the refresher    *)
(* keepPeers fetches one peer after another, the signer replaces the       *)
(* node's own bundle, and a request for /descriptors rebuilds a mirror     *)
(* whose first bundle has run out.  All three publish the mirror, under    *)
(* peerCache.mu.                                                           *)
(*                                                                         *)
(* A bundle is known by its age: seconds since it was signed, up to TTL    *)
(* where it has run out.  Ages make time unbounded with finitely many      *)
(* states.  The certificate outlives the horizon of interest, so every     *)
(* bundle lives TTL and is due at half of it.  Computing takes no time;    *)
(* fetches and pauses do.                                                  *)
(***************************************************************************)
EXTENDS Integers, FiniteSetsExt

CONSTANTS
    P,          \* the other nodes of the roster
    MayFail,    \* the peers that may be out of reach
    Settings    \* the flags and constants a node may run with, see Setting

\* What a node is started with and compiled with:
\*   ttl      -descriptor-ttl, the life of a bundle
\*   check    checkEvery: how late a node re-signs past half the life
\*   fetch    fetch.Timeout
\*   retry    peerRetry
\*   maxWait  maxCheckEvery
\*   skew     pki.Skew
\*   maySign  whether the node's own signing works
Setting ==
    [ttl : Nat, check : Nat \ {0}, fetch : Nat, retry : Nat \ {0},
     maxWait : Nat, skew : Nat, maySign : BOOLEAN]

ASSUME PeerAssumption ==
    /\ P \in Nat \ {0} /\ MayFail \subseteq 1..P
    /\ \A f \in Settings : f \in Setting /\ f.ttl \div 2 + f.check < f.ttl

\* fetch.Timeout is well within pki.Skew
ASSUME SkewAssumption == \A f \in Settings : f.fetch <= f.skew

VARIABLE setting    \* one of Settings, for good

TTL == setting.ttl
Check == setting.check
Fetch == setting.fetch
Retry == setting.retry
MaxWait == setting.maxWait
Skew == setting.skew
MaySign == setting.maySign

Half == TTL \div 2

Peers == 1..P
Self == 0
Members == {Self} \cup Peers
None == -1
Ages == 0..TTL
Threads == {"peers", "sign", "serve"}

VARIABLES
    up,         \* up[p]: whether peer p answers with the bundle it has in service
    served,     \* served[p]: the age of the bundle peer p serves
    own,        \* node.out: the age of the node's own bundle
    entries,    \* peerCache.entries: the age of the bundle held, or None
    mu,         \* peerCache.mu: the thread publishing, or "free"
    seen,       \* seen[t]: the age of the own bundle thread t has read, or None
    publishing, \* the threads that are to publish
    mirror,     \* peerCache.mirror: the ages of its bundles, None for one left
                \* out, and the time left; None for own: nothing to serve
    rpc,        \* where the refresher is
    rp,         \* the peer it is at
    wait,       \* what is left of its pause
    spent,      \* how long its fetch has taken
    answer,     \* the age of the bundle that came back, None before
    reach       \* reach[p]: for how long peer p has been in reach, up to Ever
                \* (history)

env == <<up, served>>
refresher == <<rpc, rp, wait, spent, answer>>
cache == <<mu, seen, publishing, mirror>>
vars == <<env, own, entries, cache, refresher, reach, setting>>

Live(a) == a # None /\ a < TTL

\* by when a peer that has just come into reach is held: the refresher has asked
\* it in vain just before, asks the others, pauses and asks again
Within == Retry + P * Fetch

\* room for the last bundle but one: a peer signs again Check after half the life
\* of a bundle, the fetch that just missed it has to end, and the refresher has
\* to pause and ask every peer once more
InTime == Half + Check + (P + 1) * Fetch + Retry < TTL

\* longer than that; not counted where the lifetime leaves no room for it
Ever == IF InTime THEN Within + 1 ELSE 0

TypeOK ==
    /\ up \in [Peers -> BOOLEAN] /\ served \in [Peers -> Ages]
    /\ own \in Ages /\ entries \in [Peers -> Ages \cup {None}]
    /\ mu \in Threads \cup {"free"} /\ seen \in [Threads -> Ages \cup {None}] /\ publishing \subseteq Threads
    /\ mirror \in [ages : [Members -> Ages \cup {None}], left : Ages]
    /\ rpc \in {"pause", "look", "fetch", "publish"} /\ rp \in Peers
    /\ wait \in 0..Max({Retry, MaxWait}) /\ spent \in 0..Fetch
    /\ answer \in Ages \cup {None}
    /\ reach \in [Peers -> 0..Ever]
    /\ setting \in Settings

\* setPeers: the cache starts empty, with a mirror of the node itself
Init ==
    /\ setting \in Settings
    /\ up = [p \in Peers |-> TRUE] /\ served \in [Peers -> {0, Half}]
    /\ own = 0
    /\ entries = [p \in Peers |-> None]
    /\ mu = "free" /\ seen = [t \in Threads |-> None] /\ publishing = {}
    /\ mirror = [ages |-> [n \in Members |-> IF n = Self THEN 0 ELSE None], left |-> TTL]
    /\ rpc = "look" /\ rp = 1 /\ wait = 0 /\ spent = 0 /\ answer = None
    /\ reach = [p \in Peers |-> 0]

-----------------------------------------------------------------------------
(* refresh and wait: the goroutine of keepPeers.                            *)

\* verifiedPeer: an entry is due at half the life of its bundle
Due(p) == entries[p] = None \/ entries[p] >= Half

\* the loop over the addresses of the roster
More == rp < P

\* the next peer, or the mirror
NextPeer ==
    /\ rp' = IF More THEN rp + 1 ELSE 1
    /\ rpc' = IF More THEN "look" ELSE "publish"
    /\ publishing' = IF More THEN publishing ELSE publishing \cup {"peers"}
    /\ spent' = 0 /\ answer' = None
    /\ UNCHANGED <<wait, mu, seen, mirror>>

Skip ==
    /\ rpc = "look" /\ ~Due(rp)
    /\ NextPeer
    /\ UNCHANGED <<env, own, entries, reach, setting>>

Ask ==
    /\ rpc = "look" /\ Due(rp)
    /\ rpc' = "fetch" /\ spent' = 0 /\ answer' = None
    /\ UNCHANGED <<env, own, entries, cache, rp, wait, reach, setting>>

\* the peer answers with the bundle it has in service
PeerAnswers ==
    /\ rpc = "fetch" /\ answer = None
    /\ up[rp] /\ Live(served[rp])
    /\ answer' = served[rp]
    /\ UNCHANGED <<env, own, entries, cache, rpc, rp, wait, spent, reach, setting>>

\* no answer, a status other than 200, or the answer breaks off: the entry
\* held so far stays
FetchFails ==
    /\ rpc = "fetch" /\ ~up[rp]
    /\ NextPeer
    /\ UNCHANGED <<env, own, entries, reach, setting>>

\* pki.Verify against the time read before the fetch: a bundle signed since
\* then is from the future by as much as the fetch has taken
Verifies == spent - answer <= Skew

Store ==
    /\ rpc = "fetch" /\ answer # None /\ mu = "free"
    /\ entries' = IF Verifies THEN [entries EXCEPT ![rp] = answer] ELSE entries
    /\ NextPeer
    /\ UNCHANGED <<env, own, reach, setting>>

\* mutant: a peer that is due waits for the whole period
WaitPeriod == MaxWait

\* wait: the nearest due time, within its bounds
WaitFor ==
    IF \E p \in Peers : Due(p)
    THEN Retry
    ELSE Max({Retry, Min({MaxWait} \cup {Half - entries[p] : p \in Peers})})

\* the timer of keepPeers
Wake ==
    /\ rpc = "pause" /\ wait = 0
    /\ rpc' = "look"
    /\ UNCHANGED <<env, own, entries, cache, rp, wait, spent, answer, reach, setting>>

-----------------------------------------------------------------------------
(* publish, by the refresher, the signer or a request.                      *)

\* mutant: publish reads the own bundle before it takes mu
PublishReadsUnlocked(t) ==
    /\ t \in publishing /\ seen[t] = None
    /\ seen' = [seen EXCEPT ![t] = own]
    /\ UNCHANGED <<env, own, entries, mu, publishing, mirror, refresher, reach, setting>>

\* publish takes mu and reads the node's own bundle
PublishReads(t) ==
    /\ t \in publishing /\ seen[t] = None /\ mu = "free"
    /\ mu' = t
    /\ seen' = [seen EXCEPT ![t] = own]
    /\ UNCHANGED <<env, own, entries, publishing, mirror, refresher, reach, setting>>

\* mutant: a mirror lasts as long as the node's own bundle
MirrorOfOwn(ages) == [ages |-> ages, left |-> TTL - ages[Self]]

\* the bundles of a mirror, and the time until the first of them runs out
MirrorOf(ages) ==
    [ages |-> ages, left |-> Min({TTL - ages[n] : n \in {m \in Members : ages[m] # None}})]

NoMirror == [ages |-> [n \in Members |-> None], left |-> 0]

\* the own bundle as thread t read it, and every entry that has not run out
Listed(t) == [n \in Members |-> IF n = Self THEN seen[t]
                                ELSE IF Live(entries[n]) THEN entries[n] ELSE None]

\* publish stores what it has built and releases mu; the refresher then pauses
PublishStores(t) ==
    /\ seen[t] # None /\ mu \in {t, "free"}
    /\ mu' = "free"
    /\ publishing' = publishing \ {t}
    /\ mirror' = IF Live(seen[t]) THEN MirrorOf(Listed(t)) ELSE NoMirror
    /\ seen' = [seen EXCEPT ![t] = None]
    /\ IF t = "peers" THEN rpc' = "pause" /\ wait' = WaitFor ELSE UNCHANGED <<rpc, wait>>
    /\ UNCHANGED <<env, own, entries, rp, spent, answer, reach, setting>>

\* sign: the new bundle is in service before the mirror is published
Sign ==
    /\ MaySign /\ "sign" \notin publishing /\ own > 0
    /\ own' = 0
    /\ publishing' = publishing \cup {"sign"}
    /\ UNCHANGED <<env, entries, mu, seen, mirror, refresher, reach, setting>>

\* descriptors: a mirror that has run out is rebuilt once per request; any
\* other request reads it as it is
Request ==
    /\ "serve" \notin publishing
    /\ mirror.ages[Self] # None /\ mirror.left = 0
    /\ publishing' = publishing \cup {"serve"}
    /\ UNCHANGED <<env, own, entries, mu, seen, mirror, refresher, reach, setting>>

-----------------------------------------------------------------------------
(* The peers and the clock.                                                 *)

\* a peer signs its bundle again: past half its life, or on a rotation
PeerSigns(p) ==
    /\ up[p] /\ served[p] > 0
    /\ served' = [served EXCEPT ![p] = 0]
    /\ UNCHANGED <<up, own, entries, cache, refresher, reach, setting>>

Down(p) ==
    /\ p \in MayFail /\ up[p]
    /\ up' = [up EXCEPT ![p] = FALSE]
    /\ reach' = [reach EXCEPT ![p] = 0]
    /\ UNCHANGED <<served, own, entries, cache, refresher, setting>>

\* back in reach, with the bundle it had or a new one
Up(p) ==
    /\ ~up[p]
    /\ up' = [up EXCEPT ![p] = TRUE]
    /\ served' = [served EXCEPT ![p] = IF @ < Half + Check THEN @ ELSE 0]
    /\ UNCHANGED <<own, entries, cache, refresher, reach, setting>>

Older(a) == IF Live(a) THEN a + 1 ELSE a

\* a second passes while the refresher pauses or waits for an answer; a peer in
\* reach has signed again by the check that follows half the life of its bundle
Tick ==
    /\ \/ rpc = "pause" /\ wait > 0
       \/ rpc = "fetch" /\ spent < Fetch
    /\ mu = "free" /\ publishing = {}
    /\ \A p \in Peers : up[p] => served[p] < Half + Check
    /\ served' = [p \in Peers |-> Older(served[p])]
    /\ own' = Older(own)
    /\ entries' = [p \in Peers |-> Older(entries[p])]
    /\ mirror' = [ages |-> [n \in Members |-> Older(mirror.ages[n])],
                  left |-> Max({0, mirror.left - 1})]
    /\ wait' = Max({0, wait - 1})
    /\ spent' = IF rpc = "fetch" THEN spent + 1 ELSE spent
    /\ answer' = Older(answer)
    /\ reach' = [p \in Peers |-> IF up[p] THEN Min({Ever, reach[p] + 1}) ELSE 0]
    /\ UNCHANGED <<up, mu, seen, publishing, rpc, rp, setting>>

Refresh == Skip \/ Ask \/ PeerAnswers \/ FetchFails \/ Store \/ Wake
Publish(t) == PublishReads(t) \/ PublishStores(t)

Next ==
    \/ Refresh \/ Sign \/ Request \/ Tick
    \/ \E t \in Threads : Publish(t)
    \/ \E p \in Peers : PeerSigns(p) \/ Down(p) \/ Up(p)

Spec == Init /\ [][Next]_vars

-----------------------------------------------------------------------------
(* Properties.                                                              *)

\* What /descriptors may hand out holds no bundle that has run out: the time of
\* a mirror ends with the first of its bundles (publish, descriptors), however
\* refreshes, signings and requests fall between.
ServableIsLive ==
    /\ TypeOK
    /\ mirror.left > 0 =>
          \A n \in Members : mirror.ages[n] # None => Live(mirror.ages[n])

\* Once nobody is about to publish, the mirror carries the bundle the node
\* itself serves on /descriptor: of two publications at once the later read wins
\* (publish reads the own bundle under mu, sign stores it before).
OwnBundleMirrored ==
    publishing = {} /\ Live(own) => mirror.ages[Self] = own

\* Where the lifetime leaves room for it, a peer is held from Within after it has
\* come into reach for as long as it stays there: an entry that is missing or has
\* run out is asked for again, and a bundle held is replaced before it runs out,
\* whatever the other peers' fetches cost (verifiedPeer's due, wait,
\* fetch.Timeout, checkEvery).
HeldWithin == InTime => \A p \in Peers : reach[p] = Ever => Live(entries[p])
=============================================================================

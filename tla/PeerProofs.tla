------------------------------ MODULE PeerProofs ------------------------------
(***************************************************************************)
(* For every roster, every lifetime and every setting of the timers: what  *)
(* a node hands out has not run out, the mirror has the node's own bundle, *)
(* and a peer in reach is held.                                            *)
(*                                                                         *)
(* The first needs that the time of a mirror and the age of each bundle in *)
(* it add up to a lifetime at most.  The second needs who may have read    *)
(* what under mu: a reader with an old bundle is overtaken, because the    *)
(* signer has yet to publish.  The third is an argument about time: by     *)
(* when the refresher is done with a peer again (Remaining), which falls   *)
(* by one with every second and is set so that the bundle held, or the     *)
(* wait for the first one, covers it (Covered).                            *)
(***************************************************************************)
EXTENDS PeerCache, WellFoundedInduction, TLAPS

\* A mirror ends with the first of its bundles, and none of them has run out
\* before.
MirrorLasts ==
    \A n \in Members : mirror.ages[n] # None => mirror.left + mirror.ages[n] <= TTL

\* The thread that holds mu is the one that has read the own bundle, and it is
\* still to store what it builds.
MuHeld ==
    \A t \in Threads : (seen[t] # None <=> mu = t) /\ (seen[t] # None => t \in publishing)

\* Either the signer has yet to read what it signed, or everybody who has read
\* has the bundle in service, and the mirror has it too once nobody publishes.
SignPending == "sign" \in publishing /\ seen["sign"] = None
Fresh ==
    \/ SignPending
    \/ /\ \A t \in Threads : seen[t] \in {None, own}
       /\ Live(own) => mirror.ages[Self] = own \/ publishing # {}

MirrorInv == TypeOK /\ MirrorLasts /\ MuHeld /\ Fresh

-----------------------------------------------------------------------------
\* n fetches, at their longest
Fetches(n) == n * Fetch

\* The refresher has been at peer p in its round, or its round is over.
Past(p) == rpc = "publish" \/ (rpc \in {"look", "fetch"} /\ rp > p)

\* What is left of the fetch under way and of those before peer q's, at most.
Ahead(q) == Fetches(q - rp + 1) - (IF rpc = "fetch" THEN spent ELSE 0)

\* By when the refresher is done with peer p again, at most, if it pauses no
\* longer than after a failure.
Remaining(p) ==
    CASE rpc = "pause"   -> wait + Fetches(p)
      [] rpc = "publish" -> Retry + Fetches(p)
      [] OTHER           -> IF rp <= p THEN Ahead(p) ELSE Ahead(P) + Retry + Fetches(p)

\* The bundle of peer p is replaced before it runs out; or the refresher will have
\* come to p by Within after it came into reach, and knows to hurry.
Covered(p) ==
    \/ entries[p] # None /\ entries[p] + Remaining(p) < TTL
    \/ reach[p] + Remaining(p) <= Within /\ (Past(p) => Due(p))

\* Where the refresher is, what it asks for and what it may be told.
Round ==
    /\ rpc \in {"publish", "pause"} => rp = 1
    /\ "peers" \in publishing => rpc = "publish"
    /\ rpc = "fetch" => Due(rp)
    /\ answer # None => rpc = "fetch" /\ answer <= Half + Check + spent

\* A peer in reach has signed in time; one that is not has to start again.
InReach == \A p \in Peers : IF up[p] THEN served[p] <= Half + Check ELSE reach[p] = 0

HeldInv == Round /\ InReach /\ (InTime => \A p \in Peers : Covered(p))

PeerInv == MirrorInv /\ HeldInv

-----------------------------------------------------------------------------
(* Smallest and largest members. *)

\* A set of naturals has a smallest member.
LEMMA SmallestMember ==
    ASSUME NEW S \in SUBSET Nat, S # {}
    PROVE  \E x \in S : \A y \in S : x <= y
<1> DEFINE R == {ss \in Nat \X Nat : ss[1] < ss[2]}
<1>1. IsWellFoundedOn(R, Nat)
  BY NatLessThanWellFounded DEF OpToRel
<1>2. PICK x \in S : \A y \in S : ~(<<y, x>> \in R)
  BY <1>1, WFMin
<1>3. \A y \in S : ~(y < x)
  BY <1>2
<1> QED  BY <1>3

LEMMA MinIsLeast ==
    ASSUME NEW S \in SUBSET Nat, S # {}
    PROVE  Min(S) \in S /\ \A y \in S : Min(S) <= y
BY SmallestMember DEF Min

LEMMA MaxOfTwo ==
    ASSUME NEW a \in Int, NEW b \in Int
    PROVE  Max({a, b}) = IF a >= b THEN a ELSE b
BY DEF Max

LEMMA MinOfTwo ==
    ASSUME NEW a \in Int, NEW b \in Int
    PROVE  Min({a, b}) = IF a <= b THEN a ELSE b
BY DEF Min

-----------------------------------------------------------------------------
(* The settings. *)

LEMMA SettingType ==
    ASSUME setting \in Settings
    PROVE  /\ TTL \in Nat /\ Check \in Nat \ {0} /\ Fetch \in Nat /\ Retry \in Nat \ {0}
           /\ MaxWait \in Nat /\ Skew \in Nat /\ Half \in Nat
           /\ Half + Check < TTL /\ Fetch <= Skew
           /\ P \in Nat \ {0}
<1>1. setting \in Setting /\ setting.ttl \div 2 + setting.check < setting.ttl
      /\ setting.fetch <= setting.skew
  BY PeerAssumption, SkewAssumption
<1>2. TTL \in Nat /\ Check \in Nat \ {0} /\ Fetch \in Nat /\ Retry \in Nat \ {0}
      /\ MaxWait \in Nat /\ Skew \in Nat
  BY <1>1 DEF Setting, TTL, Check, Fetch, Retry, MaxWait, Skew
<1>3. Half \in Nat
  BY <1>2 DEF Half
<1> QED  BY <1>1, <1>2, <1>3, PeerAssumption DEF Half, TTL, Check, Fetch, Skew

LEMMA SameSetting ==
    ASSUME UNCHANGED setting
    PROVE  /\ TTL' = TTL /\ Check' = Check /\ Fetch' = Fetch /\ Retry' = Retry
           /\ MaxWait' = MaxWait /\ Half' = Half /\ Ages' = Ages
           /\ Within' = Within /\ Ever' = Ever /\ (InTime' <=> InTime)
           /\ Max({Retry, MaxWait})' = Max({Retry, MaxWait})
<1>1. /\ TTL' = TTL /\ Check' = Check /\ Fetch' = Fetch /\ Retry' = Retry
      /\ MaxWait' = MaxWait
  BY DEF TTL, Check, Fetch, Retry, MaxWait
<1>2. Half' = Half /\ Ages' = Ages /\ Within' = Within
  BY <1>1 DEF Half, Ages, Within
<1>3. InTime' <=> InTime
  BY <1>1, <1>2 DEF InTime
<1>4. Ever' = Ever
  BY <1>2, <1>3 DEF Ever
<1>5. Max({Retry, MaxWait})' = Max({Retry, MaxWait})
  BY <1>1 DEF Max
<1> QED  BY <1>1, <1>2, <1>3, <1>4, <1>5

-----------------------------------------------------------------------------
(* The mirror. *)

\* The types by whose they are.
EnvType == /\ up \in [Peers -> BOOLEAN] /\ served \in [Peers -> Ages]
           /\ own \in Ages /\ entries \in [Peers -> Ages \cup {None}]
           /\ reach \in [Peers -> 0..Ever]
CacheType ==
    /\ mu \in Threads \cup {"free"} /\ seen \in [Threads -> Ages \cup {None}]
    /\ publishing \subseteq Threads
    /\ mirror \in [ages : [Members -> Ages \cup {None}], left : Ages]
RefresherType ==
    /\ rpc \in {"pause", "look", "fetch", "publish"} /\ rp \in Peers
    /\ wait \in 0..Max({Retry, MaxWait}) /\ spent \in 0..Fetch
    /\ answer \in Ages \cup {None}

LEMMA TypeParts == TypeOK <=> EnvType /\ CacheType /\ RefresherType /\ setting \in Settings
BY DEF TypeOK, EnvType, CacheType, RefresherType

\* A step that reads no bundle and stores no mirror.
LEMMA QuietMirror ==
    ASSUME MirrorInv, UNCHANGED <<own, mu, seen, mirror, setting>>,
           publishing \subseteq publishing', publishing' \subseteq Threads,
           EnvType', RefresherType'
    PROVE  MirrorInv'
<1> USE DEF MirrorInv
<1>1. TTL' = TTL /\ Ages' = Ages
  BY SameSetting
<1>2. TypeOK'
  <2>1. CacheType' /\ setting' \in Settings
    BY <1>1, TypeParts DEF CacheType
  <2> QED  BY <2>1 DEF TypeOK, EnvType, CacheType, RefresherType
<1>3. MirrorLasts' /\ MuHeld'
  BY <1>1 DEF MirrorLasts, MuHeld
<1>4. Fresh'
  BY <1>1 DEF Fresh, SignPending, Live
<1> QED  BY <1>2, <1>3, <1>4

\* publish reads the own bundle under mu.
LEMMA PublishReadsMirror ==
    ASSUME MirrorInv, NEW t \in Threads, PublishReads(t)
    PROVE  MirrorInv'
<1> USE DEF MirrorInv
<1>1. /\ t \in publishing /\ seen[t] = None /\ mu = "free" /\ mu' = t
      /\ seen' = [seen EXCEPT ![t] = own]
      /\ UNCHANGED <<up, served, own, entries, publishing, mirror, rpc, rp, wait, spent, answer,
                     reach, setting>>
  BY DEF PublishReads, env, refresher
<1>2. /\ TTL' = TTL /\ Ages' = Ages /\ Ever' = Ever /\ Fetch' = Fetch
      /\ Max({Retry, MaxWait})' = Max({Retry, MaxWait})
  BY <1>1, SameSetting
<1>3. own \in Ages /\ own # None /\ seen \in [Threads -> Ages \cup {None}]
  <2>1. own \in Ages /\ seen \in [Threads -> Ages \cup {None}] /\ TTL \in Nat
    BY SettingType DEF TypeOK
  <2> QED  BY <2>1 DEF Ages, None
<1>4. TypeOK'
  BY <1>1, <1>2, <1>3 DEF TypeOK
<1>5. \A u \in Threads : seen'[u] = IF u = t THEN own ELSE None
  BY <1>1, <1>3 DEF MuHeld, Threads
<1>6. MirrorLasts' /\ MuHeld'
  <2>1. MirrorLasts'
    BY <1>1, <1>2 DEF MirrorLasts
  <2>2. \A u \in Threads : seen'[u] # None <=> u = t
    BY <1>3, <1>5
  <2> QED  BY <1>1, <2>1, <2>2 DEF MuHeld
<1>7. Fresh'
  BY <1>1, <1>2, <1>5 DEF Fresh, SignPending, Live
<1> QED  BY <1>4, <1>6, <1>7

\* What a mirror of bundles is, with the one of the node itself among them: it
\* ends with the first.
LEMMA MirrorOfAges ==
    ASSUME setting \in Settings, NEW ages \in [Members -> Ages \cup {None}], ages[Self] # None
    PROVE  /\ MirrorOf(ages) \in [ages : [Members -> Ages \cup {None}], left : Ages]
           /\ MirrorOf(ages).ages = ages
           /\ \A n \in Members : ages[n] # None => MirrorOf(ages).left + ages[n] <= TTL
<1> DEFINE S == {TTL - ages[n] : n \in {m \in Members : ages[m] # None}}
<1>1. TTL \in Nat /\ Ages = 0 .. TTL /\ Self \in Members
  BY SettingType DEF Ages, Members
<1>2. \A m \in Members : ages[m] # None => ages[m] \in 0 .. TTL
  BY <1>1
<1>3. S # {} /\ \A x \in S : x \in 0 .. TTL
  <2>1. TTL - ages[Self] \in S
    BY <1>1
  <2>2. ASSUME NEW n \in {m \in Members : ages[m] # None}
        PROVE  TTL - ages[n] \in 0 .. TTL
    BY <1>1, <1>2
  <2> QED  BY <2>1, <2>2
<1>4. \A n \in Members : ages[n] # None => TTL - ages[n] \in S
  OBVIOUS
<1>5. MirrorOf(ages) = [ages |-> ages, left |-> Min(S)]
  BY DEF MirrorOf
<1> HIDE DEF S
<1>6. Min(S) \in S /\ \A y \in S : Min(S) <= y
  <2>1. S \in SUBSET Nat
    BY <1>1, <1>3
  <2> QED  BY <1>3, <2>1, MinIsLeast
<1>7. Min(S) \in Ages /\ Min(S) \in Int
  <2>1. Min(S) \in 0 .. TTL
    BY <1>3, <1>6
  <2> QED  BY <1>1, <2>1
<1>8. ASSUME NEW n \in Members, ages[n] # None
      PROVE  Min(S) + ages[n] <= TTL
  <2>1. Min(S) <= TTL - ages[n] /\ ages[n] \in Int
    BY <1>2, <1>4, <1>6, <1>8
  <2> QED  BY <1>1, <1>7, <2>1
<1> QED  BY <1>5, <1>7, <1>8

\* wait: never longer than the longest pause.
LEMMA WaitForType ==
    ASSUME setting \in Settings, entries \in [Peers -> Ages \cup {None}]
    PROVE  /\ WaitFor \in 0 .. Max({Retry, MaxWait})
           /\ (\E p \in Peers : Due(p)) => WaitFor = Retry
           /\ \A p \in Peers : ~Due(p) =>
                WaitFor = Retry \/ WaitFor <= Half - entries[p]
<1> DEFINE S == {MaxWait} \cup {Half - entries[p] : p \in Peers}
<1>1. /\ TTL \in Nat /\ Retry \in Nat /\ MaxWait \in Nat /\ Half \in Nat /\ Ages = 0 .. TTL
  BY SettingType DEF Ages
<1>2. Max({Retry, MaxWait}) = IF Retry >= MaxWait THEN Retry ELSE MaxWait
  BY <1>1, MaxOfTwo
<1>3. CASE \E p \in Peers : Due(p)
  <2>1. WaitFor = Retry
    BY <1>3 DEF WaitFor
  <2> QED  BY <1>1, <1>2, <2>1
<1>4. CASE ~\E p \in Peers : Due(p)
  <2>1. \A p \in Peers : entries[p] \in Nat /\ entries[p] < Half
    BY <1>1, <1>4 DEF Due
  <2>2. S \in SUBSET Nat /\ S # {} /\ MaxWait \in S /\ \A p \in Peers : Half - entries[p] \in S
    BY <1>1, <2>1
  <2>3. WaitFor = Max({Retry, Min(S)})
    BY <1>4 DEF WaitFor
  <2> HIDE DEF S
  <2>4. Min(S) \in S /\ \A y \in S : Min(S) <= y
    BY <2>2, MinIsLeast
  <2>5. Min(S) \in Nat /\ Min(S) <= MaxWait
    BY <2>2, <2>4
  <2>6. WaitFor = IF Retry >= Min(S) THEN Retry ELSE Min(S)
    BY <1>1, <2>3, <2>5, MaxOfTwo
  <2>7. \A p \in Peers : Min(S) <= Half - entries[p]
    BY <2>2, <2>4
  <2> QED  BY <1>1, <1>2, <1>4, <2>5, <2>6, <2>7
<1> QED  BY <1>3, <1>4

LEMMA PublishStoresMirror ==
    ASSUME MirrorInv, NEW t \in Threads, PublishStores(t)
    PROVE  MirrorInv'
<1> USE DEF MirrorInv
<1>1. /\ seen[t] # None /\ mu' = "free" /\ publishing' = publishing \ {t}
      /\ mirror' = IF Live(seen[t]) THEN MirrorOf(Listed(t)) ELSE NoMirror
      /\ seen' = [seen EXCEPT ![t] = None]
      /\ IF t = "peers" THEN rpc' = "pause" /\ wait' = WaitFor ELSE UNCHANGED <<rpc, wait>>
      /\ UNCHANGED <<up, served, own, entries, rp, spent, answer, reach, setting>>
  BY DEF PublishStores, env
<1>2. /\ TTL' = TTL /\ Ages' = Ages /\ Ever' = Ever /\ Fetch' = Fetch
      /\ Max({Retry, MaxWait})' = Max({Retry, MaxWait})
  BY <1>1, SameSetting
<1>3. /\ seen \in [Threads -> Ages \cup {None}] /\ entries \in [Peers -> Ages \cup {None}]
      /\ setting \in Settings /\ mu = t /\ TTL \in Nat /\ Ages = 0 .. TTL
  BY <1>1, SettingType DEF TypeOK, MuHeld, Ages
<1>4. /\ Listed(t) \in [Members -> Ages \cup {None}] /\ Listed(t)[Self] = seen[t]
  <2>1. \A n \in Members : n # Self => n \in Peers
    BY DEF Members
  <2>2. \A n \in Members : Listed(t)[n] \in Ages \cup {None}
    BY <1>3, <2>1 DEF Listed
  <2> QED  BY <2>2 DEF Listed, Members
<1>5. /\ mirror' \in [ages : [Members -> Ages \cup {None}], left : Ages]
      /\ \A n \in Members : mirror'.ages[n] # None => mirror'.left + mirror'.ages[n] <= TTL
      /\ Live(seen[t]) => mirror'.ages[Self] = seen[t]
  <2>1. CASE Live(seen[t])
    BY <1>1, <1>3, <1>4, <2>1, MirrorOfAges
  <2>2. CASE ~Live(seen[t])
    BY <1>1, <1>3, <2>2 DEF NoMirror
  <2> QED  BY <2>1, <2>2
<1>6. wait' \in 0 .. Max({Retry, MaxWait}) /\ rpc' \in {"pause", "look", "fetch", "publish"}
  <2>1. wait \in 0 .. Max({Retry, MaxWait}) /\ rpc \in {"pause", "look", "fetch", "publish"}
    BY DEF TypeOK
  <2> QED  BY <1>1, <1>3, <2>1, WaitForType
<1>7. TypeOK'
  <2>1. EnvType'
    BY <1>1, <1>2 DEF TypeOK, EnvType
  <2>2. CacheType'
    BY <1>1, <1>2, <1>3, <1>5 DEF TypeOK, CacheType
  <2>3. RefresherType'
    BY <1>1, <1>2, <1>6 DEF TypeOK, RefresherType
  <2> QED  BY <1>1, <1>3, <2>1, <2>2, <2>3 DEF TypeOK, EnvType, CacheType, RefresherType
<1>8. \A u \in Threads : seen'[u] = None
  BY <1>1, <1>3 DEF MuHeld
<1>9. MirrorLasts' /\ MuHeld'
  BY <1>1, <1>2, <1>5, <1>8 DEF MirrorLasts, MuHeld, Threads
<1>10. Fresh'
  <2>1. CASE SignPending
    BY <1>1, <1>8, <2>1 DEF Fresh, SignPending, Threads
  <2>2. CASE ~SignPending
    <3>1. seen[t] = own
      BY <1>1, <2>2 DEF Fresh
    <3> QED  BY <1>1, <1>2, <1>5, <1>8, <3>1 DEF Fresh, Live
  <2> QED  BY <2>1, <2>2
<1> QED  BY <1>7, <1>9, <1>10

\* sign: the new bundle is in service, and the signer has yet to publish it.
LEMMA SignMirror ==
    ASSUME MirrorInv, Sign
    PROVE  MirrorInv'
<1> USE DEF MirrorInv
<1>1. /\ "sign" \notin publishing /\ own' = 0 /\ publishing' = publishing \cup {"sign"}
      /\ UNCHANGED <<up, served, entries, mu, seen, mirror, rpc, rp, wait, spent, answer, reach,
                     setting>>
  BY DEF Sign, env, refresher
<1>2. /\ TTL' = TTL /\ Ages' = Ages /\ Ever' = Ever /\ Fetch' = Fetch
      /\ Max({Retry, MaxWait})' = Max({Retry, MaxWait})
  BY <1>1, SameSetting
<1>3. 0 \in Ages /\ "sign" \in Threads
  BY SettingType DEF TypeOK, Ages, Threads
<1>4. TypeOK'
  BY <1>1, <1>2, <1>3 DEF TypeOK
<1>5. MirrorLasts' /\ MuHeld'
  BY <1>1, <1>2 DEF MirrorLasts, MuHeld
<1>6. Fresh'
  BY <1>1, <1>3 DEF Fresh, SignPending, MuHeld
<1> QED  BY <1>4, <1>5, <1>6

LEMMA OlderAge ==
    ASSUME setting \in Settings, NEW a \in Ages \cup {None}
    PROVE  /\ Older(a) \in Ages \cup {None} /\ (Older(a) = None <=> a = None)
           /\ a # None => /\ a \in 0 .. TTL /\ a \in Int /\ Older(a) \in Ages
                          /\ Older(a) = IF a < TTL THEN a + 1 ELSE a
<1>1. TTL \in Nat
  BY SettingType
<1> QED  BY <1>1 DEF Older, Live, Ages, None

LEMMA TickMirror ==
    ASSUME MirrorInv, Tick
    PROVE  MirrorInv'
<1> USE DEF MirrorInv
<1>1. /\ rpc = "pause" \/ (rpc = "fetch" /\ spent < Fetch)
      /\ mu = "free" /\ publishing = {}
      /\ served' = [p \in Peers |-> Older(served[p])]
      /\ own' = Older(own)
      /\ entries' = [p \in Peers |-> Older(entries[p])]
      /\ mirror' = [ages |-> [n \in Members |-> Older(mirror.ages[n])],
                    left |-> Max({0, mirror.left - 1})]
      /\ wait' = Max({0, wait - 1})
      /\ spent' = IF rpc = "fetch" THEN spent + 1 ELSE spent
      /\ answer' = Older(answer)
      /\ reach' = [p \in Peers |-> IF up[p] THEN Min({Ever, reach[p] + 1}) ELSE 0]
      /\ UNCHANGED <<up, mu, seen, publishing, rpc, rp, setting>>
  BY DEF Tick
<1>2. /\ TTL' = TTL /\ Ages' = Ages /\ Ever' = Ever /\ Fetch' = Fetch
      /\ Max({Retry, MaxWait})' = Max({Retry, MaxWait})
  BY <1>1, SameSetting
<1>3. /\ TTL \in Nat /\ Fetch \in Nat /\ Retry \in Nat /\ MaxWait \in Nat /\ setting \in Settings
      /\ Ages = 0 .. TTL
  BY SettingType DEF TypeOK, Ages
<1>4. /\ \A p \in Peers : served[p] \in Ages /\ entries[p] \in Ages \cup {None}
      /\ \A n \in Members : mirror.ages[n] \in Ages \cup {None}
      /\ own \in Ages /\ answer \in Ages \cup {None} /\ mirror.left \in Ages
  BY DEF TypeOK
<1>5. /\ served' \in [Peers -> Ages] /\ own' \in Ages /\ answer' \in Ages \cup {None}
      /\ entries' \in [Peers -> Ages \cup {None}]
  <2>1. \A a \in Ages : a # None
    BY <1>3 DEF None
  <2>2. \A a \in Ages : Older(a) \in Ages
    BY <1>3, <2>1, OlderAge
  <2>3. \A a \in Ages \cup {None} : Older(a) \in Ages \cup {None}
    BY <1>3, OlderAge
  <2> QED  BY <1>1, <1>4, <2>2, <2>3
<1>6. /\ Max({0, mirror.left - 1}) = IF mirror.left > 0 THEN mirror.left - 1 ELSE 0
      /\ Max({0, mirror.left - 1}) \in Ages
  <2>1. mirror.left \in Int /\ 0 <= mirror.left /\ mirror.left <= TTL
    BY <1>3, <1>4
  <2>2. Max({0, mirror.left - 1}) = IF 0 >= mirror.left - 1 THEN 0 ELSE mirror.left - 1
    BY <2>1, MaxOfTwo
  <2> QED  BY <1>3, <2>1, <2>2
<1>7. [n \in Members |-> Older(mirror.ages[n])] \in [Members -> Ages \cup {None}]
  BY <1>3, <1>4, OlderAge
<1>8. wait' \in 0 .. Max({Retry, MaxWait})
  <2>1. Max({Retry, MaxWait}) = IF Retry >= MaxWait THEN Retry ELSE MaxWait
    BY <1>3, MaxOfTwo
  <2>2. wait \in 0 .. Max({Retry, MaxWait})
    BY DEF TypeOK
  <2>3. wait \in Int
    BY <1>3, <2>1, <2>2
  <2>4. wait' = IF 0 >= wait - 1 THEN 0 ELSE wait - 1
    BY <1>1, <2>3, MaxOfTwo
  <2> QED  BY <1>3, <2>1, <2>2, <2>4
<1>9. reach' \in [Peers -> 0 .. Ever]
  <2>1. Ever \in Nat
    BY <1>3, PeerAssumption DEF Ever, Within
  <2>2. ASSUME NEW p \in Peers PROVE Min({Ever, reach[p] + 1}) \in 0 .. Ever
    <3>1. reach[p] \in Nat
      BY <2>1 DEF TypeOK
    <3>2. Min({Ever, reach[p] + 1}) = IF Ever <= reach[p] + 1 THEN Ever ELSE reach[p] + 1
      BY <2>1, <3>1, MinOfTwo
    <3> QED  BY <2>1, <3>1, <3>2
  <2> QED  BY <1>1, <2>1, <2>2
<1>10. spent' \in 0 .. Fetch
  BY <1>1, <1>3 DEF TypeOK
<1>11. TypeOK'
  <2>1. EnvType'
    BY <1>1, <1>2, <1>5, <1>9 DEF TypeOK, EnvType
  <2>2. CacheType'
    BY <1>1, <1>2, <1>6, <1>7 DEF TypeOK, CacheType
  <2>3. RefresherType'
    BY <1>1, <1>2, <1>5, <1>8, <1>10 DEF TypeOK, RefresherType
  <2> QED  BY <1>1, <1>3, <2>1, <2>2, <2>3 DEF TypeOK, EnvType, CacheType, RefresherType
<1>12. MirrorLasts'
  <2>1. ASSUME NEW n \in Members, mirror'.ages[n] # None
        PROVE  mirror'.left + mirror'.ages[n] <= TTL
    <3> DEFINE a == mirror.ages[n]
               l == mirror.left
    <3>1. mirror'.ages[n] = Older(a) /\ a \in Ages \cup {None}
      BY <1>1, <1>4
    <3>2. a # None
      BY <1>3, <2>1, <3>1, OlderAge
    <3>3. l + a <= TTL /\ l \in 0 .. TTL
      BY <1>3, <1>4, <3>2 DEF MirrorLasts
    <3>4. a \in 0 .. TTL /\ Older(a) = IF a < TTL THEN a + 1 ELSE a
      BY <1>3, <3>1, <3>2, OlderAge
    <3>5. mirror'.left = IF l > 0 THEN l - 1 ELSE 0
      BY <1>1, <1>6
    <3> HIDE DEF a, l
    <3> QED  BY <1>3, <3>1, <3>3, <3>4, <3>5
  <2> QED  BY <1>2, <2>1 DEF MirrorLasts
<1>13. MuHeld'
  BY <1>1 DEF MuHeld
<1>14. Fresh'
  <2>1. \A t \in Threads : seen[t] = None
    BY <1>1 DEF MuHeld
  <2>2. Live(own) => mirror.ages[Self] = own
    BY <1>1 DEF Fresh, SignPending
  <2>3. Live(own)' => Live(own)
    <3>1. own \in Int /\ own # None /\ Older(own) = IF own < TTL THEN own + 1 ELSE own
      BY <1>3, <1>4, OlderAge DEF None
    <3> QED  BY <1>1, <1>2, <1>3, <3>1 DEF Live
  <2>4. mirror'.ages[Self] = Older(mirror.ages[Self])
    BY <1>1 DEF Members
  <2> QED  BY <1>1, <2>1, <2>2, <2>3, <2>4 DEF Fresh
<1> QED  BY <1>11, <1>12, <1>13, <1>14

LEMMA NextPeerType ==
    ASSUME MirrorInv, NextPeer, UNCHANGED <<up, served, own, reach, setting>>,
           entries' \in [Peers -> Ages \cup {None}]
    PROVE  MirrorInv'
<1>1. /\ TTL' = TTL /\ Ages' = Ages /\ Ever' = Ever /\ Fetch' = Fetch
      /\ Max({Retry, MaxWait})' = Max({Retry, MaxWait})
  BY SameSetting
<1>2. EnvType'
  BY <1>1 DEF MirrorInv, TypeOK, EnvType
<1>3. P \in Nat \ {0} /\ Fetch \in Nat /\ rp \in 1 .. P
  BY SettingType DEF MirrorInv, TypeOK, Peers
<1>4. /\ rp' \in Peers /\ rpc' \in {"look", "publish"} /\ spent' = 0 /\ answer' = None
      /\ publishing \subseteq publishing' /\ publishing' \subseteq Threads
      /\ UNCHANGED <<wait, mu, seen, mirror>>
  BY <1>3 DEF NextPeer, More, Peers, MirrorInv, TypeOK, Threads
<1>5. RefresherType'
  BY <1>1, <1>3, <1>4 DEF MirrorInv, TypeOK, RefresherType
<1> QED  BY <1>2, <1>4, <1>5, QuietMirror

\* The steps of the refresher, of a request and of the peers.
LEMMA OthersMirror ==
    ASSUME MirrorInv,
           Refresh \/ Request \/ \E p \in Peers : PeerSigns(p) \/ Down(p) \/ Up(p)
    PROVE  MirrorInv'
<1>1. /\ UNCHANGED setting =>
           /\ TTL' = TTL /\ Ages' = Ages /\ Ever' = Ever /\ Fetch' = Fetch
           /\ Max({Retry, MaxWait})' = Max({Retry, MaxWait})
      /\ TypeOK /\ EnvType /\ RefresherType /\ TTL \in Nat /\ Fetch \in Nat
      /\ 0 \in Ages /\ 0 \in 0 .. Fetch
  BY SameSetting, TypeParts, SettingType DEF MirrorInv, Ages
<1>2. CASE Skip
  BY <1>1, <1>2, NextPeerType DEF Skip, env, TypeOK
<1>3. CASE FetchFails
  BY <1>1, <1>3, NextPeerType DEF FetchFails, env, TypeOK
<1>4. CASE Store
  <2>1. entries' \in [Peers -> Ages \cup {None}]
    BY <1>1, <1>4 DEF Store, TypeOK
  <2> QED  BY <1>4, <2>1, NextPeerType DEF Store, env
<1>5. CASE Ask
  <2>1. /\ UNCHANGED <<up, served, own, entries, mu, seen, publishing, mirror, rp, wait, reach,
                       setting>>
        /\ rpc' = "fetch" /\ spent' = 0 /\ answer' = None
    BY <1>5 DEF Ask, env, cache
  <2>2. EnvType' /\ RefresherType' /\ publishing' \subseteq Threads
    BY <1>1, <2>1 DEF EnvType, RefresherType, TypeOK
  <2> QED  BY <2>1, <2>2, QuietMirror
<1>6. CASE PeerAnswers
  <2>1. /\ UNCHANGED <<up, served, own, entries, mu, seen, publishing, mirror, rpc, rp, wait,
                       spent, reach, setting>>
        /\ answer' = served[rp]
    BY <1>6 DEF PeerAnswers, env, cache
  <2>2. EnvType' /\ RefresherType' /\ publishing' \subseteq Threads
    BY <1>1, <2>1 DEF EnvType, RefresherType, TypeOK
  <2> QED  BY <2>1, <2>2, QuietMirror
<1>7. CASE Wake
  <2>1. /\ UNCHANGED <<up, served, own, entries, mu, seen, publishing, mirror, rp, wait, spent,
                       answer, reach, setting>>
        /\ rpc' = "look"
    BY <1>7 DEF Wake, env, cache
  <2>2. EnvType' /\ RefresherType' /\ publishing' \subseteq Threads
    BY <1>1, <2>1 DEF EnvType, RefresherType, TypeOK
  <2> QED  BY <2>1, <2>2, QuietMirror
<1>8. CASE Request
  <2>1. /\ UNCHANGED <<up, served, own, entries, mu, seen, mirror, rpc, rp, wait, spent,
                       answer, reach, setting>>
        /\ publishing' = publishing \cup {"serve"}
    BY <1>8 DEF Request, env, refresher
  <2>2. EnvType' /\ RefresherType' /\ publishing' \subseteq Threads
    BY <1>1, <2>1 DEF EnvType, RefresherType, TypeOK, Threads
  <2> QED  BY <2>1, <2>2, QuietMirror
<1>9. ASSUME NEW p \in Peers, PeerSigns(p) \/ Down(p) \/ Up(p)
      PROVE  MirrorInv'
  <2>1. UNCHANGED <<own, entries, mu, seen, publishing, mirror, rpc, rp, wait, spent, answer,
                    setting>>
    BY <1>9 DEF PeerSigns, Down, Up, cache, refresher
  <2>2. up' \in [Peers -> BOOLEAN] /\ served' \in [Peers -> Ages] /\ reach' \in [Peers -> 0 .. Ever]
    <3>1. up \in [Peers -> BOOLEAN] /\ served \in [Peers -> Ages] /\ reach \in [Peers -> 0 .. Ever]
          /\ 0 \in 0 .. Ever
      BY <1>1, SettingType, PeerAssumption DEF TypeOK, Ever, Within
    <3>2. CASE PeerSigns(p)
      BY <1>1, <3>1, <3>2 DEF PeerSigns
    <3>3. CASE Down(p)
      BY <1>1, <3>1, <3>3 DEF Down
    <3>4. CASE Up(p)
      BY <1>1, <3>1, <3>4 DEF Up
    <3> QED  BY <1>9, <3>2, <3>3, <3>4
  <2>3. EnvType' /\ RefresherType' /\ publishing' \subseteq Threads
    BY <1>1, <2>1, <2>2 DEF EnvType, RefresherType, TypeOK
  <2> QED  BY <2>1, <2>3, QuietMirror
<1> QED  BY <1>2, <1>3, <1>4, <1>5, <1>6, <1>7, <1>8, <1>9 DEF Refresh

-----------------------------------------------------------------------------
(* The refresher's rounds. *)

\* Sums of fetches.
LEMMA FetchesSum ==
    ASSUME setting \in Settings
    PROVE  /\ Fetches(0) = 0
           /\ \A n \in Nat : Fetches(n) \in Nat /\ Fetches(n + 1) = Fetches(n) + Fetch
           /\ \A n, m, k \in Nat : n + m = k => Fetches(n) + Fetches(m) = Fetches(k)
           /\ Within = Retry + Fetches(P) /\ Within \in Nat
           /\ InTime <=> Half + Check + Fetch + Within < TTL
<1>1. Fetch \in Nat /\ Retry \in Nat /\ Half \in Nat /\ Check \in Nat /\ TTL \in Nat /\ P \in Nat
  BY SettingType
<1>2. Fetches(0) = 0
  BY <1>1 DEF Fetches
<1>3. \A n \in Nat : Fetches(n) \in Nat /\ Fetches(n + 1) = Fetches(n) + Fetch
  BY <1>1 DEF Fetches
<1>4. \A n, m, k \in Nat : n + m = k => Fetches(n) + Fetches(m) = Fetches(k)
  BY <1>1 DEF Fetches
<1>5. Within = Retry + Fetches(P)
  BY DEF Within, Fetches
<1>6. Fetches(P) \in Nat /\ (P + 1) * Fetch = Fetches(P) + Fetch
  BY <1>1, <1>3 DEF Fetches
<1>7. InTime <=> Half + Check + Fetch + Within < TTL
  BY <1>1, <1>5, <1>6 DEF InTime
<1>8. Within \in Nat
  BY <1>1, <1>5, <1>6
<1> QED  BY <1>2, <1>3, <1>4, <1>5, <1>7, <1>8

LEMMA SameFetches ==
    ASSUME UNCHANGED setting, NEW n
    PROVE  Fetches(n)' = Fetches(n)
BY SameSetting DEF Fetches

\* What the arithmetic below needs to know of the state.
LEMMA PeerNumbers ==
    ASSUME MirrorInv, NEW p \in Peers
    PROVE  /\ p \in Nat /\ 1 <= p /\ p <= P /\ rp \in Nat /\ 1 <= rp /\ rp <= P /\ P \in Nat
           /\ spent \in Nat /\ spent <= Fetch /\ wait \in Nat /\ reach[p] \in Nat
           /\ entries[p] # None => entries[p] \in Nat /\ entries[p] <= TTL
           /\ answer # None => answer \in Nat
           /\ TTL \in Nat /\ Half \in Nat /\ Check \in Nat /\ Fetch \in Nat /\ Retry \in Nat
           /\ Skew \in Nat /\ Fetch <= Skew
           /\ rpc \in {"pause", "look", "fetch", "publish"}
<1>1. setting \in Settings /\ rpc \in {"pause", "look", "fetch", "publish"}
  BY DEF MirrorInv, TypeOK
<1>2. /\ TTL \in Nat /\ Half \in Nat /\ Check \in Nat /\ Fetch \in Nat /\ Retry \in Nat
      /\ Skew \in Nat /\ Fetch <= Skew /\ P \in Nat /\ MaxWait \in Nat
  BY <1>1, SettingType
<1>3. Ages = 0 .. TTL /\ Ever \in Nat
  BY <1>2, PeerAssumption DEF Ages, Ever, Within
<1>4. Max({Retry, MaxWait}) \in Nat
  BY <1>2, MaxOfTwo
<1>5. spent \in 0 .. Fetch /\ wait \in 0 .. Max({Retry, MaxWait}) /\ reach[p] \in 0 .. Ever
      /\ entries[p] \in Ages \cup {None} /\ answer \in Ages \cup {None} /\ rp \in 1 .. P
      /\ p \in 1 .. P
  BY DEF MirrorInv, TypeOK, Peers
<1> QED  BY <1>1, <1>2, <1>3, <1>4, <1>5

LEMMA RemainingType ==
    ASSUME MirrorInv, NEW p \in Peers
    PROVE  Remaining(p) \in Int
<1>1. /\ p \in Nat /\ rp \in Nat /\ rp <= P /\ P \in Nat /\ spent \in Nat /\ wait \in Nat
      /\ Retry \in Nat
  BY PeerNumbers
<1>2. \A n \in Nat : Fetches(n) \in Nat
  BY FetchesSum DEF MirrorInv, TypeOK
<1>3. P - rp + 1 \in Nat /\ (rp <= p => p - rp + 1 \in Nat)
  BY <1>1
<1>4. Fetches(p) \in Int /\ (rp <= p => Fetches(p - rp + 1) \in Int) /\ Fetches(P - rp + 1) \in Int
  BY <1>1, <1>2, <1>3
<1> QED  BY <1>1, <1>4 DEF Remaining, Ahead

\* A step that leaves the refresher and the entries alone.
LEMMA QuietHeld ==
    ASSUME MirrorInv, HeldInv, UNCHANGED <<rpc, rp, wait, spent, answer, entries, setting>>,
           "peers" \in publishing' => "peers" \in publishing,
           \A p \in Peers : reach'[p] = reach[p] \/ reach'[p] = 0, InReach'
    PROVE  HeldInv'
<1>1. /\ TTL' = TTL /\ Half' = Half /\ Check' = Check /\ Within' = Within /\ Retry' = Retry
      /\ (InTime' <=> InTime)
  BY SameSetting
<1>2. \A p \in Peers : Due(p)' <=> Due(p)
  BY <1>1 DEF Due
<1>3. Round'
  <2>1. rp \in Peers
    BY DEF MirrorInv, TypeOK
  <2>2. Due(rp)' <=> Due(rp)
    BY <1>1 DEF Due
  <2> QED  BY <1>1, <2>2 DEF HeldInv, Round
<1>4. ASSUME InTime, NEW p \in Peers PROVE Covered(p)'
  <2>1. Covered(p)
    BY <1>4 DEF HeldInv
  <2>2. \A n : Fetches(n)' = Fetches(n)
    BY SameFetches
  <2>3. Remaining(p)' = Remaining(p) /\ (Past(p)' <=> Past(p)) /\ (Due(p)' <=> Due(p))
    BY <1>1, <2>2, <1>2 DEF Remaining, Ahead, Past
  <2>4. Remaining(p) \in Int
    BY RemainingType
  <2>5. reach[p] \in Nat /\ reach'[p] \in Nat /\ reach'[p] <= reach[p] /\ Within \in Nat
    <3>1. reach[p] \in Nat /\ setting \in Settings
      BY PeerNumbers DEF MirrorInv, TypeOK
    <3>2. Within \in Nat
      BY <3>1, FetchesSum
    <3> QED  BY <3>1, <3>2
  <2>6. CASE entries[p] # None /\ entries[p] + Remaining(p) < TTL
    BY <1>1, <2>3, <2>6 DEF Covered
  <2>7. CASE reach[p] + Remaining(p) <= Within /\ (Past(p) => Due(p))
    <3>1. reach'[p] + Remaining(p)' <= Within'
      BY <1>1, <2>3, <2>4, <2>5, <2>7
    <3> QED  BY <2>3, <2>7, <3>1 DEF Covered
  <2> QED  BY <2>1, <2>6, <2>7 DEF Covered
<1> QED  BY <1>1, <1>3, <1>4 DEF HeldInv

\* The bundle of a peer whose entry or whose reach does not change is covered as
\* long as before, if the refresher does not come to it later.
LEMMA StillCovered ==
    ASSUME MirrorInv, NEW p \in Peers, Covered(p), UNCHANGED <<reach, setting>>,
           entries'[p] = entries[p], Remaining(p)' \in Int, Remaining(p)' <= Remaining(p),
           Past(p)' => Past(p)
    PROVE  Covered(p)'
<1>1. TTL' = TTL /\ Half' = Half /\ Within' = Within /\ Within \in Nat
  BY SameSetting, FetchesSum DEF MirrorInv, TypeOK
<1>2. Due(p)' <=> Due(p)
  BY <1>1 DEF Due
<1>3. /\ reach[p] \in Nat /\ TTL \in Nat /\ Remaining(p) \in Int
      /\ entries[p] # None => entries[p] \in Nat
  BY PeerNumbers, RemainingType
<1>4. CASE entries[p] # None /\ entries[p] + Remaining(p) < TTL
  <2>1. entries'[p] + Remaining(p)' < TTL'
    BY <1>1, <1>3, <1>4
  <2> QED  BY <1>4, <2>1 DEF Covered
<1>5. CASE reach[p] + Remaining(p) <= Within /\ (Past(p) => Due(p))
  <2>1. reach'[p] + Remaining(p)' <= Within'
    BY <1>1, <1>3, <1>5
  <2> QED  BY <1>2, <1>5, <2>1 DEF Covered
<1> QED  BY <1>4, <1>5 DEF Covered

\* The refresher goes on to the next peer: it comes to the others no later, and
\* to the one it leaves within Within.
LEMMA NextPeerRemaining ==
    ASSUME MirrorInv, rpc \in {"look", "fetch"}, NextPeer, UNCHANGED setting, NEW p \in Peers
    PROVE  /\ Remaining(p)' \in Int
           /\ p = rp => Remaining(p)' = Within
           /\ p # rp => Remaining(p)' <= Remaining(p) /\ (Past(p)' => Past(p))
<1>1. /\ p \in Nat /\ 1 <= p /\ p <= P /\ rp \in Nat /\ 1 <= rp /\ rp <= P /\ P \in Nat
      /\ spent \in Nat /\ spent <= Fetch /\ Fetch \in Nat /\ Retry \in Nat
  BY PeerNumbers
<1>2. /\ \A n \in Nat : Fetches(n) \in Nat /\ Fetches(n + 1) = Fetches(n) + Fetch
      /\ \A n, m, k \in Nat : n + m = k => Fetches(n) + Fetches(m) = Fetches(k)
      /\ Within = Retry + Fetches(P) /\ Within \in Nat /\ Fetches(P) \in Nat
  BY <1>1, FetchesSum DEF MirrorInv, TypeOK
<1>3. (\A n : Fetches(n)' = Fetches(n)) /\ Retry' = Retry
  BY SameFetches, SameSetting
<1> DEFINE s == IF rpc = "fetch" THEN spent ELSE 0
<1>4. s \in Nat /\ s <= Fetch
  BY <1>1
<1>5. Remaining(p) = IF rp <= p THEN Fetches(p - rp + 1) - s
                     ELSE Fetches(P - rp + 1) - s + Retry + Fetches(p)
  BY DEF Remaining, Ahead
<1> HIDE DEF s
<1>6. CASE rp < P
  <2>1. rp' = rp + 1 /\ rpc' = "look"
    BY <1>6 DEF NextPeer, More
  <2>2. Remaining(p)' = IF rp + 1 <= p THEN Fetches(p - (rp + 1) + 1)
                        ELSE Fetches(P - (rp + 1) + 1) + Retry + Fetches(p)
    <3>1. Remaining(p)' = IF rp' <= p THEN (p - rp' + 1) * Fetch' - 0
                          ELSE (P - rp' + 1) * Fetch' - 0 + Retry' + p * Fetch'
      BY <2>1 DEF Remaining, Ahead, Fetches
    <3>2. Fetch' = Fetch
      BY SameSetting
    <3>5. Remaining(p)' = IF rp + 1 <= p THEN (p - (rp + 1) + 1) * Fetch - 0
                          ELSE (P - (rp + 1) + 1) * Fetch - 0 + Retry + p * Fetch
      BY <1>3, <2>1, <3>1, <3>2
    <3>6. Remaining(p)' = IF rp + 1 <= p THEN Fetches(p - (rp + 1) + 1) - 0
                          ELSE Fetches(P - (rp + 1) + 1) - 0 + Retry + Fetches(p)
      BY <3>5 DEF Fetches
    <3>3. P - (rp + 1) + 1 \in Nat /\ (rp + 1 <= p => p - (rp + 1) + 1 \in Nat)
      BY <1>1, <1>6
    <3>4. Fetches(P - (rp + 1) + 1) \in Nat /\ (rp + 1 <= p => Fetches(p - (rp + 1) + 1) \in Nat)
      BY <1>2, <3>3
    <3> QED  BY <1>1, <3>4, <3>6
  <2>3. P - (rp + 1) + 1 = P - rp /\ p - (rp + 1) + 1 = p - rp /\ P - rp \in Nat
    BY <1>1
  <2>4. Fetches(P - rp) \in Nat /\ Fetches(P - rp + 1) = Fetches(P - rp) + Fetch /\ Fetches(p) \in Nat
    BY <1>1, <1>2, <2>3
  <2>5. CASE p = rp
    <3>1. P - rp + p = P
      BY <1>1, <2>5
    <3>2. Fetches(P - rp) + Fetches(p) = Fetches(P)
      <4> DEFINE d == P - rp
      <4>1. d \in Nat /\ p \in Nat /\ P \in Nat /\ d + p = P
        BY <1>1, <2>3, <3>1
      <4> HIDE DEF d
      <4>2. Fetches(d) + Fetches(p) = Fetches(P)
        BY <1>2, <4>1
      <4> QED  BY <4>2 DEF d
    <3>3. Remaining(p)' = Fetches(P - rp) + Retry + Fetches(p)
      BY <1>1, <2>2, <2>3, <2>5
    <3> QED  BY <1>1, <1>2, <2>4, <2>5, <3>2, <3>3
  <2>6. CASE p > rp
    <3>1. p - rp \in Nat /\ rp + 1 <= p /\ rp <= p /\ p # rp
      BY <1>1, <2>6
    <3>2. Fetches(p - rp) \in Nat /\ Fetches(p - rp + 1) = Fetches(p - rp) + Fetch
      BY <1>2, <3>1
    <3>3. Remaining(p)' = Fetches(p - rp) /\ Remaining(p) = Fetches(p - rp + 1) - s
      BY <1>5, <2>2, <2>3, <3>1
    <3>4. ~Past(p)'
      BY <1>1, <2>1, <3>1 DEF Past
    <3> QED  BY <1>1, <1>4, <3>1, <3>2, <3>3, <3>4
  <2>7. CASE p < rp
    <3>1. ~(rp <= p) /\ ~(rp + 1 <= p) /\ p # rp
      BY <1>1, <2>7
    <3>2. /\ Remaining(p)' = Fetches(P - rp) + Retry + Fetches(p)
          /\ Remaining(p) = Fetches(P - rp + 1) - s + Retry + Fetches(p)
      BY <1>5, <2>2, <2>3, <3>1
    <3>3. Past(p)
      BY <2>7 DEF Past
    <3> QED  BY <1>1, <1>4, <2>4, <3>1, <3>2, <3>3
  <2> QED  BY <1>1, <2>5, <2>6, <2>7
<1>7. CASE rp = P
  <2>1. rpc' = "publish"
    BY <1>1, <1>7 DEF NextPeer, More
  <2>2. Remaining(p)' = Retry + Fetches(p)
    BY <1>3, <2>1 DEF Remaining
  <2>3. Fetches(p) \in Nat
    BY <1>1, <1>2
  <2>4. ASSUME p # rp PROVE Remaining(p)' <= Remaining(p) /\ Past(p)
    <3>1. p < rp /\ ~(rp <= p) /\ P - rp + 1 = 1 /\ 1 \in Nat /\ 0 \in Nat /\ 0 + 1 = 1
      BY <1>1, <1>7, <2>4
    <3>2. Fetches(1) = Fetches(0) + Fetch /\ Fetches(0) \in Nat
      BY <1>2, <3>1
    <3>3. Remaining(p) = Fetches(1) - s + Retry + Fetches(p)
      BY <1>5, <3>1
    <3>4. Past(p)
      BY <3>1 DEF Past
    <3> QED  BY <1>1, <1>4, <2>2, <2>3, <3>2, <3>3, <3>4
  <2>5. ASSUME p = rp PROVE Remaining(p)' = Within
    <3>1. p = P
      BY <1>7, <2>5
    <3> QED  BY <1>2, <2>2, <3>1
  <2>6. Remaining(p)' \in Int
    BY <1>1, <2>2, <2>3
  <2> QED  BY <2>4, <2>5, <2>6
<1> QED  BY <1>1, <1>6, <1>7

\* A round goes on: what is left to show is that the peer it leaves is covered.
LEMMA NextPeerHeld ==
    ASSUME MirrorInv, HeldInv, rpc \in {"look", "fetch"}, NextPeer,
           UNCHANGED <<up, served, reach, setting>>,
           \A p \in Peers : p # rp => entries'[p] = entries[p],
           InTime => \A p \in Peers : p = rp /\ Remaining(p)' = Within => Covered(p)'
    PROVE  HeldInv'
<1>1. /\ TTL' = TTL /\ Half' = Half /\ Check' = Check /\ (InTime' <=> InTime)
  BY SameSetting
<1>2. Round'
  BY DEF HeldInv, Round, NextPeer, None
<1>3. InReach'
  BY <1>1 DEF HeldInv, InReach
<1>4. ASSUME InTime, NEW p \in Peers PROVE Covered(p)'
  <2>1. /\ Remaining(p)' \in Int
        /\ p = rp => Remaining(p)' = Within
        /\ p # rp => Remaining(p)' <= Remaining(p) /\ (Past(p)' => Past(p))
    BY NextPeerRemaining
  <2>2. CASE p = rp
    BY <1>4, <2>1, <2>2
  <2>3. CASE p # rp
    BY <1>4, <2>1, <2>3, StillCovered DEF HeldInv
  <2> QED  BY <2>2, <2>3
<1> QED  BY <1>1, <1>2, <1>3, <1>4 DEF HeldInv

\* Not due yet: the next round comes in time.
LEMMA SkipHeld ==
    ASSUME MirrorInv, HeldInv, Skip
    PROVE  HeldInv'
<1>1. rpc = "look" /\ ~Due(rp) /\ NextPeer /\ UNCHANGED <<up, served, entries, reach, setting>>
  BY DEF Skip, env
<1>2. ASSUME InTime, NEW p \in Peers, p = rp, Remaining(p)' = Within
      PROVE  Covered(p)'
  <2>1. TTL' = TTL /\ Within \in Nat /\ Half + Check + Fetch + Within < TTL
    BY <1>1, <1>2, SameSetting, FetchesSum DEF MirrorInv, TypeOK
  <2>2. /\ Half \in Nat /\ Check \in Nat /\ Fetch \in Nat /\ TTL \in Nat
        /\ entries[p] # None => entries[p] \in Nat
    BY PeerNumbers
  <2>3. entries[p] # None /\ entries[p] < Half
    BY <1>1, <1>2, <2>2 DEF Due
  <2>4. entries'[p] + Remaining(p)' < TTL'
    BY <1>1, <1>2, <2>1, <2>2, <2>3
  <2> QED  BY <1>1, <2>3, <2>4 DEF Covered
<1> QED  BY <1>1, <1>2, NextPeerHeld

\* A peer out of reach: it has to wait for the next round once it is back.
LEMMA FetchFailsHeld ==
    ASSUME MirrorInv, HeldInv, FetchFails
    PROVE  HeldInv'
<1>1. rpc = "fetch" /\ ~up[rp] /\ NextPeer /\ UNCHANGED <<up, served, entries, reach, setting>>
  BY DEF FetchFails, env
<1>2. ASSUME InTime, NEW p \in Peers, p = rp, Remaining(p)' = Within
      PROVE  Covered(p)'
  <2>1. Within' = Within /\ Within \in Nat /\ Half' = Half
    BY <1>1, SameSetting, FetchesSum DEF MirrorInv, TypeOK
  <2>2. reach[p] = 0 /\ Due(p)
    BY <1>1, <1>2 DEF HeldInv, InReach, Round
  <2>3. Due(p)'
    BY <1>1, <2>1, <2>2 DEF Due
  <2>4. reach'[p] + Remaining(p)' <= Within'
    BY <1>1, <1>2, <2>1, <2>2
  <2> QED  BY <2>3, <2>4 DEF Covered
<1> QED  BY <1>1, <1>2, NextPeerHeld

\* What a peer answers with verifies, and lasts until the round after the next.
LEMMA StoreHeld ==
    ASSUME MirrorInv, HeldInv, Store
    PROVE  HeldInv'
<1>1. /\ rpc = "fetch" /\ answer # None /\ NextPeer /\ UNCHANGED <<up, served, reach, setting>>
      /\ entries' = IF Verifies THEN [entries EXCEPT ![rp] = answer] ELSE entries
  BY DEF Store, env
<1>2. \A p \in Peers : p # rp => entries'[p] = entries[p]
  BY <1>1 DEF MirrorInv, TypeOK
<1>3. ASSUME InTime, NEW p \in Peers, p = rp, Remaining(p)' = Within
      PROVE  Covered(p)'
  <2>1. TTL' = TTL /\ Within \in Nat /\ Half + Check + Fetch + Within < TTL
    BY <1>1, <1>3, SameSetting, FetchesSum DEF MirrorInv, TypeOK
  <2>2. /\ Half \in Nat /\ Check \in Nat /\ Fetch \in Nat /\ TTL \in Nat /\ Skew \in Nat
        /\ Fetch <= Skew /\ spent \in Nat /\ spent <= Fetch /\ answer \in Nat
    BY <1>1, PeerNumbers
  <2>3. answer <= Half + Check + spent
    BY <1>1 DEF HeldInv, Round
  <2>4. Verifies
    BY <2>2 DEF Verifies
  <2>5. entries'[p] = answer
    BY <1>1, <1>3, <2>4 DEF MirrorInv, TypeOK
  <2>6. entries'[p] + Remaining(p)' < TTL'
    BY <1>3, <2>1, <2>2, <2>3, <2>5
  <2> QED  BY <1>1, <2>5, <2>6 DEF Covered
<1> QED  BY <1>1, <1>2, <1>3, NextPeerHeld

LEMMA AskHeld ==
    ASSUME MirrorInv, HeldInv, Ask
    PROVE  HeldInv'
<1>1. /\ rpc = "look" /\ Due(rp) /\ rpc' = "fetch" /\ spent' = 0 /\ answer' = None
      /\ UNCHANGED <<up, served, entries, publishing, rp, wait, reach, setting>>
  BY DEF Ask, env, cache
<1>2. /\ TTL' = TTL /\ Half' = Half /\ Check' = Check /\ Retry' = Retry /\ (InTime' <=> InTime)
  BY <1>1, SameSetting
<1>3. Due(rp)'
  BY <1>1, <1>2 DEF Due
<1>4. Round' /\ InReach'
  BY <1>1, <1>2, <1>3 DEF HeldInv, Round, InReach
<1>5. ASSUME InTime, NEW p \in Peers PROVE Covered(p)'
  <2>1. \A n : Fetches(n)' = Fetches(n)
    BY <1>1, SameFetches
  <2>2. Remaining(p)' = Remaining(p)
    BY <1>1, <1>2, <2>1 DEF Remaining, Ahead
  <2>3. Remaining(p) \in Int /\ (Past(p)' => Past(p))
    BY <1>1, RemainingType DEF Past
  <2>4. Covered(p) /\ Remaining(p)' <= Remaining(p)
    BY <1>5, <2>2, <2>3 DEF HeldInv
  <2> QED  BY <1>1, <2>2, <2>3, <2>4, StillCovered
<1> QED  BY <1>2, <1>4, <1>5 DEF HeldInv

\* The bundle a peer in reach has in service is signed again in time.
LEMMA PeerAnswersHeld ==
    ASSUME MirrorInv, HeldInv, PeerAnswers
    PROVE  HeldInv'
<1>1. /\ rpc = "fetch" /\ up[rp] /\ answer' = served[rp]
      /\ UNCHANGED <<up, served, entries, publishing, rpc, rp, wait, spent, reach, setting>>
  BY DEF PeerAnswers, env, cache
<1>2. /\ TTL' = TTL /\ Half' = Half /\ Check' = Check /\ Retry' = Retry /\ (InTime' <=> InTime)
  BY <1>1, SameSetting
<1>3. answer' <= Half + Check + spent
  <2>1. rp \in Peers /\ served \in [Peers -> Ages] /\ setting \in Settings
    BY DEF MirrorInv, TypeOK
  <2>2. TTL \in Nat /\ Half \in Nat /\ Check \in Nat /\ spent \in Nat
    BY <2>1, PeerNumbers
  <2>3. served[rp] \in Int /\ served[rp] <= Half + Check
    BY <1>1, <2>1, <2>2 DEF Ages, HeldInv, InReach
  <2> QED  BY <1>1, <2>2, <2>3
<1>4. Due(rp)' <=> Due(rp)
  BY <1>1, <1>2 DEF Due
<1>5. Round' /\ InReach'
  BY <1>1, <1>2, <1>3, <1>4 DEF HeldInv, Round, InReach
<1>6. ASSUME InTime, NEW p \in Peers PROVE Covered(p)'
  <2>1. \A n : Fetches(n)' = Fetches(n)
    BY <1>1, SameFetches
  <2>2. Remaining(p)' = Remaining(p)
    BY <1>1, <1>2, <2>1 DEF Remaining, Ahead
  <2>3. Remaining(p) \in Int /\ (Past(p)' => Past(p))
    BY <1>1, RemainingType DEF Past
  <2>4. Covered(p) /\ Remaining(p)' <= Remaining(p)
    BY <1>6, <2>2, <2>3 DEF HeldInv
  <2> QED  BY <1>1, <2>2, <2>3, <2>4, StillCovered
<1> QED  BY <1>2, <1>5, <1>6 DEF HeldInv

\* A round starts.
LEMMA WakeHeld ==
    ASSUME MirrorInv, HeldInv, Wake
    PROVE  HeldInv'
<1>1. /\ rpc = "pause" /\ wait = 0 /\ rpc' = "look" /\ rp = 1
      /\ UNCHANGED <<up, served, entries, publishing, rp, wait, spent, answer, reach, setting>>
  BY DEF Wake, env, cache, HeldInv, Round
<1>2. /\ TTL' = TTL /\ Half' = Half /\ Check' = Check /\ Retry' = Retry /\ (InTime' <=> InTime)
  BY <1>1, SameSetting
<1>3. Round' /\ InReach'
  BY <1>1, <1>2 DEF HeldInv, Round, InReach
<1>4. ASSUME InTime, NEW p \in Peers PROVE Covered(p)'
  <2>1. \A n : Fetches(n)' = Fetches(n)
    BY <1>1, SameFetches
  <2>2. p \in Nat /\ 1 <= p /\ p - 1 + 1 = p
    BY PeerNumbers
  <2>3. Fetches(p) \in Nat
    <3>1. \A n \in Nat : Fetches(n) \in Nat
      BY FetchesSum DEF MirrorInv, TypeOK
    <3> QED  BY <2>2, <3>1
  <2>4. Remaining(p)' = Fetches(p) - 0
    BY <1>1, <2>1, <2>2 DEF Remaining, Ahead
  <2>5. Remaining(p) = 0 + Fetches(p)
    BY <1>1 DEF Remaining
  <2>6. ~Past(p)'
    BY <1>1, <2>2 DEF Past
  <2>7. Covered(p) /\ Remaining(p)' <= Remaining(p) /\ Remaining(p)' \in Int
    BY <1>4, <2>3, <2>4, <2>5 DEF HeldInv
  <2> QED  BY <1>1, <2>6, <2>7, StillCovered
<1> QED  BY <1>2, <1>3, <1>4 DEF HeldInv

\* The pause is no longer than until the first entry is due, and no longer than
\* peerRetry when one is.
LEMMA PauseHeld ==
    ASSUME MirrorInv, HeldInv, PublishStores("peers")
    PROVE  HeldInv'
<1>1. /\ publishing' = publishing \ {"peers"} /\ rpc' = "pause" /\ wait' = WaitFor
      /\ UNCHANGED <<up, served, entries, rp, spent, answer, reach, setting>>
  BY DEF PublishStores, env
<1>2. rpc = "publish" /\ rp = 1 /\ answer = None
  BY DEF PublishStores, MirrorInv, MuHeld, Threads, HeldInv, Round
<1>3. /\ TTL' = TTL /\ Half' = Half /\ Check' = Check /\ Within' = Within /\ (InTime' <=> InTime)
  BY <1>1, SameSetting
<1>4. Round' /\ InReach'
  BY <1>1, <1>2, <1>3 DEF HeldInv, Round, InReach
<1>5. ASSUME InTime, NEW p \in Peers PROVE Covered(p)'
  <2>1. /\ p \in Nat /\ p <= P /\ P \in Nat /\ reach[p] \in Nat
        /\ entries[p] # None => entries[p] \in Nat
        /\ TTL \in Nat /\ Half \in Nat /\ Check \in Nat /\ Fetch \in Nat /\ Retry \in Nat
    BY PeerNumbers
  <2>2. /\ Fetches(p) \in Nat /\ Within = Retry + Fetches(P) /\ Within \in Nat
        /\ Fetches(P) \in Nat /\ Half + Check + Fetch + Within < TTL
        /\ Fetches(p) <= Fetches(P)
    <3> DEFINE d == P - p
    <3>1. d \in Nat /\ d + p = P
      BY <2>1
    <3> HIDE DEF d
    <3>2. /\ \A n \in Nat : Fetches(n) \in Nat
          /\ \A n, m, k \in Nat : n + m = k => Fetches(n) + Fetches(m) = Fetches(k)
          /\ Within = Retry + Fetches(P) /\ Within \in Nat
          /\ Half + Check + Fetch + Within < TTL
      BY <1>5, FetchesSum DEF MirrorInv, TypeOK
    <3>3. Fetches(d) + Fetches(p) = Fetches(P) /\ Fetches(d) \in Nat /\ Fetches(p) \in Nat
          /\ Fetches(P) \in Nat
      BY <2>1, <3>1, <3>2
    <3> QED  BY <3>2, <3>3
  <2>3. Remaining(p) = Retry + Fetches(p)
    BY <1>2 DEF Remaining
  <2>4. Remaining(p)' = wait' + Fetches(p)
    <3>1. Fetches(p)' = Fetches(p)
      BY <1>1, SameFetches
    <3> QED  BY <1>1, <3>1 DEF Remaining
  <2>5. /\ (\E q \in Peers : Due(q)) => wait' = Retry
        /\ ~Due(p) => wait' = Retry \/ wait' <= Half - entries[p]
        /\ wait' \in Int
    <3>1. setting \in Settings /\ entries \in [Peers -> Ages \cup {None}] /\ MaxWait \in Nat
      BY SettingType DEF MirrorInv, TypeOK
    <3>2. Max({Retry, MaxWait}) \in Int
      BY <2>1, <3>1, MaxOfTwo
    <3>3. WaitFor \in Int
      BY <3>1, <3>2, WaitForType
    <3> QED  BY <1>1, <3>1, <3>3, WaitForType
  <2>6. CASE wait' = Retry
    <3>1. Remaining(p)' = Remaining(p) /\ Remaining(p) \in Int
      BY <2>3, <2>4, <2>6, RemainingType
    <3>2. ~Past(p)'
      BY <1>1 DEF Past
    <3>3. Covered(p) /\ Remaining(p)' <= Remaining(p) /\ Remaining(p)' \in Int
      BY <1>5, <3>1 DEF HeldInv
    <3> QED  BY <1>1, <3>2, <3>3, StillCovered
  <2>7. CASE wait' # Retry
    <3>1. ~Due(p)
      BY <2>5, <2>7
    <3>2. entries[p] # None /\ wait' <= Half - entries[p]
      BY <2>5, <2>7, <3>1 DEF Due
    <3>3. entries'[p] + Remaining(p)' < TTL'
      BY <1>1, <1>3, <2>1, <2>2, <2>4, <2>5, <3>2
    <3> QED  BY <1>1, <3>2, <3>3 DEF Covered
  <2> QED  BY <2>6, <2>7
<1> QED  BY <1>3, <1>4, <1>5 DEF HeldInv

\* A second passes: whatever is awaited is one second nearer.
LEMMA TickHeld ==
    ASSUME MirrorInv, HeldInv, Tick
    PROVE  HeldInv'
<1>1. /\ (rpc = "pause" /\ wait > 0) \/ (rpc = "fetch" /\ spent < Fetch)
      /\ \A p \in Peers : up[p] => served[p] < Half + Check
      /\ served' = [p \in Peers |-> Older(served[p])]
      /\ entries' = [p \in Peers |-> Older(entries[p])]
      /\ wait' = Max({0, wait - 1})
      /\ spent' = IF rpc = "fetch" THEN spent + 1 ELSE spent
      /\ answer' = Older(answer)
      /\ reach' = [p \in Peers |-> IF up[p] THEN Min({Ever, reach[p] + 1}) ELSE 0]
      /\ UNCHANGED <<up, publishing, rpc, rp, setting>>
  BY DEF Tick
<1>2. /\ TTL' = TTL /\ Half' = Half /\ Check' = Check /\ Within' = Within /\ (InTime' <=> InTime)
      /\ Retry' = Retry
  BY <1>1, SameSetting
<1>3. /\ setting \in Settings /\ rp \in Peers /\ answer \in Ages \cup {None}
      /\ \A p \in Peers : entries[p] \in Ages \cup {None} /\ served[p] \in Ages
      /\ TTL \in Nat /\ Half \in Nat /\ Check \in Nat /\ Fetch \in Nat /\ Ages = 0 .. TTL
  BY SettingType DEF MirrorInv, TypeOK, Ages
<1>4. \A a \in Ages \cup {None} :
        /\ Older(a) = None <=> a = None
        /\ a # None => a \in Int /\ Older(a) \in Int /\ a <= Older(a) /\ Older(a) <= a + 1
  <2>1. ASSUME NEW a \in Ages \cup {None}, a # None
        PROVE  a \in Int /\ Older(a) \in Int /\ a <= Older(a) /\ Older(a) <= a + 1
    <3>1. a \in 0 .. TTL /\ Older(a) = IF a < TTL THEN a + 1 ELSE a
      BY <1>3, <2>1, OlderAge
    <3> QED  BY <1>3, <3>1
  <2> QED  BY <1>3, <2>1, OlderAge
<1>5. \A p \in Peers : Due(p) => entries'[p] = None \/ entries'[p] >= Half
  <2>1. ASSUME NEW p \in Peers, Due(p), entries[p] # None PROVE entries'[p] >= Half
    <3>1. /\ entries[p] \in Int /\ entries'[p] \in Int /\ entries[p] <= entries'[p]
      BY <1>1, <1>3, <1>4, <2>1
    <3>2. entries[p] >= Half
      BY <2>1 DEF Due
    <3> QED  BY <1>3, <3>1, <3>2
  <2>2. ASSUME NEW p \in Peers, entries[p] = None PROVE entries'[p] = None
    BY <1>1, <1>3, <1>4, <2>2
  <2> QED  BY <2>1, <2>2
<1>6. Round'
  <2>1. rpc = "fetch" => Due(rp)'
    <3>1. rpc = "fetch" => Due(rp)
      BY DEF HeldInv, Round
    <3> QED  BY <1>1, <1>2, <1>3, <1>5, <3>1 DEF Due
  <2>2. ASSUME answer' # None
        PROVE  rpc = "fetch" /\ answer' <= Half + Check + spent'
    <3>1. answer # None /\ answer \in Int /\ answer' \in Int /\ answer' <= answer + 1
      BY <1>1, <1>3, <1>4, <2>2
    <3>2. rpc = "fetch" /\ answer <= Half + Check + spent
      BY <3>1 DEF HeldInv, Round
    <3>3. spent' = spent + 1 /\ spent \in Nat
      BY <1>1, <1>3, <3>2, PeerNumbers
    <3> QED  BY <1>3, <3>1, <3>2, <3>3
  <2>3. /\ rpc' \in {"publish", "pause"} => rp' = 1
        /\ "peers" \in publishing' => rpc' = "publish"
    BY <1>1 DEF HeldInv, Round
  <2> QED  BY <1>1, <1>2, <2>1, <2>2, <2>3 DEF Round
<1>7. InReach'
  <2>1. ASSUME NEW p \in Peers, up'[p] PROVE served'[p] <= Half + Check
    <3>1. served[p] < Half + Check /\ served'[p] = Older(served[p]) /\ served[p] # None
      BY <1>1, <1>3, <2>1 DEF None
    <3>2. served[p] \in Int /\ served'[p] \in Int /\ served'[p] <= served[p] + 1
      BY <1>3, <1>4, <3>1
    <3> QED  BY <1>3, <3>1, <3>2
  <2>2. ASSUME NEW p \in Peers, ~up'[p] PROVE reach'[p] = 0
    BY <1>1, <2>2
  <2> QED  BY <1>2, <2>1, <2>2 DEF InReach
<1>8. ASSUME InTime, NEW p \in Peers PROVE Covered(p)'
  <2>1. /\ p \in Nat /\ rp \in Nat /\ rp <= P /\ P \in Nat /\ spent \in Nat /\ wait \in Nat
        /\ reach[p] \in Nat /\ Retry \in Nat /\ Remaining(p) \in Int
    BY PeerNumbers, RemainingType
  <2>2. \A n : Fetches(n)' = Fetches(n)
    BY <1>1, SameFetches
  <2>3. \A n \in Nat : Fetches(n) \in Nat
    BY <1>3, FetchesSum
  <2>4. Remaining(p)' = Remaining(p) - 1
    <3>1. CASE rpc = "pause"
      <4>1. wait > 0
        BY <1>1, <3>1
      <4>2. wait' = IF 0 >= wait - 1 THEN 0 ELSE wait - 1
        BY <1>1, <2>1, MaxOfTwo
      <4>3. wait' = wait - 1
        BY <2>1, <4>1, <4>2
      <4>4. Remaining(p)' = wait' + Fetches(p) /\ Remaining(p) = wait + Fetches(p)
        BY <1>1, <2>2, <3>1 DEF Remaining
      <4>5. Fetches(p) \in Nat
        BY <2>1, <2>3
      <4> QED  BY <2>1, <4>3, <4>4, <4>5
    <3>2. CASE rpc = "fetch"
      <4>1. spent' = spent + 1
        BY <1>1, <3>2
      <4>2. P - rp + 1 \in Nat /\ (rp <= p => p - rp + 1 \in Nat)
        BY <2>1
      <4>3. Fetches(p) \in Nat /\ (rp <= p => Fetches(p - rp + 1) \in Nat) /\ Fetches(P - rp + 1) \in Nat
        BY <2>1, <2>3, <4>2
      <4>4. /\ Remaining(p) = IF rp <= p THEN Fetches(p - rp + 1) - spent
                              ELSE Fetches(P - rp + 1) - spent + Retry + Fetches(p)
            /\ Remaining(p)' = IF rp <= p THEN Fetches(p - rp + 1) - spent'
                               ELSE Fetches(P - rp + 1) - spent' + Retry + Fetches(p)
        BY <1>1, <1>2, <2>2, <3>2 DEF Remaining, Ahead
      <4> QED  BY <2>1, <4>1, <4>3, <4>4
    <3> QED  BY <1>1, <3>1, <3>2
  <2>5. Past(p)' <=> Past(p)
    BY <1>1 DEF Past
  <2>6. Covered(p)
    BY <1>8 DEF HeldInv
  <2>7. CASE entries[p] # None /\ entries[p] + Remaining(p) < TTL
    <3>1. /\ entries'[p] # None /\ entries[p] \in Int /\ entries'[p] \in Int
          /\ entries'[p] <= entries[p] + 1
      BY <1>1, <1>3, <1>4, <2>7
    <3>2. entries'[p] + Remaining(p)' < TTL'
      BY <1>2, <1>3, <2>1, <2>4, <2>7, <3>1
    <3> QED  BY <3>1, <3>2 DEF Covered
  <2>8. CASE reach[p] + Remaining(p) <= Within /\ (Past(p) => Due(p))
    <3>1. Within \in Nat /\ Ever \in Nat
      <4>1. Within \in Nat
        BY <1>3, FetchesSum
      <4> QED  BY <4>1 DEF Ever
    <3>2. reach'[p] \in Int /\ reach'[p] <= reach[p] + 1
      <4>1. Min({Ever, reach[p] + 1}) = IF Ever <= reach[p] + 1 THEN Ever ELSE reach[p] + 1
        BY <2>1, <3>1, MinOfTwo
      <4> QED  BY <1>1, <2>1, <3>1, <4>1
    <3>3. reach'[p] + Remaining(p)' <= Within'
      BY <1>2, <2>1, <2>4, <2>8, <3>1, <3>2
    <3>4. Due(p) => Due(p)'
      BY <1>2, <1>5 DEF Due
    <3> QED  BY <2>5, <2>8, <3>3, <3>4 DEF Covered
  <2> QED  BY <2>6, <2>7, <2>8 DEF Covered
<1> QED  BY <1>2, <1>6, <1>7, <1>8 DEF HeldInv

LEMMA OthersHeld ==
    ASSUME MirrorInv, HeldInv,
           \/ Sign \/ Request \/ \E t \in Threads : PublishReads(t)
           \/ \E t \in Threads \ {"peers"} : PublishStores(t)
           \/ \E p \in Peers : PeerSigns(p) \/ Down(p) \/ Up(p)
    PROVE  HeldInv'
<1>1. CASE \/ Sign \/ Request \/ \E t \in Threads : PublishReads(t)
           \/ \E t \in Threads \ {"peers"} : PublishStores(t)
  <2>1. /\ UNCHANGED <<rpc, rp, wait, spent, answer, entries, setting, up, served, reach>>
        /\ "peers" \in publishing' => "peers" \in publishing
    BY <1>1 DEF Sign, Request, PublishReads, PublishStores, env, refresher
  <2>2. Half' = Half /\ Check' = Check
    BY <2>1, SameSetting
  <2>3. InReach'
    BY <2>1, <2>2 DEF HeldInv, InReach
  <2> QED  BY <2>1, <2>3, QuietHeld
<1>2. ASSUME NEW p \in Peers, PeerSigns(p) \/ Down(p) \/ Up(p)
      PROVE  HeldInv'
  <2>1. UNCHANGED <<rpc, rp, wait, spent, answer, entries, setting, publishing>>
    BY <1>2 DEF PeerSigns, Down, Up, cache, refresher
  <2>2. Half' = Half /\ Check' = Check /\ Half \in Nat /\ Check \in Nat
    BY <2>1, SameSetting, SettingType DEF MirrorInv, TypeOK
  <2>3. up \in [Peers -> BOOLEAN] /\ served \in [Peers -> Ages] /\ reach \in [Peers -> 0 .. Ever]
        /\ \A q \in Peers : served[q] \in Int
    <3>1. TTL \in Nat
      BY SettingType DEF MirrorInv, TypeOK
    <3> QED  BY <3>1 DEF MirrorInv, TypeOK, Ages
  <2>4. \A q \in Peers : reach'[q] = reach[q] \/ reach'[q] = 0
    BY <1>2, <2>3 DEF PeerSigns, Down, Up
  <2>5. InReach'
    <3>1. CASE PeerSigns(p)
      BY <2>2, <2>3, <3>1 DEF PeerSigns, HeldInv, InReach
    <3>2. CASE Down(p)
      BY <2>2, <2>3, <3>2 DEF Down, HeldInv, InReach
    <3>3. CASE Up(p)
      BY <2>2, <2>3, <3>3 DEF Up, HeldInv, InReach
    <3> QED  BY <1>2, <3>1, <3>2, <3>3
  <2> QED  BY <2>1, <2>4, <2>5, QuietHeld
<1> QED  BY <1>1, <1>2

-----------------------------------------------------------------------------
(* The invariant. *)

LEMMA PeerInit == Init => PeerInv
<1> SUFFICES ASSUME Init PROVE PeerInv
  OBVIOUS
<1>1. /\ setting \in Settings /\ TTL \in Nat /\ Half \in Nat /\ Check \in Nat /\ Fetch \in Nat
      /\ Retry \in Nat /\ MaxWait \in Nat /\ Half + Check < TTL /\ P \in Nat \ {0}
      /\ Ages = 0 .. TTL
  BY SettingType DEF Init, Ages
<1>2. Within \in Nat /\ Ever \in Nat /\ Max({Retry, MaxWait}) \in Nat
  <2>1. Within \in Nat
    BY <1>1, FetchesSum
  <2>2. Max({Retry, MaxWait}) \in Nat
    BY <1>1, MaxOfTwo
  <2> QED  BY <2>1, <2>2 DEF Ever
<1>3. TypeOK
  <2>1. EnvType
    <3>1. served \in [Peers -> Ages]
      BY <1>1 DEF Init
    <3> QED  BY <1>1, <1>2, <3>1 DEF Init, EnvType
  <2>2. CacheType
    <3>1. [n \in Members |-> IF n = Self THEN 0 ELSE None] \in [Members -> Ages \cup {None}]
      BY <1>1
    <3> QED  BY <1>1, <3>1 DEF Init, CacheType, Threads
  <2>3. RefresherType
    BY <1>1, <1>2 DEF Init, RefresherType, Peers
  <2> QED  BY <1>1, <2>1, <2>2, <2>3, TypeParts
<1>4. MirrorLasts
  BY <1>1 DEF Init, MirrorLasts
<1>5. MuHeld
  BY DEF Init, MuHeld, Threads
<1>6. Fresh
  BY DEF Init, Fresh, Members, Self
<1>7. MirrorInv
  BY <1>3, <1>4, <1>5, <1>6 DEF MirrorInv
<1>8. Round
  BY DEF Init, Round
<1>9. InReach
  BY <1>1 DEF Init, InReach
<1>10. ASSUME NEW p \in Peers PROVE Covered(p)
  <2>1. p \in Nat /\ p <= P /\ 1 <= p /\ p - 1 + 1 = p /\ P \in Nat
    BY <1>1 DEF Peers
  <2>2. /\ Fetches(p) \in Nat /\ Fetches(p) <= Within
    <3> DEFINE d == P - p
    <3>1. d \in Nat /\ d + p = P
      BY <2>1
    <3> HIDE DEF d
    <3>2. /\ \A n \in Nat : Fetches(n) \in Nat
          /\ \A n, m, k \in Nat : n + m = k => Fetches(n) + Fetches(m) = Fetches(k)
          /\ Within = Retry + Fetches(P)
      BY <1>1, FetchesSum
    <3>3. Fetches(d) + Fetches(p) = Fetches(P) /\ Fetches(d) \in Nat /\ Fetches(p) \in Nat
          /\ Fetches(P) \in Nat
      BY <2>1, <3>1, <3>2
    <3>4. Retry \in Nat
      BY <1>1
    <3> QED  BY <3>2, <3>3, <3>4
  <2>3. Remaining(p) = Fetches(p) - 0 /\ ~Past(p) /\ reach[p] = 0
    BY <2>1 DEF Init, Remaining, Ahead, Past
  <2> QED  BY <1>2, <2>2, <2>3 DEF Covered
<1> QED  BY <1>7, <1>8, <1>9, <1>10 DEF PeerInv, HeldInv

LEMMA PeerNext == PeerInv /\ [Next]_vars => PeerInv'
<1> SUFFICES ASSUME PeerInv, [Next]_vars PROVE PeerInv'
  OBVIOUS
<1> USE DEF PeerInv
<1>1. CASE Refresh
  <2>1. HeldInv'
    BY <1>1, SkipHeld, AskHeld, PeerAnswersHeld, FetchFailsHeld, StoreHeld, WakeHeld DEF Refresh
  <2> QED  BY <1>1, <2>1, OthersMirror
<1>2. CASE Sign
  BY <1>2, SignMirror, OthersHeld
<1>3. CASE Request
  BY <1>3, OthersMirror, OthersHeld
<1>4. CASE Tick
  BY <1>4, TickMirror, TickHeld
<1>5. ASSUME NEW t \in Threads, Publish(t)
      PROVE  PeerInv'
  <2>1. CASE PublishReads(t)
    BY <2>1, PublishReadsMirror, OthersHeld
  <2>2. CASE PublishStores(t)
    BY <2>2, PublishStoresMirror, PauseHeld, OthersHeld
  <2> QED  BY <1>5, <2>1, <2>2 DEF Publish
<1>6. ASSUME NEW p \in Peers, PeerSigns(p) \/ Down(p) \/ Up(p)
      PROVE  PeerInv'
  BY <1>6, OthersMirror, OthersHeld
<1>7. CASE UNCHANGED vars
  <2>1. UNCHANGED <<up, served, own, entries, mu, seen, publishing, mirror, rpc, rp, wait, spent,
                    answer, reach, setting>>
    BY <1>7 DEF vars, env, cache, refresher
  <2>2. EnvType' /\ RefresherType' /\ publishing' \subseteq Threads
    BY <2>1, SameSetting, TypeParts DEF EnvType, RefresherType, CacheType, MirrorInv
  <2>3. MirrorInv'
    BY <2>1, <2>2, QuietMirror
  <2>4. InReach'
    BY <2>1, SameSetting DEF HeldInv, InReach
  <2> QED  BY <2>1, <2>3, <2>4, QuietHeld
<1> QED  BY <1>1, <1>2, <1>3, <1>4, <1>5, <1>6, <1>7 DEF Next

\* The invariant holds in every state the peer cache of a node reaches.
LEMMA PeerInvariant == Spec => []PeerInv
BY PeerInit, PeerNext, PTL DEF Spec

\* /descriptors hands out no bundle that has run out: the time of the mirror that
\* peerCache.publish stores ends with the first of them, for every lifetime and
\* every number of peers.
THEOREM PeerServableIsLive == Spec => []ServableIsLive
<1>1. PeerInv => ServableIsLive
  <2> SUFFICES ASSUME PeerInv PROVE ServableIsLive
    OBVIOUS
  <2>1. TypeOK /\ MirrorLasts
    BY DEF PeerInv, MirrorInv
  <2>2. TTL \in Nat /\ Ages = 0 .. TTL
    BY <2>1, SettingType DEF TypeOK, Ages
  <2>3. mirror.left \in Nat /\ \A n \in Members : mirror.ages[n] # None => mirror.ages[n] \in Nat
    BY <2>1, <2>2 DEF TypeOK
  <2> QED  BY <2>1, <2>2, <2>3 DEF MirrorLasts, ServableIsLive, Live
<1> QED  BY <1>1, PeerInvariant, PTL

\* Once nobody is about to publish, the mirror has the bundle the node serves:
\* publish reads it under peerCache.mu and sign stores it before it publishes.
THEOREM PeerOwnBundleMirrored == Spec => []OwnBundleMirrored
<1>1. PeerInv => OwnBundleMirrored
  BY DEF PeerInv, MirrorInv, Fresh, SignPending, OwnBundleMirrored
<1> QED  BY <1>1, PeerInvariant, PTL

\* keepPeers holds every peer from Within after it has come into reach, where the
\* lifetime is longer than half of it, checkEvery, peerRetry and one fetch per
\* peer and one more: for every roster and every setting of those times.
THEOREM PeerHeldWithin == Spec => []HeldWithin
<1>1. PeerInv => HeldWithin
  <2> SUFFICES ASSUME PeerInv, InTime, NEW p \in Peers, reach[p] = Ever
               PROVE  Live(entries[p])
    BY DEF HeldWithin
  <2>1. MirrorInv /\ Covered(p) /\ setting \in Settings
    BY DEF PeerInv, HeldInv, MirrorInv, TypeOK
  <2>2. /\ p \in Nat /\ 1 <= p /\ p <= P /\ rp \in Nat /\ 1 <= rp /\ rp <= P /\ P \in Nat
        /\ spent \in Nat /\ spent <= Fetch /\ wait \in Nat /\ reach[p] \in Nat
        /\ entries[p] # None => entries[p] \in Nat
        /\ TTL \in Nat /\ Fetch \in Nat /\ Retry \in Nat
    BY <2>1, PeerNumbers
  <2>3. Within \in Nat /\ Ever = Within + 1
    BY <2>1, FetchesSum DEF Ever
  <2>4. Remaining(p) \in Int /\ Remaining(p) >= 0
    <3>1. \A n \in Nat : Fetches(n) \in Nat /\ Fetches(n + 1) = Fetches(n) + Fetch
      BY <2>1, FetchesSum
    <3>2. P - rp \in Nat /\ (rp <= p => p - rp \in Nat)
      BY <2>2
    <3>3. /\ Fetches(p) \in Nat
          /\ Fetches(P - rp) \in Nat /\ Fetches(P - rp + 1) = Fetches(P - rp) + Fetch
          /\ rp <= p => Fetches(p - rp) \in Nat /\ Fetches(p - rp + 1) = Fetches(p - rp) + Fetch
      BY <2>2, <3>1, <3>2
    <3> QED  BY <2>2, <3>3 DEF Remaining, Ahead
  <2>5. ~(reach[p] + Remaining(p) <= Within)
    BY <2>2, <2>3, <2>4
  <2>6. entries[p] # None /\ entries[p] + Remaining(p) < TTL
    BY <2>1, <2>5 DEF Covered
  <2> QED  BY <2>2, <2>4, <2>6 DEF Live
<1> QED  BY <1>1, PeerInvariant, PTL

===============================================================================

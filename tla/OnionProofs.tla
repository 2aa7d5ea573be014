------------------------------ MODULE OnionProofs ------------------------------
(***************************************************************************)
(* A setup goes through once, no key is released under one or outlives its *)
(* period, and every descriptor somebody accepts is honoured, for any      *)
(* number of openers, tags and rotations, and whatever the clocks do.      *)
(*                                                                         *)
(* SetupOnce is not inductive: a setup let through is kept from opening    *)
(* again by its tag as long as its key is held, and by the key being gone  *)
(* after that, which needs that no key comes back.                         *)
(***************************************************************************)
EXTENDS OnionKeys, FiniteSetTheorems, TLAPS

\* The part of the type invariant the argument rests on.
RingType ==
    /\ current \in Epochs \cup {NoKey}
    /\ previous \in Epochs \cup {NoKey}
    /\ seen \in [Epochs -> SUBSET Tags]
    /\ opening \in [Openers -> Setups \cup {Idle}]
    /\ opened \in [Setups -> Nat]

\* The ring is empty only once it is closed; the replaced key is an older one.
RingOrder ==
    /\ current = NoKey => stage = "ringClosed" /\ previous = NoKey
    /\ current # NoKey => previous < current

\* A setup that went through is either remembered by its key or built for a
\* key that is gone.
Burned ==
    \A s \in Setups :
        opened[s] # 0 => /\ current # NoKey => s.key <= current
                         /\ s.key \in Held => s.tag \in seen[s.key]

OnceInv == RingType /\ RingOrder /\ KeysInUseHeld /\ SetupOnce /\ Burned

\* An idle opener holds no setup of the model.
LEMMA IdleIsNoSetup == Idle \notin Setups
  BY TimeAssumption DEF Idle, Setups, Epochs, NoKey

\* Initially nothing was opened.
LEMMA OnceInit == Init => OnceInv
  BY TimeAssumption, IdleIsNoSetup
  DEF Init, OnceInv, RingType, RingOrder, KeysInUseHeld, SetupOnce, Burned,
      Held, NoKey, Epochs

\* A setup whose layer opens is built for a held key.
LEMMA OpenLayerKeeps ==
  ASSUME OnceInv, NEW w \in Openers, NEW s \in Setups, OpenLayer(w, s)
  PROVE  OnceInv'
  BY IdleIsNoSetup
  DEF OnceInv, RingType, RingOrder, KeysInUseHeld, SetupOnce, Burned, Held,
      OpenLayer, ring

\* The tag is new to the key that opened, so the setup had not gone through.
LEMMA AddTagKeeps ==
  ASSUME OnceInv, NEW w \in Openers, AddTag(w)
  PROVE  OnceInv'
<1> USE DEF OnceInv
<1> DEFINE s == opening[w]
<1>1. s \in Setups /\ s.key \in Held /\ s.key \in Epochs /\ s.tag \in Tags
  BY DEF AddTag, RingType, KeysInUseHeld, Setups
<1>2. UNCHANGED <<current, previous, stage>> /\ Held' = Held
  BY DEF AddTag, Held
<1>3. opening' = [opening EXCEPT ![w] = Idle]
  BY DEF AddTag
<1>4. CASE Known(s) \/ CacheFull(s.key)
  <2>1. UNCHANGED <<seen, opened>>
    BY <1>4 DEF AddTag
  <2> QED
    BY <1>2, <1>3, <2>1
    DEF RingType, RingOrder, KeysInUseHeld, SetupOnce, Burned
<1>5. CASE ~(Known(s) \/ CacheFull(s.key))
  <2>1. /\ seen' = [seen EXCEPT ![s.key] = @ \cup {s.tag}]
        /\ opened' = [opened EXCEPT ![s] = @ + 1]
    BY <1>5 DEF AddTag
  <2>2. s.tag \notin seen[s.key]
    BY <1>5 DEF Known
  <2>3. opened[s] = 0
    BY <1>1, <2>2 DEF Burned
  <2>4. RingType'
    BY <1>1, <1>2, <1>3, <2>1 DEF RingType
  <2>5. RingOrder'
    BY <1>2 DEF RingOrder
  <2>6. KeysInUseHeld'
    BY <1>2, <1>3 DEF KeysInUseHeld, RingType
  <2>7. opened'[s] = 1 /\ \A t \in Setups : t # s => opened'[t] = opened[t]
    BY <1>1, <2>1, <2>3 DEF RingType
  <2>8. SetupOnce'
    BY <2>7 DEF SetupOnce
  <2>9. Burned'
    <3> SUFFICES ASSUME NEW t \in Setups, opened'[t] # 0
                 PROVE  /\ current # NoKey => t.key <= current
                        /\ t.key \in Held => t.tag \in seen'[t.key]
      BY <1>2 DEF Burned
    <3>1. CASE t = s
      <4>1. current # NoKey => s.key <= current
        BY <1>1 DEF RingOrder, RingType, Held, Epochs, NoKey
      <4> QED
        BY <1>1, <2>1, <3>1, <4>1 DEF RingType
    <3>2. CASE t # s
      <4>1. /\ current # NoKey => t.key <= current
            /\ t.key \in Held => t.tag \in seen[t.key]
        BY <2>7, <3>2 DEF Burned
      <4>2. t.key \in Epochs => seen[t.key] \subseteq seen'[t.key]
        BY <1>1, <2>1 DEF RingType
      <4> QED
        BY <4>1, <4>2 DEF Setups
    <3> QED
      BY <3>1, <3>2
  <2> QED
    BY <2>4, <2>5, <2>6, <2>8, <2>9
<1> QED
  BY <1>4, <1>5

\* A new key has opened nothing and the key kept remembers what it opened; no
\* opener is inside.
LEMMA RotateKeeps ==
  ASSUME OnceInv, stage # "ringClosed", Rotate, UNCHANGED <<setups, stage>>
  PROVE  OnceInv'
<1> USE DEF OnceInv
<1>1. /\ current \in Epochs /\ current < MaxEpoch
      /\ current' = current + 1 /\ previous' = current
      /\ opened' = opened /\ opening' = opening
      /\ seen' = Forget({current})
  BY DEF Rotate, RingOrder, RingType, setups, NoKey, Epochs
<1>2. current' \in Epochs /\ Held' = {current, current + 1}
  BY <1>1, TimeAssumption DEF Epochs, Held, NoKey
<1>3. RingType'
  BY <1>1, <1>2 DEF RingType, Forget
<1>4. RingOrder'
  BY <1>1, <1>2 DEF RingOrder, Epochs, NoKey
<1>5. KeysInUseHeld'
  BY <1>1 DEF KeysInUseHeld, Rotate, WriteLock
<1>6. SetupOnce'
  BY <1>1 DEF SetupOnce
<1>7. Burned'
  <2> SUFFICES ASSUME NEW s \in Setups, opened[s] # 0
               PROVE  /\ s.key <= current + 1
                      /\ s.key \in {current, current + 1} =>
                           s.tag \in seen'[s.key]
    BY <1>1, <1>2 DEF Burned
  <2>1. s.key \in Epochs /\ current \in Int /\ current # NoKey
    BY <1>1 DEF Setups, Epochs, NoKey
  <2>2. s.key <= current
    BY <2>1 DEF Burned
  <2>3. s.key \in Int
    BY <2>1 DEF Epochs
  <2>4. s.key <= current + 1 /\ s.key # current + 1
    BY <2>1, <2>2, <2>3
  <2>5. s.key = current => s.tag \in seen[current]
    BY <2>1 DEF Burned, Held
  <2>6. s.key = current => s.tag \in seen'[s.key]
    BY <1>1, <2>5 DEF Forget
  <2> QED
    BY <2>4, <2>6
<1> QED
  BY <1>3, <1>4, <1>5, <1>6, <1>7

\* The key that goes takes its tags along; those of the keys kept stay.
LEMMA KeepKeyKeeps ==
  ASSUME OnceInv, stage # "ringClosed", KeepKey, UNCHANGED <<setups, stage>>
  PROVE  OnceInv'
<1> USE DEF OnceInv
<1>1. /\ current' = current /\ previous' = AfterRetire
      /\ opened' = opened /\ opening' = opening
      /\ seen' = Forget({current, AfterRetire})
  BY DEF KeepKey, setups
<1>2. AfterRetire \in {previous, NoKey} /\ Held' \subseteq Held
  BY <1>1 DEF AfterRetire, Held
<1>3. RingType'
  BY <1>1, <1>2 DEF RingType, Forget
<1>4. RingOrder'
  BY <1>1, <1>2 DEF RingOrder, RingType, Epochs, NoKey
<1>5. KeysInUseHeld'
  <2>1. CASE RetireDue
    BY <1>1, <2>1 DEF KeysInUseHeld, KeepKey, WriteLock
  <2>2. CASE ~RetireDue
    BY <1>1, <2>2 DEF KeysInUseHeld, Held, AfterRetire
  <2> QED
    BY <2>1, <2>2
<1>6. SetupOnce'
  BY <1>1 DEF SetupOnce
<1>7. Burned'
  <2> SUFFICES ASSUME NEW s \in Setups, opened[s] # 0
               PROVE  /\ current # NoKey => s.key <= current
                      /\ s.key \in Held' => s.tag \in seen'[s.key]
    BY <1>1 DEF Burned
  <2>1. s.key \in Epochs
    BY DEF Setups
  <2>2. s.key \in Held' => s.key \in {current, AfterRetire}
    BY <1>1 DEF Held
  <2> QED
    BY <1>1, <1>2, <2>1, <2>2 DEF Burned, Forget
<1> QED
  BY <1>3, <1>4, <1>5, <1>6, <1>7

\* Closing empties the ring for good.
LEMMA CloseRingKeeps ==
  ASSUME OnceInv, CloseRing
  PROVE  OnceInv'
<1>1. /\ current' = NoKey /\ previous' = NoKey /\ stage' = "ringClosed"
      /\ seen' = [k \in Epochs |-> {}]
      /\ UNCHANGED setups
  BY DEF CloseRing, Stop, Forget
<1>2. Held' = {}
  BY <1>1 DEF Held
<1>3. RingType' /\ RingOrder' /\ SetupOnce' /\ Burned'
  BY <1>1, <1>2 DEF OnceInv, RingType, RingOrder, SetupOnce, Burned, setups
<1>4. KeysInUseHeld'
  BY <1>1 DEF OnceInv, KeysInUseHeld, CloseRing, WriteLock, setups
<1> QED
  BY <1>3, <1>4 DEF OnceInv

\* Clocks, signing and the first steps of shutting down leave ring and setups
\* alone; the ring is closed by CloseRing only.
LEMMA OthersKeep ==
  ASSUME OnceInv, UNCHANGED <<ring, setups>>,
         stage = "ringClosed" => stage' = "ringClosed"
  PROVE  OnceInv'
  BY DEF OnceInv, RingType, RingOrder, KeysInUseHeld, SetupOnce, Burned, Held,
         ring, setups

\* Every step keeps the invariant.
LEMMA OnceNext == OnceInv /\ [Next]_vars => OnceInv'
<1> SUFFICES ASSUME OnceInv, [Next]_vars PROVE OnceInv'
  OBVIOUS
<1>1. CASE \E w \in Openers, s \in Setups : OpenLayer(w, s)
  BY <1>1, OpenLayerKeeps
<1>2. CASE \E w \in Openers : AddTag(w)
  BY <1>2, AddTagKeeps
<1>3. CASE RotateIfDue
  <2>1. stage # "ringClosed" /\ UNCHANGED <<setups, stage>>
    BY <1>3 DEF RotateIfDue
  <2>2. Rotate \/ KeepKey
    BY <1>3 DEF RotateIfDue
  <2> QED
    BY <2>1, <2>2, RotateKeeps, KeepKeyKeeps
<1>4. CASE \E life \in CertLives : InstallCert(life)
  BY <1>4, OthersKeep DEF InstallCert
<1>5. CASE RefreshIfDue
  BY <1>5, OthersKeep DEF RefreshIfDue
<1>6. CASE CloseRelay \/ CloseId \/ CloseKeys
  BY <1>6, OthersKeep DEF CloseRelay, CloseId, CloseKeys, Stop
<1>7. CASE CloseRing
  BY <1>7, CloseRingKeeps
<1>8. CASE Advance \/ Sleep
  BY <1>8, OthersKeep DEF Advance, Sleep, Elapse
<1>9. CASE \E by \in Jumps : SetClock(by)
  BY <1>9, OthersKeep DEF SetClock
<1>10. CASE UNCHANGED vars
  BY <1>10, OthersKeep DEF vars
<1> QED
  BY <1>1, <1>2, <1>3, <1>4, <1>5, <1>6, <1>7, <1>8, <1>9, <1>10 DEF Next

\* Every reachable state satisfies the strengthened invariant.
LEMMA OnceAlways == Spec => []OnceInv
  BY OnceInit, OnceNext, PTL DEF Spec

\* No setup is let through twice by OnionRing.Open, for any number of
\* concurrent handlers, setups and rotations and whatever the clocks do.
THEOREM OnionSetupOnce == Spec => []SetupOnce
<1>1. OnceInv => SetupOnce
  BY DEF OnceInv
<1> QED
  BY <1>1, OnceAlways, PTL

\* No key is released by Rotate, Retire or Close while OnionRing.Open is
\* using it.
THEOREM OnionKeysInUseHeld == Spec => []KeysInUseHeld
<1>1. OnceInv => KeysInUseHeld
  BY DEF OnceInv
<1> QED
  BY <1>1, OnceAlways, PTL

-------------------------------------------------------------------------------
(***************************************************************************)
(* A key is held as long as anybody accepts a descriptor that names it,    *)
(* provided the node's wall clock is never set.                            *)
(***************************************************************************)

\* A quotient is an integer, and it is the largest that fits.
LEMMA DivBounds ==
  ASSUME NEW a \in Int
  PROVE  /\ Unix(a) \in Int
         /\ Second * Unix(a) <= a
         /\ a < Second * Unix(a) + Second
  BY TimeAssumption DEF Unix

\* Time.Unix does not decrease.
LEMMA UnixMonotone ==
  ASSUME NEW a \in Int, NEW b \in Int, a <= b
  PROVE  Unix(a) <= Unix(b)
<1> DEFINE p == Unix(a)
           q == Unix(b)
<1>1. p \in Int /\ q \in Int /\ Second * p <= a /\ b < Second * q + Second
  BY DivBounds
<1> HIDE DEF p, q
<1>2. Second \in Nat \ {0}
  BY TimeAssumption
<1>3. SUFFICES ASSUME p >= q + 1 PROVE FALSE
  BY <1>1 DEF p, q
<1>4. p - (q + 1) \in Nat
  BY <1>1, <1>3
<1>5. Second * (p - (q + 1)) >= 0
  BY <1>2, <1>4
<1>6. Second * (p - (q + 1)) = Second * p - Second * q - Second
  BY <1>1, <1>2
<1>7. Second * p \in Int /\ Second * q \in Int
  BY <1>1, <1>2
<1> QED
  BY <1>1, <1>2, <1>5, <1>6, <1>7

\* The wall clock is the time that passes, and the host is awake for a part
\* of it.
ClocksRight ==
    /\ offset = 0
    /\ real \in Nat /\ run \in Nat
    /\ notAfter \in Int

\* While a replaced key is held its release is set, and by running time it
\* comes no earlier than by the wall clock.
ReleaseSet ==
    previous # NoKey =>
        /\ retireAt.pending
        /\ retireAt.wall \in Int /\ retireAt.run \in Int
        /\ retireAt.wall - retireAt.run <= real - run

\* What the descriptors signed so far can still do: one that names the
\* replaced key is over when that key's release comes, one that names a key
\* already gone is over for every verifier.
SignedBounded ==
    \A d \in signed :
        /\ d.epoch \in Epochs /\ d.expires \in Int /\ d.published \in Int
        /\ d.expires <= Unix(real + TTL)
        /\ current # NoKey => d.epoch <= current
        /\ d.epoch = previous => d.expires <= Unix(retireAt.wall - Skew)
        /\ current # NoKey /\ d.epoch \notin Held =>
             d.expires <= Unix(real - Skew)

HonourInv == ClocksRight /\ ReleaseSet /\ SignedBounded

\* Nothing is signed yet.
LEMMA HonourInit == Init => HonourInv
  BY DEF Init, HonourInv, ClocksRight, ReleaseSet, SignedBounded, Wall

\* The invariant says what the property says.
LEMMA HonourImplies ==
  ASSUME OnceInv, HonourInv PROVE DescriptorsHonoured
<1> SUFFICES ASSUME stage # "ringClosed", NEW d \in signed,
                    NEW lag \in -Skew .. Skew, Accepts(d, Wall - lag)
             PROVE  d.epoch \in Held
  BY DEF DescriptorsHonoured
<1>1. current # NoKey
  BY DEF OnceInv, RingOrder
<1>2. /\ Wall - lag \in Int /\ real - Skew \in Int /\ real - Skew <= Wall - lag
  BY TimeAssumption DEF HonourInv, ClocksRight, Wall
<1>3. Unix(real - Skew) <= Unix(Wall - lag)
  BY <1>2, UnixMonotone
<1>4. Unix(Wall - lag) < d.expires /\ d.expires \in Int
  BY DEF Accepts, HonourInv, SignedBounded
<1>5. ~(d.expires <= Unix(real - Skew))
  BY <1>2, <1>3, <1>4, DivBounds
<1> QED
  BY <1>1, <1>5 DEF HonourInv, SignedBounded

\* A key whose release has come is named by nothing anybody accepts.
LEMMA ReleasedIsOver ==
  ASSUME HonourInv, RetireDue, NEW d \in signed, d.epoch = previous,
         previous # NoKey
  PROVE  d.expires <= Unix(real - Skew)
<1>1. /\ retireAt.wall \in Int /\ retireAt.run \in Int
      /\ retireAt.wall - retireAt.run <= real - run
      /\ real \in Int /\ run \in Int
  BY DEF HonourInv, ReleaseSet, ClocksRight
<1>2. real >= retireAt.wall
  BY <1>1 DEF RetireDue, Passed, Wall, HonourInv, ClocksRight
<1>3. Unix(retireAt.wall - Skew) <= Unix(real - Skew)
  BY <1>1, <1>2, UnixMonotone, TimeAssumption
<1>4. d.expires <= Unix(retireAt.wall - Skew) /\ d.expires \in Int
  BY DEF HonourInv, SignedBounded
<1> QED
  BY <1>1, <1>3, <1>4, DivBounds, TimeAssumption

\* What a signing adds is over a lifetime from now.
LEMMA SignAdds ==
  ASSUME ClocksRight, NEW epoch, NEW until \in Int, NEW state,
         Sign(epoch, until, state)
  PROVE  \A d \in signed' \ signed :
            /\ d.epoch = epoch /\ epoch # NoKey
            /\ d.expires \in Int /\ d.published \in Int
            /\ d.expires <= Unix(real + TTL)
<1> SUFFICES ASSUME NEW d \in signed' \ signed
             PROVE  /\ d.epoch = epoch /\ epoch # NoKey
                    /\ d.expires \in Int /\ d.published \in Int
                    /\ d.expires <= Unix(real + TTL)
  OBVIOUS
<1>1. d = Fresh(epoch, until) /\ epoch # NoKey
  BY DEF Sign, CanSign
<1>2. Unix(Wall) \in Int /\ Unix(Wall + TTL) \in Int /\ Wall = real
  BY DivBounds, TimeAssumption DEF ClocksRight, Wall
<1> QED
  BY <1>1, <1>2 DEF Fresh, Min

\* Signing under the published key.
LEMMA SignKeeps ==
  ASSUME OnceInv, HonourInv, NEW until \in Int, NEW state,
         Sign(current, until, state), notAfter' \in Int,
         UNCHANGED <<clocks, ring, retireAt>>
  PROVE  HonourInv'
<1>1. ClocksRight' /\ ReleaseSet'
  BY DEF HonourInv, ClocksRight, ReleaseSet, clocks, ring
<1>2. SignedBounded'
  <2> SUFFICES ASSUME NEW d \in signed'
               PROVE  /\ d.epoch \in Epochs /\ d.expires \in Int
                      /\ d.published \in Int
                      /\ d.expires <= Unix(real + TTL)
                      /\ current # NoKey => d.epoch <= current
                      /\ d.epoch = previous =>
                           d.expires <= Unix(retireAt.wall - Skew)
                      /\ current # NoKey /\ d.epoch \notin Held =>
                           d.expires <= Unix(real - Skew)
    BY DEF SignedBounded, clocks, ring, Held, Unix
  <2>1. CASE d \in signed
    BY <2>1 DEF HonourInv, SignedBounded
  <2>2. CASE d \notin signed
    <3>1. /\ d.epoch = current /\ current # NoKey
          /\ d.expires \in Int /\ d.published \in Int
          /\ d.expires <= Unix(real + TTL)
      BY <2>2, SignAdds DEF HonourInv
    <3>2. current \in Epochs /\ current \in Held /\ previous # current
      BY <3>1 DEF OnceInv, RingType, RingOrder, Held, Epochs, NoKey
    <3> QED
      BY <3>1, <3>2 DEF Epochs
  <2> QED
    BY <2>1, <2>2
<1> QED
  BY <1>1, <1>2 DEF HonourInv

\* Time passes: what was over stays over.
LEMMA ElapseKeeps ==
  ASSUME OnceInv, HonourInv, NEW awake \in {0, 1}, Elapse(awake)
  PROVE  HonourInv'
<1>1. /\ real' = real + 1 /\ run' = run + awake /\ offset' = offset
      /\ UNCHANGED <<current, previous, signed, retireAt, notAfter>>
  BY DEF Elapse, ring, pki, due
<1>2. ClocksRight'
  BY <1>1 DEF HonourInv, ClocksRight
<1>3. ReleaseSet'
  BY <1>1 DEF HonourInv, ReleaseSet, ClocksRight
<1>4. /\ real + TTL \in Int /\ real' + TTL \in Int
      /\ real - Skew \in Int /\ real' - Skew \in Int
  BY <1>1, TimeAssumption DEF HonourInv, ClocksRight
<1>5. /\ Unix(real + TTL) <= Unix(real' + TTL)
      /\ Unix(real - Skew) <= Unix(real' - Skew)
  BY <1>1, <1>4, UnixMonotone, TimeAssumption DEF HonourInv, ClocksRight
<1>6. /\ Unix(real + TTL) \in Int /\ Unix(real' + TTL) \in Int
      /\ Unix(real - Skew) \in Int /\ Unix(real' - Skew) \in Int
  BY <1>4, DivBounds
<1>7. SignedBounded'
  <2> SUFFICES ASSUME NEW d \in signed
               PROVE  /\ d.epoch \in Epochs /\ d.expires \in Int
                      /\ d.published \in Int
                      /\ d.expires <= Unix(real' + TTL)
                      /\ current # NoKey => d.epoch <= current
                      /\ d.epoch = previous =>
                           d.expires <= Unix(retireAt.wall - Skew)
                      /\ current # NoKey /\ d.epoch \notin Held =>
                           d.expires <= Unix(real' - Skew)
    BY <1>1 DEF SignedBounded, Held, Unix
  <2>1. d.expires \in Int /\ d.expires <= Unix(real + TTL)
    BY DEF HonourInv, SignedBounded
  <2>2. d.expires <= Unix(real' + TTL)
    BY <1>5, <1>6, <2>1
  <2>3. d.expires <= Unix(real - Skew) => d.expires <= Unix(real' - Skew)
    BY <1>5, <1>6, <2>1
  <2> QED
    BY <2>2, <2>3 DEF HonourInv, SignedBounded
<1> QED
  BY <1>2, <1>3, <1>7 DEF HonourInv

\* The replaced key is kept for a lifetime and the skew from now, the one
\* before it goes only when its release has come.
LEMMA RotateHonours ==
  ASSUME OnceInv, HonourInv, stage # "ringClosed", Rotate,
         UNCHANGED <<clocks, notAfter>>
  PROVE  HonourInv'
<1>1. /\ current \in Epochs /\ current # NoKey
      /\ current' = current + 1 /\ previous' = current
      /\ retireAt' = After(Grace)
      /\ UNCHANGED <<real, run, offset, notAfter>>
  BY DEF Rotate, OnceInv, RingOrder, RingType, clocks
<1>2. /\ real \in Nat /\ run \in Nat /\ Wall = real
      /\ Grace = TTL + Skew /\ TTL \in Nat /\ Skew \in Nat
  BY TimeAssumption DEF HonourInv, ClocksRight, Wall, Grace
<1>3. /\ retireAt'.pending
      /\ retireAt'.wall = real + TTL + Skew /\ retireAt'.run = run + TTL + Skew
  BY <1>1, <1>2 DEF After
<1>4. retireAt'.wall - Skew = real + TTL
  BY <1>2, <1>3
<1>5. ClocksRight' /\ ReleaseSet'
  BY <1>1, <1>2, <1>3 DEF HonourInv, ClocksRight, ReleaseSet
<1>6. current + 1 \in Epochs /\ Held' = {current, current + 1}
  BY <1>1, TimeAssumption DEF Rotate, Held, Epochs, NoKey
<1>7. SignedBounded'
  <2> SUFFICES ASSUME NEW d \in signed'
               PROVE  /\ d.epoch \in Epochs /\ d.expires \in Int
                      /\ d.published \in Int
                      /\ d.expires <= Unix(real + TTL)
                      /\ d.epoch <= current + 1
                      /\ d.epoch \notin {current, current + 1} =>
                           d.expires <= Unix(real - Skew)
    BY <1>1, <1>4, <1>6 DEF SignedBounded, Unix
  <2>1. CASE d \in signed
    <3>1. /\ d.epoch \in Epochs /\ d.expires \in Int /\ d.published \in Int
          /\ d.expires <= Unix(real + TTL) /\ d.epoch <= current
          /\ d.epoch \notin Held => d.expires <= Unix(real - Skew)
      BY <1>1, <2>1 DEF HonourInv, SignedBounded
    <3>2. d.epoch <= current + 1
      BY <1>1, <3>1 DEF Epochs
    <3>3. ASSUME d.epoch = previous PROVE d.expires <= Unix(real - Skew)
      <4>1. previous # NoKey
        BY <3>1, <3>3 DEF Epochs, NoKey
      <4>2. RetireDue
        BY <4>1 DEF Rotate, RotateDue, HonourInv, ReleaseSet
      <4> QED
        BY <2>1, <3>3, <4>1, <4>2, ReleasedIsOver
    <3> QED
      BY <3>1, <3>2, <3>3 DEF Held
  <2>2. CASE d \notin signed
    <3>1. Sign(current + 1, notAfter, "valid")
      BY <2>2 DEF Rotate
    <3>2. ClocksRight /\ notAfter \in Int
      BY DEF HonourInv, ClocksRight
    <3>3. /\ d.epoch = current + 1
          /\ d.expires \in Int /\ d.published \in Int
          /\ d.expires <= Unix(real + TTL)
      BY <2>2, <3>1, <3>2, SignAdds
    <3> QED
      BY <1>6, <3>3 DEF Epochs
  <2> QED
    BY <2>1, <2>2
<1> QED
  BY <1>5, <1>7 DEF HonourInv

\* A key released without a rotation is one whose release has come.
LEMMA KeepKeyHonours ==
  ASSUME OnceInv, HonourInv, stage # "ringClosed", KeepKey,
         UNCHANGED <<clocks, notAfter>>
  PROVE  HonourInv'
<1>1. /\ previous' = AfterRetire
      /\ retireAt' = IF RetireDue THEN Never ELSE retireAt
      /\ UNCHANGED <<real, run, offset, notAfter, current, signed>>
  BY DEF KeepKey, clocks
<1>2. CASE ~RetireDue
  <2>1. UNCHANGED <<previous, retireAt>> /\ Held' = Held
    BY <1>1, <1>2 DEF AfterRetire, Held
  <2> QED
    BY <1>1, <2>1
    DEF HonourInv, ClocksRight, ReleaseSet, SignedBounded, Unix
<1>3. CASE RetireDue
  <2>1. previous' = NoKey /\ Held' = {current} \ {NoKey}
    BY <1>1, <1>3 DEF AfterRetire, Held
  <2>2. ClocksRight' /\ ReleaseSet'
    BY <1>1, <2>1 DEF HonourInv, ClocksRight, ReleaseSet
  <2>3. SignedBounded'
    <3> SUFFICES ASSUME NEW d \in signed
                 PROVE  /\ d.epoch \in Epochs /\ d.expires \in Int
                        /\ d.published \in Int
                        /\ d.expires <= Unix(real + TTL)
                        /\ current # NoKey => d.epoch <= current
                        /\ d.epoch # NoKey
                        /\ current # NoKey /\ d.epoch # current =>
                             d.expires <= Unix(real - Skew)
      BY <1>1, <2>1 DEF SignedBounded, Unix
    <3>1. /\ d.epoch \in Epochs /\ d.expires \in Int /\ d.published \in Int
          /\ d.expires <= Unix(real + TTL)
          /\ current # NoKey => d.epoch <= current
          /\ current # NoKey /\ d.epoch \notin Held =>
               d.expires <= Unix(real - Skew)
      BY DEF HonourInv, SignedBounded
    <3>2. d.epoch # NoKey
      BY <3>1 DEF Epochs, NoKey
    <3>3. d.epoch = previous => d.expires <= Unix(real - Skew)
      BY <1>3, <3>2, ReleasedIsOver
    <3> QED
      BY <3>1, <3>2, <3>3 DEF Held
  <2> QED
    BY <2>2, <2>3 DEF HonourInv
<1> QED
  BY <1>2, <1>3

\* A closed ring holds nothing and promises nothing.
LEMMA CloseRingHonours ==
  ASSUME HonourInv, CloseRing
  PROVE  HonourInv'
<1>1. /\ current' = NoKey /\ previous' = NoKey
      /\ UNCHANGED <<real, run, offset, notAfter, signed, retireAt>>
  BY DEF CloseRing, Stop, clocks, pki, due
<1>2. ClocksRight' /\ ReleaseSet'
  BY <1>1 DEF HonourInv, ClocksRight, ReleaseSet
<1>3. NoKey \notin Epochs
  BY DEF NoKey, Epochs
<1>4. SignedBounded'
  BY <1>1, <1>3 DEF HonourInv, SignedBounded, Unix
<1> QED
  BY <1>2, <1>4 DEF HonourInv

\* Setups and the first steps of shutting down touch neither keys nor
\* descriptors.
LEMMA OthersHonour ==
  ASSUME HonourInv,
         UNCHANGED <<clocks, current, previous, retireAt, notAfter, signed>>
  PROVE  HonourInv'
  BY DEF HonourInv, ClocksRight, ReleaseSet, SignedBounded, Held, Unix, clocks

\* A wall clock that has been set stays set.
LEMMA OffsetStays == [Next]_vars /\ offset' = 0 => offset = 0
  BY DEF Next, vars, clocks, OpenLayer, AddTag, RotateIfDue, InstallCert,
         RefreshIfDue, CloseRelay, CloseId, CloseKeys, CloseRing, Stop,
         Advance, Sleep, Elapse, SetClock

\* Every step that does not set the wall clock keeps the invariant.
LEMMA HonourNext ==
  OnceInv /\ HonourInv /\ [Next]_vars /\ offset' = 0 => HonourInv'
<1> SUFFICES ASSUME OnceInv, HonourInv, [Next]_vars, offset' = 0
             PROVE  HonourInv'
  OBVIOUS
<1>1. CASE \E w \in Openers, s \in Setups : OpenLayer(w, s)
  BY <1>1, OthersHonour DEF OpenLayer, ring, pki, due
<1>2. CASE \E w \in Openers : AddTag(w)
  BY <1>2, OthersHonour DEF AddTag, pki, due
<1>3. CASE RotateIfDue
  <2>1. stage # "ringClosed" /\ UNCHANGED <<clocks, notAfter>>
    BY <1>3 DEF RotateIfDue
  <2>2. Rotate \/ KeepKey
    BY <1>3 DEF RotateIfDue
  <2> QED
    BY <2>1, <2>2, RotateHonours, KeepKeyHonours
<1>4. CASE \E life \in CertLives : InstallCert(life)
  <2>1. PICK life \in CertLives : InstallCert(life)
    BY <1>4
  <2>2. Wall \in Int /\ life \in Int
    BY TimeAssumption DEF HonourInv, ClocksRight, Wall
  <2>3. Unix(Wall) + life \in Int
    BY <2>2, DivBounds
  <2>4. /\ Sign(current, Unix(Wall) + life, "valid")
        /\ notAfter' = Unix(Wall) + life
        /\ UNCHANGED <<clocks, ring, retireAt>>
    BY <2>1 DEF InstallCert, due
  <2> QED
    BY <2>3, <2>4, SignKeeps
<1>5. CASE RefreshIfDue
  <2>1. /\ Sign(current, notAfter, CertState) /\ notAfter' = notAfter
        /\ UNCHANGED <<clocks, ring, retireAt>>
    BY <1>5 DEF RefreshIfDue, due
  <2>2. notAfter \in Int
    BY DEF HonourInv, ClocksRight
  <2> QED
    BY <2>1, <2>2, SignKeeps
<1>6. CASE CloseRelay \/ CloseId \/ CloseKeys
  BY <1>6, OthersHonour
  DEF CloseRelay, CloseId, CloseKeys, Stop, ring, pki, due
<1>7. CASE CloseRing
  BY <1>7, CloseRingHonours
<1>8. CASE Advance \/ Sleep
  BY <1>8, ElapseKeeps DEF Advance, Sleep
<1>9. CASE \E by \in Jumps : SetClock(by)
  BY <1>9 DEF SetClock
<1>10. CASE UNCHANGED vars
  BY <1>10, OthersHonour DEF vars, ring, pki, due
<1> QED
  BY <1>1, <1>2, <1>3, <1>4, <1>5, <1>6, <1>7, <1>8, <1>9, <1>10 DEF Next

\* HonourInv as far as it goes: until the wall clock is set.
HonourUnset == offset = 0 => HonourInv

\* Until the node's wall clock is set, a node opens setups built from every
\* descriptor of its that any verifier within Skew still accepts, for every
\* lifetime, period and skew, also when the host sleeps: the grace period of
\* newOnionKeys is long enough.
THEOREM OnionDescriptorsHonoured == Spec => []DescriptorsHonoured
<1>1. Init => HonourUnset
  BY HonourInit DEF HonourUnset
<1>2. OnceInv /\ HonourUnset /\ [Next]_vars => HonourUnset'
  BY HonourNext, OffsetStays DEF HonourUnset
<1>3. OnceInv /\ HonourUnset => DescriptorsHonoured
  <2>1. CASE offset = 0
    BY <2>1, HonourImplies DEF HonourUnset
  <2>2. CASE offset # 0
    BY <2>2 DEF DescriptorsHonoured
  <2> QED
    BY <2>1, <2>2
<1> QED
  BY <1>1, <1>2, <1>3, OnceAlways, PTL DEF Spec

-------------------------------------------------------------------------------
(***************************************************************************)
(* No key outlives its period.  Both deadlines are those of the moment the *)
(* current key was made, and the release is pending exactly while a        *)
(* replaced key is held: so what rotateIfDue finds not yet due is within   *)
(* its period by the running time, and by the wall clock unless that has   *)
(* been set.                                                               *)
(***************************************************************************)

DueClocks ==
    /\ real \in Nat /\ run \in Nat /\ offset \in Int
    /\ turned.real \in Nat /\ turned.run \in Nat

DueSet ==
    current # NoKey =>
        /\ rotateAt.run = turned.run + Every
        /\ offset = 0 => rotateAt.wall = turned.real + Every
        /\ retireAt.pending <=> previous # NoKey
        /\ previous # NoKey => /\ retireAt.run = turned.run + Grace
                               /\ offset = 0 => retireAt.wall = turned.real + Grace

DueInv == DueClocks /\ DueSet /\ NoKeyOutlivesItsPeriod

LEMMA DueInit == Init => DueInv
<1> SUFFICES ASSUME Init PROVE DueInv
  OBVIOUS
<1>1. DueClocks
  BY DEF Init, DueClocks
<1>2. rotateAt.run = Every /\ rotateAt.wall = Every
  BY TimeAssumption DEF Init, After, Wall
<1>3. DueSet
  BY <1>2, TimeAssumption DEF Init, DueSet, Never
<1>4. NoKeyOutlivesItsPeriod
  BY DEF Init, NoKeyOutlivesItsPeriod
<1> QED  BY <1>1, <1>3, <1>4 DEF DueInv

\* A new key starts both periods.
LEMMA RotateDues ==
  ASSUME OnceInv, DueInv, stage # "ringClosed", Rotate, UNCHANGED clocks
  PROVE  DueInv'
<1>1. /\ current # NoKey /\ previous' = current
      /\ turned' = [real |-> real, run |-> run]
      /\ rotateAt' = After(Every) /\ retireAt' = After(Grace)
      /\ UNCHANGED <<real, run, offset>>
  BY DEF Rotate, OnceInv, RingOrder, clocks
<1>2. /\ rotateAt'.run = run + Every /\ rotateAt'.wall = real + offset + Every
      /\ retireAt'.pending /\ retireAt'.run = run + Grace
      /\ retireAt'.wall = real + offset + Grace
      /\ turned'.real = real /\ turned'.run = run
  BY <1>1 DEF After, Wall
<1>3. real \in Nat /\ run \in Nat /\ offset \in Int
  BY DEF DueInv, DueClocks
<1>4. Grace \in Nat \ {0} /\ Every \in Nat
  BY TimeAssumption DEF Grace
<1>5. DueClocks'
  BY <1>1, <1>2, <1>3 DEF DueClocks
<1>6. DueSet'
  BY <1>1, <1>2, <1>3, <1>4 DEF DueSet
<1>7. run' - turned'.run < Grace /\ real' - turned'.real < Grace
  BY <1>1, <1>2, <1>3, <1>4
<1>8. NoKeyOutlivesItsPeriod'
  BY <1>1, <1>7 DEF NoKeyOutlivesItsPeriod, Grace
<1> QED  BY <1>5, <1>6, <1>8 DEF DueInv

\* What is not due is within its period.
LEMMA NotPassed ==
  ASSUME DueClocks, NEW d, NEW p \in Nat, ~Passed(d),
         d.run = turned.run + p, offset = 0 => d.wall = turned.real + p
  PROVE  run - turned.run < p /\ (offset = 0 => real - turned.real < p)
<1>1. ~(run >= d.run) /\ ~(real + offset >= d.wall)
  BY DEF Passed, Wall
<1>2. run - turned.run < p
  BY <1>1 DEF DueClocks
<1>3. ASSUME offset = 0 PROVE real - turned.real < p
  BY <1>1, <1>3 DEF DueClocks
<1> QED  BY <1>2, <1>3

LEMMA KeepKeyDues ==
  ASSUME OnceInv, DueInv, stage # "ringClosed", KeepKey, UNCHANGED <<clocks, stage>>
  PROVE  DueInv'
<1>1. /\ current # NoKey /\ previous' = AfterRetire
      /\ retireAt' = IF RetireDue THEN Never ELSE retireAt
      /\ checked' = ~RotateDue
      /\ UNCHANGED <<current, rotateAt, turned, real, run, offset, stage>>
  BY DEF KeepKey, OnceInv, RingOrder, clocks
<1>2. DueClocks /\ DueSet
  BY DEF DueInv
<1>3. DueClocks'
  BY <1>1, <1>2 DEF DueClocks
<1>4. Grace \in Nat /\ Every \in Nat
  BY TimeAssumption DEF Grace
<1>5. CASE RetireDue
  <2>1. previous' = NoKey /\ ~retireAt'.pending
    BY <1>1, <1>5 DEF AfterRetire, Never
  <2>2. DueSet'
    BY <1>1, <1>2, <2>1 DEF DueSet
  <2>3. ASSUME checked' PROVE run - turned.run < Every /\ (offset = 0 => real - turned.real < Every)
    <3>1. ~Passed(rotateAt)
      BY <1>1, <1>5, <2>3 DEF RotateDue
    <3>2. rotateAt.run = turned.run + Every /\ (offset = 0 => rotateAt.wall = turned.real + Every)
      BY <1>1, <1>2 DEF DueSet
    <3> QED  BY <1>2, <1>4, <3>1, <3>2, NotPassed
  <2>4. NoKeyOutlivesItsPeriod'
    BY <1>1, <2>1, <2>3 DEF NoKeyOutlivesItsPeriod
  <2> QED  BY <1>3, <2>2, <2>4 DEF DueInv
<1>6. CASE ~RetireDue
  <2>1. previous' = previous /\ retireAt' = retireAt
    BY <1>1, <1>6 DEF AfterRetire
  <2>2. DueSet'
    BY <1>1, <1>2, <2>1 DEF DueSet, Grace
  <2>3. ASSUME previous # NoKey
        PROVE  run - turned.run < Grace /\ (offset = 0 => real - turned.real < Grace)
    <3>1. /\ retireAt.pending /\ retireAt.run = turned.run + Grace
          /\ offset = 0 => retireAt.wall = turned.real + Grace
      BY <1>1, <1>2, <2>3 DEF DueSet
    <3>2. ~Passed(retireAt)
      BY <1>6, <3>1 DEF RetireDue
    <3> QED  BY <1>2, <1>4, <3>1, <3>2, NotPassed
  <2>4. ASSUME previous = NoKey, checked'
        PROVE  run - turned.run < Every /\ (offset = 0 => real - turned.real < Every)
    <3>1. /\ ~retireAt.pending /\ rotateAt.run = turned.run + Every
          /\ offset = 0 => rotateAt.wall = turned.real + Every
      BY <1>1, <1>2, <2>4 DEF DueSet
    <3>2. ~Passed(rotateAt)
      BY <1>1, <2>4, <3>1 DEF RotateDue
    <3> QED  BY <1>2, <1>4, <3>1, <3>2, NotPassed
  <2>5. NoKeyOutlivesItsPeriod'
    BY <1>1, <2>1, <2>3, <2>4 DEF NoKeyOutlivesItsPeriod, Grace
  <2> QED  BY <1>3, <2>2, <2>5 DEF DueInv
<1> QED  BY <1>5, <1>6

\* Time that passes, or a clock that is set, calls for another look.
LEMMA ClockDues ==
  ASSUME DueInv, real' \in Nat, run' \in Nat, offset' \in Int, offset' = 0 => offset = 0,
         ~checked', UNCHANGED <<current, previous, rotateAt, retireAt, turned>>
  PROVE  DueInv'
<1>1. DueClocks' /\ DueSet'
  BY DEF DueInv, DueClocks, DueSet, Grace
<1>2. NoKeyOutlivesItsPeriod'
  BY DEF NoKeyOutlivesItsPeriod
<1> QED  BY <1>1, <1>2 DEF DueInv

\* The other steps leave clocks and deadlines alone.
LEMMA OthersDue ==
  ASSUME DueInv, UNCHANGED <<clocks, current, previous, due, turned, checked>>,
         stage = "ringClosed" => stage' = "ringClosed"
  PROVE  DueInv'
<1>1. DueClocks' /\ DueSet'
  BY DEF DueInv, DueClocks, DueSet, Grace, clocks, due
<1>2. NoKeyOutlivesItsPeriod'
  BY DEF DueInv, NoKeyOutlivesItsPeriod, Grace, clocks
<1> QED  BY <1>1, <1>2 DEF DueInv

LEMMA DueNext == OnceInv /\ DueInv /\ [Next]_vars => DueInv'
<1> SUFFICES ASSUME OnceInv, DueInv, [Next]_vars PROVE DueInv'
  OBVIOUS
<1>1. CASE \E w \in Openers, s \in Setups : OpenLayer(w, s)
  BY <1>1, OthersDue DEF OpenLayer, ring
<1>2. CASE \E w \in Openers : AddTag(w)
  BY <1>2, OthersDue DEF AddTag
<1>3. CASE RotateIfDue
  <2>1. stage # "ringClosed" /\ UNCHANGED <<clocks, stage>>
    BY <1>3 DEF RotateIfDue
  <2>2. Rotate \/ KeepKey
    BY <1>3 DEF RotateIfDue
  <2> QED  BY <2>1, <2>2, RotateDues, KeepKeyDues
<1>4. CASE (\E life \in CertLives : InstallCert(life)) \/ RefreshIfDue
  BY <1>4, OthersDue DEF InstallCert, RefreshIfDue, ring
<1>5. CASE CloseRelay \/ CloseId \/ CloseKeys
  BY <1>5, OthersDue DEF CloseRelay, CloseId, CloseKeys, Stop, ring
<1>6. CASE CloseRing
  <2>1. /\ current' = NoKey /\ stage' = "ringClosed"
        /\ UNCHANGED <<real, run, offset, turned>>
    BY <1>6 DEF CloseRing, Stop, clocks
  <2> QED  BY <2>1 DEF DueInv, DueClocks, DueSet, NoKeyOutlivesItsPeriod
<1>7. CASE Advance \/ Sleep
  <2>1. PICK awake \in {0, 1} : Elapse(awake)
    BY <1>7 DEF Advance, Sleep
  <2>2. real' = real + 1 /\ run' = run + awake /\ offset' = offset
    BY <2>1 DEF Elapse
  <2>3. real' \in Nat /\ run' \in Nat /\ offset' \in Int
    BY <2>2 DEF DueInv, DueClocks
  <2> QED  BY <2>1, <2>2, <2>3, ClockDues DEF Elapse, ring, due
<1>8. CASE \E by \in Jumps : SetClock(by)
  <2>1. PICK by \in Jumps : SetClock(by)
    BY <1>8
  <2>2. offset' \in Int /\ offset' # 0 /\ UNCHANGED <<real, run>>
    BY <2>1, TimeAssumption DEF SetClock
  <2> QED  BY <2>1, <2>2, ClockDues DEF SetClock, ring, due, DueInv, DueClocks
<1>9. CASE UNCHANGED vars
  BY <1>9, OthersDue DEF vars, ring
<1> QED
  BY <1>1, <1>2, <1>3, <1>4, <1>5, <1>6, <1>7, <1>8, <1>9 DEF Next

\* Once rotateIfDue has looked, the replaced key of the ring is within its grace
\* period or, with none held, the published one within its own, for every
\* period, lifetime and skew, however long the host slept and wherever its wall
\* clock was set.
THEOREM OnionNoKeyOutlivesItsPeriod == Spec => []NoKeyOutlivesItsPeriod
<1>1. DueInv => NoKeyOutlivesItsPeriod
  BY DEF DueInv
<1> QED  BY <1>1, DueInit, DueNext, OnceAlways, PTL DEF Spec

-------------------------------------------------------------------------------
(***************************************************************************)
(* Types.  The tags of a key are finitely many and never more than the     *)
(* cache holds, and every descriptor ever served has a lifetime.           *)
(***************************************************************************)

ClockType ==
    /\ real \in 0 .. MaxTime /\ run \in 0 .. real
    /\ offset \in Jumps \cup {0} /\ Wall >= 0

CacheBounded ==
    \A k \in Epochs : IsFiniteSet(seen[k]) /\ Cardinality(seen[k]) <= CacheSize

SignType ==
    /\ notAfter \in Nat
    /\ signedState \in {"none", "valid", "expired"}
    /\ out \in signed \cup {NoDesc}
    /\ \A d \in signed : d.epoch \in Epochs /\ d.published < d.expires

OnionType == ClockType /\ CacheBounded /\ SignType /\ stage \in Stages /\ checked \in BOOLEAN

LEMMA ClockInts ==
  ASSUME ClockType
  PROVE  real \in Nat /\ run \in Nat /\ offset \in Int /\ Wall \in Nat
<1>1. offset \in Int /\ real \in Nat /\ run \in Nat
  BY TimeAssumption DEF ClockType
<1> QED  BY <1>1 DEF ClockType, Wall

LEMMA TypeInit == Init => OnionType
<1> SUFFICES ASSUME Init PROVE OnionType
  OBVIOUS
<1>1. ClockType
  BY TimeAssumption DEF Init, ClockType, Wall
<1>2. CacheBounded
  BY FS_EmptySet, CacheAssumption DEF Init, CacheBounded
<1>3. SignType /\ stage \in Stages /\ checked \in BOOLEAN
  BY DEF Init, SignType, Stages
<1> QED  BY <1>1, <1>2, <1>3 DEF OnionType

\* A wall clock that is not before the epoch shows no negative second.
LEMMA UnixNat ==
  ASSUME NEW a \in Nat
  PROVE  Unix(a) \in Nat
<1>1. Unix(a) \in Int /\ a < Second * Unix(a) + Second /\ Second \in Nat \ {0}
  BY DivBounds, TimeAssumption
<1> DEFINE q == Unix(a)
<1> HIDE DEF q
<1>2. q \in Int /\ a < Second * q + Second
  BY <1>1 DEF q
<1>3. SUFFICES ASSUME q <= -1 PROVE FALSE
  BY <1>2 DEF q
<1>4. -1 - q \in Nat
  BY <1>2, <1>3
<1>5. Second * (-1 - q) >= 0
  BY <1>1, <1>4
<1>6. Second * (-1 - q) = -(Second * q) - Second /\ Second * q \in Int
  BY <1>1, <1>2
<1> QED  BY <1>1, <1>2, <1>5, <1>6

LEMMA SignTypes ==
  ASSUME SignType, NEW epoch \in Epochs \cup {NoKey}, NEW until, NEW state,
         state \in {"none", "valid", "expired"}, Sign(epoch, until, state),
         notAfter' \in Nat
  PROVE  SignType'
<1>1. signedState' = state
  BY DEF Sign
<1>2. CASE UNCHANGED <<out, signed>>
  BY <1>1, <1>2 DEF SignType
<1>3. CASE /\ CanSign(epoch, until)
           /\ out' = Fresh(epoch, until)
           /\ signed' = signed \cup {Fresh(epoch, until)}
  <2>1. /\ epoch \in Epochs
        /\ Fresh(epoch, until).epoch = epoch
        /\ Fresh(epoch, until).published < Fresh(epoch, until).expires
    BY <1>3 DEF CanSign, Fresh
  <2> QED  BY <1>1, <1>3, <2>1 DEF SignType
<1> QED  BY <1>2, <1>3 DEF Sign

LEMMA CertStates == CertState \in {"none", "valid", "expired"}
  BY DEF CertState

\* A key's tags grow by one while there is room.
LEMMA AddTagBounded ==
  ASSUME OnceInv, CacheBounded, NEW w \in Openers, AddTag(w)
  PROVE  CacheBounded'
<1> DEFINE s == opening[w]
           k == s.key
           T == seen[k]
<1>1. s \in Setups /\ k \in Epochs
  BY DEF OnceInv, RingType, AddTag, Setups
<1>2. CASE Known(s) \/ CacheFull(k)
  <2>1. seen' = seen
    BY <1>2 DEF AddTag
  <2> QED  BY <2>1 DEF CacheBounded
<1>3. CASE ~(Known(s) \/ CacheFull(k))
  <2>1. seen' = [seen EXCEPT ![k] = @ \cup {s.tag}]
    BY <1>3 DEF AddTag
  <2>2. IsFiniteSet(T) /\ s.tag \notin T /\ ~(Cardinality(T) >= CacheSize)
    BY <1>1, <1>3 DEF CacheBounded, Known, CacheFull
  <2>3. /\ IsFiniteSet(T \cup {s.tag})
        /\ Cardinality(T \cup {s.tag}) = Cardinality(T) + 1
    BY <2>2, FS_AddElement
  <2>4. Cardinality(T) \in Nat /\ CacheSize \in Nat
    BY <2>2, FS_CardinalityType, CacheAssumption
  <2>5. Cardinality(T \cup {s.tag}) <= CacheSize
    BY <2>2, <2>3, <2>4
  <2>6. seen'[k] = T \cup {s.tag} /\ \A j \in Epochs \ {k} : seen'[j] = seen[j]
    BY <1>1, <2>1 DEF OnceInv, RingType
  <2> QED  BY <2>3, <2>5, <2>6 DEF CacheBounded
<1> QED  BY <1>2, <1>3

LEMMA ForgetBounded ==
  ASSUME CacheBounded, NEW kept, seen' = Forget(kept)
  PROVE  CacheBounded'
<1>1. \A k \in Epochs : seen'[k] = seen[k] \/ seen'[k] = {}
  BY DEF Forget
<1>2. IsFiniteSet({}) /\ Cardinality({}) <= CacheSize
  BY FS_EmptySet, CacheAssumption
<1> QED  BY <1>1, <1>2 DEF CacheBounded

LEMMA TypeStep == OnceInv /\ OnionType /\ [Next]_vars => OnionType'
<1> SUFFICES ASSUME OnceInv, OnionType, [Next]_vars PROVE OnionType'
  OBVIOUS
<1> USE DEF OnionType
<1>1. ASSUME UNCHANGED clocks PROVE ClockType'
  BY <1>1 DEF ClockType, Wall, clocks
<1>2. ASSUME UNCHANGED pki PROVE SignType'
  BY <1>2 DEF SignType, pki
<1>3. ASSUME UNCHANGED ring PROVE CacheBounded'
  BY <1>3 DEF CacheBounded, ring
<1>4. CASE \E w \in Openers, s \in Setups : OpenLayer(w, s)
  BY <1>1, <1>2, <1>3, <1>4 DEF OpenLayer
<1>5. ASSUME NEW w \in Openers, AddTag(w) PROVE OnionType'
  <2>1. UNCHANGED <<clocks, pki, stage, checked>>
    BY <1>5 DEF AddTag
  <2>2. CacheBounded'
    BY <1>5, AddTagBounded
  <2> QED  BY <1>1, <1>2, <2>1, <2>2
<1>6. CASE RotateIfDue
  <2>1. UNCHANGED <<clocks, notAfter, stage>> /\ stage # "ringClosed" /\ (Rotate \/ KeepKey)
    BY <1>6 DEF RotateIfDue
  <2>2. CASE Rotate
    <3>1. CacheBounded' /\ checked' \in BOOLEAN
      BY <2>2, ForgetBounded DEF Rotate
    <3>2. current + 1 \in Epochs
      BY <2>1, <2>2, TimeAssumption DEF Rotate, OnceInv, RingOrder, RingType, Epochs, NoKey
    <3>3. SignType'
      <4>1. CASE Sign(current + 1, notAfter, "valid")
        BY <2>1, <3>2, <4>1, SignTypes DEF SignType
      <4>2. CASE UNCHANGED <<signedState, out, signed>>
        BY <1>2, <2>1, <4>2 DEF pki
      <4> QED  BY <2>2, <4>1, <4>2 DEF Rotate
    <3> QED  BY <1>1, <2>1, <3>1, <3>3
  <2>3. CASE KeepKey
    <3>1. CacheBounded' /\ checked' \in BOOLEAN
      BY <2>3, ForgetBounded DEF KeepKey, RotateDue
    <3>2. UNCHANGED pki
      BY <2>1, <2>3 DEF KeepKey, pki
    <3> QED  BY <1>1, <1>2, <2>1, <3>1, <3>2
  <2> QED  BY <2>1, <2>2, <2>3
<1>7. ASSUME NEW life \in CertLives, InstallCert(life) PROVE OnionType'
  <2>1. /\ UNCHANGED <<clocks, ring, stage, checked>>
        /\ Sign(current, Unix(Wall) + life, "valid")
        /\ notAfter' = Unix(Wall) + life
    BY <1>7 DEF InstallCert
  <2>2. Unix(Wall) \in Nat /\ life \in Nat
    BY ClockInts, UnixNat, TimeAssumption
  <2>3. notAfter' \in Nat
    BY <2>1, <2>2
  <2>4. current \in Epochs \cup {NoKey}
    BY DEF OnceInv, RingType
  <2>5. SignType'
    BY <2>1, <2>3, <2>4, SignTypes
  <2> QED  BY <1>1, <1>3, <2>1, <2>5
<1>8. CASE RefreshIfDue
  <2>1. /\ UNCHANGED <<clocks, ring, stage, checked, notAfter>>
        /\ Sign(current, notAfter, CertState)
    BY <1>8 DEF RefreshIfDue
  <2>2. current \in Epochs \cup {NoKey} /\ notAfter' \in Nat
    BY <2>1 DEF OnceInv, RingType, SignType
  <2>3. SignType'
    BY <2>1, <2>2, CertStates, SignTypes
  <2> QED  BY <1>1, <1>3, <2>1, <2>3
<1>9. CASE CloseRelay \/ CloseId \/ CloseKeys
  BY <1>1, <1>2, <1>3, <1>9 DEF CloseRelay, CloseId, CloseKeys, Stop, Stages
<1>10. CASE CloseRing
  <2>1. UNCHANGED <<clocks, pki, checked>> /\ stage' \in Stages /\ CacheBounded'
    BY <1>10, ForgetBounded DEF CloseRing, Stop, Stages
  <2> QED  BY <1>1, <1>2, <2>1
<1>11. CASE Advance \/ Sleep
  <2>1. PICK awake \in {0, 1} : Elapse(awake)
    BY <1>11 DEF Advance, Sleep
  <2>2. UNCHANGED <<ring, pki, stage>> /\ checked' \in BOOLEAN
    BY <2>1 DEF Elapse
  <2>3. real' = real + 1 /\ run' = run + awake /\ offset' = offset /\ real < MaxTime
    BY <2>1 DEF Elapse
  <2>4. real' \in 0 .. MaxTime /\ run' \in 0 .. real' /\ offset' \in Jumps \cup {0}
    BY <2>3, TimeAssumption DEF ClockType
  <2>5. real' + offset' >= 0
    BY <2>3, ClockInts DEF Wall
  <2>6. ClockType'
    BY <2>4, <2>5 DEF ClockType, Wall
  <2> QED  BY <1>2, <1>3, <2>2, <2>6
<1>12. ASSUME NEW by \in Jumps, SetClock(by) PROVE OnionType'
  <2>1. UNCHANGED <<ring, pki, stage>> /\ checked' \in BOOLEAN
    BY <1>12 DEF SetClock
  <2>2. offset = 0 /\ real + offset + by >= 0 /\ offset' = by /\ UNCHANGED <<real, run>>
    BY <1>12 DEF SetClock, Wall
  <2>3. real' + offset' >= 0
    BY <2>2, ClockInts, TimeAssumption
  <2>4. ClockType'
    BY <2>2, <2>3 DEF ClockType, Wall
  <2> QED  BY <1>2, <1>3, <2>1, <2>4
<1>13. CASE UNCHANGED vars
  BY <1>1, <1>2, <1>3, <1>13 DEF vars
<1> QED
  BY <1>4, <1>5, <1>6, <1>7, <1>8, <1>9, <1>10, <1>11, <1>12, <1>13 DEF Next

\* The ring, the caches, the certificate and every descriptor ever served stay
\* well formed: no cache grows past its size (SetupCache.Add) and nothing is
\* served that was over when it was signed (Identity.Refresh).
THEOREM OnionTypeCorrect == Spec => []TypeOK
<1>1. OnceInv /\ OnionType => TypeOK
  BY DEF OnceInv, RingType, OnionType, ClockType, CacheBounded, SignType, TypeOK
<1> QED  BY <1>1, TypeInit, TypeStep, OnceAlways, PTL DEF Spec

================================================================================

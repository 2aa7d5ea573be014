------------------------------- MODULE OnionKeys -------------------------------
(***************************************************************************)
(* The onion keys of one relay that rotates them (-onion-rotate > 0) and   *)
(* signs descriptors under a certificate (-auth).                          *)
(*                                                                         *)
(*   - relay/onion.go: the ring of the published key and the one before    *)
(*     it, each with the tags of the setups it opened;                     *)
(*   - wire/replay.go: SetupCache;                                         *)
(*   - cmd/relay/onion.go: when a key is replaced and released;            *)
(*   - cmd/relay/admin.go, pki/identity.go: which descriptors name a key,  *)
(*     and pki/verify.go: for how long somebody accepts them.              *)
(*                                                                         *)
(* A key is the epoch it is published under: GenerateEphemeral never       *)
(* returns a key twice.  A setup cell is the key it was built for and its  *)
(* tag; it opens under that key alone, since the public half is part of    *)
(* the transcript.                                                         *)
(*                                                                         *)
(* Time is counted in units of which Second make one unix second.  `real`  *)
(* is the time that passes, `run` the part of it the host is awake (the    *)
(* monotonic clock), Wall the node's wall clock, which can be set.         *)
(***************************************************************************)
EXTENDS Integers, FiniteSets

CONSTANTS
    Openers,    \* handlers that may be inside OnionRing.Open at once
    Tags,       \* the tags setups are told apart by
    CacheSize,  \* setups remembered per key
    Second,     \* clock units in a unix second
    TTL,        \* -descriptor-ttl
    Every,      \* -onion-rotate
    Skew,       \* pki.Skew
    CertLives,  \* how long the certificate may be valid once installed
    Sleeps,     \* whether the host may sleep
    Jumps,      \* by how much the wall clock may be set, once
    MaxTime,    \* bound on real
    MaxEpoch    \* bound on the keys made

ASSUME CacheAssumption == CacheSize \in Nat \ {0}

\* checkRotateFlags refuses a shorter period, checkTTL a ttl of zero.
ASSUME TimeAssumption ==
    /\ Second \in Nat \ {0} /\ TTL \in Nat \ {0} /\ Skew \in Nat
    /\ Every \in Nat /\ Every >= TTL
    /\ MaxTime \in Nat /\ MaxEpoch \in Nat
    /\ CertLives \subseteq Nat \ {0}
    /\ Jumps \subseteq Int /\ Sleeps \in BOOLEAN

VARIABLES
    real, run, offset,  \* the clocks; the wall clock is real + offset
    current, previous,  \* the two slots of the ring
    seen,               \* the setup tags each held key has opened
    opening,            \* what each opener is in the middle of
    opened,             \* how often each setup was let through (history)
    rotateAt, retireAt, \* the two deadlines
    notAfter,           \* of the installed certificate, 0 before that
    signedState,        \* certState at the last signing
    out,                \* the descriptor in service
    signed,             \* every descriptor ever served: others keep copies
    stage,              \* how far the process is with shutting down
    turned,             \* clocks when the current key was made (history)
    checked             \* nothing happened since rotateIfDue (history)

clocks == <<real, run, offset>>
ring == <<current, previous, seen>>
setups == <<opening, opened>>
pki == <<notAfter, signedState, out, signed>>
due == <<rotateAt, retireAt>>
vars == <<clocks, ring, setups, pki, due, stage, turned, checked>>

NoKey == -1
Epochs == 0 .. MaxEpoch
Setups == [key : Epochs, tag : Tags]
Idle == [key |-> NoKey, tag |-> "none"]
NoDesc == [epoch |-> NoKey, published |-> 0, expires |-> 0]
Stages == {"running", "relayClosed", "idClosed", "keysClosed", "ringClosed"}

Held == {current, previous} \ {NoKey}

\* Time.Unix of a clock reading.
Unix(t) == t \div Second

Wall == real + offset

-------------------------------------------------------------------------------
(* Deadlines: passed once either clock says so. *)

Never == [pending |-> FALSE, wall |-> 0, run |-> 0]

After(d) == [pending |-> TRUE, wall |-> Wall + d, run |-> run + d]

\* Mutant: the running time alone.
PassedByRun(d) == run >= d.run

Passed(d) == Wall >= d.wall \/ run >= d.run

\* How long a replaced key still opens setups.
Grace == TTL + Skew

-------------------------------------------------------------------------------
(* Descriptors. *)

CertState ==
    CASE notAfter = 0            -> "none"
      [] Unix(Wall) >= notAfter  -> "expired"
      [] OTHER                   -> "valid"

Min(a, b) == IF a <= b THEN a ELSE b

\* Identity.Refresh: what signing now yields for the key `epoch`.
Fresh(epoch, until) ==
    [epoch     |-> epoch,
     published |-> Unix(Wall),
     expires   |-> Min(Unix(Wall + TTL), until)]

\* Refresh refuses without an identity key, without an onion key (a closed
\* ring names none), past the certificate, and an empty lifetime.
CanSign(epoch, until) ==
    /\ stage \in {"running", "relayClosed"}
    /\ epoch # NoKey
    /\ Unix(Wall) < until
    /\ Unix(Wall) < Fresh(epoch, until).expires

\* node.sign under the certificate valid until `until`, naming `epoch`: the
\* bundle in service is replaced only by a signing that succeeded.
Sign(epoch, until, state) ==
    /\ signedState' = state
    /\ \/ /\ CanSign(epoch, until)
          /\ out' = Fresh(epoch, until)
          /\ signed' = signed \cup {Fresh(epoch, until)}
       \/ UNCHANGED <<out, signed>>

\* pki.Verify at a verifier whose clock shows `clock`.
Accepts(d, clock) ==
    /\ Unix(clock + Skew) >= d.published
    /\ Unix(clock) < d.expires

-------------------------------------------------------------------------------
TypeOK ==
    /\ real \in 0 .. MaxTime /\ run \in 0 .. real
    /\ offset \in Jumps \cup {0} /\ Wall >= 0
    /\ current \in Epochs \cup {NoKey} /\ previous \in Epochs \cup {NoKey}
    /\ seen \in [Epochs -> SUBSET Tags]
    /\ \A k \in Epochs : Cardinality(seen[k]) <= CacheSize
    /\ opening \in [Openers -> Setups \cup {Idle}]
    /\ opened \in [Setups -> Nat]
    /\ notAfter \in Nat
    /\ signedState \in {"none", "valid", "expired"}
    /\ out \in signed \cup {NoDesc}
    /\ \A d \in signed : d.epoch \in Epochs /\ d.published < d.expires
    /\ stage \in Stages
    /\ checked \in BOOLEAN

\* run: NewOnionRing with the first key, newOnionKeys.
Init ==
    /\ real = 0 /\ run = 0 /\ offset = 0
    /\ current = 0 /\ previous = NoKey
    /\ seen = [k \in Epochs |-> {}]
    /\ opening = [w \in Openers |-> Idle]
    /\ opened = [s \in Setups |-> 0]
    /\ rotateAt = After(Every) /\ retireAt = Never
    /\ notAfter = 0 /\ signedState = "none"
    /\ out = NoDesc /\ signed = {}
    /\ stage = "running"
    /\ turned = [real |-> 0, run |-> 0]
    /\ checked = FALSE

-------------------------------------------------------------------------------
(* OnionRing.Open: the read lock is held from the first key tried until    *)
(* the tag is in the cache of the key that opened.                         *)

\* The layer opens under the held key it was built for; under no held key, or
\* once the ring is closed, Open fails and changes nothing.
OpenLayer(w, s) ==
    /\ stage = "running"
    /\ opening[w] = Idle
    /\ s.key \in Held
    /\ opening' = [opening EXCEPT ![w] = s]
    /\ UNCHANGED <<clocks, ring, opened, pki, due, stage, turned, checked>>

\* SetupCache.Add.  Mutant: no limit.
NeverFull(k) == FALSE

CacheFull(k) == Cardinality(seen[k]) >= CacheSize

Known(s) == s.tag \in seen[s.key]

\* Mutant: the tag goes to the key published now, whichever opened.
AddTagToCurrent(w) ==
    /\ opening[w] # Idle
    /\ LET s == opening[w]
           k == current
       IN IF s.tag \in seen[k] \/ CacheFull(k)
          THEN UNCHANGED <<seen, opened>>
          ELSE /\ seen' = [seen EXCEPT ![k] = @ \cup {s.tag}]
               /\ opened' = [opened EXCEPT ![s] = @ + 1]
    /\ opening' = [opening EXCEPT ![w] = Idle]
    /\ UNCHANGED <<clocks, current, previous, pki, due, stage, turned, checked>>

\* The tag is burned and the setup let through, or it is refused as a copy or
\* because the cache is full.
AddTag(w) ==
    /\ opening[w] # Idle
    /\ LET s == opening[w]
       IN IF Known(s) \/ CacheFull(s.key)
          THEN UNCHANGED <<seen, opened>>
          ELSE /\ seen' = [seen EXCEPT ![s.key] = @ \cup {s.tag}]
               /\ opened' = [opened EXCEPT ![s] = @ + 1]
    /\ opening' = [opening EXCEPT ![w] = Idle]
    /\ UNCHANGED <<clocks, current, previous, pki, due, stage, turned, checked>>

-------------------------------------------------------------------------------
(* rotateIfDue: under the node's mu from end to end.  Retire and Rotate    *)
(* take the ring's write lock, so they wait for the setups being opened.   *)
(* A setup that opens between the two finds what it finds just before or   *)
(* just after the whole handler, so the handler is one step.               *)

\* Mutant: they do not wait.
Unlocked == TRUE

WriteLock == \A w \in Openers : opening[w] = Idle

RetireDue == retireAt.pending /\ Passed(retireAt)

\* A rotation before the release would free a key others are still told of.
\* Mutant: it does.
RotateAnyTime == Passed(rotateAt)

RotateDue == Passed(rotateAt) /\ (retireAt.pending => RetireDue)

\* What the ring holds and when it is next due, once RetireDue is acted on.
AfterRetire == IF RetireDue THEN NoKey ELSE previous

\* The tags go with the key.
Forget(kept) == [k \in Epochs |-> IF k \in kept THEN seen[k] ELSE {}]

\* OnionRing.Rotate, the new deadlines, publishOnion.
Rotate ==
    /\ RotateDue /\ WriteLock
    /\ current < MaxEpoch
    /\ current' = current + 1 /\ previous' = current
    /\ seen' = Forget({current})
    /\ rotateAt' = After(Every) /\ retireAt' = After(Grace)
    /\ turned' = [real |-> real, run |-> run]
    /\ IF CertState = "valid"
       THEN Sign(current + 1, notAfter, "valid")
       ELSE UNCHANGED <<signedState, out, signed>>
    /\ checked' = TRUE

\* Nothing to replace, or no key could be made: the published one stays, and
\* both deadlines, so the next look tries again.
KeepKey ==
    /\ RetireDue => WriteLock
    /\ previous' = AfterRetire
    /\ seen' = Forget({current, AfterRetire})
    /\ retireAt' = IF RetireDue THEN Never ELSE retireAt
    /\ UNCHANGED <<current, rotateAt, turned, signedState, out, signed>>
    /\ checked' = ~RotateDue

RotateIfDue ==
    /\ stage \in {"running", "relayClosed", "idClosed"}
    /\ Rotate \/ KeepKey
    /\ UNCHANGED <<clocks, setups, notAfter, stage>>

-------------------------------------------------------------------------------
(* Certificate and signing timer. *)

\* handleCert: the first certificate, valid for `life`; later ones are
\* refused.
InstallCert(life) ==
    /\ stage \in {"running", "relayClosed"}
    /\ notAfter = 0
    /\ notAfter' = Unix(Wall) + life
    /\ Sign(current, Unix(Wall) + life, "valid")
    /\ UNCHANGED <<clocks, ring, setups, due, stage, turned, checked>>

\* The descriptor in service has reached half its lifetime.
RefreshDue == out = NoDesc \/ Unix(Wall) - out.published >= Unix(TTL \div 2)

RefreshIfDue ==
    /\ CertState # "none"
    /\ ~(CertState = "expired" /\ signedState = "expired")
    /\ RefreshDue \/ CertState # signedState
    /\ Sign(current, notAfter, CertState)
    /\ UNCHANGED <<clocks, ring, setups, notAfter, due, stage, turned, checked>>

-------------------------------------------------------------------------------
(* run's deferred calls, the last one first: Relay.Close waits for the     *)
(* handlers, then Identity.Close, then closeOnion in its two parts.  The   *)
(* signing timer runs on until the process is gone.                        *)

Stop(from, to) ==
    /\ stage = from
    /\ stage' = to
    /\ UNCHANGED <<clocks, setups, pki, due, turned, checked>>

CloseRelay ==
    /\ \A w \in Openers : opening[w] = Idle
    /\ Stop("running", "relayClosed")
    /\ UNCHANGED ring

CloseId == Stop("relayClosed", "idClosed") /\ UNCHANGED ring

CloseKeys == Stop("idClosed", "keysClosed") /\ UNCHANGED ring

CloseRing ==
    /\ WriteLock
    /\ Stop("keysClosed", "ringClosed")
    /\ current' = NoKey /\ previous' = NoKey
    /\ seen' = Forget({})

-------------------------------------------------------------------------------
(* The clocks. *)

Elapse(awake) ==
    /\ real < MaxTime
    /\ real' = real + 1
    /\ run' = run + awake
    /\ checked' = FALSE
    /\ UNCHANGED <<offset, ring, setups, pki, due, stage, turned>>

Advance == Elapse(1)

Sleep == Sleeps /\ Elapse(0)

SetClock(by) ==
    /\ offset = 0 /\ by # 0
    /\ Wall + by >= 0
    /\ offset' = by
    /\ checked' = FALSE
    /\ UNCHANGED <<real, run, ring, setups, pki, due, stage, turned>>

-------------------------------------------------------------------------------
Next ==
    \/ \E w \in Openers, s \in Setups : OpenLayer(w, s)
    \/ \E w \in Openers : AddTag(w)
    \/ RotateIfDue
    \/ \E life \in CertLives : InstallCert(life)
    \/ RefreshIfDue
    \/ CloseRelay \/ CloseId \/ CloseKeys \/ CloseRing
    \/ Advance \/ Sleep
    \/ \E by \in Jumps : SetClock(by)

Spec == Init /\ [][Next]_vars

-------------------------------------------------------------------------------
(* Properties. *)

\* A setup cell goes through at most once however many copies of it arrive,
\* on whichever links and around whichever rotations: the tags of a key live
\* exactly as long as the key (OnionRing.Open, Rotate, Retire).
SetupOnce == \A s \in Setups : opened[s] <= 1

\* A key under which a setup is being opened is not released until the setup
\* is through (Open's read lock against Rotate, Retire and Close).
KeysInUseHeld == \A w \in Openers : opening[w] # Idle => opening[w].key \in Held

\* Whoever's clock is within Skew of the node's, and whatever copy of whatever
\* descriptor it holds: if it accepts the descriptor, the node still opens
\* setups built from it, as long as nobody has set the node's wall clock (the
\* grace period of newOnionKeys, and rotateIfDue's waiting for the release).
DescriptorsHonoured ==
    stage # "ringClosed" /\ offset = 0 =>
        \A d \in signed, lag \in -Skew .. Skew :
            Accepts(d, Wall - lag) => d.epoch \in Held

\* Once rotateIfDue has looked, the replaced key is gone if its grace period
\* is over, and with no replaced key held the published one is new if its
\* period is over (a rotation waits for the release), whether the host slept
\* through the end of it or its clock was set back meanwhile (deadline.passed).
NoKeyOutlivesItsPeriod ==
    checked /\ stage # "ringClosed" =>
        LET awake == run - turned.run
            age   == real - turned.real
        IN /\ previous # NoKey =>
                /\ awake < Grace
                /\ offset = 0 => age < Grace
           /\ previous = NoKey =>
                /\ awake < Every
                /\ offset = 0 => age < Every

================================================================================

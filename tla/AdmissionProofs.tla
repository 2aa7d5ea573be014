-------------------------- MODULE AdmissionProofs --------------------------
(***************************************************************************)
(* For every number of connections and addresses and every setting of the  *)
(* limits: the caps hold because the counters count the connections there  *)
(* are, forgetting a source gives it nothing back, and no record stays     *)
(* without a link or a timer.                                              *)
(*                                                                         *)
(* None of the three is inductive alone.  A source may be forgotten only   *)
(* when it has no link open, and that no handshake of it is counted then   *)
(* follows from counting connections; the counters stay right because what *)
(* is forgotten was zero.  So one invariant carries all three, with what   *)
(* an address without a record looks like (Sound) and that no record is    *)
(* made while every limit per source is off.                               *)
(***************************************************************************)
EXTENDS Admission, FiniteSetTheorems, TLAPS

\* A record beside the tokens its address has, but for the timer that is due
\* once the last link is gone.
Loose(r, a) ==
  /\ r \in Records
  /\ a \in Buckets
  /\ LinkRate => r.links = a.links
  /\ SetupRate => r.setups = a.setups
  /\ r.timers = (IF r.forgetting THEN 1 ELSE 0)

\* A record between two operations; an address without one has no link, no
\* timer and full buckets.
Sound(r, a) ==
  /\ Loose(r, a)
  /\ r.known /\ r.open = 0 => r.forgetting
  /\ ~r.known => r.open = 0 /\ r.handshaking = 0 /\ ~r.forgetting /\ Full(r)

RecordsSound == \A s \in Sources : Sound(sources[s], allowance[s])

NoneWithoutLimits == ~PerSourceOn => \A s \in Sources : ~sources[s].known

AdmissionInv == CapsAccounted /\ RecordsSound /\ NoneWithoutLimits

-----------------------------------------------------------------------------
(* Records. *)

\* The changes the operations make to a record leave it a record.
LEMMA RecordEdits ==
  ASSUME NEW r \in Records
  PROVE  /\ [r EXCEPT !.known = TRUE] \in Records
         /\ \A b \in BOOLEAN, n \in Nat :
              [r EXCEPT !.forgetting = b, !.timers = n] \in Records
         /\ \A b \in BOOLEAN, n \in Nat :
              [r EXCEPT !.timers = n, !.forgetting = b] \in Records
         /\ \A n, m \in Nat : [r EXCEPT !.open = n, !.handshaking = m] \in Records
         /\ \A n \in Nat : /\ [r EXCEPT !.open = n] \in Records
                          /\ [r EXCEPT !.handshaking = n] \in Records
<1>1. [r EXCEPT !.known = TRUE] \in Records
  BY DEF Records
<1>2. \A b \in BOOLEAN, n \in Nat : [r EXCEPT !.forgetting = b, !.timers = n] \in Records
  BY DEF Records
<1>3. \A b \in BOOLEAN, n \in Nat : [r EXCEPT !.timers = n, !.forgetting = b] \in Records
  BY DEF Records
<1>4. \A n, m \in Nat : [r EXCEPT !.open = n, !.handshaking = m] \in Records
  BY DEF Records
<1>5. \A n \in Nat : [r EXCEPT !.open = n] \in Records
  BY DEF Records
<1>6. \A n \in Nat : [r EXCEPT !.handshaking = n] \in Records
  BY DEF Records
<1> QED  BY <1>1, <1>2, <1>3, <1>4, <1>5, <1>6

\* An address that is not known has its full allowance, and so has NoRecord.
LEMMA BlankSound ==
  ASSUME NEW a \in Buckets, LinkRate => a.links = LinkBurst, SetupRate => a.setups = SetupBurst
  PROVE  Sound(NoRecord, a) /\ Loose([NoRecord EXCEPT !.known = TRUE], a)
<1> USE AdmissionAssumption
<1>1. NoRecord \in Records
  BY DEF NoRecord, Records
<1>2. [NoRecord EXCEPT !.known = TRUE] \in Records
  BY <1>1, RecordEdits
<1>3. Loose(NoRecord, a) /\ Full(NoRecord)
  BY <1>1 DEF Loose, NoRecord, Full
<1>4. Loose([NoRecord EXCEPT !.known = TRUE], a)
  BY <1>2 DEF Loose, NoRecord
<1> QED  BY <1>3, <1>4 DEF Sound, NoRecord

\* settle: what is left of a record without open handshakes and links is
\* sound, and has the links and handshakes it had.
LEMMA SettleSound ==
  ASSUME NEW r, NEW a, Loose(r, a), r.known, r.handshaking <= r.open
  PROVE  /\ Sound(Settle(r), a)
         /\ Settle(r).open = r.open
         /\ Settle(r).handshaking = r.handshaking
<1> USE AdmissionAssumption
<1>1. CASE r.open > 0 \/ r.forgetting
  <2>1. Settle(r) = r
    BY <1>1 DEF Settle
  <2> QED  BY <1>1, <2>1 DEF Sound, Loose, Records
<1>2. CASE ~(r.open > 0 \/ r.forgetting) /\ Full(r)
  <2>1. Settle(r) = NoRecord /\ r.open = 0 /\ r.handshaking = 0
    BY <1>2 DEF Settle, Loose, Records
  <2>2. Sound(NoRecord, a)
    BY <1>2, BlankSound DEF Loose, Full
  <2> QED  BY <2>1, <2>2 DEF NoRecord
<1>3. CASE ~(r.open > 0 \/ r.forgetting) /\ ~Full(r)
  <2>1. Settle(r) = [r EXCEPT !.forgetting = TRUE, !.timers = r.timers + 1]
    BY <1>3 DEF Settle
  <2>2. Settle(r) \in Records
    <3>1. r.timers + 1 \in Nat /\ r \in Records
      BY DEF Loose, Records
    <3> QED  BY <2>1, <3>1, RecordEdits
  <2>3. r.forgetting = FALSE /\ r.timers = 0
    BY <1>3 DEF Loose, Records
  <2>4. /\ Settle(r).known /\ Settle(r).open = r.open
        /\ Settle(r).links = r.links /\ Settle(r).setups = r.setups
        /\ Settle(r).handshaking = r.handshaking
    BY <2>1 DEF Loose, Records
  <2>5. Settle(r).forgetting
    BY <2>1 DEF Loose, Records
  <2>6. Settle(r).timers = 1
    BY <2>1, <2>3 DEF Loose, Records
  <2> QED  BY <2>2, <2>4, <2>5, <2>6 DEF Sound, Loose
<1> QED  BY <1>1, <1>2, <1>3

\* The record of an address, made if there is none, holds the tokens the
\* address has, and no links or handshakes but the ones counted.
LEMMA RecordLoose ==
  ASSUME NEW s \in Sources, RecordsSound
  PROVE  /\ Loose(Record(s), allowance[s])
         /\ Record(s).known
         /\ Record(s).open = sources[s].open
         /\ Record(s).handshaking = sources[s].handshaking
<1>1. Sound(sources[s], allowance[s])
  BY DEF RecordsSound
<1>2. CASE sources[s].known
  BY <1>1, <1>2 DEF Record, Sound
<1>3. CASE ~sources[s].known
  <2>1. Loose([NoRecord EXCEPT !.known = TRUE], allowance[s])
    BY <1>1, <1>3, BlankSound DEF Sound, Loose, Full
  <2> QED  BY <1>1, <1>3, <2>1 DEF Record, Sound, NoRecord
<1> QED  BY <1>2, <1>3

\* A token taken from the record is one the address has spent.
LEMMA TakeLoose ==
  ASSUME NEW r, NEW a, Loose(r, a), HasToken(r)
  PROVE  /\ Loose(TakeToken(r), IF LinkRate THEN [a EXCEPT !.links = a.links - 1] ELSE a)
         /\ TakeToken(r).known = r.known
         /\ TakeToken(r).open = r.open
         /\ TakeToken(r).handshaking = r.handshaking
         /\ TakeToken(r).forgetting = r.forgetting
BY AdmissionAssumption DEF Loose, HasToken, TakeToken, Records, Buckets

-----------------------------------------------------------------------------
(* The table. *)

\* One record and its tokens change; the others stay sound, and the table has
\* room for one it did not hold.
LEMMA OneRecord ==
  ASSUME TypeOK, RecordsSound, Cardinality(Known) <= SourceCap,
         NEW s \in Sources, NEW r, NEW a, Sound(r, a),
         sources' = [sources EXCEPT ![s] = r],
         allowance' = [allowance EXCEPT ![s] = a],
         r.known => ~TableFull(s)
  PROVE  /\ RecordsSound'
         /\ sources' \in [Sources -> Records]
         /\ allowance' \in [Sources -> Buckets]
         /\ (Cardinality(Known) <= SourceCap)'
<1>1. sources' \in [Sources -> Records] /\ allowance' \in [Sources -> Buckets]
  BY DEF TypeOK, Sound, Loose
<1>2. RecordsSound'
  BY <1>1 DEF TypeOK, RecordsSound
<1>3. IsFiniteSet(Known) /\ IsFiniteSet(Known') /\ Cardinality(Known) \in Nat
  BY AdmissionAssumption, FS_Subset, FS_CardinalityType DEF Known
<1>4. CASE r.known /\ ~sources[s].known
  <2>1. Known' = Known \cup {s} /\ s \notin Known
    BY <1>4 DEF Known, TypeOK
  <2>2. Cardinality(Known) < SourceCap
    BY <1>3, <1>4, <2>1, AdmissionAssumption DEF TableFull
  <2> QED  BY <1>1, <1>2, <1>3, <2>1, <2>2, FS_AddElement, AdmissionAssumption
<1>5. CASE r.known <=> sources[s].known
  <2>1. Known' = Known
    BY <1>5 DEF Known, TypeOK
  <2> QED  BY <1>1, <1>2, <2>1
<1>6. CASE ~r.known /\ sources[s].known
  <2>1. Known' = Known \ {s} /\ s \in Known
    BY <1>6 DEF Known, TypeOK
  <2> QED  BY <1>1, <1>2, <1>3, <2>1, FS_RemoveElement, AdmissionAssumption
<1> QED  BY <1>4, <1>5, <1>6

-----------------------------------------------------------------------------
(* Counting connections. *)

\* The sets that are counted are finite, and one connection more or less in a
\* set, and in the part of it that comes from its address, is one in the count.
LEMMA OneMore ==
  ASSUME NEW S \in SUBSET Conns, NEW c \in Conns, c \notin S, NEW t \in Sources
  PROVE  /\ Cardinality(S) \in Nat
         /\ Cardinality(S \cup {c}) = Cardinality(S) + 1
         /\ Cardinality(S \cap From(t)) \in Nat
         /\ Cardinality((S \cup {c}) \cap From(t)) =
              Cardinality(S \cap From(t)) + (IF SourceOf[c] = t THEN 1 ELSE 0)
<1>1. IsFiniteSet(S) /\ IsFiniteSet(S \cap From(t))
  BY AdmissionAssumption, FS_Subset
<1>2. Cardinality(S) \in Nat /\ Cardinality(S \cap From(t)) \in Nat
  BY <1>1, FS_CardinalityType
<1>3. Cardinality(S \cup {c}) = Cardinality(S) + 1
  BY <1>1, FS_AddElement
<1>4. CASE SourceOf[c] = t
  <2>1. (S \cup {c}) \cap From(t) = (S \cap From(t)) \cup {c} /\ c \notin S \cap From(t)
    BY <1>4 DEF From
  <2> QED  BY <1>1, <1>2, <1>3, <1>4, <2>1, FS_AddElement
<1>5. CASE SourceOf[c] # t
  <2>1. (S \cup {c}) \cap From(t) = S \cap From(t)
    BY <1>5 DEF From
  <2> QED  BY <1>2, <1>3, <1>5, <2>1
<1> QED  BY <1>4, <1>5

LEMMA OneLess ==
  ASSUME NEW S \in SUBSET Conns, NEW c \in Conns, c \in S, NEW t \in Sources
  PROVE  /\ Cardinality(S) \in Nat /\ Cardinality(S) > 0
         /\ Cardinality(S \ {c}) = Cardinality(S) - 1
         /\ Cardinality(S \cap From(t)) \in Nat
         /\ SourceOf[c] = t => Cardinality(S \cap From(t)) > 0
         /\ Cardinality((S \ {c}) \cap From(t)) =
              Cardinality(S \cap From(t)) - (IF SourceOf[c] = t THEN 1 ELSE 0)
<1> DEFINE T == S \ {c}
<1>1. T \in SUBSET Conns /\ c \in Conns /\ c \notin T /\ T \cup {c} = S
  OBVIOUS
<1> HIDE DEF T
<1>2. /\ Cardinality(T) \in Nat
      /\ Cardinality(S) = Cardinality(T) + 1
      /\ Cardinality(T \cap From(t)) \in Nat
      /\ Cardinality(S \cap From(t)) =
           Cardinality(T \cap From(t)) + (IF SourceOf[c] = t THEN 1 ELSE 0)
  BY <1>1, OneMore
<1> QED  BY <1>2 DEF T

\* No more of a source's links are in their handshake than are open.
LEMMA ShakingOpen ==
  ASSUME NEW S \in SUBSET Conns, NEW T \in SUBSET S, NEW s \in Sources
  PROVE  Cardinality(T \cap From(s)) <= Cardinality(S \cap From(s))
BY AdmissionAssumption, FS_Subset

-----------------------------------------------------------------------------
(* Operations that leave the connections alone. *)

\* A record and its tokens change, and the record stays one of as many links
\* and handshakes.
LEMMA TableStep ==
  ASSUME AdmissionInv, PerSourceOn,
         NEW s \in Sources, NEW r, NEW a, Sound(r, a),
         sources' = [sources EXCEPT ![s] = r],
         allowance' = [allowance EXCEPT ![s] = a],
         r.known => ~TableFull(s),
         r.open = sources[s].open, r.handshaking = sources[s].handshaking,
         UNCHANGED <<conn, inbound, handshaking, closed>>,
         attempts' \in 0 .. MaxAttempts
  PROVE  AdmissionInv'
<1>1. TypeOK /\ CountersMatch /\ CapsHeld /\ RecordsSound
  BY DEF AdmissionInv, CapsAccounted
<1>2. /\ RecordsSound'
      /\ sources' \in [Sources -> Records]
      /\ allowance' \in [Sources -> Buckets]
      /\ (Cardinality(Known) <= SourceCap)'
  BY <1>1, OneRecord DEF CapsHeld
<1>3. TypeOK'
  BY <1>1, <1>2 DEF TypeOK
<1>4. Linked' = Linked /\ Shaking' = Shaking
  BY DEF Linked, Shaking
<1>5. \A t \in Sources : /\ sources'[t].open = sources[t].open
                         /\ sources'[t].handshaking = sources[t].handshaking
  BY <1>1 DEF TypeOK
<1>6. CountersMatch'
  BY <1>1, <1>4, <1>5 DEF CountersMatch
<1>7. CapsHeld'
  BY <1>1, <1>2, <1>4 DEF CapsHeld
<1>8. NoneWithoutLimits'
  BY DEF NoneWithoutLimits, PerSourceOn
<1> QED  BY <1>2, <1>3, <1>6, <1>7, <1>8 DEF AdmissionInv, CapsAccounted

\* A source has no more handshakes than links.
LEMMA HandshakesOpen ==
  ASSUME AdmissionInv, PerSourceOn, NEW s \in Sources
  PROVE  sources[s].handshaking <= sources[s].open
<1>1. Shaking \in SUBSET Linked /\ Linked \in SUBSET Conns
  BY DEF Shaking, Linked
<1> QED  BY <1>1, ShakingOpen DEF AdmissionInv, CapsAccounted, CountersMatch

Spent(a) == IF LinkRate THEN [a EXCEPT !.links = a.links - 1] ELSE a

\* A spent token is one off the allowance of the address.
LEMMA SpendStep ==
  ASSUME TypeOK, NEW s \in Sources, SpendLink(s)
  PROVE  allowance' = [allowance EXCEPT ![s] = Spent(allowance[s])]
BY DEF TypeOK, SpendLink, Spent

\* What admit makes of a record it refuses after its token was taken.
LEMMA RefusedRecord ==
  ASSUME AdmissionInv, PerSourceOn, NEW s \in Sources, HasToken(Record(s))
  PROVE  LET r == Settle(TakeToken(Record(s))) IN
           /\ Sound(r, Spent(allowance[s]))
           /\ r.open = sources[s].open
           /\ r.handshaking = sources[s].handshaking
<1>1. /\ Loose(Record(s), allowance[s]) /\ Record(s).known
      /\ Record(s).open = sources[s].open
      /\ Record(s).handshaking = sources[s].handshaking
  BY RecordLoose DEF AdmissionInv
<1>2. /\ Loose(TakeToken(Record(s)), Spent(allowance[s]))
      /\ TakeToken(Record(s)).known = Record(s).known
      /\ TakeToken(Record(s)).open = Record(s).open
      /\ TakeToken(Record(s)).handshaking = Record(s).handshaking
  BY <1>1, TakeLoose DEF Spent
<1>3. TakeToken(Record(s)).handshaking <= TakeToken(Record(s)).open
  BY <1>1, <1>2, HandshakesOpen
<1> QED  BY <1>1, <1>2, <1>3, SettleSound

LEMMA RefuseSourceKeeps ==
  ASSUME AdmissionInv, NEW c \in Conns, RefuseSource(c)
  PROVE  AdmissionInv'
<1> DEFINE s == SourceOf[c]
<1>1. s \in Sources /\ attempts' \in 0 .. MaxAttempts
  BY AdmissionAssumption DEF RefuseSource, Attempt, AdmissionInv, CapsAccounted, TypeOK
<1>2. /\ Loose(Record(s), allowance[s]) /\ Record(s).known
      /\ Record(s).open = sources[s].open
      /\ Record(s).handshaking = sources[s].handshaking
  BY <1>1, RecordLoose DEF AdmissionInv
<1>3. CASE TableFull(s) /\ UNCHANGED sources
  <2>1. UNCHANGED <<conn, inbound, handshaking, closed, allowance, sources>>
    BY <1>3 DEF RefuseSource
  <2>2. CapsAccounted'
    BY <1>1, <2>1 DEF AdmissionInv, CapsAccounted, TypeOK, CountersMatch, CapsHeld,
                      Linked, Shaking, Known
  <2> QED  BY <2>1, <2>2 DEF AdmissionInv, RecordsSound, NoneWithoutLimits
<1>4. CASE /\ ~TableFull(s)
           /\ sources' = [sources EXCEPT ![s] = Settle(Record(s))]
  <2>1. Record(s).handshaking <= Record(s).open
    BY <1>1, <1>2, HandshakesOpen DEF RefuseSource
  <2>2. /\ Sound(Settle(Record(s)), allowance[s])
        /\ Settle(Record(s)).open = Record(s).open
        /\ Settle(Record(s)).handshaking = Record(s).handshaking
    BY <1>2, <2>1, SettleSound
  <2>3. allowance' = [allowance EXCEPT ![s] = allowance[s]]
    BY <1>1 DEF RefuseSource, AdmissionInv, CapsAccounted, TypeOK
  <2>4. PerSourceOn /\ UNCHANGED <<conn, inbound, handshaking, closed>>
    BY DEF RefuseSource
  <2> HIDE DEF s
  <2> QED  BY <1>1, <1>2, <1>4, <2>2, <2>3, <2>4, TableStep
<1> QED  BY <1>3, <1>4 DEF RefuseSource

\* Both refusals that spend the token.
LEMMA SpentRefusalKeeps ==
  ASSUME AdmissionInv, PerSourceOn, NEW s \in Sources, ~TableFull(s), HasToken(Record(s)),
         sources' = [sources EXCEPT ![s] = Settle(TakeToken(Record(s)))],
         SpendLink(s),
         UNCHANGED <<conn, inbound, handshaking, closed>>,
         attempts' \in 0 .. MaxAttempts
  PROVE  AdmissionInv'
<1>1. allowance' = [allowance EXCEPT ![s] = Spent(allowance[s])]
  BY SpendStep DEF AdmissionInv, CapsAccounted
<1>2. LET r == Settle(TakeToken(Record(s))) IN
        /\ Sound(r, Spent(allowance[s]))
        /\ r.open = sources[s].open
        /\ r.handshaking = sources[s].handshaking
  BY RefusedRecord
<1> QED  BY <1>1, <1>2, TableStep

LEMMA RefuseCapKeeps ==
  ASSUME AdmissionInv, NEW c \in Conns, RefuseCap(c)
  PROVE  AdmissionInv'
<1>1. SourceOf[c] \in Sources /\ attempts' \in 0 .. MaxAttempts
  BY AdmissionAssumption DEF RefuseCap, Attempt, AdmissionInv, CapsAccounted, TypeOK
<1> QED  BY <1>1, SpentRefusalKeeps DEF RefuseCap

LEMMA RefuseSharedKeeps ==
  ASSUME AdmissionInv, NEW c \in Conns, RefuseShared(c)
  PROVE  AdmissionInv'
<1>1. SourceOf[c] \in Sources /\ attempts' \in 0 .. MaxAttempts
  BY AdmissionAssumption DEF RefuseShared, Attempt, AdmissionInv, CapsAccounted, TypeOK
<1>2. CASE PerSourceOn
  BY <1>1, <1>2, SpentRefusalKeeps DEF RefuseShared
<1>3. CASE ~PerSourceOn
  <2>1. UNCHANGED <<conn, inbound, handshaking, closed, allowance, sources>>
    BY <1>3 DEF RefuseShared
  <2>2. CapsAccounted'
    BY <1>1, <2>1 DEF AdmissionInv, CapsAccounted, TypeOK, CountersMatch, CapsHeld,
                      Linked, Shaking, Known
  <2> QED  BY <2>1, <2>2 DEF AdmissionInv, RecordsSound, NoneWithoutLimits
<1> QED  BY <1>2, <1>3

\* A setup takes a token of the record and of the address.
LEMMA AllowSetupKeeps ==
  ASSUME AdmissionInv, NEW c \in Conns, AllowSetup(c)
  PROVE  AdmissionInv'
<1> DEFINE s == SourceOf[c]
           r == [sources[s] EXCEPT !.setups = sources[s].setups - 1]
           a == [allowance[s] EXCEPT !.setups = allowance[s].setups - 1]
<1>1. TypeOK /\ CountersMatch /\ CapsHeld /\ RecordsSound /\ NoneWithoutLimits /\ s \in Sources
  BY AdmissionAssumption DEF AdmissionInv, CapsAccounted
<1>2. Linked' = Linked /\ Shaking' = Shaking /\ conn' \in [Conns -> {"out", "shaking", "up", "carrying"}]
  BY <1>1 DEF AllowSetup, TypeOK, Linked, Shaking
<1>3. CASE SetupRate /\ sources[s].known
  <2>1. /\ sources[s].setups >= 1
        /\ sources' = [sources EXCEPT ![s] = r]
        /\ allowance' = [allowance EXCEPT ![s] = a]
    BY <1>1, <1>3 DEF AllowSetup, TypeOK
  <2>2. Sound(sources[s], allowance[s])
    BY <1>1 DEF RecordsSound
  <2>3. /\ r \in Records /\ a \in Buckets
        /\ r.setups = sources[s].setups - 1 /\ a.setups = allowance[s].setups - 1
    BY <2>1, <2>2, <1>3, AdmissionAssumption DEF Sound, Loose, Records, Buckets
  <2>4. /\ r.known = sources[s].known /\ r.forgetting = sources[s].forgetting
        /\ r.timers = sources[s].timers /\ r.open = sources[s].open
        /\ r.handshaking = sources[s].handshaking
        /\ r.links = sources[s].links /\ a.links = allowance[s].links
    BY <2>2 DEF Sound, Loose, Records, Buckets
  <2>5. Sound(r, a)
    BY <1>3, <2>2, <2>3, <2>4 DEF Sound, Loose
  <2>6. s \in Known
    BY <1>1, <1>3 DEF Known
  <2> HIDE DEF s, r, a
  <2>7. /\ RecordsSound'
        /\ sources' \in [Sources -> Records]
        /\ allowance' \in [Sources -> Buckets]
        /\ (Cardinality(Known) <= SourceCap)'
    BY <1>1, <2>1, <2>5, <2>6, OneRecord DEF CapsHeld, TableFull
  <2>8. TypeOK'
    BY <1>1, <1>2, <2>7 DEF TypeOK, AllowSetup
  <2>9. \A t \in Sources : /\ sources'[t].open = sources[t].open
                           /\ sources'[t].handshaking = sources[t].handshaking
    BY <1>1, <2>1, <2>4 DEF TypeOK
  <2>10. CountersMatch'
    BY <1>1, <1>2, <2>9 DEF CountersMatch, AllowSetup
  <2>11. CapsHeld'
    BY <1>1, <1>2, <2>7 DEF CapsHeld
  <2>12. NoneWithoutLimits'
    BY <1>3 DEF NoneWithoutLimits, PerSourceOn
  <2> QED  BY <2>7, <2>8, <2>10, <2>11, <2>12 DEF AdmissionInv, CapsAccounted
<1>4. CASE ~(SetupRate /\ sources[s].known)
  <2>1. UNCHANGED <<sources, allowance, inbound, handshaking, closed, attempts>>
    BY <1>4 DEF AllowSetup
  <2> QED  BY <1>1, <1>2, <2>1 DEF AdmissionInv, CapsAccounted, TypeOK, CountersMatch,
                CapsHeld, Known, RecordsSound, NoneWithoutLimits
<1> QED  BY <1>3, <1>4

LEMMA ForgetKeeps ==
  ASSUME AdmissionInv, NEW s \in Sources, Forget(s)
  PROVE  AdmissionInv'
<1> DEFINE r == [sources[s] EXCEPT !.timers = sources[s].timers - 1, !.forgetting = FALSE]
<1>1. Sound(sources[s], allowance[s]) /\ sources[s] \in Records
  BY DEF AdmissionInv, RecordsSound, Sound, Loose
<1>2. sources[s].timers = 1 /\ sources[s].forgetting /\ sources[s].known
  BY <1>1 DEF Forget, Sound, Loose, Records
<1>3. PerSourceOn /\ s \in Known
  BY <1>2 DEF AdmissionInv, NoneWithoutLimits, Known
<1>4. r \in Records
  <2>1. sources[s].timers - 1 \in Nat
    BY <1>2
  <2> QED  BY <1>1, <2>1, RecordEdits
<1>5. /\ r.known /\ r.open = sources[s].open /\ r.handshaking = sources[s].handshaking
      /\ r.links = sources[s].links /\ r.setups = sources[s].setups
  BY <1>1, <1>2 DEF Records
<1>6. ~r.forgetting
  BY <1>1 DEF Records
<1>7. r.timers = 0
  BY <1>1, <1>2 DEF Records
<1>8. Loose(r, allowance[s])
  BY <1>1, <1>4, <1>5, <1>6, <1>7 DEF Sound, Loose
<1>9. sources' = [sources EXCEPT ![s] = Settle(r)]
  BY DEF Forget
<1> HIDE DEF r
<1>10. r.handshaking <= r.open
  BY <1>3, <1>5, HandshakesOpen
<1>11. /\ Sound(Settle(r), allowance[s])
       /\ Settle(r).open = r.open
       /\ Settle(r).handshaking = r.handshaking
  BY <1>5, <1>8, <1>10, SettleSound
<1>12. allowance' = [allowance EXCEPT ![s] = allowance[s]] /\ attempts' \in 0 .. MaxAttempts
  BY DEF Forget, AdmissionInv, CapsAccounted, TypeOK
<1>13. ~TableFull(s) /\ UNCHANGED <<conn, inbound, handshaking, closed>>
  BY <1>3 DEF TableFull, Forget
<1> QED  BY <1>3, <1>5, <1>9, <1>11, <1>12, <1>13, TableStep

\* A token comes back to a bucket that is not full: the address is known then,
\* since the others have all of theirs.
LEMMA RefillLinksKeeps ==
  ASSUME AdmissionInv, NEW s \in Sources, RefillLinks(s)
  PROVE  AdmissionInv'
<1> DEFINE r == [sources[s] EXCEPT !.links = sources[s].links + 1]
           a == [allowance[s] EXCEPT !.links = allowance[s].links + 1]
<1>1. Sound(sources[s], allowance[s]) /\ LinkRate /\ allowance[s].links < LinkBurst
  BY DEF AdmissionInv, RecordsSound, RefillLinks
<1>2. sources[s].links = allowance[s].links /\ sources[s].known
  BY <1>1, AdmissionAssumption DEF Sound, Loose, Full, Buckets
<1>3. /\ sources' = [sources EXCEPT ![s] = r]
      /\ allowance' = [allowance EXCEPT ![s] = a]
  BY <1>1, <1>2 DEF RefillLinks, AdmissionInv, CapsAccounted, TypeOK
<1>4. /\ r \in Records /\ a \in Buckets
      /\ r.links = sources[s].links + 1 /\ a.links = allowance[s].links + 1
  BY <1>1, <1>2, AdmissionAssumption DEF Sound, Loose, Records, Buckets
<1>5. /\ r.known = sources[s].known /\ r.forgetting = sources[s].forgetting
      /\ r.timers = sources[s].timers /\ r.open = sources[s].open
      /\ r.handshaking = sources[s].handshaking
      /\ r.setups = sources[s].setups /\ a.setups = allowance[s].setups
  BY <1>1 DEF Sound, Loose, Records, Buckets
<1>6. Sound(r, a)
  BY <1>1, <1>2, <1>4, <1>5 DEF Sound, Loose
<1>7. s \in Known /\ PerSourceOn
  BY <1>1, <1>2 DEF Known, PerSourceOn
<1>8. attempts' \in 0 .. MaxAttempts /\ UNCHANGED <<conn, inbound, handshaking, closed>>
  BY DEF RefillLinks, AdmissionInv, CapsAccounted, TypeOK
<1> HIDE DEF r, a
<1> QED  BY <1>3, <1>5, <1>6, <1>7, <1>8, TableStep DEF TableFull

LEMMA RefillSetupsKeeps ==
  ASSUME AdmissionInv, NEW s \in Sources, RefillSetups(s)
  PROVE  AdmissionInv'
<1> DEFINE r == [sources[s] EXCEPT !.setups = sources[s].setups + 1]
           a == [allowance[s] EXCEPT !.setups = allowance[s].setups + 1]
<1>1. Sound(sources[s], allowance[s]) /\ SetupRate /\ allowance[s].setups < SetupBurst
  BY DEF AdmissionInv, RecordsSound, RefillSetups
<1>2. sources[s].setups = allowance[s].setups /\ sources[s].known
  BY <1>1, AdmissionAssumption DEF Sound, Loose, Full, Buckets
<1>3. /\ sources' = [sources EXCEPT ![s] = r]
      /\ allowance' = [allowance EXCEPT ![s] = a]
  BY <1>1, <1>2 DEF RefillSetups, AdmissionInv, CapsAccounted, TypeOK
<1>4. /\ r \in Records /\ a \in Buckets
      /\ r.setups = sources[s].setups + 1 /\ a.setups = allowance[s].setups + 1
  BY <1>1, <1>2, AdmissionAssumption DEF Sound, Loose, Records, Buckets
<1>5. /\ r.known = sources[s].known /\ r.forgetting = sources[s].forgetting
      /\ r.timers = sources[s].timers /\ r.open = sources[s].open
      /\ r.handshaking = sources[s].handshaking
      /\ r.links = sources[s].links /\ a.links = allowance[s].links
  BY <1>1 DEF Sound, Loose, Records, Buckets
<1>6. Sound(r, a)
  BY <1>1, <1>2, <1>4, <1>5 DEF Sound, Loose
<1>7. s \in Known /\ PerSourceOn
  BY <1>1, <1>2 DEF Known, PerSourceOn
<1>8. attempts' \in 0 .. MaxAttempts /\ UNCHANGED <<conn, inbound, handshaking, closed>>
  BY DEF RefillSetups, AdmissionInv, CapsAccounted, TypeOK
<1> HIDE DEF r, a
<1> QED  BY <1>3, <1>5, <1>6, <1>7, <1>8, TableStep DEF TableFull

-----------------------------------------------------------------------------
(* Operations that change a connection. *)

LEMMA AdmitKeeps ==
  ASSUME AdmissionInv, NEW c \in Conns, Admit(c)
  PROVE  AdmissionInv'
<1> DEFINE s == SourceOf[c]
<1>1. TypeOK /\ CountersMatch /\ CapsHeld /\ RecordsSound /\ NoneWithoutLimits /\ s \in Sources
  BY AdmissionAssumption DEF AdmissionInv, CapsAccounted
<1>2. /\ Linked' = Linked \cup {c} /\ Shaking' = Shaking \cup {c}
      /\ c \notin Linked /\ c \notin Shaking
      /\ Linked \in SUBSET Conns /\ Shaking \in SUBSET Conns
  BY <1>1 DEF Admit, Attempt, TypeOK, Linked, Shaking
<1>3. /\ conn' \in [Conns -> {"out", "shaking", "up", "carrying"}]
      /\ inbound' \in Nat /\ handshaking' \in Nat /\ closed' \in BOOLEAN
      /\ attempts' \in 0 .. MaxAttempts
  BY <1>1, AdmissionAssumption DEF Admit, Attempt, TypeOK
<1>4. \A t \in Sources :
         /\ Cardinality(Linked') = Cardinality(Linked) + 1
         /\ Cardinality(Shaking') = Cardinality(Shaking) + 1
         /\ Cardinality(Linked' \cap From(t)) =
              Cardinality(Linked \cap From(t)) + (IF s = t THEN 1 ELSE 0)
         /\ Cardinality(Shaking' \cap From(t)) =
              Cardinality(Shaking \cap From(t)) + (IF s = t THEN 1 ELSE 0)
         /\ Cardinality(Linked \cap From(t)) \in Nat
         /\ Cardinality(Shaking \cap From(t)) \in Nat
  BY <1>2, OneMore
<1>5. inbound' = Cardinality(Linked') /\ handshaking' = Cardinality(Shaking')
  BY <1>1, <1>4 DEF Admit, CountersMatch
<1>6. /\ MaxLinks > 0 => Cardinality(Linked') <= MaxLinks
      /\ MaxHandshakes > 0 => Cardinality(Shaking') <= MaxHandshakes
  BY <1>1, <1>5, AdmissionAssumption DEF Admit, AtSharedCap, TypeOK
<1>7. CASE PerSourceOn
  <2> DEFINE q == TakeToken(Record(s))
             r == [q EXCEPT !.open = q.open + 1, !.handshaking = q.handshaking + 1]
             a == Spent(allowance[s])
  <2>1. /\ ~TableFull(s) /\ HasToken(Record(s)) /\ ~AtSourceCap(Record(s))
        /\ sources' = [sources EXCEPT ![s] = r] /\ SpendLink(s)
    BY <1>7 DEF Admit
  <2>2. /\ Loose(Record(s), allowance[s]) /\ Record(s).known
        /\ Record(s).open = sources[s].open
        /\ Record(s).handshaking = sources[s].handshaking
    BY <1>1, RecordLoose
  <2>3. /\ Loose(q, a) /\ q.known
        /\ q.open = sources[s].open /\ q.handshaking = sources[s].handshaking
    BY <2>1, <2>2, TakeLoose DEF Spent
  <2>4. allowance' = [allowance EXCEPT ![s] = a]
    BY <1>1, <2>1, SpendStep
  <2> HIDE DEF q, a
  <2>5. q \in Records /\ q.open \in Nat /\ q.handshaking \in Nat
    BY <2>3 DEF Loose, Records
  <2>6. r \in Records
    <3>1. q.open + 1 \in Nat /\ q.handshaking + 1 \in Nat
      BY <2>5
    <3> QED  BY <2>5, <3>1, RecordEdits
  <2>7. /\ r.known /\ r.open = q.open + 1 /\ r.handshaking = q.handshaking + 1
        /\ r.links = q.links /\ r.setups = q.setups /\ r.timers = q.timers
    BY <2>3, <2>5 DEF Records
  <2>8. r.forgetting = q.forgetting
    BY <2>5 DEF Records
  <2>9. Sound(r, a)
    BY <2>3, <2>5, <2>6, <2>7, <2>8 DEF Sound, Loose
  <2> HIDE DEF r, s
  <2>10. /\ RecordsSound'
         /\ sources' \in [Sources -> Records]
         /\ allowance' \in [Sources -> Buckets]
         /\ (Cardinality(Known) <= SourceCap)'
    BY <1>1, <2>1, <2>4, <2>9, OneRecord DEF CapsHeld
  <2>11. \A t \in Sources :
           /\ sources'[t].open = sources[t].open + (IF s = t THEN 1 ELSE 0)
           /\ sources'[t].handshaking = sources[t].handshaking + (IF s = t THEN 1 ELSE 0)
    BY <1>1, <2>1, <2>3, <2>7 DEF TypeOK, Records
  <2>12. CountersMatch'
    BY <1>1, <1>4, <1>5, <2>11 DEF CountersMatch
  <2>13. \A t \in Sources :
           /\ MaxLinksPerSource > 0 => sources'[t].open <= MaxLinksPerSource
           /\ MaxHandshakesPerSource > 0 => sources'[t].handshaking <= MaxHandshakesPerSource
    <3>1. TAKE t \in Sources
    <3>2. /\ MaxLinksPerSource > 0 => sources[t].open <= MaxLinksPerSource
          /\ MaxHandshakesPerSource > 0 => sources[t].handshaking <= MaxHandshakesPerSource
          /\ sources[t].open \in Nat /\ sources[t].handshaking \in Nat
      BY <1>1, <1>7 DEF CapsHeld, CountersMatch, TypeOK, Records
    <3>3. CASE t # s
      BY <2>11, <3>2, <3>3
    <3>4. CASE t = s
      BY <2>1, <2>2, <2>11, <3>2, <3>4, AdmissionAssumption DEF AtSourceCap
    <3> QED  BY <3>3, <3>4
  <2>14. CapsHeld'
    BY <1>6, <1>7, <2>10, <2>12, <2>13 DEF CapsHeld, CountersMatch, PerSourceOn
  <2> QED  BY <1>3, <1>7, <2>10, <2>12, <2>14
           DEF AdmissionInv, CapsAccounted, TypeOK, NoneWithoutLimits, PerSourceOn
<1>8. CASE ~PerSourceOn
  <2>1. UNCHANGED <<sources, allowance>>
    BY <1>8 DEF Admit
  <2>2. MaxLinksPerSource = 0 /\ MaxHandshakesPerSource = 0
    BY <1>8, AdmissionAssumption DEF PerSourceOn
  <2>3. CapsHeld'
    BY <1>1, <1>6, <2>1, <2>2 DEF CapsHeld, Known
  <2>4. CountersMatch'
    BY <1>5, <1>8 DEF CountersMatch, PerSourceOn
  <2> QED  BY <1>1, <1>3, <2>1, <2>3, <2>4
           DEF AdmissionInv, CapsAccounted, TypeOK, RecordsSound, NoneWithoutLimits
<1> QED  BY <1>7, <1>8

\* The caps, read off the counters.
LEMMA CapsFromCounters ==
  ASSUME CountersMatch', (Cardinality(Known) <= SourceCap)',
         inbound' <= inbound, handshaking' <= handshaking,
         \A t \in Sources : /\ sources'[t].open <= sources[t].open
                            /\ sources'[t].handshaking <= sources[t].handshaking,
         AdmissionInv, TypeOK'
  PROVE  CapsHeld'
<1>1. TypeOK /\ CountersMatch /\ CapsHeld
  BY DEF AdmissionInv, CapsAccounted
<1>2. /\ MaxLinks > 0 => inbound' <= MaxLinks
      /\ MaxHandshakes > 0 => handshaking' <= MaxHandshakes
  BY <1>1, AdmissionAssumption DEF CapsHeld, CountersMatch, TypeOK
<1>3. CASE PerSourceOn
  <2>1. \A t \in Sources :
          /\ MaxLinksPerSource > 0 => sources'[t].open <= MaxLinksPerSource
          /\ MaxHandshakesPerSource > 0 => sources'[t].handshaking <= MaxHandshakesPerSource
    <3>1. TAKE t \in Sources
    <3>2. /\ MaxLinksPerSource > 0 => sources[t].open <= MaxLinksPerSource
          /\ MaxHandshakesPerSource > 0 => sources[t].handshaking <= MaxHandshakesPerSource
      BY <1>1, <1>3 DEF CapsHeld, CountersMatch
    <3>3. /\ sources[t].open \in Nat /\ sources[t].handshaking \in Nat
          /\ sources'[t].open \in Nat /\ sources'[t].handshaking \in Nat
      BY <1>1 DEF TypeOK, Records
    <3> QED  BY <3>2, <3>3, AdmissionAssumption
  <2> QED  BY <1>2, <1>3, <2>1 DEF CapsHeld, CountersMatch, PerSourceOn
<1>4. CASE ~PerSourceOn
  <2>1. MaxLinksPerSource = 0 /\ MaxHandshakesPerSource = 0
    BY <1>4, AdmissionAssumption DEF PerSourceOn
  <2> QED  BY <1>2, <2>1 DEF CapsHeld, CountersMatch
<1> QED  BY <1>3, <1>4

LEMMA HandshakeDoneKeeps ==
  ASSUME AdmissionInv, NEW c \in Conns, HandshakeDone(c)
  PROVE  AdmissionInv'
<1> DEFINE s == SourceOf[c]
<1>1. TypeOK /\ CountersMatch /\ CapsHeld /\ RecordsSound /\ NoneWithoutLimits /\ s \in Sources
  BY AdmissionAssumption DEF AdmissionInv, CapsAccounted
<1>2. /\ Linked' = Linked /\ Shaking' = Shaking \ {c} /\ c \in Shaking
      /\ Shaking \in SUBSET Conns
      /\ conn' \in [Conns -> {"out", "shaking", "up", "carrying"}]
  BY <1>1 DEF HandshakeDone, TypeOK, Linked, Shaking
<1>3. \A t \in Sources :
         /\ Cardinality(Shaking) \in Nat /\ Cardinality(Shaking) > 0
         /\ Cardinality(Shaking') = Cardinality(Shaking) - 1
         /\ s = t => Cardinality(Shaking \cap From(t)) > 0
         /\ Cardinality(Shaking' \cap From(t)) =
              Cardinality(Shaking \cap From(t)) - (IF s = t THEN 1 ELSE 0)
  <2> TAKE t \in Sources
  <2>1. /\ Cardinality(Shaking) \in Nat /\ Cardinality(Shaking) > 0
        /\ Cardinality(Shaking \ {c}) = Cardinality(Shaking) - 1
        /\ SourceOf[c] = t => Cardinality(Shaking \cap From(t)) > 0
        /\ Cardinality((Shaking \ {c}) \cap From(t)) =
              Cardinality(Shaking \cap From(t)) - (IF SourceOf[c] = t THEN 1 ELSE 0)
    BY <1>2, OneLess
  <2> QED  BY <1>2, <2>1
<1>4. /\ inbound' = Cardinality(Linked') /\ handshaking' = Cardinality(Shaking')
      /\ inbound' \in Nat /\ handshaking' \in Nat /\ closed' \in BOOLEAN
      /\ attempts' \in 0 .. MaxAttempts
      /\ inbound' <= inbound /\ handshaking' <= handshaking
  <2>1. /\ Cardinality(Shaking) \in Nat /\ Cardinality(Shaking) > 0
        /\ Cardinality(Shaking') = Cardinality(Shaking) - 1
    BY <1>1, <1>3
  <2> QED  BY <1>1, <1>2, <2>1 DEF HandshakeDone, CountersMatch, TypeOK
<1>5. CASE PerSourceOn
  <2> DEFINE r == [sources[s] EXCEPT !.handshaking = sources[s].handshaking - 1]
  <2>1. sources[s].handshaking > 0
    BY <1>1, <1>3, <1>5 DEF CountersMatch
  <2>2. Sound(sources[s], allowance[s]) /\ sources[s] \in Records
    BY <1>1 DEF RecordsSound, Sound, Loose
  <2>3. sources[s].known
    BY <2>1, <2>2 DEF Sound
  <2>4. sources' = [sources EXCEPT ![s] = r]
    BY <1>1, <2>3 DEF HandshakeDone
  <2>5. r \in Records
    <3>1. sources[s].handshaking - 1 \in Nat
      BY <2>1, <2>2 DEF Records
    <3> QED  BY <2>2, <3>1, RecordEdits
  <2>6. /\ r.known /\ r.open = sources[s].open /\ r.handshaking = sources[s].handshaking - 1
        /\ r.links = sources[s].links /\ r.setups = sources[s].setups
        /\ r.timers = sources[s].timers
    BY <2>2, <2>3 DEF Records
  <2>7. r.forgetting = sources[s].forgetting
    BY <2>2 DEF Records
  <2>8. Sound(r, allowance[s])
    BY <2>2, <2>3, <2>5, <2>6, <2>7 DEF Sound, Loose
  <2>9. allowance' = [allowance EXCEPT ![s] = allowance[s]] /\ s \in Known
    BY <1>1, <2>3 DEF HandshakeDone, TypeOK, Known
  <2> HIDE DEF r, s
  <2>10. /\ RecordsSound'
         /\ sources' \in [Sources -> Records]
         /\ allowance' \in [Sources -> Buckets]
         /\ (Cardinality(Known) <= SourceCap)'
    BY <1>1, <2>4, <2>8, <2>9, OneRecord DEF CapsHeld, TableFull
  <2>11. \A t \in Sources :
           /\ sources'[t].open = sources[t].open
           /\ sources'[t].handshaking = sources[t].handshaking - (IF s = t THEN 1 ELSE 0)
           /\ sources[t].open \in Nat /\ sources[t].handshaking \in Nat
    BY <1>1, <2>4, <2>6 DEF TypeOK, Records
  <2>12. CountersMatch'
    BY <1>1, <1>2, <1>3, <1>4, <2>11 DEF CountersMatch
  <2>13. TypeOK'
    BY <1>2, <1>4, <2>10 DEF TypeOK
  <2>14. \A t \in Sources : /\ sources'[t].open <= sources[t].open
                            /\ sources'[t].handshaking <= sources[t].handshaking
    BY <2>11
  <2>15. CapsHeld'
    BY <1>4, <2>10, <2>12, <2>13, <2>14, CapsFromCounters
  <2> QED  BY <1>5, <2>10, <2>12, <2>13, <2>15
           DEF AdmissionInv, CapsAccounted, NoneWithoutLimits, PerSourceOn
<1>6. CASE ~PerSourceOn
  <2>1. UNCHANGED <<sources, allowance>>
    BY <1>1, <1>6 DEF HandshakeDone, NoneWithoutLimits
  <2>2. TypeOK' /\ CountersMatch' /\ (Cardinality(Known) <= SourceCap)'
    BY <1>1, <1>2, <1>4, <1>6, <2>1 DEF TypeOK, CountersMatch, PerSourceOn, CapsHeld, Known
  <2>3. \A t \in Sources : /\ sources'[t].open <= sources[t].open
                           /\ sources'[t].handshaking <= sources[t].handshaking
    BY <1>1, <2>1 DEF TypeOK, Records
  <2>4. CapsHeld'
    BY <1>4, <2>2, <2>3, CapsFromCounters
  <2> QED  BY <1>1, <2>1, <2>2, <2>4 DEF AdmissionInv, CapsAccounted, RecordsSound, NoneWithoutLimits
<1> QED  BY <1>5, <1>6

LEMMA LeaveKeeps ==
  ASSUME AdmissionInv, NEW c \in Conns, Leave(c)
  PROVE  AdmissionInv'
<1> DEFINE s == SourceOf[c]
<1>1. TypeOK /\ CountersMatch /\ CapsHeld /\ RecordsSound /\ NoneWithoutLimits /\ s \in Sources
  BY AdmissionAssumption DEF AdmissionInv, CapsAccounted
<1>2. /\ Shaking' = Shaking /\ Linked' = Linked \ {c} /\ c \in Linked
      /\ Linked \in SUBSET Conns /\ Shaking \in SUBSET (Linked \ {c})
      /\ conn' \in [Conns -> {"out", "shaking", "up", "carrying"}]
  BY <1>1 DEF Leave, TypeOK, Linked, Shaking
<1>3. \A t \in Sources :
         /\ Cardinality(Linked) \in Nat /\ Cardinality(Linked) > 0
         /\ Cardinality(Linked') = Cardinality(Linked) - 1
         /\ s = t => Cardinality(Linked \cap From(t)) > 0
         /\ Cardinality(Linked' \cap From(t)) =
              Cardinality(Linked \cap From(t)) - (IF s = t THEN 1 ELSE 0)
  <2> TAKE t \in Sources
  <2>1. /\ Cardinality(Linked) \in Nat /\ Cardinality(Linked) > 0
        /\ Cardinality(Linked \ {c}) = Cardinality(Linked) - 1
        /\ SourceOf[c] = t => Cardinality(Linked \cap From(t)) > 0
        /\ Cardinality((Linked \ {c}) \cap From(t)) =
              Cardinality(Linked \cap From(t)) - (IF SourceOf[c] = t THEN 1 ELSE 0)
    BY <1>2, OneLess
  <2> QED  BY <1>2, <2>1
<1>4. /\ inbound' = Cardinality(Linked') /\ handshaking' = Cardinality(Shaking')
      /\ inbound' \in Nat /\ handshaking' \in Nat /\ closed' \in BOOLEAN
      /\ attempts' \in 0 .. MaxAttempts
      /\ inbound' <= inbound /\ handshaking' <= handshaking
  <2>1. /\ Cardinality(Linked) \in Nat /\ Cardinality(Linked) > 0
        /\ Cardinality(Linked') = Cardinality(Linked) - 1
    BY <1>1, <1>3
  <2> QED  BY <1>1, <1>2, <2>1 DEF Leave, CountersMatch, TypeOK
<1>5. CASE PerSourceOn
  <2> DEFINE q == [sources[s] EXCEPT !.open = sources[s].open - 1]
             r == Settle(q)
  <2>1. sources[s].open > 0
    BY <1>1, <1>3, <1>5 DEF CountersMatch
  <2>2. Sound(sources[s], allowance[s]) /\ sources[s] \in Records
    BY <1>1 DEF RecordsSound, Sound, Loose
  <2>3. sources[s].known
    BY <2>1, <2>2 DEF Sound
  <2>4. sources' = [sources EXCEPT ![s] = r]
    BY <1>1, <2>3 DEF Leave
  <2>5. q \in Records
    <3>1. sources[s].open - 1 \in Nat
      BY <2>1, <2>2 DEF Records
    <3> QED  BY <2>2, <3>1, RecordEdits
  <2>6. /\ q.known /\ q.open = sources[s].open - 1 /\ q.handshaking = sources[s].handshaking
        /\ q.links = sources[s].links /\ q.setups = sources[s].setups
        /\ q.timers = sources[s].timers
    BY <2>2, <2>3 DEF Records
  <2>7. q.forgetting = sources[s].forgetting
    BY <2>2 DEF Records
  <2>8. Loose(q, allowance[s])
    BY <2>2, <2>5, <2>6, <2>7 DEF Sound, Loose
  <2>9. allowance' = [allowance EXCEPT ![s] = allowance[s]] /\ s \in Known
    BY <1>1, <2>3 DEF Leave, TypeOK, Known
  <2> HIDE DEF q, s
  <2>10. q.handshaking <= q.open
    <3>1. Cardinality(Shaking \cap From(s)) <= Cardinality((Linked \ {c}) \cap From(s))
      BY <1>1, <1>2, ShakingOpen
    <3> QED  BY <1>1, <1>2, <1>3, <1>5, <2>6, <3>1 DEF CountersMatch
  <2>11. /\ Sound(r, allowance[s]) /\ r.open = q.open /\ r.handshaking = q.handshaking
    BY <2>6, <2>8, <2>10, SettleSound
  <2> HIDE DEF r
  <2>12. /\ RecordsSound'
         /\ sources' \in [Sources -> Records]
         /\ allowance' \in [Sources -> Buckets]
         /\ (Cardinality(Known) <= SourceCap)'
    BY <1>1, <2>4, <2>9, <2>11, OneRecord DEF CapsHeld, TableFull
  <2>13. \A t \in Sources :
           /\ sources'[t].open = sources[t].open - (IF s = t THEN 1 ELSE 0)
           /\ sources'[t].handshaking = sources[t].handshaking
           /\ sources[t].open \in Nat /\ sources[t].handshaking \in Nat
    BY <1>1, <2>4, <2>6, <2>11 DEF TypeOK, Records
  <2>14. CountersMatch'
    BY <1>1, <1>2, <1>3, <1>4, <2>13 DEF CountersMatch
  <2>15. TypeOK'
    BY <1>2, <1>4, <2>12 DEF TypeOK
  <2>16. \A t \in Sources : /\ sources'[t].open <= sources[t].open
                            /\ sources'[t].handshaking <= sources[t].handshaking
    BY <2>13
  <2>17. CapsHeld'
    BY <1>4, <2>12, <2>14, <2>15, <2>16, CapsFromCounters
  <2> QED  BY <1>5, <2>12, <2>14, <2>15, <2>17
           DEF AdmissionInv, CapsAccounted, NoneWithoutLimits, PerSourceOn
<1>6. CASE ~PerSourceOn
  <2>1. UNCHANGED <<sources, allowance>>
    BY <1>1, <1>6 DEF Leave, NoneWithoutLimits
  <2>2. TypeOK' /\ CountersMatch' /\ (Cardinality(Known) <= SourceCap)'
    BY <1>1, <1>2, <1>4, <1>6, <2>1 DEF TypeOK, CountersMatch, PerSourceOn, CapsHeld, Known
  <2>3. \A t \in Sources : /\ sources'[t].open <= sources[t].open
                           /\ sources'[t].handshaking <= sources[t].handshaking
    BY <1>1, <2>1 DEF TypeOK, Records
  <2>4. CapsHeld'
    BY <1>4, <2>2, <2>3, CapsFromCounters
  <2> QED  BY <1>1, <2>1, <2>2, <2>4 DEF AdmissionInv, CapsAccounted, RecordsSound, NoneWithoutLimits
<1> QED  BY <1>5, <1>6

-----------------------------------------------------------------------------
(* The specification. *)

LEMMA InitSound == Init => AdmissionInv
<1> SUFFICES ASSUME Init PROVE AdmissionInv
  OBVIOUS
<1> USE AdmissionAssumption
<1>1. RecordsSound
  <2>1. [links |-> LinkBurst, setups |-> SetupBurst] \in Buckets
    BY DEF Buckets
  <2> QED  BY <2>1, BlankSound DEF Init, RecordsSound
<1>2. TypeOK
  <2>1. \A s \in Sources : sources[s] \in Records /\ allowance[s] \in Buckets
    BY <1>1 DEF RecordsSound, Sound, Loose
  <2>2. /\ sources \in [Sources -> Records] /\ allowance \in [Sources -> Buckets]
        /\ closed \in BOOLEAN
    BY <2>1 DEF Init
  <2>3. conn \in [Conns -> {"out", "shaking", "up", "carrying"}]
    BY DEF Init
  <2> QED  BY <2>2, <2>3 DEF Init, TypeOK
<1>3. Linked = {} /\ Shaking = {} /\ Known = {}
  BY DEF Init, Linked, Shaking, Known, NoRecord
<1>4. CountersMatch
  BY <1>3, FS_EmptySet DEF Init, CountersMatch, NoRecord
<1>5. CapsHeld
  BY <1>3, FS_EmptySet DEF CapsHeld
<1>6. NoneWithoutLimits
  BY DEF Init, NoneWithoutLimits, NoRecord
<1> QED  BY <1>1, <1>2, <1>4, <1>5, <1>6 DEF AdmissionInv, CapsAccounted

LEMMA NextSound == AdmissionInv /\ [Next]_vars => AdmissionInv'
<1> SUFFICES ASSUME AdmissionInv, [Next]_vars PROVE AdmissionInv'
  OBVIOUS
<1>1. ASSUME NEW c \in Conns,
             \/ RefuseSource(c) \/ RefuseCap(c) \/ RefuseShared(c) \/ Admit(c)
             \/ HandshakeDone(c) \/ AllowSetup(c) \/ Leave(c)
      PROVE  AdmissionInv'
  BY <1>1, RefuseSourceKeeps, RefuseCapKeeps, RefuseSharedKeeps, AdmitKeeps,
     HandshakeDoneKeeps, AllowSetupKeeps, LeaveKeeps
<1>2. ASSUME NEW s \in Sources, Forget(s) \/ RefillLinks(s) \/ RefillSetups(s)
      PROVE  AdmissionInv'
  BY <1>2, ForgetKeeps, RefillLinksKeeps, RefillSetupsKeeps
<1>3. CASE Close
  BY <1>3 DEF Close, AdmissionInv, CapsAccounted, TypeOK, CountersMatch, CapsHeld, Linked,
              Shaking, Known, RecordsSound, NoneWithoutLimits
<1>4. CASE UNCHANGED vars
  BY <1>4 DEF vars, AdmissionInv, CapsAccounted, TypeOK, CountersMatch, CapsHeld, Linked,
              Shaking, Known, RecordsSound, NoneWithoutLimits
<1> QED  BY <1>1, <1>2, <1>3, <1>4 DEF Next

\* The invariant holds in every state the admission of a relay reaches.
LEMMA AdmissionInvariant == Spec => []AdmissionInv
BY InitSound, NextSound, PTL DEF Spec

\* The caps of limits.go hold, shared and per source, and the counters they are
\* checked against count the connections there are: for every limit, on or off,
\* and every order of admissions, handshakes, departures and forgetting.
THEOREM AdmissionCaps == Spec => []CapsAccounted
<1>1. AdmissionInv => CapsAccounted
  BY DEF AdmissionInv
<1> QED  BY <1>1, AdmissionInvariant, PTL

\* relay.settle forgets a source only when that gives the address no token back:
\* a record holds what the address has left, and one without has everything.
THEOREM AdmissionForgettingIsFree == Spec => []ForgettingIsFree
<1>1. AdmissionInv => ForgettingIsFree
  BY DEF AdmissionInv, RecordsSound, Sound, Loose, ForgettingIsFree
<1> QED  BY <1>1, AdmissionInvariant, PTL

\* relay.settle and forget leave no record of who connected: without a link open
\* a record has exactly one timer set, and never two.
THEOREM AdmissionNoRecordWithoutReason == Spec => []NoRecordWithoutReason
<1>1. AdmissionInv => NoRecordWithoutReason
  BY DEF AdmissionInv, RecordsSound, Sound, Loose, NoRecordWithoutReason
<1> QED  BY <1>1, AdmissionInvariant, PTL

=============================================================================

---------------------------- MODULE ChainProofs ----------------------------
(***************************************************************************)
(* Theorems about Chain for every number of hops, every offsets, every     *)
(* limit and every set of faulty hops.                                     *)
(***************************************************************************)
EXTENDS Chain, TLAPS

-----------------------------------------------------------------------------
(* Counters.                                                               *)

LEMMA ValuesAreInts == Values \subseteq Int /\ 0 \in Values
  BY LimitAssumption DEF Values

\* A shifted value is again a value a link may carry.
LEMMA ShiftValue ==
  ASSUME NEW v \in Int, NEW o \in Int
  PROVE  Shift(v, o) \in Values /\ Unshift(v, o) \in Values
  BY LimitAssumption DEF Shift, Unshift, Values

\* Two values that meet after the same offset were the same.
LEMMA ShiftInjective ==
  ASSUME NEW a \in Values, NEW b \in Values, NEW o \in Values, Shift(a, o) = Shift(b, o)
  PROVE  a = b
  BY LimitAssumption DEF Shift, Values

\* Offsets may be added in any order.
LEMMA ShiftCommutes ==
  ASSUME NEW a \in Values, NEW o \in Values, NEW p \in Values
  PROVE  Shift(Shift(a, o), p) = Shift(Shift(a, p), o)
  BY LimitAssumption DEF Shift, Values

\* Taking an offset off undoes adding it.
LEMMA UnshiftShift ==
  ASSUME NEW a \in Values, NEW o \in Values
  PROVE  Unshift(Shift(a, o), o) = a /\ Shift(Unshift(a, o), o) = a
  BY LimitAssumption DEF Shift, Unshift, Values

\* Taking the value due keeps a Sequence within its bounds.
LEMMA TakeType ==
  ASSUME NEW s \in SequenceStates, NEW c, Due(s, c)
  PROVE  Take(s, c) \in SequenceStates
  <1>1. c \in Values /\ s.taken < CellLimit /\ s.taken \in 0 .. CellLimit
    BY DEF Due, SequenceStates
  <1>2. Shift(c, 1) \in Values
    BY <1>1, ShiftValue DEF Values
  <1>3. s.taken + 1 \in 0 .. CellLimit
    BY <1>1, LimitAssumption
  <1> QED BY <1>2, <1>3 DEF Take, SequenceStates

-----------------------------------------------------------------------------
(* Sequences of cells.                                                     *)

LEMMA SeqParts ==
  ASSUME NEW S, NEW q \in Seq(S), q # <<>>
  PROVE  Head(q) \in S /\ Tail(q) \in Seq(S)
  OBVIOUS

LEMMA SeqFront ==
  ASSUME NEW S, NEW q \in Seq(S), q # <<>>
  PROVE  SubSeq(q, 1, Len(q) - 1) \in Seq(S)
  OBVIOUS

LEMMA SeqDisturbed ==
  ASSUME NEW S, NEW q \in Seq(S), NEW r \in Disturbed(q)
  PROVE  r \in Seq(S)
  <1>1. ASSUME NEW k \in 1 .. Len(q), r = Without(q, k) PROVE r \in Seq(S)
    BY <1>1 DEF Without
  <1>2. ASSUME NEW k \in 1 .. Len(q), r = Append(q, q[k]) PROVE r \in Seq(S)
    BY <1>2
  <1>3. ASSUME NEW k \in 1 .. Len(q) - 1, r = Swapped(q, k) PROVE r \in Seq(S)
    BY <1>3 DEF Swapped
  <1> QED BY <1>1, <1>2, <1>3 DEF Disturbed

-----------------------------------------------------------------------------
(* Type correctness.                                                       *)

LEMMA CircType ==
  ASSUME circ \in Circuits, NEW d \in Directions
  PROVE  /\ \A i \in Hops : circ.offset[i][d] \in Values
         /\ \A i \in 1 .. N + 1 : circ.before[i][d] \in Values
  BY ChainAssumption

\* What a hop or the client puts on a link is a cell.
LEMMA CellTypes ==
  ASSUME circ \in Circuits
  PROVE  /\ \A i \in Hops : SetupCell(i) \in FwdCells
         /\ \A n \in Values : SealForward(n) \in FwdCells
         /\ \A i \in Hops : \A c \in FwdCells : Peel(i, c) \in FwdCells
         /\ \A i \in Hops : \A v \in Values : \A c \in BwdCells : SealBack(i, v, c) \in BwdCells
         /\ \A i \in Hops : \A c \in BwdCells : Wrap(i, c) \in BwdCells
         /\ \A r \in Int : \A n \in Values : SealReply(r, n) \in BwdCells
  <1>1. \A i \in Hops : SetupCell(i) \in FwdCells
    BY LimitAssumption, ChainAssumption DEF SetupCell, FwdCells, Hops, Values
  <1>2. \A n \in Values : SealForward(n) \in FwdCells
    BY ChainAssumption DEF SealForward, FwdCells
  <1>3. \A i \in Hops : \A c \in FwdCells : Peel(i, c) \in FwdCells
    <2> TAKE i \in Hops
    <2> TAKE c \in FwdCells
    <2>1. circ.offset[i]["fwd"] \in Values
      BY CircType DEF Directions
    <2>2. c.ctr \in Int
      BY ValuesAreInts DEF FwdCells
    <2>3. Shift(c.ctr, circ.offset[i]["fwd"]) \in Values
      BY <2>1, <2>2, ShiftValue, ValuesAreInts
    <2>4. i + 1 \in 1 .. N + 1
      BY ChainAssumption DEF Hops
    <2> QED BY <2>3, <2>4 DEF Peel, FwdCells
  <1>4. \A i \in Hops : \A v \in Values : \A c \in BwdCells : SealBack(i, v, c) \in BwdCells
    BY DEF SealBack, BwdCells
  <1>5. \A i \in Hops : \A c \in BwdCells : Wrap(i, c) \in BwdCells
    <2> TAKE i \in Hops
    <2> TAKE c \in BwdCells
    <2>1. circ.offset[i]["bwd"] \in Values
      BY CircType DEF Directions
    <2>2. c.ctr \in Int
      BY ValuesAreInts DEF BwdCells
    <2>3. Shift(c.ctr, circ.offset[i]["bwd"]) \in Values
      BY <2>1, <2>2, ShiftValue, ValuesAreInts
    <2> QED BY <1>4, <2>3 DEF Wrap
  <1>6. \A r \in Int : \A n \in Values : SealReply(r, n) \in BwdCells
    <2> TAKE r \in Int
    <2> TAKE n \in Values
    <2>0. N \in Hops
      BY ChainAssumption DEF Hops
    <2>1. circ.offset[N]["bwd"] \in Values
      BY <2>0, CircType DEF Directions
    <2>2. Shift(r, circ.offset[N]["bwd"]) \in Values
      BY <2>1, ShiftValue, ValuesAreInts
    <2>3. [ctr |-> 0, ans |-> n, under |-> Bare] \in BwdCells
      BY ValuesAreInts DEF BwdCells, Bare
    <2> QED BY <1>4, <2>0, <2>2, <2>3 DEF SealReply
  <1> QED BY <1>1, <1>2, <1>3, <1>4, <1>5, <1>6

LEMMA EndHopType ==
  ASSUME TypeOK, NEW i \in Hops, EndHop(i)
  PROVE  /\ (hop \in [Hops -> {"idle", "live", "gone"}])'
         /\ (back \in [Hops -> {"none", "run", "done"}])'
         /\ (fwdQ \in [Hops -> Seq(FwdCells)])'
         /\ (bwdQ \in [Hops -> Seq(BwdCells)])'
         /\ LinkType'
  <1>1. /\ (hop \in [Hops -> {"idle", "live", "gone"}])'
        /\ (back \in [Hops -> {"none", "run", "done"}])'
    BY DEF TypeOK, HopType, EndHop
  <1>2. /\ (fwdQ \in [Hops -> Seq(FwdCells)])'
        /\ (bwdQ \in [Hops -> Seq(BwdCells)])'
    BY DEF TypeOK, HopType, EndHop
  <1>3. (near \in [Hops -> LinkEnds])' /\ (far \in [Hops -> LinkEnds])' /\ (line \in [Hops -> Lines])'
    BY DEF TypeOK, LinkType, EndHop, LinkEnds
  <1>4. (fwd \in [Hops -> Seq(FwdCells)])' /\ (bwd \in [Hops -> Seq(BwdCells)])'
    BY DEF TypeOK, LinkType, EndHop
  <1> QED BY <1>1, <1>2, <1>3, <1>4 DEF LinkType

\* A cell written on a link is in flight on it, or lost.
LEMMA FwdCarryType ==
  ASSUME NEW q \in [Hops -> Seq(FwdCells)], NEW l \in Hops, NEW c \in FwdCells, NEW o
  PROVE  Carry(q, l, c, o) \in [Hops -> Seq(FwdCells)]
  <1>1. Append(q[l], c) \in Seq(FwdCells)
    OBVIOUS
  <1> QED BY <1>1 DEF Carry

LEMMA BwdCarryType ==
  ASSUME NEW q \in [Hops -> Seq(BwdCells)], NEW l \in Hops, NEW c \in BwdCells, NEW o
  PROVE  Carry(q, l, c, o) \in [Hops -> Seq(BwdCells)]
  <1>1. Append(q[l], c) \in Seq(BwdCells)
    OBVIOUS
  <1> QED BY <1>1 DEF Carry

\* A cell that a hop takes off its link, and the link without it.
LEMMA ReadingType ==
  ASSUME TypeOK, NEW i \in Hops, Reading(i)
  PROVE  /\ Head(fwd[i]) \in FwdCells
         /\ [fwd EXCEPT ![i] = Tail(@)] \in [Hops -> Seq(FwdCells)]
  <1>1. fwd[i] \in Seq(FwdCells) /\ fwd[i] # <<>>
    BY DEF TypeOK, LinkType, Reading
  <1>2. Head(fwd[i]) \in FwdCells /\ Tail(fwd[i]) \in Seq(FwdCells)
    BY <1>1, SeqParts
  <1> QED BY <1>2 DEF TypeOK, LinkType

LEMMA ReadingBackType ==
  ASSUME TypeOK, NEW i \in Hops, ReadingBack(i)
  PROVE  /\ i + 1 \in Hops
         /\ Head(bwd[i + 1]) \in BwdCells
         /\ [bwd EXCEPT ![i + 1] = Tail(@)] \in [Hops -> Seq(BwdCells)]
  <1>0. i + 1 \in Hops
    BY ChainAssumption DEF Hops, ReadingBack
  <1>1. bwd[i + 1] \in Seq(BwdCells) /\ bwd[i + 1] # <<>>
    BY <1>0 DEF TypeOK, LinkType, ReadingBack
  <1>2. Head(bwd[i + 1]) \in BwdCells /\ Tail(bwd[i + 1]) \in Seq(BwdCells)
    BY <1>1, SeqParts
  <1> QED BY <1>0, <1>2 DEF TypeOK, LinkType

LEMMA TakesDataType ==
  ASSUME TypeOK, NEW i \in Hops, TakesData(i)
  PROVE  /\ (fwdSeq \in [Hops -> SequenceStates])'
         /\ Head(fwd[i]) \in FwdCells
         /\ Head(fwd[i]).n \in Values
  <1>1. Head(fwd[i]) \in FwdCells
    BY ReadingType DEF TakesData
  <1>2. Take(fwdSeq[i], Head(fwd[i]).ctr) \in SequenceStates
    BY TakeType DEF TakesData, TypeOK, HopType
  <1>3. (fwdSeq \in [Hops -> SequenceStates])'
    BY <1>2 DEF TakesData, TypeOK, HopType
  <1> QED BY <1>1, <1>3 DEF TakesData, OpensData, FwdCells

LEMMA ClientStepType ==
  ASSUME TypeOK, ClientSend \/ ClientReceive \/ ClientEnds \/ ClientClose
  PROVE  TypeOK'
  <1> USE DEF TypeOK
  <1>0. 1 \in Hops
    BY ChainAssumption DEF Hops
  <1>1. CASE ClientSend
    <2>1. sent \in Values /\ sent' \in 0 .. CellLimit
      BY <1>1, LimitAssumption DEF ClientSend, ClientType, Values
    <2>2. SealForward(sent) \in FwdCells
      BY <2>1, CellTypes
    <2>3. (fwd \in [Hops -> Seq(FwdCells)])'
      <3>1. PICK o \in FwdWrite(1) : fwd' = Carry(fwd, 1, SealForward(sent), o)
        BY <1>1 DEF ClientSend
      <3> QED BY <1>0, <2>2, <3>1, FwdCarryType DEF LinkType
    <2> QED BY <1>1, <2>1, <2>3
        DEF ClientSend, ClientType, HopType, LinkType, BoundType, hopVars, boundVars
  <1>2. CASE ClientReceive
    <2>1. bwd[1] \in Seq(BwdCells) /\ bwd[1] # <<>>
      BY <1>0, <1>2 DEF ClientReceive, LinkType
    <2>2. Head(bwd[1]) \in BwdCells /\ Tail(bwd[1]) \in Seq(BwdCells)
      BY <2>1, SeqParts
    <2>3. LinkType'
      <3>1. bwd' = [bwd EXCEPT ![1] = Tail(@)] \/ bwd' = [bwd EXCEPT ![1] = <<>>]
        BY <1>2 DEF ClientReceive
      <3>2. bwd' \in [Hops -> Seq(BwdCells)]
        <4>1. CASE bwd' = [bwd EXCEPT ![1] = Tail(@)]
          BY <1>0, <2>2, <4>1 DEF LinkType
        <4>2. CASE bwd' = [bwd EXCEPT ![1] = <<>>]
          BY <1>0, <4>2 DEF LinkType
        <4> QED BY <3>1, <4>1, <4>2
      <3>3. near' \in [Hops -> LinkEnds]
        BY <1>2 DEF ClientReceive, LinkType, LinkEnds
      <3> QED BY <1>2, <3>2, <3>3 DEF ClientReceive, LinkType
    <2>4. OpenClass(Head(bwd[1])) \in {"none", "notOpened", "outOfTurn", "unsolicited"}
      BY DEF OpenClass
    <2>5. ClientType'
      <3>1. Head(bwd[1]).ans \in Values
        BY <2>2 DEF BwdCells
      <3>2. accepted' \in Seq(Values)
        BY <1>2, <3>1 DEF ClientReceive, ClientType
      <3>3. want' \in Nat
        BY <1>2 DEF ClientReceive, ClientType
      <3> QED BY <1>2, <2>4, <3>2, <3>3 DEF ClientReceive, ClientType
    <2> QED BY <1>2, <2>3, <2>5 DEF ClientReceive, HopType, BoundType, hopVars, boundVars
  <1>3. CASE ClientEnds
    BY <1>3 DEF ClientEnds, ClientType, HopType, LinkType, BoundType, hopVars, linkVars, boundVars
  <1>4. CASE ClientClose
    BY <1>0, <1>4
    DEF ClientClose, ClientType, HopType, LinkType, LinkEnds, BoundType, hopVars, boundVars
  <1> QED BY <1>1, <1>2, <1>3, <1>4

LEMMA HopStepType ==
  ASSUME TypeOK, NEW i \in Hops, HopStep(i)
  PROVE  TypeOK'
  <1>1. CASE HandleSetup(i)
    <2>1. fwdSeq' \in [Hops -> SequenceStates]
      <3>1. i = N => FirstForward \in Values
        BY CircType, ChainAssumption DEF TypeOK, FirstForward, Hops, Directions
      <3>2. i = N => Expect(fwdSeq[i], FirstForward) \in SequenceStates
        BY <3>1 DEF TypeOK, HopType, Expect, SequenceStates
      <3> QED BY <1>1, <3>2 DEF HandleSetup, TypeOK, HopType
    <2>2. HopType'
      BY <1>1, <2>1 DEF HandleSetup, TypeOK, HopType
    <2>3. LinkType'
      <3>1. i # N => i + 1 \in Hops
        BY ChainAssumption DEF Hops
      <3>2. i # N => <<SetupCell(i + 1)>> \in Seq(FwdCells)
        BY <3>1, CellTypes DEF TypeOK
      <3>3. fwd' \in [Hops -> Seq(FwdCells)]
        <4>1. [fwd EXCEPT ![i] = Tail(@)] \in [Hops -> Seq(FwdCells)]
          BY <1>1, ReadingType DEF HandleSetup
        <4>2. CASE i = N
          BY <1>1, <4>1, <4>2 DEF HandleSetup
        <4>3. CASE i # N
          <5>1. fwd' = [[fwd EXCEPT ![i] = Tail(@)] EXCEPT ![i + 1] = <<SetupCell(i + 1)>>]
            BY <1>1, <4>3 DEF HandleSetup
          <5> QED BY <4>1, <4>3, <3>2, <5>1
        <4> QED BY <4>2, <4>3
      <3>4. near' \in [Hops -> LinkEnds] /\ far' \in [Hops -> LinkEnds]
        BY <1>1, <3>1 DEF HandleSetup, TypeOK, LinkType, LinkEnds
      <3> QED BY <1>1, <3>3, <3>4 DEF HandleSetup, TypeOK, LinkType
    <2> QED BY <1>1, <2>2, <2>3 DEF HandleSetup, TypeOK, ClientType, BoundType, clientVars, boundVars
  <1>2. CASE HandleSetupFails(i)
    <2>1. BoundType'
      BY <1>2, ChainAssumption DEF HandleSetupFails, TypeOK, BoundType
    <2> QED BY <1>2, <2>1, EndHopType DEF HandleSetupFails, TypeOK, ClientType, HopType, clientVars
  <1>3. CASE HandleStray(i)
    <2>1. LinkType'
      BY <1>3, ReadingType DEF HandleStray, TypeOK, LinkType
    <2> QED BY <1>3, <2>1
        DEF HandleStray, TypeOK, ClientType, HopType, BoundType, clientVars, hopVars, boundVars
  <1>4. CASE HandleOutOfTurn(i)
    BY <1>4, EndHopType
    DEF HandleOutOfTurn, TypeOK, ClientType, HopType, BoundType, clientVars, boundVars
  <1>5. CASE HandleForward(i)
    <2>1. i + 1 \in Hops
      BY <1>5, ChainAssumption DEF HandleForward, Hops
    <2>2. Peel(i, Head(fwd[i])) \in FwdCells
      BY <1>5, TakesDataType, CellTypes DEF HandleForward, TypeOK
    <2>3. fwd' \in [Hops -> Seq(FwdCells)]
      <3>1. [fwd EXCEPT ![i] = Tail(@)] \in [Hops -> Seq(FwdCells)]
        BY <1>5, ReadingType DEF HandleForward, TakesData
      <3>2. CASE i \in Paced
        BY <1>5, <3>1, <3>2 DEF HandleForward
      <3>3. CASE i \notin Paced
        <4>1. PICK o \in FwdWrite(i + 1) \cap {"sent", "lost"} :
                fwd' = Carry([fwd EXCEPT ![i] = Tail(@)], i + 1, Peel(i, Head(fwd[i])), o)
          BY <1>5, <3>3 DEF HandleForward
        <4> QED BY <2>1, <2>2, <3>1, <4>1, FwdCarryType
      <3> QED BY <3>2, <3>3
    <2>4. fwdQ' \in [Hops -> Seq(FwdCells)]
      <3>1. Append(fwdQ[i], Peel(i, Head(fwd[i]))) \in Seq(FwdCells)
        BY <2>2 DEF TypeOK, HopType
      <3>2. fwdQ' = [fwdQ EXCEPT ![i] = Append(@, Peel(i, Head(fwd[i])))] \/ fwdQ' = fwdQ
        BY <1>5 DEF HandleForward
      <3> QED BY <3>1, <3>2 DEF TypeOK, HopType
    <2>5. fwdSeq' \in [Hops -> SequenceStates]
      BY <1>5, TakesDataType DEF HandleForward
    <2>6. HopType'
      BY <1>5, <2>4, <2>5 DEF HandleForward, TypeOK, HopType
    <2> QED BY <1>5, <2>3, <2>6
        DEF HandleForward, TypeOK, ClientType, LinkType, BoundType, clientVars, boundVars
  <1>6. CASE HandleForwardFails(i)
    BY <1>6, EndHopType, TakesDataType
    DEF HandleForwardFails, TypeOK, ClientType, HopType, BoundType, clientVars, boundVars
  <1>7. CASE HandleDeliver(i)
    <2>1. Head(fwd[i]).n \in Values /\ fwdSeq' \in [Hops -> SequenceStates]
      BY <1>7, TakesDataType DEF HandleDeliver
    <2>2. SealReply(replies, Head(fwd[i]).n) \in BwdCells
      BY <2>1, CellTypes DEF TypeOK, HopType
    <2>3. SealReply(replies, Head(fwd[i]).n).ctr \in Values
      BY <2>2 DEF BwdCells
    <2>4. fwd' \in [Hops -> Seq(FwdCells)]
      BY <1>7, ReadingType DEF HandleDeliver, TakesData
    <2>5. bwd' \in [Hops -> Seq(BwdCells)]
      <3>1. CASE i \in Paced
        BY <1>7, <3>1 DEF HandleDeliver, TypeOK, LinkType
      <3>2. CASE i \notin Paced
        <4>1. PICK o \in BwdWrite(i) \cap {"sent", "lost"} :
                bwd' = Carry(bwd, i, SealReply(replies, Head(fwd[i]).n), o)
          BY <1>7, <3>2 DEF HandleDeliver
        <4> QED BY <2>2, <4>1, BwdCarryType DEF TypeOK, LinkType
      <3> QED BY <3>1, <3>2
    <2>6. bwdQ' \in [Hops -> Seq(BwdCells)]
      <3>1. Append(bwdQ[i], SealReply(replies, Head(fwd[i]).n)) \in Seq(BwdCells)
        BY <2>2 DEF TypeOK, HopType
      <3>2. \/ bwdQ' = [bwdQ EXCEPT ![i] = Append(@, SealReply(replies, Head(fwd[i]).n))]
            \/ bwdQ' = bwdQ
        BY <1>7 DEF HandleDeliver
      <3> QED BY <3>1, <3>2 DEF TypeOK, HopType
    <2>7. sealed' \in [Hops -> Seq(Values)]
      BY <1>7, <2>3 DEF HandleDeliver, TypeOK, HopType
    <2>8. replies' \in 0 .. CellLimit /\ delivered' \in Seq(Values)
      <3>1. replies' \in 0 .. CellLimit
        BY <1>7, LimitAssumption DEF HandleDeliver, TypeOK, HopType
      <3>2. Append(delivered, Head(fwd[i]).n) \in Seq(Values)
        BY <2>1 DEF TypeOK, HopType
      <3> QED BY <1>7, <3>1, <3>2 DEF HandleDeliver
    <2>9. HopType'
      BY <1>7, <2>1, <2>6, <2>7, <2>8 DEF HandleDeliver, TypeOK, HopType
    <2> QED BY <1>7, <2>4, <2>5, <2>9
        DEF HandleDeliver, TypeOK, ClientType, LinkType, BoundType, clientVars, boundVars
  <1>8. CASE HandleDeliverFails(i)
    <2>1. Head(fwd[i]).n \in Values /\ fwdSeq' \in [Hops -> SequenceStates]
      BY <1>8, TakesDataType DEF HandleDeliverFails
    <2>2. SealReply(replies, Head(fwd[i]).n) \in BwdCells
      BY <2>1, CellTypes DEF TypeOK, HopType
    <2>3. SealReply(replies, Head(fwd[i]).n).ctr \in Values
      BY <2>2 DEF BwdCells
    <2>4. sealed' \in [Hops -> Seq(Values)]
      BY <1>8, <2>3 DEF HandleDeliverFails, TypeOK, HopType
    <2>5. replies' \in 0 .. CellLimit /\ delivered' \in Seq(Values)
      <3>1. replies' \in 0 .. CellLimit
        BY <1>8, LimitAssumption DEF HandleDeliverFails, TypeOK, HopType
      <3>2. Append(delivered, Head(fwd[i]).n) \in Seq(Values)
        BY <2>1 DEF TypeOK, HopType
      <3> QED BY <1>8, <3>1, <3>2 DEF HandleDeliverFails
    <2>6. HopType'
      BY <1>8, <2>1, <2>4, <2>5, EndHopType DEF HandleDeliverFails, TypeOK, HopType
    <2> QED BY <1>8, <2>6, EndHopType
        DEF HandleDeliverFails, TypeOK, ClientType, BoundType, clientVars, boundVars
  <1>9. CASE HandleEnds(i)
    BY <1>9, EndHopType
    DEF HandleEnds, TypeOK, ClientType, HopType, BoundType, clientVars, boundVars
  <1> QED BY <1>1, <1>2, <1>3, <1>4, <1>5, <1>6, <1>7, <1>8, <1>9 DEF HopStep

LEMMA EndBackwardType ==
  ASSUME TypeOK, NEW i \in Hops, EndBackward(i)
  PROVE  /\ back' \in [Hops -> {"none", "run", "done"}]
         /\ far' \in [Hops -> LinkEnds]
         /\ fwd' \in [Hops -> Seq(FwdCells)]
  <1>1. back' \in [Hops -> {"none", "run", "done"}] /\ far' \in [Hops -> LinkEnds]
    BY DEF TypeOK, HopType, LinkType, LinkEnds, EndBackward
  <1>2. fwd' \in [Hops -> Seq(FwdCells)]
    BY DEF TypeOK, LinkType, EndBackward
  <1> QED BY <1>1, <1>2

\* What a hop wraps, and what it then remembers of it.
LEMMA WrapType ==
  ASSUME TypeOK, NEW i \in Hops, ReadingBack(i), Due(bwdSeq[i], Head(bwd[i + 1]).ctr)
  PROVE  /\ Wrap(i, Head(bwd[i + 1])) \in BwdCells
         /\ [bwdSeq EXCEPT ![i] = Take(@, Head(bwd[i + 1]).ctr)] \in [Hops -> SequenceStates]
         /\ [sealed EXCEPT ![i] = Append(@, Wrap(i, Head(bwd[i + 1])).ctr)] \in [Hops -> Seq(Values)]
  <1>1. Wrap(i, Head(bwd[i + 1])) \in BwdCells
    BY ReadingBackType, CellTypes DEF TypeOK
  <1>2. Take(bwdSeq[i], Head(bwd[i + 1]).ctr) \in SequenceStates
    BY TakeType DEF TypeOK, HopType
  <1>3. Append(sealed[i], Wrap(i, Head(bwd[i + 1])).ctr) \in Seq(Values)
    BY <1>1 DEF TypeOK, HopType, BwdCells
  <1> QED BY <1>1, <1>2, <1>3 DEF TypeOK, HopType

LEMMA BackStepType ==
  ASSUME TypeOK, NEW i \in Hops, BackStep(i)
  PROVE  TypeOK'
  <1>1. CASE Backward(i)
    <2> DEFINE out == Wrap(i, Head(bwd[i + 1]))
    <2> DEFINE rest == [bwd EXCEPT ![i + 1] = Tail(@)]
    <2>1. out \in BwdCells /\ rest \in [Hops -> Seq(BwdCells)]
      BY <1>1, WrapType, ReadingBackType DEF Backward
    <2>2. bwdSeq' \in [Hops -> SequenceStates] /\ sealed' \in [Hops -> Seq(Values)]
      BY <1>1, WrapType DEF Backward
    <2>3. bwd' \in [Hops -> Seq(BwdCells)]
      <3>1. CASE i \in Paced
        BY <1>1, <2>1, <3>1 DEF Backward
      <3>2. CASE i \notin Paced
        <4>1. PICK o \in BwdWrite(i) \cap {"sent", "lost"} : bwd' = Carry(rest, i, out, o)
          BY <1>1, <3>2 DEF Backward
        <4> HIDE DEF out, rest
        <4> QED BY <2>1, <4>1, BwdCarryType
      <3> QED BY <3>1, <3>2
    <2>4. bwdQ' \in [Hops -> Seq(BwdCells)]
      <3>1. bwdQ' = [bwdQ EXCEPT ![i] = Append(@, out)] \/ bwdQ' = bwdQ
        BY <1>1 DEF Backward
      <3>2. Append(bwdQ[i], out) \in Seq(BwdCells)
        BY <2>1 DEF TypeOK, HopType
      <3> HIDE DEF out, rest
      <3> QED BY <3>1, <3>2 DEF TypeOK, HopType
    <2>5. HopType'
      BY <1>1, <2>2, <2>4 DEF Backward, TypeOK, HopType
    <2> QED BY <1>1, <2>3, <2>5
        DEF Backward, TypeOK, ClientType, LinkType, BoundType, clientVars, boundVars
  <1>2. CASE BackwardFails(i)
    <2>1. bwd' \in [Hops -> Seq(BwdCells)]
      BY <1>2, ReadingBackType DEF BackwardFails
    <2>2. /\ bwdSeq' \in [Hops -> SequenceStates]
          /\ sealed' \in [Hops -> Seq(Values)]
          /\ turns' \subseteq Hops
      <3>1. CASE Due(bwdSeq[i], Head(bwd[i + 1]).ctr)
        <4>1. /\ bwdSeq' = [bwdSeq EXCEPT ![i] = Take(@, Head(bwd[i + 1]).ctr)]
              /\ sealed' = [sealed EXCEPT ![i] = Append(@, Wrap(i, Head(bwd[i + 1])).ctr)]
              /\ turns' = turns
          BY <1>2, <3>1 DEF BackwardFails
        <4>2. ReadingBack(i)
          BY <1>2 DEF BackwardFails
        <4> QED BY <3>1, <4>1, <4>2, WrapType DEF TypeOK, HopType
      <3>2. CASE ~Due(bwdSeq[i], Head(bwd[i + 1]).ctr)
        BY <1>2, <3>2 DEF BackwardFails, TypeOK, HopType
      <3> QED BY <3>1, <3>2
    <2>3. LinkType'
      BY <1>2, <2>1, EndBackwardType DEF BackwardFails, TypeOK, LinkType
    <2>4. HopType'
      BY <1>2, <2>2, EndBackwardType DEF BackwardFails, TypeOK, HopType
    <2> QED BY <1>2, <2>3, <2>4
        DEF BackwardFails, TypeOK, ClientType, BoundType, clientVars, boundVars
  <1>3. CASE BackwardEnds(i)
    BY <1>3, EndBackwardType
    DEF BackwardEnds, TypeOK, ClientType, HopType, LinkType, BoundType, clientVars, boundVars
  <1> QED BY <1>1, <1>2, <1>3 DEF BackStep

LEMMA TickType ==
  ASSUME TypeOK, NEW i \in Hops, TickFwd(i) \/ TickBwd(i)
  PROVE  TypeOK'
  <1>1. CASE TickFwd(i)
    <2>0. i + 1 \in Hops
      BY <1>1, ChainAssumption DEF TickFwd, Hops
    <2>1. Head(fwdQ[i]) \in FwdCells /\ Tail(fwdQ[i]) \in Seq(FwdCells)
      BY <1>1, SeqParts DEF TickFwd, TypeOK, HopType
    <2>2. HopType'
      BY <1>1, <2>1 DEF TickFwd, TypeOK, HopType
    <2>3. PICK o \in FwdWrite(i + 1) \cap {"sent", "lost"} :
            fwd' = Carry(fwd, i + 1, Head(fwdQ[i]), o)
      BY <1>1 DEF TickFwd
    <2>4. fwd' \in [Hops -> Seq(FwdCells)]
      BY <2>0, <2>1, <2>3, FwdCarryType DEF TypeOK, LinkType
    <2> QED BY <1>1, <2>2, <2>4
        DEF TickFwd, TypeOK, ClientType, LinkType, BoundType, clientVars, boundVars
  <1>2. CASE TickBwd(i)
    <2>1. Head(bwdQ[i]) \in BwdCells /\ Tail(bwdQ[i]) \in Seq(BwdCells)
      BY <1>2, SeqParts DEF TickBwd, TypeOK, HopType
    <2>2. HopType'
      BY <1>2, <2>1 DEF TickBwd, TypeOK, HopType
    <2>3. PICK o \in BwdWrite(i) \cap {"sent", "lost"} : bwd' = Carry(bwd, i, Head(bwdQ[i]), o)
      BY <1>2 DEF TickBwd
    <2>4. bwd' \in [Hops -> Seq(BwdCells)]
      BY <2>1, <2>3, BwdCarryType DEF TypeOK, LinkType
    <2> QED BY <1>2, <2>2, <2>4
        DEF TickBwd, TypeOK, ClientType, LinkType, BoundType, clientVars, boundVars
  <1> QED BY <1>1, <1>2

LEMMA TickFailsType ==
  ASSUME TypeOK, NEW i \in Hops, TickFwdFails(i) \/ TickBwdFails(i)
  PROVE  TypeOK'
  <1>1. CASE TickFwdFails(i)
    <2>0. i + 1 \in Hops
      BY <1>1, ChainAssumption DEF TickFwdFails, Hops
    <2>1. fwdQ[i] # <<>> => Tail(fwdQ[i]) \in Seq(FwdCells)
      BY SeqParts DEF TypeOK, HopType
    <2>2. HopType'
      BY <1>1, <2>1 DEF TickFwdFails, TypeOK, HopType
    <2>3. near' \in [Hops -> LinkEnds] /\ bwd' \in [Hops -> Seq(BwdCells)]
      BY <1>1, <2>0 DEF TickFwdFails, TypeOK, LinkType, LinkEnds
    <2> QED BY <1>1, <2>2, <2>3
        DEF TickFwdFails, TypeOK, ClientType, LinkType, BoundType, clientVars, boundVars
  <1>2. CASE TickBwdFails(i)
    <2>1. bwdQ[i] # <<>> => Tail(bwdQ[i]) \in Seq(BwdCells)
      BY SeqParts DEF TypeOK, HopType
    <2>2. HopType'
      BY <1>2, <2>1 DEF TickBwdFails, TypeOK, HopType
    <2>3. far' \in [Hops -> LinkEnds] /\ fwd' \in [Hops -> Seq(FwdCells)]
      BY <1>2 DEF TickBwdFails, TypeOK, LinkType, LinkEnds
    <2> QED BY <1>2, <2>2, <2>3
        DEF TickBwdFails, TypeOK, ClientType, LinkType, BoundType, clientVars, boundVars
  <1> QED BY <1>1, <1>2

LEMMA BreakType ==
  ASSUME TypeOK, NEW i \in Hops, Expire(i) \/ Cut(i) \/ Stall(i) \/ LoseTail(i)
  PROVE  TypeOK'
  <1>1. CASE Expire(i)
    <2>1. BoundType' /\ LinkType'
      BY <1>1, ChainAssumption DEF Expire, TypeOK, LinkType, LinkEnds, BoundType
    <2> QED BY <1>1, <2>1 DEF Expire, TypeOK, ClientType, HopType, clientVars, hopVars
  <1>2. CASE Cut(i)
    <2>1. BoundType' /\ LinkType'
      BY <1>2, ChainAssumption DEF Cut, TypeOK, LinkType, Lines, BoundType
    <2> QED BY <1>2, <2>1 DEF Cut, TypeOK, ClientType, HopType, clientVars, hopVars
  <1>3. CASE LoseTail(i)
    <2>1. fwd' \in [Hops -> Seq(FwdCells)]
      <3>1. fwd[i] # <<>> => SubSeq(fwd[i], 1, Len(fwd[i]) - 1) \in Seq(FwdCells)
        BY SeqFront DEF TypeOK, LinkType
      <3> QED BY <1>3, <3>1 DEF LoseTail, TypeOK, LinkType
    <2>2. bwd' \in [Hops -> Seq(BwdCells)]
      <3>1. bwd[i] # <<>> => SubSeq(bwd[i], 1, Len(bwd[i]) - 1) \in Seq(BwdCells)
        BY SeqFront DEF TypeOK, LinkType
      <3> QED BY <1>3, <3>1 DEF LoseTail, TypeOK, LinkType
    <2> QED BY <1>3, <2>1, <2>2
        DEF LoseTail, TypeOK, ClientType, HopType, LinkType, BoundType, clientVars, hopVars,
            boundVars
  <1>4. CASE Stall(i)
    <2>1. BoundType' /\ LinkType'
      BY <1>4, ChainAssumption DEF Stall, TypeOK, LinkType, Lines, BoundType
    <2> QED BY <1>4, <2>1 DEF Stall, TypeOK, ClientType, HopType, clientVars, hopVars
  <1> QED BY <1>1, <1>2, <1>3, <1>4

\* A faulty hop still sends cells.
LEMMA ForgedType ==
  ASSUME circ \in Circuits, NEW i \in Hops
  PROVE  /\ \A q \in Seq(FwdCells) : FwdForged(q) \subseteq Seq(FwdCells)
         /\ \A q \in Seq(BwdCells) : BwdForged(i, q) \subseteq Seq(BwdCells)
  <1>1. ASSUME NEW q \in Seq(FwdCells), NEW r \in FwdForged(q) PROVE r \in Seq(FwdCells)
    <2>1. CASE \E c \in FwdJunk : r = Append(q, c)
      <3>1. FwdJunk \subseteq FwdCells
        BY ChainAssumption DEF FwdJunk, FwdCells
      <3> QED BY <2>1, <3>1
    <2>2. CASE \E k \in 1 .. Len(q), v \in Values : r = [q EXCEPT ![k].ctr = v]
      <3>1. PICK k \in 1 .. Len(q), v \in Values : r = [q EXCEPT ![k].ctr = v]
        BY <2>2
      <3>2. [q[k] EXCEPT !.ctr = v] \in FwdCells
        <4>1. q[k] \in FwdCells
          OBVIOUS
        <4> QED BY <4>1 DEF FwdCells
      <3> QED BY <3>1, <3>2
    <2> QED BY <1>1, <2>1, <2>2 DEF FwdForged
  <1>2. ASSUME NEW q \in Seq(BwdCells), NEW r \in BwdForged(i, q) PROVE r \in Seq(BwdCells)
    <2>1. CASE \E c \in BwdJunk : r = Append(q, c)
      <3>1. BwdJunk \subseteq BwdCells
        BY ValuesAreInts DEF BwdJunk, BwdCells, Bare
      <3> QED BY <2>1, <3>1
    <2>2. CASE \E k \in 1 .. Len(q), v \in Values : r = [q EXCEPT ![k] = SealBack(i, v, q[k])]
      <3>1. PICK k \in 1 .. Len(q), v \in Values : r = [q EXCEPT ![k] = SealBack(i, v, q[k])]
        BY <2>2
      <3>2. SealBack(i, v, q[k]) \in BwdCells
        BY CellTypes
      <3> QED BY <3>1, <3>2
    <2> QED BY <1>2, <2>1, <2>2 DEF BwdForged
  <1> QED BY <1>1, <1>2

LEMMA FaultType ==
  ASSUME TypeOK, NEW i \in Hops, FaultFwd(i) \/ FaultBwd(i)
  PROVE  TypeOK'
  <1>1. CASE FaultFwd(i)
    <2>0. i + 1 \in Hops
      BY <1>1, ChainAssumption DEF FaultFwd, Hops
    <2>1. PICK q \in Disturbed(fwd[i + 1]) \cup FwdForged(fwd[i + 1]) :
            fwd' = [fwd EXCEPT ![i + 1] = q]
      BY <1>1 DEF FaultFwd
    <2>2. fwd[i + 1] \in Seq(FwdCells)
      BY <2>0 DEF TypeOK, LinkType
    <2>3. q \in Seq(FwdCells)
      BY <2>1, <2>2, SeqDisturbed, ForgedType DEF TypeOK
    <2>4. fwd' \in [Hops -> Seq(FwdCells)]
      BY <2>0, <2>1, <2>3 DEF TypeOK, LinkType
    <2>5. BoundType'
      BY <1>1, ChainAssumption DEF FaultFwd, TypeOK, BoundType
    <2> QED BY <1>1, <2>4, <2>5
        DEF FaultFwd, TypeOK, ClientType, HopType, LinkType, clientVars, hopVars
  <1>2. CASE FaultBwd(i)
    <2>1. PICK q \in Disturbed(bwd[i]) \cup BwdForged(i, bwd[i]) : bwd' = [bwd EXCEPT ![i] = q]
      BY <1>2 DEF FaultBwd
    <2>2. bwd[i] \in Seq(BwdCells)
      BY DEF TypeOK, LinkType
    <2>3. q \in Seq(BwdCells)
      BY <2>1, <2>2, SeqDisturbed, ForgedType DEF TypeOK
    <2>4. bwd' \in [Hops -> Seq(BwdCells)]
      BY <2>1, <2>3 DEF TypeOK, LinkType
    <2>5. BoundType'
      BY <1>2, ChainAssumption DEF FaultBwd, TypeOK, BoundType
    <2> QED BY <1>2, <2>4, <2>5
        DEF FaultBwd, TypeOK, ClientType, HopType, LinkType, clientVars, hopVars
  <1> QED BY <1>1, <1>2

LEMMA InitType == Init => TypeOK
  <1> SUFFICES ASSUME Init PROVE TypeOK
    OBVIOUS
  <1>1. ClientType
    BY LimitAssumption DEF Init, ClientType
  <1>2. NewSequence \in SequenceStates
    BY LimitAssumption, ValuesAreInts DEF NewSequence, SequenceStates
  <1>3. HopType
    BY <1>2, LimitAssumption DEF Init, HopType
  <1>4. fwd \in [Hops -> Seq(FwdCells)]
    <2>1. SetupCell(1) \in FwdCells
      BY CellTypes, ChainAssumption DEF Init, Hops
    <2> QED BY <2>1 DEF Init
  <1>5. LinkType
    BY <1>4 DEF Init, Lines, LinkType, LinkEnds
  <1>6. BoundType
    BY ChainAssumption DEF Init, BoundType
  <1> QED BY <1>1, <1>3, <1>5, <1>6 DEF Init, TypeOK

LEMMA StutterType == TypeOK /\ UNCHANGED vars => TypeOK'
  BY DEF TypeOK, ClientType, HopType, LinkType, BoundType, vars, clientVars, hopVars, linkVars,
         boundVars

LEMMA NextType == TypeOK /\ [Next]_vars => TypeOK'
  BY ClientStepType, HopStepType, BackStepType, TickType, TickFailsType, BreakType, FaultType, StutterType
  DEF Next

\* Every step of the client, of every relay and of the network keeps the state
\* well typed: values below the nonce limit, no Sequence past the cells a link
\* may carry (TypeOK).
THEOREM ChainTypeCorrect == Spec => []TypeOK
  BY InitType, NextType, PTL DEF Spec

-----------------------------------------------------------------------------
(* Cells in flight. Whatever set K of cells the links and queues hold, they *)
(* hold it for ever, if K is closed under what hops, faulty ones included,  *)
(* do to a cell.                                                            *)

FwdHeld(K) == fwd \in [Hops -> Seq(K)] /\ fwdQ \in [Hops -> Seq(K)]

FwdClosed(K) ==
  /\ K \subseteq FwdCells
  /\ ClientSend => SealForward(sent) \in K
  /\ \A i \in Hops : SetupCell(i) \in K
  /\ FwdJunk \subseteq K
  /\ \A c \in K : \A i \in Hops : Peel(i, c) \in K
  /\ \A c \in K : \A v \in Values : [c EXCEPT !.ctr = v] \in K

LEMMA CarryHeld ==
  ASSUME NEW K, NEW q \in [Hops -> Seq(K)], NEW l \in Hops, NEW c \in K, NEW o
  PROVE  Carry(q, l, c, o) \in [Hops -> Seq(K)]
  <1>1. Append(q[l], c) \in Seq(K)
    OBVIOUS
  <1> QED BY <1>1 DEF Carry

LEMMA ReadHeld ==
  ASSUME NEW K, NEW q \in [Hops -> Seq(K)], NEW l \in Hops, q[l] # <<>>
  PROVE  /\ Head(q[l]) \in K
         /\ [q EXCEPT ![l] = Tail(@)] \in [Hops -> Seq(K)]
  <1>1. Head(q[l]) \in K /\ Tail(q[l]) \in Seq(K)
    BY SeqParts
  <1> QED BY <1>1

LEMMA ClearHeld ==
  ASSUME NEW K, NEW q \in [Hops -> Seq(K)], NEW l \in Hops, NEW r,
         r = q \/ r = [q EXCEPT ![l] = <<>>]
  PROVE  r \in [Hops -> Seq(K)]
  <1>1. <<>> \in Seq(K)
    OBVIOUS
  <1>2. CASE r = q
    BY <1>2
  <1>3. CASE r = [q EXCEPT ![l] = <<>>]
    BY <1>1, <1>3
  <1> QED BY <1>2, <1>3

LEMMA FwdFlow ==
  ASSUME NEW K, FwdClosed(K), FwdHeld(K), TypeOK, [Next]_vars
  PROVE  fwd' \in [Hops -> Seq(K)] /\ fwdQ' \in [Hops -> Seq(K)]
  <1> USE DEF FwdHeld
  <1>0. 1 \in Hops
    BY ChainAssumption DEF Hops
  <1>1. CASE ClientSend
    <2>1. PICK o \in FwdWrite(1) : fwd' = Carry(fwd, 1, SealForward(sent), o)
      BY <1>1 DEF ClientSend
    <2>2. fwd' \in [Hops -> Seq(K)]
      BY <1>0, <1>1, <2>1, CarryHeld DEF FwdClosed
    <2> QED BY <1>1, <2>2 DEF ClientSend, hopVars
  <1>2. CASE ClientReceive \/ ClientEnds \/ ClientClose \/ UNCHANGED vars
    BY <1>2 DEF ClientReceive, ClientEnds, ClientClose, vars, hopVars, linkVars
  <1>3. ASSUME NEW i \in Hops, EndHop(i)
        PROVE  fwd' \in [Hops -> Seq(K)] /\ fwdQ' \in [Hops -> Seq(K)]
    BY <1>3, ClearHeld DEF EndHop
  <1>4. ASSUME NEW i \in Hops, HandleSetup(i)
        PROVE  fwd' \in [Hops -> Seq(K)] /\ fwdQ' \in [Hops -> Seq(K)]
    <2>1. [fwd EXCEPT ![i] = Tail(@)] \in [Hops -> Seq(K)]
      BY <1>4, ReadHeld DEF HandleSetup, Reading
    <2>2. CASE i = N
      BY <1>4, <2>1, <2>2 DEF HandleSetup
    <2>3. CASE i # N
      <3>1. fwd' = [[fwd EXCEPT ![i] = Tail(@)] EXCEPT ![i + 1] = <<SetupCell(i + 1)>>]
        BY <1>4, <2>3 DEF HandleSetup
      <3>2. i + 1 \in Hops
        BY <2>3, ChainAssumption DEF Hops
      <3>3. <<SetupCell(i + 1)>> \in Seq(K)
        BY <3>2 DEF FwdClosed
      <3> QED BY <1>4, <2>1, <3>1, <3>3 DEF HandleSetup
    <2> QED BY <2>2, <2>3
  <1>5. ASSUME NEW i \in Hops, HandleStray(i) \/ HandleDeliver(i)
        PROVE  fwd' \in [Hops -> Seq(K)] /\ fwdQ' \in [Hops -> Seq(K)]
    <2>1. fwd[i] # <<>> /\ fwd' = [fwd EXCEPT ![i] = Tail(@)] /\ fwdQ' = fwdQ
      BY <1>5 DEF HandleStray, HandleDeliver, TakesData, Reading, hopVars
    <2> QED BY <2>1, ReadHeld
  <1>6. ASSUME NEW i \in Hops, HandleForward(i)
        PROVE  fwd' \in [Hops -> Seq(K)] /\ fwdQ' \in [Hops -> Seq(K)]
    <2> DEFINE out == Peel(i, Head(fwd[i]))
    <2> DEFINE rest == [fwd EXCEPT ![i] = Tail(@)]
    <2>0. i + 1 \in Hops
      BY <1>6, ChainAssumption DEF HandleForward, Hops
    <2>1. Head(fwd[i]) \in K /\ rest \in [Hops -> Seq(K)]
      BY <1>6, ReadHeld DEF HandleForward, TakesData, Reading
    <2>2. out \in K
      BY <2>1 DEF FwdClosed
    <2>3. CASE i \in Paced
      <3>1. fwd' = rest /\ fwdQ' = [fwdQ EXCEPT ![i] = Append(@, out)]
        BY <1>6, <2>3 DEF HandleForward
      <3>2. Append(fwdQ[i], out) \in Seq(K)
        BY <2>2
      <3> HIDE DEF out, rest
      <3> QED BY <2>1, <3>1, <3>2
    <2>4. CASE i \notin Paced
      <3>1. PICK o \in FwdWrite(i + 1) \cap {"sent", "lost"} : fwd' = Carry(rest, i + 1, out, o)
        BY <1>6, <2>4 DEF HandleForward
      <3>2. fwdQ' = fwdQ
        BY <1>6, <2>4 DEF HandleForward
      <3> HIDE DEF out, rest
      <3>3. fwd' \in [Hops -> Seq(K)]
        BY <2>0, <2>1, <2>2, <3>1, CarryHeld
      <3> QED BY <3>2, <3>3
    <2> QED BY <2>3, <2>4
  <1>7. ASSUME NEW i \in Hops, BackStep(i)
        PROVE  fwd' \in [Hops -> Seq(K)] /\ fwdQ' \in [Hops -> Seq(K)]
    <2>1. (fwd' = fwd \/ fwd' = [fwd EXCEPT ![i] = <<>>]) /\ fwdQ' = fwdQ
      BY <1>7 DEF BackStep, Backward, BackwardFails, BackwardEnds, EndBackward
    <2> QED BY <2>1, ClearHeld
  <1>8. ASSUME NEW i \in Hops, TickFwd(i)
        PROVE  fwd' \in [Hops -> Seq(K)] /\ fwdQ' \in [Hops -> Seq(K)]
    <2>0. i + 1 \in Hops
      BY <1>8, ChainAssumption DEF TickFwd, Hops
    <2>1. Head(fwdQ[i]) \in K /\ fwdQ' \in [Hops -> Seq(K)]
      BY <1>8, ReadHeld DEF TickFwd
    <2>2. PICK o \in FwdWrite(i + 1) \cap {"sent", "lost"} :
            fwd' = Carry(fwd, i + 1, Head(fwdQ[i]), o)
      BY <1>8 DEF TickFwd
    <2> QED BY <2>0, <2>1, <2>2, CarryHeld
  <1>9. ASSUME NEW i \in Hops,
               TickBwd(i) \/ TickBwdFails(i) \/ Expire(i) \/ Cut(i) \/ Stall(i)
        PROVE  fwd' \in [Hops -> Seq(K)] /\ fwdQ' \in [Hops -> Seq(K)]
    <2>1. (fwd' = fwd \/ fwd' = [fwd EXCEPT ![i] = <<>>]) /\ fwdQ' = fwdQ
      BY <1>9 DEF TickBwd, TickBwdFails, Expire, Cut, Stall, hopVars
    <2> QED BY <2>1, ClearHeld
  <1>10. ASSUME NEW i \in Hops, LoseTail(i) \/ FaultBwd(i)
         PROVE  fwd' \in [Hops -> Seq(K)] /\ fwdQ' \in [Hops -> Seq(K)]
    <2>1. fwd[i] # <<>> => SubSeq(fwd[i], 1, Len(fwd[i]) - 1) \in Seq(K)
      BY SeqFront
    <2> QED BY <1>10, <2>1 DEF LoseTail, FaultBwd, hopVars
  <1>11. ASSUME NEW i \in Hops, FaultFwd(i)
         PROVE  fwd' \in [Hops -> Seq(K)] /\ fwdQ' \in [Hops -> Seq(K)]
    <2>0. i + 1 \in Hops
      BY <1>11, ChainAssumption DEF FaultFwd, Hops
    <2>1. PICK q \in Disturbed(fwd[i + 1]) \cup FwdForged(fwd[i + 1]) :
            fwd' = [fwd EXCEPT ![i + 1] = q]
      BY <1>11 DEF FaultFwd
    <2>2. fwd[i + 1] \in Seq(K)
      BY <2>0
    <2>3. ASSUME q \in Disturbed(fwd[i + 1]) PROVE q \in Seq(K)
      BY <2>2, <2>3, SeqDisturbed
    <2>4. ASSUME q \in FwdForged(fwd[i + 1]) PROVE q \in Seq(K)
      <3>1. ASSUME NEW c \in FwdJunk, q = Append(fwd[i + 1], c) PROVE q \in Seq(K)
        BY <2>2, <3>1 DEF FwdClosed
      <3>2. ASSUME NEW k \in 1 .. Len(fwd[i + 1]), NEW v \in Values,
                   q = [fwd[i + 1] EXCEPT ![k].ctr = v]
            PROVE  q \in Seq(K)
        <4>1. fwd[i + 1][k] \in K
          BY <2>2
        <4>2. [fwd[i + 1][k] EXCEPT !.ctr = v] \in K
          BY <4>1 DEF FwdClosed
        <4> QED BY <2>2, <3>2, <4>2
      <3> QED BY <2>4, <3>1, <3>2 DEF FwdForged
    <2>5. q \in Seq(K)
      BY <2>1, <2>3, <2>4
    <2> QED BY <1>11, <2>0, <2>1, <2>5 DEF FaultFwd, hopVars
  <1>13. ASSUME NEW i \in Hops, TickFwdFails(i)
         PROVE  fwd' \in [Hops -> Seq(K)] /\ fwdQ' \in [Hops -> Seq(K)]
    <2>1. fwdQ[i] # <<>> => Tail(fwdQ[i]) \in Seq(K)
      BY SeqParts
    <2> QED BY <1>13, <2>1 DEF TickFwdFails
  <1>12. ASSUME NEW i \in Hops, HopStep(i)
         PROVE  fwd' \in [Hops -> Seq(K)] /\ fwdQ' \in [Hops -> Seq(K)]
    BY <1>3, <1>4, <1>5, <1>6, <1>12
    DEF HopStep, HandleSetupFails, HandleOutOfTurn, HandleForwardFails, HandleDeliverFails,
        HandleEnds
  <1> QED BY <1>1, <1>2, <1>7, <1>8, <1>9, <1>10, <1>11, <1>12, <1>13 DEF Next

-----------------------------------------------------------------------------
(* The exit is handed the client's cells, in order and from the first on.  *)
(* The invariant says more than ExitInOrder: no cell in flight carries a   *)
(* number the client has not taken, and a live exit waits for the value    *)
(* that the next number has on its link.                                   *)

Below(m) == {c \in FwdCells : c.n < m}

ExitState ==
  /\ hop[N] = "idle" => delivered = <<>> /\ fwdSeq[N] = NewSequence
  /\ hop[N] = "live" =>
       fwdSeq[N] = [next |-> Shift(Len(delivered), FirstForward),
                    taken |-> Len(delivered), seeded |-> TRUE]

ExitInv == TypeOK /\ FwdHeld(Below(sent)) /\ ExitInOrder /\ ExitState

\* Moving on by one after an offset is the offset of the next number.
LEMMA ShiftNext ==
  ASSUME NEW n \in Values, NEW o \in Values
  PROVE  Shift(Shift(n, o), 1) = Shift(n + 1, o)
  BY LimitAssumption DEF Shift, Values

\* The first value of the exit needs no shifting.
LEMMA ShiftZero ==
  ASSUME NEW o \in Values
  PROVE  Shift(0, o) = o
  BY LimitAssumption DEF Shift, Values

\* A fresh Sequence told its first value waits for it.
LEMMA ExpectFresh ==
  ASSUME NEW f
  PROVE  Expect(NewSequence, f) = [next |-> f, taken |-> 0, seeded |-> TRUE]
  BY DEF Expect, NewSequence

LEMMA SentGrows ==
  ASSUME TypeOK, [Next]_vars
  PROVE  sent' \in Nat /\ sent <= sent' /\ (sent' = sent \/ (ClientSend /\ sent' = sent + 1))
  <1>0. sent \in Nat
    BY LimitAssumption DEF TypeOK, ClientType
  <1>1. CASE ClientSend
    BY <1>0, <1>1 DEF ClientSend
  <1>2. CASE ~ClientSend
    <2>1. ASSUME NEW i \in Hops, HopStep(i) PROVE sent' = sent
      BY <2>1 DEF HopStep, HandleSetup, HandleSetupFails, HandleStray, HandleOutOfTurn,
        HandleForward, HandleForwardFails, HandleDeliver, HandleDeliverFails, HandleEnds, clientVars
    <2>2. ASSUME NEW i \in Hops, BackStep(i) PROVE sent' = sent
      BY <2>2 DEF BackStep, Backward, BackwardFails, BackwardEnds, clientVars
    <2>3. ASSUME NEW i \in Hops,
                 TickFwd(i) \/ TickFwdFails(i) \/ TickBwd(i) \/ TickBwdFails(i) \/ Expire(i)
                 \/ Cut(i) \/ Stall(i) \/ LoseTail(i)
                   \/ FaultFwd(i) \/ FaultBwd(i)
          PROVE  sent' = sent
      BY <2>3 DEF TickFwd, TickFwdFails, TickBwd, TickBwdFails, Expire, Cut, Stall, LoseTail,
        FaultFwd, FaultBwd, clientVars
    <2>4. ASSUME ClientReceive \/ ClientEnds \/ ClientClose \/ UNCHANGED vars
          PROVE  sent' = sent
      BY <2>4 DEF ClientReceive, ClientEnds, ClientClose, vars, clientVars
    <2>5. sent' = sent
      BY <1>2, <2>1, <2>2, <2>3, <2>4 DEF Next
    <2> QED BY <1>0, <2>5
  <1> QED BY <1>1, <1>2

LEMMA BelowClosed ==
  ASSUME TypeOK, [Next]_vars
  PROVE  FwdClosed(Below(sent'))
  <1>0. sent' \in Nat /\ sent \in Nat
    BY SentGrows, LimitAssumption DEF TypeOK, ClientType
  <1>1. circ \in Circuits
    BY DEF TypeOK
  <1>2. ASSUME ClientSend PROVE SealForward(sent) \in Below(sent')
    <2>1. sent \in Values
      BY <1>2, <1>0, LimitAssumption DEF ClientSend, Values
    <2>2. SealForward(sent) \in FwdCells
      BY <1>1, <2>1, CellTypes
    <2>3. SealForward(sent).n < sent'
      BY <1>0, <1>2 DEF ClientSend, SealForward
    <2> QED BY <2>2, <2>3 DEF Below
  <1>3. ASSUME NEW i \in Hops PROVE SetupCell(i) \in Below(sent')
    <2>1. SetupCell(i) \in FwdCells
      BY <1>1, CellTypes
    <2>2. SetupCell(i).n < sent'
      BY <1>0 DEF SetupCell, NoLayer
    <2> QED BY <2>1, <2>2 DEF Below
  <1>4. FwdJunk \subseteq Below(sent')
    BY <1>0, ChainAssumption DEF FwdJunk, Below, FwdCells, NoLayer
  <1>5. ASSUME NEW c \in Below(sent'), NEW i \in Hops PROVE Peel(i, c) \in Below(sent')
    <2>1. Peel(i, c) \in FwdCells
      BY <1>1, CellTypes DEF Below
    <2>2. Peel(i, c).n = c.n
      BY DEF Peel, Below, FwdCells
    <2> QED BY <2>1, <2>2 DEF Below
  <1>6. ASSUME NEW c \in Below(sent'), NEW v \in Values
        PROVE  [c EXCEPT !.ctr = v] \in Below(sent')
    BY DEF Below, FwdCells
  <1> QED BY <1>2, <1>3, <1>4, <1>5, <1>6 DEF FwdClosed, Below

LEMMA BelowHeld ==
  ASSUME TypeOK, FwdHeld(Below(sent)), [Next]_vars
  PROVE  FwdHeld(Below(sent))'
  <1>1. sent' \in Nat /\ sent \in Nat /\ sent <= sent'
    BY SentGrows, LimitAssumption DEF TypeOK, ClientType
  <1>2. Below(sent) \subseteq Below(sent')
    <2>1. ASSUME NEW c \in Below(sent) PROVE c \in Below(sent')
      <3>1. c.n \in Int
        <4>1. c.n \in Values \cup {-1}
          BY DEF Below, FwdCells, NoLayer
        <4>2. CASE c.n \in Values
          BY <4>2, ValuesAreInts
        <4>3. CASE c.n = -1
          BY <4>3
        <4> QED BY <4>1, <4>2, <4>3
      <3> QED BY <1>1, <3>1 DEF Below
    <2> QED BY <2>1
  <1>3. Seq(Below(sent)) \subseteq Seq(Below(sent'))
    BY <1>2
  <1>4. FwdHeld(Below(sent'))
    BY <1>3 DEF FwdHeld
  <1>5. fwd' \in [Hops -> Seq(Below(sent'))] /\ fwdQ' \in [Hops -> Seq(Below(sent'))]
    BY <1>4, BelowClosed, FwdFlow
  <1> QED BY <1>5 DEF FwdHeld, Below, FwdCells

LEMMA FirstForwardType ==
  ASSUME TypeOK
  PROVE  FirstForward \in Values
  <1>1. N \in 1 .. N + 1 /\ "fwd" \in Directions
    BY ChainAssumption DEF Directions
  <1> QED BY <1>1, CircType DEF TypeOK, FirstForward

\* The cell a live exit takes is the one the client numbered next.
LEMMA ExitTakesNext ==
  ASSUME ExitInv, TakesData(N)
  PROVE  /\ Head(fwd[N]).n = Len(delivered)
         /\ Len(delivered) < sent
         /\ fwdSeq[N]' = [next |-> Shift(Len(delivered) + 1, FirstForward),
                          taken |-> Len(delivered) + 1, seeded |-> TRUE]
  <1> DEFINE c == Head(fwd[N])
  <1> DEFINE d == Len(delivered)
  <1>0. N \in Hops /\ FirstForward \in Values
    BY FirstForwardType, ChainAssumption DEF ExitInv, Hops
  <1>1. fwdSeq[N] = [next |-> Shift(d, FirstForward), taken |-> d, seeded |-> TRUE]
    BY DEF ExitInv, ExitState, TakesData
  <1>2. c \in Below(sent) /\ c.n \in Values
    <2>1. c.n \in Values
      BY <1>0, TakesDataType DEF ExitInv
    <2>2. fwd[N] # <<>> /\ fwd \in [Hops -> Seq(Below(sent))]
      BY DEF TakesData, Reading, ExitInv, FwdHeld
    <2> QED BY <1>0, <2>1, <2>2, ReadHeld
  <1>3. c.ctr = Shift(c.n, FirstForward)
    BY DEF TakesData, OpensData, ValueAt, FirstForward
  <1>4. d \in Nat
    BY DEF ExitInv, TypeOK, HopType
  <1>5. d < CellLimit /\ c.ctr = Shift(d, FirstForward)
    <2>1. Due(fwdSeq[N], c.ctr)
      BY DEF TakesData
    <2> QED BY <1>1, <2>1 DEF Due
  <1>6. d \in Values
    BY <1>4, <1>5, LimitAssumption DEF Values
  <1>7. c.n = d
    BY <1>0, <1>2, <1>3, <1>5, <1>6, ShiftInjective
  <1>8. d < sent
    BY <1>2, <1>7 DEF Below
  <1>9. fwdSeq[N]' = Take(fwdSeq[N], c.ctr)
    BY <1>0 DEF TakesData, ExitInv, TypeOK, HopType
  <1>10. Take(fwdSeq[N], c.ctr)
           = [next |-> Shift(d + 1, FirstForward), taken |-> d + 1, seeded |-> TRUE]
    <2>1. Shift(c.ctr, 1) = Shift(d + 1, FirstForward)
      BY <1>0, <1>5, <1>6, ShiftNext
    <2>2. fwdSeq[N].taken = d
      BY <1>1
    <2> HIDE DEF c, d
    <2> QED BY <2>1, <2>2 DEF Take
  <1> QED BY <1>7, <1>8, <1>9, <1>10

\* Handing on the next number keeps the order.
LEMMA OneMoreDelivered ==
  ASSUME TypeOK, ExitInOrder, NEW m, m = Len(delivered), m < sent,
         delivered' = Append(delivered, m), sent' = sent
  PROVE  ExitInOrder' /\ Len(delivered') = m + 1
  <1>1. delivered \in Seq(Values) /\ sent \in Nat /\ m \in Nat
    BY LimitAssumption DEF TypeOK, HopType, ClientType
  <1>2. Len(delivered') = m + 1
    BY <1>1
  <1>3. ASSUME NEW k \in 1 .. Len(delivered') PROVE delivered'[k] = k - 1
    <2>1. CASE k <= m
      BY <1>1, <1>2, <2>1 DEF ExitInOrder
    <2>2. CASE k = m + 1
      BY <1>1, <2>2
    <2> QED BY <1>1, <1>2, <2>1, <2>2
  <1> QED BY <1>1, <1>2, <1>3 DEF ExitInOrder

\* A step that is neither the exit's nor the client's leaves what the exit
\* counts alone.
ExitUntouched ==
  /\ circ' = circ
  /\ delivered' = delivered
  /\ fwdSeq'[N] = fwdSeq[N]
  /\ hop'[N] = hop[N] \/ hop'[N] = "gone"

LEMMA OthersLeaveExit ==
  ASSUME TypeOK, [Next]_vars
  PROVE  \/ ExitUntouched
         \/ HandleSetup(N)
         \/ HandleDeliver(N)
         \/ HandleDeliverFails(N)
  <1>0. N \in Hops /\ fwdSeq \in [Hops -> SequenceStates]
          /\ hop \in [Hops -> {"idle", "live", "gone"}]
    BY ChainAssumption DEF TypeOK, HopType, Hops
  <1>1. ASSUME ClientSend \/ ClientReceive \/ ClientEnds \/ ClientClose \/ UNCHANGED vars
        PROVE  ExitUntouched
    BY <1>1 DEF ClientSend, ClientReceive, ClientEnds, ClientClose, ExitUntouched, vars, hopVars
  <1>2. ASSUME NEW i \in Hops, EndHop(i) PROVE hop'[N] = hop[N] \/ hop'[N] = "gone"
    BY <1>0, <1>2 DEF EndHop
  <1>3. ASSUME NEW i \in Hops,
               HandleSetupFails(i) \/ HandleStray(i) \/ HandleOutOfTurn(i) \/ HandleEnds(i)
        PROVE  ExitUntouched
    <2>1. circ' = circ /\ delivered' = delivered /\ fwdSeq' = fwdSeq
            /\ (EndHop(i) \/ hop' = hop)
      BY <1>3 DEF HandleSetupFails, HandleStray, HandleOutOfTurn, HandleEnds, hopVars
    <2> QED BY <1>2, <2>1 DEF ExitUntouched
  <1>4. ASSUME NEW i \in Hops, HandleForward(i) \/ HandleForwardFails(i)
        PROVE  ExitUntouched
    <2>1. i # N /\ TakesData(i) /\ circ' = circ /\ delivered' = delivered
            /\ (EndHop(i) \/ hop' = hop)
      BY <1>4, ChainAssumption DEF HandleForward, HandleForwardFails, Hops
    <2>2. fwdSeq'[N] = fwdSeq[N]
      BY <1>0, <2>1 DEF TakesData
    <2> QED BY <1>2, <2>1, <2>2 DEF ExitUntouched
  <1>5. ASSUME NEW i \in Hops, HandleSetup(i), i # N PROVE ExitUntouched
    BY <1>0, <1>5 DEF HandleSetup, ExitUntouched
  <1>6. ASSUME NEW i \in Hops, HandleDeliver(i) \/ HandleDeliverFails(i) PROVE i = N
    BY <1>6 DEF HandleDeliver, HandleDeliverFails
  <1>7. ASSUME NEW i \in Hops, BackStep(i) PROVE ExitUntouched
    BY <1>7 DEF BackStep, Backward, BackwardFails, BackwardEnds, ExitUntouched
  <1>8. ASSUME NEW i \in Hops,
               TickFwd(i) \/ TickFwdFails(i) \/ TickBwd(i) \/ TickBwdFails(i) \/ Expire(i)
                 \/ Cut(i) \/ Stall(i) \/ LoseTail(i)
                 \/ FaultFwd(i) \/ FaultBwd(i)
        PROVE  ExitUntouched
    BY <1>8 DEF TickFwd, TickFwdFails, TickBwd, TickBwdFails, Expire, Cut, Stall, LoseTail,
        FaultFwd, FaultBwd, ExitUntouched, hopVars
  <1> QED BY <1>1, <1>3, <1>4, <1>5, <1>6, <1>7, <1>8 DEF Next, HopStep

LEMMA ExitInit == Init => ExitInv
  <1> SUFFICES ASSUME Init PROVE ExitInv
    OBVIOUS
  <1>0. TypeOK
    BY InitType
  <1>1. N \in Hops
    BY ChainAssumption DEF Hops
  <1>2. \A i \in Hops : SetupCell(i) \in Below(0)
    <2> TAKE i \in Hops
    <2>1. SetupCell(i) \in FwdCells
      BY <1>0, CellTypes DEF TypeOK
    <2>2. SetupCell(i).n < 0
      BY DEF SetupCell, NoLayer
    <2> QED BY <2>1, <2>2 DEF Below
  <1>3. FwdHeld(Below(sent))
    <2>1. <<>> \in Seq(Below(0))
      OBVIOUS
    <2>2. 1 \in Hops => <<SetupCell(1)>> \in Seq(Below(0))
      BY <1>2
    <2> QED BY <2>1, <2>2 DEF Init, FwdHeld
  <1>4. ExitInOrder /\ ExitState
    BY <1>1 DEF Init, ExitInOrder, ExitState
  <1> QED BY <1>0, <1>3, <1>4 DEF ExitInv

LEMMA ExitNext == ExitInv /\ [Next]_vars => ExitInv'
  <1> SUFFICES ASSUME ExitInv, [Next]_vars PROVE ExitInv'
    OBVIOUS
  <1>0. TypeOK /\ TypeOK' /\ N \in Hops
    BY NextType, ChainAssumption DEF ExitInv, Hops
  <1>1. FwdHeld(Below(sent))'
    BY BelowHeld DEF ExitInv
  <1>2. sent \in Nat /\ sent' \in Nat /\ sent <= sent'
    BY <1>0, SentGrows, LimitAssumption DEF TypeOK, ClientType
  <1>3. delivered \in Seq(Values) /\ Len(delivered) \in Nat
    BY <1>0 DEF TypeOK, HopType
  <1>4. CASE ExitUntouched
    <2>1. ExitInOrder'
      BY <1>2, <1>3, <1>4 DEF ExitUntouched, ExitInv, ExitInOrder
    <2>2. ExitState'
      BY <1>4 DEF ExitUntouched, ExitInv, ExitState, FirstForward
    <2> QED BY <1>0, <1>1, <2>1, <2>2 DEF ExitInv
  <1>5. CASE HandleSetup(N)
    <2>1. circ' = circ /\ delivered' = delivered /\ sent' = sent
      BY <1>5 DEF HandleSetup, clientVars
    <2>2. hop'[N] = "live" /\ fwdSeq'[N] = Expect(fwdSeq[N], FirstForward)
      BY <1>0, <1>5 DEF HandleSetup, TypeOK, HopType
    <2>3. delivered = <<>> /\ fwdSeq[N] = NewSequence
      BY <1>5 DEF HandleSetup, ExitInv, ExitState
    <2>4. fwdSeq'[N] = [next |-> FirstForward, taken |-> 0, seeded |-> TRUE]
      BY <2>2, <2>3, ExpectFresh
    <2>5. Shift(0, FirstForward) = FirstForward /\ FirstForward' = FirstForward
      BY <1>0, <2>1, FirstForwardType, ShiftZero DEF FirstForward
    <2>6. ExitState'
      BY <2>1, <2>2, <2>3, <2>4, <2>5 DEF ExitState
    <2>7. ExitInOrder'
      BY <2>1 DEF ExitInv, ExitInOrder
    <2> QED BY <1>0, <1>1, <2>6, <2>7 DEF ExitInv
  <1>6. CASE HandleDeliver(N) \/ HandleDeliverFails(N)
    <2>1. TakesData(N) /\ delivered' = Append(delivered, Head(fwd[N]).n) /\ circ' = circ
            /\ sent' = sent
      BY <1>6 DEF HandleDeliver, HandleDeliverFails, clientVars
    <2>2. /\ Head(fwd[N]).n = Len(delivered)
          /\ Len(delivered) < sent
          /\ fwdSeq'[N] = [next |-> Shift(Len(delivered) + 1, FirstForward),
                           taken |-> Len(delivered) + 1, seeded |-> TRUE]
      BY <2>1, ExitTakesNext
    <2>3. ExitInOrder' /\ Len(delivered') = Len(delivered) + 1
      BY <1>0, <2>1, <2>2, OneMoreDelivered DEF ExitInv
    <2>4. FirstForward' = FirstForward
      BY <2>1 DEF FirstForward
    <2>5. hop[N] = "live" /\ (hop'[N] = "live" \/ hop'[N] = "gone")
      BY <1>0, <1>6, <2>1
      DEF HandleDeliver, HandleDeliverFails, EndHop, TakesData, TypeOK, HopType
    <2>6. ExitState'
      BY <2>2, <2>3, <2>4, <2>5 DEF ExitState
    <2> QED BY <1>0, <1>1, <2>3, <2>6 DEF ExitInv
  <1> QED BY <1>0, <1>4, <1>5, <1>6, OthersLeaveExit

\* Whatever the relays in front of it do to cells and however many hops there
\* are, the exit delivers the client's cells in order and from the first on
\* (relay.route at the exit, wire.Sequence).
THEOREM ChainExitInOrder == Spec => []ExitInOrder
  <1>1. ExitInv => ExitInOrder
    BY DEF ExitInv
  <1> QED BY <1>1, ExitInit, ExitNext, PTL DEF Spec

-----------------------------------------------------------------------------
(* What a hop key seals under. A relay seals each backward cell under the   *)
(* value it took from the hop behind it, shifted by its own offset; the     *)
(* exit counts its replies. Either way the values follow one another, and   *)
(* there are never more of them than a link may carry cells.                *)

Consecutive(q) == \A k \in 1 .. Len(q) : q[k] = Shift(q[1], k - 1)

\* The value the next cell is sealed under, once there was a first.
Upcoming(i) ==
  Shift(IF i = N THEN replies ELSE bwdSeq[i].next, circ.offset[i]["bwd"])

\* How many values the hop's own counter says it sealed under.
Counter(i) == IF i = N THEN replies ELSE bwdSeq[i].taken

SealedInv ==
  /\ TypeOK
  /\ \A i \in Hops :
       /\ Consecutive(sealed[i])
       /\ Len(sealed[i]) = Counter(i)
       /\ sealed[i] # <<>> => Upcoming(i) = Shift(sealed[i][1], Len(sealed[i]))
       /\ i # N /\ sealed[i] # <<>> => bwdSeq[i].seeded

\* Fewer values than the counter has do not meet.
LEMMA ConsecutiveDistinct ==
  ASSUME NEW q \in Seq(Values), Consecutive(q), Len(q) <= CellLimit,
         NEW j \in 1 .. Len(q), NEW k \in 1 .. Len(q), q[j] = q[k]
  PROVE  j = k
  <1>1. q[1] \in Values /\ j - 1 \in Values /\ k - 1 \in Values
    BY LimitAssumption DEF Values
  <1>2. Shift(q[1], j - 1) = Shift(q[1], k - 1)
    BY DEF Consecutive
  <1>3. Shift(j - 1, q[1]) = Shift(k - 1, q[1])
    BY <1>1, <1>2 DEF Shift, Values
  <1>4. j - 1 = k - 1
    BY <1>1, <1>3, ShiftInjective
  <1> QED BY <1>4

\* One more value, the one that was to come.
LEMMA ConsecutiveAppend ==
  ASSUME NEW q \in Seq(Values), Consecutive(q), NEW v \in Values,
         Len(q) < CellLimit, q # <<>> => v = Shift(q[1], Len(q))
  PROVE  /\ Consecutive(Append(q, v))
         /\ Len(Append(q, v)) = Len(q) + 1
         /\ Append(q, v) # <<>>
         /\ Shift(v, 1) = Shift(Append(q, v)[1], Len(q) + 1)
  <1> DEFINE r == Append(q, v)
  <1>0. Len(q) \in Values /\ Len(q) \in Nat /\ Len(r) = Len(q) + 1 /\ r # <<>>
          /\ r \in Seq(Values)
    <2>1. Len(q) \in Nat /\ Len(r) = Len(q) + 1 /\ r \in Seq(Values)
      OBVIOUS
    <2>2. r # <<>>
      <3>1. Len(<<>>) = 0
        OBVIOUS
      <3> HIDE DEF r
      <3> QED BY <2>1, <3>1
    <2> QED BY <2>1, <2>2, LimitAssumption DEF Values
  <1>1. CASE q = <<>>
    <2>1. Len(q) = 0 /\ r = <<v>>
      BY <1>1
    <2>2. Len(r) = 1 /\ r[1] = v
      BY <2>1
    <2>3. Shift(v, 0) = v
      BY LimitAssumption DEF Shift, Values
    <2>4. Consecutive(r)
      BY <2>2, <2>3 DEF Consecutive
    <2> QED BY <1>0, <2>1, <2>2, <2>4
  <1>2. CASE q # <<>>
    <2>1. Len(q) >= 1 /\ r[1] = q[1] /\ q[1] \in Values
      BY <1>2
    <2>2. ASSUME NEW k \in 1 .. Len(r) PROVE r[k] = Shift(r[1], k - 1)
      <3>1. CASE k <= Len(q)
        BY <1>0, <2>1, <3>1 DEF Consecutive
      <3>2. CASE k = Len(q) + 1
        BY <1>0, <1>2, <2>1, <3>2
      <3> QED BY <1>0, <3>1, <3>2
    <2>3. Consecutive(r)
      BY <2>2 DEF Consecutive
    <2>4. Shift(v, 1) = Shift(q[1], Len(q) + 1)
      <3> DEFINE a == q[1]
      <3> DEFINE m == Len(q)
      <3>1. a \in Values /\ m \in Values /\ v = Shift(a, m)
        BY <1>0, <1>2, <2>1
      <3> HIDE DEF a, m
      <3>2. Shift(a, m) = Shift(m, a) /\ Shift(a, m + 1) = Shift(m + 1, a)
        BY <3>1 DEF Shift, Values
      <3>3. Shift(Shift(m, a), 1) = Shift(m + 1, a)
        BY <3>1, ShiftNext
      <3> QED BY <3>1, <3>2, <3>3 DEF a, m
    <2> QED BY <1>0, <2>1, <2>3, <2>4
  <1> QED BY <1>1, <1>2

\* A step that seals nothing under the key of hop i.
Unsealed(i) ==
  /\ circ' = circ
  /\ sealed'[i] = sealed[i]
  /\ bwdSeq'[i] = bwdSeq[i]
  /\ i = N => replies' = replies

\* A step that seals the value to come under the key of hop i, counted.
Seals(i) ==
  /\ circ' = circ
  /\ Counter(i) < CellLimit
  /\ \/ /\ i = N
        /\ replies' = replies + 1
        /\ sealed'[i] = Append(sealed[i], Shift(replies, circ.offset[N]["bwd"]))
     \/ /\ i # N
        /\ \E v \in Values :
             /\ Due(bwdSeq[i], v)
             /\ bwdSeq'[i] = Take(bwdSeq[i], v)
             /\ sealed'[i] = Append(sealed[i], Shift(v, circ.offset[i]["bwd"]))

LEMMA SealBackFields ==
  ASSUME NEW i \in Hops, NEW v, NEW c \in BwdCells
  PROVE  /\ SealBack(i, v, c).ctr = v
         /\ SealBack(i, v, c).ans = c.ans
         /\ SealBack(i, v, c).under = [c.under EXCEPT ![i] = v]
  BY DEF SealBack, BwdCells

LEMMA SealReplyFields ==
  ASSUME NEW r, NEW n \in Values
  PROVE  /\ SealReply(r, n).ctr = Shift(r, circ.offset[N]["bwd"])
         /\ SealReply(r, n).ans = n
         /\ SealReply(r, n).under[N] = Shift(r, circ.offset[N]["bwd"])
  <1>1. [ctr |-> 0, ans |-> n, under |-> Bare] \in BwdCells
    BY ValuesAreInts DEF BwdCells, Bare
  <1>2. N \in Hops
    BY ChainAssumption DEF Hops
  <1>3. Bare \in [Hops -> {NoLayer}]
    BY DEF Bare
  <1> DEFINE c == [ctr |-> 0, ans |-> n, under |-> Bare]
  <1> DEFINE v == Shift(r, circ.offset[N]["bwd"])
  <1>4. SealReply(r, n) = SealBack(N, v, c) /\ c.ans = n /\ c.under = Bare
    BY DEF SealReply
  <1> HIDE DEF c, v
  <1>5. /\ SealBack(N, v, c).ctr = v
        /\ SealBack(N, v, c).ans = c.ans
        /\ SealBack(N, v, c).under = [c.under EXCEPT ![N] = v]
    BY <1>1, <1>2, SealBackFields DEF c
  <1>6. [Bare EXCEPT ![N] = v][N] = v
    BY <1>2, <1>3
  <1> QED BY <1>4, <1>5, <1>6 DEF v

\* Every step seals at most one value under each key, and it is the next.
LEMMA StepSeals ==
  ASSUME TypeOK, [Next]_vars, NEW h \in Hops
  PROVE  Unsealed(h) \/ Seals(h)
  <1>0. /\ sealed \in [Hops -> Seq(Values)]
        /\ bwdSeq \in [Hops -> SequenceStates]
    BY DEF TypeOK, HopType
  <1>1. ASSUME ClientSend \/ ClientReceive \/ ClientEnds \/ ClientClose \/ UNCHANGED vars
        PROVE  Unsealed(h)
    BY <1>1 DEF ClientSend, ClientReceive, ClientEnds, ClientClose, Unsealed, vars, hopVars
  <1>2. ASSUME NEW i \in Hops,
               HandleSetup(i) \/ HandleSetupFails(i) \/ HandleStray(i) \/ HandleOutOfTurn(i)
                 \/ HandleForward(i) \/ HandleForwardFails(i) \/ HandleEnds(i)
        PROVE  Unsealed(h)
    BY <1>2 DEF HandleSetup, HandleSetupFails, HandleStray, HandleOutOfTurn, HandleForward,
       HandleForwardFails, HandleEnds, Unsealed, hopVars
  <1>3. ASSUME NEW i \in Hops, HandleDeliver(i) \/ HandleDeliverFails(i)
        PROVE  Unsealed(h) \/ Seals(h)
    <2>1. /\ i = N /\ TakesData(i) /\ replies' = replies + 1 /\ circ' = circ /\ bwdSeq' = bwdSeq
          /\ replies < CellLimit
          /\ sealed' = [sealed EXCEPT ![i] = Append(@, SealReply(replies, Head(fwd[i]).n).ctr)]
      BY <1>3 DEF HandleDeliver, HandleDeliverFails
    <2>2. SealReply(replies, Head(fwd[i]).n).ctr = Shift(replies, circ.offset[N]["bwd"])
      BY <2>1, TakesDataType, SealReplyFields
    <2>3. CASE h = N
      BY <1>0, <2>1, <2>2, <2>3 DEF Seals, Counter
    <2>4. CASE h # N
      BY <1>0, <2>1, <2>4 DEF Unsealed
    <2> QED BY <2>3, <2>4
  <1>4. ASSUME NEW i \in Hops, ReadingBack(i), Due(bwdSeq[i], Head(bwd[i + 1]).ctr),
               circ' = circ, replies' = replies,
               bwdSeq' = [bwdSeq EXCEPT ![i] = Take(@, Head(bwd[i + 1]).ctr)],
               sealed' = [sealed EXCEPT ![i] = Append(@, Wrap(i, Head(bwd[i + 1])).ctr)]
        PROVE  Unsealed(h) \/ Seals(h)
    <2>1. Head(bwd[i + 1]) \in BwdCells /\ i # N
      BY <1>4, ReadingBackType, ChainAssumption DEF ReadingBack, Hops
    <2>2. Wrap(i, Head(bwd[i + 1])).ctr = Shift(Head(bwd[i + 1]).ctr, circ.offset[i]["bwd"])
      <3> DEFINE c == Head(bwd[i + 1])
      <3> DEFINE v == Shift(c.ctr, circ.offset[i]["bwd"])
      <3>1. Wrap(i, c) = SealBack(i, v, c)
        BY DEF Wrap
      <3> HIDE DEF c, v
      <3>2. SealBack(i, v, c).ctr = v
        BY <2>1, SealBackFields DEF c
      <3> QED BY <3>1, <3>2 DEF c, v
    <2>3. Head(bwd[i + 1]).ctr \in Values
      BY <2>1 DEF BwdCells
    <2>4. CASE h = i
      BY <1>0, <1>4, <2>1, <2>2, <2>3, <2>4 DEF Seals, Counter, Due
    <2>5. CASE h # i
      BY <1>0, <1>4, <2>1, <2>5 DEF Unsealed
    <2> QED BY <2>4, <2>5
  <1>5. ASSUME NEW i \in Hops, Backward(i) PROVE Unsealed(h) \/ Seals(h)
    BY <1>4, <1>5 DEF Backward
  <1>6. ASSUME NEW i \in Hops, BackwardFails(i) PROVE Unsealed(h) \/ Seals(h)
    <2>1. CASE Due(bwdSeq[i], Head(bwd[i + 1]).ctr)
      BY <1>4, <1>6, <2>1 DEF BackwardFails
    <2>2. CASE ~Due(bwdSeq[i], Head(bwd[i + 1]).ctr)
      BY <1>6, <2>2 DEF BackwardFails, Unsealed
    <2> QED BY <2>1, <2>2
  <1>7. ASSUME NEW i \in Hops, BackwardEnds(i) PROVE Unsealed(h)
    BY <1>7 DEF BackwardEnds, Unsealed
  <1>8. ASSUME NEW i \in Hops,
               TickFwd(i) \/ TickFwdFails(i) \/ TickBwd(i) \/ TickBwdFails(i) \/ Expire(i)
                 \/ Cut(i) \/ Stall(i) \/ LoseTail(i) \/ FaultFwd(i) \/ FaultBwd(i)
        PROVE  Unsealed(h)
    BY <1>8 DEF TickFwd, TickFwdFails, TickBwd, TickBwdFails, Expire, Cut, Stall, LoseTail,
       FaultFwd, FaultBwd, Unsealed, hopVars
  <1> QED BY <1>1, <1>2, <1>3, <1>5, <1>6, <1>7, <1>8 DEF Next, HopStep, BackStep

LEMMA SealedInit == Init => SealedInv
  <1> SUFFICES ASSUME Init PROVE SealedInv
    OBVIOUS
  <1>1. \A i \in Hops : sealed[i] = <<>> /\ Counter(i) = 0
    BY DEF Init, Counter, NewSequence
  <1>2. Consecutive(<<>>) /\ Len(<<>>) = 0
    BY DEF Consecutive
  <1> QED BY <1>1, <1>2, InitType DEF SealedInv

LEMMA SealedNext == SealedInv /\ [Next]_vars => SealedInv'
  <1> SUFFICES ASSUME SealedInv, [Next]_vars PROVE SealedInv'
    OBVIOUS
  <1>0. TypeOK /\ TypeOK'
    BY NextType DEF SealedInv
  <1>1. ASSUME NEW i \in Hops
        PROVE  /\ Consecutive(sealed'[i])
               /\ Len(sealed'[i]) = Counter(i)'
               /\ sealed'[i] # <<>> => Upcoming(i)' = Shift(sealed'[i][1], Len(sealed'[i]))
               /\ i # N /\ sealed'[i] # <<>> => bwdSeq'[i].seeded
    <2> DEFINE q == sealed[i]
    <2> DEFINE o == circ.offset[i]["bwd"]
    <2>0. /\ q \in Seq(Values) /\ o \in Values /\ replies \in Nat /\ bwdSeq[i] \in SequenceStates
          /\ Consecutive(q)
          /\ Len(q) = Counter(i)
          /\ q # <<>> => Upcoming(i) = Shift(q[1], Len(q))
          /\ i # N /\ q # <<>> => bwdSeq[i].seeded
      BY <1>0, CircType, LimitAssumption DEF SealedInv, TypeOK, HopType, Directions
    <2>1. Seals(i) => Len(q) < CellLimit
      BY <2>0 DEF Seals
    <2>4. CASE Unsealed(i)
      BY <2>0, <2>4 DEF Unsealed, Counter, Upcoming
    <2>2. CASE Seals(i) /\ i = N
      <3> DEFINE v == Shift(replies, o)
      <3>1. /\ replies' = replies + 1 /\ sealed'[i] = Append(q, v) /\ circ' = circ
        BY <2>2 DEF Seals
      <3>2. v \in Values /\ (q # <<>> => v = Shift(q[1], Len(q)))
        <4>1. replies \in Int /\ o \in Int
          <5> HIDE DEF o
          <5> QED BY <2>0, ValuesAreInts
        <4>2. v \in Values
          <5> HIDE DEF o
          <5> QED BY <4>1, ShiftValue
        <4>3. Upcoming(i) = v
          BY <2>2 DEF Upcoming
        <4> QED BY <2>0, <4>2, <4>3
      <3>3. Shift(v, 1) = Shift(replies + 1, o)
        <4>1. replies \in Values
          BY <2>0, <2>1, <2>2, LimitAssumption DEF Counter, Values
        <4> HIDE DEF o
        <4> QED BY <2>0, <4>1, ShiftNext
      <3>4. Upcoming(i)' = Shift(replies + 1, o) /\ Counter(i)' = replies + 1
        BY <2>2, <3>1 DEF Upcoming, Counter
      <3>5. Len(q) = replies
        BY <2>0, <2>2 DEF Counter
      <3> HIDE DEF q, v, o
      <3>6. /\ Consecutive(Append(q, v))
            /\ Len(Append(q, v)) = Len(q) + 1
            /\ Shift(v, 1) = Shift(Append(q, v)[1], Len(q) + 1)
        BY <2>0, <2>1, <2>2, <3>2, ConsecutiveAppend DEF q
      <3> QED BY <2>2, <3>1, <3>3, <3>4, <3>5, <3>6
    <2>3. CASE Seals(i) /\ i # N
      <3>1. PICK w \in Values : /\ Due(bwdSeq[i], w)
                                /\ bwdSeq'[i] = Take(bwdSeq[i], w)
                                /\ sealed'[i] = Append(q, Shift(w, o))
                                /\ circ' = circ
        BY <2>3 DEF Seals
      <3> DEFINE v == Shift(w, o)
      <3>2. v \in Values
        BY <2>0, ShiftValue, ValuesAreInts
      <3>3. q # <<>> => v = Shift(q[1], Len(q))
        BY <2>0, <2>3, <3>1 DEF Upcoming, Due
      <3>4. Shift(v, 1) = Shift(Shift(w, 1), o)
        <4> HIDE DEF o
        <4>1. CASE CounterLimit = 1
          BY <2>0, <4>1 DEF Shift, Values
        <4>2. CASE CounterLimit # 1
          <5>1. 1 \in Values
            BY <4>2, LimitAssumption DEF Values
          <5> QED BY <2>0, <5>1, ShiftCommutes
        <4> QED BY <4>1, <4>2
      <3>5. /\ Upcoming(i)' = Shift(Shift(w, 1), o)
            /\ Counter(i)' = Len(q) + 1
            /\ bwdSeq'[i].seeded
        BY <2>0, <2>3, <3>1 DEF Upcoming, Counter, Take
      <3> HIDE DEF q, v, o
      <3>6. /\ Consecutive(Append(q, v))
            /\ Len(Append(q, v)) = Len(q) + 1
            /\ Shift(v, 1) = Shift(Append(q, v)[1], Len(q) + 1)
        BY <2>0, <2>1, <2>3, <3>2, <3>3, ConsecutiveAppend DEF q
      <3> QED BY <2>3, <3>1, <3>4, <3>5, <3>6 DEF v
    <2> QED BY <1>0, <2>2, <2>3, <2>4, StepSeals
  <1> QED BY <1>0, <1>1 DEF SealedInv, Consecutive

LEMMA SealedOnce == SealedInv => BackwardNonceOnce
  <1> SUFFICES ASSUME SealedInv,
                      NEW i \in Hops, NEW j \in 1 .. Len(sealed[i]), NEW k \in 1 .. Len(sealed[i]),
                      sealed[i][j] = sealed[i][k]
               PROVE  j = k
    BY DEF BackwardNonceOnce
  <1>1. sealed[i] \in Seq(Values) /\ Consecutive(sealed[i]) /\ Len(sealed[i]) = Counter(i)
    BY DEF SealedInv, TypeOK, HopType
  <1>2. Counter(i) \in 0 .. CellLimit
    BY DEF SealedInv, TypeOK, HopType, Counter, SequenceStates
  <1>3. Len(sealed[i]) <= CellLimit
    BY <1>1, <1>2
  <1> QED BY <1>1, <1>3, ConsecutiveDistinct

\* No key of any hop seals two backward cells under one value, for every number
\* of hops and cells and whatever the hop behind sends: the nonce of a backward
\* layer is never used twice (relay.backward, relay.reply, wire.Sequence).
THEOREM ChainBackwardNonceOnce == Spec => []BackwardNonceOnce
  BY SealedInit, SealedNext, SealedOnce, PTL DEF Spec

-----------------------------------------------------------------------------
(* Replies. Only the exit seals the innermost backward layer, and it does   *)
(* so under the number of the cell it answers. Relays in front of it add    *)
(* layers of their own and cannot touch that one, so a reply that opens and *)
(* bears the number the client waits for answers the cell of that number.   *)

BwdHeld(K) == bwd \in [Hops -> Seq(K)] /\ bwdQ \in [Hops -> Seq(K)]

BwdClosed(K) ==
  /\ K \subseteq BwdCells
  /\ HandleDeliver(N) => SealReply(replies, Head(fwd[N]).n) \in K
  /\ BwdJunk \subseteq K
  /\ \A c \in K : \A i \in Hops \ {N} : \A v \in Values : SealBack(i, v, c) \in K

\* The links and queues hold a set K of cells for ever, if hops other than the
\* exit cannot leave it.
LEMMA BwdFlow ==
  ASSUME NEW K, N \notin Faulty, BwdClosed(K), BwdHeld(K), TypeOK, [Next]_vars
  PROVE  bwd' \in [Hops -> Seq(K)] /\ bwdQ' \in [Hops -> Seq(K)]
  <1> USE DEF BwdHeld
  <1>0. 1 \in Hops
    BY ChainAssumption DEF Hops
  <1>1. ASSUME ClientReceive
        PROVE  bwd' \in [Hops -> Seq(K)] /\ bwdQ' \in [Hops -> Seq(K)]
    <2>1. bwdQ' = bwdQ /\ bwd[1] # <<>>
            /\ (bwd' = [bwd EXCEPT ![1] = Tail(@)] \/ bwd' = [bwd EXCEPT ![1] = <<>>])
      BY <1>1 DEF ClientReceive, hopVars
    <2>2. [bwd EXCEPT ![1] = Tail(@)] \in [Hops -> Seq(K)]
      BY <1>0, <2>1, ReadHeld
    <2>3. [bwd EXCEPT ![1] = <<>>] \in [Hops -> Seq(K)]
      BY <1>0, ClearHeld
    <2> QED BY <2>1, <2>2, <2>3
  <1>2. ASSUME ClientSend \/ ClientEnds \/ ClientClose \/ UNCHANGED vars
        PROVE  bwd' \in [Hops -> Seq(K)] /\ bwdQ' \in [Hops -> Seq(K)]
    <2>1. bwdQ' = bwdQ /\ (bwd' = bwd \/ bwd' = [bwd EXCEPT ![1] = <<>>])
      BY <1>2 DEF ClientSend, ClientEnds, ClientClose, vars, hopVars, linkVars
    <2> QED BY <1>0, <2>1, ClearHeld
  <1>3. ASSUME NEW i \in Hops, EndHop(i)
        PROVE  bwd' \in [Hops -> Seq(K)] /\ bwdQ' \in [Hops -> Seq(K)]
    <2>1. bwdQ' \in [Hops -> Seq(K)]
      BY <1>3, ClearHeld DEF EndHop
    <2>2. <<>> \in Seq(K)
      OBVIOUS
    <2>3. bwd' = [l \in Hops |-> IF l = i + 1 THEN <<>> ELSE bwd[l]]
      BY <1>3 DEF EndHop
    <2> QED BY <2>1, <2>2, <2>3
  <1>4. ASSUME NEW i \in Hops, HandleSetup(i) \/ HandleStray(i) \/ HandleForward(i)
        PROVE  bwd' \in [Hops -> Seq(K)] /\ bwdQ' \in [Hops -> Seq(K)]
    BY <1>4 DEF HandleSetup, HandleStray, HandleForward, hopVars
  <1>5. ASSUME NEW i \in Hops, HandleDeliver(i)
        PROVE  bwd' \in [Hops -> Seq(K)] /\ bwdQ' \in [Hops -> Seq(K)]
    <2> DEFINE out == SealReply(replies, Head(fwd[N]).n)
    <2>1. i = N /\ out \in K
      BY <1>5 DEF HandleDeliver, BwdClosed
    <2>2. CASE i \in Paced
      <3>1. bwdQ' = [bwdQ EXCEPT ![i] = Append(@, out)] /\ bwd' = bwd
        BY <1>5, <2>1, <2>2 DEF HandleDeliver
      <3>2. Append(bwdQ[i], out) \in Seq(K)
        BY <2>1
      <3> HIDE DEF out
      <3> QED BY <3>1, <3>2
    <2>3. CASE i \notin Paced
      <3>1. PICK o \in BwdWrite(i) \cap {"sent", "lost"} : bwd' = Carry(bwd, i, out, o)
        BY <1>5, <2>1, <2>3 DEF HandleDeliver
      <3>2. bwdQ' = bwdQ
        BY <1>5, <2>3 DEF HandleDeliver
      <3> HIDE DEF out
      <3> QED BY <2>1, <3>1, <3>2, CarryHeld
    <2> QED BY <2>2, <2>3
  <1>6. ASSUME NEW i \in Hops, Backward(i)
        PROVE  bwd' \in [Hops -> Seq(K)] /\ bwdQ' \in [Hops -> Seq(K)]
    <2> DEFINE out == Wrap(i, Head(bwd[i + 1]))
    <2> DEFINE rest == [bwd EXCEPT ![i + 1] = Tail(@)]
    <2>0. i + 1 \in Hops /\ i \in Hops \ {N}
      BY <1>6, ChainAssumption DEF Backward, ReadingBack, Hops
    <2>1. Head(bwd[i + 1]) \in K /\ rest \in [Hops -> Seq(K)]
      BY <1>6, <2>0, ReadHeld DEF Backward, ReadingBack
    <2>2. out \in K
      <3>1. Head(bwd[i + 1]).ctr \in Int /\ circ.offset[i]["bwd"] \in Int
        <4>1. Head(bwd[i + 1]) \in BwdCells
          BY <2>1 DEF BwdClosed
        <4>2. Head(bwd[i + 1]).ctr \in Values
          BY <4>1 DEF BwdCells
        <4>3. circ.offset[i]["bwd"] \in Values
          BY CircType DEF TypeOK, Directions
        <4> QED BY <4>2, <4>3, ValuesAreInts
      <3>2. Shift(Head(bwd[i + 1]).ctr, circ.offset[i]["bwd"]) \in Values
        BY <3>1, ShiftValue
      <3> QED BY <2>0, <2>1, <3>2 DEF Wrap, BwdClosed
    <2>3. CASE i \in Paced
      <3>1. bwd' = rest /\ bwdQ' = [bwdQ EXCEPT ![i] = Append(@, out)]
        BY <1>6, <2>3 DEF Backward
      <3>2. Append(bwdQ[i], out) \in Seq(K)
        BY <2>2
      <3> HIDE DEF out, rest
      <3> QED BY <2>1, <3>1, <3>2
    <2>4. CASE i \notin Paced
      <3>1. PICK o \in BwdWrite(i) \cap {"sent", "lost"} : bwd' = Carry(rest, i, out, o)
        BY <1>6, <2>4 DEF Backward
      <3>2. bwdQ' = bwdQ
        BY <1>6, <2>4 DEF Backward
      <3> HIDE DEF out, rest
      <3> QED BY <2>1, <2>2, <3>1, <3>2, CarryHeld
    <2> QED BY <2>3, <2>4
  <1>7. ASSUME NEW i \in Hops, BackwardFails(i)
        PROVE  bwd' \in [Hops -> Seq(K)] /\ bwdQ' \in [Hops -> Seq(K)]
    <2>1. i + 1 \in Hops /\ bwd[i + 1] # <<>>
      BY <1>7, ChainAssumption DEF BackwardFails, ReadingBack, Hops
    <2>2. bwd' = [bwd EXCEPT ![i + 1] = Tail(@)] /\ bwdQ' = bwdQ
      BY <1>7 DEF BackwardFails
    <2> QED BY <2>1, <2>2, ReadHeld
  <1>8. ASSUME NEW i \in Hops, BackwardEnds(i) \/ TickFwd(i) \/ Expire(i) \/ Stall(i) \/ FaultFwd(i)
        PROVE  bwd' \in [Hops -> Seq(K)] /\ bwdQ' \in [Hops -> Seq(K)]
    BY <1>8 DEF BackwardEnds, TickFwd, Expire, Stall, FaultFwd, hopVars
  <1>9. ASSUME NEW i \in Hops, TickFwdFails(i) \/ Cut(i)
        PROVE  bwd' \in [Hops -> Seq(K)] /\ bwdQ' \in [Hops -> Seq(K)]
    <2>1. bwdQ' = bwdQ /\ \E l \in Hops : bwd' = [bwd EXCEPT ![l] = <<>>]
      BY <1>9, ChainAssumption DEF TickFwdFails, Cut, Hops, hopVars
    <2> QED BY <2>1, ClearHeld
  <1>10. ASSUME NEW i \in Hops, TickBwd(i)
         PROVE  bwd' \in [Hops -> Seq(K)] /\ bwdQ' \in [Hops -> Seq(K)]
    <2>1. Head(bwdQ[i]) \in K /\ [bwdQ EXCEPT ![i] = Tail(@)] \in [Hops -> Seq(K)]
      BY <1>10, ReadHeld DEF TickBwd
    <2>2. PICK o \in BwdWrite(i) \cap {"sent", "lost"} : bwd' = Carry(bwd, i, Head(bwdQ[i]), o)
      BY <1>10 DEF TickBwd
    <2>3. bwd' \in [Hops -> Seq(K)]
      BY <2>1, <2>2, CarryHeld
    <2> QED BY <1>10, <2>1, <2>3 DEF TickBwd
  <1>11. ASSUME NEW i \in Hops, TickBwdFails(i)
         PROVE  bwd' \in [Hops -> Seq(K)] /\ bwdQ' \in [Hops -> Seq(K)]
    <2>1. bwd' = bwd
      BY <1>11 DEF TickBwdFails
    <2>2. CASE bwdQ[i] = <<>>
      <3>1. bwdQ' = [bwdQ EXCEPT ![i] = <<>>]
        BY <1>11, <2>2 DEF TickBwdFails
      <3> QED BY <2>1, <3>1, ClearHeld
    <2>3. CASE bwdQ[i] # <<>>
      <3>1. bwdQ' = [bwdQ EXCEPT ![i] = Tail(@)]
        BY <1>11, <2>3 DEF TickBwdFails
      <3> QED BY <2>1, <2>3, <3>1, ReadHeld
    <2> QED BY <2>2, <2>3
  <1>12. ASSUME NEW i \in Hops, LoseTail(i)
         PROVE  bwd' \in [Hops -> Seq(K)] /\ bwdQ' \in [Hops -> Seq(K)]
    <2>1. bwd[i] # <<>> => SubSeq(bwd[i], 1, Len(bwd[i]) - 1) \in Seq(K)
      BY SeqFront
    <2>2. bwd' \in [Hops -> Seq(K)]
      BY <1>12, <2>1 DEF LoseTail
    <2> QED BY <1>12, <2>2 DEF LoseTail, hopVars
  <1>13. ASSUME NEW i \in Hops, FaultBwd(i)
         PROVE  bwd' \in [Hops -> Seq(K)] /\ bwdQ' \in [Hops -> Seq(K)]
    <2>0. i \in Hops \ {N} /\ bwdQ' = bwdQ
      BY <1>13 DEF FaultBwd, hopVars
    <2>1. PICK q \in Disturbed(bwd[i]) \cup BwdForged(i, bwd[i]) : bwd' = [bwd EXCEPT ![i] = q]
      BY <1>13 DEF FaultBwd
    <2>2. bwd[i] \in Seq(K)
      OBVIOUS
    <2>3. ASSUME q \in BwdForged(i, bwd[i]) PROVE q \in Seq(K)
      <3>1. CASE \E c \in BwdJunk : q = Append(bwd[i], c)
        BY <2>2, <3>1 DEF BwdClosed
      <3>2. CASE \E k \in 1 .. Len(bwd[i]), v \in Values :
                   q = [bwd[i] EXCEPT ![k] = SealBack(i, v, bwd[i][k])]
        <4>1. PICK k \in 1 .. Len(bwd[i]), v \in Values :
                q = [bwd[i] EXCEPT ![k] = SealBack(i, v, bwd[i][k])]
          BY <3>2
        <4>2. bwd[i][k] \in K
          BY <2>2
        <4>3. SealBack(i, v, bwd[i][k]) \in K
          BY <2>0, <4>2 DEF BwdClosed
        <4> QED BY <2>2, <4>1, <4>3
      <3> QED BY <2>3, <3>1, <3>2 DEF BwdForged
    <2>4. q \in Seq(K)
      BY <2>1, <2>2, <2>3, SeqDisturbed
    <2> QED BY <2>0, <2>1, <2>4
  <1>14. ASSUME NEW i \in Hops, HopStep(i)
         PROVE  bwd' \in [Hops -> Seq(K)] /\ bwdQ' \in [Hops -> Seq(K)]
    BY <1>3, <1>4, <1>5, <1>14 DEF HopStep, HandleSetupFails, HandleOutOfTurn, HandleForwardFails,
       HandleDeliverFails, HandleEnds
  <1> QED BY <1>1, <1>2, <1>6, <1>7, <1>8, <1>9, <1>10, <1>11, <1>12, <1>13, <1>14
      DEF Next, BackStep

\* A step of the chain as its two ends see it: the client numbers a cell, the
\* exit is handed one, the client accepts an answer, or neither end notices.
LEMMA EndsStep ==
  ASSUME TypeOK, [Next]_vars
  PROVE  /\ circ' = circ
         /\ \/ /\ sent' = sent + 1
               /\ UNCHANGED <<want, accepted, replies, delivered>>
            \/ /\ HandleDeliver(N) \/ HandleDeliverFails(N)
               /\ TakesData(N)
               /\ replies' = replies + 1
               /\ delivered' = Append(delivered, Head(fwd[N]).n)
               /\ UNCHANGED <<sent, want, accepted>>
            \/ /\ bwd[1] # <<>>
               /\ OpenClass(Head(bwd[1])) = "none"
               /\ want' = want + 1
               /\ accepted' = Append(accepted, Head(bwd[1]).ans)
               /\ UNCHANGED <<sent, replies, delivered>>
            \/ UNCHANGED <<sent, want, accepted, replies, delivered>>
  <1>1. CASE ClientSend
    BY <1>1 DEF ClientSend, hopVars
  <1>2. CASE ClientReceive
    BY <1>2 DEF ClientReceive, hopVars
  <1>3. CASE ClientEnds \/ ClientClose \/ UNCHANGED vars
    BY <1>3 DEF ClientEnds, ClientClose, vars, clientVars, hopVars
  <1>4. ASSUME NEW i \in Hops,
               HandleSetup(i) \/ HandleSetupFails(i) \/ HandleStray(i) \/ HandleOutOfTurn(i)
                 \/ HandleForward(i) \/ HandleForwardFails(i) \/ HandleEnds(i)
        PROVE  UNCHANGED <<circ, sent, want, accepted, replies, delivered>>
    BY <1>4 DEF HandleSetup, HandleSetupFails, HandleStray, HandleOutOfTurn, HandleForward,
       HandleForwardFails, HandleEnds, clientVars, hopVars
  <1>5. ASSUME NEW i \in Hops, HandleDeliver(i) \/ HandleDeliverFails(i)
        PROVE  /\ HandleDeliver(N) \/ HandleDeliverFails(N)
               /\ TakesData(N)
               /\ replies' = replies + 1
               /\ delivered' = Append(delivered, Head(fwd[N]).n)
               /\ UNCHANGED <<circ, sent, want, accepted>>
    BY <1>5 DEF HandleDeliver, HandleDeliverFails, clientVars
  <1>6. ASSUME NEW i \in Hops, BackStep(i)
        PROVE  UNCHANGED <<circ, sent, want, accepted, replies, delivered>>
    BY <1>6 DEF BackStep, Backward, BackwardFails, BackwardEnds, clientVars
  <1>7. ASSUME NEW i \in Hops,
               TickFwd(i) \/ TickFwdFails(i) \/ TickBwd(i) \/ TickBwdFails(i) \/ Expire(i)
                 \/ Cut(i) \/ Stall(i) \/ LoseTail(i) \/ FaultFwd(i) \/ FaultBwd(i)
        PROVE  UNCHANGED <<circ, sent, want, accepted, replies, delivered>>
    BY <1>7 DEF TickFwd, TickFwdFails, TickBwd, TickBwdFails, Expire, Cut, Stall, LoseTail,
       FaultFwd, FaultBwd, clientVars, hopVars
  <1> QED BY <1>1, <1>2, <1>3, <1>4, <1>5, <1>6, <1>7 DEF Next, HopStep

\* The cells whose innermost layer, if they have one, the exit sealed for one of
\* the first m cells it was handed.
Genuine(m) ==
  {c \in BwdCells : c.under[N] # NoLayer =>
     c.ans < m /\ c.under[N] = Shift(c.ans, circ.offset[N]["bwd"])}

AnswerInv ==
  /\ ExitInv
  /\ replies = Len(delivered)
  /\ want = Len(accepted)
  /\ N \notin Faulty => BwdHeld(Genuine(Len(delivered)))
  /\ AnswersInOrder

\* Two offsets one after the other are the offset of their sum.
LEMMA ShiftAdds ==
  ASSUME NEW a \in Values, NEW o \in Values, NEW b \in Values
  PROVE  Shift(Shift(a, o), b) = Shift(a, Shift(b, o))
  BY LimitAssumption DEF Shift, Values

\* A genuine reply that opens under the number the client waits for answers the
\* cell of that number, which the exit was handed.
LEMMA GenuineAnswer ==
  ASSUME TypeOK, NEW m \in Nat, NEW c \in Genuine(m), OpenClass(c) = "none"
  PROVE  c.ans = want /\ want < m
  <1> DEFINE o == circ.offset[N]["bwd"]
  <1> DEFINE b == circ.before[N]["bwd"]
  <1> DEFINE t == circ.before[N + 1]["bwd"]
  <1>0. N \in Hops /\ N \in 1 .. N + 1 /\ N + 1 \in 1 .. N + 1 /\ "bwd" \in Directions
    BY ChainAssumption DEF Hops, Directions
  <1>1. o \in Values /\ b \in Values /\ t \in Values
    BY <1>0, CircType DEF TypeOK
  <1>2. t = Shift(b, o)
    BY <1>0, ChainAssumption DEF TypeOK, RunningSums
  <1>3. c.ctr \in Values /\ c.ans \in Values
    BY DEF Genuine, BwdCells
  <1>4. OpensReply(c) /\ ReplyNumber(c.ctr) = want
    BY DEF OpenClass
  <1>5. c.under[N] = Unshift(c.ctr, b)
    BY <1>0, <1>4 DEF OpensReply, ValueAt
  <1>6. Unshift(c.ctr, t) = want
    BY <1>4 DEF ReplyNumber
  <1> HIDE DEF o, b, t
  <1>7. Unshift(c.ctr, b) \in Values
    BY <1>1, <1>3, ShiftValue, ValuesAreInts
  <1>8. c.under[N] # NoLayer
    BY <1>5, <1>7 DEF NoLayer, Values
  <1>9. c.ans < m /\ Unshift(c.ctr, b) = Shift(c.ans, o)
    BY <1>5, <1>8 DEF Genuine, o
  <1>10. Unshift(c.ctr, t) = c.ans
    <2>1. c.ctr = Shift(Unshift(c.ctr, b), b)
      BY <1>1, <1>3, UnshiftShift
    <2>2. c.ctr = Shift(Shift(c.ans, o), b)
      BY <1>9, <2>1
    <2>3. Shift(Shift(c.ans, o), b) = Shift(c.ans, Shift(b, o))
      BY <1>1, <1>3, ShiftAdds
    <2>4. Unshift(Shift(c.ans, t), t) = c.ans
      BY <1>1, <1>3, UnshiftShift
    <2> QED BY <1>2, <2>2, <2>3, <2>4
  <1> QED BY <1>6, <1>9, <1>10

\* What the chain does to a backward cell leaves it genuine, and so is the reply
\* the exit seals.
LEMMA GenuineClosed ==
  ASSUME AnswerInv, [Next]_vars
  PROVE  BwdClosed(Genuine(Len(delivered')))
  <1> DEFINE m == Len(delivered')
  <1>0. TypeOK /\ N \in Hops
    BY ChainAssumption DEF AnswerInv, ExitInv, Hops
  <1>1. m \in Nat
    <2>1. TypeOK'
      BY <1>0, NextType
    <2> QED BY <2>1 DEF TypeOK, HopType
  <1>2. ASSUME HandleDeliver(N) PROVE SealReply(replies, Head(fwd[N]).n) \in Genuine(m)
    <2> DEFINE n == Head(fwd[N]).n
    <2>1. TakesData(N) /\ delivered' = Append(delivered, n)
      BY <1>2 DEF HandleDeliver
    <2>2. n = Len(delivered) /\ n = replies
      BY <2>1, ExitTakesNext DEF AnswerInv
    <2>3. n \in Values
      BY <1>0, <2>1, TakesDataType
    <2>4. m = n + 1
      BY <1>0, <2>1, <2>2 DEF TypeOK, HopType
    <2>5. SealReply(replies, n) \in BwdCells
      <3>1. replies \in Int /\ circ \in Circuits
        BY <1>0 DEF TypeOK, HopType
      <3>2. \A r \in Int : \A v \in Values : SealReply(r, v) \in BwdCells
        BY <3>1, CellTypes
      <3> HIDE DEF n
      <3> QED BY <2>3, <3>1, <3>2
    <2>6. /\ SealReply(replies, n).ans = n
          /\ SealReply(replies, n).under[N] = Shift(n, circ.offset[N]["bwd"])
      BY <2>2, <2>3, SealReplyFields
    <2>7. n < n + 1
      <3>1. n \in Int
        BY <2>3, ValuesAreInts
      <3> HIDE DEF n
      <3> QED BY <3>1
    <2>8. SealReply(replies, n) \in Genuine(n + 1)
      <3> DEFINE c == SealReply(replies, n)
      <3>1. c \in BwdCells /\ c.ans = n /\ c.under[N] = Shift(n, circ.offset[N]["bwd"])
        BY <2>5, <2>6
      <3> HIDE DEF c, n
      <3>2. c \in Genuine(n + 1)
        BY <2>7, <3>1 DEF Genuine
      <3> QED BY <3>2 DEF c
    <2> QED BY <2>4, <2>8
  <1>3. BwdJunk \subseteq Genuine(m)
    <2>1. BwdJunk \subseteq BwdCells
      BY ValuesAreInts DEF BwdJunk, BwdCells, Bare
    <2>2. \A c \in BwdJunk : c.under[N] = NoLayer
      BY <1>0 DEF BwdJunk, Bare
    <2> QED BY <2>1, <2>2 DEF Genuine
  <1>4. ASSUME NEW c \in Genuine(m), NEW i \in Hops \ {N}, NEW v \in Values
        PROVE  SealBack(i, v, c) \in Genuine(m)
    <2>1. c \in BwdCells
      BY DEF Genuine
    <2>2. SealBack(i, v, c) \in BwdCells
      BY <1>0, <2>1, CellTypes DEF TypeOK
    <2>3. SealBack(i, v, c).ans = c.ans /\ SealBack(i, v, c).under[N] = c.under[N]
      <3>1. SealBack(i, v, c).ans = c.ans /\ SealBack(i, v, c).under = [c.under EXCEPT ![i] = v]
        BY <2>1, SealBackFields
      <3>2. c.under \in [Hops -> Values \cup {NoLayer}]
        BY <2>1 DEF BwdCells
      <3> QED BY <1>0, <3>1, <3>2
    <2> QED BY <2>2, <2>3 DEF Genuine
  <1>5. Genuine(m) \subseteq BwdCells
    BY DEF Genuine
  <1> QED BY <1>2, <1>3, <1>4, <1>5 DEF BwdClosed

LEMMA DeliveredGrows ==
  ASSUME TypeOK, [Next]_vars
  PROVE  /\ Len(delivered) \in Nat
         /\ Len(delivered') \in Nat
         /\ Len(delivered) <= Len(delivered')
  <1>1. delivered \in Seq(Values) /\ delivered' \in Seq(Values)
    BY NextType DEF TypeOK, HopType
  <1>2. delivered' = delivered \/ \E n : delivered' = Append(delivered, n)
    BY EndsStep
  <1> QED BY <1>1, <1>2

LEMMA GenuineHeld ==
  ASSUME AnswerInv, [Next]_vars, N \notin Faulty
  PROVE  BwdHeld(Genuine(Len(delivered)))'
  <1>0. TypeOK /\ N \in Hops
    BY ChainAssumption DEF AnswerInv, ExitInv, Hops
  <1>1. Genuine(Len(delivered)) \subseteq Genuine(Len(delivered'))
    <2> DEFINE m == Len(delivered)
    <2> DEFINE mm == Len(delivered')
    <2>1. m \in Nat /\ mm \in Nat /\ m <= mm
      BY <1>0, DeliveredGrows
    <2>2. \A c \in BwdCells : c.ans \in Int
      BY ValuesAreInts DEF BwdCells
    <2> HIDE DEF m, mm
    <2>3. Genuine(m) \subseteq Genuine(mm)
      BY <2>1, <2>2 DEF Genuine
    <2> QED BY <2>3 DEF m, mm
  <1>2. BwdHeld(Genuine(Len(delivered')))
    <2>1. Seq(Genuine(Len(delivered))) \subseteq Seq(Genuine(Len(delivered')))
      BY <1>1
    <2> QED BY <2>1 DEF AnswerInv, BwdHeld
  <1>3. bwd' \in [Hops -> Seq(Genuine(Len(delivered')))]
          /\ bwdQ' \in [Hops -> Seq(Genuine(Len(delivered')))]
    BY <1>0, <1>2, GenuineClosed, BwdFlow
  <1>4. circ' = circ
    BY <1>0, EndsStep
  <1> QED BY <1>3, <1>4 DEF BwdHeld, Genuine

LEMMA AnswerInit == Init => AnswerInv
  <1> SUFFICES ASSUME Init PROVE AnswerInv
    OBVIOUS
  <1>1. BwdHeld(Genuine(Len(delivered)))
    <2>1. <<>> \in Seq(Genuine(Len(delivered)))
      OBVIOUS
    <2> QED BY <2>1 DEF Init, BwdHeld
  <1>2. replies = Len(delivered) /\ want = Len(accepted) /\ AnswersInOrder
    BY DEF Init, AnswersInOrder
  <1> QED BY <1>1, <1>2, ExitInit DEF AnswerInv

\* The next reply the client accepts answers the cell it waits for.
LEMMA AcceptsNext ==
  ASSUME AnswerInv, N \notin Faulty, bwd[1] # <<>>, OpenClass(Head(bwd[1])) = "none"
  PROVE  Head(bwd[1]).ans = Len(accepted) /\ Len(accepted) < Len(delivered)
  <1>1. TypeOK /\ 1 \in Hops /\ Len(delivered) \in Nat
    BY ChainAssumption DEF AnswerInv, ExitInv, Hops, TypeOK, HopType
  <1>2. Head(bwd[1]) \in Genuine(Len(delivered))
    BY <1>1, ReadHeld DEF AnswerInv, BwdHeld
  <1> QED BY <1>1, <1>2, GenuineAnswer DEF AnswerInv

LEMMA AnswerNext == AnswerInv /\ [Next]_vars => AnswerInv'
  <1> SUFFICES ASSUME AnswerInv, [Next]_vars PROVE AnswerInv'
    OBVIOUS
  <1>0. TypeOK /\ TypeOK' /\ ExitInv /\ ExitInv'
    BY ExitNext DEF AnswerInv, ExitInv
  <1>1. /\ delivered \in Seq(Values) /\ accepted \in Seq(Values)
        /\ delivered' \in Seq(Values) /\ accepted' \in Seq(Values)
    BY <1>0 DEF TypeOK, ClientType, HopType
  <1>2. replies' = Len(delivered') /\ want' = Len(accepted')
    BY <1>0, <1>1, EndsStep DEF AnswerInv
  <1>3. N \notin Faulty => BwdHeld(Genuine(Len(delivered)))'
    BY GenuineHeld
  <1>4. AnswersInOrder'
    <2> SUFFICES ASSUME N \notin Faulty
                 PROVE  /\ Len(accepted') <= Len(delivered')
                        /\ \A k \in 1 .. Len(accepted') : accepted'[k] = k - 1
      BY DEF AnswersInOrder
    <2>1. /\ Len(accepted) <= Len(delivered)
          /\ \A k \in 1 .. Len(accepted) : accepted[k] = k - 1
      BY DEF AnswerInv, AnswersInOrder
    <2>2. Len(delivered) <= Len(delivered') /\ Len(delivered) \in Nat /\ Len(delivered') \in Nat
            /\ Len(accepted) \in Nat
      BY <1>0, <1>1, DeliveredGrows
    <2>3. CASE accepted' = accepted
      BY <2>1, <2>2, <2>3
    <2>4. CASE accepted' # accepted
      <3>1. /\ bwd[1] # <<>> /\ OpenClass(Head(bwd[1])) = "none"
            /\ accepted' = Append(accepted, Head(bwd[1]).ans)
            /\ delivered' = delivered
        BY <1>0, <2>4, EndsStep
      <3>2. Head(bwd[1]).ans = Len(accepted) /\ Len(accepted) < Len(delivered)
        BY <3>1, AcceptsNext
      <3>3. accepted' = Append(accepted, Len(accepted)) /\ Len(accepted') = Len(accepted) + 1
        BY <1>1, <3>1, <3>2
      <3>4. ASSUME NEW k \in 1 .. Len(accepted') PROVE accepted'[k] = k - 1
        <4>1. CASE k <= Len(accepted)
          BY <1>1, <2>1, <3>3, <4>1
        <4>2. CASE k = Len(accepted) + 1
          BY <1>1, <2>2, <3>3, <4>2
        <4> QED BY <2>2, <3>3, <4>1, <4>2
      <3> QED BY <2>2, <3>1, <3>2, <3>3, <3>4
    <2> QED BY <2>3, <2>4
  <1> QED BY <1>0, <1>2, <1>3, <1>4 DEF AnswerInv

\* Behind an exit that follows the code the k-th reply the client accepts answers
\* its k-th cell, whatever the relays in between do to replies and however many
\* they are (client.open, relay.reply).
THEOREM ChainAnswersInOrder == Spec => []AnswersInOrder
  <1>1. AnswerInv => AnswersInOrder
    BY DEF AnswerInv
  <1> QED BY <1>1, AnswerInit, AnswerNext, PTL DEF Spec

-----------------------------------------------------------------------------
(* The refinement: each step is a step of the channel the circuit promises  *)
(* its two ends, or one that neither of them sees.                          *)

EchoInv == AnswerInv /\ N \notin Faulty

LEMMA EchoInit == Init => Echo!Init
  BY DEF Init, Echo!Init

LEMMA EchoStep == EchoInv /\ [Next]_vars => [Echo!Next]_(Echo!vars)
  <1> SUFFICES ASSUME EchoInv, [Next]_vars PROVE [Echo!Next]_(Echo!vars)
    OBVIOUS
  <1>0. TypeOK /\ AnswerInv /\ ExitInv /\ N \notin Faulty
    BY DEF EchoInv, AnswerInv, ExitInv
  <1>1. CASE sent' = sent + 1 /\ UNCHANGED <<want, accepted, replies, delivered>>
    BY <1>1 DEF Echo!Next, Echo!Write
  <1>2. CASE /\ TakesData(N)
             /\ delivered' = Append(delivered, Head(fwd[N]).n)
             /\ UNCHANGED <<sent, want, accepted>>
    <2>1. Head(fwd[N]).n = Len(delivered) /\ Len(delivered) < sent
      BY <1>0, <1>2, ExitTakesNext
    <2> QED BY <1>2, <2>1 DEF Echo!Next, Echo!Hand
  <1>3. CASE /\ bwd[1] # <<>>
             /\ OpenClass(Head(bwd[1])) = "none"
             /\ accepted' = Append(accepted, Head(bwd[1]).ans)
             /\ UNCHANGED <<sent, replies, delivered>>
    <2>1. Head(bwd[1]).ans = Len(accepted) /\ Len(accepted) < Len(delivered)
      BY <1>0, <1>3, AcceptsNext
    <2> QED BY <1>3, <2>1 DEF Echo!Next, Echo!Answer
  <1>4. CASE UNCHANGED <<sent, want, accepted, replies, delivered>>
    BY <1>4 DEF Echo!vars
  <1> QED BY <1>0, <1>1, <1>2, <1>3, <1>4, EndsStep

\* A chain whose exit follows the code implements the channel its ends are
\* promised, for every number of hops and whatever the other relays do
\* (ImplementsEcho).
THEOREM ChainImplementsEcho == N \notin Faulty /\ Spec => ImplementsEcho
  <1>1. N \notin Faulty /\ Init => EchoInv
    BY AnswerInit DEF EchoInv
  <1>2. EchoInv /\ [Next]_vars => EchoInv'
    BY AnswerNext DEF EchoInv
  <1> QED BY <1>1, <1>2, EchoInit, EchoStep, PTL DEF Spec, ImplementsEcho, Echo!Spec

-----------------------------------------------------------------------------
(* Relays that follow the code. What travels on a link continues what its  *)
(* reader has taken, without a gap: a cell is lost only where no later one *)
(* gets through. Cells towards the exit carry their number, between cells  *)
(* nobody sealed; replies are known by their place.                        *)

\* No hop disturbs a cell that somebody sealed: what OrderlyInTurn assumes.
Orderly == Faulty = {} \/ FaultKinds \subseteq {"fwdJunk"}

\* The numbers in q begin at lo, leave none out and stay below hi ...
Stream(q, lo, hi) ==
  /\ lo <= hi
  /\ \A k \in 1 .. Len(q) : q[k].n # NoLayer =>
       /\ lo <= q[k].n /\ q[k].n < hi
       /\ \A j \in 1 .. k - 1 : q[j].n < q[k].n
       /\ \A m \in lo .. q[k].n - 1 : \E j \in 1 .. k - 1 : q[j].n = m

\* ... and reach up to it.
Full(q, lo, hi) == \A m \in lo .. hi - 1 : \E k \in 1 .. Len(q) : q[k].n = m

\* A cell that opens at hop l, or that nobody sealed.
Opens(l, c) == c.n # NoLayer => OpensData(l, c)

\* What the reader of link l has taken, what was written on it, and whether
\* a cell written now would arrive.
FwdIn(l) == fwdSeq[l].taken
FwdOut(l) == IF l = 1 THEN sent ELSE fwdSeq[l - 1].taken - Len(fwdQ[l - 1])
FwdAble(l) == near[l] # "closed" /\ far[l] # "closed" /\ line[l] \notin {"cut", "fwdStalled"}

\* The cells on link l are those between the two; where a cell may still be
\* written, none is missing.
FwdLink(l) ==
  /\ Stream(fwd[l], FwdIn(l), FwdOut(l))
  /\ FwdAble(l) => Full(fwd[l], FwdIn(l), FwdOut(l))
  /\ \A k \in 1 .. Len(fwd[l]) : Opens(l, fwd[l][k])

\* The pacer of hop i holds the last cells the hop took, in order.
FwdQueue(i) ==
  /\ fwdQ[i] # <<>> => i \in Paced /\ i < N
  /\ \A k \in 1 .. Len(fwdQ[i]) :
       /\ fwdQ[i][k].n = fwdSeq[i].taken - Len(fwdQ[i]) + k - 1
       /\ OpensData(i + 1, fwdQ[i][k])

\* The value a hop waits for is that of the first cell it has not taken.
FwdDue(i) == fwdSeq[i].seeded => fwdSeq[i].next = ValueAt(i, "fwd", fwdSeq[i].taken)

\* The value reply r has on link l, and the reply as hop l sends it on.
ReplyValue(l, r) == Unshift(Shift(r, circ.before[N + 1]["bwd"]), circ.before[l]["bwd"])

Layered(l, r, c) ==
  /\ c.ctr = ReplyValue(l, r)
  /\ \A i \in l .. N : c.under[i] = ReplyValue(i, r)

Reply(l, r, c) == r < replies /\ Layered(l, r, c)

\* The same for the replies on link l, which its far end writes.
BwdIn(l) == IF l = 1 THEN want ELSE bwdSeq[l - 1].taken
BwdOut(l) == Counter(l) - Len(bwdQ[l])
BwdAble(l) == near[l] # "closed" /\ far[l] # "closed" /\ line[l] \notin {"cut", "bwdStalled"}

BwdLink(l) ==
  /\ BwdIn(l) + Len(bwd[l]) <= BwdOut(l)
  /\ BwdAble(l) => BwdIn(l) + Len(bwd[l]) = BwdOut(l)
  /\ \A k \in 1 .. Len(bwd[l]) : Reply(l, BwdIn(l) + k - 1, bwd[l][k])

BwdQueue(i) ==
  /\ bwdQ[i] # <<>> => i \in Paced
  /\ far[i] # "closed" =>
       \A k \in 1 .. Len(bwdQ[i]) : Reply(i, BwdOut(i) + k - 1, bwdQ[i][k])

BwdDue(i) ==
  i < N /\ bwdSeq[i].seeded => bwdSeq[i].next = ReplyValue(i + 1, bwdSeq[i].taken)

\* A link is made by the hop before it, when that one has read its setup.
Linked(i) ==
  /\ far[i] = "none" => hop[i] = "idle" /\ fwd[i] = <<>>
  /\ hop[i] = "gone" => far[i] = "closed"
  /\ i < N => /\ hop[i] = "idle" => near[i + 1] = "none" /\ far[i + 1] = "none"
              /\ hop[i] = "live" => near[i + 1] # "none" /\ far[i + 1] # "none"

\* A hop without a circuit has counted nothing, and has its setup to read first,
\* or nothing that counts.
Fresh(i) ==
  /\ fwdSeq[i] = NewSequence /\ bwdSeq[i] = NewSequence /\ back[i] = "none"
  /\ fwdQ[i] = <<>> /\ bwdQ[i] = <<>> /\ (i = N => replies = 0)

\* A hop without a circuit reads its setup first, or nothing that counts.
Waits(i) ==
  \/ fwd[i] # <<>> /\ Head(fwd[i]) = SetupCell(i)
  \/ /\ far[i] = "none" \/ ~FwdAble(i)
     /\ \A k \in 1 .. Len(fwd[i]) : fwd[i][k].n = NoLayer

Born(i) == Linked(i) /\ (hop[i] = "idle" => Fresh(i) /\ Waits(i))

FwdOrder == \A i \in Hops : FwdLink(i) /\ FwdQueue(i) /\ FwdDue(i)
BwdOrder == \A i \in Hops : BwdLink(i) /\ BwdQueue(i) /\ BwdDue(i)
Births == far[1] # "none" /\ \A i \in Hops : Born(i)

Ordered == Births /\ FwdOrder /\ BwdOrder

OrderInv == AnswerInv /\ OrderlyInTurn /\ (Orderly => Ordered)

-----------------------------------------------------------------------------
\* What the number of a cell may be.
LEMMA NumberType ==
  ASSUME NEW q \in Seq(FwdCells), NEW k \in 1 .. Len(q)
  PROVE  q[k] \in FwdCells /\ q[k].n \in Int /\ q[k].n >= NoLayer
  <1>1. q[k] \in FwdCells
    OBVIOUS
  <1> QED BY <1>1, ValuesAreInts, LimitAssumption DEF FwdCells, NoLayer, Values

\* The reader takes the cell that is due.
LEMMA StreamRead ==
  ASSUME NEW q \in Seq(FwdCells), q # <<>>, NEW lo \in Nat, NEW hi \in Int,
         Stream(q, lo, hi), Head(q).n # NoLayer
  PROVE  /\ Head(q).n = lo /\ lo < hi
         /\ Stream(Tail(q), lo + 1, hi)
         /\ Full(q, lo, hi) => Full(Tail(q), lo + 1, hi)
  <1>1. /\ Len(q) \in Nat /\ 1 \in 1 .. Len(q) /\ q[1] = Head(q) /\ Len(Tail(q)) = Len(q) - 1
        /\ \A k \in 1 .. Len(Tail(q)) : k + 1 \in 1 .. Len(q) /\ Tail(q)[k] = q[k + 1]
    OBVIOUS
  <1>2. \A k \in 1 .. Len(q) : q[k].n \in Int
    BY NumberType
  <1>3. q[1].n = lo /\ lo < hi
    <2>1. /\ lo <= q[1].n /\ q[1].n < hi
          /\ \A m \in lo .. q[1].n - 1 : \E j \in 1 .. 1 - 1 : q[j].n = m
      BY <1>1 DEF Stream
    <2>2. ~(lo \in lo .. q[1].n - 1)
      BY <2>1
    <2> QED BY <1>1, <1>2, <2>1, <2>2
  <1>4. ASSUME NEW k \in 1 .. Len(Tail(q)), Tail(q)[k].n # NoLayer
        PROVE  /\ lo + 1 <= Tail(q)[k].n /\ Tail(q)[k].n < hi
               /\ \A j \in 1 .. k - 1 : Tail(q)[j].n < Tail(q)[k].n
               /\ \A m \in lo + 1 .. Tail(q)[k].n - 1 : \E j \in 1 .. k - 1 : Tail(q)[j].n = m
    <2>1. /\ k + 1 \in 1 .. Len(q) /\ Tail(q)[k].n = q[k + 1].n /\ q[k + 1].n \in Int
          /\ k \in Nat
      BY <1>1, <1>2
    <2>2. /\ q[k + 1].n < hi
          /\ \A j \in 1 .. (k + 1) - 1 : q[j].n < q[k + 1].n
          /\ \A m \in lo .. q[k + 1].n - 1 : \E j \in 1 .. (k + 1) - 1 : q[j].n = m
      BY <1>4, <2>1 DEF Stream
    <2>3. q[1].n < q[k + 1].n
      BY <2>1, <2>2
    <2>4. \A j \in 1 .. k - 1 : Tail(q)[j].n < Tail(q)[k].n
      <3> SUFFICES ASSUME NEW j \in 1 .. k - 1 PROVE Tail(q)[j].n < Tail(q)[k].n
        OBVIOUS
      <3>1. j \in 1 .. Len(Tail(q)) /\ j + 1 \in 1 .. (k + 1) - 1
        BY <1>1, <2>1
      <3> QED BY <1>1, <2>1, <2>2, <3>1
    <2>5. \A m \in lo + 1 .. q[k + 1].n - 1 : \E j \in 1 .. k - 1 : Tail(q)[j].n = m
      <3> SUFFICES ASSUME NEW m \in lo + 1 .. q[k + 1].n - 1
                   PROVE  \E j \in 1 .. k - 1 : Tail(q)[j].n = m
        OBVIOUS
      <3>1. PICK j \in 1 .. k : q[j].n = m
        <4>1. m \in lo .. q[k + 1].n - 1 /\ (k + 1) - 1 = k
          BY <2>1
        <4> QED BY <2>2, <4>1
      <3>2. j # 1
        BY <1>3, <3>1
      <3>3. j - 1 \in 1 .. k - 1 /\ j - 1 \in 1 .. Len(Tail(q)) /\ (j - 1) + 1 = j
        BY <1>1, <2>1, <3>2
      <3>4. Tail(q)[j - 1].n = m
        BY <1>1, <3>1, <3>3
      <3> QED BY <3>3, <3>4
    <2> QED BY <1>3, <2>1, <2>2, <2>3, <2>4, <2>5
  <1>5. Stream(Tail(q), lo + 1, hi)
    <2>1. lo + 1 <= hi
      BY <1>3
    <2> QED BY <1>4, <2>1 DEF Stream
  <1>6. ASSUME Full(q, lo, hi), NEW m \in lo + 1 .. hi - 1
        PROVE  \E k \in 1 .. Len(Tail(q)) : Tail(q)[k].n = m
    <2>1. PICK j \in 1 .. Len(q) : q[j].n = m
      BY <1>6 DEF Full
    <2>2. j # 1
      BY <1>3, <2>1
    <2>3. j - 1 \in 1 .. Len(Tail(q)) /\ (j - 1) + 1 = j
      BY <1>1, <2>2
    <2> QED BY <1>1, <2>1, <2>3
  <1> QED BY <1>1, <1>3, <1>5, <1>6 DEF Full

\* A cell that carries no number is dropped.
LEMMA StreamSkip ==
  ASSUME NEW q \in Seq(FwdCells), q # <<>>, NEW lo \in Nat, NEW hi \in Int,
         Stream(q, lo, hi), Head(q).n = NoLayer
  PROVE  /\ Stream(Tail(q), lo, hi)
         /\ Full(q, lo, hi) => Full(Tail(q), lo, hi)
  <1>1. /\ Len(q) \in Nat /\ 1 \in 1 .. Len(q) /\ q[1] = Head(q) /\ Len(Tail(q)) = Len(q) - 1
        /\ \A k \in 1 .. Len(Tail(q)) : k + 1 \in 1 .. Len(q) /\ Tail(q)[k] = q[k + 1]
    OBVIOUS
  <1>2. \A k \in 1 .. Len(q) : q[k].n \in Int
    BY NumberType
  <1>3. \A m \in Nat : q[1].n # m
    BY <1>1 DEF NoLayer
  <1>4. ASSUME NEW k \in 1 .. Len(Tail(q)), Tail(q)[k].n # NoLayer
        PROVE  /\ lo <= Tail(q)[k].n /\ Tail(q)[k].n < hi
               /\ \A j \in 1 .. k - 1 : Tail(q)[j].n < Tail(q)[k].n
               /\ \A m \in lo .. Tail(q)[k].n - 1 : \E j \in 1 .. k - 1 : Tail(q)[j].n = m
    <2>1. /\ k + 1 \in 1 .. Len(q) /\ Tail(q)[k].n = q[k + 1].n /\ q[k + 1].n \in Int
          /\ k \in Nat
      BY <1>1, <1>2
    <2>2. /\ lo <= q[k + 1].n /\ q[k + 1].n < hi
          /\ \A j \in 1 .. (k + 1) - 1 : q[j].n < q[k + 1].n
          /\ \A m \in lo .. q[k + 1].n - 1 : \E j \in 1 .. (k + 1) - 1 : q[j].n = m
      BY <1>4, <2>1 DEF Stream
    <2>3. \A j \in 1 .. k - 1 : Tail(q)[j].n < Tail(q)[k].n
      <3> SUFFICES ASSUME NEW j \in 1 .. k - 1 PROVE Tail(q)[j].n < Tail(q)[k].n
        OBVIOUS
      <3>1. j \in 1 .. Len(Tail(q)) /\ j + 1 \in 1 .. (k + 1) - 1
        BY <1>1, <2>1
      <3> QED BY <1>1, <2>1, <2>2, <3>1
    <2>4. \A m \in lo .. q[k + 1].n - 1 : \E j \in 1 .. k - 1 : Tail(q)[j].n = m
      <3> SUFFICES ASSUME NEW m \in lo .. q[k + 1].n - 1
                   PROVE  \E j \in 1 .. k - 1 : Tail(q)[j].n = m
        OBVIOUS
      <3>1. PICK j \in 1 .. k : q[j].n = m
        <4>1. (k + 1) - 1 = k
          BY <2>1
        <4> QED BY <2>2, <4>1
      <3>2. j # 1
        <4>1. m \in Nat
          BY <2>1
        <4> QED BY <1>3, <3>1, <4>1
      <3>3. j - 1 \in 1 .. k - 1 /\ j - 1 \in 1 .. Len(Tail(q)) /\ (j - 1) + 1 = j
        BY <1>1, <2>1, <3>2
      <3>4. Tail(q)[j - 1].n = m
        BY <1>1, <3>1, <3>3
      <3> QED BY <3>3, <3>4
    <2> QED BY <2>1, <2>2, <2>3, <2>4
  <1>5. Stream(Tail(q), lo, hi)
    BY <1>4 DEF Stream
  <1>6. ASSUME Full(q, lo, hi), NEW m \in lo .. hi - 1
        PROVE  \E k \in 1 .. Len(Tail(q)) : Tail(q)[k].n = m
    <2>1. PICK j \in 1 .. Len(q) : q[j].n = m
      BY <1>6 DEF Full
    <2>2. j # 1
      <3>1. m \in Nat
        OBVIOUS
      <3> QED BY <1>3, <2>1, <3>1
    <2>3. j - 1 \in 1 .. Len(Tail(q)) /\ (j - 1) + 1 = j
      BY <1>1, <2>2
    <2> QED BY <1>1, <2>1, <2>3
  <1> QED BY <1>5, <1>6 DEF Full

\* One more cell: the next number on a link that lost none, or no number.
LEMMA StreamAppend ==
  ASSUME NEW q \in Seq(FwdCells), NEW lo \in Nat, NEW hi \in Int, NEW c \in FwdCells,
         Stream(q, lo, hi)
  PROVE  /\ c.n = NoLayer => /\ Stream(Append(q, c), lo, hi)
                             /\ Full(q, lo, hi) => Full(Append(q, c), lo, hi)
         /\ c.n = hi /\ Full(q, lo, hi) => /\ Stream(Append(q, c), lo, hi + 1)
                                           /\ Full(Append(q, c), lo, hi + 1)
  <1> DEFINE r == Append(q, c)
             m == Len(q)
  <1>1. /\ m \in Nat /\ Len(r) = m + 1 /\ r[m + 1] = c
        /\ \A k \in 1 .. m : r[k] = q[k] /\ k \in 1 .. Len(r)
    OBVIOUS
  <1>2. /\ \A k \in 1 .. m : q[k].n \in Int /\ q[k].n >= NoLayer
        /\ lo <= hi
    BY NumberType DEF Stream
  <1> HIDE DEF r, m
  <1>3. ASSUME NEW k \in 1 .. m, r[k].n # NoLayer
        PROVE  /\ lo <= r[k].n /\ r[k].n < hi
               /\ \A j \in 1 .. k - 1 : r[j].n < r[k].n
               /\ \A x \in lo .. r[k].n - 1 : \E j \in 1 .. k - 1 : r[j].n = x
    <2>1. r[k] = q[k] /\ \A j \in 1 .. k - 1 : r[j] = q[j] /\ j \in 1 .. m
      BY <1>1
    <2>2. /\ lo <= q[k].n /\ q[k].n < hi
          /\ \A j \in 1 .. k - 1 : q[j].n < q[k].n
          /\ \A x \in lo .. q[k].n - 1 : \E j \in 1 .. k - 1 : q[j].n = x
      BY <1>3, <2>1 DEF Stream, m
    <2> QED BY <2>1, <2>2
  <1>4. ASSUME c.n = NoLayer PROVE Stream(r, lo, hi)
    <2>1. ASSUME NEW k \in 1 .. Len(r), r[k].n # NoLayer PROVE k \in 1 .. m
      BY <1>1, <1>4, <2>1
    <2> QED BY <1>2, <1>3, <2>1 DEF Stream
  <1>5. Full(q, lo, hi) => Full(r, lo, hi)
    <2> SUFFICES ASSUME Full(q, lo, hi), NEW x \in lo .. hi - 1
                 PROVE  \E k \in 1 .. Len(r) : r[k].n = x
      BY DEF Full
    <2>1. PICK k \in 1 .. m : q[k].n = x
      BY DEF Full, m
    <2> QED BY <1>1, <2>1
  <1>6. ASSUME c.n = hi, Full(q, lo, hi) PROVE Stream(r, lo, hi + 1) /\ Full(r, lo, hi + 1)
    <2>1. ASSUME NEW k \in 1 .. Len(r), r[k].n # NoLayer
          PROVE  /\ lo <= r[k].n /\ r[k].n < hi + 1
                 /\ \A j \in 1 .. k - 1 : r[j].n < r[k].n
                 /\ \A x \in lo .. r[k].n - 1 : \E j \in 1 .. k - 1 : r[j].n = x
      <3>1. CASE k \in 1 .. m
        <4>1. r[k].n \in Int /\ r[k].n < hi
          BY <1>1, <1>2, <1>3, <2>1, <3>1
        <4>2. r[k].n < hi + 1
          BY <4>1
        <4> QED BY <1>3, <2>1, <3>1, <4>2
      <3>2. CASE k = m + 1
        <4>1. r[k].n = hi /\ k - 1 = m
          BY <1>1, <1>6, <3>2
        <4>2. ASSUME NEW j \in 1 .. m PROVE r[j].n < hi
          <5>1. CASE r[j].n = NoLayer
            BY <1>2, <5>1 DEF NoLayer
          <5>2. CASE r[j].n # NoLayer
            BY <1>3, <5>2
          <5> QED BY <5>1, <5>2
        <4>3. ASSUME NEW x \in lo .. hi - 1 PROVE \E j \in 1 .. m : r[j].n = x
          <5>1. PICK j \in 1 .. m : q[j].n = x
            BY <1>6 DEF Full, m
          <5> QED BY <1>1, <5>1
        <4> QED BY <1>2, <4>1, <4>2, <4>3
      <3> QED BY <1>1, <3>1, <3>2
    <2>2. Stream(r, lo, hi + 1)
      BY <1>2, <2>1 DEF Stream
    <2>3. ASSUME NEW x \in lo .. (hi + 1) - 1 PROVE \E k \in 1 .. Len(r) : r[k].n = x
      <3>1. CASE x = hi
        BY <1>1, <1>6, <3>1
      <3>2. CASE x # hi
        <4>1. x \in lo .. hi - 1
          BY <3>2
        <4> QED BY <1>5, <1>6, <4>1 DEF Full
      <3> QED BY <3>1, <3>2
    <2> QED BY <2>2, <2>3 DEF Full
  <1> QED BY <1>4, <1>5, <1>6 DEF r

\* A sequence without its last element.
LEMMA FrontParts ==
  ASSUME NEW S, NEW q \in Seq(S), q # <<>>
  PROVE  /\ Len(q) \in Nat /\ Len(q) > 0
         /\ Len(SubSeq(q, 1, Len(q) - 1)) = Len(q) - 1
         /\ \A k \in 1 .. Len(q) - 1 : SubSeq(q, 1, Len(q) - 1)[k] = q[k]
  <1>1. Len(q) \in Nat /\ Len(q) > 0
    OBVIOUS
  <1>2. ASSUME NEW m \in Nat, m <= Len(q) PROVE Len(SubSeq(q, 1, m)) = m
    BY <1>2
  <1>3. ASSUME NEW m \in Nat, m <= Len(q), NEW k \in 1 .. m PROVE SubSeq(q, 1, m)[k] = q[k]
    BY <1>3
  <1>4. PICK m \in Nat : m = Len(q) - 1 /\ m <= Len(q)
    <2>1. Len(q) - 1 \in Nat /\ Len(q) - 1 <= Len(q)
      BY <1>1
    <2> QED BY <2>1, Zenon
  <1>5. Len(SubSeq(q, 1, m)) = m /\ \A k \in 1 .. m : SubSeq(q, 1, m)[k] = q[k]
    BY <1>2, <1>3, <1>4
  <1> QED BY <1>1, <1>4, <1>5

\* The tail is lost, and more numbers may be given out than get through.
LEMMA StreamFront ==
  ASSUME NEW q \in Seq(FwdCells), q # <<>>, NEW lo \in Nat, NEW hi \in Int, Stream(q, lo, hi)
  PROVE  Stream(SubSeq(q, 1, Len(q) - 1), lo, hi)
  <1> DEFINE r == SubSeq(q, 1, Len(q) - 1)
             m == Len(q)
  <1>1. m \in Nat /\ m > 0 /\ Len(r) = m - 1 /\ \A k \in 1 .. m - 1 : r[k] = q[k]
    BY FrontParts
  <1> HIDE DEF r, m
  <1>2. ASSUME NEW k \in 1 .. Len(r), r[k].n # NoLayer
        PROVE  /\ lo <= r[k].n /\ r[k].n < hi
               /\ \A j \in 1 .. k - 1 : r[j].n < r[k].n
               /\ \A x \in lo .. r[k].n - 1 : \E j \in 1 .. k - 1 : r[j].n = x
    <2>1. k \in 1 .. m /\ r[k] = q[k] /\ \A j \in 1 .. k - 1 : r[j] = q[j]
      BY <1>1
    <2>2. /\ lo <= q[k].n /\ q[k].n < hi
          /\ \A j \in 1 .. k - 1 : q[j].n < q[k].n
          /\ \A x \in lo .. q[k].n - 1 : \E j \in 1 .. k - 1 : q[j].n = x
      BY <1>2, <2>1 DEF Stream, m
    <2> QED BY <2>1, <2>2
  <1> QED BY <1>2 DEF Stream, r

\* A later bound.
LEMMA StreamGrows ==
  ASSUME NEW q \in Seq(FwdCells), NEW lo \in Nat, NEW hi \in Int, Stream(q, lo, hi),
         NEW more \in Int, hi <= more
  PROVE  Stream(q, lo, more)
  <1>1. \A k \in 1 .. Len(q) : q[k].n \in Int
    BY NumberType
  <1>2. \A k \in 1 .. Len(q) : q[k].n # NoLayer => q[k].n < hi
    BY DEF Stream
  <1>3. \A k \in 1 .. Len(q) : q[k].n # NoLayer => q[k].n < more
    BY <1>1, <1>2
  <1> QED BY <1>3 DEF Stream

\* A link that carries nothing.
LEMMA StreamEmpty ==
  ASSUME NEW lo, NEW hi, lo <= hi
  PROVE  Stream(<<>>, lo, hi)
  BY DEF Stream

-----------------------------------------------------------------------------
(* What a step may do to the cells on a link.                              *)

\* Nothing moves; a number is lost only on a link that carries no more.
FwdKept(l) ==
  /\ fwd'[l] = fwd[l]
  /\ FwdIn(l)' = FwdIn(l)
  /\ FwdOut(l) <= FwdOut(l)'
  /\ FwdAble(l)' => FwdAble(l) /\ FwdOut(l)' = FwdOut(l)

\* The link is emptied, and takes no more;
FwdCleared(l) == fwd'[l] = <<>> /\ FwdIn(l)' <= FwdOut(l)' /\ ~FwdAble(l)'

\* its reader takes a cell, a setup only by having a circuit then;
FwdTaken(l) ==
  /\ fwd[l] # <<>>
  /\ Head(fwd[l]) = SetupCell(l) => hop'[l] # "idle"
  /\ fwd'[l] = Tail(fwd[l])
  /\ FwdIn(l)' = IF Head(fwd[l]).n = NoLayer THEN FwdIn(l) ELSE FwdIn(l) + 1
  /\ FwdOut(l)' = FwdOut(l)
  /\ FwdAble(l)' => FwdAble(l)

\* a cell is written, the one due if anybody sealed it;
FwdWritten(l) ==
  \E c \in FwdCells :
    /\ fwd'[l] = Append(fwd[l], c)
    /\ Opens(l, c)
    /\ FwdIn(l)' = FwdIn(l)
    /\ FwdAble(l)' => FwdAble(l)
    /\ FwdOut(l)' = IF c.n = NoLayer THEN FwdOut(l) ELSE FwdOut(l) + 1
    /\ c.n # NoLayer => c.n = FwdOut(l) /\ FwdAble(l)

\* the last cell is lost, where none follows.
FwdLost(l) ==
  /\ fwd[l] # <<>>
  /\ fwd'[l] = SubSeq(fwd[l], 1, Len(fwd[l]) - 1)
  /\ FwdIn(l)' = FwdIn(l)
  /\ FwdOut(l)' = FwdOut(l)
  /\ ~FwdAble(l)'

FwdMove(l) == FwdKept(l) \/ FwdCleared(l) \/ FwdTaken(l) \/ FwdWritten(l) \/ FwdLost(l)

\* Both counts are numbers.
LEMMA FwdBounds ==
  ASSUME TypeOK, NEW l \in Hops
  PROVE  FwdIn(l) \in Nat /\ FwdOut(l) \in Int
  <1>1. \A i \in Hops : fwdSeq[i].taken \in Nat /\ Len(fwdQ[i]) \in Nat
    BY LimitAssumption DEF TypeOK, HopType, SequenceStates
  <1>2. l = 1 \/ l - 1 \in Hops
    BY ChainAssumption DEF Hops
  <1>3. sent \in Int
    BY LimitAssumption DEF TypeOK, ClientType
  <1>4. l # 1 => fwdSeq[l - 1].taken \in Nat /\ Len(fwdQ[l - 1]) \in Nat
    BY <1>1, <1>2
  <1> QED BY <1>1, <1>3, <1>4 DEF FwdIn, FwdOut

\* What a link carries, with the state it depends on named.
Carries(l, able, q, lo, hi) ==
  /\ Stream(q, lo, hi)
  /\ able => Full(q, lo, hi)
  /\ \A k \in 1 .. Len(q) : Opens(l, q[k])

\* The reader takes the first cell of a link.
LEMMA CarriesTail ==
  ASSUME NEW l, NEW able, NEW q \in Seq(FwdCells), q # <<>>, NEW lo \in Nat, NEW hi \in Int,
         Carries(l, able, q, lo, hi)
  PROVE  Carries(l, able, Tail(q), IF Head(q).n = NoLayer THEN lo ELSE lo + 1, hi)
  <1>1. \A k \in 1 .. Len(Tail(q)) : Opens(l, Tail(q)[k])
    <2>1. \A k \in 1 .. Len(Tail(q)) : k + 1 \in 1 .. Len(q) /\ Tail(q)[k] = q[k + 1]
      OBVIOUS
    <2> QED BY <2>1 DEF Carries
  <1>2. CASE Head(q).n = NoLayer
    BY <1>1, <1>2, StreamSkip DEF Carries
  <1>3. CASE Head(q).n # NoLayer
    BY <1>1, <1>3, StreamRead DEF Carries
  <1> QED BY <1>2, <1>3

\* A cell is written on a link.
LEMMA CarriesAppend ==
  ASSUME NEW l, NEW able, NEW q \in Seq(FwdCells), NEW lo \in Nat, NEW hi \in Int,
         NEW c \in FwdCells, Opens(l, c), c.n # NoLayer => c.n = hi /\ able,
         Carries(l, able, q, lo, hi)
  PROVE  Carries(l, able, Append(q, c), lo, IF c.n = NoLayer THEN hi ELSE hi + 1)
  <1>1. \A k \in 1 .. Len(Append(q, c)) : Opens(l, Append(q, c)[k])
    <2>1. /\ Len(q) \in Nat /\ Len(Append(q, c)) = Len(q) + 1 /\ Append(q, c)[Len(q) + 1] = c
          /\ \A k \in 1 .. Len(q) : Append(q, c)[k] = q[k]
      OBVIOUS
    <2>2. \A k \in 1 .. Len(q) + 1 : k \in 1 .. Len(q) \/ k = Len(q) + 1
      BY <2>1
    <2>3. \A k \in 1 .. Len(q) : Opens(l, q[k])
      BY DEF Carries
    <2> QED BY <2>1, <2>2, <2>3
  <1>2. CASE c.n = NoLayer
    BY <1>1, <1>2, StreamAppend DEF Carries
  <1>3. CASE c.n # NoLayer
    BY <1>1, <1>3, StreamAppend DEF Carries
  <1> QED BY <1>2, <1>3

\* Whatever a step does to a link, it carries on where its reader is.
LEMMA FwdMoves ==
  ASSUME TypeOK, TypeOK', circ' = circ, NEW l \in Hops, FwdLink(l), FwdMove(l)
  PROVE  FwdLink(l)'
  <1> DEFINE q == fwd[l]
             r == fwd'[l]
             lo == FwdIn(l)
             hi == FwdOut(l)
             lo2 == FwdIn(l)'
             hi2 == FwdOut(l)'
             able == FwdAble(l)
             able2 == FwdAble(l)'
  <1>1. q \in Seq(FwdCells) /\ r \in Seq(FwdCells)
    BY DEF TypeOK, LinkType
  <1>2. lo \in Nat /\ hi \in Int
    BY FwdBounds
  <1>3. lo2 \in Nat /\ hi2 \in Int
    <2>1. fwdSeq' \in [Hops -> SequenceStates] /\ fwdQ' \in [Hops -> Seq(FwdCells)]
      BY DEF TypeOK, HopType
    <2>2. \A i \in Hops : fwdSeq'[i].taken \in Nat /\ Len(fwdQ'[i]) \in Nat
      BY <2>1, LimitAssumption DEF SequenceStates
    <2>3. l # 1 => fwdSeq'[l - 1].taken \in Nat /\ Len(fwdQ'[l - 1]) \in Nat
      <3>1. l # 1 => l - 1 \in Hops
        BY ChainAssumption DEF Hops
      <3> QED BY <2>2, <3>1
    <2>4. sent' \in Int
      BY LimitAssumption DEF TypeOK, ClientType
    <2> QED BY <2>2, <2>3, <2>4 DEF FwdIn, FwdOut
  <1>4. Carries(l, able, q, lo, hi)
    BY DEF FwdLink, Carries
  <1>5. SUFFICES Carries(l, able2, r, lo2, hi2)
    <2>1. \A c : Opens(l, c)' <=> Opens(l, c)
      BY DEF Opens, OpensData, ValueAt
    <2> QED BY <1>5, <2>1 DEF FwdLink, Carries
  <1>6. CASE FwdKept(l)
    <2>1. r = q /\ lo2 = lo /\ hi <= hi2 /\ (able2 => able /\ hi2 = hi)
      BY <1>6 DEF FwdKept
    <2> HIDE DEF q, r, lo, hi, lo2, hi2, able, able2
    <2>2. Stream(q, lo, hi2)
      BY <1>1, <1>2, <1>3, <1>4, <2>1, StreamGrows DEF Carries
    <2> QED BY <1>4, <2>1, <2>2 DEF Carries
  <1>7. CASE FwdCleared(l)
    <2>1. r = <<>> /\ lo2 <= hi2 /\ ~able2
      BY <1>7 DEF FwdCleared
    <2> HIDE DEF q, r, lo, hi, lo2, hi2, able, able2
    <2> QED BY <2>1, StreamEmpty DEF Carries
  <1>8. CASE FwdTaken(l)
    <2>1. q # <<>> /\ r = Tail(q) /\ lo2 = (IF Head(q).n = NoLayer THEN lo ELSE lo + 1)
            /\ hi2 = hi /\ (able2 => able)
      BY <1>8 DEF FwdTaken
    <2> HIDE DEF q, r, lo, hi, lo2, hi2, able, able2
    <2>2. Carries(l, able, r, lo2, hi2)
      BY <1>1, <1>2, <1>4, <2>1, CarriesTail
    <2> QED BY <2>1, <2>2 DEF Carries
  <1>9. CASE FwdWritten(l)
    <2>1. PICK c \in FwdCells :
            /\ r = Append(q, c) /\ Opens(l, c) /\ lo2 = lo /\ (able2 => able)
            /\ hi2 = (IF c.n = NoLayer THEN hi ELSE hi + 1)
            /\ c.n # NoLayer => c.n = hi /\ able
      BY <1>9 DEF FwdWritten
    <2> HIDE DEF q, r, lo, hi, lo2, hi2, able, able2
    <2>2. Carries(l, able, r, lo2, hi2)
      BY <1>1, <1>2, <1>4, <2>1, CarriesAppend
    <2> QED BY <2>1, <2>2 DEF Carries
  <1>10. CASE FwdLost(l)
    <2>1. q # <<>> /\ r = SubSeq(q, 1, Len(q) - 1) /\ lo2 = lo /\ hi2 = hi /\ ~able2
      BY <1>10 DEF FwdLost
    <2> HIDE DEF q, r, lo, hi, lo2, hi2, able, able2
    <2>2. Stream(r, lo2, hi2)
      BY <1>1, <1>2, <1>4, <2>1, StreamFront DEF Carries
    <2>3. \A k \in 1 .. Len(r) : k \in 1 .. Len(q) /\ r[k] = q[k]
      BY <1>1, <2>1, FrontParts
    <2> QED BY <1>4, <2>1, <2>2, <2>3 DEF Carries
  <1> QED BY <1>6, <1>7, <1>8, <1>9, <1>10 DEF FwdMove

-----------------------------------------------------------------------------
(* The same for replies.                                                   *)

\* The five ways the replies on link l change, as those of the cells.
BwdKept(l) ==
  /\ bwd'[l] = bwd[l]
  /\ BwdIn(l)' = BwdIn(l)
  /\ BwdOut(l) <= BwdOut(l)'
  /\ BwdAble(l)' => BwdAble(l) /\ BwdOut(l)' = BwdOut(l)

BwdCleared(l) == bwd'[l] = <<>> /\ BwdIn(l)' <= BwdOut(l)' /\ ~BwdAble(l)'

BwdTaken(l) ==
  /\ bwd[l] # <<>>
  /\ bwd'[l] = Tail(bwd[l])
  /\ BwdIn(l)' = BwdIn(l) + 1
  /\ BwdOut(l)' = BwdOut(l)
  /\ BwdAble(l)' => BwdAble(l)

BwdWritten(l) ==
  \E c \in BwdCells :
    /\ bwd'[l] = Append(bwd[l], c)
    /\ BwdOut(l) < replies' /\ Layered(l, BwdOut(l), c)
    /\ BwdOut(l)' = BwdOut(l) + 1
    /\ BwdIn(l)' = BwdIn(l)
    /\ BwdAble(l)

BwdLost(l) ==
  /\ bwd[l] # <<>>
  /\ bwd'[l] = SubSeq(bwd[l], 1, Len(bwd[l]) - 1)
  /\ BwdIn(l)' = BwdIn(l)
  /\ BwdOut(l)' = BwdOut(l)
  /\ ~BwdAble(l)'

BwdMove(l) == BwdKept(l) \/ BwdCleared(l) \/ BwdTaken(l) \/ BwdWritten(l) \/ BwdLost(l)

\* Both counts are numbers.
LEMMA BwdBounds ==
  ASSUME TypeOK, NEW l \in Hops
  PROVE  BwdIn(l) \in Nat /\ BwdOut(l) \in Int
  <1>1. \A i \in Hops : bwdSeq[i].taken \in Nat /\ Len(bwdQ[i]) \in Nat
    BY LimitAssumption DEF TypeOK, HopType, SequenceStates
  <1>2. l # 1 => l - 1 \in Hops
    BY ChainAssumption DEF Hops
  <1>3. replies \in Nat /\ want \in Nat
    BY LimitAssumption DEF TypeOK, HopType, ClientType
  <1>4. l # 1 => bwdSeq[l - 1].taken \in Nat
    BY <1>1, <1>2
  <1>5. bwdSeq[l].taken \in Nat /\ Len(bwdQ[l]) \in Nat
    BY <1>1
  <1> QED BY <1>3, <1>4, <1>5 DEF BwdIn, BwdOut, Counter

\* Each of the five ways keeps the replies on a link in order.
LEMMA BwdMoves ==
  ASSUME TypeOK, TypeOK', circ' = circ, replies <= replies', NEW l \in Hops,
         BwdLink(l), BwdMove(l)
  PROVE  BwdLink(l)'
  <1> DEFINE q == bwd[l]
             r == bwd'[l]
             lo == BwdIn(l)
             hi == BwdOut(l)
             lo2 == BwdIn(l)'
             hi2 == BwdOut(l)'
             able == BwdAble(l)
             able2 == BwdAble(l)'
             Rep(x, c) == x < replies' /\ Layered(l, x, c)
  <1>1. q \in Seq(BwdCells) /\ r \in Seq(BwdCells)
    BY DEF TypeOK, LinkType
  <1>2. lo \in Nat /\ hi \in Int
    BY BwdBounds
  <1>3. lo2 \in Nat /\ hi2 \in Int
    <2>1. /\ bwdSeq' \in [Hops -> SequenceStates] /\ bwdQ' \in [Hops -> Seq(BwdCells)]
          /\ replies' \in 0 .. CellLimit /\ want' \in Nat
      BY DEF TypeOK, HopType, ClientType
    <2>2. \A i \in Hops : bwdSeq'[i].taken \in Nat /\ Len(bwdQ'[i]) \in Nat
      BY <2>1, LimitAssumption DEF SequenceStates
    <2>3. l # 1 => bwdSeq'[l - 1].taken \in Nat
      <3>1. l # 1 => l - 1 \in Hops
        BY ChainAssumption DEF Hops
      <3> QED BY <2>2, <3>1
    <2>4. bwdSeq'[l].taken \in Nat /\ Len(bwdQ'[l]) \in Nat /\ replies' \in Int
      BY <2>1, <2>2
    <2> QED BY <2>1, <2>3, <2>4 DEF BwdIn, BwdOut, Counter
  <1>4. /\ lo + Len(q) <= hi /\ (able => lo + Len(q) = hi)
        /\ \A k \in 1 .. Len(q) : Rep(lo + k - 1, q[k])
    <2>1. replies \in Int /\ replies' \in Int
      BY DEF TypeOK, HopType
    <2>2. \A k \in 1 .. Len(q) : Reply(l, lo + k - 1, q[k])
      BY DEF BwdLink
    <2>3. ASSUME NEW x \in Int, NEW c, Reply(l, x, c) PROVE Rep(x, c)
      BY <2>1, <2>3 DEF Reply
    <2>4. \A k \in 1 .. Len(q) : lo + k - 1 \in Int
      BY <1>1, <1>2
    <2>5. \A k \in 1 .. Len(q) : Rep(lo + k - 1, q[k])
      <3> HIDE DEF Rep, lo, q
      <3> QED BY <2>2, <2>3, <2>4
    <2> QED BY <2>5 DEF BwdLink
  <1>5. SUFFICES /\ lo2 + Len(r) <= hi2 /\ (able2 => lo2 + Len(r) = hi2)
                 /\ \A k \in 1 .. Len(r) : Rep(lo2 + k - 1, r[k])
    <2>1. \A x : \A c : Layered(l, x, c)' <=> Layered(l, x, c)
      BY DEF Layered, ReplyValue
    <2> QED BY <1>5, <2>1 DEF BwdLink, Reply
  <1>6. Len(q) \in Nat
    BY <1>1
  <1>7. CASE BwdKept(l)
    <2>1. r = q /\ lo2 = lo /\ hi <= hi2 /\ (able2 => able /\ hi2 = hi)
      BY <1>7 DEF BwdKept
    <2> HIDE DEF q, r, lo, hi, lo2, hi2, able, able2, Rep
    <2>2. lo2 + Len(r) <= hi2 /\ (able2 => lo2 + Len(r) = hi2)
      BY <1>2, <1>3, <1>4, <1>6, <2>1
    <2> QED BY <1>4, <2>1, <2>2
  <1>8. CASE BwdCleared(l)
    <2>1. r = <<>> /\ lo2 <= hi2 /\ ~able2
      BY <1>8 DEF BwdCleared
    <2> HIDE DEF q, r, lo, hi, lo2, hi2, able, able2, Rep
    <2>2. Len(r) = 0
      BY <2>1
    <2> QED BY <1>3, <2>1, <2>2
  <1>9. CASE BwdTaken(l)
    <2>1. q # <<>> /\ r = Tail(q) /\ lo2 = lo + 1 /\ hi2 = hi /\ (able2 => able)
      BY <1>9 DEF BwdTaken
    <2> HIDE DEF q, r, lo, hi, lo2, hi2, able, able2, Rep
    <2>2. /\ Len(r) = Len(q) - 1
          /\ \A k \in 1 .. Len(r) : k + 1 \in 1 .. Len(q) /\ r[k] = q[k + 1]
      BY <1>1, <2>1
    <2>3. lo2 + Len(r) <= hi2 /\ (able2 => lo2 + Len(r) = hi2)
      BY <1>2, <1>3, <1>4, <1>6, <2>1, <2>2
    <2>4. ASSUME NEW k \in 1 .. Len(r) PROVE Rep(lo2 + k - 1, r[k])
      <3>1. lo + (k + 1) - 1 = lo2 + k - 1
        BY <1>2, <2>1
      <3>2. Rep(lo + (k + 1) - 1, q[k + 1])
        BY <1>4, <2>2
      <3> QED BY <2>2, <3>1, <3>2
    <2> QED BY <2>3, <2>4
  <1>10. CASE BwdWritten(l)
    <2>1. PICK c \in BwdCells :
            r = Append(q, c) /\ Rep(hi, c) /\ hi2 = hi + 1 /\ lo2 = lo /\ able
      <3>1. PICK c \in BwdCells :
              /\ bwd'[l] = Append(bwd[l], c) /\ BwdOut(l) < replies' /\ Layered(l, BwdOut(l), c)
              /\ BwdOut(l)' = BwdOut(l) + 1 /\ BwdIn(l)' = BwdIn(l) /\ BwdAble(l)
        BY <1>10 DEF BwdWritten
      <3> QED BY <3>1
    <2> HIDE DEF q, r, lo, hi, lo2, hi2, able, able2, Rep
    <2>2. /\ Len(r) = Len(q) + 1 /\ r[Len(q) + 1] = c
          /\ \A k \in 1 .. Len(q) : r[k] = q[k]
      BY <1>1, <2>1
    <2>3. lo + Len(q) = hi /\ lo2 + Len(r) = hi2
      BY <1>2, <1>3, <1>4, <1>6, <2>1, <2>2
    <2>4. ASSUME NEW k \in 1 .. Len(r) PROVE Rep(lo2 + k - 1, r[k])
      <3>1. CASE k \in 1 .. Len(q)
        BY <1>4, <2>1, <2>2, <3>1
      <3>2. CASE k = Len(q) + 1
        <4>1. lo2 + k - 1 = hi
          BY <1>2, <1>6, <2>1, <2>3, <3>2
        <4> QED BY <2>1, <2>2, <3>2, <4>1
      <3> QED BY <1>6, <2>2, <3>1, <3>2
    <2> QED BY <1>2, <1>3, <2>1, <2>3, <2>4
  <1>11. CASE BwdLost(l)
    <2>1. q # <<>> /\ r = SubSeq(q, 1, Len(q) - 1) /\ lo2 = lo /\ hi2 = hi /\ ~able2
      BY <1>11 DEF BwdLost
    <2> HIDE DEF q, r, lo, hi, lo2, hi2, able, able2, Rep
    <2>2. /\ Len(r) = Len(q) - 1
          /\ \A k \in 1 .. Len(r) : k \in 1 .. Len(q) /\ r[k] = q[k]
      BY <1>1, <2>1, FrontParts
    <2>3. lo2 + Len(r) <= hi2
      BY <1>2, <1>4, <1>6, <2>1, <2>2
    <2> QED BY <1>4, <2>1, <2>2, <2>3
  <1> QED BY <1>7, <1>8, <1>9, <1>10, <1>11 DEF BwdMove

-----------------------------------------------------------------------------
(* The values of replies.                                                  *)

\* Arithmetic of values: the next one, no offset, a sum of offsets.
LEMMA UnshiftNext ==
  ASSUME NEW x \in Values, NEW b \in Values
  PROVE  Shift(Unshift(x, b), 1) = Unshift(Shift(x, 1), b)
  BY LimitAssumption DEF Shift, Unshift, Values

LEMMA UnshiftZero ==
  ASSUME NEW x \in Values
  PROVE  Unshift(x, 0) = x
  BY LimitAssumption DEF Unshift, Values

LEMMA UnshiftSum ==
  ASSUME NEW x \in Values, NEW b \in Values, NEW o \in Values
  PROVE  /\ Unshift(Shift(x, Shift(b, o)), b) = Shift(x, o)
         /\ Unshift(x, b) = Shift(Unshift(x, Shift(b, o)), o)
  <1>1. Shift(b, o) \in Values /\ Shift(x, o) \in Values /\ Unshift(x, Shift(b, o)) \in Values
    BY ShiftValue, ValuesAreInts
  <1>2. Unshift(Shift(x, Shift(b, o)), b) = Shift(x, o)
    BY <1>1, ShiftAdds, UnshiftShift
  <1>3. PICK y \in Values : y = Unshift(x, Shift(b, o))
    BY <1>1
  <1>4. Shift(y, Shift(b, o)) = x
    BY <1>1, <1>3, UnshiftShift
  <1>5. Shift(y, o) \in Values /\ Shift(Shift(y, o), b) = Shift(y, Shift(b, o))
    BY ShiftAdds, ShiftValue, ValuesAreInts
  <1>6. Unshift(Shift(Shift(y, o), b), b) = Shift(y, o)
    BY <1>5, UnshiftShift
  <1> QED BY <1>2, <1>3, <1>4, <1>5, <1>6

\* A reply is one further on with every number, and by one hop's offset on every
\* link; on the client's link its value gives its number away.
LEMMA ReplyValues ==
  ASSUME TypeOK, NEW r \in Values, NEW l \in Hops
  PROVE  /\ ReplyValue(l, r) \in Values
         /\ Shift(ReplyValue(l, r), 1) = ReplyValue(l, r + 1)
         /\ l = N => ReplyValue(l, r) = Shift(r, circ.offset[l]["bwd"])
         /\ l < N => ReplyValue(l, r) = Shift(ReplyValue(l + 1, r), circ.offset[l]["bwd"])
         /\ ValueAt(l, "bwd", ReplyValue(1, r)) = ReplyValue(l, r)
         /\ ReplyNumber(ReplyValue(1, r)) = r
  <1> DEFINE t == circ.before[N + 1]["bwd"]
             b == circ.before[l]["bwd"]
             b2 == circ.before[l + 1]["bwd"]
             o == circ.offset[l]["bwd"]
  <1>1. l \in 1 .. N + 1 /\ l + 1 \in 1 .. N + 1 /\ N + 1 \in 1 .. N + 1 /\ "bwd" \in Directions
          /\ l \in Hops
    BY ChainAssumption DEF Hops, Directions
  <1>2. t \in Values /\ b \in Values /\ b2 \in Values /\ o \in Values
    BY <1>1, CircType DEF TypeOK
  <1>3. circ.before[1]["bwd"] = 0 /\ b2 = Shift(b, o)
    BY <1>1, ChainAssumption DEF TypeOK, RunningSums
  <1>4. ReplyValue(l, r) = Unshift(Shift(r, t), b) /\ ReplyValue(l + 1, r) = Unshift(Shift(r, t), b2)
          /\ ReplyValue(l, r + 1) = Unshift(Shift(r + 1, t), b)
    BY DEF ReplyValue
  <1>5. ReplyValue(1, r) = Unshift(Shift(r, t), 0)
    BY <1>3 DEF ReplyValue
  <1>6. ValueAt(l, "bwd", ReplyValue(1, r)) = Unshift(ReplyValue(1, r), b)
          /\ ReplyNumber(ReplyValue(1, r)) = Unshift(ReplyValue(1, r), t)
    BY DEF ValueAt, ReplyNumber
  <1>7. l = N => t = b2
    OBVIOUS
  <1> HIDE DEF t, b, b2, o
  <1>8. Shift(r, t) \in Values
    BY <1>2, ShiftValue, ValuesAreInts
  <1>9. Unshift(Shift(r, t), b) \in Values
    BY <1>2, <1>8, ShiftValue, ValuesAreInts
  <1>10. Shift(Unshift(Shift(r, t), b), 1) = Unshift(Shift(r + 1, t), b)
    <2>1. Shift(Shift(r, t), 1) = Shift(r + 1, t)
      BY <1>2, ShiftNext
    <2> QED BY <1>2, <1>8, <2>1, UnshiftNext
  <1>11. l = N => Unshift(Shift(r, t), b) = Shift(r, o)
    BY <1>2, <1>3, <1>7, UnshiftSum
  <1>12. Unshift(Shift(r, t), b) = Shift(Unshift(Shift(r, t), b2), o)
    BY <1>2, <1>3, <1>8, UnshiftSum
  <1>13. Unshift(Shift(r, t), 0) = Shift(r, t)
    BY <1>8, UnshiftZero
  <1>14. Unshift(Shift(r, t), t) = r
    BY <1>2, UnshiftShift
  <1> QED BY <1>4, <1>5, <1>6, <1>9, <1>10, <1>11, <1>12, <1>13, <1>14 DEF o

-----------------------------------------------------------------------------
(* The cell a reader finds first is the one due.                           *)

\* The data cell a hop reads is the one that is due;
LEMMA FwdHead ==
  ASSUME AnswerInv, NEW i \in Hops, FwdLink(i), FwdDue(i), Reading(i), OpensData(i, Head(fwd[i]))
  PROVE  /\ Head(fwd[i]).n = fwdSeq[i].taken
         /\ Head(fwd[i]).n # NoLayer
         /\ fwdSeq[i].taken < FwdOut(i)
         /\ Head(fwd[i]).n \in Values
         /\ Due(fwdSeq[i], Head(fwd[i]).ctr)
  <1> DEFINE c == Head(fwd[i])
  <1>1. TypeOK /\ fwd[i] \in Seq(FwdCells) /\ fwd[i] # <<>>
          /\ FwdIn(i) \in Nat /\ FwdOut(i) \in Int
    BY FwdBounds DEF AnswerInv, ExitInv, TypeOK, LinkType, Reading
  <1>2. c.n # NoLayer /\ c.ctr = ValueAt(i, "fwd", c.n)
    BY DEF OpensData
  <1>3. c.n = FwdIn(i) /\ FwdIn(i) < FwdOut(i)
    BY <1>1, <1>2, StreamRead DEF FwdLink
  <1>4. c \in Below(sent)
    BY <1>1, ReadHeld DEF AnswerInv, ExitInv, FwdHeld
  <1>5. c.n \in Values /\ c.ctr \in Values /\ c.n < sent
    BY <1>2, <1>4 DEF Below, FwdCells
  <1>6. sent \in 0 .. CellLimit /\ fwdSeq[i] \in SequenceStates
    BY <1>1 DEF TypeOK, ClientType, HopType
  <1> HIDE DEF c
  <1>7. c.n < CellLimit
    <2>1. c.n \in Int
      BY <1>5, ValuesAreInts
    <2> QED BY <1>5, <1>6, <2>1, LimitAssumption
  <1>8. Due(fwdSeq[i], c.ctr)
    BY <1>2, <1>3, <1>5, <1>7 DEF FwdDue, Due, FwdIn
  <1> QED BY <1>2, <1>3, <1>5, <1>8 DEF FwdIn, c

\* so is the reply a hop reads,
LEMMA BwdHead ==
  ASSUME AnswerInv, NEW i \in Hops, i < N, BwdLink(i + 1), BwdDue(i), bwd[i + 1] # <<>>
  PROVE  /\ Reply(i + 1, bwdSeq[i].taken, Head(bwd[i + 1]))
         /\ bwdSeq[i].taken \in Values
         /\ Due(bwdSeq[i], Head(bwd[i + 1]).ctr)
  <1> DEFINE c == Head(bwd[i + 1])
             m == bwdSeq[i].taken
  <1>1. i + 1 \in Hops
    BY ChainAssumption DEF Hops
  <1>2. TypeOK /\ bwd[i + 1] \in Seq(BwdCells) /\ m \in Nat
    <2>1. TypeOK
      BY DEF AnswerInv, ExitInv
    <2>2. bwd[i + 1] \in Seq(BwdCells) /\ bwdSeq[i] \in SequenceStates
      BY <1>1, <2>1 DEF TypeOK, LinkType, HopType
    <2> QED BY <2>1, <2>2, LimitAssumption DEF SequenceStates
  <1>3. c = bwd[i + 1][1] /\ 1 \in 1 .. Len(bwd[i + 1])
    BY <1>2
  <1>4. BwdIn(i + 1) = m
    <2>1. i + 1 # 1 /\ (i + 1) - 1 = i
      BY DEF Hops
    <2> QED BY <2>1 DEF BwdIn
  <1>5. Reply(i + 1, m, c)
    <2>1. m + 1 - 1 = m
      BY <1>2
    <2>2. Reply(i + 1, BwdIn(i + 1) + 1 - 1, bwd[i + 1][1])
      BY <1>3 DEF BwdLink
    <2> HIDE DEF c, m
    <2> QED BY <1>3, <1>4, <2>1, <2>2
  <1>6. m < replies /\ replies \in 0 .. CellLimit
    BY <1>2, <1>5 DEF Reply, TypeOK, HopType
  <1>7. m \in Values /\ m < CellLimit
    BY <1>2, <1>6, LimitAssumption DEF Values
  <1>8. c.ctr = ReplyValue(i + 1, m)
    BY <1>5 DEF Reply, Layered
  <1>9. c.ctr \in Values
    <2> HIDE DEF c, m
    <2> QED BY <1>1, <1>2, <1>7, <1>8, ReplyValues
  <1>10. Due(bwdSeq[i], c.ctr)
    BY <1>7, <1>8, <1>9 DEF BwdDue, Due
  <1> QED BY <1>5, <1>7, <1>10

\* and the client accepts the reply it reads.
LEMMA ClientHead ==
  ASSUME AnswerInv, BwdLink(1), bwd[1] # <<>>
  PROVE  OpenClass(Head(bwd[1])) = "none"
  <1> DEFINE c == Head(bwd[1])
  <1>1. 1 \in Hops
    BY ChainAssumption DEF Hops
  <1>2. TypeOK /\ bwd[1] \in Seq(BwdCells) /\ want \in Nat
    BY <1>1 DEF AnswerInv, ExitInv, TypeOK, LinkType, ClientType
  <1>3. c = bwd[1][1] /\ 1 \in 1 .. Len(bwd[1])
    BY <1>2
  <1>4. Reply(1, want, c)
    <2>1. want + 1 - 1 = want
      BY <1>2
    <2>2. Reply(1, want + 1 - 1, bwd[1][1])
      BY <1>3 DEF BwdLink, BwdIn
    <2> HIDE DEF c
    <2> QED BY <1>3, <2>1, <2>2
  <1>5. want < replies /\ replies \in 0 .. CellLimit /\ sent \in Nat /\ replies <= sent
    BY <1>2, <1>4, LimitAssumption
    DEF Reply, TypeOK, HopType, ClientType, AnswerInv, ExitInv, ExitInOrder
  <1>6. want \in Values /\ want < sent
    BY <1>2, <1>5, LimitAssumption DEF Values
  <1>7. c.ctr = ReplyValue(1, want) /\ \A l \in Hops : c.under[l] = ReplyValue(l, want)
    BY <1>4 DEF Reply, Layered, Hops
  <1> HIDE DEF c
  <1>8. OpensReply(c) /\ ReplyNumber(c.ctr) = want
    BY <1>1, <1>2, <1>6, <1>7, ReplyValues DEF OpensReply
  <1>9. ~(want >= sent)
    BY <1>2, <1>5, <1>6
  <1> QED BY <1>8, <1>9 DEF OpenClass, c

-----------------------------------------------------------------------------
(* Every step does one of these things to every link towards the exit, and *)
(* keeps the queues and the values due.                                    *)

\* What a step has to do to the cells on link l and at hop l.
FwdNext(l) == FwdMove(l) /\ FwdQueue(l)' /\ FwdDue(l)'

\* A write arrives exactly where the link can carry it.
LEMMA FwdWriteAble ==
  ASSUME NEW l, NEW o \in FwdWrite(l)
  PROVE  o = "sent" <=> FwdAble(l)
  BY DEF FwdWrite, WriteOutcomes, FwdAble

\* A hop that takes nothing keeps its queue, or loses it.
LEMMA FwdRest ==
  ASSUME circ' = circ, NEW l \in Hops, FwdQueue(l), FwdDue(l),
         fwdSeq'[l] = fwdSeq[l], fwdQ'[l] \in {fwdQ[l], <<>>}
  PROVE  FwdQueue(l)' /\ FwdDue(l)'
  <1>1. FwdDue(l)'
    BY DEF FwdDue, ValueAt
  <1>2. CASE fwdQ'[l] = fwdQ[l]
    BY <1>1, <1>2 DEF FwdQueue, OpensData, ValueAt
  <1>3. CASE fwdQ'[l] = <<>>
    BY <1>1, <1>3 DEF FwdQueue
  <1> QED BY <1>2, <1>3

\* A link none of whose ends counts anything, in a step that leaves its cells.
LEMMA FwdStill ==
  ASSUME TypeOK, circ' = circ, NEW l \in Hops, sent' = sent \/ l # 1, FwdQueue(l), FwdDue(l),
         \A i \in Hops : i \in {l, l - 1} => fwdSeq'[i] = fwdSeq[i] /\ fwdQ'[i] = fwdQ[i],
         fwd'[l] = fwd[l], FwdAble(l)' => FwdAble(l)
  PROVE  FwdNext(l)
  <1>1. l = 1 \/ l - 1 \in Hops
    BY ChainAssumption DEF Hops
  <1>2. fwdSeq'[l] = fwdSeq[l] /\ fwdQ'[l] = fwdQ[l]
          /\ (l # 1 => fwdSeq'[l - 1] = fwdSeq[l - 1] /\ fwdQ'[l - 1] = fwdQ[l - 1])
    BY <1>1
  <1>3. FwdIn(l)' = FwdIn(l) /\ FwdOut(l)' = FwdOut(l)
    BY <1>2 DEF FwdIn, FwdOut
  <1>4. FwdOut(l) <= FwdOut(l)'
    BY <1>3, FwdBounds
  <1> QED BY <1>2, <1>3, <1>4, FwdRest DEF FwdNext, FwdMove, FwdKept

\* A cell that is due is written on link l, or lost with the link.
LEMMA FwdCarried ==
  ASSUME TypeOK, NEW l \in Hops, NEW base \in [Hops -> Seq(FwdCells)], base[l] = fwd[l],
         NEW c \in FwdCells, NEW o \in FwdWrite(l), fwd' = Carry(base, l, c, o),
         OpensData(l, c), c.n = FwdOut(l), FwdIn(l)' = FwdIn(l), FwdOut(l)' = FwdOut(l) + 1,
         UNCHANGED <<near, far, line>>
  PROVE  FwdMove(l)
  <1>1. FwdAble(l)' <=> FwdAble(l)
    BY DEF FwdAble
  <1>2. FwdOut(l) \in Int
    BY FwdBounds
  <1>3. CASE o = "sent"
    <2>1. FwdAble(l) /\ fwd'[l] = Append(fwd[l], c)
      BY <1>3, FwdWriteAble DEF Carry
    <2>2. c.n # NoLayer /\ Opens(l, c)
      BY DEF OpensData, Opens
    <2>3. FwdWritten(l)
      BY <1>1, <2>1, <2>2 DEF FwdWritten
    <2> QED BY <2>3 DEF FwdMove
  <1>4. CASE o # "sent"
    <2>1. ~FwdAble(l) /\ fwd'[l] = fwd[l]
      BY <1>4, FwdWriteAble DEF Carry
    <2>2. FwdOut(l) <= FwdOut(l)'
      BY <1>2
    <2> QED BY <1>1, <2>1, <2>2 DEF FwdMove, FwdKept
  <1> QED BY <1>3, <1>4

\* The handler takes the cell due and waits for the next.
LEMMA TakesNext ==
  ASSUME AnswerInv, NEW i \in Hops, FwdLink(i), FwdDue(i), TakesData(i), circ' = circ
  PROVE  /\ fwdSeq'[i].taken = fwdSeq[i].taken + 1
         /\ FwdDue(i)'
         /\ \A j \in Hops : j # i => fwdSeq'[j] = fwdSeq[j]
  <1> DEFINE c == Head(fwd[i])
             m == fwdSeq[i].taken
             b == circ.before[i]["fwd"]
  <1>1. c.n = m /\ c.n \in Values /\ c.ctr = ValueAt(i, "fwd", c.n)
    BY FwdHead DEF TakesData, OpensData
  <1>2. fwdSeq \in [Hops -> SequenceStates]
    BY DEF AnswerInv, ExitInv, TypeOK, HopType
  <1>3. fwdSeq'[i] = Take(fwdSeq[i], c.ctr) /\ \A j \in Hops : j # i => fwdSeq'[j] = fwdSeq[j]
    BY <1>2 DEF TakesData
  <1>4. fwdSeq'[i].taken = m + 1 /\ fwdSeq'[i].next = Shift(c.ctr, 1)
    BY <1>3 DEF Take
  <1>5. b \in Values
    BY CircType, ChainAssumption DEF Hops, Directions, AnswerInv, ExitInv, TypeOK
  <1>6. Shift(c.ctr, 1) = Shift(m + 1, b)
    <2>1. c.ctr = Shift(m, b)
      BY <1>1 DEF ValueAt
    <2>2. m \in Values
      BY <1>1
    <2> HIDE DEF c, m, b
    <2> QED BY <1>5, <2>1, <2>2, ShiftNext
  <1>7. FwdDue(i)'
    BY <1>4, <1>6 DEF FwdDue, ValueAt
  <1> QED BY <1>3, <1>4, <1>7

\* A hop that ends: its link is closed, its queue gone, its onward link closed if
\* it was ever made.
LEMMA FwdEndHop ==
  ASSUME AnswerInv, Ordered, NEW i \in Hops, EndHop(i), circ' = circ, sent' = sent,
         hop[i] \in {"idle", "live"}, TypeOK',
         fwdSeq' = fwdSeq \/ TakesData(i),
         NEW l \in Hops
  PROVE  FwdNext(l)
  <1>1. TypeOK
    BY DEF AnswerInv, ExitInv
  <1>2. /\ fwdQ \in [Hops -> Seq(FwdCells)] /\ fwdSeq \in [Hops -> SequenceStates]
        /\ near \in [Hops -> LinkEnds] /\ far \in [Hops -> LinkEnds]
        /\ fwd \in [Hops -> Seq(FwdCells)]
    BY <1>1 DEF TypeOK, HopType, LinkType
  <1>3. Born(i) /\ FwdLink(i) /\ FwdQueue(i) /\ FwdDue(i) /\ FwdLink(l) /\ FwdQueue(l) /\ FwdDue(l)
    BY DEF Ordered, Births, FwdOrder
  <1>4. /\ \A j \in Hops : j # i => fwdSeq'[j] = fwdSeq[j]
        /\ FwdDue(i)'
        /\ \/ fwdSeq'[i].taken = fwdSeq[i].taken
           \/ /\ fwdSeq'[i].taken = fwdSeq[i].taken + 1
              /\ hop[i] = "live" /\ fwdSeq[i].taken < FwdOut(i)
    <2>1. CASE fwdSeq' = fwdSeq
      BY <1>3, <2>1 DEF FwdDue, ValueAt
    <2>2. CASE TakesData(i)
      <3>1. hop[i] = "live" /\ fwdSeq[i].taken < FwdOut(i)
        BY <1>3, <2>2, FwdHead DEF TakesData
      <3> QED BY <1>3, <2>2, <3>1, TakesNext
    <2> QED BY <2>1, <2>2
  <1>5. /\ fwdQ'[i] = <<>> /\ \A j \in Hops : j # i => fwdQ'[j] = fwdQ[j]
        /\ far'[i] = "closed" /\ \A j \in Hops : j # i => far'[j] = far[j]
        /\ fwd'[i] = <<>> /\ \A j \in Hops : j # i => fwd'[j] = fwd[j]
        /\ \A j \in Hops : j # i + 1 => near'[j] = near[j]
        /\ i + 1 \in Hops => near'[i + 1] = IF near[i + 1] = "open" THEN "closed" ELSE near[i + 1]
        /\ line' = line
    BY <1>2 DEF EndHop
  <1>6. /\ FwdIn(i) \in Nat /\ FwdOut(i) \in Int /\ FwdIn(l) \in Nat /\ FwdOut(l) \in Int
        /\ FwdIn(i) <= FwdOut(i)
    BY <1>1, <1>3, FwdBounds DEF FwdLink, Stream
  <1>7. i \in Int /\ l \in Int /\ (i # 1 => i - 1 \in Hops)
    BY ChainAssumption DEF Hops
  <1>8. CASE l = i
    <2>1. FwdOut(i)' = FwdOut(i)
      BY <1>4, <1>5, <1>7 DEF FwdOut
    <2>2. FwdIn(i)' <= FwdOut(i)'
      BY <1>4, <1>6, <2>1 DEF FwdIn
    <2>3. FwdMove(i)
      BY <1>5, <2>2 DEF FwdMove, FwdCleared, FwdAble
    <2>4. FwdQueue(i)'
      BY <1>5 DEF FwdQueue
    <2> QED BY <1>4, <1>8, <2>3, <2>4 DEF FwdNext
  <1>9. CASE l = i + 1
    <2>1. fwd'[l] = fwd[l] /\ fwdSeq'[l] = fwdSeq[l] /\ fwdQ'[l] = fwdQ[l] /\ far'[l] = far[l]
      BY <1>4, <1>5, <1>7, <1>9
    <2>2. FwdIn(l)' = FwdIn(l)
      BY <2>1 DEF FwdIn
    <2>3. /\ FwdOut(l) = fwdSeq[i].taken - Len(fwdQ[i])
          /\ FwdOut(l)' = fwdSeq'[i].taken - Len(fwdQ'[i])
      <3>1. l # 1 /\ l - 1 = i
        BY <1>7, <1>9 DEF Hops
      <3> QED BY <3>1 DEF FwdOut
    <2>4. Len(fwdQ'[i]) = 0 /\ Len(fwdQ[i]) \in Nat /\ fwdSeq[i].taken \in Nat
      BY <1>2, <1>5, <1>6 DEF FwdIn
    <2>5. FwdOut(l) <= FwdOut(l)'
      BY <1>4, <2>3, <2>4
    <2>6. ASSUME FwdAble(l)' PROVE FwdAble(l) /\ FwdOut(l)' = FwdOut(l)
      <3>1. near[l] = "none" /\ near'[l] = "none" /\ i < N
        <4>1. i < N
          BY <1>7, <1>9, ChainAssumption DEF Hops
        <4>2. near'[l] # "closed" /\ near'[l] = IF near[l] = "open" THEN "closed" ELSE near[l]
          BY <1>5, <1>9, <2>6 DEF FwdAble
        <4>3. near[l] \in {"none", "open", "closed"}
          BY <1>2 DEF LinkEnds
        <4> QED BY <4>1, <4>2, <4>3
      <3>2. hop[i] = "idle"
        BY <1>3, <1>9, <3>1 DEF Born, Linked, Fresh, Waits
      <3>3. fwdQ[i] = <<>>
        BY <1>3, <3>2 DEF Born, Linked, Fresh, Waits
      <3>4. fwdSeq'[i].taken = fwdSeq[i].taken
        BY <1>4, <3>2
      <3> QED BY <1>5, <2>1, <2>3, <2>6, <3>1, <3>3, <3>4 DEF FwdAble
    <2>7. FwdMove(l)
      BY <2>1, <2>2, <2>5, <2>6 DEF FwdMove, FwdKept
    <2> QED BY <1>3, <2>1, <2>7, FwdRest DEF FwdNext
  <1>10. CASE l # i /\ l # i + 1
    <2>1. \A j \in Hops : j \in {l, l - 1} => fwdSeq'[j] = fwdSeq[j] /\ fwdQ'[j] = fwdQ[j]
      BY <1>4, <1>5, <1>7, <1>10
    <2>2. fwd'[l] = fwd[l] /\ (FwdAble(l)' => FwdAble(l))
      BY <1>5, <1>10 DEF FwdAble
    <2> QED BY <1>1, <1>3, <2>1, <2>2, FwdStill
  <1> QED BY <1>8, <1>9, <1>10

\* The client's step, or one that leaves the way to the exit alone.
LEMMA FwdClientStep ==
  ASSUME AnswerInv, Ordered, NEW l \in Hops,
         ClientSend \/ ClientReceive \/ ClientEnds \/ ClientClose \/ UNCHANGED vars
  PROVE  FwdNext(l)
  <1>1. TypeOK /\ 1 \in Hops
    BY ChainAssumption DEF AnswerInv, ExitInv, Hops
  <1>2. FwdLink(l) /\ FwdQueue(l) /\ FwdDue(l)
    BY DEF Ordered, FwdOrder
  <1>3. /\ near \in [Hops -> LinkEnds] /\ fwd \in [Hops -> Seq(FwdCells)] /\ sent \in Nat
        /\ circ \in Circuits
    BY <1>1, LimitAssumption DEF TypeOK, LinkType, ClientType
  <1>4. CASE ClientReceive \/ ClientEnds \/ ClientClose \/ UNCHANGED vars
    <2>1. UNCHANGED <<circ, sent, fwdSeq, fwdQ, fwd, far, line>>
      BY <1>4 DEF ClientReceive, ClientEnds, ClientClose, vars, clientVars, hopVars, linkVars
    <2>2. near'[l] = near[l] \/ near'[l] = "closed"
      BY <1>3, <1>4 DEF ClientReceive, ClientEnds, ClientClose, vars, linkVars
    <2>3. FwdAble(l)' => FwdAble(l)
      BY <2>1, <2>2 DEF FwdAble
    <2> QED BY <1>1, <1>2, <2>1, <2>3, FwdStill
  <1>5. CASE ClientSend
    <2>1. PICK o \in FwdWrite(1) : fwd' = Carry(fwd, 1, SealForward(sent), o)
      BY <1>5 DEF ClientSend
    <2>2. UNCHANGED <<circ, fwdSeq, fwdQ, near, far, line>> /\ sent' = sent + 1 /\ sent < CellLimit
      BY <1>5 DEF ClientSend, hopVars
    <2>3. CASE l = 1
      <3>1. sent \in Values
        BY <1>3, <2>2, LimitAssumption DEF Values
      <3>2. SealForward(sent) \in FwdCells
        BY <1>3, <3>1, CellTypes
      <3>3. OpensData(1, SealForward(sent)) /\ SealForward(sent).n = sent
        <4>1. ValueAt(1, "fwd", sent) = Shift(sent, 0)
          BY <1>3, ChainAssumption DEF ValueAt, RunningSums, Directions
        <4>2. Shift(sent, 0) = sent
          BY <3>1, LimitAssumption DEF Shift, Values
        <4>3. sent # NoLayer
          BY <1>3 DEF NoLayer
        <4> QED BY <4>1, <4>2, <4>3 DEF OpensData, SealForward
      <3>4. FwdIn(1)' = FwdIn(1) /\ FwdOut(1) = sent /\ FwdOut(1)' = FwdOut(1) + 1
        BY <2>2 DEF FwdIn, FwdOut
      <3>5. FwdMove(1)
        BY <1>1, <1>3, <2>1, <2>2, <3>2, <3>3, <3>4, FwdCarried
      <3> QED BY <1>2, <2>2, <2>3, <3>5, FwdRest DEF FwdNext
    <2>4. CASE l # 1
      <3>1. fwd'[l] = fwd[l]
        BY <1>3, <2>1, <2>4 DEF Carry
      <3>2. FwdAble(l)' => FwdAble(l)
        BY <2>2 DEF FwdAble
      <3> QED BY <1>1, <1>2, <2>2, <2>4, <3>1, <3>2, FwdStill
    <2> QED BY <2>3, <2>4
  <1> QED BY <1>4, <1>5

\* A link that is closed or cut, or stalls, or loses its tail.
LEMMA FwdBreak ==
  ASSUME AnswerInv, Ordered, NEW l \in Hops, NEW i \in Hops,
         \/ Backward(i) \/ BackwardFails(i) \/ BackwardEnds(i) \/ TickBwd(i) \/ TickBwdFails(i)
         \/ Expire(i) \/ Cut(i) \/ Stall(i) \/ LoseTail(i) \/ FaultBwd(i)
  PROVE  FwdNext(l)
  <1>1. TypeOK
    BY DEF AnswerInv, ExitInv
  <1>2. FwdLink(l) /\ FwdQueue(l) /\ FwdDue(l)
    BY DEF Ordered, FwdOrder
  <1>3. /\ far \in [Hops -> LinkEnds] /\ line \in [Hops -> Lines]
        /\ fwd \in [Hops -> Seq(FwdCells)]
    BY <1>1 DEF TypeOK, LinkType
  <1>4. UNCHANGED <<circ, sent, fwdSeq, fwdQ, near>>
    BY DEF Backward, BackwardFails, BackwardEnds, TickBwd, TickBwdFails, Expire, Cut, Stall,
      LoseTail, FaultBwd, clientVars, hopVars
  <1>5. /\ \A j \in Hops : far'[j] = far[j] \/ far'[j] = "closed"
        /\ \A j \in Hops : line'[j] = line[j] \/ line[j] # "cut"
        /\ \A j \in Hops : FwdAble(j)' => FwdAble(j)
    <2>1. \A j \in Hops : far'[j] = far[j] \/ far'[j] = "closed"
      BY <1>3 DEF Backward, BackwardFails, BackwardEnds, EndBackward, TickBwd, TickBwdFails,
        Expire, Cut, Stall, LoseTail, FaultBwd
    <2>2. \A j \in Hops : line'[j] = line[j] \/ line'[j] = "cut" \/ line[j] = "up"
      BY <1>3 DEF Backward, BackwardFails, BackwardEnds, TickBwd, TickBwdFails,
        Expire, Cut, Stall, LoseTail, FaultBwd
    <2> QED BY <1>4, <2>1, <2>2 DEF FwdAble
  <1>6. CASE fwd'[l] = fwd[l]
    BY <1>1, <1>2, <1>4, <1>5, <1>6, FwdStill
  <1>7. CASE fwd'[l] # fwd[l]
    <2>1. FwdIn(l)' = FwdIn(l) /\ FwdOut(l)' = FwdOut(l)
      BY <1>4 DEF FwdIn, FwdOut
    <2>2. FwdIn(l)' <= FwdOut(l)'
      BY <1>2, <2>1 DEF FwdLink, Stream
    <2>3. \/ fwd'[l] = <<>> /\ (far'[l] = "closed" \/ line'[l] = "cut")
          \/ fwd[l] # <<>> /\ near[l] = "closed" /\ fwd'[l] = SubSeq(fwd[l], 1, Len(fwd[l]) - 1)
      BY <1>3, <1>7 DEF Backward, BackwardFails, BackwardEnds, EndBackward, TickBwd, TickBwdFails,
        Expire, Cut, Stall, LoseTail, FaultBwd
    <2>4. FwdMove(l)
      BY <1>4, <2>1, <2>2, <2>3 DEF FwdMove, FwdCleared, FwdLost, FwdAble
    <2> QED BY <1>2, <1>4, <2>4, FwdRest DEF FwdNext
  <1> QED BY <1>6, <1>7

\* A faulty hop that only makes up cells nobody sealed.
LEMMA FwdFault ==
  ASSUME AnswerInv, Orderly, Ordered, NEW l \in Hops, NEW i \in Hops, FaultFwd(i)
  PROVE  FwdNext(l)
  <1>1. TypeOK /\ i + 1 \in Hops
    BY ChainAssumption DEF AnswerInv, ExitInv, FaultFwd, Hops
  <1>2. FwdLink(l) /\ FwdQueue(l) /\ FwdDue(l)
    BY DEF Ordered, FwdOrder
  <1>3. fwd \in [Hops -> Seq(FwdCells)]
    BY <1>1 DEF TypeOK, LinkType
  <1>4. UNCHANGED <<circ, sent, fwdSeq, fwdQ, near, far, line>>
    BY DEF FaultFwd, clientVars, hopVars
  <1>5. FwdAble(l)' => FwdAble(l)
    BY <1>4 DEF FwdAble
  <1>6. FaultKinds \subseteq {"fwdJunk"}
    BY DEF Orderly, FaultFwd
  <1>7. PICK c \in FwdJunk : fwd' = [fwd EXCEPT ![i + 1] = Append(fwd[i + 1], c)]
    <2>1. PICK q \in Disturbed(fwd[i + 1]) \cup FwdForged(fwd[i + 1]) :
            fwd' = [fwd EXCEPT ![i + 1] = q]
      BY DEF FaultFwd
    <2>2. {"lose", "copy", "swap", "restamp"} \cap FaultKinds = {}
      BY <1>6
    <2>3. Disturbed(fwd[i + 1]) = {}
      BY <2>2 DEF Disturbed
    <2>4. \E c \in FwdJunk : q = Append(fwd[i + 1], c)
      BY <2>1, <2>2, <2>3 DEF FwdForged
    <2> QED BY <2>1, <2>4
  <1>8. c \in FwdCells /\ c.n = NoLayer /\ Opens(l, c)
    BY ChainAssumption DEF FwdJunk, FwdCells, Opens
  <1>9. CASE l = i + 1
    <2>1. FwdIn(l)' = FwdIn(l) /\ FwdOut(l)' = FwdOut(l)
      BY <1>4 DEF FwdIn, FwdOut
    <2>2. fwd'[l] = Append(fwd[l], c)
      BY <1>1, <1>3, <1>7, <1>9
    <2>3. FwdMove(l)
      BY <1>5, <1>8, <2>1, <2>2 DEF FwdMove, FwdWritten
    <2> QED BY <1>2, <1>4, <2>3, FwdRest DEF FwdNext
  <1>10. CASE l # i + 1
    BY <1>1, <1>2, <1>3, <1>4, <1>5, <1>7, <1>10, FwdStill
  <1> QED BY <1>9, <1>10

\* The setup is read, and written on the link it makes.
LEMMA FwdSetup ==
  ASSUME AnswerInv, Ordered, NEW l \in Hops, NEW i \in Hops, HandleSetup(i)
  PROVE  FwdNext(l)
  <1>1. TypeOK
    BY DEF AnswerInv, ExitInv
  <1>2. /\ Born(i) /\ FwdLink(l) /\ FwdQueue(l) /\ FwdDue(l)
        /\ i + 1 \in Hops => Born(i + 1)
    BY DEF Ordered, Births, FwdOrder
  <1>3. /\ fwd \in [Hops -> Seq(FwdCells)] /\ fwdSeq \in [Hops -> SequenceStates]
        /\ near \in [Hops -> LinkEnds] /\ far \in [Hops -> LinkEnds]
    BY <1>1 DEF TypeOK, LinkType, HopType
  <1>4. UNCHANGED <<circ, sent, fwdQ, line>> /\ hop[i] = "idle" /\ fwd[i] # <<>>
          /\ OpensSetup(i, Head(fwd[i]))
    BY DEF HandleSetup, Reading, clientVars
  <1>5. fwdSeq[i] = NewSequence /\ (i < N => near[i + 1] = "none" /\ far[i + 1] = "none")
    BY <1>2, <1>4 DEF Born, Linked, Fresh, Waits
  <1>6. /\ fwd'[i] = Tail(fwd[i])
        /\ \A j \in Hops : j # i /\ j # i + 1 => fwd'[j] = fwd[j]
        /\ i + 1 \in Hops => fwd'[i + 1] = <<SetupCell(i + 1)>>
    <2>1. CASE i = N
      <3>1. i + 1 \notin Hops
        BY <2>1, ChainAssumption DEF Hops
      <3> QED BY <1>3, <2>1, <3>1 DEF HandleSetup
    <2>2. CASE i # N
      <3>1. i + 1 \in Hops /\ i + 1 # i
        BY <2>2, ChainAssumption DEF Hops
      <3> QED BY <1>3, <2>2, <3>1 DEF HandleSetup
    <2> QED BY <2>1, <2>2
  <1>7. /\ \A j \in Hops : fwdSeq'[j].taken = fwdSeq[j].taken
        /\ \A j \in Hops : FwdDue(j)'
    <2>1. \A j \in Hops : FwdDue(j)
      BY DEF Ordered, FwdOrder
    <2>2. CASE i # N
      <3>1. fwdSeq' = fwdSeq
        BY <2>2 DEF HandleSetup
      <3> QED BY <1>4, <2>1, <3>1 DEF FwdDue, ValueAt
    <2>3. CASE i = N
      <3>1. fwdSeq'[i] = [next |-> FirstForward, taken |-> 0, seeded |-> TRUE]
              /\ \A j \in Hops : j # i => fwdSeq'[j] = fwdSeq[j]
        BY <1>3, <1>5, <2>3, ExpectFresh DEF HandleSetup
      <3>2. FirstForward = ValueAt(i, "fwd", 0)
        BY <1>1, <2>3, FirstForwardType, ShiftZero DEF FirstForward, ValueAt
      <3>3. ValueAt(i, "fwd", 0)' = ValueAt(i, "fwd", 0)
        BY <1>4 DEF ValueAt
      <3>4. FwdDue(i)'
        BY <1>4, <3>1, <3>2, <3>3 DEF FwdDue, ValueAt
      <3>5. \A j \in Hops : j # i => FwdDue(j)'
        BY <1>4, <2>1, <3>1 DEF FwdDue, ValueAt
      <3>6. fwdSeq[i].taken = 0
        BY <1>5 DEF NewSequence
      <3> QED BY <3>1, <3>4, <3>5, <3>6
    <2> QED BY <2>2, <2>3
  <1>8. FwdQueue(l)'
    BY <1>2, <1>4, <1>7 DEF FwdQueue, OpensData, ValueAt
  <1>9. FwdIn(l)' = FwdIn(l) /\ FwdOut(l)' = FwdOut(l) /\ FwdOut(l) <= FwdOut(l)'
    <2>1. l = 1 \/ l - 1 \in Hops
      BY ChainAssumption DEF Hops
    <2>2. FwdIn(l)' = FwdIn(l) /\ FwdOut(l)' = FwdOut(l)
      BY <1>4, <1>7, <2>1 DEF FwdIn, FwdOut
    <2> QED BY <1>1, <2>2, FwdBounds
  <1>10. FwdAble(l)' <=> FwdAble(l)
    <2>1. \/ near' = near /\ far' = far
          \/ i < N /\ near' = [near EXCEPT ![i + 1] = "open"] /\ far' = [far EXCEPT ![i + 1] = "open"]
      BY ChainAssumption DEF HandleSetup, Hops
    <2>2. (near'[l] = "closed" <=> near[l] = "closed") /\ (far'[l] = "closed" <=> far[l] = "closed")
      BY <1>3, <1>5, <2>1
    <2> QED BY <1>4, <2>2 DEF FwdAble
  <1>11. FwdMove(l)
    <2>1. CASE l = i
      <3>1. Head(fwd[i]).n = NoLayer
        <4>1. Opens(i, Head(fwd[i]))
          <5>1. Head(fwd[i]) = fwd[i][1] /\ 1 \in 1 .. Len(fwd[i])
            BY <1>3, <1>4
          <5> QED BY <1>2, <2>1, <5>1 DEF FwdLink
        <4> QED BY <1>4, <4>1 DEF Opens, OpensData, OpensSetup
      <3>2. hop'[i] # "idle"
        BY <1>1 DEF HandleSetup, TypeOK, HopType
      <3> QED BY <1>4, <1>6, <1>9, <1>10, <2>1, <3>1, <3>2 DEF FwdMove, FwdTaken
    <2>2. CASE l = i + 1
      <3>1. i < N
        BY <2>2, ChainAssumption DEF Hops
      <3>2. fwd[l] = <<>>
        BY <1>2, <1>5, <2>2, <3>1 DEF Born, Linked, Fresh, Waits
      <3>3. fwd'[l] = Append(fwd[l], SetupCell(l))
        BY <1>6, <2>2, <3>2
      <3>4. SetupCell(l) \in FwdCells /\ SetupCell(l).n = NoLayer /\ Opens(l, SetupCell(l))
        BY <1>1, CellTypes DEF TypeOK, SetupCell, Opens
      <3> QED BY <1>9, <1>10, <3>3, <3>4 DEF FwdMove, FwdWritten
    <2>3. CASE l # i /\ l # i + 1
      BY <1>6, <1>9, <1>10, <2>3 DEF FwdMove, FwdKept
    <2> QED BY <2>1, <2>2, <2>3
  <1> QED BY <1>7, <1>8, <1>11 DEF FwdNext

\* A cell dropped without a trace carries no number.
LEMMA StrayUnsealed ==
  ASSUME AnswerInv, Ordered, NEW i \in Hops, HandleStray(i)
  PROVE  Head(fwd[i]).n = NoLayer
  <1>1. TypeOK
    BY DEF AnswerInv, ExitInv
  <1>2. Born(i) /\ FwdLink(i)
    BY DEF Ordered, Births, FwdOrder
  <1>3. fwd[i] \in Seq(FwdCells) /\ fwd[i] # <<>>
    BY <1>1 DEF TypeOK, LinkType, HandleStray, Reading
  <1>4. Head(fwd[i]) = fwd[i][1] /\ 1 \in 1 .. Len(fwd[i])
    BY <1>3
  <1>5. Opens(i, Head(fwd[i]))
    BY <1>2, <1>4 DEF FwdLink
  <1>6. CASE hop[i] = "live"
    BY <1>5, <1>6 DEF HandleStray, Opens, OpensData
  <1>7. CASE hop[i] = "idle"
    <2>1. Head(fwd[i]).kind = "data"
      BY <1>7 DEF HandleStray
    <2>2. Head(fwd[i]) # SetupCell(i)
      BY <2>1 DEF SetupCell
    <2> QED BY <1>2, <1>4, <1>7, <2>2 DEF Born, Linked, Fresh, Waits
  <1> QED BY <1>6, <1>7 DEF HandleStray, Reading

\* A cell that is dropped was sealed by nobody: the order goes on.
LEMMA FwdStray ==
  ASSUME AnswerInv, Ordered, NEW l \in Hops, NEW i \in Hops, HandleStray(i)
  PROVE  FwdNext(l)
  <1>1. TypeOK
    BY DEF AnswerInv, ExitInv
  <1>2. FwdLink(l) /\ FwdQueue(l) /\ FwdDue(l)
    BY DEF Ordered, FwdOrder
  <1>3. fwd \in [Hops -> Seq(FwdCells)]
    BY <1>1 DEF TypeOK, LinkType
  <1>4. UNCHANGED <<circ, sent, fwdSeq, fwdQ, near, far, line>>
          /\ fwd' = [fwd EXCEPT ![i] = Tail(@)] /\ fwd[i] # <<>>
    BY DEF HandleStray, Reading, clientVars, hopVars
  <1>5. FwdAble(l)' => FwdAble(l)
    BY <1>4 DEF FwdAble
  <1>6. CASE l = i
    <2>1. FwdIn(l)' = FwdIn(l) /\ FwdOut(l)' = FwdOut(l) /\ fwd'[l] = Tail(fwd[l])
      BY <1>3, <1>4, <1>6 DEF FwdIn, FwdOut
    <2>2. Head(fwd[l]).n = NoLayer /\ (Head(fwd[l]) = SetupCell(l) => hop'[l] # "idle")
      <3>1. Head(fwd[l]) = SetupCell(l) => hop[l] = "live" /\ hop' = hop
        BY <1>6 DEF HandleStray, SetupCell, hopVars
      <3> QED BY <1>6, <3>1, StrayUnsealed
    <2>3. FwdMove(l)
      BY <1>4, <1>5, <1>6, <2>1, <2>2 DEF FwdMove, FwdTaken
    <2> QED BY <1>2, <1>4, <2>3, FwdRest DEF FwdNext
  <1>7. CASE l # i
    BY <1>1, <1>2, <1>3, <1>4, <1>5, <1>7, FwdStill
  <1> QED BY <1>6, <1>7

\* A relay takes a layer off and the next hop can open the one below.
LEMMA PeelOpens ==
  ASSUME TypeOK, NEW i \in Hops, i < N, NEW c \in FwdCells, OpensData(i, c)
  PROVE  OpensData(i + 1, Peel(i, c)) /\ Peel(i, c).n = c.n /\ Peel(i, c) \in FwdCells
  <1> DEFINE b == circ.before[i]["fwd"]
             o == circ.offset[i]["fwd"]
  <1>1. i \in 1 .. N + 1 /\ "fwd" \in Directions
    BY ChainAssumption DEF Hops, Directions
  <1>2. b \in Values /\ o \in Values /\ circ.before[i + 1]["fwd"] = Shift(b, o)
    BY <1>1, CircType, ChainAssumption DEF TypeOK, RunningSums
  <1>3. c.n \in Values /\ c.ctr = Shift(c.n, b)
    BY DEF OpensData, ValueAt, FwdCells
  <1>4. Shift(c.ctr, o) = Shift(c.n, Shift(b, o))
    <2> HIDE DEF b, o
    <2>1. Shift(Shift(c.n, b), o) = Shift(Shift(c.n, o), b)
      BY <1>2, <1>3, ShiftCommutes
    <2> QED BY <1>2, <1>3, <2>1, ShiftAdds
  <1>5. Peel(i, c) \in FwdCells
    BY CellTypes DEF TypeOK
  <1>6. Peel(i, c).kind = "data" /\ Peel(i, c).layer = i + 1 /\ Peel(i, c).n = c.n
          /\ Peel(i, c).ctr = Shift(c.ctr, o)
    BY DEF Peel, OpensData, FwdCells
  <1>7. c.n # NoLayer
    BY DEF OpensData
  <1> QED BY <1>2, <1>4, <1>5, <1>6, <1>7 DEF OpensData, ValueAt

\* The cell just taken joins the pacer queue.
LEMMA QueueAppends ==
  ASSUME TypeOK, circ' = circ, NEW i \in Hops, i < N, i \in Paced, FwdQueue(i), NEW c \in FwdCells,
         OpensData(i + 1, c), c.n = fwdSeq[i].taken,
         fwdSeq'[i].taken = fwdSeq[i].taken + 1, fwdQ'[i] = Append(fwdQ[i], c)
  PROVE  FwdQueue(i)'
  <1> DEFINE q == fwdQ[i]
             r == fwdQ'[i]
             m == fwdSeq[i].taken
  <1>1. q \in Seq(FwdCells) /\ fwdSeq[i] \in SequenceStates
    BY DEF TypeOK, HopType
  <1>2. m \in Nat
    BY <1>1, LimitAssumption DEF SequenceStates
  <1>3. /\ Len(q) \in Nat /\ Len(r) = Len(q) + 1 /\ r[Len(q) + 1] = c
        /\ \A k \in 1 .. Len(q) : r[k] = q[k]
    BY <1>1
  <1>4. \A k \in 1 .. Len(q) : q[k].n = m - Len(q) + k - 1 /\ OpensData(i + 1, q[k])
    BY DEF FwdQueue
  <1>5. ASSUME NEW k \in 1 .. Len(r)
        PROVE  r[k].n = (m + 1) - Len(r) + k - 1 /\ OpensData(i + 1, r[k])
    <2> HIDE DEF q, r, m
    <2>1. CASE k \in 1 .. Len(q)
      <3>1. (m + 1) - Len(r) + k - 1 = m - Len(q) + k - 1
        BY <1>2, <1>3, <2>1
      <3> QED BY <1>3, <1>4, <2>1, <3>1
    <2>2. CASE k = Len(q) + 1
      <3>1. (m + 1) - Len(r) + k - 1 = m
        BY <1>2, <1>3, <2>2
      <3> QED BY <1>3, <2>2, <3>1 DEF m
    <2> QED BY <1>3, <2>1, <2>2
  <1>6. \A d : OpensData(i + 1, d)' <=> OpensData(i + 1, d)
    BY DEF OpensData, ValueAt
  <1> QED BY <1>5, <1>6 DEF FwdQueue

\* A tick takes the cell that is due next on the link.
LEMMA QueueTail ==
  ASSUME TypeOK, circ' = circ, NEW i \in Hops, FwdQueue(i), fwdQ[i] # <<>>,
         fwdSeq'[i] = fwdSeq[i], fwdQ'[i] = Tail(fwdQ[i])
  PROVE  /\ FwdQueue(i)'
         /\ Len(fwdQ'[i]) = Len(fwdQ[i]) - 1 /\ Len(fwdQ[i]) \in Nat
         /\ Head(fwdQ[i]) \in FwdCells
         /\ OpensData(i + 1, Head(fwdQ[i]))
         /\ Head(fwdQ[i]).n = fwdSeq[i].taken - Len(fwdQ[i])
  <1> DEFINE q == fwdQ[i]
             r == fwdQ'[i]
             m == fwdSeq[i].taken
  <1>1. q \in Seq(FwdCells) /\ fwdSeq[i] \in SequenceStates
    BY DEF TypeOK, HopType
  <1>2. m \in Nat
    BY <1>1, LimitAssumption DEF SequenceStates
  <1>3. /\ Len(q) \in Nat /\ Len(r) = Len(q) - 1 /\ Head(q) = q[1] /\ 1 \in 1 .. Len(q)
        /\ Head(q) \in FwdCells
        /\ \A k \in 1 .. Len(r) : k + 1 \in 1 .. Len(q) /\ r[k] = q[k + 1]
    BY <1>1
  <1>4. \A k \in 1 .. Len(q) : q[k].n = m - Len(q) + k - 1 /\ OpensData(i + 1, q[k])
    BY DEF FwdQueue
  <1>5. ASSUME NEW k \in 1 .. Len(r)
        PROVE  r[k].n = m - Len(r) + k - 1 /\ OpensData(i + 1, r[k])
    <2> HIDE DEF q, r, m
    <2>1. m - Len(q) + (k + 1) - 1 = m - Len(r) + k - 1
      BY <1>2, <1>3
    <2> QED BY <1>3, <1>4, <2>1
  <1>6. \A d : OpensData(i + 1, d)' <=> OpensData(i + 1, d)
    BY DEF OpensData, ValueAt
  <1>7. FwdQueue(i)'
    BY <1>5, <1>6 DEF FwdQueue
  <1>8. Head(q).n = m - Len(q) /\ OpensData(i + 1, Head(q))
    <2> HIDE DEF q, m
    <2>1. m - Len(q) + 1 - 1 = m - Len(q)
      BY <1>2, <1>3
    <2> QED BY <1>3, <1>4, <2>1
  <1> QED BY <1>3, <1>7, <1>8

\* The cell due goes on to the next hop, or into the queue.
LEMMA FwdForward ==
  ASSUME AnswerInv, Ordered, NEW l \in Hops, NEW i \in Hops, HandleForward(i)
  PROVE  FwdNext(l)
  <1> DEFINE c == Head(fwd[i])
             out == Peel(i, c)
             rest == [fwd EXCEPT ![i] = Tail(@)]
  <1>1. TypeOK /\ i + 1 \in Hops /\ i < N /\ i + 1 # 1 /\ i + 1 # i /\ (i + 1) - 1 = i
    BY ChainAssumption DEF AnswerInv, ExitInv, HandleForward, Hops
  <1>2. FwdLink(i) /\ FwdQueue(i) /\ FwdDue(i) /\ FwdLink(l) /\ FwdQueue(l) /\ FwdDue(l)
    BY DEF Ordered, FwdOrder
  <1>3. /\ fwd \in [Hops -> Seq(FwdCells)] /\ fwdQ \in [Hops -> Seq(FwdCells)]
        /\ fwdSeq[i] \in SequenceStates
    BY <1>1 DEF TypeOK, LinkType, HopType
  <1>4. UNCHANGED <<circ, sent, near, far, line>> /\ TakesData(i) /\ fwd[i] # <<>>
          /\ OpensData(i, c) /\ Reading(i)
    BY DEF HandleForward, TakesData, Reading, clientVars
  <1>5. /\ fwdSeq'[i].taken = fwdSeq[i].taken + 1 /\ FwdDue(i)'
        /\ \A j \in Hops : j # i => fwdSeq'[j] = fwdSeq[j]
    BY <1>2, <1>4, TakesNext
  <1>6. c.n = fwdSeq[i].taken /\ c.n # NoLayer
    BY <1>2, <1>4, FwdHead
  <1>7. c \in FwdCells /\ rest \in [Hops -> Seq(FwdCells)]
    BY <1>1, <1>4, ReadingType
  <1>8. OpensData(i + 1, out) /\ out.n = c.n /\ out \in FwdCells
    BY <1>1, <1>4, <1>7, PeelOpens
  <1>9. rest[i] = Tail(fwd[i]) /\ \A j \in Hops : j # i => rest[j] = fwd[j]
    BY <1>3
  <1>10. fwdSeq[i].taken \in Nat /\ Len(fwdQ[i]) \in Nat
    BY <1>3, LimitAssumption DEF SequenceStates
  <1>11. \A j \in Hops : FwdAble(j)' <=> FwdAble(j)
    BY <1>4 DEF FwdAble
  <1>12. /\ \A j \in Hops : j # i => fwdQ'[j] = fwdQ[j]
         /\ \/ /\ i \in Paced /\ fwdQ'[i] = Append(fwdQ[i], out) /\ fwd' = rest
            \/ /\ i \notin Paced /\ fwdQ'[i] = fwdQ[i]
               /\ \E o \in FwdWrite(i + 1) : fwd' = Carry(rest, i + 1, out, o)
    BY <1>3 DEF HandleForward
  <1> HIDE DEF c, out, rest
  <1>13. fwd'[i] = Tail(fwd[i]) /\ \A j \in Hops : j # i /\ j # i + 1 => fwd'[j] = fwd[j]
    BY <1>1, <1>7, <1>9, <1>12 DEF Carry
  <1>14. FwdQueue(i)'
    <2>1. CASE i \in Paced
      BY <1>1, <1>2, <1>4, <1>5, <1>6, <1>8, <1>12, <2>1, QueueAppends
    <2>2. CASE i \notin Paced
      <3>1. fwdQ'[i] = <<>>
        BY <1>2, <1>12, <2>2 DEF FwdQueue
      <3> QED BY <3>1 DEF FwdQueue
    <2> QED BY <2>1, <2>2
  <1>15. CASE l = i
    <2>1. FwdIn(i)' = FwdIn(i) + 1
      BY <1>5 DEF FwdIn
    <2>2. FwdOut(i)' = FwdOut(i)
      <3>1. i = 1 \/ (i - 1 \in Hops /\ i - 1 # i)
        BY ChainAssumption DEF Hops
      <3> QED BY <1>4, <1>5, <1>12, <3>1 DEF FwdOut
    <2>3. FwdMove(i)
      BY <1>4, <1>6, <1>11, <1>13, <2>1, <2>2 DEF FwdMove, FwdTaken, SetupCell, c
    <2> QED BY <1>5, <1>14, <1>15, <2>3 DEF FwdNext
  <1>16. CASE l = i + 1
    <2>1. fwdSeq'[l] = fwdSeq[l] /\ fwdQ'[l] = fwdQ[l]
      BY <1>1, <1>5, <1>12, <1>16
    <2>2. FwdIn(l)' = FwdIn(l)
      BY <2>1 DEF FwdIn
    <2>3. /\ FwdOut(l) = fwdSeq[i].taken - Len(fwdQ[i])
          /\ FwdOut(l)' = fwdSeq'[i].taken - Len(fwdQ'[i])
      BY <1>1, <1>16 DEF FwdOut
    <2>4. FwdMove(l)
      <3>1. CASE i \in Paced
        <4>1. Len(fwdQ'[i]) = Len(fwdQ[i]) + 1
          BY <1>3, <1>8, <1>12, <3>1
        <4>2. FwdOut(l)' = FwdOut(l) /\ FwdOut(l) <= FwdOut(l)'
          BY <1>5, <1>10, <2>3, <4>1
        <4>3. fwd'[l] = fwd[l]
          BY <1>1, <1>9, <1>12, <1>16, <3>1
        <4> QED BY <1>11, <2>2, <4>2, <4>3 DEF FwdMove, FwdKept
      <3>2. CASE i \notin Paced
        <4>1. PICK o \in FwdWrite(l) : fwd' = Carry(rest, l, out, o)
          BY <1>12, <1>16, <3>2
        <4>2. Len(fwdQ[i]) = 0 /\ Len(fwdQ'[i]) = 0
          BY <1>2, <1>12, <3>2 DEF FwdQueue
        <4>3. FwdOut(l) = out.n /\ FwdOut(l)' = FwdOut(l) + 1
          BY <1>5, <1>6, <1>8, <1>10, <2>3, <4>2
        <4>4. rest[l] = fwd[l] /\ OpensData(l, out)
          BY <1>1, <1>8, <1>9, <1>16
        <4> QED BY <1>1, <1>4, <1>7, <1>8, <2>2, <4>1, <4>3, <4>4, FwdCarried
      <3> QED BY <3>1, <3>2
    <2> QED BY <1>2, <1>4, <2>1, <2>4, FwdRest DEF FwdNext
  <1>17. CASE l # i /\ l # i + 1
    <2>1. \A j \in Hops : j \in {l, l - 1} => fwdSeq'[j] = fwdSeq[j] /\ fwdQ'[j] = fwdQ[j]
      <3>1. i \notin {l, l - 1}
        BY <1>17 DEF Hops
      <3> QED BY <1>5, <1>12, <3>1
    <2> QED BY <1>1, <1>2, <1>4, <1>11, <1>13, <1>17, <2>1, FwdStill
  <1> QED BY <1>15, <1>16, <1>17

\* The exit takes its cell and passes none on.
LEMMA FwdDeliver ==
  ASSUME AnswerInv, Ordered, NEW l \in Hops, NEW i \in Hops, HandleDeliver(i)
  PROVE  FwdNext(l)
  <1>1. TypeOK /\ i = N
    BY DEF AnswerInv, ExitInv, HandleDeliver
  <1>2. FwdLink(i) /\ FwdQueue(i) /\ FwdDue(i) /\ FwdLink(l) /\ FwdQueue(l) /\ FwdDue(l)
    BY DEF Ordered, FwdOrder
  <1>3. fwd \in [Hops -> Seq(FwdCells)]
    BY <1>1 DEF TypeOK, LinkType
  <1>4. /\ UNCHANGED <<circ, sent, fwdQ, near, far, line>> /\ TakesData(i) /\ fwd[i] # <<>>
        /\ OpensData(i, Head(fwd[i])) /\ Reading(i)
        /\ fwd'[i] = Tail(fwd[i]) /\ \A j \in Hops : j # i => fwd'[j] = fwd[j]
    BY <1>3 DEF HandleDeliver, TakesData, Reading, clientVars
  <1>5. /\ fwdSeq'[i].taken = fwdSeq[i].taken + 1 /\ FwdDue(i)'
        /\ \A j \in Hops : j # i => fwdSeq'[j] = fwdSeq[j]
    BY <1>2, <1>4, TakesNext
  <1>6. Head(fwd[i]).n # NoLayer
    BY <1>2, <1>4, FwdHead
  <1>7. FwdAble(l)' => FwdAble(l)
    BY <1>4 DEF FwdAble
  <1>8. CASE l = i
    <2>1. FwdIn(i)' = FwdIn(i) + 1
      BY <1>5 DEF FwdIn
    <2>2. FwdOut(i)' = FwdOut(i)
      <3>1. i = 1 \/ (i - 1 \in Hops /\ i - 1 # i)
        BY ChainAssumption DEF Hops
      <3> QED BY <1>4, <1>5, <3>1 DEF FwdOut
    <2>3. FwdMove(i)
      BY <1>4, <1>6, <1>7, <1>8, <2>1, <2>2 DEF FwdMove, FwdTaken, SetupCell
    <2>4. fwdQ'[i] = <<>>
      BY <1>1, <1>2, <1>4, ChainAssumption DEF FwdQueue
    <2>5. FwdQueue(i)'
      BY <2>4 DEF FwdQueue
    <2> QED BY <1>5, <1>8, <2>3, <2>5 DEF FwdNext
  <1>9. CASE l # i
    <2>1. \A j \in Hops : j \in {l, l - 1} => fwdSeq'[j] = fwdSeq[j] /\ fwdQ'[j] = fwdQ[j]
      <3>1. i \notin {l, l - 1}
        BY <1>1, <1>9, ChainAssumption DEF Hops
      <3> QED BY <1>4, <1>5, <3>1
    <2> QED BY <1>1, <1>2, <1>4, <1>7, <1>9, <2>1, FwdStill
  <1> QED BY <1>8, <1>9

\* The pacer sends the head of its queue, or closes the link.
LEMMA FwdTick ==
  ASSUME AnswerInv, Ordered, NEW l \in Hops, NEW i \in Hops, TickFwd(i) \/ TickFwdFails(i)
  PROVE  FwdNext(l)
  <1>1. TypeOK /\ i + 1 \in Hops /\ i + 1 # 1 /\ i + 1 # i /\ (i + 1) - 1 = i
    BY ChainAssumption DEF AnswerInv, ExitInv, TickFwd, TickFwdFails, Hops
  <1>2. FwdLink(i) /\ FwdQueue(i) /\ FwdDue(i) /\ FwdLink(l) /\ FwdQueue(l) /\ FwdDue(l)
    BY DEF Ordered, FwdOrder
  <1>3. /\ fwd \in [Hops -> Seq(FwdCells)] /\ fwdQ \in [Hops -> Seq(FwdCells)]
        /\ near \in [Hops -> LinkEnds] /\ fwdSeq[i] \in SequenceStates
    BY <1>1 DEF TypeOK, LinkType, HopType
  <1>4. /\ UNCHANGED <<circ, sent, fwdSeq, far, line>>
        /\ \A j \in Hops : j # i => fwdQ'[j] = fwdQ[j]
        /\ \A j \in Hops : j # i + 1 => fwd'[j] = fwd[j]
        /\ fwdQ'[i] = fwdQ[i] \/ (fwdQ[i] # <<>> /\ fwdQ'[i] = Tail(fwdQ[i]))
        /\ \A j \in Hops : near'[j] = near[j] \/ near'[j] = "closed"
    BY <1>1, <1>3 DEF TickFwd, TickFwdFails, Carry, clientVars
  <1>5. \A j \in Hops : FwdAble(j)' => FwdAble(j)
    BY <1>4 DEF FwdAble
  <1>6. fwdSeq[i].taken \in Nat /\ Len(fwdQ[i]) \in Nat
    BY <1>3, LimitAssumption DEF SequenceStates
  <1>7. /\ FwdQueue(i)' /\ FwdDue(i)'
        /\ Len(fwdQ'[i]) \in {Len(fwdQ[i]), Len(fwdQ[i]) - 1}
    <2>1. CASE fwdQ'[i] = fwdQ[i]
      BY <1>2, <1>4, <2>1, FwdRest
    <2>2. CASE fwdQ[i] # <<>> /\ fwdQ'[i] = Tail(fwdQ[i])
      <3>1. FwdDue(i)'
        BY <1>2, <1>4 DEF FwdDue, ValueAt
      <3> QED BY <1>1, <1>2, <1>4, <2>2, <3>1, QueueTail
    <2> QED BY <1>4, <2>1, <2>2
  <1>8. CASE l = i + 1
    <2>1. fwdQ'[l] = fwdQ[l] /\ fwdSeq'[l] = fwdSeq[l]
      BY <1>1, <1>4, <1>8
    <2>2. FwdIn(l)' = FwdIn(l)
      BY <2>1 DEF FwdIn
    <2>3. /\ FwdOut(l) = fwdSeq[i].taken - Len(fwdQ[i])
          /\ FwdOut(l)' = fwdSeq[i].taken - Len(fwdQ'[i])
      BY <1>1, <1>4, <1>8 DEF FwdOut
    <2>4. CASE TickFwdFails(i)
      <3>1. FwdOut(l) <= FwdOut(l)'
        BY <1>6, <1>7, <2>3
      <3>2. fwd'[l] = fwd[l] /\ near'[l] = "closed"
        BY <1>1, <1>3, <1>8, <2>4 DEF TickFwdFails
      <3>3. FwdMove(l)
        BY <2>2, <3>1, <3>2 DEF FwdMove, FwdKept, FwdAble
      <3> QED BY <1>2, <1>4, <2>1, <3>3, FwdRest DEF FwdNext
    <2>5. CASE TickFwd(i)
      <3>1. fwdQ[i] # <<>> /\ fwdQ'[i] = Tail(fwdQ[i]) /\ near' = near
        BY <1>3, <2>5 DEF TickFwd
      <3>2. PICK o \in FwdWrite(l) : fwd' = Carry(fwd, l, Head(fwdQ[i]), o)
        BY <1>8, <2>5 DEF TickFwd
      <3>3. /\ Len(fwdQ'[i]) = Len(fwdQ[i]) - 1 /\ Head(fwdQ[i]) \in FwdCells
            /\ OpensData(l, Head(fwdQ[i])) /\ Head(fwdQ[i]).n = FwdOut(l)
        BY <1>1, <1>2, <1>4, <1>8, <2>3, <3>1, QueueTail
      <3>4. FwdOut(l)' = FwdOut(l) + 1
        <4>1. Len(fwdQ'[i]) = Len(fwdQ[i]) - 1
          BY <3>3
        <4> QED BY <1>6, <2>3, <4>1
      <3>5. FwdMove(l)
        BY <1>1, <1>3, <1>4, <2>2, <3>1, <3>2, <3>3, <3>4, FwdCarried
      <3> QED BY <1>2, <1>4, <2>1, <3>5, FwdRest DEF FwdNext
    <2> QED BY <2>4, <2>5
  <1>9. CASE l = i
    <2>1. FwdIn(i)' = FwdIn(i) /\ FwdOut(i)' = FwdOut(i)
      <3>1. i = 1 \/ (i - 1 \in Hops /\ i - 1 # i)
        BY ChainAssumption DEF Hops
      <3> QED BY <1>4, <3>1 DEF FwdIn, FwdOut
    <2>2. FwdOut(i) <= FwdOut(i)' /\ fwd'[i] = fwd[i]
      BY <1>1, <1>4, <2>1, FwdBounds
    <2>3. FwdMove(i)
      BY <1>5, <2>1, <2>2 DEF FwdMove, FwdKept
    <2> QED BY <1>7, <1>9, <2>3 DEF FwdNext
  <1>10. CASE l # i /\ l # i + 1
    <2>1. \A j \in Hops : j \in {l, l - 1} => fwdSeq'[j] = fwdSeq[j] /\ fwdQ'[j] = fwdQ[j]
      <3>1. i \notin {l, l - 1}
        BY <1>10 DEF Hops
      <3> QED BY <1>4, <3>1
    <2> QED BY <1>1, <1>2, <1>4, <1>5, <1>10, <2>1, FwdStill
  <1> QED BY <1>8, <1>9, <1>10

\* Relays that follow the code never see a forward cell out of turn.
LEMMA NoForwardOutOfTurn ==
  ASSUME AnswerInv, Ordered, NEW i \in Hops
  PROVE  ~HandleOutOfTurn(i)
  BY FwdHead DEF Ordered, FwdOrder, HandleOutOfTurn

\* Every step keeps the cells on link l and at hop l in order.
LEMMA FwdStep ==
  ASSUME AnswerInv, Orderly, Ordered, [Next]_vars, NEW l \in Hops
  PROVE  FwdNext(l)
  <1>1. TypeOK'
    BY NextType DEF AnswerInv, ExitInv
  <1>2. ASSUME NEW i \in Hops, HandleSetupFails(i) \/ HandleForwardFails(i)
                                 \/ HandleDeliverFails(i) \/ HandleEnds(i)
        PROVE  FwdNext(l)
    <2>1. /\ EndHop(i) /\ circ' = circ /\ sent' = sent /\ hop[i] \in {"idle", "live"}
          /\ fwdSeq' = fwdSeq \/ TakesData(i)
      BY <1>2 DEF HandleSetupFails, HandleForwardFails, HandleDeliverFails, HandleEnds,
        TakesData, Reading, clientVars
    <2> QED BY <1>1, <2>1, FwdEndHop
  <1>3. ASSUME NEW i \in Hops, HopStep(i) PROVE FwdNext(l)
    BY <1>2, <1>3, FwdSetup, FwdStray, FwdForward, FwdDeliver, NoForwardOutOfTurn DEF HopStep
  <1>4. ASSUME NEW i \in Hops,
               \/ BackStep(i) \/ TickBwd(i) \/ TickBwdFails(i) \/ Expire(i) \/ Cut(i) \/ Stall(i)
               \/ LoseTail(i) \/ FaultBwd(i)
        PROVE  FwdNext(l)
    BY <1>4, FwdBreak DEF BackStep
  <1> QED BY <1>3, <1>4, FwdClientStep, FwdTick, FwdFault DEF Next

-----------------------------------------------------------------------------
(* And to every link towards the client.                                   *)

\* What a step has to do to the replies on link l and at hop l.
BwdNext(l) == BwdMove(l) /\ BwdQueue(l)' /\ BwdDue(l)'

\* A write arrives exactly where the link can carry it.
LEMMA BwdWriteAble ==
  ASSUME NEW l, NEW o \in BwdWrite(l)
  PROVE  o = "sent" <=> BwdAble(l)
  BY DEF BwdWrite, WriteOutcomes, BwdAble

\* The replies of a hop are counted in numbers.
LEMMA CounterType ==
  ASSUME TypeOK, NEW l \in Hops
  PROVE  Counter(l) \in Nat /\ Len(bwdQ[l]) \in Nat /\ replies \in Nat
  <1>1. bwdSeq[l] \in SequenceStates /\ bwdQ[l] \in Seq(BwdCells) /\ replies \in 0 .. CellLimit
    BY DEF TypeOK, HopType
  <1>2. bwdSeq[l].taken \in Nat
    BY <1>1, LimitAssumption DEF SequenceStates
  <1> QED BY <1>1, <1>2, LimitAssumption DEF Counter

\* A queue that is kept, with its hop's count of what left it, or shut.
LEMMA BwdRest ==
  ASSUME TypeOK, circ' = circ, replies <= replies', replies' \in Nat, NEW l \in Hops, BwdQueue(l),
         \/ bwdQ'[l] = <<>>
         \/ bwdQ'[l] = bwdQ[l] /\ far'[l] = "closed"
         \/ bwdQ'[l] = bwdQ[l] /\ far[l] # "closed" /\ BwdOut(l)' = BwdOut(l)
         \/ bwdQ[l] # <<>> /\ bwdQ'[l] = Tail(bwdQ[l]) /\ far'[l] = "closed"
  PROVE  BwdQueue(l)'
  <1>1. CASE bwdQ'[l] = <<>>
    BY <1>1 DEF BwdQueue
  <1>2. CASE bwdQ'[l] = bwdQ[l] /\ far'[l] = "closed"
    BY <1>2 DEF BwdQueue
  <1>3. CASE bwdQ'[l] = bwdQ[l] /\ far[l] # "closed" /\ BwdOut(l)' = BwdOut(l)
    <2>1. \A x : \A c : Layered(l, x, c)' <=> Layered(l, x, c)
      BY DEF Layered, ReplyValue
    <2>2. \A k \in 1 .. Len(bwdQ[l]) : BwdOut(l) + k - 1 \in Int
      BY BwdBounds, CounterType
    <2>3. replies \in Int
      BY CounterType
    <2>4. \A k \in 1 .. Len(bwdQ[l]) :
            BwdOut(l) + k - 1 < replies /\ Layered(l, BwdOut(l) + k - 1, bwdQ[l][k])
      BY <1>3 DEF BwdQueue, Reply
    <2>5. \A k \in 1 .. Len(bwdQ[l]) : BwdOut(l) + k - 1 < replies'
      BY <2>2, <2>3, <2>4
    <2>6. \A k \in 1 .. Len(bwdQ[l]) : Reply(l, BwdOut(l) + k - 1, bwdQ[l][k])'
      BY <1>3, <2>1, <2>4, <2>5 DEF Reply
    <2> QED BY <1>3, <2>6 DEF BwdQueue
  <1>4. CASE bwdQ[l] # <<>> /\ bwdQ'[l] = Tail(bwdQ[l]) /\ far'[l] = "closed"
    BY <1>4 DEF BwdQueue
  <1> QED BY <1>1, <1>2, <1>3, <1>4

\* A link none of whose ends counts anything, in a step that leaves its cells.
LEMMA BwdStill ==
  ASSUME TypeOK, circ' = circ, replies <= replies', replies' \in Nat, NEW l \in Hops,
         BwdQueue(l), BwdDue(l),
         want' = want \/ l # 1,
         replies' = replies \/ l # N,
         \A i \in Hops : i \in {l, l - 1} => bwdSeq'[i] = bwdSeq[i],
         bwdQ'[l] = bwdQ[l], bwd'[l] = bwd[l],
         BwdAble(l)' => BwdAble(l),
         far'[l] # "closed" => far[l] # "closed"
  PROVE  BwdNext(l)
  <1>1. l = 1 \/ l - 1 \in Hops
    BY ChainAssumption DEF Hops
  <1>2. bwdSeq'[l] = bwdSeq[l] /\ (l # 1 => bwdSeq'[l - 1] = bwdSeq[l - 1])
    BY <1>1
  <1>3. BwdIn(l)' = BwdIn(l) /\ BwdOut(l)' = BwdOut(l)
    BY <1>2 DEF BwdIn, BwdOut, Counter
  <1>4. BwdOut(l) <= BwdOut(l)'
    BY <1>3, BwdBounds
  <1>5. BwdQueue(l)'
    BY <1>3, BwdRest
  <1>6. BwdDue(l)'
    BY <1>2 DEF BwdDue, ReplyValue
  <1> QED BY <1>3, <1>4, <1>5, <1>6 DEF BwdNext, BwdMove, BwdKept

\* A reply that is due is written on link l, or lost with the link.
LEMMA BwdCarried ==
  ASSUME TypeOK, NEW l \in Hops, NEW base \in [Hops -> Seq(BwdCells)], base[l] = bwd[l],
         NEW c \in BwdCells, NEW o \in BwdWrite(l), bwd' = Carry(base, l, c, o),
         Layered(l, BwdOut(l), c), BwdOut(l) < replies',
         BwdIn(l)' = BwdIn(l), BwdOut(l)' = BwdOut(l) + 1,
         UNCHANGED <<near, far, line>>
  PROVE  BwdMove(l)
  <1>1. BwdAble(l)' <=> BwdAble(l)
    BY DEF BwdAble
  <1>2. BwdOut(l) \in Int
    BY BwdBounds
  <1>3. CASE o = "sent"
    <2>1. BwdAble(l) /\ bwd'[l] = Append(bwd[l], c)
      BY <1>3, BwdWriteAble DEF Carry
    <2>2. BwdWritten(l)
      BY <1>1, <2>1 DEF BwdWritten
    <2> QED BY <2>2 DEF BwdMove
  <1>4. CASE o # "sent"
    <2>1. ~BwdAble(l) /\ bwd'[l] = bwd[l]
      BY <1>4, BwdWriteAble DEF Carry
    <2>2. BwdOut(l) <= BwdOut(l)'
      BY <1>2
    <2> QED BY <1>1, <2>1, <2>2 DEF BwdMove, BwdKept
  <1> QED BY <1>3, <1>4

\* The queue of a hop that has one more reply to send on.
LEMMA BwdQueueAppends ==
  ASSUME TypeOK, circ' = circ, replies <= replies', replies' \in Nat,
         NEW i \in Hops, i \in Paced, BwdQueue(i), far[i] # "closed" \/ far'[i] = "closed",
         NEW c \in BwdCells, Layered(i, Counter(i), c), Counter(i) < replies',
         Counter(i)' = Counter(i) + 1, bwdQ'[i] = Append(bwdQ[i], c)
  PROVE  BwdQueue(i)' /\ BwdOut(i)' = BwdOut(i)
  <1> DEFINE q == bwdQ[i]
             r == bwdQ'[i]
             m == Counter(i)
  <1>1. q \in Seq(BwdCells) /\ m \in Nat /\ replies \in Nat
    BY CounterType DEF TypeOK, HopType
  <1>2. /\ Len(q) \in Nat /\ Len(r) = Len(q) + 1 /\ r[Len(q) + 1] = c
        /\ \A k \in 1 .. Len(q) : r[k] = q[k]
    BY <1>1
  <1>3. BwdOut(i)' = BwdOut(i) /\ BwdOut(i) = m - Len(q) /\ BwdOut(i) \in Int
    BY <1>1, <1>2 DEF BwdOut
  <1>4. \A x : \A d : Layered(i, x, d)' <=> Layered(i, x, d)
    BY DEF Layered, ReplyValue
  <1>5. ASSUME far'[i] # "closed", NEW k \in 1 .. Len(r)
        PROVE  BwdOut(i) + k - 1 < replies' /\ Layered(i, BwdOut(i) + k - 1, r[k])
    <2>1. CASE k \in 1 .. Len(q)
      <3>1. BwdOut(i) + k - 1 < replies /\ Layered(i, BwdOut(i) + k - 1, q[k])
        BY <1>5, <2>1 DEF BwdQueue, Reply
      <3>2. BwdOut(i) + k - 1 \in Int
        BY <1>2, <1>3, <2>1
      <3> HIDE DEF q, r, m
      <3> QED BY <1>1, <1>2, <2>1, <3>1, <3>2
    <2>2. CASE k = Len(q) + 1
      <3>1. BwdOut(i) + k - 1 = m
        <4> HIDE DEF q, r, m
        <4> QED BY <1>1, <1>2, <1>3, <2>2
      <3> QED BY <1>2, <2>2, <3>1
    <2> HIDE DEF q, r, m
    <2> QED BY <1>2, <2>1, <2>2
  <1>6. BwdQueue(i)'
    BY <1>3, <1>4, <1>5 DEF BwdQueue, Reply
  <1> QED BY <1>3, <1>6

\* A tick takes the reply that is due next on the link.
LEMMA BwdQueueTail ==
  ASSUME TypeOK, circ' = circ, replies' = replies,
         NEW i \in Hops, BwdQueue(i), far[i] # "closed", bwdQ[i] # <<>>,
         bwdSeq' = bwdSeq, bwdQ'[i] = Tail(bwdQ[i])
  PROVE  /\ BwdQueue(i)' /\ BwdOut(i)' = BwdOut(i) + 1
         /\ Head(bwdQ[i]) \in BwdCells /\ Reply(i, BwdOut(i), Head(bwdQ[i]))
  <1> DEFINE q == bwdQ[i]
             r == bwdQ'[i]
             m == Counter(i)
  <1>1. q \in Seq(BwdCells) /\ m \in Nat
    BY CounterType DEF TypeOK, HopType
  <1>2. /\ Len(q) \in Nat /\ Len(r) = Len(q) - 1 /\ Head(q) = q[1] /\ 1 \in 1 .. Len(q)
        /\ Head(q) \in BwdCells
        /\ \A k \in 1 .. Len(r) : k + 1 \in 1 .. Len(q) /\ r[k] = q[k + 1]
    BY <1>1
  <1>3. BwdOut(i) = m - Len(q) /\ BwdOut(i)' = m - Len(r)
    BY DEF BwdOut, Counter
  <1>4. BwdOut(i) \in Int /\ BwdOut(i)' = BwdOut(i) + 1
    <2> HIDE DEF q, r, m
    <2> QED BY <1>1, <1>2, <1>3
  <1>5. \A k \in 1 .. Len(q) : Reply(i, BwdOut(i) + k - 1, q[k])
    BY DEF BwdQueue
  <1>6. \A x : \A d : Reply(i, x, d)' <=> Reply(i, x, d)
    BY DEF Reply, Layered, ReplyValue
  <1>7. ASSUME NEW k \in 1 .. Len(r) PROVE Reply(i, (BwdOut(i) + 1) + k - 1, r[k])
    <2> HIDE DEF q, r, m
    <2>1. BwdOut(i) + (k + 1) - 1 = (BwdOut(i) + 1) + k - 1
      BY <1>4
    <2> QED BY <1>2, <1>5, <2>1
  <1>8. BwdQueue(i)'
    <2>1. r # <<>> => i \in Paced
      BY DEF BwdQueue
    <2> QED BY <1>4, <1>6, <1>7, <2>1 DEF BwdQueue
  <1>9. Reply(i, BwdOut(i), Head(q))
    <2>1. BwdOut(i) + 1 - 1 = BwdOut(i)
      BY <1>4
    <2> HIDE DEF q
    <2> QED BY <1>2, <1>5, <2>1
  <1> QED BY <1>2, <1>4, <1>8, <1>9

\* The circuit stays, and no reply is taken back.
LEMMA RepliesGrow ==
  ASSUME TypeOK, [Next]_vars
  PROVE  circ' = circ /\ replies \in Nat /\ replies' \in Nat /\ replies <= replies'
  <1>1. replies \in Nat
    BY LimitAssumption DEF TypeOK, HopType
  <1>2. circ' = circ /\ (replies' = replies \/ replies' = replies + 1)
    BY EndsStep
  <1> QED BY <1>1, <1>2

\* Steps that leave the way to the client alone.
LEMMA BwdQuiet ==
  ASSUME AnswerInv, Ordered, NEW l \in Hops,
         \/ ClientSend \/ ClientEnds \/ UNCHANGED vars
         \/ \E i \in Hops : \/ HandleSetup(i) \/ HandleStray(i) \/ HandleForward(i) \/ TickFwd(i)
                            \/ Stall(i) \/ FaultFwd(i)
  PROVE  BwdNext(l)
  <1>1. TypeOK
    BY DEF AnswerInv, ExitInv
  <1>2. BwdQueue(l) /\ BwdDue(l)
    BY DEF Ordered, BwdOrder
  <1>3. near \in [Hops -> LinkEnds] /\ far \in [Hops -> LinkEnds] /\ line \in [Hops -> Lines]
    BY <1>1 DEF TypeOK, LinkType
  <1>4. UNCHANGED <<circ, want, replies, bwdSeq, bwdQ, bwd>>
    BY DEF ClientSend, ClientEnds, HandleSetup, HandleStray, HandleForward, TickFwd, Stall,
      FaultFwd, vars, clientVars, hopVars, linkVars
  <1>5. /\ near'[l] = "closed" <=> near[l] = "closed"
        /\ far'[l] = "closed" <=> far[l] = "closed"
        /\ line'[l] = line[l] \/ line[l] = "up"
    <2>1. CASE ClientSend \/ ClientEnds \/ UNCHANGED vars
      BY <2>1 DEF ClientSend, ClientEnds, vars, linkVars
    <2>2. ASSUME NEW i \in Hops, HandleStray(i) \/ HandleForward(i) \/ TickFwd(i) \/ FaultFwd(i)
          PROVE  UNCHANGED <<near, far, line>>
      BY <2>2 DEF HandleStray, HandleForward, TickFwd, FaultFwd
    <2>3. ASSUME NEW i \in Hops, Stall(i)
          PROVE  UNCHANGED <<near, far>> /\ (line'[l] = line[l] \/ line[l] = "up")
      BY <1>3, <2>3 DEF Stall
    <2>4. ASSUME NEW i \in Hops, HandleSetup(i)
          PROVE  /\ near'[l] = "closed" <=> near[l] = "closed"
                 /\ far'[l] = "closed" <=> far[l] = "closed"
                 /\ line' = line
      <3>1. Born(i) /\ hop[i] = "idle" /\ line' = line
        BY <2>4 DEF Ordered, Births, HandleSetup
      <3>2. i < N => near[i + 1] = "none" /\ far[i + 1] = "none"
        BY <3>1 DEF Born, Linked, Fresh, Waits
      <3>3. \/ near' = near /\ far' = far
            \/ i < N /\ near' = [near EXCEPT ![i + 1] = "open"] /\ far' = [far EXCEPT ![i + 1] = "open"]
        BY <2>4, ChainAssumption DEF HandleSetup, Hops
      <3> QED BY <1>3, <3>1, <3>2, <3>3
    <2> QED BY <2>1, <2>2, <2>3, <2>4
  <1>6. BwdAble(l)' => BwdAble(l)
    BY <1>5 DEF BwdAble
  <1>7. replies <= replies' /\ replies' \in Nat
    BY <1>1, <1>4, CounterType
  <1> QED BY <1>1, <1>2, <1>4, <1>5, <1>6, <1>7, BwdStill

\* The client takes the reply due, or closes.
LEMMA BwdClient ==
  ASSUME AnswerInv, Ordered, NEW l \in Hops, ClientReceive \/ ClientClose
  PROVE  BwdNext(l) /\ refused' = refused
  <1>1. TypeOK /\ 1 \in Hops
    BY ChainAssumption DEF AnswerInv, ExitInv, Hops
  <1>2. BwdLink(1) /\ BwdLink(l) /\ BwdQueue(l) /\ BwdDue(l)
    BY <1>1 DEF Ordered, BwdOrder
  <1>3. near \in [Hops -> LinkEnds] /\ bwd \in [Hops -> Seq(BwdCells)]
    BY <1>1 DEF TypeOK, LinkType
  <1>4. UNCHANGED <<circ, replies, bwdSeq, bwdQ, far, line>>
    BY DEF ClientReceive, ClientClose, hopVars
  <1>5. replies <= replies' /\ replies' \in Nat
    BY <1>1, <1>4, CounterType
  <1>6. \/ /\ bwd[1] # <<>> /\ want' = want + 1 /\ near' = near /\ refused' = refused
           /\ bwd' = [bwd EXCEPT ![1] = Tail(@)]
        \/ /\ want' = want /\ refused' = refused
           /\ near' = [near EXCEPT ![1] = "closed"] /\ bwd' = [bwd EXCEPT ![1] = <<>>]
    <2>1. CASE ClientReceive
      <3>1. OpenClass(Head(bwd[1])) = "none"
        BY <1>2, <2>1, ClientHead DEF ClientReceive
      <3> QED BY <2>1, <3>1 DEF ClientReceive
    <2>2. CASE ClientClose
      BY <2>2 DEF ClientClose
    <2> QED BY <2>1, <2>2
  <1>7. BwdAble(l)' => BwdAble(l)
    BY <1>3, <1>4, <1>6 DEF BwdAble
  <1>8. CASE l # 1
    BY <1>1, <1>2, <1>3, <1>4, <1>5, <1>6, <1>7, <1>8, BwdStill
  <1>9. CASE l = 1
    <2>1. BwdOut(1)' = BwdOut(1) /\ BwdIn(1) = want /\ BwdIn(1)' = want'
      BY <1>4 DEF BwdIn, BwdOut, Counter
    <2>2. BwdMove(1)
      <3>1. CASE bwd[1] # <<>> /\ want' = want + 1 /\ bwd' = [bwd EXCEPT ![1] = Tail(@)]
        <4>1. bwd'[1] = Tail(bwd[1])
          BY <1>1, <1>3, <3>1
        <4> QED BY <1>7, <1>9, <2>1, <3>1, <4>1 DEF BwdMove, BwdTaken
      <3>2. CASE want' = want /\ near' = [near EXCEPT ![1] = "closed"] /\ bwd' = [bwd EXCEPT ![1] = <<>>]
        <4>1. bwd'[1] = <<>> /\ ~BwdAble(1)'
          BY <1>1, <1>3, <3>2 DEF BwdAble
        <4>2. BwdIn(1) \in Nat /\ BwdOut(1) \in Int /\ Len(bwd[1]) \in Nat
                /\ BwdIn(1) + Len(bwd[1]) <= BwdOut(1)
          BY <1>1, <1>2, <1>3, BwdBounds DEF BwdLink
        <4>3. BwdIn(1)' <= BwdOut(1)'
          BY <2>1, <3>2, <4>2
        <4> QED BY <4>1, <4>3 DEF BwdMove, BwdCleared
      <3> QED BY <1>6, <3>1, <3>2
    <2>3. BwdQueue(1)'
      BY <1>1, <1>2, <1>4, <1>5, <1>9, <2>1, BwdRest
    <2>4. BwdDue(1)'
      BY <1>2, <1>4, <1>9 DEF BwdDue, ReplyValue
    <2> QED BY <1>6, <1>9, <2>2, <2>3, <2>4 DEF BwdNext
  <1> QED BY <1>6, <1>8, <1>9

\* Links that are closed or cut, or lose their tail.
LEMMA BwdBreak ==
  ASSUME AnswerInv, Ordered, NEW l \in Hops, NEW i \in Hops,
         \/ BackwardEnds(i) \/ TickFwdFails(i) \/ TickBwdFails(i) \/ Expire(i) \/ Cut(i)
         \/ LoseTail(i)
  PROVE  BwdNext(l)
  <1>1. TypeOK
    BY DEF AnswerInv, ExitInv
  <1>2. BwdLink(l) /\ BwdQueue(l) /\ BwdDue(l)
    BY DEF Ordered, BwdOrder
  <1>3. /\ near \in [Hops -> LinkEnds] /\ far \in [Hops -> LinkEnds] /\ line \in [Hops -> Lines]
        /\ bwd \in [Hops -> Seq(BwdCells)] /\ bwdQ \in [Hops -> Seq(BwdCells)]
    BY <1>1 DEF TypeOK, LinkType, HopType
  <1>4. UNCHANGED <<circ, want, replies, bwdSeq>>
    BY DEF BackwardEnds, TickFwdFails, TickBwdFails, Expire, Cut, LoseTail, clientVars, hopVars
  <1>5. replies <= replies' /\ replies' \in Nat
    BY <1>1, <1>4, CounterType
  <1>6. /\ near'[l] = near[l] \/ near'[l] = "closed"
        /\ far'[l] = far[l] \/ far'[l] = "closed"
        /\ line'[l] = line[l] \/ line'[l] = "cut"
    BY <1>3 DEF BackwardEnds, EndBackward, TickFwdFails, TickBwdFails, Expire, Cut, LoseTail
  <1>7. BwdAble(l)' => BwdAble(l)
    BY <1>6 DEF BwdAble
  <1>8. \/ bwdQ'[l] = bwdQ[l]
        \/ bwdQ[l] # <<>> /\ bwdQ'[l] = Tail(bwdQ[l]) /\ bwd'[l] = bwd[l] /\ far'[l] = "closed"
    BY <1>3 DEF BackwardEnds, TickFwdFails, TickBwdFails, Expire, Cut, LoseTail, hopVars
  <1>9. \/ bwd'[l] = bwd[l]
        \/ bwd'[l] = <<>> /\ (near'[l] = "closed" \/ line'[l] = "cut")
        \/ bwd[l] # <<>> /\ far'[l] = "closed" /\ bwd'[l] = SubSeq(bwd[l], 1, Len(bwd[l]) - 1)
    BY <1>3 DEF BackwardEnds, TickFwdFails, TickBwdFails, Expire, Cut, LoseTail
  <1>10. CASE bwdQ'[l] = bwdQ[l] /\ bwd'[l] = bwd[l]
    BY <1>1, <1>2, <1>4, <1>5, <1>6, <1>7, <1>10, BwdStill
  <1>11. BwdIn(l)' = BwdIn(l) /\ BwdDue(l)' /\ Counter(l)' = Counter(l)
    BY <1>2, <1>4 DEF BwdIn, BwdDue, ReplyValue, Counter
  <1>12. /\ BwdIn(l) \in Nat /\ BwdOut(l) \in Int /\ Len(bwd[l]) \in Nat
         /\ BwdIn(l) + Len(bwd[l]) <= BwdOut(l)
    BY <1>1, <1>2, <1>3, BwdBounds DEF BwdLink
  <1>13. CASE bwdQ'[l] = bwdQ[l] /\ bwd'[l] # bwd[l]
    <2>1. BwdOut(l)' = BwdOut(l)
      BY <1>11, <1>13 DEF BwdOut
    <2>2. BwdIn(l)' <= BwdOut(l)'
      BY <1>11, <1>12, <2>1
    <2>3. BwdMove(l)
      BY <1>9, <1>11, <1>13, <2>1, <2>2 DEF BwdMove, BwdCleared, BwdLost, BwdAble
    <2>4. BwdQueue(l)'
      BY <1>1, <1>2, <1>4, <1>5, <1>6, <1>13, <2>1, BwdRest
    <2> QED BY <1>11, <2>3, <2>4 DEF BwdNext
  <1>14. CASE bwdQ[l] # <<>> /\ bwdQ'[l] = Tail(bwdQ[l]) /\ bwd'[l] = bwd[l] /\ far'[l] = "closed"
    <2>1. Len(bwdQ'[l]) = Len(bwdQ[l]) - 1 /\ Len(bwdQ[l]) \in Nat
      BY <1>3, <1>14
    <2>2. BwdOut(l) <= BwdOut(l)'
      <3>1. Counter(l) \in Nat
        BY <1>1, CounterType
      <3> QED BY <1>11, <2>1, <3>1 DEF BwdOut
    <2>3. BwdMove(l)
      BY <1>11, <1>14, <2>2 DEF BwdMove, BwdKept, BwdAble
    <2>4. BwdQueue(l)'
      BY <1>1, <1>2, <1>4, <1>5, <1>14, BwdRest
    <2> QED BY <1>11, <2>3, <2>4 DEF BwdNext
  <1> QED BY <1>8, <1>10, <1>13, <1>14

\* A hop that ends, the exit perhaps after counting a reply it could not send.
LEMMA BwdEndHop ==
  ASSUME AnswerInv, Ordered, [Next]_vars, NEW i \in Hops, EndHop(i), hop[i] \in {"idle", "live"},
         want' = want, bwdSeq' = bwdSeq, replies' = replies \/ i = N,
         NEW l \in Hops
  PROVE  BwdNext(l)
  <1>1. TypeOK
    BY DEF AnswerInv, ExitInv
  <1>2. circ' = circ /\ replies \in Nat /\ replies' \in Nat /\ replies <= replies'
    BY <1>1, RepliesGrow
  <1>3. Born(i) /\ Born(l) /\ BwdLink(l) /\ BwdQueue(l) /\ BwdDue(l)
    BY DEF Ordered, Births, BwdOrder
  <1>4. /\ near \in [Hops -> LinkEnds] /\ far \in [Hops -> LinkEnds]
        /\ bwd \in [Hops -> Seq(BwdCells)] /\ bwdQ \in [Hops -> Seq(BwdCells)]
    BY <1>1 DEF TypeOK, LinkType, HopType
  <1>5. /\ bwdQ'[i] = <<>> /\ \A j \in Hops : j # i => bwdQ'[j] = bwdQ[j]
        /\ far'[i] = "closed" /\ \A j \in Hops : j # i => far'[j] = far[j]
        /\ \A j \in Hops : j # i + 1 => near'[j] = near[j] /\ bwd'[j] = bwd[j]
        /\ i + 1 \in Hops =>
             /\ near'[i + 1] = IF near[i + 1] = "open" THEN "closed" ELSE near[i + 1]
             /\ bwd'[i + 1] = <<>>
        /\ line' = line
    BY <1>4 DEF EndHop
  <1>6. i \in Int /\ l \in Int /\ i + 1 # i
    BY DEF Hops
  <1>7. BwdIn(l)' = BwdIn(l) /\ BwdDue(l)'
    BY <1>2, <1>3 DEF BwdIn, BwdDue, ReplyValue
  <1>8. /\ BwdIn(l) \in Nat /\ BwdOut(l) \in Int /\ Len(bwd[l]) \in Nat
        /\ BwdIn(l) + Len(bwd[l]) <= BwdOut(l)
    BY <1>1, <1>3, <1>4, BwdBounds DEF BwdLink
  <1>9. CASE l = i
    <2>1. BwdOut(l) <= BwdOut(l)'
      <3>1. Counter(l) \in Nat /\ Len(bwdQ[l]) \in Nat
        BY <1>1, CounterType
      <3>2. Counter(l)' \in Nat /\ Counter(l) <= Counter(l)'
        BY <1>2, <3>1 DEF Counter
      <3>3. Len(bwdQ'[l]) = 0
        BY <1>5, <1>9
      <3> QED BY <3>1, <3>2, <3>3 DEF BwdOut
    <2>2. BwdMove(l)
      BY <1>5, <1>6, <1>7, <1>9, <2>1 DEF BwdMove, BwdKept, BwdAble
    <2>3. BwdQueue(l)'
      BY <1>1, <1>2, <1>3, <1>5, <1>9, BwdRest
    <2> QED BY <1>7, <2>2, <2>3 DEF BwdNext
  <1>10. CASE l = i + 1
    <2>1. replies' = replies /\ i < N
      BY <1>6, <1>10, ChainAssumption DEF Hops
    <2>2. bwdQ'[l] = bwdQ[l] /\ BwdOut(l)' = BwdOut(l) /\ far'[l] = far[l]
      BY <1>5, <1>6, <1>10, <2>1 DEF BwdOut, Counter
    <2>3. BwdQueue(l)'
      BY <1>1, <1>2, <1>3, <2>2, BwdRest
    <2>4. CASE near'[l] = "closed"
      <3>1. BwdIn(l)' <= BwdOut(l)'
        BY <1>7, <1>8, <2>2
      <3>2. BwdMove(l)
        BY <1>5, <1>10, <2>4, <3>1 DEF BwdMove, BwdCleared, BwdAble
      <3> QED BY <1>7, <2>3, <3>2 DEF BwdNext
    <2>5. CASE near'[l] # "closed"
      <3>1. near[l] = "none" /\ near'[l] = "none"
        <4>1. near[l] \in {"none", "open", "closed"}
          BY <1>4 DEF LinkEnds
        <4> QED BY <1>5, <1>10, <2>5, <4>1
      <3>2. hop[i] = "idle"
        BY <1>3, <1>10, <2>1, <3>1 DEF Born, Linked, Fresh, Waits
      <3>3. hop[l] = "idle"
        BY <1>3, <1>10, <2>1, <3>2 DEF Born, Linked, Fresh, Waits
      <3>4. bwdSeq[l] = NewSequence /\ bwdQ[l] = <<>> /\ (l = N => replies = 0)
        BY <1>3, <3>3 DEF Born, Linked, Fresh, Waits
      <3>5. BwdOut(l) = 0
        BY <3>4 DEF BwdOut, Counter, NewSequence
      <3>6. Len(bwd[l]) = 0
        BY <1>8, <3>5
      <3>7. bwd[l] = <<>>
        BY <1>4, <3>6
      <3>8. BwdOut(l) <= BwdOut(l)' /\ bwd'[l] = bwd[l]
        BY <1>5, <1>8, <1>10, <2>2, <3>7
      <3>9. BwdAble(l)' => BwdAble(l)
        BY <1>5, <2>2, <3>1 DEF BwdAble
      <3>10. BwdMove(l)
        BY <1>7, <2>2, <3>8, <3>9 DEF BwdMove, BwdKept
      <3> QED BY <1>7, <2>3, <3>10 DEF BwdNext
    <2> QED BY <2>4, <2>5
  <1>11. CASE l # i /\ l # i + 1
    <2>1. bwd'[l] = bwd[l] /\ bwdQ'[l] = bwdQ[l] /\ far'[l] = far[l] /\ near'[l] = near[l]
      BY <1>5, <1>11
    <2>2. BwdAble(l)' => BwdAble(l)
      BY <1>5, <2>1 DEF BwdAble
    <2>3. replies' = replies \/ l # N
      BY <1>11
    <2> QED BY <1>1, <1>2, <1>3, <2>1, <2>2, <2>3, BwdStill
  <1> QED BY <1>9, <1>10, <1>11

\* What the exit seals is the reply of the number it counts.
LEMMA ReplyLayered ==
  ASSUME TypeOK, NEW r \in Values, NEW n \in Values
  PROVE  Layered(N, r, SealReply(r, n)) /\ SealReply(r, n) \in BwdCells
  <1>1. N \in Hops /\ N .. N = {N} /\ circ \in Circuits /\ r \in Int
    BY ChainAssumption, ValuesAreInts DEF Hops, TypeOK
  <1>2. ReplyValue(N, r) = Shift(r, circ.offset[N]["bwd"])
    BY <1>1, ReplyValues
  <1>3. SealReply(r, n) \in BwdCells
    BY <1>1, CellTypes
  <1> QED BY <1>1, <1>2, <1>3, SealReplyFields DEF Layered

\* Every hop on the way adds the layer it has there.
LEMMA WrapLayered ==
  ASSUME TypeOK, NEW i \in Hops, i < N, NEW r \in Values, NEW c \in BwdCells, Layered(i + 1, r, c)
  PROVE  Layered(i, r, Wrap(i, c)) /\ Wrap(i, c) \in BwdCells
  <1> DEFINE v == Shift(c.ctr, circ.offset[i]["bwd"])
  <1>1. v = ReplyValue(i, r)
    BY ReplyValues DEF Layered
  <1>2. Wrap(i, c) = SealBack(i, v, c)
    BY DEF Wrap
  <1>3. Wrap(i, c) \in BwdCells
    BY CellTypes DEF TypeOK
  <1> HIDE DEF v
  <1>4. Wrap(i, c).ctr = v /\ Wrap(i, c).under = [c.under EXCEPT ![i] = v]
    BY <1>2, SealBackFields
  <1>5. c.under \in [Hops -> Values \cup {NoLayer}]
    BY DEF BwdCells
  <1>6. ASSUME NEW j \in i .. N PROVE Wrap(i, c).under[j] = ReplyValue(j, r)
    <2>1. j \in Hops /\ (j = i \/ j \in i + 1 .. N)
      BY ChainAssumption DEF Hops
    <2>2. CASE j = i
      BY <1>1, <1>4, <1>5, <2>2
    <2>3. CASE j # i
      BY <1>4, <1>5, <2>1, <2>3 DEF Layered
    <2> QED BY <2>2, <2>3
  <1> QED BY <1>1, <1>3, <1>4, <1>6 DEF Layered

\* The exit answers with the next reply.
LEMMA BwdDeliver ==
  ASSUME AnswerInv, Ordered, [Next]_vars, NEW i \in Hops, HandleDeliver(i), NEW l \in Hops
  PROVE  BwdNext(l)
  <1> DEFINE reply == SealReply(replies, Head(fwd[i]).n)
  <1>1. TypeOK /\ i = N
    BY DEF AnswerInv, ExitInv, HandleDeliver
  <1>2. circ' = circ /\ replies \in Nat /\ replies' \in Nat /\ replies <= replies'
    BY <1>1, RepliesGrow
  <1>3. BwdQueue(l) /\ BwdDue(l) /\ BwdQueue(i) /\ BwdDue(i)
    BY DEF Ordered, BwdOrder
  <1>4. bwd \in [Hops -> Seq(BwdCells)] /\ bwdQ \in [Hops -> Seq(BwdCells)]
    BY <1>1 DEF TypeOK, LinkType, HopType
  <1>5. /\ UNCHANGED <<want, bwdSeq, near, far, line>> /\ replies' = replies + 1
        /\ replies < CellLimit /\ TakesData(i) /\ far[i] = "open"
    BY DEF HandleDeliver, TakesData, Reading, clientVars
  <1>6. \/ /\ i \in Paced /\ bwd' = bwd /\ bwdQ' = [bwdQ EXCEPT ![i] = Append(@, reply)]
        \/ /\ i \notin Paced /\ bwdQ' = bwdQ
           /\ \E o \in BwdWrite(i) : bwd' = Carry(bwd, i, reply, o)
    BY DEF HandleDeliver
  <1>7. replies \in Values /\ Head(fwd[i]).n \in Values
    <2>1. replies \in Values
      BY <1>2, <1>5, LimitAssumption DEF Values
    <2> QED BY <1>1, <1>5, <2>1, TakesDataType
  <1>8. Layered(i, replies, reply) /\ reply \in BwdCells
    <2>1. \A n \in Values : Layered(N, replies, SealReply(replies, n)) /\ SealReply(replies, n) \in BwdCells
      BY <1>1, <1>7, ReplyLayered
    <2> QED BY <1>1, <1>7, <2>1
  <1> HIDE DEF reply
  <1>9. BwdAble(l)' => BwdAble(l)
    BY <1>5 DEF BwdAble
  <1>10. BwdIn(l)' = BwdIn(l) /\ BwdDue(l)'
    BY <1>2, <1>3, <1>5 DEF BwdIn, BwdDue, ReplyValue
  <1>11. CASE l # i
    <2>1. bwd'[l] = bwd[l] /\ bwdQ'[l] = bwdQ[l]
      BY <1>4, <1>6, <1>11 DEF Carry
    <2> QED BY <1>1, <1>2, <1>3, <1>5, <1>9, <1>11, <2>1, BwdStill
  <1>12. CASE l = i
    <2>1. Counter(i) = replies /\ Counter(i)' = Counter(i) + 1
      BY <1>1, <1>5 DEF Counter
    <2>2. replies < replies'
      BY <1>2, <1>5
    <2>3. CASE i \in Paced
      <3>1. bwd'[i] = bwd[i] /\ bwdQ'[i] = Append(bwdQ[i], reply)
        BY <1>4, <1>6, <2>3
      <3>2. BwdQueue(i)' /\ BwdOut(i)' = BwdOut(i)
        BY <1>1, <1>2, <1>3, <1>5, <1>8, <2>1, <2>2, <2>3, <3>1, BwdQueueAppends
      <3>3. BwdOut(i) <= BwdOut(i)'
        BY <1>1, <3>2, BwdBounds
      <3>4. BwdMove(i)
        BY <1>9, <1>10, <1>12, <3>1, <3>2, <3>3 DEF BwdMove, BwdKept
      <3> QED BY <1>10, <1>12, <3>2, <3>4 DEF BwdNext
    <2>4. CASE i \notin Paced
      <3>1. bwdQ[i] = <<>> /\ bwdQ'[i] = <<>>
        BY <1>3, <1>6, <2>4 DEF BwdQueue
      <3>2. BwdOut(i) = replies /\ BwdOut(i)' = replies + 1
        BY <1>2, <2>1, <3>1 DEF BwdOut
      <3>3. PICK o \in BwdWrite(i) : bwd' = Carry(bwd, i, reply, o)
        BY <1>6, <2>4
      <3>4. BwdMove(i)
        BY <1>1, <1>4, <1>5, <1>8, <1>10, <1>12, <2>2, <3>2, <3>3, BwdCarried
      <3>5. BwdQueue(i)'
        BY <1>1, <1>2, <1>3, <3>1, BwdRest
      <3> QED BY <1>10, <1>12, <3>4, <3>5 DEF BwdNext
    <2> QED BY <2>3, <2>4
  <1> QED BY <1>11, <1>12

\* The goroutine that carries replies back takes the one due and waits for the
\* next.
LEMMA BackTakes ==
  ASSUME AnswerInv, Ordered, NEW i \in Hops, ReadingBack(i), circ' = circ,
         bwdSeq' = [bwdSeq EXCEPT ![i] = Take(@, Head(bwd[i + 1]).ctr)]
  PROVE  /\ bwdSeq'[i].taken = bwdSeq[i].taken + 1
         /\ BwdDue(i)'
         /\ \A j \in Hops : j # i => bwdSeq'[j] = bwdSeq[j]
  <1> DEFINE c == Head(bwd[i + 1])
             m == bwdSeq[i].taken
  <1>1. TypeOK /\ i + 1 \in Hops /\ i < N /\ bwd[i + 1] # <<>>
    BY ReadingBackType DEF AnswerInv, ExitInv, ReadingBack
  <1>2. BwdLink(i + 1) /\ BwdDue(i)
    BY <1>1 DEF Ordered, BwdOrder
  <1>3. Reply(i + 1, m, c) /\ m \in Values
    BY <1>1, <1>2, BwdHead
  <1>4. c.ctr = ReplyValue(i + 1, m)
    BY <1>3 DEF Reply, Layered
  <1>5. Shift(c.ctr, 1) = ReplyValue(i + 1, m + 1)
    <2> HIDE DEF c, m
    <2> QED BY <1>1, <1>3, <1>4, ReplyValues
  <1>6. bwdSeq \in [Hops -> SequenceStates]
    BY <1>1 DEF TypeOK, HopType
  <1>7. bwdSeq'[i] = Take(bwdSeq[i], c.ctr) /\ \A j \in Hops : j # i => bwdSeq'[j] = bwdSeq[j]
    BY <1>6
  <1>8. bwdSeq'[i].taken = m + 1 /\ bwdSeq'[i].next = Shift(c.ctr, 1)
    BY <1>7 DEF Take
  <1>9. BwdDue(i)'
    BY <1>5, <1>8 DEF BwdDue, ReplyValue
  <1> QED BY <1>7, <1>8, <1>9

\* Relays that follow the code never see a reply out of turn.
LEMMA NoReplyOutOfTurn ==
  ASSUME AnswerInv, Ordered, NEW i \in Hops, ReadingBack(i)
  PROVE  Due(bwdSeq[i], Head(bwd[i + 1]).ctr)
  <1>1. i < N /\ bwd[i + 1] # <<>> /\ i + 1 \in Hops
    BY ReadingBackType DEF AnswerInv, ExitInv, ReadingBack
  <1> QED BY <1>1, BwdHead DEF Ordered, BwdOrder

\* A hop wraps the reply that is due and passes it on, or fails to.
LEMMA BwdBackward ==
  ASSUME AnswerInv, Ordered, [Next]_vars, NEW i \in Hops, Backward(i) \/ BackwardFails(i),
         NEW l \in Hops
  PROVE  BwdNext(l)
  <1> DEFINE c == Head(bwd[i + 1])
             out == Wrap(i, c)
             rest == [bwd EXCEPT ![i + 1] = Tail(@)]
             m == bwdSeq[i].taken
  <1>1. TypeOK /\ ReadingBack(i)
    BY DEF AnswerInv, ExitInv, Backward, BackwardFails
  <1>2. circ' = circ /\ replies \in Nat /\ replies' \in Nat /\ replies <= replies'
    BY <1>1, RepliesGrow
  <1>3. /\ i + 1 \in Hops /\ i < N /\ i # N /\ bwd[i + 1] # <<>> /\ c \in BwdCells
        /\ rest \in [Hops -> Seq(BwdCells)] /\ i + 1 # 1 /\ i + 1 # i /\ (i + 1) - 1 = i
    <2>1. i + 1 \in Hops /\ c \in BwdCells /\ rest \in [Hops -> Seq(BwdCells)]
      BY <1>1, ReadingBackType
    <2> QED BY <1>1, <2>1, ChainAssumption DEF ReadingBack, Hops
  <1>4. BwdLink(i + 1) /\ BwdQueue(l) /\ BwdDue(l) /\ BwdQueue(i) /\ BwdDue(i)
    BY <1>3 DEF Ordered, BwdOrder
  <1>5. /\ bwd \in [Hops -> Seq(BwdCells)] /\ bwdQ \in [Hops -> Seq(BwdCells)]
        /\ far \in [Hops -> LinkEnds]
    BY <1>1 DEF TypeOK, LinkType, HopType
  <1>6. /\ UNCHANGED <<want, replies, near, line>>
        /\ bwdSeq' = [bwdSeq EXCEPT ![i] = Take(@, Head(bwd[i + 1]).ctr)]
    BY <1>1, NoReplyOutOfTurn DEF Backward, BackwardFails, clientVars
  <1>7. /\ bwdSeq'[i].taken = m + 1 /\ BwdDue(i)'
        /\ \A j \in Hops : j # i => bwdSeq'[j] = bwdSeq[j]
    BY <1>1, <1>2, <1>6, BackTakes
  <1>8. Reply(i + 1, m, c) /\ m \in Values
    BY <1>3, <1>4, BwdHead
  <1>9. Layered(i, m, out) /\ out \in BwdCells /\ m < replies
    <2> HIDE DEF c, m
    <2> QED BY <1>1, <1>3, <1>8, WrapLayered DEF Reply
  <1>10. \/ /\ i \in Paced /\ far' = far /\ bwd' = rest
           /\ bwdQ' = [bwdQ EXCEPT ![i] = Append(@, out)]
        \/ /\ i \notin Paced /\ far' = far /\ bwdQ' = bwdQ
           /\ \E o \in BwdWrite(i) : bwd' = Carry(rest, i, out, o)
        \/ /\ bwdQ' = bwdQ /\ bwd' = rest /\ far' = [far EXCEPT ![i] = "closed"]
    BY DEF Backward, BackwardFails, EndBackward
  <1>11. rest[i + 1] = Tail(bwd[i + 1]) /\ \A j \in Hops : j # i + 1 => rest[j] = bwd[j]
    BY <1>3, <1>5
  <1>12. Counter(i) = m /\ Counter(i)' = m + 1 /\ m \in Nat /\ Len(bwdQ[i]) \in Nat
    BY <1>1, <1>3, <1>7, CounterType DEF Counter
  <1> HIDE DEF c, out, rest, m
  <1>13. /\ bwd'[i + 1] = Tail(bwd[i + 1])
         /\ \A j \in Hops : j # i /\ j # i + 1 => bwd'[j] = bwd[j]
         /\ \A j \in Hops : j # i => bwdQ'[j] = bwdQ[j]
         /\ \A j \in Hops : far'[j] = far[j] \/ far'[j] = "closed"
    BY <1>3, <1>5, <1>10, <1>11 DEF Carry
  <1>14. \A j \in Hops : BwdAble(j)' => BwdAble(j)
    BY <1>6, <1>13 DEF BwdAble
  <1>15. CASE l = i + 1
    <2>1. BwdIn(l) = m /\ BwdIn(l)' = m + 1
      BY <1>3, <1>7, <1>15 DEF BwdIn, m
    <2>2. bwdSeq'[l] = bwdSeq[l] /\ bwdQ'[l] = bwdQ[l]
      BY <1>3, <1>7, <1>13, <1>15
    <2>3. BwdOut(l)' = BwdOut(l) /\ BwdDue(l)'
      BY <1>2, <1>4, <1>6, <2>2 DEF BwdOut, Counter, BwdDue, ReplyValue
    <2>4. BwdMove(l)
      BY <1>3, <1>13, <1>14, <1>15, <2>1, <2>3 DEF BwdMove, BwdTaken
    <2>5. BwdQueue(l)'
      BY <1>1, <1>2, <1>4, <1>13, <2>2, <2>3, BwdRest
    <2> QED BY <2>3, <2>4, <2>5 DEF BwdNext
  <1>16. CASE l = i
    <2>1. BwdIn(i)' = BwdIn(i)
      <3>1. i = 1 \/ (i - 1 \in Hops /\ i - 1 # i)
        BY ChainAssumption DEF Hops
      <3> QED BY <1>6, <1>7, <3>1 DEF BwdIn
    <2>2. m < replies'
      BY <1>6, <1>9
    <2>3. CASE i \in Paced /\ far' = far /\ bwd' = rest /\ bwdQ' = [bwdQ EXCEPT ![i] = Append(@, out)]
      <3>1. bwd'[i] = bwd[i] /\ bwdQ'[i] = Append(bwdQ[i], out)
        BY <1>3, <1>5, <1>11, <2>3
      <3>2. BwdQueue(i)' /\ BwdOut(i)' = BwdOut(i)
        BY <1>1, <1>2, <1>4, <1>9, <1>12, <2>2, <2>3, <3>1, BwdQueueAppends
      <3>3. BwdOut(i) <= BwdOut(i)'
        BY <1>1, <3>2, BwdBounds
      <3>4. BwdMove(i)
        BY <1>14, <2>1, <3>1, <3>2, <3>3 DEF BwdMove, BwdKept
      <3> QED BY <1>7, <1>16, <3>2, <3>4 DEF BwdNext
    <2>4. CASE /\ i \notin Paced /\ far' = far /\ bwdQ' = bwdQ
               /\ \E o \in BwdWrite(i) : bwd' = Carry(rest, i, out, o)
      <3>1. bwdQ[i] = <<>> /\ bwdQ'[i] = <<>>
        BY <1>4, <2>4 DEF BwdQueue
      <3>2. BwdOut(i) = m /\ BwdOut(i)' = m + 1
        BY <1>12, <3>1 DEF BwdOut
      <3>3. PICK o \in BwdWrite(i) : bwd' = Carry(rest, i, out, o)
        BY <2>4
      <3>4. rest[i] = bwd[i]
        BY <1>3, <1>11
      <3>5. BwdMove(i)
        BY <1>1, <1>3, <1>6, <1>9, <2>1, <2>2, <2>4, <3>2, <3>3, <3>4, BwdCarried
      <3>6. BwdQueue(i)'
        BY <1>1, <1>2, <1>4, <3>1, BwdRest
      <3> QED BY <1>7, <1>16, <3>5, <3>6 DEF BwdNext
    <2>5. CASE bwdQ' = bwdQ /\ bwd' = rest /\ far' = [far EXCEPT ![i] = "closed"]
      <3>1. bwdQ'[i] = bwdQ[i] /\ bwd'[i] = bwd[i] /\ far'[i] = "closed"
        BY <1>3, <1>5, <1>11, <2>5
      <3>2. BwdOut(i) <= BwdOut(i)'
        BY <1>12, <3>1 DEF BwdOut
      <3>3. BwdMove(i)
        BY <2>1, <3>1, <3>2 DEF BwdMove, BwdKept, BwdAble
      <3>4. BwdQueue(i)'
        BY <1>1, <1>2, <1>4, <3>1, BwdRest
      <3> QED BY <1>7, <1>16, <3>3, <3>4 DEF BwdNext
    <2> QED BY <1>10, <2>3, <2>4, <2>5
  <1>17. CASE l # i /\ l # i + 1
    <2>1. \A j \in Hops : j \in {l, l - 1} => bwdSeq'[j] = bwdSeq[j]
      <3>1. i \notin {l, l - 1}
        BY <1>17 DEF Hops
      <3> QED BY <1>7, <3>1
    <2>2. bwd'[l] = bwd[l] /\ bwdQ'[l] = bwdQ[l]
      BY <1>13, <1>17
    <2> QED BY <1>1, <1>2, <1>4, <1>6, <1>13, <1>14, <2>1, <2>2, BwdStill
  <1> QED BY <1>15, <1>16, <1>17

\* A tick of the pacer towards the client.
LEMMA BwdTick ==
  ASSUME AnswerInv, Ordered, NEW l \in Hops, NEW i \in Hops, TickBwd(i)
  PROVE  BwdNext(l)
  <1>1. TypeOK
    BY DEF AnswerInv, ExitInv
  <1>2. BwdQueue(l) /\ BwdDue(l) /\ BwdQueue(i)
    BY DEF Ordered, BwdOrder
  <1>3. bwd \in [Hops -> Seq(BwdCells)] /\ bwdQ \in [Hops -> Seq(BwdCells)]
    BY <1>1 DEF TypeOK, LinkType, HopType
  <1>4. /\ UNCHANGED <<circ, want, replies, bwdSeq, near, far, line>>
        /\ far[i] = "open" /\ bwdQ[i] # <<>>
        /\ bwdQ'[i] = Tail(bwdQ[i]) /\ \A j \in Hops : j # i => bwdQ'[j] = bwdQ[j]
    BY <1>3 DEF TickBwd, clientVars
  <1>5. PICK o \in BwdWrite(i) : bwd' = Carry(bwd, i, Head(bwdQ[i]), o)
    BY DEF TickBwd
  <1>6. replies <= replies' /\ replies' \in Nat
    BY <1>1, <1>4, CounterType
  <1>7. BwdAble(l)' => BwdAble(l)
    BY <1>4 DEF BwdAble
  <1>8. CASE l = i
    <2>1. /\ BwdQueue(i)' /\ BwdOut(i)' = BwdOut(i) + 1
          /\ Head(bwdQ[i]) \in BwdCells /\ Reply(i, BwdOut(i), Head(bwdQ[i]))
      BY <1>1, <1>2, <1>4, BwdQueueTail
    <2>2. BwdIn(i)' = BwdIn(i) /\ BwdDue(i)'
      BY <1>2, <1>4, <1>8 DEF BwdIn, BwdDue, ReplyValue
    <2>3. Layered(i, BwdOut(i), Head(bwdQ[i])) /\ BwdOut(i) < replies'
      BY <1>4, <2>1 DEF Reply
    <2>4. BwdMove(i)
      BY <1>1, <1>3, <1>4, <1>5, <2>1, <2>2, <2>3, BwdCarried
    <2> QED BY <1>8, <2>1, <2>2, <2>4 DEF BwdNext
  <1>9. CASE l # i
    <2>1. bwd'[l] = bwd[l] /\ bwdQ'[l] = bwdQ[l]
      BY <1>3, <1>4, <1>5, <1>9 DEF Carry
    <2> QED BY <1>1, <1>2, <1>4, <1>6, <1>7, <2>1, BwdStill
  <1> QED BY <1>8, <1>9

\* Orderly relays do nothing to a reply.
LEMMA NoFaultBwd ==
  ASSUME Orderly, NEW i \in Hops
  PROVE  ~FaultBwd(i)
  <1> SUFFICES ASSUME FaultBwd(i) PROVE FALSE
    OBVIOUS
  <1>1. FaultKinds \subseteq {"fwdJunk"}
    BY DEF Orderly, FaultBwd
  <1>2. {"lose", "copy", "swap", "restamp", "bwdJunk"} \cap FaultKinds = {}
    BY <1>1
  <1>3. Disturbed(bwd[i]) = {}
    BY <1>2 DEF Disturbed
  <1>4. BwdForged(i, bwd[i]) = {}
    BY <1>2 DEF BwdForged
  <1> QED BY <1>3, <1>4 DEF FaultBwd

\* Every step keeps the replies on link l and at hop l in order.
LEMMA BwdStep ==
  ASSUME AnswerInv, Orderly, Ordered, [Next]_vars, NEW l \in Hops
  PROVE  BwdNext(l)
  <1>1. ASSUME NEW i \in Hops, HandleSetupFails(i) \/ HandleForwardFails(i)
                                 \/ HandleDeliverFails(i) \/ HandleEnds(i)
        PROVE  BwdNext(l)
    <2>1. /\ EndHop(i) /\ want' = want /\ bwdSeq' = bwdSeq /\ hop[i] \in {"idle", "live"}
          /\ replies' = replies \/ i = N
      BY <1>1 DEF HandleSetupFails, HandleForwardFails, HandleDeliverFails, HandleEnds,
        TakesData, Reading, clientVars
    <2> QED BY <2>1, BwdEndHop
  <1>2. ASSUME NEW i \in Hops, HopStep(i) PROVE BwdNext(l)
    BY <1>1, <1>2, BwdQuiet, BwdDeliver, NoForwardOutOfTurn DEF HopStep
  <1>3. ASSUME NEW i \in Hops, BackStep(i) PROVE BwdNext(l)
    BY <1>3, BwdBackward, BwdBreak DEF BackStep
  <1>4. ASSUME NEW i \in Hops,
               \/ TickFwd(i) \/ TickFwdFails(i) \/ TickBwd(i) \/ TickBwdFails(i) \/ Expire(i)
               \/ Cut(i) \/ Stall(i) \/ LoseTail(i) \/ FaultFwd(i) \/ FaultBwd(i)
        PROVE  BwdNext(l)
    BY <1>4, BwdQuiet, BwdBreak, BwdTick, NoFaultBwd
  <1>5. CASE ClientSend \/ ClientReceive \/ ClientEnds \/ ClientClose \/ UNCHANGED vars
    BY <1>5, BwdQuiet, BwdClient
  <1> QED BY <1>2, <1>3, <1>4, <1>5 DEF Next

-----------------------------------------------------------------------------
(* The life of a hop.                                                      *)

\* A hop counts and queues nothing before it has a circuit, and its link appears
\* with its setup.
Stays(j) ==
  /\ hop'[j] = "idle" =>
       /\ hop[j] = "idle"
       /\ fwdSeq'[j] = fwdSeq[j] /\ bwdSeq'[j] = bwdSeq[j] /\ back'[j] = back[j]
       /\ fwdQ'[j] = fwdQ[j] /\ bwdQ'[j] = bwdQ[j] /\ (j = N => replies' = replies)
  /\ far[j] = "none" => far'[j] = "none" \/ fwd'[j] = <<SetupCell(j)>>

\* A hop that stays without a circuit still has its setup to read first.
LEMMA BornKept ==
  ASSUME TypeOK, NEW j \in Hops, Born(j), FwdMove(j), Linked(j)', Stays(j)
  PROVE  Born(j)'
  <1> SUFFICES ASSUME hop'[j] = "idle" PROVE Fresh(j)' /\ Waits(j)'
    BY DEF Born
  <1>1. hop[j] = "idle" /\ Fresh(j) /\ Waits(j) /\ Linked(j)
    BY DEF Stays, Born
  <1>2. Fresh(j)'
    BY <1>1 DEF Fresh, Stays
  <1>3. fwd[j] \in Seq(FwdCells)
    BY DEF TypeOK, LinkType
  <1>4. CASE far'[j] = "none"
    <2>1. fwd'[j] = <<>>
      BY <1>4 DEF Linked
    <2> QED BY <1>2, <1>4, <2>1 DEF Waits
  <1>5. CASE fwd'[j] = <<SetupCell(j)>>
    BY <1>2, <1>5 DEF Waits
  <1>6. CASE far[j] # "none"
    <2>1. CASE FwdKept(j)
      BY <1>1, <1>2, <1>6, <2>1 DEF Waits, FwdKept
    <2>2. CASE FwdCleared(j)
      BY <1>2, <2>2 DEF Waits, FwdCleared
    <2>3. CASE FwdTaken(j)
      <3>1. ~FwdAble(j) /\ \A k \in 1 .. Len(fwd[j]) : fwd[j][k].n = NoLayer
        BY <1>1, <1>6, <2>3 DEF Waits, FwdTaken
      <3>2. fwd'[j] = Tail(fwd[j]) /\ ~FwdAble(j)'
        BY <2>3, <3>1 DEF FwdTaken
      <3>3. \A k \in 1 .. Len(Tail(fwd[j])) : k + 1 \in 1 .. Len(fwd[j]) /\ Tail(fwd[j])[k] = fwd[j][k + 1]
        BY <1>3, <2>3 DEF FwdTaken
      <3> QED BY <1>2, <3>1, <3>2, <3>3 DEF Waits
    <2>4. CASE FwdWritten(j)
      <3>1. PICK c \in FwdCells :
              /\ fwd'[j] = Append(fwd[j], c) /\ (FwdAble(j)' => FwdAble(j))
              /\ c.n # NoLayer => FwdAble(j)
        BY <2>4 DEF FwdWritten
      <3>2. CASE fwd[j] # <<>> /\ Head(fwd[j]) = SetupCell(j)
        <4>1. Append(fwd[j], c) # <<>> /\ Head(Append(fwd[j], c)) = Head(fwd[j])
          BY <1>3, <3>2
        <4> QED BY <1>2, <3>1, <3>2, <4>1 DEF Waits
      <3>3. CASE ~FwdAble(j) /\ \A k \in 1 .. Len(fwd[j]) : fwd[j][k].n = NoLayer
        <4>1. /\ Len(fwd[j]) \in Nat /\ Len(Append(fwd[j], c)) = Len(fwd[j]) + 1
              /\ Append(fwd[j], c)[Len(fwd[j]) + 1] = c
              /\ \A k \in 1 .. Len(fwd[j]) : Append(fwd[j], c)[k] = fwd[j][k]
          BY <1>3
        <4>2. \A k \in 1 .. Len(fwd[j]) + 1 : k \in 1 .. Len(fwd[j]) \/ k = Len(fwd[j]) + 1
          BY <4>1
        <4> QED BY <1>2, <3>1, <3>3, <4>1, <4>2 DEF Waits
      <3> QED BY <1>1, <1>6, <3>2, <3>3 DEF Waits
    <2>5. CASE FwdLost(j)
      <3>1. fwd[j] # <<>> /\ fwd'[j] = SubSeq(fwd[j], 1, Len(fwd[j]) - 1) /\ ~FwdAble(j)'
        BY <2>5 DEF FwdLost
      <3>2. /\ Len(fwd[j]) \in Nat /\ Len(fwd'[j]) = Len(fwd[j]) - 1
            /\ \A k \in 1 .. Len(fwd[j]) - 1 : fwd'[j][k] = fwd[j][k]
            /\ fwd'[j] \in Seq(FwdCells)
        BY <1>3, <3>1, FrontParts, SeqFront
      <3>3. CASE Head(fwd[j]) = SetupCell(j)
        <4>1. CASE fwd'[j] = <<>>
          BY <1>2, <3>1, <4>1 DEF Waits
        <4>2. CASE fwd'[j] # <<>>
          <5>1. 1 \in 1 .. Len(fwd[j]) - 1 /\ Head(fwd'[j]) = fwd'[j][1] /\ Head(fwd[j]) = fwd[j][1]
            BY <1>3, <3>1, <3>2, <4>2
          <5> QED BY <1>2, <3>2, <3>3, <4>2, <5>1 DEF Waits
        <4> QED BY <4>1, <4>2
      <3>4. CASE \A k \in 1 .. Len(fwd[j]) : fwd[j][k].n = NoLayer
        <4>1. \A k \in 1 .. Len(fwd'[j]) : k \in 1 .. Len(fwd[j]) /\ fwd'[j][k] = fwd[j][k]
          BY <3>2
        <4> QED BY <1>2, <3>1, <3>4, <4>1 DEF Waits
      <3> QED BY <1>1, <3>3, <3>4 DEF Waits
    <2> QED BY <2>1, <2>2, <2>3, <2>4, <2>5 DEF FwdMove
  <1> QED BY <1>4, <1>5, <1>6 DEF Stays

\* A step in which no hop starts or ends.
LEMMA LinkedQuiet ==
  ASSUME NEW j \in Hops, Linked(j), hop' = hop,
         \A l \in Hops : near'[l] = near[l] \/ (near'[l] = "closed" /\ (l = 1 \/ near[l] # "none")),
         \A l \in Hops : far'[l] = far[l] \/ (far'[l] = "closed" /\ far[l] # "none"),
         far[j] = "none" => fwd'[j] = fwd[j]
  PROVE  Linked(j)'
  <1>1. far'[j] = "none" => hop'[j] = "idle" /\ fwd'[j] = <<>>
    BY DEF Linked
  <1>2. hop'[j] = "gone" => far'[j] = "closed"
    BY DEF Linked
  <1>3. ASSUME j < N
        PROVE  /\ hop'[j] = "idle" => near'[j + 1] = "none" /\ far'[j + 1] = "none"
               /\ hop'[j] = "live" => near'[j + 1] # "none" /\ far'[j + 1] # "none"
    <2>1. j + 1 \in Hops /\ j + 1 # 1
      BY <1>3, ChainAssumption DEF Hops
    <2> QED BY <1>3, <2>1 DEF Linked
  <1> QED BY <1>1, <1>2, <1>3 DEF Linked

\* The steps in which no hop starts or ends leave links and idle hops alone;
LEMMA BornQuiet ==
  ASSUME AnswerInv, Orderly, Ordered, NEW j \in Hops,
         \/ ClientSend \/ ClientReceive \/ ClientEnds \/ ClientClose \/ UNCHANGED vars
         \/ \E i \in Hops :
              \/ HandleStray(i) \/ HandleForward(i) \/ HandleDeliver(i) \/ BackStep(i)
              \/ TickFwd(i) \/ TickFwdFails(i) \/ TickBwd(i) \/ TickBwdFails(i)
              \/ Expire(i) \/ Cut(i) \/ Stall(i) \/ LoseTail(i) \/ FaultFwd(i) \/ FaultBwd(i)
  PROVE  Linked(j)' /\ Stays(j) /\ (far[j] # "none" => far'[j] # "none")
  <1>1. TypeOK
    BY DEF AnswerInv, ExitInv
  <1>2. /\ \A l \in Hops : Linked(l)
        /\ \A l \in Hops : hop[l] = "idle" => back[l] = "none"
        /\ 1 \in Hops /\ far[1] # "none"
    BY ChainAssumption DEF Ordered, Births, Born, Fresh, Hops
  <1>3. /\ near \in [Hops -> LinkEnds] /\ far \in [Hops -> LinkEnds]
        /\ fwd \in [Hops -> Seq(FwdCells)] /\ bwdSeq \in [Hops -> SequenceStates]
        /\ fwdSeq \in [Hops -> SequenceStates] /\ back \in [Hops -> {"none", "run", "done"}]
        /\ fwdQ \in [Hops -> Seq(FwdCells)] /\ bwdQ \in [Hops -> Seq(BwdCells)]
    BY <1>1 DEF TypeOK, LinkType, HopType
  <1>4. CASE ClientSend \/ ClientReceive \/ ClientEnds \/ ClientClose \/ UNCHANGED vars
    <2>1. /\ UNCHANGED <<hop, back, fwdSeq, bwdSeq, fwdQ, bwdQ, replies, far>>
          /\ near' = near \/ near' = [near EXCEPT ![1] = "closed"]
      BY <1>4 DEF ClientSend, ClientReceive, ClientEnds, ClientClose, vars, hopVars, linkVars
    <2>2. far[j] = "none" => fwd'[j] = fwd[j]
      BY <1>2, <1>3, <1>4 DEF ClientSend, ClientReceive, ClientEnds, ClientClose, vars, linkVars, Carry
    <2>3. /\ \A l \in Hops :
             near'[l] = near[l] \/ (near'[l] = "closed" /\ (l = 1 \/ near[l] # "none"))
          /\ \A l \in Hops : far'[l] = far[l] \/ (far'[l] = "closed" /\ far[l] # "none")
      BY <1>3, <2>1
    <2>4. Linked(j) /\ hop' = hop
      BY <1>2, <2>1
    <2>5. Linked(j)'
      BY ONLY <2>2, <2>3, <2>4, LinkedQuiet, j \in Hops
    <2> QED BY <2>1, <2>5 DEF Stays
  <1>5. ASSUME NEW i \in Hops, HandleStray(i) \/ HandleForward(i) \/ HandleDeliver(i)
        PROVE  Linked(j)' /\ Stays(j) /\ (far[j] # "none" => far'[j] # "none")
    <2>1. UNCHANGED <<hop, back, bwdSeq, near, far>> /\ far[i] = "open"
      BY <1>5 DEF HandleStray, HandleForward, HandleDeliver, TakesData, Reading, hopVars
    <2>2. /\ \A l \in Hops :
             near'[l] = near[l] \/ (near'[l] = "closed" /\ (l = 1 \/ near[l] # "none"))
          /\ \A l \in Hops : far'[l] = far[l] \/ (far'[l] = "closed" /\ far[l] # "none")
          /\ Linked(j) /\ hop' = hop
      BY <1>2, <2>1
    <2>3. CASE HandleStray(i)
      <3>1. far[j] = "none" => fwd'[j] = fwd[j]
        BY <1>3, <2>1, <2>3 DEF HandleStray
      <3>2. Linked(j)'
        BY ONLY <2>2, <3>1, LinkedQuiet, j \in Hops
      <3> QED BY <2>1, <2>3, <3>2 DEF Stays, HandleStray, hopVars
    <2>4. CASE HandleForward(i)
      <3>1. hop[i] = "live" /\ i + 1 \in Hops /\ i < N
        BY <2>4, ChainAssumption DEF HandleForward, TakesData, Hops
      <3>2. far[i + 1] # "none"
        BY <1>2, <3>1 DEF Linked
      <3>3. far[j] = "none" => fwd'[j] = fwd[j]
        <4>1. \/ fwd' = [fwd EXCEPT ![i] = Tail(@)]
              \/ \E c : \E o : fwd' = Carry([fwd EXCEPT ![i] = Tail(@)], i + 1, c, o)
          BY <2>4 DEF HandleForward
        <4> QED BY <1>3, <2>1, <3>1, <3>2, <4>1 DEF Carry
      <3>4. Linked(j)'
        BY ONLY <2>2, <3>3, LinkedQuiet, j \in Hops
      <3>5. /\ bwdQ' = bwdQ /\ replies' = replies
            /\ j # i => fwdSeq'[j] = fwdSeq[j] /\ fwdQ'[j] = fwdQ[j]
        BY <1>3, <2>4 DEF HandleForward, TakesData
      <3> QED BY <2>1, <3>1, <3>4, <3>5 DEF Stays
    <2>5. CASE HandleDeliver(i)
      <3>1. hop[i] = "live" /\ i = N
        BY <2>5 DEF HandleDeliver, TakesData
      <3>2. far[j] = "none" => fwd'[j] = fwd[j]
        BY <1>3, <2>1, <2>5 DEF HandleDeliver
      <3>3. Linked(j)'
        BY ONLY <2>2, <3>2, LinkedQuiet, j \in Hops
      <3>4. fwdQ' = fwdQ /\ (j # i => fwdSeq'[j] = fwdSeq[j] /\ bwdQ'[j] = bwdQ[j])
        BY <1>3, <2>5 DEF HandleDeliver, TakesData
      <3> QED BY <2>1, <3>1, <3>3, <3>4 DEF Stays
    <2> QED BY <1>5, <2>3, <2>4, <2>5
  <1>6. ASSUME NEW i \in Hops, BackStep(i)
        PROVE  Linked(j)' /\ Stays(j) /\ (far[j] # "none" => far'[j] # "none")
    <2>1. back[i] = "run"
      BY <1>6 DEF BackStep, Backward, BackwardFails, BackwardEnds, ReadingBack
    <2>2. hop[i] # "idle" /\ far[i] # "none"
      BY <1>2, <2>1 DEF Linked
    <2>3. UNCHANGED <<hop, near, fwdSeq, fwdQ, replies>>
      BY <1>6 DEF BackStep, Backward, BackwardFails, BackwardEnds
    <2>4. /\ far' = far \/ far' = [far EXCEPT ![i] = "closed"]
          /\ fwd' = fwd \/ fwd' = [fwd EXCEPT ![i] = <<>>]
          /\ \A l \in Hops : l # i => /\ back'[l] = back[l] /\ bwdSeq'[l] = bwdSeq[l]
                                      /\ bwdQ'[l] = bwdQ[l]
      BY <1>3, <1>6 DEF BackStep, Backward, BackwardFails, BackwardEnds, EndBackward
    <2>5. /\ far[j] = "none" => fwd'[j] = fwd[j]
          /\ \A l \in Hops : far'[l] = far[l] \/ (far'[l] = "closed" /\ far[l] # "none")
      BY <1>3, <2>2, <2>4
    <2>6. /\ \A l \in Hops :
             near'[l] = near[l] \/ (near'[l] = "closed" /\ (l = 1 \/ near[l] # "none"))
          /\ Linked(j) /\ hop' = hop
      BY <1>2, <2>3
    <2>7. Linked(j)'
      BY ONLY <2>5, <2>6, LinkedQuiet, j \in Hops
    <2> QED BY <2>2, <2>3, <2>4, <2>5, <2>7 DEF Stays
  <1>7. ASSUME NEW i \in Hops, TickFwd(i) \/ TickFwdFails(i) \/ TickBwd(i) \/ TickBwdFails(i)
        PROVE  Linked(j)' /\ Stays(j) /\ (far[j] # "none" => far'[j] # "none")
    <2>1. hop[i] = "live" /\ UNCHANGED <<hop, back, fwdSeq, bwdSeq, replies>>
      BY <1>7 DEF TickFwd, TickFwdFails, TickBwd, TickBwdFails
    <2>2. j # i => fwdQ'[j] = fwdQ[j] /\ bwdQ'[j] = bwdQ[j]
      BY <1>3, <1>7 DEF TickFwd, TickFwdFails, TickBwd, TickBwdFails
    <2>3. /\ near' = near \/ (near' = [near EXCEPT ![i + 1] = "closed"] /\ near[i + 1] = "open")
          /\ far' = far \/ (far' = [far EXCEPT ![i] = "closed"] /\ far[i] = "open")
      BY <1>7 DEF TickFwd, TickFwdFails, TickBwd, TickBwdFails
    <2>4. \A l \in Hops : near'[l] = near[l] \/ (near'[l] = "closed" /\ (l = 1 \/ near[l] # "none"))
      BY <1>3, <2>3
    <2>5. \A l \in Hops : far'[l] = far[l] \/ (far'[l] = "closed" /\ far[l] # "none")
      BY <1>3, <2>3
    <2>6. Linked(j) /\ hop' = hop
      BY <1>2, <2>1
    <2>7. far[j] = "none" => fwd'[j] = fwd[j]
      <3>1. CASE TickFwd(i)
        <4>1. i + 1 \in Hops /\ i < N
          BY <3>1, ChainAssumption DEF TickFwd, Hops
        <4>2. far[i + 1] # "none"
          BY <1>2, <2>1, <4>1 DEF Linked
        <4> QED BY <1>3, <3>1, <4>1, <4>2 DEF TickFwd, Carry
      <3>2. CASE TickFwdFails(i) \/ TickBwd(i) \/ TickBwdFails(i)
        BY <1>3, <3>2 DEF TickFwdFails, TickBwd, TickBwdFails
      <3> QED BY <1>7, <3>1, <3>2
    <2>8. Linked(j)'
      BY ONLY <2>7, <2>4, <2>5, <2>6, LinkedQuiet, j \in Hops
    <2> QED BY <2>1, <2>2, <2>8, <2>5 DEF Stays
  <1>8. ASSUME NEW i \in Hops,
               Expire(i) \/ Cut(i) \/ Stall(i) \/ LoseTail(i) \/ FaultFwd(i) \/ FaultBwd(i)
        PROVE  Linked(j)' /\ Stays(j) /\ (far[j] # "none" => far'[j] # "none")
    <2>1. UNCHANGED <<hop, back, fwdSeq, bwdSeq, fwdQ, bwdQ, replies, near>>
      BY <1>8 DEF Expire, Cut, Stall, LoseTail, FaultFwd, FaultBwd, hopVars
    <2>2. far' = far \/ (far' = [far EXCEPT ![i] = "closed"] /\ far[i] = "open")
      BY <1>8 DEF Expire, Cut, Stall, LoseTail, FaultFwd, FaultBwd
    <2>3. \A l \in Hops : far'[l] = far[l] \/ (far'[l] = "closed" /\ far[l] # "none")
      BY <1>3, <2>2
    <2>4. /\ \A l \in Hops :
             near'[l] = near[l] \/ (near'[l] = "closed" /\ (l = 1 \/ near[l] # "none"))
          /\ Linked(j) /\ hop' = hop
      BY <1>2, <2>1
    <2>5. far[j] = "none" => fwd[j] = <<>>
      BY <1>2 DEF Linked
    <2>6. far[j] = "none" => fwd'[j] = fwd[j]
      BY <1>3, <1>8, <2>5 DEF Expire, Cut, Stall, LoseTail, FaultFwd, FaultBwd
    <2>7. Linked(j)'
      BY ONLY <2>3, <2>6, <2>4, LinkedQuiet, j \in Hops
    <2> QED BY <2>1, <2>3, <2>7 DEF Stays
  <1> QED BY <1>4, <1>5, <1>6, <1>7, <1>8

\* The handler of hop i returns.
LEMMA BornEndHop ==
  ASSUME TypeOK, Births, NEW i \in Hops, NEW j \in Hops, EndHop(i), far[i] # "none",
         hop[i] \in {"idle", "live"}, bwdSeq' = bwdSeq,
         fwdSeq' = fwdSeq \/ TakesData(i), replies' = replies \/ i = N
  PROVE  Linked(j)' /\ Stays(j) /\ (far[j] # "none" => far'[j] # "none")
  <1>1. Linked(j)
    BY DEF Births, Born
  <1>2. /\ hop \in [Hops -> {"idle", "live", "gone"}] /\ back \in [Hops -> {"none", "run", "done"}]
        /\ fwdSeq \in [Hops -> SequenceStates] /\ fwdQ \in [Hops -> Seq(FwdCells)]
        /\ bwdQ \in [Hops -> Seq(BwdCells)] /\ far \in [Hops -> LinkEnds]
        /\ fwd \in [Hops -> Seq(FwdCells)]
    BY DEF TypeOK, HopType, LinkType
  <1>3. /\ hop'[i] = "gone" /\ far'[i] = "closed"
        /\ \A l \in Hops : l # i => /\ hop'[l] = hop[l] /\ back'[l] = back[l] /\ fwdQ'[l] = fwdQ[l]
                                    /\ bwdQ'[l] = bwdQ[l] /\ far'[l] = far[l] /\ fwd'[l] = fwd[l]
        /\ \A l \in Hops : l # i + 1 => near'[l] = near[l]
        /\ \A l \in Hops : l # i => fwdSeq'[l] = fwdSeq[l]
    BY <1>2 DEF EndHop, TakesData
  <1>4. Linked(j)'
    <2>1. CASE j = i
      BY <1>3, <2>1 DEF Linked
    <2>2. CASE j # i
      <3>1. ASSUME j < N
            PROVE  /\ hop'[j] = "idle" => near'[j + 1] = "none" /\ far'[j + 1] = "none"
                   /\ hop'[j] = "live" => near'[j + 1] # "none" /\ far'[j + 1] # "none"
        <4>1. j + 1 \in Hops /\ j + 1 # i + 1
          BY <2>2, <3>1, ChainAssumption DEF Hops
        <4>2. near'[j + 1] = near[j + 1] /\ hop'[j] = hop[j]
          BY <1>3, <2>2, <4>1
        <4>3. CASE j + 1 = i
          BY <1>1, <1>3, <3>1, <4>2, <4>3 DEF Linked
        <4>4. CASE j + 1 # i
          BY <1>1, <1>3, <3>1, <4>1, <4>2, <4>4 DEF Linked
        <4> QED BY <4>3, <4>4
      <3> QED BY <1>1, <1>3, <2>2, <3>1 DEF Linked
    <2> QED BY <2>1, <2>2
  <1> QED BY <1>3, <1>4 DEF Stays

\* Hop i has read its setup, and dialled the next one.
LEMMA BornSetup ==
  ASSUME TypeOK, Births, NEW i \in Hops, NEW j \in Hops, HandleSetup(i)
  PROVE  Linked(j)' /\ Stays(j) /\ (far[j] # "none" => far'[j] # "none")
  <1>1. Linked(i) /\ Linked(j)
    BY DEF Births, Born
  <1>2. /\ hop \in [Hops -> {"idle", "live", "gone"}] /\ back \in [Hops -> {"none", "run", "done"}]
        /\ fwdSeq \in [Hops -> SequenceStates]
        /\ far \in [Hops -> LinkEnds] /\ near \in [Hops -> LinkEnds]
        /\ fwd \in [Hops -> Seq(FwdCells)]
    BY DEF TypeOK, HopType, LinkType
  <1>3. /\ hop[i] = "idle" /\ far[i] = "open"
        /\ hop'[i] = "live" /\ UNCHANGED <<bwdSeq, fwdQ, bwdQ, replies>>
        /\ \A l \in Hops : l # i => /\ hop'[l] = hop[l] /\ back'[l] = back[l]
                                    /\ fwdSeq'[l] = fwdSeq[l]
    BY <1>2 DEF HandleSetup, Reading
  <1>4. CASE i = N
    <2>1. UNCHANGED <<near, far>> /\ \A l \in Hops : l # i => fwd'[l] = fwd[l]
      BY <1>2, <1>4 DEF HandleSetup
    <2>2. Linked(j)'
      <3>1. CASE j = i
        <4>1. ~(j < N) /\ far'[j] = "open" /\ hop'[j] = "live"
          BY <1>3, <1>4, <2>1, <3>1, ChainAssumption
        <4> QED BY <4>1 DEF Linked
      <3>2. CASE j # i
        BY <1>1, <1>3, <2>1, <3>2 DEF Linked
      <3> QED BY <3>1, <3>2
    <2> QED BY <1>3, <2>1, <2>2 DEF Stays
  <1>5. CASE i # N
    <2>1. i < N /\ i + 1 \in Hops /\ i + 1 # i
      BY <1>5, ChainAssumption DEF Hops
    <2>2. /\ near'[i + 1] = "open" /\ far'[i + 1] = "open" /\ fwd'[i + 1] = <<SetupCell(i + 1)>>
          /\ \A l \in Hops : l # i + 1 => near'[l] = near[l] /\ far'[l] = far[l]
          /\ \A l \in Hops : l # i /\ l # i + 1 => fwd'[l] = fwd[l]
      <3>1. /\ near' = [near EXCEPT ![i + 1] = "open"] /\ far' = [far EXCEPT ![i + 1] = "open"]
            /\ fwd' = [fwd EXCEPT ![i] = Tail(@), ![i + 1] = <<SetupCell(i + 1)>>]
        BY <1>5 DEF HandleSetup
      <3> QED BY <1>2, <2>1, <3>1
    <2>3. Linked(j)'
      <3>1. CASE j = i
        BY <1>3, <2>1, <2>2, <3>1 DEF Linked
      <3>2. CASE j # i
        <4>1. j < N => j + 1 \in Hops /\ j + 1 # i + 1
          BY <3>2, ChainAssumption DEF Hops
        <4>2. far'[j] = "none" => hop'[j] = "idle" /\ fwd'[j] = <<>>
          BY <1>1, <1>3, <2>2, <3>2 DEF Linked
        <4>3. hop'[j] = "gone" => far'[j] = "closed"
          <5>1. far[i + 1] = "none"
            BY <1>1, <1>3, <2>1 DEF Linked
          <5>2. CASE j = i + 1
            BY <1>1, <1>3, <3>2, <5>1, <5>2 DEF Linked
          <5>3. CASE j # i + 1
            BY <1>1, <1>3, <2>2, <3>2, <5>3 DEF Linked
          <5> QED BY <5>2, <5>3
        <4>4. hop'[j] = hop[j] /\ (j < N => near'[j + 1] = near[j + 1] /\ far'[j + 1] = far[j + 1])
          BY <1>3, <2>2, <3>2, <4>1
        <4> QED BY <1>1, <4>2, <4>3, <4>4 DEF Linked
      <3> QED BY <3>1, <3>2
    <2>4. far[j] = "none" => far'[j] = "none" \/ fwd'[j] = <<SetupCell(j)>>
      BY <2>2
    <2>5. far[j] # "none" => far'[j] # "none"
      BY <2>2
    <2> QED BY <1>3, <2>3, <2>4, <2>5 DEF Stays
  <1> QED BY <1>4, <1>5

\* so does every other step.
LEMMA BornStep ==
  ASSUME AnswerInv, Orderly, Ordered, [Next]_vars, NEW j \in Hops
  PROVE  Linked(j)' /\ Stays(j) /\ (far[j] # "none" => far'[j] # "none")
  <1>1. TypeOK /\ Births
    BY DEF AnswerInv, ExitInv, Ordered
  <1>2. ASSUME NEW i \in Hops, HandleSetupFails(i) \/ HandleForwardFails(i)
                                 \/ HandleDeliverFails(i) \/ HandleEnds(i)
        PROVE  Linked(j)' /\ Stays(j) /\ (far[j] # "none" => far'[j] # "none")
    <2>1. /\ EndHop(i) /\ bwdSeq' = bwdSeq /\ hop[i] \in {"idle", "live"} /\ far[i] # "none"
          /\ fwdSeq' = fwdSeq \/ TakesData(i)
          /\ replies' = replies \/ i = N
      BY <1>2 DEF HandleSetupFails, HandleForwardFails, HandleDeliverFails, HandleEnds,
        TakesData, Reading
    <2> QED BY <1>1, <2>1, BornEndHop
  <1>3. ASSUME NEW i \in Hops, HopStep(i)
        PROVE  Linked(j)' /\ Stays(j) /\ (far[j] # "none" => far'[j] # "none")
    BY <1>1, <1>2, <1>3, BornSetup, BornQuiet, NoForwardOutOfTurn DEF HopStep
  <1> QED BY <1>3, BornQuiet DEF Next

-----------------------------------------------------------------------------
(* Nobody sees a cell out of turn.                                         *)

\* No step finds a cell out of turn, and the client refuses none.
LEMMA TurnsKept ==
  ASSUME AnswerInv, Orderly, Ordered, [Next]_vars
  PROVE  turns' = turns /\ refused' = refused
  <1>1. ASSUME NEW i \in Hops, HopStep(i) PROVE turns' = turns /\ refused' = refused
    BY <1>1, NoForwardOutOfTurn DEF HopStep, HandleSetup, HandleSetupFails, HandleStray, HandleForward,
      HandleForwardFails, HandleDeliver, HandleDeliverFails, HandleEnds, hopVars, clientVars
  <1>2. ASSUME NEW i \in Hops, BackStep(i) PROVE turns' = turns /\ refused' = refused
    BY <1>2, NoReplyOutOfTurn DEF BackStep, Backward, BackwardFails, BackwardEnds, clientVars
  <1>3. ASSUME NEW i \in Hops,
               \/ TickFwd(i) \/ TickFwdFails(i) \/ TickBwd(i) \/ TickBwdFails(i) \/ Expire(i)
               \/ Cut(i) \/ Stall(i) \/ LoseTail(i) \/ FaultFwd(i) \/ FaultBwd(i)
        PROVE  turns' = turns /\ refused' = refused
    BY <1>3 DEF TickFwd, TickFwdFails, TickBwd, TickBwdFails, Expire, Cut, Stall, LoseTail, FaultFwd,
      FaultBwd, hopVars, clientVars
  <1>4. CASE ClientReceive
    <2>1. 1 \in Hops
      BY ChainAssumption DEF Hops
    <2> QED BY <1>4, <2>1, BwdClient DEF ClientReceive, hopVars
  <1>5. CASE ClientSend \/ ClientEnds \/ ClientClose \/ UNCHANGED vars
    BY <1>5 DEF ClientSend, ClientEnds, ClientClose, vars, hopVars, clientVars
  <1> QED BY <1>1, <1>2, <1>3, <1>4, <1>5 DEF Next

LEMMA OrderInit == Init => OrderInv
  <1> SUFFICES ASSUME Init PROVE OrderInv
    OBVIOUS
  <1>1. AnswerInv /\ OrderlyInTurn
    BY AnswerInit DEF Init, OrderlyInTurn
  <1>2. TypeOK
    BY <1>1 DEF AnswerInv, ExitInv
  <1>3. /\ far[1] # "none" /\ N \in Nat /\ 1 \in Hops
        /\ \A i \in Hops : i + 1 # 1 /\ i \in Nat /\ (i < N => i + 1 \in Hops)
        /\ \A i \in Hops : i # 1 => i - 1 \in Hops
    BY ChainAssumption DEF Init, Hops
  <1>4. ASSUME NEW i \in Hops PROVE Born(i)
    <2>1. hop[i] = "idle" /\ Fresh(i)
      BY DEF Init, Fresh
    <2>2. Linked(i)
      BY <1>3 DEF Init, Linked
    <2>3. Waits(i)
      <3>1. CASE i = 1
        <4>1. fwd[i] = <<SetupCell(1)>>
          BY <3>1 DEF Init
        <4> QED BY <3>1, <4>1 DEF Waits
      <3>2. CASE i # 1
        <4>1. fwd[i] = <<>> /\ far[i] = "none"
          BY <3>2 DEF Init
        <4> QED BY <4>1 DEF Waits
      <3> QED BY <3>1, <3>2
    <2> QED BY <2>1, <2>2, <2>3 DEF Born
  <1>5. ASSUME NEW i \in Hops PROVE FwdLink(i) /\ FwdQueue(i) /\ FwdDue(i)
    <2>1. FwdIn(i) = 0 /\ FwdOut(i) = 0
      BY <1>3 DEF Init, FwdIn, FwdOut, NewSequence
    <2>2. \A k \in 1 .. Len(fwd[i]) : fwd[i][k].n = NoLayer
      <3>1. SetupCell(1).n = NoLayer
        BY DEF SetupCell
      <3>2. fwd[i] = <<>> \/ fwd[i] = <<SetupCell(1)>>
        BY DEF Init
      <3> QED BY <3>1, <3>2
    <2>3. FwdLink(i)
      BY <2>1, <2>2 DEF FwdLink, Stream, Full, Opens
    <2>4. fwdQ[i] = <<>> /\ ~fwdSeq[i].seeded
      BY DEF Init, NewSequence
    <2> QED BY <2>3, <2>4 DEF FwdQueue, FwdDue
  <1>6. ASSUME NEW i \in Hops PROVE BwdLink(i) /\ BwdQueue(i) /\ BwdDue(i)
    <2>1. BwdIn(i) = 0 /\ BwdOut(i) = 0
      BY <1>3 DEF Init, BwdIn, BwdOut, Counter, NewSequence
    <2>2. bwdQ[i] = <<>> /\ bwd[i] = <<>> /\ ~bwdSeq[i].seeded
      BY DEF Init, NewSequence
    <2> QED BY <2>1, <2>2 DEF BwdLink, BwdQueue, BwdDue
  <1> QED BY <1>1, <1>3, <1>4, <1>5, <1>6 DEF OrderInv, Ordered, Births, FwdOrder, BwdOrder

LEMMA OrderNext == OrderInv /\ [Next]_vars => OrderInv'
  <1> SUFFICES ASSUME OrderInv, [Next]_vars PROVE OrderInv'
    OBVIOUS
  <1>1. AnswerInv /\ AnswerInv' /\ TypeOK /\ TypeOK'
    BY AnswerNext DEF OrderInv, AnswerInv, ExitInv
  <1>2. AnswerInv /\ AnswerInv' /\ TypeOK /\ TypeOK' /\ circ' = circ /\ replies <= replies'
    BY <1>1, RepliesGrow
  <1>3. CASE Orderly
    <2>1. Ordered
      BY <1>3 DEF OrderInv
    <2>2. OrderlyInTurn'
      BY <1>2, <1>3, <2>1, TurnsKept DEF OrderInv, OrderlyInTurn
    <2>3. ASSUME NEW l \in Hops PROVE FwdLink(l)' /\ FwdQueue(l)' /\ FwdDue(l)' /\ Born(l)'
      <3>1. FwdMove(l) /\ FwdQueue(l)' /\ FwdDue(l)'
        BY <1>2, <1>3, <2>1, FwdStep DEF FwdNext
      <3>2. FwdLink(l) /\ Born(l)
        BY <2>1 DEF Ordered, FwdOrder, Births
      <3>3. Linked(l)' /\ Stays(l)
        BY <1>2, <1>3, <2>1, BornStep
      <3> QED BY <1>2, <3>1, <3>2, <3>3, FwdMoves, BornKept
    <2>4. ASSUME NEW l \in Hops PROVE BwdLink(l)' /\ BwdQueue(l)' /\ BwdDue(l)'
      <3>1. BwdMove(l) /\ BwdQueue(l)' /\ BwdDue(l)'
        BY <1>2, <1>3, <2>1, BwdStep DEF BwdNext
      <3>2. BwdLink(l)
        BY <2>1 DEF Ordered, BwdOrder
      <3> QED BY <1>2, <3>1, <3>2, BwdMoves
    <2>5. far'[1] # "none"
      <3>1. 1 \in Hops /\ far[1] # "none"
        BY <2>1, ChainAssumption DEF Ordered, Births, Hops
      <3> QED BY <1>2, <1>3, <2>1, <3>1, BornStep
    <2> QED BY <1>2, <2>2, <2>3, <2>4, <2>5 DEF OrderInv, Ordered, Births, FwdOrder, BwdOrder
  <1>4. CASE ~Orderly
    BY <1>2, <1>4 DEF OrderInv, OrderlyInTurn, Orderly
  <1> QED BY <1>3, <1>4

\* Relays that follow the code give nobody a cell out of turn (relay.route,
\* relay.backward, client.open): no hop sees a value that is not due and the client
\* refuses no reply, whatever fills up, stalls, is cut, expires or closes on the way.
THEOREM ChainOrderlyInTurn == Spec => []OrderlyInTurn
  <1>1. OrderInv => OrderlyInTurn
    BY DEF OrderInv
  <1> QED BY <1>1, OrderInit, OrderNext, PTL DEF Spec

=============================================================================

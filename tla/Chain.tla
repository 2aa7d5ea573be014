------------------------------- MODULE Chain -------------------------------
(***************************************************************************)
(* One circuit: a client, N relays and the N links between them, hop N     *)
(* being the exit. The setup cell travels the chain first and each hop     *)
(* extends it; data cells follow on the same FIFO links, losing a layer    *)
(* and gaining an offset at every hop; the exit answers each with one      *)
(* backward cell, to which every hop adds a layer and an offset.           *)
(*                                                                         *)
(* A layer is abstracted to the counter value it was sealed under: it      *)
(* opens for that value and no other, as nonce and associated data carry   *)
(* the value (wire/nonce.go, wire/cell.go). Link padding is left out: the  *)
(* reading end drops it (link.ReadCell).                                   *)
(*                                                                         *)
(* Hops in Faulty lose, copy, swap, restamp or make up the cells they      *)
(* send; the others follow the code.                                       *)
(***************************************************************************)
EXTENDS Wire, Sequences

CONSTANTS
  N,            \* hops of the chain
  Circuits,     \* what a client may draw: each hop's offsets, their running sums
  Paced,        \* the hops with Config.Period > 0: cells leave through pacer queues
  QueueCells,   \* Config.QueueCells, the capacity of a pacer queue
  Faulty,       \* hops that do not follow the code
  FaultKinds,   \* what they may do, from FaultNames
  MaxFaults,    \* bound on what the faulty hops do
  BreakKinds,   \* what goes wrong outside the relays, from BreakNames
  MaxBreaks     \* bound on how often it does

Hops == 1 .. N

FaultNames == {"lose", "copy", "swap", "restamp", "fwdJunk", "bwdJunk"}

BreakNames == {"cut", "stall", "expire", "dial"}

\* before[i] sums the offsets of the hops in front of hop i; before[N + 1] is
\* the total.
RunningSums(c) ==
  \A d \in Directions :
    /\ c.before[1][d] = 0
    /\ \A i \in Hops : c.before[i + 1][d] = Shift(c.before[i][d], c.offset[i][d])

ASSUME ChainAssumption ==
  /\ N \in Nat \ {0}
  /\ N <= CounterLimit
  /\ Circuits \subseteq [offset : [Hops -> [Directions -> Values]],
                         before : [1 .. N + 1 -> [Directions -> Values]]]
  /\ \A c \in Circuits : RunningSums(c)
  /\ Paced \subseteq Hops
  /\ QueueCells \in Nat \ {0}
  /\ Faulty \subseteq Hops
  /\ FaultKinds \subseteq FaultNames
  /\ MaxFaults \in Nat
  /\ BreakKinds \subseteq BreakNames
  /\ MaxBreaks \in Nat

VARIABLES
  circ,       \* the circuit drawn at Dial
  client,     \* "open", "ended" once receive returned, "closed" after Close
  sent,       \* Client.sent
  want,       \* the reply number receive waits for
  refused,    \* Client.refused: the class of the reply that ended the circuit
  accepted,   \* history: what each accepted reply answers
  hop,        \* "idle" before its setup cell, "live", "gone" once released
  back,       \* the backward goroutine of a hop: "none", "run", "done"
  fwdSeq,
  bwdSeq,
  fwdQ,       \* cells waiting in the pacer towards the next hop
  bwdQ,       \* cells waiting in the pacer towards the previous one
  replies,    \* circuit.replies at the exit
  delivered,  \* history: the cells the exit handed to Deliver
  sealed,     \* history: the backward values each hop key sealed under
  turns,      \* history: hops that saw a cell out of turn
  near,       \* the end of link i at hop i - 1, or at the client
  far,        \* the end of link i at hop i
  line,       \* "up", one direction stalled for good, or "cut"
  fwd,        \* cells in flight on link i towards hop i
  bwd,        \* cells in flight on link i towards hop i - 1
  faults,
  breaks

clientVars == <<client, sent, want, refused, accepted>>
hopVars == <<hop, back, fwdSeq, bwdSeq, fwdQ, bwdQ, replies, delivered, sealed, turns>>
linkVars == <<near, far, line, fwd, bwd>>
boundVars == <<faults, breaks>>
vars == <<circ, clientVars, hopVars, linkVars, boundVars>>

NoLayer == -1
LinkEnds == {"none", "open", "closed"}
Lines == {"up", "fwdStalled", "bwdStalled", "cut"}

FwdCells ==
  [kind : {"control", "data"}, layer : 1 .. N + 1, n : Values \cup {NoLayer}, ctr : Values]

BwdCells == [ctr : Values, ans : Values, under : [Hops -> Values \cup {NoLayer}]]

ClientType ==
  /\ client \in {"open", "ended", "closed"}
  /\ sent \in 0 .. CellLimit
  /\ want \in Nat
  /\ refused \in {"none", "notOpened", "outOfTurn", "unsolicited"}
  /\ accepted \in Seq(Values)

HopType ==
  /\ hop \in [Hops -> {"idle", "live", "gone"}]
  /\ back \in [Hops -> {"none", "run", "done"}]
  /\ fwdSeq \in [Hops -> SequenceStates]
  /\ bwdSeq \in [Hops -> SequenceStates]
  /\ fwdQ \in [Hops -> Seq(FwdCells)]
  /\ bwdQ \in [Hops -> Seq(BwdCells)]
  /\ replies \in 0 .. CellLimit
  /\ delivered \in Seq(Values)
  /\ sealed \in [Hops -> Seq(Values)]
  /\ turns \subseteq Hops

LinkType ==
  /\ near \in [Hops -> LinkEnds]
  /\ far \in [Hops -> LinkEnds]
  /\ line \in [Hops -> Lines]
  /\ fwd \in [Hops -> Seq(FwdCells)]
  /\ bwd \in [Hops -> Seq(BwdCells)]

BoundType ==
  /\ faults \in 0 .. MaxFaults
  /\ breaks \in 0 .. MaxBreaks

\* Every value on a link, in a queue or in a Sequence stays below the limit its
\* nonce allows, and no counter passes the number of cells a link may carry.
TypeOK ==
  /\ circ \in Circuits
  /\ ClientType
  /\ HopType
  /\ LinkType
  /\ BoundType

-----------------------------------------------------------------------------
(* Cells and layers.                                                       *)

\* The value on the link into hop i, from the one on the client's own link.
ValueAt(i, dir, first) ==
  IF dir = "fwd" THEN Shift(first, circ.before[i][dir])
                 ELSE Unshift(first, circ.before[i][dir])

ReplyNumber(ctr) == Unshift(ctr, circ.before[N + 1]["bwd"])

\* What the setup layer of the exit tells it: the value of the first data cell.
FirstForward == circ.before[N]["fwd"]

SetupCell(i) == [kind |-> "control", layer |-> i, n |-> NoLayer, ctr |-> i - 1]

SealForward(n) == [kind |-> "data", layer |-> 1, n |-> n, ctr |-> n]

OpensSetup(i, c) == c.kind = "control" /\ c.layer = i /\ c.ctr = i - 1

OpensData(i, c) ==
  /\ c.kind = "data"
  /\ c.layer = i
  /\ c.n # NoLayer
  /\ c.ctr = ValueAt(i, "fwd", c.n)

Peel(i, c) ==
  [c EXCEPT !.layer = i + 1, !.ctr = Shift(c.ctr, circ.offset[i]["fwd"])]

Bare == [i \in Hops |-> NoLayer]

\* One backward layer under the key of hop i, bound to the value the cell
\* leaves with.
SealBack(i, value, c) == [c EXCEPT !.ctr = value, !.under[i] = value]

SealReply(number, ans) ==
  SealBack(N, Shift(number, circ.offset[N]["bwd"]), [ctr |-> 0, ans |-> ans, under |-> Bare])

Wrap(i, c) == SealBack(i, Shift(c.ctr, circ.offset[i]["bwd"]), c)

OpensReply(c) == \A i \in Hops : c.under[i] = ValueAt(i, "bwd", c.ctr)

-----------------------------------------------------------------------------
(* Links. A cell written on a link whose other end is gone, that the       *)
(* network cut, or whose peer takes no more, is lost, or the write fails   *)
(* (link.SetWriteTimeout); a write on an end this node closed itself fails *)
(* with net.ErrClosed.                                                     *)

WriteOutcomes(mine, other, l, stalled) ==
  IF mine = "closed" THEN {"errClosed"}
  ELSE IF other = "closed" \/ line[l] \in {"cut", stalled} THEN {"lost", "failed"}
  ELSE {"sent"}

FwdWrite(l) == WriteOutcomes(near[l], far[l], l, "fwdStalled")
BwdWrite(l) == WriteOutcomes(far[l], near[l], l, "bwdStalled")

Carry(q, l, out, outcome) ==
  IF outcome = "sent" THEN [q EXCEPT ![l] = Append(@, out)] ELSE q

\* A reader drains what arrived and then learns that the link is gone.
FwdEof(i) == fwd[i] = <<>> /\ (near[i] = "closed" \/ line[i] = "cut")
BwdEof(i) == bwd[i] = <<>> /\ (far[i] = "closed" \/ line[i] = "cut")

-----------------------------------------------------------------------------
Init ==
  /\ circ \in Circuits
  /\ client = "open"
  /\ sent = 0
  /\ want = 0
  /\ refused = "none"
  /\ accepted = <<>>
  /\ hop = [i \in Hops |-> "idle"]
  /\ back = [i \in Hops |-> "none"]
  /\ fwdSeq = [i \in Hops |-> NewSequence]
  /\ bwdSeq = [i \in Hops |-> NewSequence]
  /\ fwdQ = [i \in Hops |-> <<>>]
  /\ bwdQ = [i \in Hops |-> <<>>]
  /\ replies = 0
  /\ delivered = <<>>
  /\ sealed = [i \in Hops |-> <<>>]
  /\ turns = {}
  /\ near = [i \in Hops |-> IF i = 1 THEN "open" ELSE "none"]
  /\ far = [i \in Hops |-> IF i = 1 THEN "open" ELSE "none"]
  /\ line = [i \in Hops |-> "up"]
  /\ fwd = [i \in Hops |-> IF i = 1 THEN <<SetupCell(1)>> ELSE <<>>]
  /\ bwd = [i \in Hops |-> <<>>]
  /\ faults = 0
  /\ breaks = 0

-----------------------------------------------------------------------------
(* The client.                                                             *)

\* The number is taken before the write and stays taken if the write fails, as
\* it does on a link that receive closed.
ClientSend ==
  /\ client # "closed"
  /\ sent < CellLimit
  /\ sent' = sent + 1
  /\ \E o \in FwdWrite(1) : fwd' = Carry(fwd, 1, SealForward(sent), o)
  /\ UNCHANGED <<circ, client, want, refused, accepted, hopVars, near, far, line, bwd, boundVars>>

\* Mutant of OpenClass: a reply that opens is taken whatever its number.
OpenAnyNumber(c) ==
  IF ~OpensReply(c) THEN "notOpened"
  ELSE IF want >= sent THEN "unsolicited"
  ELSE "none"

\* The class receive refuses a reply with, "none" for one it accepts.  A bad
\* header is a class of its own in the code and ends the circuit like the first.
OpenClass(c) ==
  IF ~OpensReply(c) THEN "notOpened"
  ELSE IF ReplyNumber(c.ctr) # want THEN "outOfTurn"
  ELSE IF want >= sent THEN "unsolicited"
  ELSE "none"

ClientReceive ==
  /\ client = "open"
  /\ near[1] = "open"
  /\ bwd[1] # <<>>
  /\ LET c == Head(bwd[1]) IN
       \/ /\ OpenClass(c) = "none"
          /\ want' = want + 1
          /\ accepted' = Append(accepted, c.ans)
          /\ bwd' = [bwd EXCEPT ![1] = Tail(@)]
          /\ UNCHANGED <<client, refused, near>>
       \/ /\ OpenClass(c) # "none"
          /\ refused' = OpenClass(c)
          /\ client' = "ended"
          /\ near' = [near EXCEPT ![1] = "closed"]
          /\ bwd' = [bwd EXCEPT ![1] = <<>>]
          /\ UNCHANGED <<want, accepted>>
  /\ UNCHANGED <<circ, sent, hopVars, far, line, fwd, boundVars>>

\* ReadCell fails: receive returns and closes the channel of replies.
ClientEnds ==
  /\ client = "open"
  /\ BwdEof(1)
  /\ client' = "ended"
  /\ UNCHANGED <<circ, sent, want, refused, accepted, hopVars, linkVars, boundVars>>

ClientClose ==
  /\ client # "closed"
  /\ client' = "closed"
  /\ near' = [near EXCEPT ![1] = "closed"]
  /\ bwd' = [bwd EXCEPT ![1] = <<>>]
  /\ UNCHANGED <<circ, sent, want, refused, accepted, hopVars, far, line, fwd, boundVars>>

-----------------------------------------------------------------------------
(* The handler of a hop's inbound link.                                    *)

\* handle returns: it closes the link, and teardown releases the circuit with
\* its onward link, its backward goroutine and its queues.
EndHop(i) ==
  /\ hop' = [hop EXCEPT ![i] = "gone"]
  /\ back' = [back EXCEPT ![i] = IF @ = "none" THEN "none" ELSE "done"]
  /\ fwdQ' = [fwdQ EXCEPT ![i] = <<>>]
  /\ bwdQ' = [bwdQ EXCEPT ![i] = <<>>]
  /\ far' = [far EXCEPT ![i] = "closed"]
  /\ near' = [l \in Hops |-> IF l = i + 1 /\ near[l] = "open" THEN "closed" ELSE near[l]]
  /\ fwd' = [fwd EXCEPT ![i] = <<>>]
  /\ bwd' = [l \in Hops |-> IF l = i + 1 THEN <<>> ELSE bwd[l]]
  /\ UNCHANGED line

Reading(i) == hop[i] \in {"idle", "live"} /\ far[i] = "open" /\ fwd[i] # <<>>

\* A setup that opens registers the circuit; the exit also learns the first
\* value, any other hop dials the next one and sends the inner setup on.
HandleSetup(i) ==
  /\ Reading(i)
  /\ hop[i] = "idle"
  /\ OpensSetup(i, Head(fwd[i]))
  /\ hop' = [hop EXCEPT ![i] = "live"]
  /\ IF i = N
     THEN /\ fwdSeq' = [fwdSeq EXCEPT ![i] = Expect(@, FirstForward)]
          /\ fwd' = [fwd EXCEPT ![i] = Tail(@)]
          /\ UNCHANGED <<back, near, far>>
     ELSE /\ fwd' = [fwd EXCEPT ![i] = Tail(@), ![i + 1] = <<SetupCell(i + 1)>>]
          /\ near' = [near EXCEPT ![i + 1] = "open"]
          /\ far' = [far EXCEPT ![i + 1] = "open"]
          /\ back' = [back EXCEPT ![i] = "run"]
          /\ UNCHANGED fwdSeq
  /\ UNCHANGED <<circ, clientVars, bwdSeq, fwdQ, bwdQ, replies, delivered, sealed, turns,
                 line, bwd, boundVars>>

\* The setup does not open, or the next hop cannot be reached: the link goes.
HandleSetupFails(i) ==
  /\ Reading(i)
  /\ hop[i] = "idle"
  /\ Head(fwd[i]).kind = "control"
  /\ \/ ~OpensSetup(i, Head(fwd[i])) /\ UNCHANGED breaks
     \/ /\ OpensSetup(i, Head(fwd[i]))
        /\ i < N
        /\ "dial" \in BreakKinds
        /\ breaks < MaxBreaks
        /\ breaks' = breaks + 1
  /\ EndHop(i)
  /\ UNCHANGED <<circ, clientVars, fwdSeq, bwdSeq, replies, delivered, sealed, turns, faults>>

\* Dropped, and decides nothing about which counter is due: a second setup, a
\* cell of no known circuit, a cell whose layer does not open.
HandleStray(i) ==
  /\ Reading(i)
  /\ LET c == Head(fwd[i]) IN
       \/ c.kind = "control" /\ hop[i] = "live"
       \/ c.kind = "data" /\ (hop[i] = "live" => ~OpensData(i, c))
  /\ fwd' = [fwd EXCEPT ![i] = Tail(@)]
  /\ UNCHANGED <<circ, clientVars, hopVars, near, far, line, bwd, boundVars>>

HandleOutOfTurn(i) ==
  /\ Reading(i)
  /\ hop[i] = "live"
  /\ OpensData(i, Head(fwd[i]))
  /\ ~Due(fwdSeq[i], Head(fwd[i]).ctr)
  /\ turns' = turns \cup {i}
  /\ EndHop(i)
  /\ UNCHANGED <<circ, clientVars, fwdSeq, bwdSeq, replies, delivered, sealed, boundVars>>

\* Mutant of TakesData: a cell that opens is taken whatever its value.
TakesAnyData(i) ==
  /\ Reading(i)
  /\ hop[i] = "live"
  /\ OpensData(i, Head(fwd[i]))
  /\ fwdSeq' = [fwdSeq EXCEPT ![i] = [@ EXCEPT !.seeded = TRUE]]

TakesData(i) ==
  /\ Reading(i)
  /\ hop[i] = "live"
  /\ OpensData(i, Head(fwd[i]))
  /\ Due(fwdSeq[i], Head(fwd[i]).ctr)
  /\ fwdSeq' = [fwdSeq EXCEPT ![i] = Take(@, Head(fwd[i]).ctr)]

\* Mutant of HandleForward: a cell that finds the queue full is dropped and the
\* circuit goes on.
ForwardOrDrop(i) ==
  /\ i < N
  /\ TakesData(i)
  /\ LET out == Peel(i, Head(fwd[i]))
         rest == [fwd EXCEPT ![i] = Tail(@)]
     IN IF i \in Paced
        THEN /\ fwdQ' = [fwdQ EXCEPT ![i] = IF Len(@) < QueueCells THEN Append(@, out) ELSE @]
             /\ fwd' = rest
        ELSE /\ \E o \in FwdWrite(i + 1) : fwd' = Carry(rest, i + 1, out, o)
             /\ UNCHANGED fwdQ
  /\ UNCHANGED <<circ, clientVars, hop, back, bwdSeq, bwdQ, replies, delivered, sealed, turns,
                 near, far, line, bwd, boundVars>>

\* A relay passes the peeled cell on, through its pacer if it has one.
HandleForward(i) ==
  /\ i < N
  /\ TakesData(i)
  /\ LET out == Peel(i, Head(fwd[i]))
         rest == [fwd EXCEPT ![i] = Tail(@)]
     IN \/ /\ i \in Paced
           /\ Len(fwdQ[i]) < QueueCells
           /\ fwdQ' = [fwdQ EXCEPT ![i] = Append(@, out)]
           /\ fwd' = rest
        \/ /\ i \notin Paced
           /\ \E o \in FwdWrite(i + 1) \cap {"sent", "lost"} :
                fwd' = Carry(rest, i + 1, out, o)
           /\ UNCHANGED fwdQ
  /\ UNCHANGED <<circ, clientVars, hop, back, bwdSeq, bwdQ, replies, delivered, sealed, turns,
                 near, far, line, bwd, boundVars>>

\* No room in the queue, or a write that failed: the circuit is broken.
HandleForwardFails(i) ==
  /\ i < N
  /\ TakesData(i)
  /\ \/ i \in Paced /\ Len(fwdQ[i]) = QueueCells
     \/ i \notin Paced /\ FwdWrite(i + 1) \cap {"failed", "errClosed"} # {}
  /\ EndHop(i)
  /\ UNCHANGED <<circ, clientVars, bwdSeq, replies, delivered, sealed, turns, boundVars>>

\* Mutant of HandleDeliver: no reply to a cell.
DeliverSilently(i) ==
  /\ i = N
  /\ TakesData(i)
  /\ delivered' = Append(delivered, Head(fwd[i]).n)
  /\ fwd' = [fwd EXCEPT ![i] = Tail(@)]
  /\ UNCHANGED <<circ, clientVars, hop, back, bwdSeq, fwdQ, bwdQ, replies, sealed, turns,
                 near, far, line, bwd, boundVars>>

\* The exit delivers, and answers with exactly one backward cell. Sealing under
\* a number past CellLimit is refused, but fwdSeq takes no more cells than that.
HandleDeliver(i) ==
  /\ i = N
  /\ TakesData(i)
  /\ replies < CellLimit
  /\ delivered' = Append(delivered, Head(fwd[i]).n)
  /\ replies' = replies + 1
  /\ LET reply == SealReply(replies, Head(fwd[i]).n)
     IN /\ sealed' = [sealed EXCEPT ![i] = Append(@, reply.ctr)]
        /\ \/ /\ i \in Paced
              /\ Len(bwdQ[i]) < QueueCells
              /\ bwdQ' = [bwdQ EXCEPT ![i] = Append(@, reply)]
              /\ UNCHANGED bwd
           \/ /\ i \notin Paced
              /\ \E o \in BwdWrite(i) \cap {"sent", "lost"} : bwd' = Carry(bwd, i, reply, o)
              /\ UNCHANGED bwdQ
  /\ fwd' = [fwd EXCEPT ![i] = Tail(@)]
  /\ UNCHANGED <<circ, clientVars, hop, back, bwdSeq, fwdQ, turns, near, far, line, boundVars>>

\* No room, or no connection, for the reply; one that cannot be sealed would end
\* the circuit as well, with its number taken.
HandleDeliverFails(i) ==
  /\ i = N
  /\ TakesData(i)
  /\ replies < CellLimit
  /\ delivered' = Append(delivered, Head(fwd[i]).n)
  /\ replies' = replies + 1
  /\ sealed' = [sealed EXCEPT ![i] = Append(@, SealReply(replies, Head(fwd[i]).n).ctr)]
  /\ \/ i \in Paced /\ Len(bwdQ[i]) = QueueCells
     \/ i \notin Paced /\ BwdWrite(i) \cap {"failed", "errClosed"} # {}
  /\ EndHop(i)
  /\ UNCHANGED <<circ, clientVars, bwdSeq, turns, boundVars>>

\* ReadCell fails: the previous hop is gone, the link was closed here by the
\* backward goroutine, a pacer or the expiry timer, or no setup came in time.
HandleEnds(i) ==
  /\ hop[i] \in {"idle", "live"}
  /\ far[i] # "none"
  /\ far[i] = "closed" \/ FwdEof(i)
  /\ EndHop(i)
  /\ UNCHANGED <<circ, clientVars, fwdSeq, bwdSeq, replies, delivered, sealed, turns, boundVars>>

-----------------------------------------------------------------------------
(* The goroutine that carries replies back.                                *)

\* Mutant of EndBackward: the goroutine returns and leaves the link open.
EndBackwardOnly(i) ==
  /\ back' = [back EXCEPT ![i] = "done"]
  /\ UNCHANGED <<far, fwd>>

\* It closes the link the circuit came in on, and the handler does the rest.
EndBackward(i) ==
  /\ back' = [back EXCEPT ![i] = "done"]
  /\ far' = [far EXCEPT ![i] = "closed"]
  /\ fwd' = [fwd EXCEPT ![i] = <<>>]

ReadingBack(i) == i < N /\ back[i] = "run" /\ near[i + 1] = "open" /\ bwd[i + 1] # <<>>

Backward(i) ==
  /\ ReadingBack(i)
  /\ Due(bwdSeq[i], Head(bwd[i + 1]).ctr)
  /\ bwdSeq' = [bwdSeq EXCEPT ![i] = Take(@, Head(bwd[i + 1]).ctr)]
  /\ LET out == Wrap(i, Head(bwd[i + 1]))
         rest == [bwd EXCEPT ![i + 1] = Tail(@)]
     IN /\ sealed' = [sealed EXCEPT ![i] = Append(@, out.ctr)]
        /\ \/ /\ i \in Paced
              /\ Len(bwdQ[i]) < QueueCells
              /\ bwdQ' = [bwdQ EXCEPT ![i] = Append(@, out)]
              /\ bwd' = rest
           \/ /\ i \notin Paced
              /\ \E o \in BwdWrite(i) \cap {"sent", "lost"} : bwd' = Carry(rest, i, out, o)
              /\ UNCHANGED bwdQ
  /\ UNCHANGED <<circ, clientVars, hop, back, fwdSeq, fwdQ, replies, delivered, turns,
                 near, far, line, fwd, boundVars>>

\* A value out of turn ends the circuit, as does a cell it cannot pass on; a
\* header of another kind would end it as the value does.
BackwardFails(i) ==
  /\ ReadingBack(i)
  /\ LET c == Head(bwd[i + 1]) IN
       \/ /\ ~Due(bwdSeq[i], c.ctr)
          /\ turns' = turns \cup {i}
          /\ UNCHANGED <<bwdSeq, sealed>>
       \/ /\ Due(bwdSeq[i], c.ctr)
          /\ bwdSeq' = [bwdSeq EXCEPT ![i] = Take(@, c.ctr)]
          /\ sealed' = [sealed EXCEPT ![i] = Append(@, Wrap(i, c).ctr)]
          /\ \/ i \in Paced /\ Len(bwdQ[i]) = QueueCells
             \/ i \notin Paced /\ BwdWrite(i) \cap {"failed", "errClosed"} # {}
          /\ UNCHANGED turns
  /\ bwd' = [bwd EXCEPT ![i + 1] = Tail(@)]
  /\ EndBackward(i)
  /\ UNCHANGED <<circ, clientVars, hop, fwdSeq, fwdQ, bwdQ, replies, delivered, near, line,
                 boundVars>>

BackwardEnds(i) ==
  /\ i < N
  /\ back[i] = "run"
  /\ near[i + 1] = "closed" \/ BwdEof(i + 1)
  /\ EndBackward(i)
  /\ UNCHANGED <<circ, clientVars, hop, fwdSeq, bwdSeq, fwdQ, bwdQ, replies, delivered, sealed,
                 turns, near, line, bwd, boundVars>>

-----------------------------------------------------------------------------
(* Pacers: a tick sends the cell at the head of the queue, or padding. A   *)
(* write that fails, of padding too, closes the pacer's link and stops it; *)
(* on a link closed by others it stops at the next tick.                   *)

TickFwd(i) ==
  /\ i \in Paced
  /\ i < N
  /\ hop[i] = "live"
  /\ near[i + 1] = "open"
  /\ fwdQ[i] # <<>>
  /\ fwdQ' = [fwdQ EXCEPT ![i] = Tail(@)]
  /\ \E o \in FwdWrite(i + 1) \cap {"sent", "lost"} :
       fwd' = Carry(fwd, i + 1, Head(fwdQ[i]), o)
  /\ UNCHANGED <<circ, clientVars, hop, back, fwdSeq, bwdSeq, bwdQ, replies, delivered, sealed,
                 turns, near, far, line, bwd, boundVars>>

TickFwdFails(i) ==
  /\ i \in Paced
  /\ i < N
  /\ hop[i] = "live"
  /\ near[i + 1] = "open"
  /\ "failed" \in FwdWrite(i + 1)
  /\ fwdQ' = [fwdQ EXCEPT ![i] = IF @ = <<>> THEN @ ELSE Tail(@)]
  /\ near' = [near EXCEPT ![i + 1] = "closed"]
  /\ bwd' = [bwd EXCEPT ![i + 1] = <<>>]
  /\ UNCHANGED <<circ, clientVars, hop, back, fwdSeq, bwdSeq, bwdQ, replies, delivered, sealed,
                 turns, far, line, fwd, boundVars>>

TickBwd(i) ==
  /\ i \in Paced
  /\ hop[i] = "live"
  /\ far[i] = "open"
  /\ bwdQ[i] # <<>>
  /\ bwdQ' = [bwdQ EXCEPT ![i] = Tail(@)]
  /\ \E o \in BwdWrite(i) \cap {"sent", "lost"} :
       bwd' = Carry(bwd, i, Head(bwdQ[i]), o)
  /\ UNCHANGED <<circ, clientVars, hop, back, fwdSeq, bwdSeq, fwdQ, replies, delivered, sealed,
                 turns, near, far, line, fwd, boundVars>>

TickBwdFails(i) ==
  /\ i \in Paced
  /\ hop[i] = "live"
  /\ far[i] = "open"
  /\ "failed" \in BwdWrite(i)
  /\ bwdQ' = [bwdQ EXCEPT ![i] = IF @ = <<>> THEN @ ELSE Tail(@)]
  /\ far' = [far EXCEPT ![i] = "closed"]
  /\ fwd' = [fwd EXCEPT ![i] = <<>>]
  /\ UNCHANGED <<circ, clientVars, hop, back, fwdSeq, bwdSeq, fwdQ, replies, delivered, sealed,
                 turns, near, line, bwd, boundVars>>

-----------------------------------------------------------------------------
(* What happens to a circuit from outside.                                 *)

\* The idle or age limit of a live circuit, the setup deadline of a link that
\* carries none: the node closes the link, and the handler does the rest.
Expire(i) ==
  /\ "expire" \in BreakKinds
  /\ breaks < MaxBreaks
  /\ hop[i] \in {"idle", "live"}
  /\ far[i] = "open"
  /\ far' = [far EXCEPT ![i] = "closed"]
  /\ fwd' = [fwd EXCEPT ![i] = <<>>]
  /\ breaks' = breaks + 1
  /\ UNCHANGED <<circ, clientVars, hopVars, near, line, bwd, faults>>

\* The network breaks a link; what it carried is lost.
Cut(l) ==
  /\ "cut" \in BreakKinds
  /\ breaks < MaxBreaks
  /\ line[l] # "cut"
  /\ near[l] = "open" \/ far[l] = "open"
  /\ line' = [line EXCEPT ![l] = "cut"]
  /\ fwd' = [fwd EXCEPT ![l] = <<>>]
  /\ bwd' = [bwd EXCEPT ![l] = <<>>]
  /\ breaks' = breaks + 1
  /\ UNCHANGED <<circ, clientVars, hopVars, near, far, faults>>

\* One direction of a link takes no more; that it was closed still gets through.
Stall(l) ==
  /\ "stall" \in BreakKinds
  /\ breaks < MaxBreaks
  /\ line[l] = "up"
  /\ near[l] = "open" /\ far[l] = "open"
  /\ \E s \in {"fwdStalled", "bwdStalled"} : line' = [line EXCEPT ![l] = s]
  /\ breaks' = breaks + 1
  /\ UNCHANGED <<circ, clientVars, hopVars, near, far, fwd, bwd, faults>>

\* A connection closed at one end may lose the tail of what it still carried.
LoseTail(l) ==
  /\ \/ /\ near[l] = "closed"
        /\ fwd[l] # <<>>
        /\ fwd' = [fwd EXCEPT ![l] = SubSeq(@, 1, Len(@) - 1)]
        /\ UNCHANGED bwd
     \/ /\ far[l] = "closed"
        /\ bwd[l] # <<>>
        /\ bwd' = [bwd EXCEPT ![l] = SubSeq(@, 1, Len(@) - 1)]
        /\ UNCHANGED fwd
  /\ UNCHANGED <<circ, clientVars, hopVars, near, far, line, boundVars>>

-----------------------------------------------------------------------------
(* What a faulty hop does to the cells it has put on its links.            *)

Without(q, k) == SubSeq(q, 1, k - 1) \o SubSeq(q, k + 1, Len(q))
Swapped(q, k) == [q EXCEPT ![k] = q[k + 1], ![k + 1] = q[k]]

FwdJunk == [kind : {"data"}, layer : {1}, n : {NoLayer}, ctr : Values]
BwdJunk == [ctr : Values, ans : {0}, under : {Bare}]

\* Lost, copied, two in the wrong order.
Disturbed(q) ==
  (IF "lose" \in FaultKinds THEN {Without(q, k) : k \in 1 .. Len(q)} ELSE {})
    \cup (IF "copy" \in FaultKinds THEN {Append(q, q[k]) : k \in 1 .. Len(q)} ELSE {})
    \cup (IF "swap" \in FaultKinds THEN {Swapped(q, k) : k \in 1 .. Len(q) - 1} ELSE {})

\* A cell nobody sealed, or one sent under another value than the hop's own
\* offset gives.
FwdForged(q) ==
  (IF "fwdJunk" \in FaultKinds THEN {Append(q, c) : c \in FwdJunk} ELSE {})
    \cup (IF "restamp" \in FaultKinds
          THEN {[q EXCEPT ![k].ctr = v] : k \in 1 .. Len(q), v \in Values} ELSE {})

BwdForged(i, q) ==
  (IF "bwdJunk" \in FaultKinds THEN {Append(q, c) : c \in BwdJunk} ELSE {})
    \cup (IF "restamp" \in FaultKinds
          THEN {[q EXCEPT ![k] = SealBack(i, v, q[k])] : k \in 1 .. Len(q), v \in Values} ELSE {})

FaultFwd(i) ==
  /\ i \in Faulty
  /\ i < N
  /\ near[i + 1] = "open"
  /\ far[i + 1] = "open"
  /\ faults < MaxFaults
  /\ faults' = faults + 1
  /\ \E q \in Disturbed(fwd[i + 1]) \cup FwdForged(fwd[i + 1]) :
       fwd' = [fwd EXCEPT ![i + 1] = q]
  /\ UNCHANGED <<circ, clientVars, hopVars, near, far, line, bwd, breaks>>

FaultBwd(i) ==
  /\ i \in Faulty
  /\ near[i] = "open"
  /\ far[i] = "open"
  /\ faults < MaxFaults
  /\ faults' = faults + 1
  /\ \E q \in Disturbed(bwd[i]) \cup BwdForged(i, bwd[i]) :
       bwd' = [bwd EXCEPT ![i] = q]
  /\ UNCHANGED <<circ, clientVars, hopVars, near, far, line, fwd, breaks>>

-----------------------------------------------------------------------------
HopStep(i) ==
  \/ HandleSetup(i)
  \/ HandleSetupFails(i)
  \/ HandleStray(i)
  \/ HandleOutOfTurn(i)
  \/ HandleForward(i)
  \/ HandleForwardFails(i)
  \/ HandleDeliver(i)
  \/ HandleDeliverFails(i)
  \/ HandleEnds(i)

BackStep(i) ==
  \/ Backward(i)
  \/ BackwardFails(i)
  \/ BackwardEnds(i)

Next ==
  \/ ClientSend
  \/ ClientReceive
  \/ ClientEnds
  \/ ClientClose
  \/ \E i \in Hops :
       \/ HopStep(i)
       \/ BackStep(i)
       \/ TickFwd(i)
       \/ TickFwdFails(i)
       \/ TickBwd(i)
       \/ TickBwdFails(i)
       \/ Expire(i)
       \/ Cut(i)
       \/ Stall(i)
       \/ LoseTail(i)
       \/ FaultFwd(i)
       \/ FaultBwd(i)

\* Readers run, and pacers tick; nobody has to send, close or break anything.
Fairness ==
  /\ WF_vars(ClientReceive)
  /\ WF_vars(ClientEnds)
  /\ \A i \in Hops :
       /\ WF_vars(HopStep(i))
       /\ WF_vars(BackStep(i))
       /\ WF_vars(TickFwd(i) \/ TickFwdFails(i))
       /\ WF_vars(TickBwd(i) \/ TickBwdFails(i))

Spec == Init /\ [][Next]_vars

FairSpec == Spec /\ Fairness

-----------------------------------------------------------------------------
(* What makes the chain correct.                                           *)

\* However the relays before it lose, copy, reorder or invent cells, the exit
\* is handed the client's cells in the order they were numbered, from the very
\* first on, without a gap and without a repetition (relay.route at the exit,
\* the First of its setup layer).
ExitInOrder ==
  /\ Len(delivered) <= sent
  /\ \A k \in 1 .. Len(delivered) : delivered[k] = k - 1

\* As long as the exit itself follows the code, the k-th reply the client
\* accepts answers its k-th cell, and that cell reached the exit (client.open).
AnswersInOrder ==
  N \notin Faulty =>
    /\ Len(accepted) <= Len(delivered)
    /\ \A k \in 1 .. Len(accepted) : accepted[k] = k - 1

\* No hop key seals two backward cells under one value, whatever the hop behind
\* it sends: the promise cellLimit makes in wire/counter.go.
BackwardNonceOnce ==
  \A i \in Hops : \A j, k \in 1 .. Len(sealed[i]) :
    sealed[i][j] = sealed[i][k] => j = k

\* Relays that follow the code give nobody a cell out of turn: not by a full
\* queue, a failed write, a broken link, a closing node or a cell that does not
\* open, all of which end the circuit or leave no trace (relay.route, backward).
OrderlyInTurn ==
  (Faulty = {} \/ FaultKinds \subseteq {"fwdJunk"}) => turns = {} /\ refused = "none"

\* A link that can carry no circuit any more: closed at an end or cut, or one a
\* pacer writes on and whose peer takes no more.
Broken(l) ==
  \/ near[l] = "closed" \/ far[l] = "closed" \/ line[l] = "cut"
  \/ l \in Paced /\ line[l] = "bwdStalled" /\ hop[l] = "live"
  \/ l - 1 \in Paced /\ line[l] = "fwdStalled" /\ hop[l - 1] = "live"

\* A break anywhere reaches both ends of the chain: every relay releases the
\* circuit and shuts both its links, and the client's receive returns
\* (relay.teardown, backward, pacer.run).
BreakReachesBothEnds ==
  (\E l \in Hops : Broken(l))
    ~> /\ client # "open"
       /\ \A l \in Hops : far[l] # "open" /\ (l > 1 => near[l] # "open")

\* Every cell the client writes is answered, so that the answers catch up with the
\* cells again and again, unless the circuit breaks, the client closes it or a link
\* takes no more (relay.reply: one backward cell for every data cell).
EveryCellAnswered ==
  []<>(\/ Len(accepted) = sent
       \/ client # "open"
       \/ \E l \in Hops : line[l] \in {"fwdStalled", "bwdStalled"})

\* The chain is a detailed way to run the channel its ends are promised.
Echo == INSTANCE EchoChannel WITH written <- sent, handed <- delivered, answered <- accepted

\* Every step of the chain is a step of the abstract channel, or changes nothing
\* the two ends see, whatever relays other than the exit do.
ImplementsEcho == Echo!Spec

=============================================================================

----------------------------- MODULE RelayNode -----------------------------
(***************************************************************************)
(* The goroutines of one relay (relay/relay.go, relay/pace.go): a handler  *)
(* per inbound link, which sets up at most one circuit, dials its next     *)
(* hop, and releases everything when it returns; per circuit a goroutine   *)
(* that carries replies back, two pacers if the relay is paced, and an     *)
(* expiry timer; and Relay.Close against all of them.                      *)
(*                                                                         *)
(* A step is what one goroutine does between two points where another may  *)
(* run: a critical section of Relay.mu, a use of the circuit's key, a read *)
(* or write that may block. Cells carry only what decides the control: the *)
(* circuit they name and whether they are in turn. Limits and rates are in *)
(* Admission, setup tags in OnionKeys.                                     *)
(***************************************************************************)
EXTENDS Naturals, FiniteSets

CONSTANTS
  Handlers,   \* inbound links, each with the circuit it may set up
  Ids,        \* circuit identifiers
  NoOne,      \* no handler, no identifier
  Paced,      \* Config.Period > 0
  MaxHangups  \* bound on peers that hang up

ASSUME NodeAssumption ==
  /\ IsFiniteSet(Handlers)
  /\ NoOne \notin Handlers \cup Ids
  /\ Paced \in BOOLEAN
  /\ MaxHangups \in Nat

VARIABLES
  pc,         \* where a handler stands
  id,         \* the circuit its setup cell names
  exits,      \* handlers whose circuit ends here: circuit.isExit
  key,        \* the keys of its circuit, wire.Hop: "none", "live", "gone"
  using,      \* the handler whose circuit it is working on
  circuits,   \* Relay.circuits
  owners,     \* Relay.owners
  rawIn,      \* its inbound socket
  rawOut,     \* its socket to the next hop
  conns,      \* Relay.conns
  back,       \* where its backward goroutine stands
  pacer,      \* where its two pacers stand
  stopped,    \* pacers told to stop
  timer,      \* its expiry timer: "off", "armed", "closing"
  unwatched,  \* circuit.unwatched
  broken,     \* what it added to Counters.Broken
  closed,     \* Relay.closed
  closer,     \* where Close stands: "no", "marked", "closing", "returned"
  toClose,    \* the sockets Close has still to close
  hangups

handlerVars == <<pc, id, exits, key, using, circuits, owners>>
socketVars == <<rawIn, rawOut, conns>>
helperVars == <<back, pacer, stopped, timer, unwatched>>
closeVars == <<closed, closer, toClose>>
vars == <<handlerVars, socketVars, helperVars, broken, closeVars, hangups>>

Dirs == {"fwd", "bwd"}
Sockets == {"in", "out"} \X Handlers

Places ==
  {"start", "read", "register", "dial", "hold", "shake", "undo", "watch", "use", "write",
   "ending", "discard", "teardown", "unwatch", "closeNext", "discardNext", "awaitFwd",
   "awaitBack", "dropNext", "awaitBwd", "destroy", "leave", "done"}

RawStates == {"none", "open", "gone", "closed"}

TypeOK ==
  /\ pc \in [Handlers -> Places]
  /\ id \in [Handlers -> Ids \cup {NoOne}]
  /\ exits \subseteq Handlers
  /\ key \in [Handlers -> {"none", "live", "gone"}]
  /\ using \in [Handlers -> Handlers \cup {NoOne}]
  /\ circuits \in [Ids -> Handlers \cup {NoOne}]
  /\ owners \in [Handlers -> Ids \cup {NoOne}]
  /\ rawIn \in [Handlers -> RawStates]
  /\ rawOut \in [Handlers -> RawStates]
  /\ conns \subseteq Sockets
  /\ back \in [Handlers -> {"none", "read", "wrap", "write", "exit", "closeIn", "done"}]
  /\ pacer \in [Handlers -> [Dirs -> {"none", "sleep", "write", "close", "discard", "done"}]]
  /\ ~Paced => pacer = [h \in Handlers |-> [d \in Dirs |-> "none"]]
  /\ stopped \subseteq Handlers \X Dirs
  /\ timer \in [Handlers -> {"off", "armed", "closing"}]
  /\ unwatched \in [Handlers -> BOOLEAN]
  /\ broken \in [Handlers -> Nat]
  /\ closed \in BOOLEAN
  /\ closer \in {"no", "marked", "closing", "returned"}
  /\ toClose \subseteq Sockets
  /\ hangups \in 0 .. MaxHangups

-----------------------------------------------------------------------------
Goto(h, place) == pc' = [pc EXCEPT ![h] = place]

Count(h) == broken' = [broken EXCEPT ![h] = @ + 1]

\* A write on a socket this node closed fails with net.ErrClosed, which is not
\* counted; one to a peer that hung up, or that reads nothing until the write
\* limit, fails and is.
Writes(raw) == raw = "open"
FailsCounted(raw) == raw \in {"open", "gone"}

\* raw.Close; the keys of the link go once nobody reads or writes on it.
Shut(raw) == IF raw = "none" THEN "none" ELSE "closed"

InBusy(h) == pc[h] = "read" \/ back[h] = "write" \/ pacer[h]["bwd"] = "write"
OutBusy(h) == back[h] = "read" \/ pc[h] = "write" \/ pacer[h]["fwd"] = "write"

-----------------------------------------------------------------------------
Init ==
  /\ pc = [h \in Handlers |-> "start"]
  /\ id = [h \in Handlers |-> NoOne]
  /\ exits = {}
  /\ key = [h \in Handlers |-> "none"]
  /\ using = [h \in Handlers |-> NoOne]
  /\ circuits = [i \in Ids |-> NoOne]
  /\ owners = [h \in Handlers |-> NoOne]
  /\ rawIn = [h \in Handlers |-> "none"]
  /\ rawOut = [h \in Handlers |-> "none"]
  /\ conns = {}
  /\ back = [h \in Handlers |-> "none"]
  /\ pacer = [h \in Handlers |-> [d \in Dirs |-> "none"]]
  /\ stopped = {}
  /\ timer = [h \in Handlers |-> "off"]
  /\ unwatched = [h \in Handlers |-> FALSE]
  /\ broken = [h \in Handlers |-> 0]
  /\ closed = FALSE
  /\ closer = "no"
  /\ toClose = {}
  /\ hangups = 0

-----------------------------------------------------------------------------
(* The handler: accepting and reading.                                     *)

\* Mutant of Accept: a closed relay takes the connection.
AcceptLate(h) ==
  /\ pc[h] = "start"
  /\ rawIn' = [rawIn EXCEPT ![h] = "open"]
  /\ conns' = conns \cup {<<"in", h>>}
  /\ Goto(h, "read")
  /\ UNCHANGED <<id, exits, key, using, circuits, owners, rawOut, helperVars, broken, closeVars,
                 hangups>>

\* admit, and the link handshake.
Accept(h) ==
  /\ pc[h] = "start"
  /\ ~closed
  /\ rawIn' = [rawIn EXCEPT ![h] = "open"]
  /\ conns' = conns \cup {<<"in", h>>}
  /\ Goto(h, "read")
  /\ UNCHANGED <<id, exits, key, using, circuits, owners, rawOut, helperVars, broken, closeVars,
                 hangups>>

\* ReadCell fails, as does the handshake of a link that goes at once.
ReadFails(h) ==
  /\ pc[h] = "read"
  /\ rawIn[h] \in {"gone", "closed"}
  /\ Goto(h, "ending")
  /\ UNCHANGED <<id, exits, key, using, circuits, owners, socketVars, helperVars, broken, closeVars,
                 hangups>>

\* A setup cell on a link without a circuit, whose layer opens. One on a link
\* that has a circuit is turned away and changes nothing.
ReadSetup(h) ==
  /\ pc[h] = "read"
  /\ rawIn[h] = "open"
  /\ owners[h] = NoOne
  /\ \E i \in Ids : id' = [id EXCEPT ![h] = i]
  /\ exits' \in {exits, exits \cup {h}}
  /\ key' = [key EXCEPT ![h] = "live"]
  /\ Goto(h, "register")
  /\ UNCHANGED <<using, circuits, owners, socketVars, helperVars, broken, closeVars, hangups>>

\* A setup that is refused or does not open, on a link without a circuit.
RefuseSetup(h) ==
  /\ pc[h] = "read"
  /\ rawIn[h] = "open"
  /\ owners[h] = NoOne
  /\ Goto(h, "ending")
  /\ UNCHANGED <<id, exits, key, using, circuits, owners, socketVars, helperVars, broken, closeVars,
                 hangups>>

ReadData(h) ==
  /\ pc[h] = "read"
  /\ rawIn[h] = "open"
  /\ \E i \in Ids :
       /\ circuits[i] = h
       /\ using' = [using EXCEPT ![h] = circuits[i]]
  /\ Goto(h, "use")
  /\ UNCHANGED <<id, exits, key, circuits, owners, socketVars, helperVars, broken, closeVars,
                 hangups>>

\* The layer is opened or sealed with the circuit's key. A cell that does not
\* open is dropped; one out of turn, or with no room in the queue, ends the
\* circuit; without a pacer the cell is written next.
Use(h) ==
  /\ pc[h] = "use"
  /\ using' = [using EXCEPT ![h] = NoOne]
  /\ \/ Goto(h, "read") /\ UNCHANGED broken
     \/ Goto(h, "ending") /\ Count(h)
     \/ ~Paced /\ Goto(h, "write") /\ UNCHANGED broken
  /\ UNCHANGED <<id, exits, key, circuits, owners, socketVars, helperVars, closeVars, hangups>>

Target(h) == IF h \in exits THEN rawIn[h] ELSE rawOut[h]

\* The write of the cell, onward or at the exit back, with the link free.
WriteDone(h) ==
  /\ pc[h] = "write"
  /\ Writes(Target(h))
  /\ Goto(h, "read")
  /\ UNCHANGED <<id, exits, key, using, circuits, owners, socketVars, helperVars, broken, closeVars,
                 hangups>>

WriteFails(h) ==
  /\ pc[h] = "write"
  /\ \/ FailsCounted(Target(h)) /\ Count(h)
     \/ Target(h) = "closed" /\ UNCHANGED broken
  /\ Goto(h, "ending")
  /\ UNCHANGED <<id, exits, key, using, circuits, owners, socketVars, helperVars, closeVars,
                 hangups>>

-----------------------------------------------------------------------------
(* The handler: setting a circuit up.                                      *)

\* Mutant of Register: a setup replaces the circuit that has its identifier.
RegisterOver(h) ==
  /\ pc[h] = "register"
  /\ \/ /\ closed
        /\ key' = [key EXCEPT ![h] = "gone"]
        /\ Goto(h, "ending")
        /\ UNCHANGED <<circuits, owners>>
     \/ /\ ~closed
        /\ circuits' = [circuits EXCEPT ![id[h]] = h]
        /\ owners' = [owners EXCEPT ![h] = id[h]]
        /\ Goto(h, IF h \in exits THEN "watch" ELSE "dial")
        /\ UNCHANGED key
  /\ UNCHANGED <<id, exits, using, socketVars, helperVars, broken, closeVars, hangups>>

\* Under Relay.mu: refused by a closed relay or if the identifier is taken.
Register(h) ==
  /\ pc[h] = "register"
  /\ \/ /\ closed \/ circuits[id[h]] # NoOne
        /\ key' = [key EXCEPT ![h] = "gone"]
        /\ Goto(h, "ending")
        /\ UNCHANGED <<circuits, owners>>
     \/ /\ ~closed
        /\ circuits[id[h]] = NoOne
        /\ circuits' = [circuits EXCEPT ![id[h]] = h]
        /\ owners' = [owners EXCEPT ![h] = id[h]]
        /\ Goto(h, IF h \in exits THEN "watch" ELSE "dial")
        /\ UNCHANGED key
  /\ UNCHANGED <<id, exits, using, socketVars, helperVars, broken, closeVars, hangups>>

DialDone(h) ==
  /\ pc[h] = "dial"
  /\ rawOut' = [rawOut EXCEPT ![h] = "open"]
  /\ Goto(h, "hold")
  /\ UNCHANGED <<id, exits, key, using, circuits, owners, rawIn, conns, helperVars, broken,
                 closeVars,
                 hangups>>

\* The peer is unknown, it cannot be reached, or Close cancelled the dial.
DialFails(h) ==
  /\ pc[h] = "dial"
  /\ Goto(h, "undo")
  /\ UNCHANGED <<id, exits, key, using, circuits, owners, socketVars, helperVars, broken, closeVars,
                 hangups>>

\* Mutant of Hold: the socket is kept whatever the relay does.
HoldLate(h) ==
  /\ pc[h] = "hold"
  /\ conns' = conns \cup {<<"out", h>>}
  /\ Goto(h, "shake")
  /\ UNCHANGED <<id, exits, key, using, circuits, owners, rawIn, rawOut, helperVars, broken,
                 closeVars,
                 hangups>>

\* Under Relay.mu: a closed relay keeps no new socket.
Hold(h) ==
  /\ pc[h] = "hold"
  /\ \/ /\ closed
        /\ rawOut' = [rawOut EXCEPT ![h] = "closed"]
        /\ Goto(h, "undo")
        /\ UNCHANGED conns
     \/ /\ ~closed
        /\ conns' = conns \cup {<<"out", h>>}
        /\ Goto(h, "shake")
        /\ UNCHANGED rawOut
  /\ UNCHANGED <<id, exits, key, using, circuits, owners, rawIn, helperVars, broken, closeVars,
                 hangups>>

\* The handshake with the next hop and the setup sent on: the pacers and the
\* backward goroutine start.
ShakeDone(h) ==
  /\ pc[h] = "shake"
  /\ rawOut[h] = "open"
  /\ back' = [back EXCEPT ![h] = "read"]
  /\ pacer' = IF Paced THEN [pacer EXCEPT ![h] = [d \in Dirs |-> "sleep"]] ELSE pacer
  /\ Goto(h, "watch")
  /\ UNCHANGED <<id, exits, key, using, circuits, owners, socketVars, stopped, timer, unwatched,
                 broken,
                 closeVars, hangups>>

ShakeFails(h) ==
  /\ pc[h] = "shake"
  /\ rawOut' = [rawOut EXCEPT ![h] = "closed"]
  /\ conns' = conns \ {<<"out", h>>}
  /\ Goto(h, "undo")
  /\ UNCHANGED <<id, exits, key, using, circuits, owners, rawIn, helperVars, broken, closeVars,
                 hangups>>

\* A failed extend takes its entries back.
Undo(h) ==
  /\ pc[h] = "undo"
  /\ circuits' = [circuits EXCEPT ![id[h]] = NoOne]
  /\ owners' = [owners EXCEPT ![h] = NoOne]
  /\ key' = [key EXCEPT ![h] = "gone"]
  /\ Goto(h, "ending")
  /\ UNCHANGED <<id, exits, using, socketVars, helperVars, broken, closeVars, hangups>>

\* The expiry timer; the pacer of an exit starts before it.
Watch(h) ==
  /\ pc[h] = "watch"
  /\ timer' = [timer EXCEPT ![h] = "armed"]
  /\ pacer' = IF Paced /\ h \in exits THEN [pacer EXCEPT ![h]["bwd"] = "sleep"] ELSE pacer
  /\ Goto(h, "read")
  /\ UNCHANGED <<id, exits, key, using, circuits, owners, socketVars, back, stopped, unwatched,
                 broken,
                 closeVars, hangups>>

-----------------------------------------------------------------------------
(* The handler: teardown, one wait after another.                          *)

\* lc.Close: the socket first, then the link's keys.
Ending(h) ==
  /\ pc[h] = "ending"
  /\ rawIn' = [rawIn EXCEPT ![h] = "closed"]
  /\ Goto(h, "discard")
  /\ UNCHANGED <<id, exits, key, using, circuits, owners, rawOut, conns, helperVars, broken,
                 closeVars,
                 hangups>>

\* A wait that ends when its condition holds.
Await(h, from, cond, to) ==
  /\ pc[h] = from
  /\ cond
  /\ Goto(h, to)
  /\ UNCHANGED <<id, exits, key, using, circuits, owners, socketVars, helperVars, broken, closeVars,
                 hangups>>

Discard(h) == Await(h, "discard", ~InBusy(h), "teardown")

Teardown(h) ==
  /\ pc[h] = "teardown"
  /\ IF owners[h] = NoOne
     THEN Goto(h, "leave") /\ UNCHANGED <<circuits, owners>>
     ELSE /\ circuits' = [circuits EXCEPT ![owners[h]] = NoOne]
          /\ owners' = [owners EXCEPT ![h] = NoOne]
          /\ Goto(h, IF circuits[owners[h]] = NoOne THEN "leave" ELSE "unwatch")
  /\ UNCHANGED <<id, exits, key, using, socketVars, helperVars, broken, closeVars, hangups>>

\* The expiry timer is stopped; one that already fired finds unwatched set.
Unwatch(h) ==
  /\ pc[h] = "unwatch"
  /\ unwatched' = [unwatched EXCEPT ![h] = TRUE]
  /\ timer' = [timer EXCEPT ![h] = IF @ = "armed" THEN "off" ELSE @]
  /\ stopped' = stopped \cup (IF h \in exits THEN {<<h, "bwd">>} ELSE {})
  /\ Goto(h, IF h \in exits THEN "awaitBwd" ELSE "closeNext")
  /\ UNCHANGED <<id, exits, key, using, circuits, owners, socketVars, back, pacer, broken,
                 closeVars,
                 hangups>>

\* Mutant of CloseNext: the keys of the link are waited for before its socket
\* is closed.
CloseNextBusy(h) ==
  /\ pc[h] = "closeNext"
  /\ ~OutBusy(h)
  /\ rawOut' = [rawOut EXCEPT ![h] = "closed"]
  /\ Goto(h, "discardNext")
  /\ UNCHANGED <<id, exits, key, using, circuits, owners, rawIn, conns, helperVars, broken,
                 closeVars,
                 hangups>>

CloseNext(h) ==
  /\ pc[h] = "closeNext"
  /\ rawOut' = [rawOut EXCEPT ![h] = "closed"]
  /\ Goto(h, "discardNext")
  /\ UNCHANGED <<id, exits, key, using, circuits, owners, rawIn, conns, helperVars, broken,
                 closeVars,
                 hangups>>

\* The link's keys are gone; the pacer towards the next hop is told to stop.
DiscardNext(h) ==
  /\ pc[h] = "discardNext"
  /\ ~OutBusy(h)
  /\ stopped' = stopped \cup {<<h, "fwd">>}
  /\ Goto(h, "awaitFwd")
  /\ UNCHANGED <<id, exits, key, using, circuits, owners, socketVars, back, pacer, timer, unwatched,
                 broken, closeVars, hangups>>

AwaitFwd(h) == Await(h, "awaitFwd", pacer[h]["fwd"] \in {"none", "done"}, "awaitBack")

\* Mutant of AwaitBack: nobody waits for the backward goroutine.
AwaitNobody(h) == Await(h, "awaitBack", TRUE, "dropNext")

AwaitBack(h) == Await(h, "awaitBack", back[h] \in {"closeIn", "done"}, "dropNext")

DropNext(h) ==
  /\ pc[h] = "dropNext"
  /\ conns' = conns \ {<<"out", h>>}
  /\ stopped' = stopped \cup {<<h, "bwd">>}
  /\ Goto(h, "awaitBwd")
  /\ UNCHANGED <<id, exits, key, using, circuits, owners, rawIn, rawOut, back, pacer, timer,
                 unwatched,
                 broken, closeVars, hangups>>

AwaitBwd(h) == Await(h, "awaitBwd", pacer[h]["bwd"] \in {"none", "done"}, "destroy")

Destroy(h) ==
  /\ pc[h] = "destroy"
  /\ key' = [key EXCEPT ![h] = "gone"]
  /\ Goto(h, "leave")
  /\ UNCHANGED <<id, exits, using, circuits, owners, socketVars, helperVars, broken, closeVars,
                 hangups>>

\* leave, then handlers.Done.
Leave(h) ==
  /\ pc[h] = "leave"
  /\ conns' = conns \ {<<"in", h>>}
  /\ Goto(h, "done")
  /\ UNCHANGED <<id, exits, key, using, circuits, owners, rawIn, rawOut, helperVars, broken,
                 closeVars,
                 hangups>>

-----------------------------------------------------------------------------
(* The backward goroutine.                                                 *)

BackGoto(h, place) == back' = [back EXCEPT ![h] = place]

\* A cell in turn is wrapped next; one out of turn ends the circuit.
BackRead(h) ==
  /\ back[h] = "read"
  /\ rawOut[h] = "open"
  /\ \/ BackGoto(h, "wrap") /\ UNCHANGED broken
     \/ BackGoto(h, "exit") /\ Count(h)
  /\ UNCHANGED <<handlerVars, socketVars, pacer, stopped, timer, unwatched, closeVars, hangups>>

BackReadFails(h) ==
  /\ back[h] = "read"
  /\ rawOut[h] \in {"gone", "closed"}
  /\ BackGoto(h, "exit")
  /\ UNCHANGED <<handlerVars, socketVars, pacer, stopped, timer, unwatched, broken, closeVars,
                 hangups>>

\* The key seals a layer; a pacer takes the cell if it has room.
BackWrap(h) ==
  /\ back[h] = "wrap"
  /\ \/ BackGoto(h, IF Paced THEN "read" ELSE "write") /\ UNCHANGED broken
     \/ Paced /\ BackGoto(h, "exit") /\ Count(h)
  /\ UNCHANGED <<handlerVars, socketVars, pacer, stopped, timer, unwatched, closeVars, hangups>>

BackWriteDone(h) ==
  /\ back[h] = "write"
  /\ Writes(rawIn[h])
  /\ BackGoto(h, "read")
  /\ UNCHANGED <<handlerVars, socketVars, pacer, stopped, timer, unwatched, broken, closeVars,
                 hangups>>

BackWriteFails(h) ==
  /\ back[h] = "write"
  /\ \/ FailsCounted(rawIn[h]) /\ Count(h)
     \/ rawIn[h] = "closed" /\ UNCHANGED broken
  /\ BackGoto(h, "exit")
  /\ UNCHANGED <<handlerVars, socketVars, pacer, stopped, timer, unwatched, closeVars, hangups>>

\* close(done) first, then the inbound link.
BackExit(h) ==
  /\ back[h] = "exit"
  /\ BackGoto(h, "closeIn")
  /\ UNCHANGED <<handlerVars, socketVars, pacer, stopped, timer, unwatched, broken, closeVars,
                 hangups>>

BackCloseIn(h) ==
  /\ back[h] = "closeIn"
  /\ rawIn' = [rawIn EXCEPT ![h] = Shut(@)]
  /\ BackGoto(h, "done")
  /\ UNCHANGED <<handlerVars, rawOut, conns, pacer, stopped, timer, unwatched, broken, closeVars,
                 hangups>>

-----------------------------------------------------------------------------
(* The pacers.                                                             *)

PacerRaw(h, d) == IF d = "fwd" THEN rawOut[h] ELSE rawIn[h]
PacerBusy(h, d) == IF d = "fwd" THEN OutBusy(h) ELSE InBusy(h)
PacerGoto(h, d, place) == pacer' = [pacer EXCEPT ![h][d] = place]

PacerTick(h, d) ==
  /\ pacer[h][d] = "sleep"
  /\ PacerGoto(h, d, "write")
  /\ UNCHANGED <<handlerVars, socketVars, back, stopped, timer, unwatched, broken, closeVars,
                 hangups>>

PacerStops(h, d) ==
  /\ pacer[h][d] = "sleep"
  /\ <<h, d>> \in stopped
  /\ PacerGoto(h, d, "done")
  /\ UNCHANGED <<handlerVars, socketVars, back, stopped, timer, unwatched, broken, closeVars,
                 hangups>>

PacerWriteDone(h, d) ==
  /\ pacer[h][d] = "write"
  /\ Writes(PacerRaw(h, d))
  /\ PacerGoto(h, d, "sleep")
  /\ UNCHANGED <<handlerVars, socketVars, back, stopped, timer, unwatched, broken, closeVars,
                 hangups>>

PacerWriteFails(h, d) ==
  /\ pacer[h][d] = "write"
  /\ \/ FailsCounted(PacerRaw(h, d)) /\ Count(h)
     \/ PacerRaw(h, d) = "closed" /\ UNCHANGED broken
  /\ PacerGoto(h, d, "close")
  /\ UNCHANGED <<handlerVars, socketVars, back, stopped, timer, unwatched, closeVars, hangups>>

\* The pacer closes its link, the socket first.
PacerCloses(h, d) ==
  /\ pacer[h][d] = "close"
  /\ PacerGoto(h, d, "discard")
  /\ IF d = "fwd"
     THEN rawOut' = [rawOut EXCEPT ![h] = Shut(@)] /\ UNCHANGED rawIn
     ELSE rawIn' = [rawIn EXCEPT ![h] = Shut(@)] /\ UNCHANGED rawOut
  /\ UNCHANGED <<handlerVars, conns, back, stopped, timer, unwatched, broken, closeVars, hangups>>

PacerDiscards(h, d) ==
  /\ pacer[h][d] = "discard"
  /\ ~PacerBusy(h, d)
  /\ PacerGoto(h, d, "done")
  /\ UNCHANGED <<handlerVars, socketVars, back, stopped, timer, unwatched, broken, closeVars,
                 hangups>>

-----------------------------------------------------------------------------
(* The expiry timer, the peers, and Close.                                 *)

Expire(h) ==
  /\ timer[h] = "armed"
  /\ ~unwatched[h]
  /\ unwatched' = [unwatched EXCEPT ![h] = TRUE]
  /\ timer' = [timer EXCEPT ![h] = "closing"]
  /\ UNCHANGED <<handlerVars, socketVars, back, pacer, stopped, broken, closeVars, hangups>>

ExpireCloses(h) ==
  /\ timer[h] = "closing"
  /\ timer' = [timer EXCEPT ![h] = "off"]
  /\ rawIn' = [rawIn EXCEPT ![h] = Shut(@)]
  /\ UNCHANGED <<handlerVars, rawOut, conns, back, pacer, stopped, unwatched, broken, closeVars,
                 hangups>>

\* A peer hangs up once what it sent has been read.
Hangup(h) ==
  /\ hangups < MaxHangups
  /\ hangups' = hangups + 1
  /\ \/ rawIn[h] = "open" /\ rawIn' = [rawIn EXCEPT ![h] = "gone"] /\ UNCHANGED rawOut
     \/ rawOut[h] = "open" /\ rawOut' = [rawOut EXCEPT ![h] = "gone"] /\ UNCHANGED rawIn
  /\ UNCHANGED <<handlerVars, conns, helperVars, broken, closeVars>>

CloseMarks ==
  /\ closer = "no"
  /\ closed' = TRUE
  /\ toClose' = conns
  /\ closer' = "marked"
  /\ UNCHANGED <<handlerVars, socketVars, helperVars, broken, hangups>>

\* r.cancel: a dial under way gives up.
CloseCancels ==
  /\ closer = "marked"
  /\ closer' = "closing"
  /\ UNCHANGED <<handlerVars, socketVars, helperVars, broken, closed, toClose, hangups>>

CloseSocket(s) ==
  /\ closer = "closing"
  /\ s \in toClose
  /\ toClose' = toClose \ {s}
  /\ IF s[1] = "in"
     THEN rawIn' = [rawIn EXCEPT ![s[2]] = Shut(@)] /\ UNCHANGED rawOut
     ELSE rawOut' = [rawOut EXCEPT ![s[2]] = Shut(@)] /\ UNCHANGED rawIn
  /\ UNCHANGED <<handlerVars, conns, helperVars, broken, closed, closer, hangups>>

\* handlers.Wait.
CloseReturns ==
  /\ closer = "closing"
  /\ toClose = {}
  /\ \A h \in Handlers : pc[h] \in {"start", "done"}
  /\ closer' = "returned"
  /\ UNCHANGED <<handlerVars, socketVars, helperVars, broken, closed, toClose, hangups>>

-----------------------------------------------------------------------------
\* Steps that wait for a peer, a clock or a caller.
Awaited(h) ==
  \/ Accept(h)
  \/ ReadSetup(h) \/ RefuseSetup(h) \/ ReadData(h)
  \/ DialDone(h) \/ ShakeDone(h)
  \/ WriteDone(h)
  \/ BackRead(h) \/ BackWriteDone(h)
  \/ \E d \in Dirs : PacerTick(h, d) \/ PacerWriteDone(h, d)
  \/ Expire(h) \/ Hangup(h)

\* A handler's own steps.
HandlerStep(h) ==
  \/ ReadFails(h) \/ Use(h)
  \/ Register(h) \/ Hold(h) \/ Undo(h) \/ Watch(h)
  \/ Ending(h) \/ Discard(h) \/ Teardown(h) \/ Unwatch(h)
  \/ CloseNext(h) \/ DiscardNext(h) \/ AwaitFwd(h) \/ AwaitBack(h)
  \/ DropNext(h) \/ AwaitBwd(h) \/ Destroy(h) \/ Leave(h)

BackStep(h) == BackReadFails(h) \/ BackWrap(h) \/ BackExit(h) \/ BackCloseIn(h)

PacerStep(h, d) == PacerStops(h, d) \/ PacerCloses(h, d) \/ PacerDiscards(h, d)

\* A blocked call that returns with an error.
Unblocked(h) ==
  \/ DialFails(h) \/ ShakeFails(h) \/ WriteFails(h) \/ BackWriteFails(h)
  \/ \E d \in Dirs : PacerWriteFails(h, d)

Next ==
  \/ \E h \in Handlers :
       \/ Awaited(h)
       \/ HandlerStep(h)
       \/ BackStep(h)
       \/ \E d \in Dirs : PacerStep(h, d)
       \/ Unblocked(h)
       \/ ExpireCloses(h)
  \/ CloseMarks
  \/ CloseCancels
  \/ \E s \in Sockets : CloseSocket(s)
  \/ CloseReturns

Spec == Init /\ [][Next]_vars

\* Goroutines that can run do, and a call on a socket this node closed, or a
\* dial it cancelled, returns. Nothing else a peer or a clock does is counted
\* on: no timeout has to run out.
Running ==
  /\ \A h \in Handlers :
       /\ WF_vars(HandlerStep(h))
       /\ WF_vars(BackStep(h))
       /\ \A d \in Dirs : WF_vars(PacerStep(h, d))
       /\ \A d \in Dirs : WF_vars(PacerWriteFails(h, d) /\ PacerRaw(h, d) = "closed")
       /\ WF_vars(WriteFails(h) /\ Target(h) = "closed")
       /\ WF_vars(BackWriteFails(h) /\ rawIn[h] = "closed")
       /\ WF_vars(ShakeFails(h) /\ rawOut[h] = "closed")
       /\ WF_vars(DialFails(h) /\ closer = "closing")
       /\ WF_vars(ExpireCloses(h))
  /\ WF_vars(CloseCancels)
  /\ \A s \in Sockets : WF_vars(CloseSocket(s))
  /\ WF_vars(CloseReturns)

FairSpec == Spec /\ Running

\* The write limit and the onward limit besides: a blocked call returns.
Limits ==
  \A h \in Handlers :
    /\ WF_vars(DialDone(h) \/ DialFails(h))
    /\ WF_vars(ShakeDone(h) \/ ShakeFails(h))
    /\ WF_vars(WriteDone(h) \/ WriteFails(h))
    /\ WF_vars(BackWriteDone(h) \/ BackWriteFails(h))
    /\ \A d \in Dirs : WF_vars(PacerWriteDone(h, d) \/ PacerWriteFails(h, d))

-----------------------------------------------------------------------------
(* What makes the node correct.                                            *)

\* No key is destroyed while a goroutine still uses it: not by the handler that
\* releases the circuit, not by another link that names it (relay.release,
\* relay.route: "a circuit answers only on the link that set it up").
KeysInUseAreLive ==
  \A h \in Handlers :
    /\ pc[h] = "use" => key[using[h]] = "live"
    /\ back[h] = "wrap" => key[h] = "live"

\* Nothing outlives what it belongs to. A handler that returned leaves no
\* socket, key or entry behind (relay.handle's deferred calls, release). Once
\* Close has returned there is no key, no open socket, no circuit on record and
\* no goroutine that could touch one (relay.Close: "returns once every circuit
\* key is released").
NothingLeft ==
  /\ \A h \in Handlers : pc[h] = "done" =>
       /\ <<"in", h>> \notin conns /\ <<"out", h>> \notin conns
       /\ rawIn[h] = "closed" /\ rawOut[h] \in {"none", "closed"}
       /\ key[h] # "live"
       /\ owners[h] = NoOne
  /\ closer = "returned" =>
       /\ conns = {}
       /\ \A i \in Ids : circuits[i] = NoOne
       /\ \A h \in Handlers :
            /\ key[h] # "live"
            /\ rawIn[h] \in {"none", "closed"}
            /\ rawOut[h] \in {"none", "closed"}
            /\ back[h] \in {"none", "closeIn", "done"}
            /\ \A d \in Dirs : pacer[h][d] \in {"none", "done"}

\* A circuit on record belongs to the link that owns it and to no other, and its
\* keys are live: neither a second setup with its identifier nor an extend that
\* fails leaves an entry nobody will release (relay.setup).
RecordsAgree ==
  /\ TypeOK
  /\ \A i \in Ids : circuits[i] # NoOne => owners[circuits[i]] = i
  /\ \A h \in Handlers : owners[h] # NoOne => circuits[owners[h]] = h /\ key[h] = "live"

\* Close returns, whatever peers do and without any timeout: every call that
\* could block is on a socket Close closes or a dial it cancels (relay.Close).
CloseCompletes == closed ~> closer = "returned"

\* Once a link of a circuit breaks, or its time is up, and given that blocked
\* calls time out, the handler releases everything and returns; nobody waits for
\* ever on anybody (relay.teardown).
BrokenCircuitReleased ==
  Limits =>
    \A h \in Handlers :
      (rawIn[h] \in {"gone", "closed"} \/ rawOut[h] \in {"gone", "closed"}) ~> pc[h] = "done"

\* Counters.Broken counts circuits this node closed: one circuit, once.
BrokenCountsCircuits == \A h \in Handlers : broken[h] <= 1

=============================================================================

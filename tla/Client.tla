-------------------------------- MODULE Client ---------------------------------
(***************************************************************************)
(* A client of one circuit: client/client.go after Dial, the link it       *)
(* writes to and reads from (link/link.go), and the loop of the client     *)
(* program (exchange, cmd/client/main.go).                                 *)
(*                                                                         *)
(* Threads: "main" runs exchange; "other" is a second caller of Send;      *)
(* "ticker" is the goroutine of startCover or startSchedule; "receiver" is *)
(* receive; "closer" is whoever calls Close.  Beyond the link is a circuit *)
(* that answers every cell once and in turn, until somebody on it forges.  *)
(***************************************************************************)
EXTENDS ClientDial

CONSTANTS
    Loads,      \* the mode the client may run in, and how often each of its
                \* callers sends then, at most
    OutCap,     \* cells the connection takes before a write blocks
    QueueCap,   \* messages the schedule holds
    RepliesCap  \* replies held for the caller

Callers == {"main", "other", "ticker"}
Threads == Callers \cup {"receiver", "closer"}

ASSUME ClientAssumption ==
    /\ \A l \in Loads :
         /\ l.mode \in {"immediate", "cover", "schedule"}
         /\ l.calls \in [Callers -> Nat] /\ l.calls["main"] > 0
    /\ OutCap \in Nat \ {0} /\ QueueCap \in Nat \ {0} /\ RepliesCap \in Nat \ {0}

VARIABLES
    mode,           \* Config.Mode and the rates, for good
    at,             \* at[t]: where thread t is
    left,           \* left[t]: calls caller t may still make
    closed,         \* Close was called
    refused,        \* the class of the reply the circuit was closed over
    sent,           \* cells counted
    num,            \* num[t]: the counter caller t has taken
    sendMu, wmu, rmu,   \* the thread that holds each lock
    werr,           \* a write has failed
    shut,           \* who shut the connection first
    out, in,        \* cells and replies on their way
    answered,       \* cells the circuit has answered
    forged,         \* somebody on the circuit has deviated
    want,           \* the reply the receiver expects
    cell,           \* the reply it is looking at
    queue,          \* messages waiting for the schedule
    carries,        \* whether the ticker's cell carries one
    replies,        \* [n, open]: the channel of the replies
    stop,           \* stopCover is closed
    code, why       \* how exchange ended, and what ended it (history)

linkVars == <<wmu, rmu, werr, shut>>
pathVars == <<out, in, answered, forged>>
replyVars == <<want, cell, replies, refused>>
senderVars == <<left, sent, num, sendMu, queue, carries>>
endVars == <<code, why>>
closeVars == <<mode, closed, stop>>
running == <<at, linkVars, pathVars, replyVars, senderVars, endVars, closeVars>>
dialling == <<dial, hop, answerer, pc, live, messages>>
vars == <<running, dialling>>

NoCell == [kind |-> None, n |-> 0, cover |-> FALSE]

Init ==
    /\ DialInit
    /\ \E l \in Loads : mode = l.mode /\ left = l.calls
    /\ at = [t \in Threads |-> CASE t = "receiver" -> "read"
                                 [] t = "closer"   -> "idle"
                                 [] OTHER          -> "next"]
    /\ closed = FALSE /\ refused = None /\ sent = 0
    /\ num = [t \in Callers |-> 0]
    /\ sendMu = None /\ wmu = None /\ rmu = None /\ werr = FALSE
    /\ shut = None /\ out = <<>> /\ in = <<>> /\ answered = 0 /\ forged = FALSE
    /\ want = 0 /\ cell = NoCell /\ replies = [n |-> 0, open |-> TRUE]
    /\ queue = 0 /\ carries = FALSE /\ stop = FALSE
    /\ code = None /\ why = None

\* Before Dial has returned nothing runs; afterwards what it made is only
\* released.
Up == dial = "up"
Release(rs) == live' = live \ rs /\ UNCHANGED <<dial, hop, answerer, pc, messages>>

Move(t, to) == at' = [at EXCEPT ![t] = to]

Sending == {"jitter", "lock", "seal", "frame", "write"}
Layers == All({"layer"})
SendCipherOf == <<"init", "send">>
RecvCipherOf == <<"init", "recv">>

-------------------------------------------------------------------------------
(* send. *)

\* The callers of a mode: the schedule alone sends in its mode, and there is no
\* ticker without cover.
MaySend(t) ==
    CASE t = "ticker" -> mode # "immediate"
      [] t = "main"   -> mode # "schedule"
      [] OTHER        -> mode = "immediate"

\* send returns to its caller: exchange waits for a reply or reports, the ticker
\* goes on or ends.
Return(t, ok, cause) ==
    /\ Move(t, CASE t = "main" -> IF ok THEN "await" ELSE "report"
                 [] t = "ticker" /\ ~ok -> "over"
                 [] OTHER -> "next")
    /\ why' = IF t = "main" /\ ~ok THEN cause ELSE why

\* Up to busy.Add.  A tick of the schedule takes a message if there is one.
EnterSend(t) ==
    /\ Up /\ at[t] = "next" /\ MaySend(t) /\ left[t] > 0
    /\ left' = [left EXCEPT ![t] = @ - 1]
    /\ IF t = "ticker" /\ queue > 0
       THEN queue' = queue - 1 /\ carries' = TRUE
       ELSE queue' = queue /\ carries' = IF t = "ticker" THEN FALSE ELSE carries
    /\ IF closed THEN Return(t, FALSE, "close") ELSE Move(t, "jitter") /\ UNCHANGED why
    /\ UNCHANGED <<linkVars, pathVars, replyVars, sent, num, sendMu, code, closeVars,
                   dialling>>

\* delay: the time is up, or there was no randomness for it.
Delay(t) ==
    /\ at[t] = "jitter"
    /\ \/ Move(t, "lock") /\ UNCHANGED why
       \/ Return(t, FALSE, None)
    /\ UNCHANGED <<linkVars, pathVars, replyVars, senderVars, code, closeVars,
                   dialling>>

\* Mutant: the lock is not waited for.
AnySender == TRUE

SendFree == sendMu = None

\* sendMu, the second look at closed, and the counter.
TakeCounter(t) ==
    /\ at[t] = "lock" /\ SendFree
    /\ IF closed
       THEN Return(t, FALSE, "close") /\ UNCHANGED <<sendMu, num>>
       ELSE /\ sendMu' = t /\ num' = [num EXCEPT ![t] = sent]
            /\ Move(t, "seal") /\ UNCHANGED why
    /\ UNCHANGED <<linkVars, pathVars, replyVars, left, sent, queue, carries, code,
                   closeVars, dialling>>

\* Mutant: the cell is not counted before it is written.
SealUncounted(t) ==
    /\ at[t] = "seal"
    /\ Move(t, "frame") /\ UNCHANGED <<why, sendMu, sent>>
    /\ UNCHANGED <<linkVars, pathVars, replyVars, left, num, queue, carries, code,
                   closeVars, dialling>>

\* The circuit's keys seal the cell, which is counted, or too large.
Seal(t) ==
    /\ at[t] = "seal"
    /\ \/ Move(t, "frame") /\ sent' = num[t] + 1 /\ UNCHANGED <<why, sendMu>>
       \/ Return(t, FALSE, None) /\ sendMu' = None /\ UNCHANGED sent
    /\ UNCHANGED <<linkVars, pathVars, replyVars, left, num, queue, carries, code,
                   closeVars, dialling>>

\* WriteCell up to the write: the lock, an earlier failure, a discarded cipher.
Frame(t) ==
    /\ at[t] = "frame" /\ wmu = None
    /\ IF werr \/ SendCipherOf \notin live
       THEN Return(t, FALSE, shut) /\ sendMu' = None /\ UNCHANGED wmu
       ELSE Move(t, "write") /\ wmu' = t /\ UNCHANGED <<why, sendMu>>
    /\ UNCHANGED <<rmu, werr, shut, pathVars, replyVars, left, sent, num, queue,
                   carries, code, closeVars, dialling>>

\* There is room; what is written after the far side has gone is lost.
WriteDone(t) ==
    /\ at[t] = "write" /\ shut \in {None, "peer"} /\ Len(out) < OutCap
    /\ out' = IF shut = None
              THEN Append(out, [n |-> num[t], cover |-> t = "ticker" /\ ~carries])
              ELSE out
    /\ Return(t, TRUE, None)
    /\ sendMu' = None /\ wmu' = None
    /\ UNCHANGED <<rmu, werr, shut, in, answered, forged, replyVars, left, sent, num,
                   queue, carries, code, closeVars, dialling>>

WriteFails(t) ==
    /\ at[t] = "write" /\ shut # None
    /\ werr' = TRUE
    /\ Return(t, FALSE, shut)
    /\ sendMu' = None /\ wmu' = None
    /\ UNCHANGED <<rmu, shut, pathVars, replyVars, left, sent, num, queue, carries,
                   code, closeVars, dialling>>

\* The ticker sees stopCover closed.
TickerStops ==
    /\ Up /\ at["ticker"] = "next" /\ stop
    /\ Move("ticker", "over")
    /\ UNCHANGED <<linkVars, pathVars, replyVars, senderVars, endVars, closeVars,
                   dialling>>

-------------------------------------------------------------------------------
(* exchange. *)

\* Send on a schedule: the message is queued, or dropped when it is full; one
\* too large is an error at once, not at its tick.
Enqueue ==
    /\ Up /\ at["main"] = "next" /\ mode = "schedule" /\ left["main"] > 0
    /\ left' = [left EXCEPT !["main"] = @ - 1]
    /\ \/ /\ queue' = IF queue < QueueCap THEN queue + 1 ELSE queue
          /\ Move("main", "await")
       \/ Move("main", "report") /\ UNCHANGED queue
    /\ UNCHANGED <<linkVars, pathVars, replyVars, sent, num, sendMu, carries, endVars,
                   closeVars, dialling>>

End(c) == Move("main", "over") /\ code' = c

\* The next message after a reply, or after none has come for 5 seconds.
Continue == IF left["main"] = 0 THEN End("done") ELSE Move("main", "next") /\ UNCHANGED code

AwaitReply ==
    /\ at["main"] = "await"
    /\ \/ replies.n > 0 /\ replies' = [replies EXCEPT !.n = @ - 1] /\ Continue
       \/ (replies.n = 0 => replies.open) /\ UNCHANGED replies /\ Continue
    /\ UNCHANGED <<linkVars, pathVars, want, cell, refused, senderVars, why,
                   closeVars, dialling>>

\* ending: the code tells a refusal from any other end.
Ending == IF refused # None THEN "refused" ELSE "failed"

RepliesClosed ==
    /\ at["main"] = "await" /\ replies.n = 0 /\ ~replies.open
    /\ End(Ending) /\ why' = shut
    /\ UNCHANGED <<linkVars, pathVars, replyVars, senderVars, closeVars, dialling>>

\* Mutant: a failed send is reported as what it is.
ReportSend ==
    /\ at["main"] = "report"
    /\ End("failed")
    /\ UNCHANGED <<linkVars, pathVars, replyVars, senderVars, why, closeVars,
                   dialling>>

\* A failed send is reported as the refusal it follows.
Report ==
    /\ at["main"] = "report"
    /\ End(Ending)
    /\ UNCHANGED <<linkVars, pathVars, replyVars, senderVars, why, closeVars,
                   dialling>>

-------------------------------------------------------------------------------
(* receive. *)

\* readFrame takes rmu and keeps it while it waits.
Read ==
    /\ Up /\ at["receiver"] = "read" /\ rmu = None
    /\ rmu' = "receiver" /\ Move("receiver", "waiting")
    /\ UNCHANGED <<wmu, werr, shut, pathVars, replyVars, senderVars, endVars,
                   closeVars, dialling>>

\* receive returns: the replies end.
Leave == Move("receiver", "over") /\ replies' = [replies EXCEPT !.open = FALSE]

\* A frame arrives: one that does not open under the link's keys ends it.
ReadCell ==
    /\ at["receiver"] = "waiting" /\ shut \in {None, "peer"} /\ in # <<>>
    /\ rmu' = None
    /\ in' = Tail(in)
    /\ IF Head(in).kind = "frame"
       THEN Leave /\ cell' = NoCell
       ELSE Move("receiver", "open") /\ cell' = Head(in) /\ UNCHANGED replies
    /\ UNCHANGED <<wmu, werr, shut, out, answered, forged, want, refused, senderVars,
                   endVars, closeVars, dialling>>

ReadFails ==
    /\ at["receiver"] = "waiting"
    /\ shut \in {"refusal", "close"} \/ (shut = "peer" /\ in = <<>>)
    /\ rmu' = None /\ Leave
    /\ UNCHANGED <<wmu, werr, shut, pathVars, want, cell, refused, senderVars,
                   endVars, closeVars, dialling>>

\* open: the first check a reply fails, or None.
Verdict(c) ==
    CASE c.kind = "header"  -> "bad header"
      [] c.kind = "garbled" -> "did not open"
      [] c.n # want         -> "out of turn"
      [] want >= sent       -> "unsolicited"
      [] OTHER              -> None

\* The circuit's keys open the reply.  A payload goes to the caller, unless the
\* channel is full; a refusal is noted before the link is closed over it.
OpenReply ==
    /\ at["receiver"] = "open"
    /\ IF Verdict(cell) # None
       THEN /\ refused' = Verdict(cell) /\ Move("receiver", "closeRaw")
            /\ UNCHANGED <<want, replies>>
       ELSE /\ want' = want + 1 /\ Move("receiver", "read")
            /\ replies' = IF cell.cover \/ replies.n = RepliesCap THEN replies
                          ELSE [replies EXCEPT !.n = @ + 1]
            /\ UNCHANGED refused
    /\ cell' = NoCell
    /\ UNCHANGED <<linkVars, pathVars, senderVars, endVars, closeVars, dialling>>

-------------------------------------------------------------------------------
(* link.Conn.Close, by the receiver after a refusal and by Close. *)

Closers == {"receiver", "closer"}

CloseRaw(t) ==
    /\ at[t] = "closeRaw"
    /\ shut' = IF shut # None THEN shut
               ELSE IF t = "receiver" THEN "refusal" ELSE "close"
    /\ Move(t, "discardSend")
    /\ Release({Raw})
    /\ UNCHANGED <<wmu, rmu, werr, pathVars, replyVars, senderVars, endVars,
                   closeVars>>

DiscardSend(t) ==
    /\ at[t] = "discardSend" /\ wmu = None
    /\ Move(t, "discardRecv")
    /\ Release({SendCipherOf})
    /\ UNCHANGED <<linkVars, pathVars, replyVars, senderVars, endVars, closeVars>>

DiscardRecv(t) ==
    /\ at[t] = "discardRecv" /\ rmu = None
    /\ IF t = "receiver" THEN Leave ELSE Move(t, "stop") /\ UNCHANGED replies
    /\ Release({RecvCipherOf})
    /\ UNCHANGED <<linkVars, pathVars, want, cell, refused, senderVars, endVars,
                   closeVars>>

-------------------------------------------------------------------------------
(* Close. *)

\* Mutant: the ciphers go before the socket.
DiscardFirst ==
    /\ Up /\ at["closer"] = "idle"
    /\ closed' = TRUE /\ Move("closer", "discardSend")
    /\ UNCHANGED <<linkVars, pathVars, replyVars, senderVars, endVars, mode, stop,
                   dialling>>

StartClose ==
    /\ Up /\ at["closer"] = "idle"
    /\ closed' = TRUE /\ Move("closer", "closeRaw")
    /\ UNCHANGED <<linkVars, pathVars, replyVars, senderVars, endVars, mode, stop,
                   dialling>>

\* Nothing to stop without a ticker.
StopCover ==
    /\ at["closer"] = "stop"
    /\ stop' = (mode # "immediate") /\ Move("closer", "wait")
    /\ UNCHANGED <<linkVars, pathVars, replyVars, senderVars, endVars, mode, closed,
                   dialling>>

\* Mutant: Close waits for the ticker only.
NotTicking == stop => at["ticker"] = "over"

\* coverDone.Wait and busy.Wait.
Unused ==
    /\ stop => at["ticker"] = "over"
    /\ \A t \in Callers : at[t] \notin Sending
    /\ at["receiver"] = "over"

ReleaseKeys ==
    /\ at["closer"] = "wait" /\ Unused
    /\ Move("closer", "done")
    /\ Release(Circuit)
    /\ UNCHANGED <<linkVars, pathVars, replyVars, senderVars, endVars, closeVars>>

-------------------------------------------------------------------------------
(* The far side. *)

\* Every cell is answered once and in turn.
Echo ==
    /\ out # <<>> /\ Head(out).n = answered /\ shut = None
    /\ Len(in) < OutCap
    /\ in' = Append(in, [kind |-> "reply", n |-> answered, cover |-> Head(out).cover])
    /\ out' = Tail(out) /\ answered' = answered + 1
    /\ UNCHANGED <<linkVars, forged, replyVars, senderVars, endVars, closeVars, at,
                   dialling>>

\* A relay sends what the protocol does not allow: a frame that does not open, a
\* cell with a wrong header or layer, or, as the exit, a reply too many.
Forge ==
    /\ Up /\ ~forged /\ shut = None /\ Len(in) < OutCap
    /\ forged' = TRUE
    /\ \E k \in {"frame", "header", "garbled", "reply"}, n \in {answered, answered + 1} :
          in' = Append(in, [kind |-> k, n |-> n, cover |-> FALSE])
    /\ UNCHANGED <<linkVars, out, answered, replyVars, senderVars, endVars, closeVars,
                   at, dialling>>

\* The entry closes the link, or the network does.
Cut ==
    /\ Up /\ shut = None
    /\ shut' = "peer"
    /\ UNCHANGED <<wmu, rmu, werr, pathVars, replyVars, senderVars, endVars,
                   closeVars, at, dialling>>

-------------------------------------------------------------------------------
Dialling == ~Up /\ (DialStep \/ AcceptStep) /\ UNCHANGED running

CallerStep(t) ==
    EnterSend(t) \/ Delay(t) \/ TakeCounter(t) \/ Seal(t) \/ Frame(t) \/ WriteFails(t)
Exchange == Enqueue \/ AwaitReply \/ RepliesClosed \/ Report
Receive == Read \/ ReadCell \/ ReadFails \/ OpenReply
CloseLink(t) == CloseRaw(t) \/ DiscardSend(t) \/ DiscardRecv(t)
Finish == StopCover \/ ReleaseKeys

Next ==
    \/ Dialling
    \/ \E t \in Callers : CallerStep(t) \/ WriteDone(t)
    \/ TickerStops \/ Exchange \/ Receive
    \/ \E t \in Closers : CloseLink(t)
    \/ StartClose \/ Finish
    \/ Echo \/ Forge \/ Cut

Spec == Init /\ [][Next]_vars

\* Goroutines that can run do, and Dial's waits have deadlines.  Nothing is asked
\* of the entry: it need not read, answer or close.
FairSpec ==
    /\ Spec
    /\ WF_vars(~Up /\ DialStep /\ UNCHANGED running)
    /\ \A t \in Callers : WF_vars(CallerStep(t))
    /\ WF_vars(TickerStops) /\ WF_vars(Exchange) /\ WF_vars(Receive)
    /\ \A t \in Closers : WF_vars(CloseLink(t))
    /\ WF_vars(Finish)

-------------------------------------------------------------------------------
(* Properties. *)

\* The keys of the circuit are there while a sender seals a cell or the receiver
\* opens one, and the link's while a frame is written, whatever Close and a
\* refusal do meanwhile (Close: busy.Wait before circuit.Close; discard's locks).
KeysOutliveUsers ==
    Up =>
      /\ \A t \in Callers : at[t] = "seal" => Layers \subseteq live
      /\ at["receiver"] = "open" => Layers \subseteq live
      /\ \A t \in Callers : at[t] = "write" => SendCipherOf \in live

\* Cells leave with the counters in turn, however many callers there are and
\* however long each one's jitter is (send: the counter is taken under sendMu,
\* after the delay).
CellsInTurn == \A i \in DOMAIN out : out[i].n = answered + i - 1

\* A circuit that keeps to the protocol is never refused: no reply outruns the
\* count of the cell it answers (send counts before it writes).
HonestNotRefused == refused # None => forged

\* When the client has closed its circuit over a reply, the program says so: a
\* send that fails on that close, or the end of the replies, is reported as the
\* refusal (exchange, receive).
RefusalNamed == why = "refusal" => code # "failed"

\* A Dial that fails, a handshake that fails and a Close that has returned leave
\* no key, cipher or socket behind, and no goroutine of the client.
NothingHeld ==
    /\ dial = "failed" => Mine = {}
    /\ SideClean("resp")
    /\ dial = "setup" => SideClean("init")
    /\ at["closer"] = "done" =>
         /\ Mine = {} /\ at["receiver"] = "over"
         /\ \A t \in Callers : at[t] \notin Sending

\* Nothing is written to a responder that has not shown it derived the same keys
\* (link.Dial returns only after the confirmation opened).
ConfirmedFirst ==
    dial \in {"setup", "up"} => pc["resp"] = "open" /\ FrameKeys("resp") = FrameKeys("init")

\* Dial comes back, and once Close is called it returns and the program's loop
\* ends, with an entry that neither reads nor answers.
Returns ==
    /\ <>(dial \in {"up", "failed"})
    /\ closed ~> (at["closer"] = "done" /\ at["main"] = "over")

================================================================================

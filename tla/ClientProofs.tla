------------------------------ MODULE ClientProofs ------------------------------
(***************************************************************************)
(* For every number of hops, every load and every size of the buffers: the *)
(* keys outlive their users, cells leave in turn, an honest circuit is not *)
(* refused, a refusal is named, nothing is left behind, and nothing is     *)
(* written to a responder that has not confirmed its keys.                 *)
(*                                                                         *)
(* The invariant has two halves.  DialInv says exactly what is held at     *)
(* every step of Dial and of the handshake, so that each list of what a    *)
(* failure releases can be compared with it.  RunInv says who holds which  *)
(* lock, how the counter of the cells, the cells on their way and the      *)
(* replies add up, and that a connection is shut before a cipher goes.     *)
(* The first cannot do without the other: a client starts with what Dial   *)
(* leaves it, and Close releases that and nothing else.                    *)
(***************************************************************************)
EXTENDS Client, TLAPS

\* What a side of the handshake and a client own, by name.
SideNames == {"eph", "es", "ee", "secret", "sendKey", "recvKey", "send", "recv"}
HopNames == {"eph", "secret", "setup", "cell", "layer"}

Resources == Own("init", SideNames) \cup Own("resp", SideNames) \cup All(HopNames) \cup {Raw}

-------------------------------------------------------------------------------
(* The names of what is held. *)

LEMMA InOwn ==
    ASSUME NEW s, NEW t, NEW n, NEW A
    PROVE  <<s, n>> \in Own(t, A) <=> s = t /\ n \in A
BY DEF Own

LEMMA InAll ==
    ASSUME NEW n, NEW i \in 1 .. Hops, NEW A
    PROVE  Of(n, i) \in All(A) <=> n \in A
BY DEF Of, All

LEMMA OfDistinct ==
    ASSUME NEW n, NEW m, NEW i, NEW j
    PROVE  Of(n, i) = Of(m, j) <=> n = m /\ i = j
BY DEF Of

LEMMA OwnersDistinct ==
    ASSUME NEW s \in Sides, NEW n, NEW m, NEW i, NEW A
    PROVE  /\ <<s, n>> # Raw /\ <<s, n>> # Of(m, i) /\ Raw # Of(m, i)
           /\ <<s, n>> \notin All(A) /\ Raw \notin All(A)
           /\ Of(m, i) \notin Own(s, A) /\ Raw \notin Own(s, A)
<1>1. <<s, n>> # Raw /\ Raw # Of(m, i)
  BY DEF Raw, Sides, Of
<1>2. \A k, j : <<s, n>> # Of(k, j) /\ Raw # Of(k, j)
  BY DEF Of, Sides, Raw
<1>3. <<s, n>> \notin All(A) /\ Raw \notin All(A)
  BY <1>2 DEF All
<1>4. \A k : <<s, k>> # Of(m, i) /\ <<s, k>> # Raw
  BY DEF Of, Sides, Raw
<1> QED  BY <1>1, <1>2, <1>3, <1>4 DEF Own

LEMMA RawIsNoHops ==
    /\ \A m, i : Raw # Of(m, i)
    /\ \A A : Raw \notin All(A)
BY DEF Raw, Of, All

-------------------------------------------------------------------------------
(* Dial and the handshake. *)

Steps == {"idle", "hello", "eph", "answer", "static", "ephemeral", "mix", "sendKey",
          "recvKey", "sendCipher", "recvCipher", "confirm", "open", "failed"}
Building == {"start", "eph", "agree", "setupKey", "cellKey", "offsets", "seal", "layers",
             "entry"}
Connecting == {"link", "setup"}

\* What side s holds at step p.
Holds(s, p) ==
    CASE p \in {"answer", "static"} -> Early
      [] p = "hello"      -> IF s = "init" THEN Early ELSE {}
      [] p = "ephemeral"  -> Early \cup {"es"}
      [] p = "mix"        -> Early \cup {"es", "ee"}
      [] p = "sendKey"    -> Late
      [] p = "recvKey"    -> Late \cup {"sendKey"}
      [] p = "sendCipher" -> Late \cup {"sendKey", "recvKey"}
      [] p = "recvCipher" -> Late \cup {"sendKey", "recvKey", "send"}
      [] p = "confirm"    -> Late \cup {"send", "recv"}
      [] p = "open"       -> {"send", "recv"}
      [] OTHER            -> {}

DialType ==
    /\ dial \in Building \cup Connecting \cup {"up", "failed"}
    /\ hop \in 1 .. Hops
    /\ pc \in [Sides -> Steps]
    /\ live \subseteq Resources

\* The link is dialled after the circuit is made, and used once it is open.
InTurn ==
    /\ dial \in Building => pc["init"] = "idle"
    /\ dial = "link" => pc["init"] # "idle"
    /\ dial \in {"setup", "up"} => pc["init"] = "open"
    /\ dial = "failed" => pc["init"] \in {"idle", "failed", "open"}

\* The initiator's side is Dial's to release in the end.
SidesExact ==
    /\ \A n \in SideNames : <<"resp", n>> \in live <=> n \in Holds("resp", pc["resp"])
    /\ dial \in Building \cup Connecting => \A n \in SideNames :
          <<"init", n>> \in live <=> n \in Holds("init", pc["init"])
    /\ dial = "failed" => \A n \in SideNames : <<"init", n>> \notin live

\* What Dial holds for hop i until it has returned a client.
HopExact(i) ==
    /\ Of("eph", i) \in live <=> dial = "agree" /\ i = hop
    /\ Of("secret", i) \in live <=> dial \in {"setupKey", "cellKey", "offsets"} /\ i = hop
    /\ Of("setup", i) \in live <=>
         \/ dial \in {"eph", "agree", "setupKey"} /\ i < hop
         \/ dial \in {"cellKey", "offsets"} /\ i <= hop
         \/ dial = "seal"
    /\ Of("cell", i) \in live <=>
         \/ dial \in {"eph", "agree", "setupKey", "cellKey"} /\ i < hop
         \/ dial = "offsets" /\ i <= hop
         \/ dial \in {"seal", "layers", "entry"} \cup Connecting
    /\ Of("layer", i) \in live <=>
         \/ dial = "layers" /\ i < hop
         \/ dial \in {"entry"} \cup Connecting

ClientExact ==
    ~Up => /\ dial \in {"start", "seal"} => hop = 1
           /\ \A i \in 1 .. Hops : HopExact(i)
           /\ Raw \in live <=> dial \in Connecting

\* Who has heard of what: the responder of a hello, and the confirmation is of
\* the keys the responder has derived and the initiator has.
Agreement ==
    /\ hello.mode # None => pc["init"] \notin {"idle", "eph", "hello"}
    /\ pc["resp"] \notin {"hello", "failed"} => hello.mode # None
    /\ confirm.padding => pc["resp"] = "open" /\ confirm.keys = FrameKeys("resp")
    /\ pc["init"] = "open" => confirm.padding /\ confirm.keys = FrameKeys("init")

DialInv == DialType /\ InTurn /\ SidesExact /\ ClientExact /\ Agreement

-------------------------------------------------------------------------------
(* The client once Dial has returned it. *)

Outgoing == Seq([n : Nat, cover : BOOLEAN])
Incoming == Seq([kind : {"reply", "frame", "header", "garbled"}, n : Nat, cover : BOOLEAN])

Places ==
    Sending \cup {"next", "await", "report", "over", "read", "waiting", "open", "closeRaw",
                "discardSend", "discardRecv", "idle", "stop", "wait", "done"}

RunType ==
    /\ at \in [Threads -> Places]
    /\ \A t \in Callers :
         at[t] \in Sending \cup {"next", "await", "report", "over"}
    /\ at["receiver"] \in {"read", "waiting", "open", "closeRaw", "discardSend",
                           "discardRecv", "over"}
    /\ at["closer"] \in {"idle", "closeRaw", "discardSend", "discardRecv", "stop", "wait",
                         "done"}
    /\ sent \in Nat /\ answered \in Nat /\ want \in Nat
    /\ num \in [Callers -> Nat]
    /\ out \in Outgoing /\ in \in Incoming
    /\ closed \in BOOLEAN /\ forged \in BOOLEAN

\* Nothing runs before there is a client.
Waiting ==
    ~Up => /\ \A t \in Callers : at[t] = "next"
           /\ at["receiver"] = "read" /\ at["closer"] = "idle"

\* A lock is held by the thread that is between taking it and giving it back.
Locked ==
    /\ sendMu \in Callers \cup {None} /\ wmu \in Callers \cup {None}
    /\ \A t \in Callers : at[t] \in {"seal", "frame", "write"} <=> sendMu = t
    /\ \A t \in Callers : at[t] = "write" <=> wmu = t

\* A cell is counted before it leaves, and while the connection is whole only
\* the cell of the thread that holds sendMu is not on its way.
InHand == \E t \in Callers : at[t] \in {"frame", "write"}

Counted ==
    /\ \A t \in Callers :
         /\ at[t] = "seal" => num[t] = sent
         /\ at[t] \in {"frame", "write"} => num[t] + 1 = sent
    /\ answered + Len(out) <= sent
    /\ shut = None => answered + Len(out) = (IF InHand THEN sent - 1 ELSE sent)

\* A write fails, and a cipher goes, only after the connection was shut; over a
\* refusal, once the refusal is noted.
ShutFirst ==
    /\ werr => shut # None
    /\ \A t \in Closers :
         at[t] \in {"discardSend", "discardRecv", "stop", "wait", "done"} => shut # None
    /\ Up /\ SendCipherOf \notin live => shut # None
    /\ shut = "refusal" => refused # None
    /\ at["receiver"] \in {"closeRaw", "discardSend", "discardRecv"} => refused # None

\* What a client holds from Dial on, and what Close has released by then.
Released ==
    /\ closed <=> at["closer"] # "idle"
    /\ Up => live \subseteq Own("resp", SideNames) \cup Own("init", {"send", "recv"})
                             \cup Circuit \cup {Raw}
    /\ Up /\ at["closer"] # "done" => Layers \subseteq live
    /\ \A t \in Callers : at[t] = "write" => SendCipherOf \in live
    /\ at["closer"] \in {"discardSend", "discardRecv", "stop", "wait", "done"} =>
         Raw \notin live
    /\ at["closer"] \in {"discardRecv", "stop", "wait", "done"} => SendCipherOf \notin live
    /\ at["closer"] \in {"stop", "wait", "done"} => RecvCipherOf \notin live
    /\ at["closer"] = "done" =>
         /\ \A x \in Circuit : x \notin live
         /\ at["receiver"] = "over"
         /\ \A t \in Callers : at[t] \notin Sending

\* The replies of a circuit that keeps to the protocol are in turn, from the one
\* the receiver expects.
Honest ==
    ~forged =>
      /\ refused = None
      /\ at["receiver"] \in {"read", "waiting", "open", "over"}
      /\ \A i \in DOMAIN in : in[i].kind = "reply" /\ in[i].n + Len(in) + 1 = answered + i
      /\ at["receiver"] \in {"read", "waiting"} => want + Len(in) = answered
      /\ at["receiver"] = "open" =>
           cell.kind = "reply" /\ cell.n = want /\ want + Len(in) + 1 = answered

Reported ==
    /\ code # None => at["main"] = "over"
    /\ why = "refusal" => refused # None /\ code # "failed"

RunInv ==
    /\ RunType /\ Waiting /\ Locked /\ Counted /\ CellsInTurn
    /\ ShutFirst /\ Released /\ Honest /\ Reported

ClientInv == DialInv /\ RunInv

-------------------------------------------------------------------------------
(* Steps of the handshake. *)

\* A side moves on: what it takes and releases is its own.
LEMMA SideStep ==
    ASSUME DialInv, NEW s \in Sides, s = "init" => dial = "link", ~Up,
           NEW p \in Steps, NEW q \in Steps \ {"idle"},
           NEW take \in SUBSET SideNames, NEW release \in SUBSET SideNames,
           Pass(s, p, q, take, release), UNCHANGED <<dial, hop>>,
           \A n \in SideNames :
             n \in Holds(s, q) <=> (n \in Holds(s, p) /\ n \notin release) \/ n \in take
    PROVE  DialType' /\ InTurn' /\ SidesExact' /\ ClientExact'
<1> USE DEF DialInv, Up
<1>1. pc[s] = p /\ pc' = [pc EXCEPT ![s] = q] /\ pc' \in [Sides -> Steps]
      /\ live' = (live \ Own(s, release)) \cup Own(s, take)
  BY DEF Pass, DialType
<1>2. Own(s, take) \subseteq Resources
  BY DEF Own, Sides, Resources
<1>3. DialType'
  BY <1>1, <1>2 DEF DialType
<1>4. InTurn'
  BY <1>1 DEF InTurn, DialType, Sides, Building
<1>5. \A t \in Sides, n \in SideNames :
         <<t, n>> \in live' <=> IF t = s THEN (<<t, n>> \in live /\ n \notin release) \/ n \in take
                               ELSE <<t, n>> \in live
  BY <1>1, InOwn
<1>6. SidesExact'
  BY <1>1, <1>5 DEF SidesExact, Sides, DialType, Building, Connecting
<1>7. \A n, i : Of(n, i) \in live' <=> Of(n, i) \in live
  BY <1>1, OwnersDistinct
<1>8. Raw \in live' <=> Raw \in live
  BY <1>1, OwnersDistinct
<1>9. ClientExact'
  BY <1>7, <1>8 DEF ClientExact, HopExact
<1> QED  BY <1>3, <1>4, <1>6, <1>9

\* Only Dial's own wait lets the initiator move.
LEMMA InitiatorMoves ==
    ASSUME DialInv, ~Up, pc["init"] \notin {"idle", "open", "failed"}
    PROVE  dial = "link"
BY DEF DialInv, InTurn, DialType, Building, Connecting, Up

\* What is held at each step, and that a failure releases all of it.
LEMMA HoldsAt ==
    ASSUME NEW s \in Sides
    PROVE  /\ Holds(s, "static") = Early /\ Holds(s, "answer") = Early
           /\ Holds("init", "hello") = Early /\ Holds("resp", "hello") = {}
           /\ Holds(s, "ephemeral") = Early \cup {"es"}
           /\ Holds(s, "mix") = Early \cup {"es", "ee"}
           /\ Holds(s, "sendKey") = Late
           /\ Holds(s, "recvKey") = Late \cup {"sendKey"}
           /\ Holds(s, "sendCipher") = Late \cup {"sendKey", "recvKey"}
           /\ Holds(s, "recvCipher") = Late \cup {"sendKey", "recvKey", "send"}
           /\ Holds(s, "confirm") = Late \cup {"send", "recv"}
           /\ Holds(s, "open") = {"send", "recv"}
           /\ Holds(s, "idle") = {} /\ Holds(s, "eph") = {} /\ Holds(s, "failed") = {}
BY DEF Holds

\* A side that fails has released everything.
LEMMA FailStep ==
    ASSUME DialInv, NEW s \in Sides, s = "init" => dial = "link", ~Up,
           NEW p \in Steps, NEW lose \in SUBSET SideNames,
           Fail(s, p, lose), UNCHANGED <<dial, hop>>, Holds(s, p) \subseteq lose
    PROVE  DialType' /\ InTurn' /\ SidesExact' /\ ClientExact'
<1>1. \A n \in SideNames :
        n \in Holds(s, "failed") <=> (n \in Holds(s, p) /\ n \notin lose) \/ n \in {}
  BY HoldsAt
<1>2. {} \in SUBSET SideNames /\ "failed" \in Steps \ {"idle"}
  BY DEF Steps
<1>3. Pass(s, p, "failed", {}, lose)
  BY DEF Fail
<1> QED  BY <1>1, <1>2, <1>3, SideStep

\* A side goes on or fails, and nobody is told anything.
LEMMA TryKeeps ==
    ASSUME DialInv, ~Up, NEW s \in Sides, UNCHANGED <<dial, hop, answerer, messages>>,
           NEW p \in Steps \ {"idle", "hello", "open", "failed"},
           NEW q \in Steps \ {"idle", "eph", "open"}, q = "hello" => p = "eph",
           NEW take \in SUBSET SideNames, NEW release \in SUBSET SideNames,
           NEW lose \in SUBSET SideNames,
           Try(s, p, q, take, release, lose),
           Holds(s, q) = (Holds(s, p) \ release) \cup take,
           Holds(s, p) \subseteq lose
    PROVE  DialInv'
<1>1. pc[s] = p
  BY DEF Try, Fail, Pass
<1>2. s = "init" => dial = "link"
  BY <1>1, InitiatorMoves
<1>3. DialType' /\ InTurn' /\ SidesExact' /\ ClientExact'
  <2>1. CASE Pass(s, p, q, take, release)
    BY <1>2, <2>1, SideStep
  <2>2. CASE Fail(s, p, lose)
    BY <1>2, <2>2, FailStep
  <2> QED  BY <2>1, <2>2 DEF Try
<1>4. pc' \in {[pc EXCEPT ![s] = q], [pc EXCEPT ![s] = "failed"]}
  BY DEF Try, Fail, Pass
<1>5. FrameKeys("init")' = FrameKeys("init") /\ FrameKeys("resp")' = FrameKeys("resp")
  BY DEF FrameKeys, Mode, messages
<1>6. \A t \in Sides : pc'[t] = IF t = s THEN pc'[s] ELSE pc[t]
  BY <1>4 DEF DialInv, DialType
<1>7. pc'[s] \in {q, "failed"}
  BY <1>4 DEF DialInv, DialType
<1>8. Agreement'
  BY <1>1, <1>5, <1>6, <1>7 DEF Agreement, DialInv, messages, Sides
<1> QED  BY <1>3, <1>8 DEF DialInv

\* The steps of chainKey and newConn, on either side.
LEMMA NewConnKeeps ==
    ASSUME DialInv, ~Up, NEW s \in Sides, NewConn(s), UNCHANGED <<dial, hop>>
    PROVE  DialInv'
<1> USE DEF SideNames, Steps, Early, Late
<1>1. CASE StaticSecret(s)
  <2>1. /\ Try(s, "static", "ephemeral", {"es"}, {}, Early)
        /\ UNCHANGED <<answerer, messages>>
    BY <1>1 DEF StaticSecret
  <2> QED  BY <2>1, TryKeeps, HoldsAt
<1>2. CASE AnonymousSecret(s)
  <2>1. /\ Try(s, "static", "sendKey", {"secret"}, {}, Early)
        /\ UNCHANGED <<answerer, messages>>
    BY <1>2 DEF AnonymousSecret
  <2> QED  BY <2>1, TryKeeps, HoldsAt
<1>3. CASE EphemeralSecret(s)
  <2>1. /\ Try(s, "ephemeral", "mix", {"ee"}, {}, Early \cup {"es"})
        /\ UNCHANGED <<answerer, messages>>
    BY <1>3 DEF EphemeralSecret
  <2> QED  BY <2>1, TryKeeps, HoldsAt
<1>4. CASE MixSecret(s)
  <2>1. /\ Try(s, "mix", "sendKey", {"secret"}, {"es", "ee"}, Early \cup {"es", "ee"})
        /\ UNCHANGED <<answerer, messages>>
    BY <1>4 DEF MixSecret
  <2> QED  BY <2>1, TryKeeps, HoldsAt
<1>5. CASE SendKey(s)
  <2>1. /\ Try(s, "sendKey", "recvKey", {"sendKey"}, {}, Late)
        /\ UNCHANGED <<answerer, messages>>
    BY <1>5 DEF SendKey
  <2> QED  BY <2>1, TryKeeps, HoldsAt
<1>6. CASE RecvKey(s)
  <2>1. /\ Try(s, "recvKey", "sendCipher", {"recvKey"}, {}, Late \cup {"sendKey"})
        /\ UNCHANGED <<answerer, messages>>
    BY <1>6 DEF RecvKey
  <2> QED  BY <2>1, TryKeeps, HoldsAt
<1>7. CASE SendCipher(s)
  <2>1. /\ Try(s, "sendCipher", "recvCipher", {"send"}, {}, Late \cup {"sendKey", "recvKey"})
        /\ UNCHANGED <<answerer, messages>>
    BY <1>7 DEF SendCipher
  <2> QED  BY <2>1, TryKeeps, HoldsAt
<1>8. CASE RecvCipher(s)
  <2>1. /\ Try(s, "recvCipher", "confirm", {"recv"}, {"sendKey", "recvKey"},
            Late \cup {"sendKey", "recvKey", "send"})
        /\ UNCHANGED <<answerer, messages>>
    BY <1>8 DEF RecvCipher
  <2> QED  BY <2>1, TryKeeps, HoldsAt
<1> QED  BY <1>1, <1>2, <1>3, <1>4, <1>5, <1>6, <1>7, <1>8 DEF NewConn

\* Dial's own steps on the link.
LEMMA DialKeeps ==
    ASSUME DialInv, ~Up, Dial, UNCHANGED <<dial, hop>>
    PROVE  DialInv'
<1> USE DEF SideNames, Steps, Early, Late, Sides
<1>1. CASE DialEphemeral
  <2>1. Try("init", "eph", "hello", Early, {}, {}) /\ UNCHANGED <<answerer, messages>>
    BY <1>1 DEF DialEphemeral
  <2> QED  BY <2>1, TryKeeps, HoldsAt
<1>2. CASE DialHello
  <2>1. pc["init"] = "hello" /\ dial = "link"
    BY <1>2, InitiatorMoves DEF DialHello, Fail, Pass
  <2>2. CASE /\ Pass("init", "hello", "answer", {}, {})
             /\ hello' \in [mode : {Mode("init")}, eph : {"ei", "other"}]
                           \cup [mode : {"anonymous", "unknown"}, eph : {"ei"}]
    <3>1. DialType' /\ InTurn' /\ SidesExact' /\ ClientExact'
      BY <2>1, <2>2, SideStep, HoldsAt
    <3>2. hello'.mode # None
      BY <2>2 DEF Mode, None
    <3>3. pc'["init"] = "answer" /\ pc'["resp"] = pc["resp"]
      BY <2>2 DEF Pass, DialInv, DialType
    <3>4. pc["resp"] \in {"hello", "failed"}
      BY <2>1 DEF DialInv, Agreement
    <3>5. confirm' = confirm
      BY <1>2 DEF DialHello
    <3>6. Agreement'
      BY <3>2, <3>3, <3>4, <3>5 DEF DialInv, Agreement
    <3> QED  BY <3>1, <3>6 DEF DialInv
  <2>3. CASE Fail("init", "hello", Early) /\ UNCHANGED hello
    <3>1. DialType' /\ InTurn' /\ SidesExact' /\ ClientExact'
      BY <2>1, <2>3, FailStep, HoldsAt
    <3>2. pc'["init"] = "failed" /\ pc'["resp"] = pc["resp"]
      BY <2>3 DEF Fail, Pass, DialInv, DialType
    <3>3. UNCHANGED <<answerer, messages>>
      BY <1>2, <2>3 DEF DialHello, messages
    <3>4. FrameKeys("resp")' = FrameKeys("resp")
      BY <3>3 DEF FrameKeys, Mode, messages
    <3>5. Agreement'
      BY <2>1, <3>2, <3>3, <3>4 DEF DialInv, Agreement, messages
    <3> QED  BY <3>1, <3>5 DEF DialInv
  <2> QED  BY <1>2, <2>2, <2>3 DEF DialHello
<1>3. CASE DialAnswer
  <2>1. /\ Try("init", "answer", "static", {}, {}, Early)
        /\ UNCHANGED <<answerer, messages>>
    BY <1>3 DEF DialAnswer, Try
  <2> QED  BY <2>1, TryKeeps, HoldsAt
<1>4. CASE DialConfirm
  <2>1. pc["init"] = "confirm" /\ dial = "link"
    BY <1>4, InitiatorMoves DEF DialConfirm, Fail, Pass
  <2>2. UNCHANGED <<answerer, messages>>
    BY <1>4 DEF DialConfirm
  <2>3. FrameKeys("resp")' = FrameKeys("resp") /\ FrameKeys("init")' = FrameKeys("init")
    BY <2>2 DEF FrameKeys, Mode, messages
  <2>4. CASE Confirms(confirm) /\ Pass("init", "confirm", "open", {}, Late)
    <3>1. DialType' /\ InTurn' /\ SidesExact' /\ ClientExact'
      BY <2>1, <2>4, SideStep, HoldsAt
    <3>2. pc'["init"] = "open" /\ pc'["resp"] = pc["resp"]
      BY <2>4 DEF Pass, DialInv, DialType
    <3>3. Agreement'
      BY <2>1, <2>2, <2>3, <2>4, <3>2 DEF DialInv, Agreement, messages, Confirms
    <3> QED  BY <3>1, <3>3 DEF DialInv
  <2>5. CASE Fail("init", "confirm", Late \cup {"send", "recv"})
    <3>1. DialType' /\ InTurn' /\ SidesExact' /\ ClientExact'
      BY <2>1, <2>5, FailStep, HoldsAt
    <3>2. pc'["init"] = "failed" /\ pc'["resp"] = pc["resp"]
      BY <2>5 DEF Fail, Pass, DialInv, DialType
    <3>3. Agreement'
      BY <2>1, <2>2, <2>3, <3>2 DEF DialInv, Agreement, messages
    <3> QED  BY <3>1, <3>3 DEF DialInv
  <2> QED  BY <1>4, <2>4, <2>5 DEF DialConfirm
<1> QED  BY <1>1, <1>2, <1>3, <1>4 DEF Dial

\* The responder's steps.
LEMMA AcceptKeeps ==
    ASSUME DialInv, ~Up, Accept, UNCHANGED <<dial, hop>>
    PROVE  DialInv'
<1> USE DEF SideNames, Steps, Early, Late, Sides
<1>1. CASE AcceptHello
  <2>1. UNCHANGED <<answerer, messages>> /\ pc["resp"] = "hello"
    BY <1>1 DEF AcceptHello, Fail, Pass
  <2>2. FrameKeys("resp")' = FrameKeys("resp") /\ FrameKeys("init")' = FrameKeys("init")
    BY <2>1 DEF FrameKeys, Mode, messages
  <2>3. CASE Takes(hello.mode) /\ Pass("resp", "hello", "eph", {}, {})
    <3>1. DialType' /\ InTurn' /\ SidesExact' /\ ClientExact'
      BY <2>3, SideStep, HoldsAt
    <3>2. pc'["resp"] = "eph" /\ pc'["init"] = pc["init"]
      BY <2>3 DEF Pass, DialInv, DialType
    <3>3. hello.mode # None
      BY <2>3 DEF Takes, None
    <3>4. Agreement'
      BY <2>1, <2>2, <3>2, <3>3 DEF DialInv, Agreement, messages
    <3> QED  BY <3>1, <3>4 DEF DialInv
  <2>4. CASE Fail("resp", "hello", {})
    <3>1. DialType' /\ InTurn' /\ SidesExact' /\ ClientExact'
      BY <2>4, FailStep, HoldsAt
    <3>2. pc'["resp"] = "failed" /\ pc'["init"] = pc["init"]
      BY <2>4 DEF Fail, Pass, DialInv, DialType
    <3>3. Agreement'
      BY <2>1, <2>2, <3>2 DEF DialInv, Agreement, messages
    <3> QED  BY <3>1, <3>3 DEF DialInv
  <2> QED  BY <1>1, <2>3, <2>4 DEF AcceptHello
<1>2. CASE AcceptEphemeral
  <2>1. Try("resp", "eph", "answer", Early, {}, {}) /\ UNCHANGED <<answerer, messages>>
    BY <1>2 DEF AcceptEphemeral
  <2> QED  BY <2>1, TryKeeps, HoldsAt
<1>3. CASE AcceptAnswer
  <2>1. /\ Try("resp", "answer", "static", {}, {}, Early)
        /\ UNCHANGED <<answerer, hello, confirm>>
    BY <1>3 DEF AcceptAnswer, Try
  <2>2. pc["resp"] = "answer" /\ pc'["init"] = pc["init"] /\ pc'["resp"] \in {"static", "failed"}
    BY <2>1 DEF Try, Fail, Pass, DialInv, DialType
  <2>3. DialType' /\ InTurn' /\ SidesExact' /\ ClientExact'
    BY <2>1, SideStep, FailStep, HoldsAt DEF Try
  <2>4. Agreement'
    BY <2>1, <2>2 DEF DialInv, Agreement
  <2> QED  BY <2>3, <2>4 DEF DialInv
<1>4. CASE AcceptConfirm
  <2>1. UNCHANGED <<answerer, hello, answer>> /\ pc["resp"] = "confirm"
    BY <1>4 DEF AcceptConfirm, Fail, Pass
  <2>2. FrameKeys("resp")' = FrameKeys("resp") /\ FrameKeys("init")' = FrameKeys("init")
    BY <2>1 DEF FrameKeys, Mode
  <2>3. CASE /\ Pass("resp", "confirm", "open", {}, Late)
             /\ confirm' = [keys |-> FrameKeys("resp"), padding |-> answerer # "unconfirming"]
    <3>1. DialType' /\ InTurn' /\ SidesExact' /\ ClientExact'
      BY <2>3, SideStep, HoldsAt
    <3>2. pc'["resp"] = "open" /\ pc'["init"] = pc["init"]
      BY <2>3 DEF Pass, DialInv, DialType
    <3>3. confirm'.keys = FrameKeys("resp")
      BY <2>3
    <3>4. Agreement'
      BY <2>1, <2>2, <3>2, <3>3 DEF DialInv, Agreement
    <3> QED  BY <3>1, <3>4 DEF DialInv
  <2>4. CASE Fail("resp", "confirm", Late \cup {"send", "recv"}) /\ UNCHANGED confirm
    <3>1. DialType' /\ InTurn' /\ SidesExact' /\ ClientExact'
      BY <2>4, FailStep, HoldsAt
    <3>2. pc'["resp"] = "failed" /\ pc'["init"] = pc["init"]
      BY <2>4 DEF Fail, Pass, DialInv, DialType
    <3>3. Agreement'
      BY <2>1, <2>2, <2>4, <3>2 DEF DialInv, Agreement
    <3> QED  BY <3>1, <3>3 DEF DialInv
  <2> QED  BY <1>4, <2>3, <2>4 DEF AcceptConfirm
<1> QED  BY <1>1, <1>2, <1>3, <1>4 DEF Accept

-------------------------------------------------------------------------------
(* Steps of Dial. *)

\* A step of Dial before the link: the two sides of the handshake are left
\* alone.
LEMMA GoStep ==
    ASSUME DialInv, NEW p \in Building, NEW q \in Building \cup {"failed"},
           NEW take \in SUBSET (All(HopNames) \cup {Raw}),
           NEW release \in SUBSET (All(HopNames) \cup {Raw}),
           Go(p, q, take, release), hop' \in 1 .. Hops, UNCHANGED <<answerer, pc, messages>>
    PROVE  /\ ClientExact' => DialInv'
           /\ dial = p /\ dial' = q /\ dial # "up"
           /\ \A x : x \in live' <=> (x \in live /\ x \notin release) \/ x \in take
<1>1. /\ dial = p /\ dial' = q /\ live' = (live \ release) \cup take
      /\ dial # "up" /\ dial \notin {"failed"}
  BY DEF Go, Building
<1>2. \A x : x \in live' <=> (x \in live /\ x \notin release) \/ x \in take
  BY <1>1
<1>3. DialType'
  BY <1>1 DEF DialInv, DialType, Resources
<1>4. InTurn'
  BY <1>1 DEF DialInv, InTurn, Building, Connecting
<1>5. \A t \in Sides : \A n : <<t, n>> \in live' <=> <<t, n>> \in live
  <2>1. \A t \in Sides : \A n : <<t, n>> \notin All(HopNames) \cup {Raw}
    BY OwnersDistinct
  <2> QED  BY <1>2, <2>1
<1>6. SidesExact'
  <2>1. pc["init"] = "idle"
    BY <1>1 DEF DialInv, InTurn
  <2>2. \A n \in SideNames : <<"init", n>> \notin live
    BY <1>1, <2>1, HoldsAt DEF DialInv, SidesExact, Sides
  <2> QED  BY <1>1, <1>5, <2>1, <2>2 DEF DialInv, SidesExact, Sides, Building, Connecting
<1>7. Agreement'
  BY DEF DialInv, Agreement, messages, FrameKeys, Mode
<1> QED  BY <1>1, <1>2, <1>3, <1>4, <1>6, <1>7 DEF DialInv

\* The names of one hop, and of all, are Dial's.
LEMMA HopHeld ==
    /\ \A n \in HopNames, i \in 1 .. Hops : Of(n, i) \in All(HopNames)
    /\ \A A \in SUBSET HopNames : All(A) \subseteq All(HopNames)
    /\ \A n \in HopNames : n \in {"eph", "secret", "setup", "cell", "layer"}
    /\ {"eph", "secret", "setup", "cell", "layer"} \subseteq HopNames
BY DEF HopNames, All

\* Dial fails before there is a link: with nothing held if it releases what it
\* has for every hop.
LEMMA DialFails ==
    ASSUME DialInv, NEW p \in Building, NEW lose \in SUBSET (All(HopNames) \cup {Raw}),
           Go(p, "failed", {}, lose), hop' \in 1 .. Hops, UNCHANGED <<answerer, pc, messages>>,
           \A j \in 1 .. Hops, n \in HopNames : Of(n, j) \in live => Of(n, j) \in lose
    PROVE  DialInv'
<1>1. /\ ClientExact' => DialInv'
      /\ dial = p /\ dial' = "failed" /\ dial # "up"
      /\ \A x : x \in live' <=> (x \in live /\ x \notin lose) \/ x \in {}
  BY GoStep
<1>2. Raw \notin live'
  BY <1>1 DEF DialInv, ClientExact, Up, Building, Connecting
<1>3. \A j \in 1 .. Hops, n \in HopNames : Of(n, j) \notin live'
  BY <1>1
<1> QED  BY <1>1, <1>2, <1>3 DEF ClientExact, HopExact, HopNames, Connecting

\* BuildSetup, step by step: what is held for each hop is what the step says, and
\* a failure at any of them releases all of it.
LEMMA PrepareKeeps ==
    ASSUME DialInv, Prepare
    PROVE  DialInv'
<1> USE HopsAssumption
<1>1. /\ hop' = hop /\ hop' \in 1 .. Hops /\ hop \in 1 .. Hops
      /\ UNCHANGED <<answerer, pc, messages>>
  BY DEF Prepare, DialInv, DialType
<1>2. CASE Go("start", "eph", {}, {})
  <2>1. /\ {} \in SUBSET (All(HopNames) \cup {Raw})
        /\ {} \in SUBSET (All(HopNames) \cup {Raw})
    BY <1>1, HopHeld DEF Unbuilt
  <2>2. /\ ClientExact' => DialInv'
        /\ dial = "start" /\ dial' = ("eph") /\ dial # "up"
        /\ \A x : x \in live' <=> (x \in live /\ x \notin {}) \/ x \in {}
    <3>1. "start" \in Building /\ ("eph") \in Building \cup {"failed"}
      BY DEF Building
    <3> QED  BY <1>1, <1>2, <2>1, <3>1, GoStep
  <2>3. ASSUME NEW i \in 1 .. Hops
        PROVE  HopExact(i)'
    <3>1. HopExact(i)
      BY <2>2 DEF DialInv, ClientExact, Up
    <3>2. dial \in {"start", "seal"} => hop = 1
      BY <2>2 DEF DialInv, ClientExact, Up
    <3> QED  BY <1>1, <2>2, <3>1, <3>2, OfDistinct, InAll DEF HopExact, Connecting, Circuit
  <2>4. Raw \notin live'
    BY <2>2, RawIsNoHops DEF DialInv, ClientExact, Up, Connecting
  <2> QED  BY <1>1, <2>2, <2>3, <2>4 DEF ClientExact, Connecting
<1>3. CASE Go("start", "failed", {}, {})
  <2>1. dial = "start" /\ "start" \in Building
    BY <1>3 DEF Go, Building
  <2>2. {} \in SUBSET (All(HopNames) \cup {Raw})
    BY <1>1, HopHeld DEF Unbuilt, Circuit
  <2>3. \A j \in 1 .. Hops, n \in HopNames : Of(n, j) \in live => Of(n, j) \in {}
    BY <2>1, InAll DEF DialInv, ClientExact, HopExact, HopNames, Unbuilt, Circuit, Up, Connecting
  <2> QED  BY <1>1, <1>3, <2>1, <2>2, <2>3, DialFails
<1> QED  BY <1>2, <1>3 DEF Prepare, Attempt

LEMMA HopEphemeralKeeps ==
    ASSUME DialInv, HopEphemeral
    PROVE  DialInv'
<1> USE HopsAssumption
<1>1. /\ hop' = hop /\ hop' \in 1 .. Hops /\ hop \in 1 .. Hops
      /\ UNCHANGED <<answerer, pc, messages>>
  BY DEF HopEphemeral, DialInv, DialType
<1>2. CASE Go("eph", "agree", {Of("eph", hop)}, {})
  <2>1. /\ {Of("eph", hop)} \in SUBSET (All(HopNames) \cup {Raw})
        /\ {} \in SUBSET (All(HopNames) \cup {Raw})
    BY <1>1, HopHeld DEF Unbuilt
  <2>2. /\ ClientExact' => DialInv'
        /\ dial = "eph" /\ dial' = ("agree") /\ dial # "up"
        /\ \A x : x \in live' <=> (x \in live /\ x \notin {}) \/ x \in {Of("eph", hop)}
    <3>1. "eph" \in Building /\ ("agree") \in Building \cup {"failed"}
      BY DEF Building
    <3> QED  BY <1>1, <1>2, <2>1, <3>1, GoStep
  <2>3. ASSUME NEW i \in 1 .. Hops
        PROVE  HopExact(i)'
    <3>1. HopExact(i)
      BY <2>2 DEF DialInv, ClientExact, Up
    <3>2. dial \in {"start", "seal"} => hop = 1
      BY <2>2 DEF DialInv, ClientExact, Up
    <3> QED  BY <1>1, <2>2, <3>1, <3>2, OfDistinct, InAll DEF HopExact, Connecting, Circuit
  <2>4. Raw \notin live'
    BY <2>2, RawIsNoHops DEF DialInv, ClientExact, Up, Connecting
  <2> QED  BY <1>1, <2>2, <2>3, <2>4 DEF ClientExact, Connecting
<1>3. CASE Go("eph", "failed", {}, Unbuilt)
  <2>1. dial = "eph" /\ "eph" \in Building
    BY <1>3 DEF Go, Building
  <2>2. Unbuilt \in SUBSET (All(HopNames) \cup {Raw})
    BY <1>1, HopHeld DEF Unbuilt, Circuit
  <2>3. \A j \in 1 .. Hops, n \in HopNames : Of(n, j) \in live => Of(n, j) \in Unbuilt
    BY <2>1, InAll DEF DialInv, ClientExact, HopExact, HopNames, Unbuilt, Circuit, Up, Connecting
  <2> QED  BY <1>1, <1>3, <2>1, <2>2, <2>3, DialFails
<1> QED  BY <1>2, <1>3 DEF HopEphemeral, Attempt

LEMMA HopAgreeKeeps ==
    ASSUME DialInv, HopAgree
    PROVE  DialInv'
<1> USE HopsAssumption
<1>1. /\ hop' = hop /\ hop' \in 1 .. Hops /\ hop \in 1 .. Hops
      /\ UNCHANGED <<answerer, pc, messages>>
  BY DEF HopAgree, DialInv, DialType
<1>2. CASE Go("agree", "setupKey", {Of("secret", hop)}, {Of("eph", hop)})
  <2>1. /\ {Of("secret", hop)} \in SUBSET (All(HopNames) \cup {Raw})
        /\ {Of("eph", hop)} \in SUBSET (All(HopNames) \cup {Raw})
    BY <1>1, HopHeld DEF Unbuilt
  <2>2. /\ ClientExact' => DialInv'
        /\ dial = "agree" /\ dial' = ("setupKey") /\ dial # "up"
        /\ \A x : x \in live' <=> (x \in live /\ x \notin {Of("eph", hop)}) \/ x \in {Of("secret", hop)}
    <3>1. "agree" \in Building /\ ("setupKey") \in Building \cup {"failed"}
      BY DEF Building
    <3> QED  BY <1>1, <1>2, <2>1, <3>1, GoStep
  <2>3. ASSUME NEW i \in 1 .. Hops
        PROVE  HopExact(i)'
    <3>1. HopExact(i)
      BY <2>2 DEF DialInv, ClientExact, Up
    <3>2. dial \in {"start", "seal"} => hop = 1
      BY <2>2 DEF DialInv, ClientExact, Up
    <3> QED  BY <1>1, <2>2, <3>1, <3>2, OfDistinct, InAll DEF HopExact, Connecting, Circuit
  <2>4. Raw \notin live'
    BY <2>2, RawIsNoHops DEF DialInv, ClientExact, Up, Connecting
  <2> QED  BY <1>1, <2>2, <2>3, <2>4 DEF ClientExact, Connecting
<1>3. CASE Go("agree", "failed", {}, (Unbuilt \cup {Of("eph", hop)}))
  <2>1. dial = "agree" /\ "agree" \in Building
    BY <1>3 DEF Go, Building
  <2>2. (Unbuilt \cup {Of("eph", hop)}) \in SUBSET (All(HopNames) \cup {Raw})
    BY <1>1, HopHeld DEF Unbuilt, Circuit
  <2>3. \A j \in 1 .. Hops, n \in HopNames : Of(n, j) \in live => Of(n, j) \in (Unbuilt \cup {Of("eph", hop)})
    BY <2>1, InAll DEF DialInv, ClientExact, HopExact, HopNames, Unbuilt, Circuit, Up, Connecting
  <2> QED  BY <1>1, <1>3, <2>1, <2>2, <2>3, DialFails
<1> QED  BY <1>2, <1>3 DEF HopAgree, Attempt

LEMMA HopSetupKeyKeeps ==
    ASSUME DialInv, HopSetupKey
    PROVE  DialInv'
<1> USE HopsAssumption
<1>1. /\ hop' = hop /\ hop' \in 1 .. Hops /\ hop \in 1 .. Hops
      /\ UNCHANGED <<answerer, pc, messages>>
  BY DEF HopSetupKey, DialInv, DialType
<1>2. CASE Go("setupKey", "cellKey", {Of("setup", hop)}, {})
  <2>1. /\ {Of("setup", hop)} \in SUBSET (All(HopNames) \cup {Raw})
        /\ {} \in SUBSET (All(HopNames) \cup {Raw})
    BY <1>1, HopHeld DEF Unbuilt
  <2>2. /\ ClientExact' => DialInv'
        /\ dial = "setupKey" /\ dial' = ("cellKey") /\ dial # "up"
        /\ \A x : x \in live' <=> (x \in live /\ x \notin {}) \/ x \in {Of("setup", hop)}
    <3>1. "setupKey" \in Building /\ ("cellKey") \in Building \cup {"failed"}
      BY DEF Building
    <3> QED  BY <1>1, <1>2, <2>1, <3>1, GoStep
  <2>3. ASSUME NEW i \in 1 .. Hops
        PROVE  HopExact(i)'
    <3>1. HopExact(i)
      BY <2>2 DEF DialInv, ClientExact, Up
    <3>2. dial \in {"start", "seal"} => hop = 1
      BY <2>2 DEF DialInv, ClientExact, Up
    <3> QED  BY <1>1, <2>2, <3>1, <3>2, OfDistinct, InAll DEF HopExact, Connecting, Circuit
  <2>4. Raw \notin live'
    BY <2>2, RawIsNoHops DEF DialInv, ClientExact, Up, Connecting
  <2> QED  BY <1>1, <2>2, <2>3, <2>4 DEF ClientExact, Connecting
<1>3. CASE Go("setupKey", "failed", {}, (Unbuilt \cup {Of("secret", hop)}))
  <2>1. dial = "setupKey" /\ "setupKey" \in Building
    BY <1>3 DEF Go, Building
  <2>2. (Unbuilt \cup {Of("secret", hop)}) \in SUBSET (All(HopNames) \cup {Raw})
    BY <1>1, HopHeld DEF Unbuilt, Circuit
  <2>3. \A j \in 1 .. Hops, n \in HopNames : Of(n, j) \in live => Of(n, j) \in (Unbuilt \cup {Of("secret", hop)})
    BY <2>1, InAll DEF DialInv, ClientExact, HopExact, HopNames, Unbuilt, Circuit, Up, Connecting
  <2> QED  BY <1>1, <1>3, <2>1, <2>2, <2>3, DialFails
<1> QED  BY <1>2, <1>3 DEF HopSetupKey, Attempt

LEMMA HopCellKeyKeeps ==
    ASSUME DialInv, HopCellKey
    PROVE  DialInv'
<1> USE HopsAssumption
<1>1. /\ hop' = hop /\ hop' \in 1 .. Hops /\ hop \in 1 .. Hops
      /\ UNCHANGED <<answerer, pc, messages>>
  BY DEF HopCellKey, DialInv, DialType
<1>2. CASE Go("cellKey", "offsets", {Of("cell", hop)}, {})
  <2>1. /\ {Of("cell", hop)} \in SUBSET (All(HopNames) \cup {Raw})
        /\ {} \in SUBSET (All(HopNames) \cup {Raw})
    BY <1>1, HopHeld DEF Unbuilt
  <2>2. /\ ClientExact' => DialInv'
        /\ dial = "cellKey" /\ dial' = ("offsets") /\ dial # "up"
        /\ \A x : x \in live' <=> (x \in live /\ x \notin {}) \/ x \in {Of("cell", hop)}
    <3>1. "cellKey" \in Building /\ ("offsets") \in Building \cup {"failed"}
      BY DEF Building
    <3> QED  BY <1>1, <1>2, <2>1, <3>1, GoStep
  <2>3. ASSUME NEW i \in 1 .. Hops
        PROVE  HopExact(i)'
    <3>1. HopExact(i)
      BY <2>2 DEF DialInv, ClientExact, Up
    <3>2. dial \in {"start", "seal"} => hop = 1
      BY <2>2 DEF DialInv, ClientExact, Up
    <3> QED  BY <1>1, <2>2, <3>1, <3>2, OfDistinct, InAll DEF HopExact, Connecting, Circuit
  <2>4. Raw \notin live'
    BY <2>2, RawIsNoHops DEF DialInv, ClientExact, Up, Connecting
  <2> QED  BY <1>1, <2>2, <2>3, <2>4 DEF ClientExact, Connecting
<1>3. CASE Go("cellKey", "failed", {}, (Unbuilt \cup {Of("secret", hop)}))
  <2>1. dial = "cellKey" /\ "cellKey" \in Building
    BY <1>3 DEF Go, Building
  <2>2. (Unbuilt \cup {Of("secret", hop)}) \in SUBSET (All(HopNames) \cup {Raw})
    BY <1>1, HopHeld DEF Unbuilt, Circuit
  <2>3. \A j \in 1 .. Hops, n \in HopNames : Of(n, j) \in live => Of(n, j) \in (Unbuilt \cup {Of("secret", hop)})
    BY <2>1, InAll DEF DialInv, ClientExact, HopExact, HopNames, Unbuilt, Circuit, Up, Connecting
  <2> QED  BY <1>1, <1>3, <2>1, <2>2, <2>3, DialFails
<1> QED  BY <1>2, <1>3 DEF HopCellKey, Attempt

LEMMA HopOffsetsKeeps ==
    ASSUME DialInv, HopOffsets
    PROVE  DialInv'
<1> USE HopsAssumption
<1>1. /\ hop' = (IF hop < Hops THEN hop + 1 ELSE 1) /\ hop' \in 1 .. Hops /\ hop \in 1 .. Hops
      /\ UNCHANGED <<answerer, pc, messages>>
  BY DEF HopOffsets, DialInv, DialType
<1>2. CASE Go("offsets", IF hop < Hops THEN "eph" ELSE "seal", {}, {Of("secret", hop)})
  <2>1. /\ {} \in SUBSET (All(HopNames) \cup {Raw})
        /\ {Of("secret", hop)} \in SUBSET (All(HopNames) \cup {Raw})
    BY <1>1, HopHeld DEF Unbuilt
  <2>2. /\ ClientExact' => DialInv'
        /\ dial = "offsets" /\ dial' = (IF hop < Hops THEN "eph" ELSE "seal") /\ dial # "up"
        /\ \A x : x \in live' <=> (x \in live /\ x \notin {Of("secret", hop)}) \/ x \in {}
    <3> DEFINE q == IF hop < Hops THEN "eph" ELSE "seal"
    <3>1. "offsets" \in Building /\ q \in Building \cup {"failed"}
      BY DEF Building
    <3>2. Go("offsets", q, {}, {Of("secret", hop)})
      BY <1>2
    <3> HIDE DEF q
    <3>3. /\ ClientExact' => DialInv'
          /\ dial = "offsets" /\ dial' = q /\ dial # "up"
          /\ \A x : x \in live' <=> (x \in live /\ x \notin {Of("secret", hop)}) \/ x \in {}
      BY <1>1, <2>1, <3>1, <3>2, GoStep
    <3> QED  BY <3>3 DEF q
  <2>3. ASSUME NEW i \in 1 .. Hops
        PROVE  HopExact(i)'
    <3>1. HopExact(i)
      BY <2>2 DEF DialInv, ClientExact, Up
    <3>2. dial \in {"start", "seal"} => hop = 1
      BY <2>2 DEF DialInv, ClientExact, Up
    <3> QED  BY <1>1, <2>2, <3>1, <3>2, OfDistinct, InAll DEF HopExact, Connecting, Circuit
  <2>4. Raw \notin live'
    BY <2>2, RawIsNoHops DEF DialInv, ClientExact, Up, Connecting
  <2> QED  BY <1>1, <2>2, <2>3, <2>4 DEF ClientExact, Connecting
<1>3. CASE Go("offsets", "failed", {}, (Unbuilt \cup {Of("secret", hop)}))
  <2>1. dial = "offsets" /\ "offsets" \in Building
    BY <1>3 DEF Go, Building
  <2>2. (Unbuilt \cup {Of("secret", hop)}) \in SUBSET (All(HopNames) \cup {Raw})
    BY <1>1, HopHeld DEF Unbuilt, Circuit
  <2>3. \A j \in 1 .. Hops, n \in HopNames : Of(n, j) \in live => Of(n, j) \in (Unbuilt \cup {Of("secret", hop)})
    BY <2>1, InAll DEF DialInv, ClientExact, HopExact, HopNames, Unbuilt, Circuit, Up, Connecting
  <2> QED  BY <1>1, <1>3, <2>1, <2>2, <2>3, DialFails
<1> QED  BY <1>2, <1>3 DEF HopOffsets, Attempt

LEMMA SealSetupKeeps ==
    ASSUME DialInv, SealSetup
    PROVE  DialInv'
<1> USE HopsAssumption
<1>1. /\ hop' = hop /\ hop' \in 1 .. Hops /\ hop \in 1 .. Hops
      /\ UNCHANGED <<answerer, pc, messages>>
  BY DEF SealSetup, DialInv, DialType
<1>2. CASE Go("seal", "layers", {}, All({"setup"}))
  <2>1. /\ {} \in SUBSET (All(HopNames) \cup {Raw})
        /\ All({"setup"}) \in SUBSET (All(HopNames) \cup {Raw})
    BY <1>1, HopHeld DEF Unbuilt
  <2>2. /\ ClientExact' => DialInv'
        /\ dial = "seal" /\ dial' = ("layers") /\ dial # "up"
        /\ \A x : x \in live' <=> (x \in live /\ x \notin All({"setup"})) \/ x \in {}
    <3>1. "seal" \in Building /\ ("layers") \in Building \cup {"failed"}
      BY DEF Building
    <3> QED  BY <1>1, <1>2, <2>1, <3>1, GoStep
  <2>3. ASSUME NEW i \in 1 .. Hops
        PROVE  HopExact(i)'
    <3>1. HopExact(i)
      BY <2>2 DEF DialInv, ClientExact, Up
    <3>2. dial \in {"start", "seal"} => hop = 1
      BY <2>2 DEF DialInv, ClientExact, Up
    <3> QED  BY <1>1, <2>2, <3>1, <3>2, OfDistinct, InAll DEF HopExact, Connecting, Circuit
  <2>4. Raw \notin live'
    BY <2>2, RawIsNoHops DEF DialInv, ClientExact, Up, Connecting
  <2> QED  BY <1>1, <2>2, <2>3, <2>4 DEF ClientExact, Connecting
<1>3. CASE Go("seal", "failed", {}, Unbuilt)
  <2>1. dial = "seal" /\ "seal" \in Building
    BY <1>3 DEF Go, Building
  <2>2. Unbuilt \in SUBSET (All(HopNames) \cup {Raw})
    BY <1>1, HopHeld DEF Unbuilt, Circuit
  <2>3. \A j \in 1 .. Hops, n \in HopNames : Of(n, j) \in live => Of(n, j) \in Unbuilt
    BY <2>1, InAll DEF DialInv, ClientExact, HopExact, HopNames, Unbuilt, Circuit, Up, Connecting
  <2> QED  BY <1>1, <1>3, <2>1, <2>2, <2>3, DialFails
<1> QED  BY <1>2, <1>3 DEF SealSetup, Attempt

\* NewCircuit: the layers there are go with the cell keys.
LEMMA NewCircuitKeeps ==
    ASSUME DialInv, NewCircuit
    PROVE  DialInv'
<1> USE HopsAssumption
<1>1. /\ hop' = (IF hop < Hops THEN hop + 1 ELSE 1) /\ hop' \in 1 .. Hops /\ hop \in 1 .. Hops
      /\ UNCHANGED <<answerer, pc, messages>>
  BY DEF NewCircuit, DialInv, DialType
<1>2. CASE Go("layers", IF hop < Hops THEN "layers" ELSE "entry", {Of("layer", hop)}, {})
  <2>1. /\ {Of("layer", hop)} \in SUBSET (All(HopNames) \cup {Raw})
        /\ {} \in SUBSET (All(HopNames) \cup {Raw})
    BY <1>1, HopHeld DEF Unbuilt
  <2>2. /\ ClientExact' => DialInv'
        /\ dial = "layers" /\ dial' = (IF hop < Hops THEN "layers" ELSE "entry") /\ dial # "up"
        /\ \A x : x \in live' <=> (x \in live /\ x \notin {}) \/ x \in {Of("layer", hop)}
    <3>1. "layers" \in Building /\ (IF hop < Hops THEN "layers" ELSE "entry") \in Building \cup {"failed"}
      BY DEF Building
    <3> QED  BY <1>1, <1>2, <2>1, <3>1, GoStep
  <2>3. ASSUME NEW i \in 1 .. Hops
        PROVE  HopExact(i)'
    <3>1. HopExact(i)
      BY <2>2 DEF DialInv, ClientExact, Up
    <3>2. dial \in {"start", "seal"} => hop = 1
      BY <2>2 DEF DialInv, ClientExact, Up
    <3> QED  BY <1>1, <2>2, <3>1, <3>2, OfDistinct, InAll DEF HopExact, Connecting, Circuit
  <2>4. Raw \notin live'
    BY <2>2, RawIsNoHops DEF DialInv, ClientExact, Up, Connecting
  <2> QED  BY <1>1, <2>2, <2>3, <2>4 DEF ClientExact, Connecting
<1>3. CASE Go("layers", "failed", {}, Circuit)
  <2>1. dial = "layers" /\ "layers" \in Building
    BY <1>3 DEF Go, Building
  <2>2. Circuit \in SUBSET (All(HopNames) \cup {Raw})
    BY <1>1, HopHeld DEF Unbuilt, Circuit
  <2>3. \A j \in 1 .. Hops, n \in HopNames : Of(n, j) \in live => Of(n, j) \in Circuit
    BY <2>1, InAll DEF DialInv, ClientExact, HopExact, HopNames, Unbuilt, Circuit, Up, Connecting
  <2> QED  BY <1>1, <1>3, <2>1, <2>2, <2>3, DialFails
<1> QED  BY <1>2, <1>3 DEF NewCircuit, Attempt

\* The connection to the entry, with which the initiator starts.
LEMMA DialEntryKeeps ==
    ASSUME DialInv, DialEntry
    PROVE  DialInv'
<1>1. dial = "entry" /\ pc["init"] = "idle" /\ UNCHANGED <<hop, answerer, messages>>
  BY DEF DialEntry, Go, DialInv, InTurn, Building
<1>2. CASE Go("entry", "link", {Raw}, {}) /\ pc' = [pc EXCEPT !["init"] = "eph"]
  <2>1. /\ dial' = "link" /\ pc'["init"] = "eph" /\ pc'["resp"] = pc["resp"]
        /\ pc' \in [Sides -> Steps]
        /\ \A x : x \in live' <=> x \in live \/ x = Raw
    BY <1>2 DEF Go, DialInv, DialType, Sides, Steps
  <2>2. DialType'
    BY <1>1, <2>1 DEF DialInv, DialType, Resources, Connecting
  <2>3. InTurn'
    BY <2>1 DEF InTurn, Building
  <2>4. \A t \in Sides : \A n : <<t, n>> \in live' <=> <<t, n>> \in live
    BY <2>1, OwnersDistinct
  <2>5. SidesExact'
    <3>1. \A n \in SideNames : <<"init", n>> \notin live
      BY <1>1, HoldsAt DEF DialInv, SidesExact, Sides, Building
    <3> QED  BY <2>1, <2>4, <3>1, HoldsAt DEF DialInv, SidesExact, Sides
  <2>6. \A n, i : Of(n, i) \in live' <=> Of(n, i) \in live
    BY <2>1, RawIsNoHops
  <2>7. ClientExact'
    BY <1>1, <2>1, <2>6 DEF DialInv, ClientExact, HopExact, Connecting, Up
  <2>8. FrameKeys("resp")' = FrameKeys("resp")
    BY <1>1 DEF FrameKeys, Mode, messages
  <2>9. Agreement'
    BY <1>1, <2>1, <2>8 DEF DialInv, Agreement, messages
  <2> QED  BY <2>2, <2>3, <2>5, <2>7, <2>9 DEF DialInv
<1>3. CASE Go("entry", "failed", {}, Circuit) /\ UNCHANGED pc
  <2>1. "entry" \in Building /\ hop' \in 1 .. Hops
    BY <1>1 DEF Building, DialInv, DialType
  <2>2. Circuit \in SUBSET (All(HopNames) \cup {Raw})
    BY HopHeld DEF Circuit
  <2>3. \A j \in 1 .. Hops, n \in HopNames : Of(n, j) \in live => Of(n, j) \in Circuit
    BY <1>1, InAll DEF DialInv, ClientExact, HopExact, HopNames, Circuit, Up, Connecting
  <2> QED  BY <1>1, <1>3, <2>1, <2>2, <2>3, DialFails
<1> QED  BY <1>2, <1>3 DEF DialEntry

\* Dial fails with a link: the connection and the circuit are released, and the
\* ciphers by whoever holds them.
LEMMA DialFailsConnected ==
    ASSUME DialInv, dial \in Connecting, pc["init"] \in {"open", "failed"}, dial' = "failed",
           UNCHANGED <<hop, answerer, pc, messages>>,
           \A x : x \in live' => x \in live,
           \A n : <<"resp", n>> \in live' <=> <<"resp", n>> \in live,
           \A n \in SideNames : <<"init", n>> \notin live',
           \A x \in Circuit \cup {Raw} : x \notin live'
    PROVE  DialInv'
<1>1. DialType'
  BY DEF DialInv, DialType
<1>2. InTurn'
  BY DEF InTurn, Building
<1>3. SidesExact'
  BY DEF DialInv, SidesExact, Building, Connecting
<1>4. \A i \in 1 .. Hops :
        /\ Of("layer", i) \notin live' /\ Of("cell", i) \notin live'
        /\ Of("eph", i) \notin live' /\ Of("secret", i) \notin live' /\ Of("setup", i) \notin live'
  BY InAll DEF DialInv, ClientExact, HopExact, Connecting, Up, Circuit
<1>5. ClientExact'
  BY <1>4 DEF ClientExact, HopExact, Connecting
<1>6. FrameKeys("resp")' = FrameKeys("resp") /\ FrameKeys("init")' = FrameKeys("init")
  BY DEF FrameKeys, Mode, messages
<1>7. Agreement'
  BY <1>6 DEF DialInv, Agreement, messages
<1> QED  BY <1>1, <1>2, <1>3, <1>5, <1>7 DEF DialInv

LEMMA LinkDoneKeeps ==
    ASSUME DialInv, LinkDone
    PROVE  DialInv'
<1>1. dial = "link" /\ UNCHANGED <<hop, answerer, pc, messages>>
  BY DEF LinkDone, Go
<1>2. CASE pc["init"] = "open" /\ Go("link", "setup", {}, {})
  <2>1. dial' = "setup" /\ live' = live
    BY <1>2 DEF Go
  <2>2. DialType' /\ InTurn' /\ SidesExact'
    BY <1>1, <1>2, <2>1 DEF DialInv, DialType, InTurn, SidesExact, Building, Connecting
  <2>3. ClientExact'
    BY <1>1, <2>1 DEF DialInv, ClientExact, HopExact, Connecting, Up
  <2>4. FrameKeys("resp")' = FrameKeys("resp") /\ FrameKeys("init")' = FrameKeys("init")
    BY <1>1 DEF FrameKeys, Mode, messages
  <2>5. Agreement'
    BY <1>1, <2>4 DEF DialInv, Agreement, messages
  <2> QED  BY <2>2, <2>3, <2>5 DEF DialInv
<1>3. CASE pc["init"] = "failed" /\ Go("link", "failed", {}, Circuit \cup {Raw})
  <2>1. dial' = "failed" /\ live' = live \ (Circuit \cup {Raw})
    BY <1>3 DEF Go
  <2>2. \A t \in Sides : \A n : <<t, n>> \in live' <=> <<t, n>> \in live
    BY <2>1, OwnersDistinct DEF Circuit
  <2>3. \A n \in SideNames : <<"init", n>> \notin live'
    BY <1>1, <1>3, <2>2, HoldsAt DEF DialInv, SidesExact, Sides, Connecting
  <2> QED  BY <1>1, <1>3, <2>1, <2>2, <2>3, DialFailsConnected DEF Sides, Connecting
<1> QED  BY <1>2, <1>3 DEF LinkDone

-------------------------------------------------------------------------------
(* Steps of the client. *)

\* What Dial made is only released once it has returned.
LEMMA UpDialInv ==
    ASSUME DialInv, Up, UNCHANGED <<dial, hop, answerer, pc, messages>>,
           live' \subseteq live,
           \A n : <<"resp", n>> \in live' <=> <<"resp", n>> \in live
    PROVE  DialInv' /\ Up'
<1>1. DialType' /\ InTurn' /\ Up' /\ ClientExact'
  BY DEF DialInv, DialType, InTurn, ClientExact, Up
<1>2. SidesExact'
  BY DEF DialInv, SidesExact, Building, Connecting, Up
<1>3. FrameKeys("resp")' = FrameKeys("resp") /\ FrameKeys("init")' = FrameKeys("init")
  BY DEF FrameKeys, Mode, messages
<1>4. Agreement'
  BY <1>3 DEF DialInv, Agreement, messages
<1> QED  BY <1>1, <1>2, <1>4 DEF DialInv

\* Where a thread is after a step of it, and where the others are.
Moved(t, places) ==
    /\ at' \in [Threads -> Places]
    /\ at'[t] \in places
    /\ \A u \in Threads \ {t} : at'[u] = at[u]

LEMMA MoveMoves ==
    ASSUME RunType, NEW t \in Threads, NEW p \in Places, Move(t, p)
    PROVE  Moved(t, {p})
BY DEF RunType, Move, Moved

LEMMA ReturnMoves ==
    ASSUME RunType, NEW t \in Callers, NEW ok \in BOOLEAN, NEW cause, Return(t, ok, cause)
    PROVE  /\ Moved(t, {"await", "report", "over", "next"})
           /\ why' = why \/ (t = "main" /\ why' = cause)
           /\ t = "main" => at'[t] # "over"
<1> DEFINE p == CASE t = "main" -> IF ok THEN "await" ELSE "report"
                  [] t = "ticker" /\ ~ok -> "over"
                  [] OTHER -> "next"
<1>1. p \in {"await", "report", "over", "next"} /\ (t = "main" => p # "over")
  BY DEF Callers
<1>2. Move(t, p) /\ why' = IF t = "main" /\ ~ok THEN cause ELSE why
  BY DEF Return
<1> HIDE DEF p
<1>3. Moved(t, {p})
  <2>1. t \in Threads /\ p \in Places
    BY <1>1 DEF Threads, Places
  <2> QED  BY <1>2, <2>1, MoveMoves
<1> QED  BY <1>1, <1>2, <1>3 DEF Moved

\* The variables the invariant is about, but for where the threads are and what
\* exchange reports.
runState == <<sent, num, sendMu, wmu, out, in, answered, want, cell, shut, werr, refused,
              forged, closed>>

\* A caller moves while it holds no lock: it is in send afterwards only if it was
\* before, or if Close was not called yet.
LEMMA QuietKeeps ==
    ASSUME ClientInv, Up, NEW t \in Callers, at[t] \notin {"seal", "frame", "write"},
           Moved(t, {"jitter", "lock", "await", "report", "over", "next"}),
           at'[t] \in Sending => at[t] \in Sending \/ ~closed,
           UNCHANGED <<runState, dialling>>, Reported'
    PROVE  ClientInv'
<1> USE DEF ClientInv, RunInv, runState, dialling
<1>1. DialInv' /\ Up'
  BY UpDialInv
<1>2. RunType'
  BY DEF RunType, Moved, Threads, Callers, Sending
<1>3. Waiting' /\ Locked' /\ CellsInTurn'
  BY <1>1 DEF RunType, Moved, Threads, Callers, Waiting, Locked, CellsInTurn
<1>4. Counted'
  BY DEF RunType, Moved, Threads, Callers, Counted, InHand
<1>5. ShutFirst'
  BY <1>1 DEF RunType, Moved, Threads, Callers, ShutFirst, Closers
<1>6. Released'
  BY <1>1 DEF RunType, Moved, Threads, Callers, Released, Sending
<1>7. Honest'
  BY DEF RunType, Moved, Threads, Callers, Honest
<1> QED  BY <1>1, <1>2, <1>3, <1>4, <1>5, <1>6, <1>7

\* A move to one place, for a step that makes it.
LEMMA MovesTo ==
    ASSUME ClientInv, NEW t \in Threads
    PROVE  \A p \in Places : Move(t, p) => Moved(t, {p})
BY MoveMoves DEF ClientInv, RunInv

\* send up to sendMu, before Close or after it.
LEMMA EnterSendKeeps ==
    ASSUME ClientInv, NEW t \in Callers, EnterSend(t)
    PROVE  ClientInv'
<1>1. /\ UNCHANGED <<runState, dialling, code>>
      /\ Up /\ at[t] = "next"
  BY DEF EnterSend, runState, linkVars, pathVars, replyVars, closeVars, dialling, messages
<1>2. CASE closed /\ Return(t, FALSE, "close")
  <2>1. /\ Moved(t, {"await", "report", "over", "next"})
        /\ why' = why \/ (t = "main" /\ why' = "close")
        /\ t = "main" => at'[t] # "over"
    BY <1>2, ReturnMoves DEF ClientInv, RunInv
  <2>2. Reported'
    BY <1>1, <2>1 DEF ClientInv, RunInv, Reported, runState, Moved, Callers, Threads
  <2> QED  BY <1>1, <2>1, <2>2, QuietKeeps DEF Moved, Sending
<1>3. CASE ~closed /\ Move(t, "jitter") /\ UNCHANGED why
  <2>1. Moved(t, {"jitter"})
    BY <1>3, MovesTo DEF Threads, Places, Sending
  <2>2. Reported'
    BY <1>1, <1>3, <2>1 DEF ClientInv, RunInv, Reported, runState, Moved, Callers, Threads
  <2> QED  BY <1>1, <1>3, <2>1, <2>2, QuietKeeps DEF Moved
<1> QED  BY <1>2, <1>3 DEF EnterSend

LEMMA DelayKeeps ==
    ASSUME ClientInv, NEW t \in Callers, Delay(t)
    PROVE  ClientInv'
<1>1. /\ UNCHANGED <<runState, dialling, code>>
      /\ at[t] = "jitter" /\ Up
  BY DEF Delay, runState, linkVars, pathVars, replyVars, senderVars, closeVars, dialling, messages,
         ClientInv, RunInv, Waiting
<1>2. CASE Return(t, FALSE, None)
  <2>1. /\ Moved(t, {"await", "report", "over", "next"})
        /\ why' = why \/ (t = "main" /\ why' = None)
        /\ t = "main" => at'[t] # "over"
    BY <1>2, ReturnMoves DEF ClientInv, RunInv
  <2>2. Reported'
    BY <1>1, <2>1 DEF ClientInv, RunInv, Reported, runState, Moved, Callers, Threads, None
  <2> QED  BY <1>1, <2>1, <2>2, QuietKeeps DEF Moved, Sending
<1>3. CASE Move(t, "lock") /\ UNCHANGED why
  <2>1. Moved(t, {"lock"})
    BY <1>3, MovesTo DEF Threads, Places, Sending
  <2>2. Reported'
    BY <1>1, <1>3, <2>1 DEF ClientInv, RunInv, Reported, runState, Moved, Callers, Threads
  <2> QED  BY <1>1, <1>3, <2>1, <2>2, QuietKeeps DEF Moved, Sending
<1> QED  BY <1>2, <1>3 DEF Delay

\* sendMu and the counter: whoever takes them is alone, and the counter is the
\* number of cells counted.
LEMMA TakeCounterKeeps ==
    ASSUME ClientInv, NEW t \in Callers, TakeCounter(t)
    PROVE  ClientInv'
<1> USE DEF ClientInv, RunInv
<1>1. /\ UNCHANGED <<sent, wmu, out, in, answered, want, cell, shut, werr, refused, forged,
                     closed, code, dialling>>
      /\ at[t] = "lock" /\ Up /\ sendMu = None
  BY DEF TakeCounter, SendFree, linkVars, pathVars, replyVars, closeVars, dialling, Waiting
<1>2. CASE closed /\ Return(t, FALSE, "close") /\ UNCHANGED <<sendMu, num>>
  <2>1. /\ Moved(t, {"await", "report", "over", "next"})
        /\ why' = why \/ (t = "main" /\ why' = "close")
        /\ t = "main" => at'[t] # "over"
    BY <1>2, ReturnMoves
  <2>2. Reported'
    BY <1>1, <2>1 DEF Reported, Moved, Callers, Threads
  <2> QED  BY <1>1, <1>2, <2>1, <2>2, QuietKeeps DEF Moved, Sending, runState
<1>3. CASE /\ ~closed /\ sendMu' = t /\ num' = [num EXCEPT ![t] = sent]
           /\ Move(t, "seal") /\ UNCHANGED why
  <2>1. Moved(t, {"seal"})
    BY <1>3, MovesTo DEF Threads, Places, Sending
  <2>2. DialInv' /\ Up'
    BY <1>1, UpDialInv DEF dialling
  <2>3. RunType'
    BY <1>1, <1>3, <2>1 DEF RunType, Moved, Threads, Callers, Sending
  <2>4. Waiting' /\ CellsInTurn'
    BY <1>1, <2>2 DEF Waiting, CellsInTurn
  <2>5. Locked'
    BY <1>1, <1>3, <2>1 DEF RunType, Moved, Threads, Callers, Locked, None
  <2>6. Counted'
    <3>1. InHand' <=> InHand
      BY <1>1, <2>1 DEF Moved, Threads, Callers, InHand
    <3>2. \A u \in Callers : u # t => at'[u] \notin {"seal", "frame", "write"}
      BY <1>1, <2>1 DEF Moved, Threads, Locked, Callers, None
    <3> QED  BY <1>1, <1>3, <2>1, <3>1, <3>2 DEF RunType, Moved, Counted
  <2>7. ShutFirst'
    BY <1>1, <2>1, <2>2 DEF RunType, Moved, Threads, Callers, ShutFirst, Closers, dialling
  <2>8. Released'
    BY <1>1, <1>3, <2>1, <2>2 DEF RunType, Moved, Threads, Callers, Released, Sending, dialling
  <2>9. Honest' /\ Reported'
    BY <1>1, <1>3, <2>1 DEF RunType, Moved, Threads, Callers, Honest, Reported
  <2> QED  BY <2>2, <2>3, <2>4, <2>5, <2>6, <2>7, <2>8, <2>9
<1> QED  BY <1>2, <1>3 DEF TakeCounter

\* A thread gives sendMu back, with its cell counted or not, when the connection
\* is shut or the cell was not counted.
LEMMA GiveUpKeeps ==
    ASSUME ClientInv, Up, NEW t \in Callers, at[t] \in {"seal", "frame", "write"},
           at[t] # "seal" => shut # None, at[t] = "write" => wmu' = None,
           at[t] # "write" => wmu' = wmu,
           Moved(t, {"await", "report", "over", "next"}), sendMu' = None,
           werr' = werr \/ (werr' = TRUE /\ shut # None),
           UNCHANGED <<sent, num, out, in, answered, want, cell, shut, refused, forged,
                       closed, dialling>>, Reported'
    PROVE  ClientInv'
<1> USE DEF ClientInv, RunInv
<1>1. DialInv' /\ Up'
  BY UpDialInv DEF dialling
<1>2. RunType'
  BY DEF RunType, Moved, Threads, Callers, Sending
<1>3. Waiting' /\ CellsInTurn'
  BY <1>1 DEF Waiting, CellsInTurn
<1>4. Locked'
  BY DEF RunType, Moved, Threads, Callers, Locked, None
<1>5. Counted'
  BY DEF RunType, Moved, Threads, Callers, Locked, Counted, InHand
<1>6. ShutFirst'
  BY <1>1 DEF RunType, Moved, Threads, Callers, ShutFirst, Closers, dialling
<1>7. Released'
  BY <1>1 DEF RunType, Moved, Threads, Callers, Released, Sending, dialling
<1>8. Honest'
  BY DEF RunType, Moved, Threads, Callers, Honest
<1> QED  BY <1>1, <1>2, <1>3, <1>4, <1>5, <1>6, <1>7, <1>8

\* The cell is sealed and counted, or it is too large.
LEMMA SealKeeps ==
    ASSUME ClientInv, NEW t \in Callers, Seal(t)
    PROVE  ClientInv'
<1> USE DEF ClientInv, RunInv
<1>1. /\ UNCHANGED <<num, wmu, out, in, answered, want, cell, shut, werr, refused, forged,
                     closed, code, dialling>>
      /\ at[t] = "seal" /\ Up
  BY DEF Seal, linkVars, pathVars, replyVars, closeVars, dialling, Waiting
<1>2. CASE Return(t, FALSE, None) /\ sendMu' = None /\ UNCHANGED sent
  <2>1. /\ Moved(t, {"await", "report", "over", "next"})
        /\ why' = why \/ (t = "main" /\ why' = None)
        /\ t = "main" => at'[t] # "over"
    BY <1>2, ReturnMoves
  <2>2. Reported'
    BY <1>1, <2>1 DEF Reported, Moved, Callers, Threads, None
  <2> QED  BY <1>1, <1>2, <2>1, <2>2, GiveUpKeeps
<1>3. CASE Move(t, "frame") /\ sent' = num[t] + 1 /\ UNCHANGED <<why, sendMu>>
  <2>1. Moved(t, {"frame"})
    BY <1>3, MovesTo DEF Threads, Places, Sending
  <2>2. DialInv' /\ Up'
    BY <1>1, UpDialInv DEF dialling
  <2>3. sent' = sent + 1 /\ num[t] = sent /\ sent \in Nat
    BY <1>1, <1>3 DEF Counted, RunType
  <2>4. RunType'
    BY <1>1, <1>3, <2>1, <2>3 DEF RunType, Moved, Threads, Callers, Sending
  <2>5. Waiting' /\ CellsInTurn'
    BY <1>1, <2>2 DEF Waiting, CellsInTurn
  <2>6. Locked'
    BY <1>1, <1>3, <2>1 DEF RunType, Moved, Threads, Callers, Locked
  <2>7. Counted'
    <3>1. \A u \in Callers : u # t => at'[u] \notin {"seal", "frame", "write"}
                                    /\ at[u] \notin {"seal", "frame", "write"}
      BY <1>1, <2>1 DEF Moved, Threads, Locked, Callers
    <3>2. ~InHand
      BY <1>1, <3>1 DEF InHand
    <3>3. InHand'
      BY <2>1 DEF InHand, Moved
    <3>4. Len(out) \in Nat /\ answered \in Nat
      BY DEF RunType, Outgoing
    <3> QED  BY <1>1, <1>3, <2>1, <2>3, <3>1, <3>2, <3>3, <3>4 DEF Moved, Counted
  <2>8. ShutFirst'
    BY <1>1, <2>1, <2>2 DEF RunType, Moved, Threads, Callers, ShutFirst, Closers, dialling
  <2>9. Released'
    BY <1>1, <1>3, <2>1, <2>2 DEF RunType, Moved, Threads, Callers, Released, Sending, dialling
  <2>10. Honest' /\ Reported'
    BY <1>1, <1>3, <2>1 DEF RunType, Moved, Threads, Callers, Honest, Reported
  <2> QED  BY <2>2, <2>4, <2>5, <2>6, <2>7, <2>8, <2>9, <2>10
<1> QED  BY <1>2, <1>3 DEF Seal

\* WriteCell gives up after an earlier failure or without a cipher, both of which
\* mean that the connection was shut; or it takes the lock of the writer.
LEMMA FrameKeeps ==
    ASSUME ClientInv, NEW t \in Callers, Frame(t)
    PROVE  ClientInv'
<1> USE DEF ClientInv, RunInv
<1>1. /\ UNCHANGED <<sent, num, out, in, answered, want, cell, shut, werr, refused, forged,
                     closed, code, dialling>>
      /\ at[t] = "frame" /\ Up /\ wmu = None
  BY DEF Frame, linkVars, pathVars, replyVars, closeVars, dialling, Waiting
<1>2. CASE /\ werr \/ SendCipherOf \notin live
           /\ Return(t, FALSE, shut) /\ sendMu' = None /\ UNCHANGED wmu
  <2>1. /\ Moved(t, {"await", "report", "over", "next"})
        /\ why' = why \/ (t = "main" /\ why' = shut)
        /\ t = "main" => at'[t] # "over"
    BY <1>2, ReturnMoves
  <2>2. shut # None
    BY <1>1, <1>2 DEF ShutFirst
  <2>3. Reported'
    BY <1>1, <2>1 DEF Reported, Moved, Callers, Threads, None, ShutFirst
  <2> QED  BY <1>1, <1>2, <2>1, <2>2, <2>3, GiveUpKeeps
<1>3. CASE /\ ~(werr \/ SendCipherOf \notin live)
           /\ Move(t, "write") /\ wmu' = t /\ UNCHANGED <<why, sendMu>>
  <2>1. Moved(t, {"write"})
    BY <1>3, MovesTo DEF Threads, Places, Sending
  <2>2. DialInv' /\ Up'
    BY <1>1, UpDialInv DEF dialling
  <2>3. RunType'
    BY <1>1, <1>3, <2>1 DEF RunType, Moved, Threads, Callers, Sending
  <2>4. Waiting' /\ CellsInTurn'
    BY <1>1, <2>2 DEF Waiting, CellsInTurn
  <2>5. Locked'
    BY <1>1, <1>3, <2>1 DEF RunType, Moved, Threads, Callers, Locked, None
  <2>6. Counted'
    <3>1. InHand' <=> InHand
      BY <1>1, <2>1 DEF Moved, Threads, Callers, InHand
    <3> QED  BY <1>1, <2>1, <3>1 DEF RunType, Moved, Counted, Threads
  <2>7. ShutFirst'
    BY <1>1, <2>1, <2>2 DEF RunType, Moved, Threads, Callers, ShutFirst, Closers, dialling
  <2>8. Released'
    BY <1>1, <1>3, <2>1, <2>2 DEF RunType, Moved, Threads, Callers, Released, Sending, dialling
  <2>9. Honest' /\ Reported'
    BY <1>1, <1>3, <2>1 DEF RunType, Moved, Threads, Callers, Honest, Reported
  <2> QED  BY <2>2, <2>3, <2>4, <2>5, <2>6, <2>7, <2>8, <2>9
<1> QED  BY <1>2, <1>3 DEF Frame

LEMMA WriteFailsKeeps ==
    ASSUME ClientInv, NEW t \in Callers, WriteFails(t)
    PROVE  ClientInv'
<1> USE DEF ClientInv, RunInv
<1>1. /\ UNCHANGED <<sent, num, out, in, answered, want, cell, shut, refused, forged,
                     closed, code, dialling>>
      /\ at[t] = "write" /\ Up /\ shut # None /\ werr' = TRUE
      /\ Return(t, FALSE, shut) /\ sendMu' = None /\ wmu' = None
  BY DEF WriteFails, linkVars, pathVars, replyVars, closeVars, dialling, Waiting
<1>2. /\ Moved(t, {"await", "report", "over", "next"})
      /\ why' = why \/ (t = "main" /\ why' = shut)
      /\ t = "main" => at'[t] # "over"
  BY <1>1, ReturnMoves
<1>3. Reported'
  BY <1>1, <1>2 DEF Reported, Moved, Callers, Threads, None, ShutFirst
<1> QED  BY <1>1, <1>2, <1>3, GiveUpKeeps

\* A cell joins the ones on their way, with the number after the last of them;
\* or it is lost with the connection.
LEMMA WriteDoneKeeps ==
    ASSUME ClientInv, NEW t \in Callers, WriteDone(t)
    PROVE  ClientInv'
<1> USE DEF ClientInv, RunInv
<1>1. /\ UNCHANGED <<sent, num, in, answered, want, cell, shut, werr, refused, forged,
                     closed, code, dialling>>
      /\ at[t] = "write" /\ Up
      /\ Return(t, TRUE, None) /\ sendMu' = None /\ wmu' = None
  BY DEF WriteDone, linkVars, pathVars, replyVars, closeVars, dialling, Waiting
<1>2. /\ Moved(t, {"await", "report", "over", "next"})
      /\ why' = why \/ (t = "main" /\ why' = None)
      /\ t = "main" => at'[t] # "over"
  BY <1>1, ReturnMoves
<1>3. Reported'
  BY <1>1, <1>2 DEF Reported, Moved, Callers, Threads, None
<1>4. CASE shut # None
  <2>1. out' = out
    BY <1>4 DEF WriteDone
  <2> QED  BY <1>1, <1>2, <1>3, <1>4, <2>1, GiveUpKeeps
<1>5. CASE shut = None
  <2> DEFINE c == [n |-> num[t], cover |-> t = "ticker" /\ ~carries]
  <2>1. out' = Append(out, c)
    BY <1>5 DEF WriteDone
  <2>2. c.n = num[t] /\ c \in [n : Nat, cover : BOOLEAN]
    BY DEF RunType
  <2> HIDE DEF c
  <2>3. num[t] + 1 = sent /\ answered + Len(out) = num[t]
    <3>1. InHand
      BY <1>1 DEF InHand
    <3> QED  BY <1>1, <1>5, <3>1 DEF Counted, RunType, Outgoing
  <2>4. /\ out' \in Outgoing /\ Len(out') = Len(out) + 1
        /\ \A i \in DOMAIN out' : out'[i] = IF i = Len(out) + 1 THEN c ELSE out[i]
        /\ DOMAIN out' = 1 .. Len(out) + 1 /\ DOMAIN out = 1 .. Len(out) /\ Len(out) \in Nat
    BY <2>1, <2>2 DEF RunType, Outgoing
  <2>5. DialInv' /\ Up'
    BY <1>1, UpDialInv DEF dialling
  <2>6. RunType'
    BY <1>1, <1>2, <2>4 DEF RunType, Moved, Threads, Callers, Sending
  <2>7. Waiting'
    BY <2>5 DEF Waiting
  <2>8. CellsInTurn'
    <3>1. ASSUME NEW i \in DOMAIN out' PROVE out'[i].n = answered' + i - 1
      <4>1. CASE i = Len(out) + 1
        BY <1>1, <2>2, <2>3, <2>4, <4>1 DEF RunType
      <4>2. CASE i # Len(out) + 1
        <5>1. i \in DOMAIN out /\ out'[i] = out[i]
          BY <2>4, <4>2
        <5> QED  BY <1>1, <5>1 DEF CellsInTurn
      <4> QED  BY <4>1, <4>2
    <3> QED  BY <3>1 DEF CellsInTurn
  <2>9. Locked'
    BY <1>1, <1>2 DEF RunType, Moved, Threads, Callers, Locked, None
  <2>10. Counted'
    <3>1. \A u \in Callers : at'[u] \notin {"seal", "frame", "write"}
      BY <1>1, <1>2 DEF Moved, Threads, Locked, Callers
    <3>2. ~InHand'
      BY <3>1 DEF InHand
    <3> QED  BY <1>1, <2>3, <2>4, <3>1, <3>2 DEF Counted, RunType
  <2>11. ShutFirst'
    BY <1>1, <1>2, <2>5 DEF RunType, Moved, Threads, Callers, ShutFirst, Closers, dialling
  <2>12. Released'
    BY <1>1, <1>2, <2>5 DEF RunType, Moved, Threads, Callers, Released, Sending, dialling
  <2>13. Honest'
    BY <1>1, <1>2 DEF RunType, Moved, Threads, Callers, Honest
  <2> QED  BY <1>3, <2>5, <2>6, <2>7, <2>8, <2>9, <2>10, <2>11, <2>12, <2>13
<1> QED  BY <1>4, <1>5

LEMMA TickerStopsKeeps ==
    ASSUME ClientInv, TickerStops
    PROVE  ClientInv'
<1>1. /\ UNCHANGED <<runState, dialling, code, why>>
      /\ Up /\ at["ticker"] = "next" /\ Move("ticker", "over")
  BY DEF TickerStops, runState, linkVars, pathVars, replyVars, senderVars, endVars, closeVars,
         dialling, messages
<1>2. Moved("ticker", {"over"}) /\ "ticker" \in Callers
  BY <1>1, MovesTo DEF Threads, Callers, Places
<1>3. Reported'
  BY <1>1, <1>2 DEF ClientInv, RunInv, Reported, runState, Moved, Threads, Callers
<1> QED  BY <1>1, <1>2, <1>3, QuietKeeps DEF Moved, Sending

LEMMA EnqueueKeeps ==
    ASSUME ClientInv, Enqueue
    PROVE  ClientInv'
<1>1. /\ UNCHANGED <<runState, dialling, code, why>>
      /\ Up /\ at["main"] = "next"
      /\ Move("main", "await") \/ Move("main", "report")
  BY DEF Enqueue, runState, linkVars, pathVars, replyVars, endVars, closeVars, dialling, messages
<1>2. Moved("main", {"await", "report"}) /\ "main" \in Callers
  <2>1. "main" \in Threads /\ {"await", "report"} \subseteq Places /\ "main" \in Callers
    BY DEF Threads, Callers, Places
  <2> QED  BY <1>1, <2>1, MovesTo DEF Moved
<1>3. Reported'
  BY <1>1, <1>2 DEF ClientInv, RunInv, Reported, runState, Moved, Threads, Callers
<1> QED  BY <1>1, <1>2, <1>3, QuietKeeps DEF Moved, Sending

\* exchange has a reply or gives up waiting for one; it ends without an error
\* when there is nothing left to send.
LEMMA AwaitReplyKeeps ==
    ASSUME ClientInv, AwaitReply
    PROVE  ClientInv'
<1>1. /\ UNCHANGED <<runState, dialling, why>>
      /\ Up /\ at["main"] = "await" /\ Continue
  BY DEF AwaitReply, runState, linkVars, pathVars, replyVars, senderVars, closeVars, dialling,
         messages, ClientInv, RunInv, Waiting, Callers
<1>2. "main" \in Threads /\ {"over", "next"} \subseteq Places /\ "main" \in Callers
  BY DEF Threads, Callers, Places
<1>3. CASE Move("main", "over") /\ code' = "done"
  <2>1. Moved("main", {"over"})
    BY <1>2, <1>3, MovesTo
  <2>2. Reported'
    BY <1>1, <1>3, <2>1 DEF ClientInv, RunInv, Reported, runState, Moved
  <2> QED  BY <1>1, <1>2, <2>1, <2>2, QuietKeeps DEF Moved, Sending
<1>4. CASE Move("main", "next") /\ UNCHANGED code
  <2>1. Moved("main", {"next"})
    BY <1>2, <1>4, MovesTo
  <2>2. Reported'
    BY <1>1, <1>4, <2>1 DEF ClientInv, RunInv, Reported, runState, Moved
  <2> QED  BY <1>1, <1>2, <2>1, <2>2, QuietKeeps DEF Moved, Sending
<1> QED  BY <1>1, <1>3, <1>4 DEF Continue, End

\* ending: the code is that of a refusal exactly when one was noted, and a
\* connection shut over a refusal has it noted.
LEMMA EndingKeeps ==
    ASSUME ClientInv, Up, at["main"] \in {"await", "report"}, End(Ending),
           why' = why \/ why' = shut, UNCHANGED <<runState, dialling>>
    PROVE  ClientInv'
<1>1. "main" \in Threads /\ "over" \in Places /\ "main" \in Callers
  BY DEF Threads, Callers, Places
<1>2. Moved("main", {"over"}) /\ code' = Ending
  BY <1>1, MovesTo DEF End
<1>3. Reported'
  BY <1>2 DEF ClientInv, RunInv, Reported, ShutFirst, runState, Moved, Ending, None
<1> QED  BY <1>1, <1>2, <1>3, QuietKeeps DEF Moved, Sending

LEMMA RepliesClosedKeeps ==
    ASSUME ClientInv, RepliesClosed
    PROVE  ClientInv'
<1>1. /\ UNCHANGED <<runState, dialling>> /\ why' = shut
      /\ Up /\ at["main"] = "await" /\ End(Ending)
  BY DEF RepliesClosed, runState, linkVars, pathVars, replyVars, senderVars, closeVars, dialling,
         messages, ClientInv, RunInv, Waiting, Callers
<1> QED  BY <1>1, EndingKeeps

LEMMA ReportKeeps ==
    ASSUME ClientInv, Report
    PROVE  ClientInv'
<1>1. /\ UNCHANGED <<runState, dialling, why>>
      /\ Up /\ at["main"] = "report" /\ End(Ending)
  BY DEF Report, runState, linkVars, pathVars, replyVars, senderVars, closeVars, dialling,
         messages, ClientInv, RunInv, Waiting, Callers
<1> QED  BY <1>1, EndingKeeps

-------------------------------------------------------------------------------
(* The receiver. *)

\* A step of the receiver before it closes the link.
LEMMA ReceiverKeeps ==
    ASSUME ClientInv, Up, at["receiver"] \in {"read", "waiting", "open"},
           Moved("receiver", {"read", "waiting", "open", "closeRaw", "over"}),
           UNCHANGED <<sent, num, sendMu, wmu, out, answered, shut, werr, forged, closed,
                       code, why, dialling>>,
           want' \in Nat, in' \in Incoming, Honest',
           refused # None => refused' # None,
           at'["receiver"] = "closeRaw" => refused' # None
    PROVE  ClientInv'
<1> USE DEF ClientInv, RunInv
<1>1. DialInv' /\ Up'
  BY UpDialInv DEF dialling
<1>2. /\ \A u \in Callers : at'[u] = at[u]
      /\ at'["closer"] = at["closer"]
  BY DEF Moved, Threads, Callers
<1>3. RunType'
  BY <1>2 DEF RunType, Moved
<1>4. Waiting' /\ CellsInTurn'
  BY <1>1 DEF Waiting, CellsInTurn
<1>5. Locked'
  BY <1>2 DEF Locked
<1>6. Counted'
  <2>1. InHand' <=> InHand
    BY <1>2 DEF InHand
  <2> QED  BY <1>2, <2>1 DEF Counted
<1>7. ShutFirst'
  BY <1>1, <1>2 DEF ShutFirst, Closers, Moved, dialling
<1>8. Released'
  BY <1>1, <1>2 DEF Released, dialling
<1>9. Reported'
  BY <1>2 DEF Reported, Callers
<1> QED  BY <1>1, <1>3, <1>4, <1>5, <1>6, <1>7, <1>8, <1>9

LEMMA ReadKeeps ==
    ASSUME ClientInv, Read
    PROVE  ClientInv'
<1> USE DEF ClientInv, RunInv
<1>1. /\ UNCHANGED <<sent, num, sendMu, wmu, out, in, answered, shut, werr, forged, closed,
                     code, why, want, cell, refused, dialling>>
      /\ Up /\ at["receiver"] = "read" /\ Move("receiver", "waiting")
  BY DEF Read, pathVars, replyVars, senderVars, endVars, closeVars, dialling
<1>2. Moved("receiver", {"waiting"})
  BY <1>1, MovesTo DEF Threads, Places
<1>3. Honest'
  BY <1>1, <1>2 DEF Honest, Moved
<1>4. want' \in Nat /\ in' \in Incoming
  BY <1>1 DEF RunType
<1> QED  BY <1>1, <1>2, <1>3, <1>4, ReceiverKeeps DEF Moved

LEMMA NumberedAt ==
    ASSUME NEW s \in Incoming
    PROVE  \A i \in DOMAIN s : s[i].n \in Nat
<1> DEFINE R == [kind : {"reply", "frame", "header", "garbled"}, n : Nat, cover : BOOLEAN]
<1>1. \A r \in R : r.n \in Nat
  OBVIOUS
<1>2. s \in Seq(R)
  BY DEF Incoming
<1> HIDE DEF R
<1>3. \A i \in DOMAIN s : s[i] \in R
  BY <1>2
<1> QED  BY <1>1, <1>3

\* The head of what is on its way is the reply the receiver expects, if the
\* circuit is honest.
LEMMA ReadCellKeeps ==
    ASSUME ClientInv, ReadCell
    PROVE  ClientInv'
<1> USE DEF ClientInv, RunInv
<1>1. /\ UNCHANGED <<sent, num, sendMu, wmu, out, answered, shut, werr, forged, closed,
                     code, why, want, refused, dialling>>
      /\ at["receiver"] = "waiting" /\ Up /\ in # <<>> /\ in' = Tail(in)
  BY DEF ReadCell, senderVars, endVars, closeVars, dialling, Waiting
<1>2. /\ in \in Incoming /\ in' \in Incoming /\ Len(in) \in Nat /\ Len(in) > 0
      /\ Len(in') = Len(in) - 1 /\ DOMAIN in' = 1 .. Len(in) - 1 /\ DOMAIN in = 1 .. Len(in)
      /\ \A i \in DOMAIN in' : in'[i] = in[i + 1]
      /\ Head(in) = in[1]
  BY <1>1 DEF RunType, Incoming
<1>3. want' \in Nat
  BY <1>1 DEF RunType
<1>4. CASE Head(in).kind = "frame" /\ Leave /\ cell' = NoCell
  <2>1. Moved("receiver", {"over"})
    BY <1>4, MovesTo DEF Leave, Threads, Places
  <2>2. forged
    <3>1. 1 \in DOMAIN in
      BY <1>2
    <3> QED  BY <1>2, <1>4, <3>1 DEF Honest
  <2>3. Honest'
    BY <1>1, <2>2 DEF Honest
  <2> QED  BY <1>1, <1>2, <1>3, <2>1, <2>3, ReceiverKeeps DEF Moved
<1>5. CASE Move("receiver", "open") /\ cell' = Head(in)
  <2>1. Moved("receiver", {"open"})
    BY <1>5, MovesTo DEF Threads, Places
  <2>2. ASSUME ~forged
        PROVE  /\ \A i \in DOMAIN in' :
                    in'[i].kind = "reply" /\ in'[i].n + Len(in') + 1 = answered + i
               /\ cell'.kind = "reply" /\ cell'.n = want /\ want + Len(in') + 1 = answered
    <3>1. want + Len(in) = answered /\ answered \in Nat
      BY <1>1, <2>2 DEF Honest, RunType
    <3>2. \A i \in DOMAIN in :
             in[i].kind = "reply" /\ in[i].n + Len(in) + 1 = answered + i /\ in[i].n \in Nat
      <4>1. \A i \in DOMAIN in : in[i].n \in Nat
        BY <1>2, NumberedAt
      <4> QED  BY <2>2, <4>1 DEF Honest
    <3>3. 1 \in DOMAIN in /\ \A i \in DOMAIN in' : i + 1 \in DOMAIN in /\ i \in Nat
      BY <1>2
    <3>4. in[1].kind = "reply" /\ in[1].n + Len(in) + 1 = answered + 1 /\ in[1].n \in Nat
      BY <3>2, <3>3
    <3>5. cell'.kind = "reply" /\ cell'.n = want /\ want + Len(in') + 1 = answered
      <4>1. cell' = in[1] /\ want \in Nat
        BY <1>2, <1>3, <1>1, <1>5
      <4>2. in[1].n = want /\ want + Len(in') + 1 = answered
        <5> DEFINE m == in[1].n
        <5>1. m \in Nat /\ m + Len(in) + 1 = answered + 1
          BY <3>4
        <5> HIDE DEF m
        <5>2. m = want /\ want + Len(in') + 1 = answered
          BY <1>2, <3>1, <4>1, <5>1
        <5> QED  BY <5>2 DEF m
      <4> QED  BY <3>4, <4>1, <4>2
    <3>6. ASSUME NEW i \in DOMAIN in'
          PROVE  in'[i].kind = "reply" /\ in'[i].n + Len(in') + 1 = answered + i
      <4>1. /\ in[i + 1].kind = "reply" /\ in[i + 1].n + Len(in) + 1 = answered + (i + 1)
            /\ in[i + 1].n \in Nat
        BY <3>2, <3>3
      <4> DEFINE m == in[i + 1].n
      <4>2. m \in Nat /\ m + Len(in) + 1 = answered + (i + 1)
        BY <4>1
      <4> HIDE DEF m
      <4>3. m + Len(in') + 1 = answered + i
        BY <1>2, <3>1, <3>3, <4>2
      <4>4. in'[i] = in[i + 1]
        BY <1>2
      <4> QED  BY <4>1, <4>3, <4>4 DEF m
    <3> QED  BY <3>5, <3>6
  <2>3. Honest'
    BY <1>1, <2>1, <2>2 DEF Honest, Moved
  <2> QED  BY <1>1, <1>2, <1>3, <2>1, <2>3, ReceiverKeeps DEF Moved
<1> QED  BY <1>4, <1>5 DEF ReadCell

LEMMA ReadFailsKeeps ==
    ASSUME ClientInv, ReadFails
    PROVE  ClientInv'
<1> USE DEF ClientInv, RunInv
<1>1. /\ UNCHANGED <<sent, num, sendMu, wmu, out, in, answered, shut, werr, forged, closed,
                     code, why, want, cell, refused, dialling>>
      /\ Up /\ at["receiver"] = "waiting" /\ Leave
  BY DEF ReadFails, pathVars, senderVars, endVars, closeVars, dialling, Waiting
<1>2. Moved("receiver", {"over"})
  BY <1>1, MovesTo DEF Leave, Threads, Places
<1>3. Honest'
  BY <1>1, <1>2 DEF Honest, Moved
<1>4. want' \in Nat /\ in' \in Incoming
  BY <1>1 DEF RunType
<1> QED  BY <1>1, <1>2, <1>3, <1>4, ReceiverKeeps DEF Moved

\* The reply of an honest circuit passes every check: it is the next, and the
\* cell it answers was counted before it left.
LEMMA OpenReplyKeeps ==
    ASSUME ClientInv, OpenReply
    PROVE  ClientInv'
<1> USE DEF ClientInv, RunInv
<1>1. /\ UNCHANGED <<sent, num, sendMu, wmu, out, in, answered, shut, werr, forged, closed,
                     code, why, dialling>>
      /\ Up /\ at["receiver"] = "open"
  BY DEF OpenReply, linkVars, pathVars, senderVars, endVars, closeVars, dialling, Waiting
<1>2. in' \in Incoming /\ want \in Nat
  BY <1>1 DEF RunType
<1>3. ~forged => Verdict(cell) = None
  <2>1. SUFFICES ASSUME ~forged PROVE Verdict(cell) = None
    OBVIOUS
  <2>2. cell.kind = "reply" /\ cell.n = want /\ want + Len(in) + 1 = answered
    BY <1>1, <2>1 DEF Honest
  <2>3. Len(in) \in Nat /\ Len(out) \in Nat /\ answered \in Nat /\ sent \in Nat
    BY DEF RunType, Incoming, Outgoing
  <2>4. want < sent
    BY <1>2, <2>2, <2>3 DEF Counted
  <2> QED  BY <1>2, <2>2, <2>3, <2>4 DEF Verdict
<1>4. CASE /\ Verdict(cell) # None /\ refused' = Verdict(cell)
           /\ Move("receiver", "closeRaw") /\ UNCHANGED want
  <2>1. Moved("receiver", {"closeRaw"})
    BY <1>4, MovesTo DEF Threads, Places
  <2>2. Honest' /\ refused' # None /\ want' \in Nat
    BY <1>1, <1>2, <1>3, <1>4 DEF Honest
  <2> QED  BY <1>1, <1>2, <2>1, <2>2, ReceiverKeeps DEF Moved
<1>5. CASE /\ want' = want + 1 /\ Move("receiver", "read") /\ UNCHANGED refused
  <2>1. Moved("receiver", {"read"})
    BY <1>5, MovesTo DEF Threads, Places
  <2>2. Len(in) \in Nat
    BY DEF RunType, Incoming
  <2>3. Honest' /\ want' \in Nat
    BY <1>1, <1>2, <1>5, <2>1, <2>2 DEF Honest, Moved
  <2> QED  BY <1>1, <1>2, <1>5, <2>1, <2>3, ReceiverKeeps DEF Moved
<1> QED  BY <1>4, <1>5 DEF OpenReply

-------------------------------------------------------------------------------
(* The link and the keys are released. *)

\* A step of a thread that closes: the senders are left alone, and nothing of the
\* responder's is touched.
LEMMA ClosingKeeps ==
    ASSUME ClientInv, Up, NEW t \in Closers, NEW q, Moved(t, {q}),
           t = "receiver" => q \in {"discardSend", "discardRecv", "over"},
           t = "closer" => q \in {"closeRaw", "discardSend", "discardRecv", "stop", "wait",
                                 "done"},
           UNCHANGED <<sent, num, sendMu, wmu, out, in, answered, want, cell, forged, werr,
                       refused, code, why, dial, hop, answerer, pc, messages>>,
           live' \subseteq live, \A n : <<"resp", n>> \in live' <=> <<"resp", n>> \in live,
           closed' \in BOOLEAN, shut' = None => shut = None,
           t = "receiver" => forged,
           ShutFirst', Released'
    PROVE  ClientInv'
<1> USE DEF ClientInv, RunInv
<1>1. DialInv' /\ Up'
  BY UpDialInv
<1>2. /\ \A u \in Callers : at'[u] = at[u]
      /\ t = "receiver" => at'["closer"] = at["closer"] /\ at'["receiver"] = q
      /\ t = "closer" => at'["receiver"] = at["receiver"] /\ at'["closer"] = q
      /\ t \in {"receiver", "closer"}
  BY DEF Moved, Threads, Callers, Closers
<1>3. RunType'
  BY <1>2 DEF RunType, Moved
<1>4. Waiting' /\ CellsInTurn'
  BY <1>1 DEF Waiting, CellsInTurn
<1>5. Locked'
  BY <1>2 DEF Locked
<1>6. Counted'
  <2>1. InHand' <=> InHand
    BY <1>2 DEF InHand
  <2> QED  BY <1>2, <2>1 DEF Counted
<1>7. Honest'
  BY <1>2 DEF Honest
<1>8. Reported'
  BY <1>2 DEF Reported, Callers
<1> QED  BY <1>1, <1>3, <1>4, <1>5, <1>6, <1>7, <1>8

\* What is released is none of the other things held.
LEMMA ReleasedIsOwn ==
    /\ \A n : <<"resp", n>> \notin {Raw, SendCipherOf, RecvCipherOf} \cup Circuit
    /\ Raw # SendCipherOf /\ Raw # RecvCipherOf /\ SendCipherOf # RecvCipherOf
    /\ Layers \cap {Raw, SendCipherOf, RecvCipherOf} = {}
    /\ Layers \subseteq Circuit
    /\ SendCipherOf \notin Circuit
<1>1. "init" \in Sides /\ "resp" \in Sides
  BY DEF Sides
<1>2. \A t \in Sides : \A n : <<t, n>> # Raw /\ \A A : <<t, n>> \notin All(A) /\ Raw \notin All(A)
  BY OwnersDistinct
<1>3. SendCipherOf # RecvCipherOf /\ \A n : <<"resp", n>> # SendCipherOf /\ <<"resp", n>> # RecvCipherOf
  BY DEF SendCipherOf, RecvCipherOf
<1>4. Layers \subseteq Circuit
  BY DEF Layers, Circuit, All
<1> QED  BY <1>1, <1>2, <1>3, <1>4 DEF SendCipherOf, RecvCipherOf, Layers, Circuit

\* The socket goes first, and from then on the connection is shut.
LEMMA CloseRawKeeps ==
    ASSUME ClientInv, NEW t \in Closers, CloseRaw(t)
    PROVE  ClientInv'
<1> USE DEF ClientInv, RunInv
<1>1. /\ UNCHANGED <<sent, num, sendMu, wmu, out, in, answered, want, cell, forged, werr,
                     refused, code, why, dial, hop, answerer, pc, messages, closed>>
      /\ at[t] = "closeRaw" /\ Up /\ Move(t, "discardSend") /\ live' = live \ {Raw}
      /\ shut' = IF shut # None THEN shut ELSE IF t = "receiver" THEN "refusal" ELSE "close"
  BY DEF CloseRaw, Release, pathVars, replyVars, senderVars, endVars, closeVars, Waiting, Closers
<1>2. Moved(t, {"discardSend"}) /\ t \in {"receiver", "closer"}
  BY <1>1, MovesTo DEF Threads, Places, Closers
<1>3. /\ \A n : <<"resp", n>> \in live' <=> <<"resp", n>> \in live
      /\ SendCipherOf \in live' <=> SendCipherOf \in live
      /\ Layers \subseteq live => Layers \subseteq live'
  BY <1>1, ReleasedIsOwn
<1>4. shut' # None /\ (shut' = "refusal" => shut = "refusal" \/ t = "receiver")
  BY <1>1 DEF None
<1>5. ShutFirst'
  BY <1>1, <1>2, <1>3, <1>4 DEF ShutFirst, Moved, Threads, Closers, Up
<1>6. Released'
  BY <1>1, <1>2, <1>3 DEF Released, Moved, Threads, Callers, Up, RunType
<1>7. t = "receiver" => forged
  BY <1>1 DEF Honest
<1> QED  BY <1>1, <1>2, <1>3, <1>4, <1>5, <1>6, <1>7, ClosingKeeps DEF RunType

\* The cipher of the frames goes while nobody writes one.
LEMMA DiscardSendKeeps ==
    ASSUME ClientInv, NEW t \in Closers, DiscardSend(t)
    PROVE  ClientInv'
<1> USE DEF ClientInv, RunInv
<1>1. /\ UNCHANGED <<sent, num, sendMu, wmu, out, in, answered, want, cell, forged, werr, shut,
                     refused, code, why, dial, hop, answerer, pc, messages, closed>>
      /\ at[t] = "discardSend" /\ Up /\ wmu = None /\ Move(t, "discardRecv")
      /\ live' = live \ {SendCipherOf}
  BY DEF DiscardSend, Release, linkVars, pathVars, replyVars, senderVars, endVars, closeVars,
         Waiting, Closers
<1>2. Moved(t, {"discardRecv"}) /\ t \in {"receiver", "closer"}
  BY <1>1, MovesTo DEF Threads, Places, Closers
<1>3. /\ \A n : <<"resp", n>> \in live' <=> <<"resp", n>> \in live
      /\ Layers \subseteq live => Layers \subseteq live'
  BY <1>1, ReleasedIsOwn
<1>4. \A u \in Callers : at[u] # "write"
  BY <1>1 DEF Locked, Callers, None
<1>5. ShutFirst'
  BY <1>1, <1>2 DEF ShutFirst, Moved, Threads, Closers, Up
<1>6. Released'
  BY <1>1, <1>2, <1>3, <1>4 DEF Released, Moved, Threads, Callers, Up, RunType
<1>7. t = "receiver" => forged
  BY <1>1 DEF Honest
<1> QED  BY <1>1, <1>2, <1>3, <1>5, <1>6, <1>7, ClosingKeeps DEF RunType

LEMMA DiscardRecvKeeps ==
    ASSUME ClientInv, NEW t \in Closers, DiscardRecv(t)
    PROVE  ClientInv'
<1> USE DEF ClientInv, RunInv
<1> DEFINE q == IF t = "receiver" THEN "over" ELSE "stop"
<1>1. /\ UNCHANGED <<sent, num, sendMu, wmu, out, in, answered, want, cell, forged, werr, shut,
                     refused, code, why, dial, hop, answerer, pc, messages, closed>>
      /\ at[t] = "discardRecv" /\ Up /\ Move(t, q) /\ live' = live \ {RecvCipherOf}
  BY DEF DiscardRecv, Leave, Release, linkVars, pathVars, replyVars, senderVars, endVars,
         closeVars, Waiting, Closers
<1>2. t \in {"receiver", "closer"} /\ q = (IF t = "receiver" THEN "over" ELSE "stop")
  BY DEF Closers
<1> HIDE DEF q
<1>3. Moved(t, {q})
  BY <1>1, <1>2, MovesTo DEF Threads, Places
<1>4. /\ \A n : <<"resp", n>> \in live' <=> <<"resp", n>> \in live
      /\ Layers \subseteq live => Layers \subseteq live'
      /\ SendCipherOf \in live' <=> SendCipherOf \in live
  BY <1>1, ReleasedIsOwn
<1>5. ShutFirst'
  BY <1>1, <1>2, <1>3, <1>4 DEF ShutFirst, Moved, Threads, Closers, Up
<1>6. Released'
  BY <1>1, <1>2, <1>3, <1>4 DEF Released, Moved, Threads, Callers, Up, RunType
<1>7. t = "receiver" => forged
  BY <1>1 DEF Honest
<1> QED  BY <1>1, <1>2, <1>3, <1>4, <1>5, <1>6, <1>7, ClosingKeeps DEF RunType

\* Close, before and after the link's part of it.
LEMMA StartCloseKeeps ==
    ASSUME ClientInv, StartClose
    PROVE  ClientInv'
<1> USE DEF ClientInv, RunInv
<1>1. /\ UNCHANGED <<sent, num, sendMu, wmu, out, in, answered, want, cell, forged, werr, shut,
                     refused, code, why, dialling>>
      /\ at["closer"] = "idle" /\ Up /\ Move("closer", "closeRaw") /\ closed' = TRUE
  BY DEF StartClose, linkVars, pathVars, replyVars, senderVars, endVars, dialling
<1>2. Moved("closer", {"closeRaw"}) /\ "closer" \in Closers
  BY <1>1, MovesTo DEF Threads, Places, Closers
<1>3. ShutFirst'
  BY <1>1, <1>2 DEF ShutFirst, Moved, Threads, Closers, Up, dialling
<1>4. Released'
  BY <1>1, <1>2 DEF Released, Moved, Threads, Callers, Up, dialling
<1> QED  BY <1>1, <1>2, <1>3, <1>4, ClosingKeeps DEF dialling

LEMMA StopCoverKeeps ==
    ASSUME ClientInv, StopCover
    PROVE  ClientInv'
<1> USE DEF ClientInv, RunInv
<1>1. /\ UNCHANGED <<sent, num, sendMu, wmu, out, in, answered, want, cell, forged, werr, shut,
                     refused, code, why, closed, dialling>>
      /\ at["closer"] = "stop" /\ Up /\ Move("closer", "wait")
  BY DEF StopCover, linkVars, pathVars, replyVars, senderVars, endVars, dialling, Waiting
<1>2. Moved("closer", {"wait"}) /\ "closer" \in Closers
  BY <1>1, MovesTo DEF Threads, Places, Closers
<1>3. ShutFirst'
  BY <1>1, <1>2 DEF ShutFirst, Moved, Threads, Closers, Up, dialling
<1>4. Released'
  BY <1>1, <1>2 DEF Released, Moved, Threads, Callers, Up, dialling
<1> QED  BY <1>1, <1>2, <1>3, <1>4, ClosingKeeps DEF dialling, RunType

\* The keys of the circuit go once no sender and no receiver can use them.
LEMMA ReleaseKeysKeeps ==
    ASSUME ClientInv, ReleaseKeys
    PROVE  ClientInv'
<1> USE DEF ClientInv, RunInv
<1>1. /\ UNCHANGED <<sent, num, sendMu, wmu, out, in, answered, want, cell, forged, werr, shut,
                     refused, code, why, closed, dial, hop, answerer, pc, messages>>
      /\ at["closer"] = "wait" /\ Up /\ Move("closer", "done") /\ Unused
      /\ live' = live \ Circuit
  BY DEF ReleaseKeys, Release, linkVars, pathVars, replyVars, senderVars, endVars, closeVars,
         Waiting
<1>2. Moved("closer", {"done"}) /\ "closer" \in Closers
  BY <1>1, MovesTo DEF Threads, Places, Closers
<1>3. /\ \A n : <<"resp", n>> \in live' <=> <<"resp", n>> \in live
      /\ SendCipherOf \in live' <=> SendCipherOf \in live
  BY <1>1, ReleasedIsOwn
<1>4. ShutFirst'
  BY <1>1, <1>2, <1>3 DEF ShutFirst, Moved, Threads, Closers, Up
<1>5. Released'
  BY <1>1, <1>2, <1>3 DEF Released, Moved, Threads, Callers, Up, Unused
<1> QED  BY <1>1, <1>2, <1>3, <1>4, <1>5, ClosingKeeps DEF RunType

-------------------------------------------------------------------------------
(* The far side. *)

\* A step that leaves the threads and what is held alone.
LEMMA OutsideKeeps ==
    ASSUME ClientInv,
           UNCHANGED <<at, sent, num, sendMu, wmu, want, cell, werr, refused, closed, code, why,
                       dialling>>,
           answered' \in Nat, out' \in Outgoing, in' \in Incoming, forged' \in BOOLEAN,
           shut' = shut \/ shut' = "peer",
           answered' + Len(out') = answered + Len(out),
           CellsInTurn', Honest'
    PROVE  ClientInv'
<1> USE DEF ClientInv, RunInv
<1>1. DialInv' /\ (Up' <=> Up)
  <2>1. FrameKeys("resp")' = FrameKeys("resp") /\ FrameKeys("init")' = FrameKeys("init")
    BY DEF FrameKeys, Mode, messages, dialling
  <2>2. Agreement'
    BY <2>1 DEF DialInv, Agreement, messages, dialling
  <2> QED  BY <2>2 DEF DialInv, DialType, InTurn, SidesExact, ClientExact, HopExact, Up, dialling
<1>2. RunType'
  BY DEF RunType
<1>3. Waiting' /\ Locked'
  BY <1>1 DEF Waiting, Locked
<1>4. Counted'
  BY DEF Counted, InHand, None
<1>5. ShutFirst'
  BY <1>1 DEF ShutFirst, dialling, None
<1>6. Released'
  BY <1>1 DEF Released, dialling
<1>7. Reported'
  BY DEF Reported
<1> QED  BY <1>1, <1>2, <1>3, <1>4, <1>5, <1>6, <1>7

\* The first of the cells on their way is answered, and the next is the one after
\* it.
LEMMA EchoKeeps ==
    ASSUME ClientInv, Echo
    PROVE  ClientInv'
<1> USE DEF ClientInv, RunInv
<1> DEFINE c == [kind |-> "reply", n |-> answered, cover |-> Head(out).cover]
<1>1. /\ UNCHANGED <<at, sent, num, sendMu, wmu, want, cell, werr, refused, closed, code, why,
                     dialling, shut, forged>>
      /\ out # <<>> /\ in' = Append(in, c) /\ out' = Tail(out) /\ answered' = answered + 1
  BY DEF Echo, linkVars, replyVars, senderVars, endVars, closeVars, dialling
<1>2. /\ out \in Outgoing /\ out' \in Outgoing /\ Len(out) \in Nat /\ Len(out) > 0
      /\ Len(out') = Len(out) - 1 /\ DOMAIN out' = 1 .. Len(out) - 1
      /\ DOMAIN out = 1 .. Len(out)
      /\ \A i \in DOMAIN out' : out'[i] = out[i + 1]
      /\ Head(out) = out[1]
  BY <1>1 DEF RunType, Outgoing
<1>3. answered \in Nat /\ want \in Nat /\ in \in Incoming /\ Len(in) \in Nat
      /\ forged \in BOOLEAN
  BY DEF RunType, Incoming
<1>4. c \in [kind : {"reply", "frame", "header", "garbled"}, n : Nat, cover : BOOLEAN]
  <2> DEFINE R == [n : Nat, cover : BOOLEAN]
  <2>1. out \in Seq(R) /\ 1 \in DOMAIN out /\ \A r \in R : r.cover \in BOOLEAN
    BY <1>2 DEF Outgoing
  <2> HIDE DEF R
  <2>2. Head(out).cover \in BOOLEAN
    BY <1>2, <2>1
  <2> QED  BY <1>3, <2>2
<1>5. c.kind = "reply" /\ c.n = answered
  OBVIOUS
<1> HIDE DEF c
<1>6. /\ in' \in Incoming /\ Len(in') = Len(in) + 1
      /\ DOMAIN in' = 1 .. Len(in) + 1 /\ DOMAIN in = 1 .. Len(in)
      /\ \A i \in DOMAIN in' : in'[i] = IF i = Len(in) + 1 THEN c ELSE in[i]
  BY <1>1, <1>3, <1>4 DEF Incoming
<1>7. answered' = answered + 1 /\ answered' \in Nat /\ Len(in') = Len(in) + 1
  BY <1>1, <1>3, <1>6
<1>8. CellsInTurn'
  <2>1. ASSUME NEW i \in DOMAIN out'
        PROVE  out'[i].n = answered' + i - 1
    <3>1. i + 1 \in DOMAIN out /\ i \in Nat /\ out'[i] = out[i + 1]
      BY <1>2
    <3>2. out[i + 1].n = answered + (i + 1) - 1
      BY <3>1 DEF CellsInTurn
    <3> QED  BY <1>1, <1>3, <3>1, <3>2
  <2> QED  BY <2>1 DEF CellsInTurn
<1>9. Honest'
  <2>1. SUFFICES ASSUME ~forged PROVE Honest'
    BY <1>1 DEF Honest
  <2>2. ASSUME NEW i \in DOMAIN in'
        PROVE  in'[i].kind = "reply" /\ in'[i].n + Len(in') + 1 = answered' + i
    <3>1. CASE i = Len(in) + 1
      <4>1. in'[i] = c
        BY <1>6, <3>1
      <4>2. answered + Len(in') + 1 = answered' + i
        BY <1>3, <1>7, <3>1
      <4> QED  BY <1>5, <4>1, <4>2
    <3>2. CASE i # Len(in) + 1
      <4>1. i \in DOMAIN in /\ i \in Nat /\ in'[i] = in[i]
        BY <1>3, <1>6, <3>2
      <4>2. in[i].kind = "reply" /\ in[i].n + Len(in) + 1 = answered + i
        BY <2>1, <4>1 DEF Honest
      <4>3. in[i].n \in Nat
        BY <1>3, <4>1, NumberedAt
      <4> DEFINE m == in[i].n
      <4>4. m \in Nat /\ m + Len(in) + 1 = answered + i
        BY <4>2, <4>3
      <4> HIDE DEF m
      <4>5. m + Len(in') + 1 = answered' + i
        BY <1>3, <1>7, <4>1, <4>4
      <4> QED  BY <4>1, <4>2, <4>5 DEF m
    <3> QED  BY <3>1, <3>2
  <2>3. /\ at["receiver"] \in {"read", "waiting"} => want + Len(in') = answered'
        /\ at["receiver"] = "open" => want + Len(in') + 1 = answered'
    BY <1>1, <1>3, <1>6, <2>1 DEF Honest
  <2> QED  BY <1>1, <2>1, <2>2, <2>3 DEF Honest
<1>10. answered' \in Nat /\ answered' + Len(out') = answered + Len(out)
  BY <1>1, <1>2, <1>3
<1> QED  BY <1>1, <1>2, <1>3, <1>6, <1>8, <1>9, <1>10, OutsideKeeps

LEMMA ForgeKeeps ==
    ASSUME ClientInv, Forge
    PROVE  ClientInv'
<1> USE DEF ClientInv, RunInv
<1>1. /\ UNCHANGED <<at, sent, num, sendMu, wmu, want, cell, werr, refused, closed, code, why,
                     dialling, shut, out, answered>>
      /\ forged' = TRUE
  BY DEF Forge, linkVars, replyVars, senderVars, endVars, closeVars, dialling
<1>2. answered \in Nat /\ out \in Outgoing /\ in \in Incoming /\ Len(out) \in Nat
  BY DEF RunType, Outgoing
<1>3. in' \in Incoming
  <2>1. PICK k \in {"frame", "header", "garbled", "reply"}, n \in {answered, answered + 1} :
          in' = Append(in, [kind |-> k, n |-> n, cover |-> FALSE])
    BY DEF Forge
  <2>2. [kind |-> k, n |-> n, cover |-> FALSE]
           \in [kind : {"reply", "frame", "header", "garbled"}, n : Nat, cover : BOOLEAN]
    BY <1>2
  <2> QED  BY <1>2, <2>1, <2>2 DEF Incoming
<1>4. CellsInTurn' /\ Honest'
  BY <1>1 DEF CellsInTurn, Honest
<1> QED  BY <1>1, <1>2, <1>3, <1>4, OutsideKeeps

LEMMA CutKeeps ==
    ASSUME ClientInv, Cut
    PROVE  ClientInv'
<1> USE DEF ClientInv, RunInv
<1>1. /\ UNCHANGED <<at, sent, num, sendMu, wmu, want, cell, werr, refused, closed, code, why,
                     dialling, out, in, answered, forged>>
      /\ shut' = "peer"
  BY DEF Cut, pathVars, replyVars, senderVars, endVars, closeVars, dialling
<1>2. CellsInTurn' /\ Honest'
  BY <1>1 DEF CellsInTurn, Honest
<1> QED  BY <1>1, <1>2, OutsideKeeps DEF RunType

-------------------------------------------------------------------------------
(* Dial returns. *)

\* The setup cell has left: a client is made, and it holds its circuit, its
\* connection and the two ciphers; or it has not, and all of them are released.
LEMMA SendSetupKeeps ==
    ASSUME DialInv, SendSetup
    PROVE  /\ DialInv'
           /\ Up' => /\ live' \subseteq Own("resp", SideNames) \cup Own("init", {"send", "recv"})
                                         \cup Circuit \cup {Raw}
                     /\ Layers \subseteq live'
                     /\ SendCipherOf \in live'
<1>1. /\ dial = "setup" /\ pc["init"] = "open"
      /\ UNCHANGED <<hop, answerer, pc, messages>>
  BY DEF SendSetup, Attempt, Go, DialInv, InTurn
<1>2. /\ \A n \in SideNames : <<"init", n>> \in live <=> n \in {"send", "recv"}
      /\ \A i \in 1 .. Hops :
           /\ Of("eph", i) \notin live /\ Of("secret", i) \notin live /\ Of("setup", i) \notin live
           /\ Of("layer", i) \in live
  BY <1>1, HoldsAt DEF DialInv, SidesExact, ClientExact, HopExact, Up, Sides, Connecting
<1>3. CASE Go("setup", "up", {}, {})
  <2>1. dial' = "up" /\ live' = live
    BY <1>3 DEF Go
  <2>2. DialType' /\ InTurn' /\ SidesExact' /\ ClientExact'
    BY <1>1, <2>1 DEF DialInv, DialType, InTurn, SidesExact, ClientExact, Building, Connecting, Up
  <2>3. FrameKeys("resp")' = FrameKeys("resp") /\ FrameKeys("init")' = FrameKeys("init")
    BY <1>1 DEF FrameKeys, Mode, messages
  <2>4. Agreement'
    BY <1>1, <2>3 DEF DialInv, Agreement, messages
  <2>5. Layers \subseteq live'
    BY <1>2, <2>1 DEF Layers, All
  <2>6. SendCipherOf \in live'
    BY <1>2, <2>1 DEF SendCipherOf, SideNames
  <2>7. ASSUME NEW x \in live
        PROVE  x \in Own("resp", SideNames) \cup Own("init", {"send", "recv"})
                       \cup Circuit \cup {Raw}
    <3>1. x \in Resources
      BY DEF DialInv, DialType
    <3>2. CASE x \in Own("init", SideNames)
      <4>1. PICK n \in SideNames : x = <<"init", n>>
        BY <3>2 DEF Own
      <4> QED  BY <1>2, <4>1 DEF Own
    <3>3. CASE x \in All(HopNames)
      <4>1. PICK n \in HopNames, i \in 1 .. Hops : x = Of(n, i)
        BY <3>3 DEF All
      <4>2. n \in {"layer", "cell"}
        BY <1>2, <4>1 DEF HopNames
      <4> QED  BY <4>1, <4>2 DEF Circuit, All
    <3> QED  BY <3>1, <3>2, <3>3 DEF Resources
  <2> QED  BY <2>1, <2>2, <2>4, <2>5, <2>6, <2>7 DEF DialInv
<1>4. CASE Go("setup", "failed", {}, Circuit \cup {Raw} \cup Own("init", {"send", "recv"}))
  <2>1. /\ dial' = "failed"
        /\ live' = live \ (Circuit \cup {Raw} \cup Own("init", {"send", "recv"}))
    BY <1>4 DEF Go
  <2>2. \A n : <<"resp", n>> \notin Circuit \cup {Raw} \cup Own("init", {"send", "recv"})
    <3>1. \A n : <<"resp", n>> \notin Own("init", {"send", "recv"})
      BY InOwn
    <3> QED  BY <3>1, ReleasedIsOwn
  <2>3. \A n \in SideNames : <<"init", n>> \notin live'
    <3>1. \A n \in {"send", "recv"} : <<"init", n>> \in Own("init", {"send", "recv"})
      BY DEF Own
    <3> QED  BY <1>2, <2>1, <3>1
  <2>4. DialInv'
    BY <1>1, <2>1, <2>2, <2>3, DialFailsConnected DEF Connecting
  <2> QED  BY <2>1, <2>4 DEF Up
<1> QED  BY <1>3, <1>4 DEF SendSetup, Attempt

\* Every other step of Dial, and of the two sides of its handshake.
LEMMA DialStepKeeps ==
    ASSUME DialInv, ~Up, DialStep \/ AcceptStep, ~SendSetup
    PROVE  DialInv' /\ ~Up'
<1>1. CASE BuildSetup
  <2>1. DialInv'
    BY <1>1, PrepareKeeps, HopEphemeralKeeps, HopAgreeKeeps, HopSetupKeyKeeps, HopCellKeyKeeps,
       HopOffsetsKeeps, SealSetupKeeps DEF BuildSetup
  <2>2. ~Up'
    BY <1>1 DEF BuildSetup, Prepare, HopEphemeral, HopAgree, HopSetupKey, HopCellKey, HopOffsets,
                SealSetup, Attempt, Go, Up
  <2> QED  BY <2>1, <2>2
<1>2. CASE Connect
  <2>1. DialInv'
    BY <1>2, NewCircuitKeeps, DialEntryKeeps, LinkDoneKeeps DEF Connect
  <2>2. ~Up'
    BY <1>2 DEF Connect, NewCircuit, DialEntry, LinkDone, Attempt, Go, Up
  <2> QED  BY <2>1, <2>2
<1>3. CASE UNCHANGED <<dial, hop>> /\ (Dial \/ NewConn("init"))
  BY <1>3, DialKeeps, NewConnKeeps DEF Sides, Up
<1>4. CASE AcceptStep
  BY <1>4, AcceptKeeps, NewConnKeeps DEF AcceptStep, Sides, Up
<1> QED  BY <1>1, <1>2, <1>3, <1>4 DEF DialStep

LEMMA DiallingKeeps ==
    ASSUME ClientInv, Dialling
    PROVE  ClientInv'
<1> USE DEF ClientInv, RunInv
<1>1. /\ UNCHANGED <<at, sent, num, sendMu, wmu, out, in, answered, want, cell, forged, werr,
                     shut, refused, closed, code, why>>
      /\ ~Up /\ (DialStep \/ AcceptStep)
  BY DEF Dialling, running, linkVars, pathVars, replyVars, senderVars, endVars, closeVars
<1>2. /\ DialInv'
      /\ Up' => /\ live' \subseteq Own("resp", SideNames) \cup Own("init", {"send", "recv"})
                                    \cup Circuit \cup {Raw}
                /\ Layers \subseteq live'
                /\ SendCipherOf \in live'
  BY <1>1, SendSetupKeeps, DialStepKeeps
<1>3. /\ \A t \in Callers : at[t] = "next"
      /\ at["receiver"] = "read" /\ at["closer"] = "idle"
  BY <1>1 DEF Waiting
<1>4. RunType' /\ Waiting' /\ Locked' /\ CellsInTurn' /\ Reported' /\ Honest'
  BY <1>1, <1>3 DEF RunType, Waiting, Locked, CellsInTurn, Reported, Honest
<1>5. Counted'
  BY <1>1 DEF Counted, InHand
<1>6. ShutFirst'
  BY <1>1, <1>2, <1>3 DEF ShutFirst, Closers
<1>7. Released'
  BY <1>1, <1>2, <1>3 DEF Released
<1> QED  BY <1>2, <1>4, <1>5, <1>6, <1>7

-------------------------------------------------------------------------------
(* The invariant. *)

LEMMA InitHolds == Init => ClientInv
<1> SUFFICES ASSUME Init PROVE ClientInv
  OBVIOUS
<1>1. /\ dial = "start" /\ hop = 1 /\ live = {} /\ hello = NoHello /\ confirm = NoFrame
      /\ pc = [s \in Sides |-> IF s = "init" THEN "idle" ELSE "hello"]
  BY DEF Init, DialInit, HandshakeInit
<1>2. pc["init"] = "idle" /\ pc["resp"] = "hello" /\ ~Up
  BY <1>1 DEF Sides, Up
<1>3. DialType /\ InTurn
  BY <1>1, <1>2, HopsAssumption DEF DialType, InTurn, Building, Connecting, Steps, Sides
<1>4. SidesExact
  BY <1>1, <1>2, HoldsAt DEF SidesExact, Sides
<1>5. ClientExact
  BY <1>1, HopsAssumption DEF ClientExact, HopExact, Connecting
<1>6. Agreement
  BY <1>1, <1>2 DEF Agreement, NoHello, NoFrame
<1>7. RunType
  <2>1. at \in [Threads -> Places]
    BY DEF Init, Threads, Callers, Places
  <2>2. out \in Outgoing /\ in \in Incoming
    BY DEF Init, Outgoing, Incoming
  <2>3. num \in [Callers -> Nat] /\ sent \in Nat /\ answered \in Nat /\ want \in Nat
    BY DEF Init
  <2> QED  BY <2>1, <2>2, <2>3 DEF Init, RunType, Threads, Callers
<1>8. (\A t \in Callers : at[t] = "next") /\ at["receiver"] = "read" /\ at["closer"] = "idle"
  BY DEF Init, Threads, Callers
<1>9. Waiting /\ Reported
  BY <1>8 DEF Init, Waiting, Reported, None
<1>10. Locked
  BY <1>8 DEF Init, Locked, None, Callers
<1>11. Counted /\ CellsInTurn
  BY <1>8 DEF Init, Counted, InHand, CellsInTurn
<1>12. ShutFirst /\ Released
  BY <1>2, <1>8 DEF Init, ShutFirst, Released, Closers, None
<1>13. Honest
  BY <1>8 DEF Init, Honest
<1> QED  BY <1>3, <1>4, <1>5, <1>6, <1>7, <1>9, <1>10, <1>11, <1>12, <1>13
         DEF ClientInv, DialInv, RunInv

LEMMA NextHolds == ClientInv /\ [Next]_vars => ClientInv'
<1> SUFFICES ASSUME ClientInv, [Next]_vars PROVE ClientInv'
  OBVIOUS
<1>1. CASE Dialling
  BY <1>1, DiallingKeeps
<1>2. ASSUME NEW t \in Callers, CallerStep(t) \/ WriteDone(t)
      PROVE  ClientInv'
  BY <1>2, EnterSendKeeps, DelayKeeps, TakeCounterKeeps, SealKeeps, FrameKeeps,
     WriteFailsKeeps, WriteDoneKeeps DEF CallerStep
<1>3. CASE TickerStops \/ Exchange
  BY <1>3, TickerStopsKeeps, EnqueueKeeps, AwaitReplyKeeps, RepliesClosedKeeps, ReportKeeps
     DEF Exchange
<1>4. CASE Receive
  BY <1>4, ReadKeeps, ReadCellKeeps, ReadFailsKeeps, OpenReplyKeeps DEF Receive
<1>5. ASSUME NEW t \in Closers, CloseLink(t)
      PROVE  ClientInv'
  BY <1>5, CloseRawKeeps, DiscardSendKeeps, DiscardRecvKeeps DEF CloseLink
<1>6. CASE StartClose \/ Finish
  BY <1>6, StartCloseKeeps, StopCoverKeeps, ReleaseKeysKeeps DEF Finish
<1>7. CASE Echo \/ Forge \/ Cut
  BY <1>7, EchoKeeps, ForgeKeeps, CutKeeps
<1>8. CASE UNCHANGED vars
  <2>1. UNCHANGED <<at, sent, num, sendMu, wmu, want, cell, werr, refused, closed, code, why,
                    dialling, out, in, answered, forged, shut>>
    BY <1>8 DEF vars, running, linkVars, pathVars, replyVars, senderVars, endVars, closeVars
  <2>2. CellsInTurn' /\ Honest'
    BY <2>1 DEF ClientInv, RunInv, CellsInTurn, Honest
  <2>3. answered' \in Nat /\ out' \in Outgoing /\ in' \in Incoming /\ forged' \in BOOLEAN
    BY <2>1 DEF ClientInv, RunInv, RunType
  <2> QED  BY <2>1, <2>2, <2>3, OutsideKeeps
<1> QED  BY <1>1, <1>2, <1>3, <1>4, <1>5, <1>6, <1>7, <1>8 DEF Next

\* The invariant holds in every state a client reaches.
LEMMA ClientInvariant == Spec => []ClientInv
BY InitHolds, NextHolds, PTL DEF Spec

-------------------------------------------------------------------------------
(* The properties. *)

\* Client.Close and a refusal release keys while sends and the receiver are under
\* way, and never those that are being used, for every number of hops.
THEOREM ClientKeysOutliveUsers == Spec => []KeysOutliveUsers
<1>1. ClientInv => KeysOutliveUsers
  BY DEF ClientInv, RunInv, Released, KeysOutliveUsers, Sending
<1> QED  BY <1>1, ClientInvariant, PTL

\* Client.send: the cells leave with the counters in turn, however the callers'
\* delays fall and whatever the load is.
THEOREM ClientCellsInTurn == Spec => []CellsInTurn
<1>1. ClientInv => CellsInTurn
  BY DEF ClientInv, RunInv
<1> QED  BY <1>1, ClientInvariant, PTL

\* Client.open: a circuit that keeps to the protocol is never refused, since a
\* cell is counted before it leaves.
THEOREM ClientHonestNotRefused == Spec => []HonestNotRefused
<1>1. ClientInv => HonestNotRefused
  BY DEF ClientInv, RunInv, Honest, HonestNotRefused
<1> QED  BY <1>1, ClientInvariant, PTL

\* exchange and ending: a close over a refusal is never reported as a failure of
\* any other kind.
THEOREM ClientRefusalNamed == Spec => []RefusalNamed
<1>1. ClientInv => RefusalNamed
  BY DEF ClientInv, RunInv, Reported, RefusalNamed
<1> QED  BY <1>1, ClientInvariant, PTL

\* link.Dial returns only once a responder has shown that it derived the keys the
\* client uses.
THEOREM ClientConfirmedFirst == Spec => []ConfirmedFirst
<1>1. ClientInv => ConfirmedFirst
  BY DEF ClientInv, DialInv, InTurn, Agreement, ConfirmedFirst
<1> QED  BY <1>1, ClientInvariant, PTL

\* Whose a resource is, from its name.
LEMMA Owner ==
    ASSUME NEW x \in Resources
    PROVE  /\ x[1] = "resp" => \E n \in SideNames : x = <<"resp", n>>
           /\ x[1] = "init" => \E n \in SideNames : x = <<"init", n>>
           /\ x[1] # "resp" => \/ \E n \in SideNames : x = <<"init", n>>
                               \/ \E n \in HopNames, i \in 1 .. Hops : x = Of(n, i)
                               \/ x = Raw
<1>1. CASE x \in Own("init", SideNames)
  <2>1. PICK n \in SideNames : x = <<"init", n>>
    BY <1>1 DEF Own
  <2> QED  BY <2>1
<1>2. CASE x \in Own("resp", SideNames)
  <2>1. PICK n \in SideNames : x = <<"resp", n>>
    BY <1>2 DEF Own
  <2> QED  BY <2>1
<1>3. CASE x \in All(HopNames)
  <2>1. PICK n \in HopNames, i \in 1 .. Hops : x = Of(n, i)
    BY <1>3 DEF All
  <2>2. x[1] = "client"
    BY <2>1 DEF Of
  <2> QED  BY <2>1, <2>2
<1>4. CASE x = Raw
  <2>1. x[1] = "client"
    BY <1>4 DEF Raw
  <2> QED  BY <1>4, <2>1
<1> QED  BY <1>1, <1>2, <1>3, <1>4 DEF Resources

LEMMA NothingOfMine ==
    ASSUME DialInv, \A n \in SideNames : <<"init", n>> \notin live,
           \A n \in HopNames, i \in 1 .. Hops : Of(n, i) \notin live, Raw \notin live
    PROVE  Mine = {}
<1>1. ASSUME NEW x \in live, x[1] # "resp" PROVE FALSE
  <2>1. x \in Resources
    BY DEF DialInv, DialType
  <2> QED  BY <1>1, <2>1, Owner
<1> QED  BY <1>1 DEF Mine

\* A side that has failed holds nothing, and one that is open its two ciphers.
LEMMA SideIsClean ==
    ASSUME DialInv, NEW s \in Sides,
           \A n \in SideNames : <<s, n>> \in live <=> n \in Holds(s, pc[s])
    PROVE  SideClean(s)
<1>1. ASSUME NEW x \in live, x[1] = s
      PROVE  \E n \in Holds(s, pc[s]) : x = <<s, n>>
  <2>1. x \in Resources
    BY DEF DialInv, DialType
  <2>2. PICK n \in SideNames : x = <<s, n>>
    BY <1>1, <2>1, Owner DEF Sides
  <2> QED  BY <2>2
<1>2. pc[s] = "failed" => {x \in live : x[1] = s} = {}
  BY <1>1, HoldsAt
<1>3. ASSUME pc[s] = "open"
      PROVE  {x \in live : x[1] = s} = Own(s, {"send", "recv"})
  <2>1. Holds(s, pc[s]) = {"send", "recv"} /\ {"send", "recv"} \subseteq SideNames
    BY <1>3, HoldsAt DEF SideNames
  <2>2. ASSUME NEW x \in live, x[1] = s PROVE x \in Own(s, {"send", "recv"})
    BY <1>1, <2>1, <2>2 DEF Own
  <2>3. ASSUME NEW x \in Own(s, {"send", "recv"}) PROVE x \in live /\ x[1] = s
    <3>1. PICK n \in {"send", "recv"} : x = <<s, n>>
      BY DEF Own
    <3> QED  BY <2>1, <3>1
  <2> QED  BY <2>2, <2>3
<1> QED  BY <1>2, <1>3 DEF SideClean

\* client.Dial, link.Dial, link.Accept and Client.Close: whichever step fails, and
\* whatever is under way when Close is called, nothing is left.
THEOREM ClientNothingHeld == Spec => []NothingHeld
<1>1. ClientInv => NothingHeld
  <2> SUFFICES ASSUME ClientInv PROVE NothingHeld
    OBVIOUS
  <2> USE DEF ClientInv, RunInv
  <2>1. dial = "failed" => Mine = {}
    <3>1. SUFFICES ASSUME dial = "failed" PROVE Mine = {}
      OBVIOUS
    <3>2. \A n \in SideNames : <<"init", n>> \notin live
      BY <3>1 DEF DialInv, SidesExact
    <3>3. \A i \in 1 .. Hops : HopExact(i) /\ Raw \notin live
      BY <3>1 DEF DialInv, ClientExact, Up, Connecting
    <3>4. Raw \notin live
      BY <3>1 DEF DialInv, ClientExact, Up, Connecting
    <3>5. \A n \in HopNames, i \in 1 .. Hops : Of(n, i) \notin live
      BY <3>1, <3>3 DEF HopExact, HopNames, Connecting
    <3> QED  BY <3>2, <3>4, <3>5, NothingOfMine
  <2>2. SideClean("resp")
    BY SideIsClean DEF DialInv, SidesExact, Sides
  <2>3. dial = "setup" => SideClean("init")
    BY SideIsClean DEF DialInv, SidesExact, Sides, Connecting
  <2>4. ASSUME at["closer"] = "done"
        PROVE  Mine = {} /\ at["receiver"] = "over" /\ \A t \in Callers : at[t] \notin Sending
    <3>1. Up
      BY <2>4 DEF Waiting
    <3>2. /\ \A x \in live : x \in Own("resp", SideNames) \cup Own("init", {"send", "recv"})
                                     \cup Circuit \cup {Raw}
          /\ Raw \notin live /\ SendCipherOf \notin live /\ RecvCipherOf \notin live
          /\ \A x \in Circuit : x \notin live
      BY <2>4, <3>1 DEF Released
    <3>3. ASSUME NEW x \in live PROVE x[1] = "resp"
      <4>1. x \notin Own("init", {"send", "recv"})
        BY <3>2 DEF Own, SendCipherOf, RecvCipherOf
      <4>2. x \in Own("resp", SideNames)
        BY <3>2, <4>1
      <4>3. PICK n \in SideNames : x = <<"resp", n>>
        BY <4>2 DEF Own
      <4> QED  BY <4>3
    <3>4. Mine = {}
      BY <3>3 DEF Mine
    <3> QED  BY <2>4, <3>4 DEF Released
  <2> QED  BY <2>1, <2>2, <2>3, <2>4 DEF NothingHeld
<1> QED  BY <1>1, ClientInvariant, PTL

===============================================================================

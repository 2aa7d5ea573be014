------------------------------ MODULE ClientDial ------------------------------
(***************************************************************************)
(* client.Dial: the setup cell and its keys (wire.BuildSetup), the layers  *)
(* of the circuit (wire.NewCircuit), the connection to the entry, the      *)
(* handshake on it (LinkHandshake) and the setup cell as the first cell.   *)
(* Every step may fail, and each failure has its own list of what has to   *)
(* be released.                                                            *)
(***************************************************************************)
EXTENDS LinkHandshake

CONSTANT Hops   \* nodes in the chain

ASSUME HopsAssumption == Hops \in Nat \ {0}

VARIABLES
    dial,   \* the next step of Dial, then "up" or "failed"
    hop     \* the hop BuildSetup or NewCircuit is at

\* A resource of the client that belongs to one hop, and those of every hop.
Of(name, i) == <<"client", name, i>>
All(names) == {Of(x, i) : x \in names, i \in 1 .. Hops}
Raw == <<"client", "raw">>

DialInit ==
    /\ HandshakeInit
    /\ dial = "start" /\ hop = 1

\* A step of Dial itself: on to `next`, or back to the caller.
Go(at, next, take, release) ==
    /\ dial = at
    /\ dial' = next
    /\ live' = (live \ release) \cup take

Attempt(at, next, take, release, lose) ==
    Go(at, next, take, release) \/ Go(at, "failed", {}, lose)

-------------------------------------------------------------------------------
(* BuildSetup. *)

\* The identifiers of the links, and sizesOf, which keeps nothing of its probe.
Prepare ==
    /\ Attempt("start", "eph", {}, {}, {})
    /\ UNCHANGED <<hop, answerer, pc, messages>>

\* What release() releases until the setup is built.
Unbuilt == All({"setup", "cell"})

HopEphemeral ==
    /\ Attempt("eph", "agree", {Of("eph", hop)}, {}, Unbuilt)
    /\ UNCHANGED <<hop, answerer, pc, messages>>

\* setupContext and Agree: the ephemeral key is released whatever they return.
HopAgree ==
    /\ Attempt("agree", "setupKey", {Of("secret", hop)}, {Of("eph", hop)},
               Unbuilt \cup {Of("eph", hop)})
    /\ UNCHANGED <<hop, answerer, pc, messages>>

HopSetupKey ==
    /\ Attempt("setupKey", "cellKey", {Of("setup", hop)}, {},
               Unbuilt \cup {Of("secret", hop)})
    /\ UNCHANGED <<hop, answerer, pc, messages>>

HopCellKey ==
    /\ Attempt("cellKey", "offsets", {Of("cell", hop)}, {},
               Unbuilt \cup {Of("secret", hop)})
    /\ UNCHANGED <<hop, answerer, pc, messages>>

\* The secret is released whatever deriveOffsets returns; then the next hop.
HopOffsets ==
    /\ Attempt("offsets", IF hop < Hops THEN "eph" ELSE "seal", {}, {Of("secret", hop)},
               Unbuilt \cup {Of("secret", hop)})
    /\ hop' = IF hop < Hops THEN hop + 1 ELSE 1
    /\ UNCHANGED <<answerer, pc, messages>>

\* The layers of the setup cell, from the exit inwards; a cipher lives for one
\* layer.  The cell keys stay once the setup is built.
SealSetup ==
    /\ Attempt("seal", "layers", {}, All({"setup"}), Unbuilt)
    /\ UNCHANGED <<hop, answerer, pc, messages>>

BuildSetup ==
    \/ Prepare \/ HopEphemeral \/ HopAgree \/ HopSetupKey \/ HopCellKey
    \/ HopOffsets \/ SealSetup

-------------------------------------------------------------------------------
(* The circuit and the entry. *)

\* circuit.Close() and release(), for the layers there are.
Circuit == All({"layer", "cell"})

NewCircuit ==
    /\ Attempt("layers", IF hop < Hops THEN "layers" ELSE "entry", {Of("layer", hop)}, {},
               Circuit)
    /\ hop' = IF hop < Hops THEN hop + 1 ELSE 1
    /\ UNCHANGED <<answerer, pc, messages>>

\* dialEntry, within its timeout; then the handshake has a deadline.
DialEntry ==
    /\ \/ /\ Go("entry", "link", {Raw}, {})
          /\ pc' = [pc EXCEPT !["init"] = "eph"]
       \/ Go("entry", "failed", {}, Circuit) /\ UNCHANGED pc
    /\ UNCHANGED <<hop, answerer, messages>>

\* link.Dial returned.
LinkDone ==
    /\ \/ pc["init"] = "open" /\ Go("link", "setup", {}, {})
       \/ pc["init"] = "failed" /\ Go("link", "failed", {}, Circuit \cup {Raw})
    /\ UNCHANGED <<hop, answerer, pc, messages>>

\* The setup cell leaves and the deadline is lifted, or the link is closed.
SendSetup ==
    /\ Attempt("setup", "up", {}, {}, Circuit \cup {Raw} \cup Own("init", {"send", "recv"}))
    /\ UNCHANGED <<hop, answerer, pc, messages>>

Connect == NewCircuit \/ DialEntry \/ LinkDone \/ SendSetup

\* What Dial does by itself and what the link does for it; every wait in it has
\* a deadline.
DialStep ==
    \/ BuildSetup \/ Connect
    \/ UNCHANGED <<dial, hop>> /\ (Dial \/ NewConn("init"))

\* The responder at the other end, the entry or not.
AcceptStep == UNCHANGED <<dial, hop>> /\ (Accept \/ NewConn("resp"))

-------------------------------------------------------------------------------
\* What the client holds.
Mine == {x \in live : x[1] # "resp"}

===============================================================================

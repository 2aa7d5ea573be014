---------------------------- MODULE LinkHandshake -----------------------------
(***************************************************************************)
(* The handshake of a link (link/link.go): Dial by the initiator, Accept   *)
(* by the responder, and what both do in chainKey and newConn.             *)
(*                                                                         *)
(* Every key, secret and cipher is locked memory that somebody has to      *)
(* release (crypto/secmem): `live` is what has not been.  Making one may   *)
(* fail, since locked memory is limited, and so may every read and write.  *)
(*                                                                         *)
(* A frame key is told by what goes into it: the transcript and the static *)
(* agreement, which only the holder of the link key can compute.  The      *)
(* network may alter the hello, the answer and the confirmation.           *)
(***************************************************************************)
EXTENDS Naturals, Sequences, FiniteSets

Sides == {"init", "resp"}

\* What answers at the entry's address: the entry; one whose operator set no
\* link key; somebody without the link key; an entry that does not confirm.
Answerers == {"entry", "keyless", "impostor", "unconfirming"}

VARIABLES
    answerer,   \* one of Answerers, for good
    pc,         \* pc[s]: the next step of side s
    live,       \* the resources held, as tuples that begin with their owner
    hello,      \* the initiator's mode and ephemeral key as they arrive
    answer,     \* the responder's ephemeral key as it arrives
    confirm     \* the first frame of the responder, and its keys

messages == <<hello, answer, confirm>>
handshakeVars == <<answerer, pc, live, messages>>

None == "none"
NoHello == [mode |-> None, eph |-> None]
NoKeys == [mode |-> None, init |-> None, resp |-> None, static |-> None]
NoFrame == [keys |-> NoKeys, padding |-> FALSE]

Own(s, names) == {<<s, x>> : x \in names}

\* Side s goes on from `at` to `next`, takes and releases.
Pass(s, at, next, take, release) ==
    /\ pc[s] = at
    /\ pc' = [pc EXCEPT ![s] = next]
    /\ live' = (live \ Own(s, release)) \cup Own(s, take)

\* It is left to its caller with everything in `lose` released.
Fail(s, at, lose) == Pass(s, at, "failed", {}, lose)

Try(s, at, next, take, release, lose) ==
    Pass(s, at, next, take, release) \/ Fail(s, at, lose)

\* What the deferred calls of Dial and Accept release, before and after
\* chainKey.
Early == {"eph"}
Late == {"eph", "secret"}

HandshakeInit ==
    /\ answerer \in Answerers
    /\ pc = [s \in Sides |-> IF s = "init" THEN "idle" ELSE "hello"]
    /\ live = {}
    /\ hello = NoHello /\ answer = None /\ confirm = NoFrame

-------------------------------------------------------------------------------
(* chainKey and newConn, for either side.                                  *)

\* The mode as side s knows it: the client has the entry's key, so it asks for
\* the authenticated one.
Mode(s) == IF s = "init" THEN "authenticated" ELSE hello.mode

\* handshakeContext, and the agreement with the responder's link key.
StaticSecret(s) ==
    /\ Mode(s) = "authenticated"
    /\ Try(s, "static", "ephemeral", {"es"}, {}, Early)
    /\ UNCHANGED <<answerer, messages>>

\* On an anonymous link the ephemeral agreement is all there is.
AnonymousSecret(s) ==
    /\ Mode(s) = "anonymous"
    /\ Try(s, "static", "sendKey", {"secret"}, {}, Early)
    /\ UNCHANGED <<answerer, messages>>

EphemeralSecret(s) ==
    /\ Try(s, "ephemeral", "mix", {"ee"}, {}, Early \cup {"es"})
    /\ UNCHANGED <<answerer, messages>>

\* MixKey; chainKey's deferred calls release what went in.
MixSecret(s) ==
    /\ Try(s, "mix", "sendKey", {"secret"}, {"es", "ee"}, Early \cup {"es", "ee"})
    /\ UNCHANGED <<answerer, messages>>

\* The frame keys side s derives.  The responder takes its half of the static
\* agreement from the link key, which an impostor does not have.
FrameKeys(s) ==
    IF s = "init"
    THEN [mode |-> Mode(s), init |-> "ei", resp |-> answer, static |-> "es"]
    ELSE [mode |-> Mode(s), init |-> hello.eph, resp |-> "er",
          static |-> CASE Mode(s) = "anonymous" -> None
                       [] answerer = "impostor" -> "guess"
                       [] OTHER                 -> "es"]

SendKey(s) ==
    /\ Try(s, "sendKey", "recvKey", {"sendKey"}, {}, Late)
    /\ UNCHANGED <<answerer, messages>>

RecvKey(s) ==
    /\ Try(s, "recvKey", "sendCipher", {"recvKey"}, {}, Late \cup {"sendKey"})
    /\ UNCHANGED <<answerer, messages>>

SendCipher(s) ==
    /\ Try(s, "sendCipher", "recvCipher", {"send"}, {}, Late \cup {"sendKey", "recvKey"})
    /\ UNCHANGED <<answerer, messages>>

\* Mutant: the cipher already made is forgotten when the second cannot be.
RecvCipherOnly(s) ==
    /\ Try(s, "recvCipher", "confirm", {"recv"}, {"sendKey", "recvKey"},
           Late \cup {"sendKey", "recvKey"})
    /\ UNCHANGED <<answerer, messages>>

\* The last step of newConn, whose deferred calls release both keys.
RecvCipher(s) ==
    /\ Try(s, "recvCipher", "confirm", {"recv"}, {"sendKey", "recvKey"},
           Late \cup {"sendKey", "recvKey", "send"})
    /\ UNCHANGED <<answerer, messages>>

NewConn(s) ==
    \/ StaticSecret(s) \/ AnonymousSecret(s) \/ EphemeralSecret(s) \/ MixSecret(s)
    \/ SendKey(s) \/ RecvKey(s) \/ SendCipher(s) \/ RecvCipher(s)

-------------------------------------------------------------------------------
(* Dial. *)

DialEphemeral ==
    /\ Try("init", "eph", "hello", Early, {}, {})
    /\ UNCHANGED <<answerer, messages>>

\* What reaches the responder is the hello, or what the network made of it.
DialHello ==
    /\ \/ /\ Pass("init", "hello", "answer", {}, {})
          /\ hello' \in [mode : {Mode("init")}, eph : {"ei", "other"}]
                        \cup [mode : {"anonymous", "unknown"}, eph : {"ei"}]
       \/ Fail("init", "hello", Early) /\ UNCHANGED hello
    /\ UNCHANGED <<answerer, answer, confirm>>

\* A missing answer ends with the deadline Dial's caller set.
DialAnswer ==
    /\ \/ answer # None /\ Pass("init", "answer", "static", {}, {})
       \/ Fail("init", "answer", Early)
    /\ UNCHANGED <<answerer, messages>>

\* Mutant: the caller does not wait for the confirmation.
Unconfirmed(frame) == TRUE

\* A frame opens under the keys it was sealed under, and the first is padding.
Confirms(frame) == frame.padding /\ frame.keys = FrameKeys("init")

\* readFrame and IsPadding; without them discard destroys the ciphers.
DialConfirm ==
    /\ \/ Confirms(confirm) /\ Pass("init", "confirm", "open", {}, Late)
       \/ Fail("init", "confirm", Late \cup {"send", "recv"})
    /\ UNCHANGED <<answerer, messages>>

Dial == DialEphemeral \/ DialHello \/ DialAnswer \/ DialConfirm

-------------------------------------------------------------------------------
(* Accept. *)

\* Whether the mode is one this responder takes.
Takes(mode) ==
    \/ mode = "anonymous"
    \/ mode = "authenticated" /\ answerer # "keyless"

\* A hello that does not come, or is not taken, ends with nothing held.
AcceptHello ==
    /\ \/ Takes(hello.mode) /\ Pass("resp", "hello", "eph", {}, {})
       \/ Fail("resp", "hello", {})
    /\ UNCHANGED <<answerer, messages>>

AcceptEphemeral ==
    /\ Try("resp", "eph", "answer", Early, {}, {})
    /\ UNCHANGED <<answerer, messages>>

AcceptAnswer ==
    /\ \/ Pass("resp", "answer", "static", {}, {}) /\ answer' \in {"er", "other"}
       \/ Fail("resp", "answer", Early) /\ UNCHANGED answer
    /\ UNCHANGED <<answerer, hello, confirm>>

\* The confirmation, in both modes; a failed write discards the ciphers.
AcceptConfirm ==
    /\ \/ /\ Pass("resp", "confirm", "open", {}, Late)
          /\ confirm' = [keys |-> FrameKeys("resp"), padding |-> answerer # "unconfirming"]
       \/ Fail("resp", "confirm", Late \cup {"send", "recv"}) /\ UNCHANGED confirm
    /\ UNCHANGED <<answerer, hello, answer>>

Accept == AcceptHello \/ AcceptEphemeral \/ AcceptAnswer \/ AcceptConfirm

-------------------------------------------------------------------------------
\* What a side holds once its part is over: nothing, or the two ciphers.
SideClean(s) ==
    /\ pc[s] = "failed" => {x \in live : x[1] = s} = {}
    /\ pc[s] = "open" => {x \in live : x[1] = s} = Own(s, {"send", "recv"})

===============================================================================

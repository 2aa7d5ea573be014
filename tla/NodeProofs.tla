----------------------------- MODULE NodeProofs -----------------------------
(***************************************************************************)
(* For any number of inbound links and identifiers, paced or not, and for  *)
(* every interleaving of handlers, backward goroutines, pacers, timers,    *)
(* peers and Close: the maps of the relay agree, no destroyed key is used, *)
(* and nothing outlives its handler or Close.                              *)
(*                                                                         *)
(* The three properties are not inductive one by one: that a key is not    *)
(* destroyed under the backward goroutine rests on where the handler is    *)
(* while that goroutine runs, which rests on the entry the handler owns,   *)
(* which rests on the two maps agreeing.  HandlerInv says this for one     *)
(* handler; a step of one changes nothing about another (SameAt) but the   *)
(* maps, which only Register, Undo and Teardown touch (RecordsKept).       *)
(***************************************************************************)
EXTENDS RelayNode, TLAPS

\* where a handler is setting a circuit up, carries its cells, may or may not
\* have one, and releases it
Setting == {"dial", "hold", "shake", "undo"}
Carrying == {"watch", "use", "write"}
Either == {"read", "ending", "discard", "teardown"}
Releasing == {"unwatch", "closeNext", "discardNext", "awaitFwd", "awaitBack", "dropNext",
              "awaitBwd", "destroy"}
Over == {"leave", "done"}

\* the link has a circuit that is set up and not yet being released
Carries(h) == pc[h] \in Carrying \/ (pc[h] \in Either /\ owners[h] # NoOne)

\* the entries of a link, and the keys that go with them
Entry(h) ==
  /\ owners[h] # NoOne => pc[h] \in Setting \cup Carrying \cup Either
  /\ pc[h] \in Setting \cup Carrying => owners[h] # NoOne
  /\ owners[h] # NoOne => id[h] = owners[h] /\ key[h] = "live"
  /\ pc[h] \in {"register"} \cup Releasing => key[h] = "live"
  /\ pc[h] \in {"start"} \cup Over => key[h] # "live"
  /\ pc[h] \in Either /\ owners[h] = NoOne => key[h] # "live"
  /\ pc[h] = "register" => id[h] \in Ids
  /\ pc[h] = "use" => using[h] = h

\* the goroutines of a circuit run only while the handler has it, or waits for them
Helpers(h) ==
  /\ back[h] \notin {"none", "closeIn", "done"} =>
       /\ h \notin exits
       /\ Carries(h) \/ pc[h] \in {"unwatch", "closeNext", "discardNext", "awaitFwd", "awaitBack"}
  /\ pacer[h]["fwd"] \notin {"none", "done"} =>
       /\ h \notin exits
       /\ Carries(h) \/ pc[h] \in {"unwatch", "closeNext", "discardNext", "awaitFwd"}
  /\ pacer[h]["bwd"] \notin {"none", "done"} => Carries(h) \/ pc[h] \in Releasing \ {"destroy"}

\* the sockets of a link, and which of them Close is told of
Links(h) ==
  /\ pc[h] = "start" => rawIn[h] = "none"
  /\ pc[h] \in {"discard", "teardown"} \cup Releasing \cup Over => rawIn[h] = "closed"
  /\ pc[h] \in {"start", "done"} => <<"in", h>> \notin conns
  /\ \/ h \in exits
     \/ pc[h] \in {"start", "register", "dial"}
     \/ pc[h] = "read" /\ owners[h] = NoOne
     => rawOut[h] = "none"
  /\ \/ pc[h] \in ({"undo"} \cup Releasing \cup Over) \ {"unwatch", "closeNext"}
     \/ pc[h] \in Either /\ owners[h] = NoOne
     => rawOut[h] \in {"none", "closed"}
  /\ <<"out", h>> \in conns =>
       /\ h \notin exits
       /\ Carries(h) \/ pc[h] \in ({"shake"} \cup Releasing) \ {"awaitBwd", "destroy"}
  /\ pc[h] \in Setting \cup {"closeNext"} => h \notin exits

HandlerInv(h) == Entry(h) /\ Helpers(h) /\ Links(h)

\* the two maps agree
Records ==
  /\ \A i \in Ids : circuits[i] # NoOne => owners[circuits[i]] = i
  /\ \A h \in Handlers : owners[h] # NoOne => circuits[owners[h]] = h

\* a relay that is closing takes no link, and Close returns once all are gone
Closing ==
  /\ closer # "no" => closed
  /\ closer = "returned" => \A h \in Handlers : pc[h] \in {"start", "done"}

NodeInv == TypeOK /\ Records /\ Closing /\ \A h \in Handlers : HandlerInv(h)

\* nothing about the other handlers changes
SameAt(g) ==
  /\ pc'[g] = pc[g] /\ id'[g] = id[g] /\ key'[g] = key[g] /\ using'[g] = using[g]
  /\ owners'[g] = owners[g] /\ rawIn'[g] = rawIn[g] /\ rawOut'[g] = rawOut[g]
  /\ back'[g] = back[g] /\ pacer'[g] = pacer[g]
  /\ g \in exits' <=> g \in exits
  /\ \A s \in {"in", "out"} : <<s, g>> \in conns' <=> <<s, g>> \in conns

\* a step of one handler, or of a goroutine of its circuit
Own(h) ==
  /\ \A g \in Handlers \ {h} : SameAt(g)
  /\ UNCHANGED <<closed, closer>>
  /\ pc'[h] = pc[h] \/ (pc[h] # "done" /\ (pc[h] = "start" => ~closed))

LEMMA SameKeeps ==
  ASSUME NEW g \in Handlers, HandlerInv(g), SameAt(g)
  PROVE  HandlerInv(g)'
<1> USE DEF HandlerInv, SameAt
<1>1. Carries(g)' <=> Carries(g)
  BY DEF Carries
<1>2. Entry(g)'
  BY DEF Entry
<1>3. Helpers(g)'
  BY <1>1 DEF Helpers
<1>4. Links(g)'
  BY <1>1 DEF Links
<1> QED  BY <1>2, <1>3, <1>4

\* A goroutine of the circuit, the timer or a peer moves while the handler stays:
\* no goroutine starts, and a socket is at most closed or left by its peer.
LEMMA HelperKeeps ==
  ASSUME NEW h \in Handlers, HandlerInv(h),
         UNCHANGED <<pc, id, exits, key, using, owners, conns>>,
         back'[h] \in {"none", "closeIn", "done"} \/ back[h] \notin {"none", "closeIn", "done"},
         \A d \in Dirs : pacer'[h][d] \in {"none", "done"} \/ pacer[h][d] \notin {"none", "done"},
         \/ rawIn'[h] \in {rawIn[h], Shut(rawIn[h])}
         \/ rawIn[h] = "open" /\ rawIn'[h] = "gone",
         \/ rawOut'[h] \in {rawOut[h], Shut(rawOut[h])}
         \/ rawOut[h] = "open" /\ rawOut'[h] = "gone"
  PROVE  HandlerInv(h)'
<1>1. Entry(h)' /\ (Carries(h)' <=> Carries(h))
  BY DEF HandlerInv, Entry, Carries
<1>2. Helpers(h)'
  BY <1>1 DEF HandlerInv, Helpers, Dirs
<1>3. Links(h)'
  BY <1>1 DEF HandlerInv, Links, Shut
<1> QED  BY <1>1, <1>2, <1>3 DEF HandlerInv

\* The handler reads and writes.
LEMMA Reading ==
  ASSUME NodeInv, NEW h \in Handlers,
         \/ Accept(h)
         \/ ReadFails(h)
         \/ ReadSetup(h)
         \/ RefuseSetup(h)
         \/ ReadData(h)
         \/ Use(h)
         \/ WriteDone(h)
         \/ WriteFails(h)
  PROVE  TypeOK' /\ HandlerInv(h)' /\ Own(h)
<1> USE DEF NodeInv, TypeOK, handlerVars, socketVars, helperVars, closeVars, Goto
<1> DEFINE Kept == TypeOK' /\ HandlerInv(h)' /\ Own(h)
<1>1. ASSUME Accept(h) PROVE Kept
  <2>1. TypeOK'
    BY <1>1 DEF Accept, Places, RawStates, Sockets, Dirs
  <2>2. Own(h)
    BY <1>1 DEF Accept, Own, SameAt, Dirs
  <2>3. Entry(h)'
    BY <1>1 DEF Accept, HandlerInv, Entry, Setting, Carrying, Either, Releasing, Over
  <2>4. Helpers(h)'
    BY <1>1 DEF Accept, HandlerInv, Entry, Helpers, Carries, Dirs, Setting, Carrying, Either,
       Releasing
  <2>5. Links(h)'
    BY <1>1 DEF Accept, HandlerInv, Entry, Links, Carries, Setting, Carrying, Either, Releasing,
       Over
  <2> QED  BY <2>1, <2>2, <2>3, <2>4, <2>5 DEF HandlerInv
<1>2. ASSUME ReadFails(h) PROVE Kept
  <2>1. TypeOK'
    BY <1>2 DEF ReadFails, Places, RawStates, Sockets, Dirs
  <2>2. Own(h)
    BY <1>2 DEF ReadFails, Own, SameAt, Dirs
  <2>3. Entry(h)'
    BY <1>2 DEF ReadFails, HandlerInv, Entry, Setting, Carrying, Either, Releasing, Over
  <2>4. Helpers(h)'
    BY <1>2 DEF ReadFails, HandlerInv, Entry, Helpers, Carries, Dirs, Setting, Carrying, Either,
       Releasing
  <2>5. Links(h)'
    BY <1>2 DEF ReadFails, HandlerInv, Entry, Links, Carries, Setting, Carrying, Either,
       Releasing, Over
  <2> QED  BY <2>1, <2>2, <2>3, <2>4, <2>5 DEF HandlerInv
<1>3. ASSUME ReadSetup(h) PROVE Kept
  <2>1. TypeOK'
    BY <1>3 DEF ReadSetup, Places
  <2>2. Own(h)
    BY <1>3 DEF ReadSetup, Own, SameAt
  <2>3. /\ pc[h] = "read" /\ pc'[h] = "register" /\ key'[h] = "live" /\ id'[h] \in Ids
        /\ owners[h] = NoOne /\ HandlerInv(h)
        /\ UNCHANGED <<owners, rawIn, rawOut, conns, back, pacer>>
    BY <1>3 DEF ReadSetup
  <2>4. Entry(h)'
    BY <2>3 DEF Entry, Setting, Carrying, Either, Releasing, Over
  <2>5. Helpers(h)'
    BY <2>3 DEF HandlerInv, Helpers, Carries, Carrying, Releasing
  <2>6. Links(h)'
    BY <2>3 DEF HandlerInv, Links, Carries, Setting, Carrying, Either, Releasing, Over
  <2> QED  BY <2>1, <2>2, <2>4, <2>5, <2>6 DEF HandlerInv
<1>4. ASSUME RefuseSetup(h) PROVE Kept
  <2>1. TypeOK'
    BY <1>4 DEF RefuseSetup, Places, RawStates, Sockets, Dirs
  <2>2. Own(h)
    BY <1>4 DEF RefuseSetup, Own, SameAt, Dirs
  <2>3. Entry(h)'
    BY <1>4 DEF RefuseSetup, HandlerInv, Entry, Setting, Carrying, Either, Releasing, Over
  <2>4. Helpers(h)'
    BY <1>4 DEF RefuseSetup, HandlerInv, Entry, Helpers, Carries, Dirs, Setting, Carrying,
       Either, Releasing
  <2>5. Links(h)'
    BY <1>4 DEF RefuseSetup, HandlerInv, Entry, Links, Carries, Setting, Carrying, Either,
       Releasing, Over
  <2> QED  BY <2>1, <2>2, <2>3, <2>4, <2>5 DEF HandlerInv
<1>5. ASSUME ReadData(h) PROVE Kept
  <2>1. TypeOK'
    BY <1>5 DEF ReadData, Places
  <2>2. Own(h)
    BY <1>5 DEF ReadData, Own, SameAt
  <2>3. /\ pc[h] = "read" /\ pc'[h] = "use" /\ using'[h] = h
        /\ UNCHANGED <<id, exits, key, owners, rawIn, rawOut, conns, back, pacer>>
    BY <1>5 DEF ReadData
  <2>4. owners[h] # NoOne
    <3>1. PICK i \in Ids : circuits[i] = h
      BY <1>5 DEF ReadData
    <3>2. owners[h] = i
      BY <3>1, NodeAssumption DEF Records
    <3> QED  BY <3>1, <3>2, NodeAssumption
  <2>5. HandlerInv(h)'
    BY <2>3, <2>4 DEF HandlerInv, Entry, Helpers, Links, Carries, Setting, Carrying, Either,
       Releasing, Over
  <2> QED  BY <2>1, <2>2, <2>5
<1>6. ASSUME Use(h) PROVE Kept
  <2>1. TypeOK'
    <3>1. /\ UNCHANGED <<id, exits, key, circuits, owners, rawIn, rawOut, conns, back, pacer>>
          /\ UNCHANGED <<stopped, timer, unwatched, closed, closer, toClose, hangups>>
      BY <1>6 DEF Use
    <3>2. /\ pc' \in [Handlers -> Places]
          /\ using' \in [Handlers -> Handlers \cup {NoOne}]
      BY <1>6 DEF Use, Places
    <3>3. broken' \in [Handlers -> Nat]
      BY <1>6 DEF Use, Count
    <3> QED  BY <3>1, <3>2, <3>3
  <2>2. Own(h)
    BY <1>6 DEF Use, Count, Own, SameAt, Dirs
  <2>3. Entry(h)'
    BY <1>6 DEF Use, Count, HandlerInv, Entry, Setting, Carrying, Either, Releasing, Over
  <2>4. Helpers(h)'
    BY <1>6 DEF Use, Count, HandlerInv, Entry, Helpers, Carries, Dirs, Setting, Carrying,
       Either, Releasing
  <2>5. Links(h)'
    BY <1>6 DEF Use, Count, HandlerInv, Entry, Links, Carries, Setting, Carrying, Either,
       Releasing, Over
  <2> QED  BY <2>1, <2>2, <2>3, <2>4, <2>5 DEF HandlerInv
<1>7. ASSUME WriteDone(h) PROVE Kept
  <2>1. TypeOK'
    BY <1>7 DEF WriteDone, Places, RawStates, Sockets, Dirs
  <2>2. Own(h)
    BY <1>7 DEF WriteDone, Own, SameAt, Dirs
  <2>3. Entry(h)'
    BY <1>7 DEF WriteDone, HandlerInv, Entry, Setting, Carrying, Either, Releasing, Over
  <2>4. Helpers(h)'
    BY <1>7 DEF WriteDone, HandlerInv, Entry, Helpers, Carries, Dirs, Setting, Carrying, Either,
       Releasing
  <2>5. Links(h)'
    BY <1>7 DEF WriteDone, HandlerInv, Entry, Links, Carries, Setting, Carrying, Either,
       Releasing, Over
  <2> QED  BY <2>1, <2>2, <2>3, <2>4, <2>5 DEF HandlerInv
<1>8. ASSUME WriteFails(h) PROVE Kept
  <2>1. TypeOK'
    BY <1>8 DEF WriteFails, Count, Places, RawStates, Sockets, Dirs
  <2>2. Own(h)
    BY <1>8 DEF WriteFails, Count, Own, SameAt, Dirs
  <2>3. Entry(h)'
    BY <1>8 DEF WriteFails, Count, HandlerInv, Entry, Setting, Carrying, Either, Releasing, Over
  <2>4. Helpers(h)'
    BY <1>8 DEF WriteFails, Count, HandlerInv, Entry, Helpers, Carries, Dirs, Setting, Carrying,
       Either, Releasing
  <2>5. Links(h)'
    BY <1>8 DEF WriteFails, Count, HandlerInv, Entry, Links, Carries, Setting, Carrying, Either,
       Releasing, Over
  <2> QED  BY <2>1, <2>2, <2>3, <2>4, <2>5 DEF HandlerInv
<1> QED  BY <1>1, <1>2, <1>3, <1>4, <1>5, <1>6, <1>7, <1>8

\* The handler sets a circuit up.
LEMMA SettingUp ==
  ASSUME NodeInv, NEW h \in Handlers,
         \/ Register(h)
         \/ DialDone(h)
         \/ DialFails(h)
         \/ Hold(h)
         \/ ShakeDone(h)
         \/ ShakeFails(h)
         \/ Undo(h)
         \/ Watch(h)
  PROVE  TypeOK' /\ HandlerInv(h)' /\ Own(h)
<1> USE DEF NodeInv, TypeOK, handlerVars, socketVars, helperVars, closeVars, Goto
<1> DEFINE Kept == TypeOK' /\ HandlerInv(h)' /\ Own(h)
<1>1. ASSUME Register(h) PROVE Kept
  <2>1. Own(h)
    BY <1>1 DEF Register, Own, SameAt
  <2>2. pc[h] = "register" /\ HandlerInv(h) /\ id[h] \in Ids /\ id[h] # NoOne
    BY <1>1, NodeAssumption DEF Register, HandlerInv, Entry
  <2>3. UNCHANGED <<id, exits, using, socketVars, helperVars, broken, closeVars, hangups>>
    BY <1>1 DEF Register
  <2>4. CASE /\ key' = [key EXCEPT ![h] = "gone"]
             /\ pc' = [pc EXCEPT ![h] = "ending"]
             /\ UNCHANGED <<circuits, owners>>
    <3>1. TypeOK'
      BY <2>3, <2>4 DEF Places
    <3>2. HandlerInv(h)'
      BY <2>2, <2>3, <2>4 DEF HandlerInv, Entry, Helpers, Links, Carries, Setting, Carrying,
         Either, Releasing, Over
    <3> QED  BY <2>1, <3>1, <3>2
  <2>5. CASE /\ circuits' = [circuits EXCEPT ![id[h]] = h]
             /\ owners' = [owners EXCEPT ![h] = id[h]]
             /\ pc' = [pc EXCEPT ![h] = IF h \in exits THEN "watch" ELSE "dial"]
             /\ UNCHANGED key
    <3>1. TypeOK'
      BY <2>2, <2>3, <2>5 DEF Places
    <3>2. HandlerInv(h)'
      BY <2>2, <2>3, <2>5 DEF HandlerInv, Entry, Helpers, Links, Carries, Setting, Carrying,
         Either, Releasing, Over
    <3> QED  BY <2>1, <3>1, <3>2
  <2> QED  BY <1>1, <2>4, <2>5 DEF Register
<1>2. ASSUME DialDone(h) PROVE Kept
  <2>1. TypeOK'
    BY <1>2 DEF DialDone, Places, RawStates, Sockets, Dirs
  <2>2. Own(h)
    BY <1>2 DEF DialDone, Own, SameAt, Dirs
  <2>3. Entry(h)'
    BY <1>2 DEF DialDone, HandlerInv, Entry, Setting, Carrying, Either, Releasing, Over
  <2>4. Helpers(h)'
    BY <1>2 DEF DialDone, HandlerInv, Entry, Helpers, Carries, Dirs, Setting, Carrying, Either,
       Releasing
  <2>5. Links(h)'
    BY <1>2 DEF DialDone, HandlerInv, Entry, Links, Carries, Setting, Carrying, Either,
       Releasing, Over
  <2> QED  BY <2>1, <2>2, <2>3, <2>4, <2>5 DEF HandlerInv
<1>3. ASSUME DialFails(h) PROVE Kept
  <2>1. TypeOK'
    BY <1>3 DEF DialFails, Places, RawStates, Sockets, Dirs
  <2>2. Own(h)
    BY <1>3 DEF DialFails, Own, SameAt, Dirs
  <2>3. Entry(h)'
    BY <1>3 DEF DialFails, HandlerInv, Entry, Setting, Carrying, Either, Releasing, Over
  <2>4. Helpers(h)'
    BY <1>3 DEF DialFails, HandlerInv, Entry, Helpers, Carries, Dirs, Setting, Carrying, Either,
       Releasing
  <2>5. Links(h)'
    BY <1>3 DEF DialFails, HandlerInv, Entry, Links, Carries, Setting, Carrying, Either,
       Releasing, Over
  <2> QED  BY <2>1, <2>2, <2>3, <2>4, <2>5 DEF HandlerInv
<1>4. ASSUME Hold(h) PROVE Kept
  <2>1. Own(h)
    BY <1>4 DEF Hold, Own, SameAt
  <2>2. pc[h] = "hold" /\ HandlerInv(h)
    BY <1>4 DEF Hold
  <2>3. UNCHANGED <<id, exits, key, using, circuits, owners, rawIn, helperVars, broken, closeVars,
                    hangups>>
    BY <1>4 DEF Hold
  <2>4. CASE /\ rawOut' = [rawOut EXCEPT ![h] = "closed"]
             /\ pc' = [pc EXCEPT ![h] = "undo"]
             /\ UNCHANGED conns
    <3>1. TypeOK'
      BY <2>3, <2>4 DEF Places, RawStates
    <3>2. HandlerInv(h)'
      BY <2>2, <2>3, <2>4 DEF HandlerInv, Entry, Helpers, Links, Carries, Setting, Carrying,
         Either, Releasing, Over
    <3> QED  BY <2>1, <3>1, <3>2
  <2>5. CASE /\ conns' = conns \cup {<<"out", h>>}
             /\ pc' = [pc EXCEPT ![h] = "shake"]
             /\ UNCHANGED rawOut
    <3>1. TypeOK'
      BY <2>3, <2>5 DEF Places, Sockets
    <3>2. HandlerInv(h)'
      BY <2>2, <2>3, <2>5 DEF HandlerInv, Entry, Helpers, Links, Carries, Setting, Carrying,
         Either, Releasing, Over
    <3> QED  BY <2>1, <3>1, <3>2
  <2> QED  BY <1>4, <2>4, <2>5 DEF Hold
<1>5. ASSUME ShakeDone(h) PROVE Kept
  <2>1. TypeOK'
    BY <1>5 DEF ShakeDone, Places, Dirs
  <2>2. Own(h)
    BY <1>5 DEF ShakeDone, Own, SameAt, Dirs
  <2>3. /\ pc[h] = "shake" /\ pc'[h] = "watch" /\ HandlerInv(h)
        /\ UNCHANGED <<id, exits, key, using, owners, rawIn, rawOut, conns>>
    BY <1>5 DEF ShakeDone
  <2>4. h \notin exits /\ Carries(h)'
    BY <2>3 DEF HandlerInv, Links, Setting, Carries, Carrying
  <2>5. Entry(h)'
    BY <2>3 DEF HandlerInv, Entry, Setting, Carrying, Either, Releasing, Over
  <2>6. Helpers(h)'
    BY <2>3, <2>4 DEF Helpers
  <2>7. Links(h)'
    BY <2>3, <2>4 DEF HandlerInv, Links, Setting, Either, Releasing, Over
  <2> QED  BY <2>1, <2>2, <2>5, <2>6, <2>7 DEF HandlerInv
<1>6. ASSUME ShakeFails(h) PROVE Kept
  <2>1. TypeOK'
    BY <1>6 DEF ShakeFails, Places, RawStates, Sockets, Dirs
  <2>2. Own(h)
    BY <1>6 DEF ShakeFails, Own, SameAt, Dirs
  <2>3. Entry(h)'
    BY <1>6 DEF ShakeFails, HandlerInv, Entry, Setting, Carrying, Either, Releasing, Over
  <2>4. Helpers(h)'
    BY <1>6 DEF ShakeFails, HandlerInv, Entry, Helpers, Carries, Dirs, Setting, Carrying,
       Either, Releasing
  <2>5. Links(h)'
    BY <1>6 DEF ShakeFails, HandlerInv, Entry, Links, Carries, Setting, Carrying, Either,
       Releasing, Over
  <2> QED  BY <2>1, <2>2, <2>3, <2>4, <2>5 DEF HandlerInv
<1>7. ASSUME Undo(h) PROVE Kept
  <2>1. TypeOK'
    BY <1>7 DEF Undo, Places, RawStates, Sockets, Dirs
  <2>2. Own(h)
    BY <1>7 DEF Undo, Own, SameAt, Dirs
  <2>3. Entry(h)'
    BY <1>7 DEF Undo, HandlerInv, Entry, Setting, Carrying, Either, Releasing, Over
  <2>4. Helpers(h)'
    BY <1>7 DEF Undo, HandlerInv, Entry, Helpers, Carries, Dirs, Setting, Carrying, Either,
       Releasing
  <2>5. Links(h)'
    BY <1>7 DEF Undo, HandlerInv, Entry, Links, Carries, Setting, Carrying, Either, Releasing,
       Over
  <2> QED  BY <2>1, <2>2, <2>3, <2>4, <2>5 DEF HandlerInv
<1>8. ASSUME Watch(h) PROVE Kept
  <2>1. TypeOK'
    BY <1>8 DEF Watch, Places, Dirs
  <2>2. Own(h)
    BY <1>8 DEF Watch, Own, SameAt, Dirs
  <2>3. /\ pc[h] = "watch" /\ pc'[h] = "read" /\ HandlerInv(h)
        /\ UNCHANGED <<id, exits, key, using, owners, rawIn, rawOut, conns, back>>
    BY <1>8 DEF Watch
  <2>4. pacer'[h]["fwd"] = pacer[h]["fwd"]
    BY <1>8 DEF Watch, Dirs
  <2>5. HandlerInv(h)'
    BY <2>3, <2>4 DEF HandlerInv, Entry, Helpers, Links, Carries, Setting, Carrying, Either,
       Releasing, Over
  <2> QED  BY <2>1, <2>2, <2>5
<1> QED  BY <1>1, <1>2, <1>3, <1>4, <1>5, <1>6, <1>7, <1>8

\* The handler tears its circuit down.
LEMMA TearingDown ==
  ASSUME NodeInv, NEW h \in Handlers,
         \/ Ending(h)
         \/ Discard(h)
         \/ Teardown(h)
         \/ Unwatch(h)
         \/ CloseNext(h)
         \/ DiscardNext(h)
         \/ AwaitFwd(h)
         \/ AwaitBack(h)
         \/ DropNext(h)
         \/ AwaitBwd(h)
         \/ Destroy(h)
         \/ Leave(h)
  PROVE  TypeOK' /\ HandlerInv(h)' /\ Own(h)
<1> USE DEF NodeInv, TypeOK, handlerVars, socketVars, helperVars, closeVars, Goto, Await
<1> DEFINE Kept == TypeOK' /\ HandlerInv(h)' /\ Own(h)
<1>1. ASSUME Ending(h) PROVE Kept
  <2>1. TypeOK'
    BY <1>1 DEF Ending, Places, RawStates, Sockets, Dirs
  <2>2. Own(h)
    BY <1>1 DEF Ending, Own, SameAt, Dirs
  <2>3. Entry(h)'
    BY <1>1 DEF Ending, HandlerInv, Entry, Setting, Carrying, Either, Releasing, Over
  <2>4. Helpers(h)'
    BY <1>1 DEF Ending, HandlerInv, Entry, Helpers, Carries, Dirs, Setting, Carrying, Either,
       Releasing
  <2>5. Links(h)'
    BY <1>1 DEF Ending, HandlerInv, Entry, Links, Carries, Setting, Carrying, Either, Releasing,
       Over
  <2> QED  BY <2>1, <2>2, <2>3, <2>4, <2>5 DEF HandlerInv
<1>2. ASSUME Discard(h) PROVE Kept
  <2>1. TypeOK'
    BY <1>2 DEF Discard, Places, RawStates, Sockets, Dirs
  <2>2. Own(h)
    BY <1>2 DEF Discard, Own, SameAt, Dirs
  <2>3. Entry(h)'
    BY <1>2 DEF Discard, HandlerInv, Entry, Setting, Carrying, Either, Releasing, Over
  <2>4. Helpers(h)'
    BY <1>2 DEF Discard, HandlerInv, Entry, Helpers, Carries, Dirs, Setting, Carrying, Either,
       Releasing
  <2>5. Links(h)'
    BY <1>2 DEF Discard, HandlerInv, Entry, Links, Carries, Setting, Carrying, Either,
       Releasing, Over
  <2> QED  BY <2>1, <2>2, <2>3, <2>4, <2>5 DEF HandlerInv
<1>3. ASSUME Teardown(h) PROVE Kept
  <2>1. Own(h)
    BY <1>3 DEF Teardown, Own, SameAt
  <2>2. pc[h] = "teardown" /\ HandlerInv(h)
    BY <1>3 DEF Teardown
  <2>3. UNCHANGED <<id, exits, key, using, socketVars, helperVars, broken, closeVars, hangups>>
    BY <1>3 DEF Teardown
  <2>4. CASE owners[h] = NoOne
    <3>1. pc' = [pc EXCEPT ![h] = "leave"] /\ UNCHANGED <<circuits, owners>>
      BY <1>3, <2>4 DEF Teardown
    <3>2. TypeOK'
      BY <2>3, <3>1 DEF Places
    <3>3. HandlerInv(h)'
      BY <2>2, <2>3, <2>4, <3>1 DEF HandlerInv, Entry, Helpers, Links, Carries, Setting,
         Carrying, Either, Releasing, Over
    <3> QED  BY <2>1, <3>2, <3>3
  <2>5. CASE owners[h] # NoOne
    <3>1. circuits[owners[h]] = h /\ h # NoOne
      BY <2>5, NodeAssumption DEF Records
    <3>2. /\ pc' = [pc EXCEPT ![h] = "unwatch"]
          /\ circuits' = [circuits EXCEPT ![owners[h]] = NoOne]
          /\ owners' = [owners EXCEPT ![h] = NoOne]
      BY <1>3, <2>5, <3>1 DEF Teardown
    <3>3. TypeOK'
      BY <2>3, <3>2 DEF Places
    <3>4. HandlerInv(h)'
      BY <2>2, <2>3, <2>5, <3>2 DEF HandlerInv, Entry, Helpers, Links, Carries, Setting,
         Carrying, Either, Releasing, Over
    <3> QED  BY <2>1, <3>3, <3>4
  <2> QED  BY <2>4, <2>5
<1>4. ASSUME Unwatch(h) PROVE Kept
  <2>1. TypeOK'
    BY <1>4 DEF Unwatch, Places, RawStates, Sockets, Dirs
  <2>2. Own(h)
    BY <1>4 DEF Unwatch, Own, SameAt, Dirs
  <2>3. Entry(h)'
    BY <1>4 DEF Unwatch, HandlerInv, Entry, Setting, Carrying, Either, Releasing, Over
  <2>4. Helpers(h)'
    BY <1>4 DEF Unwatch, HandlerInv, Entry, Helpers, Carries, Dirs, Setting, Carrying, Either,
       Releasing
  <2>5. Links(h)'
    BY <1>4 DEF Unwatch, HandlerInv, Entry, Links, Carries, Setting, Carrying, Either,
       Releasing, Over
  <2> QED  BY <2>1, <2>2, <2>3, <2>4, <2>5 DEF HandlerInv
<1>5. ASSUME CloseNext(h) PROVE Kept
  <2>1. TypeOK'
    BY <1>5 DEF CloseNext, Places, RawStates
  <2>2. Own(h)
    BY <1>5 DEF CloseNext, Own, SameAt
  <2>3. /\ pc[h] = "closeNext" /\ pc'[h] = "discardNext" /\ rawOut'[h] = "closed" /\ HandlerInv(h)
        /\ UNCHANGED <<id, exits, key, using, owners, rawIn, conns, back, pacer>>
    BY <1>5 DEF CloseNext
  <2>4. h \notin exits
    BY <2>3 DEF HandlerInv, Links
  <2>5. HandlerInv(h)'
    BY <2>3, <2>4 DEF HandlerInv, Entry, Helpers, Links, Carries, Setting, Carrying, Either,
       Releasing, Over
  <2> QED  BY <2>1, <2>2, <2>5
<1>6. ASSUME DiscardNext(h) PROVE Kept
  <2>1. TypeOK'
    BY <1>6 DEF DiscardNext, Places, RawStates, Sockets, Dirs
  <2>2. Own(h)
    BY <1>6 DEF DiscardNext, Own, SameAt, Dirs
  <2>3. Entry(h)'
    BY <1>6 DEF DiscardNext, HandlerInv, Entry, Setting, Carrying, Either, Releasing, Over
  <2>4. Helpers(h)'
    BY <1>6 DEF DiscardNext, HandlerInv, Entry, Helpers, Carries, Dirs, Setting, Carrying,
       Either, Releasing
  <2>5. Links(h)'
    BY <1>6 DEF DiscardNext, HandlerInv, Entry, Links, Carries, Setting, Carrying, Either,
       Releasing, Over
  <2> QED  BY <2>1, <2>2, <2>3, <2>4, <2>5 DEF HandlerInv
<1>7. ASSUME AwaitFwd(h) PROVE Kept
  <2>1. TypeOK'
    BY <1>7 DEF AwaitFwd, Places, RawStates, Sockets, Dirs
  <2>2. Own(h)
    BY <1>7 DEF AwaitFwd, Own, SameAt, Dirs
  <2>3. Entry(h)'
    BY <1>7 DEF AwaitFwd, HandlerInv, Entry, Setting, Carrying, Either, Releasing, Over
  <2>4. Helpers(h)'
    BY <1>7 DEF AwaitFwd, HandlerInv, Entry, Helpers, Carries, Dirs, Setting, Carrying, Either,
       Releasing
  <2>5. Links(h)'
    BY <1>7 DEF AwaitFwd, HandlerInv, Entry, Links, Carries, Setting, Carrying, Either,
       Releasing, Over
  <2> QED  BY <2>1, <2>2, <2>3, <2>4, <2>5 DEF HandlerInv
<1>8. ASSUME AwaitBack(h) PROVE Kept
  <2>1. TypeOK'
    BY <1>8 DEF AwaitBack, Places, RawStates, Sockets, Dirs
  <2>2. Own(h)
    BY <1>8 DEF AwaitBack, Own, SameAt, Dirs
  <2>3. Entry(h)'
    BY <1>8 DEF AwaitBack, HandlerInv, Entry, Setting, Carrying, Either, Releasing, Over
  <2>4. Helpers(h)'
    BY <1>8 DEF AwaitBack, HandlerInv, Entry, Helpers, Carries, Dirs, Setting, Carrying, Either,
       Releasing
  <2>5. Links(h)'
    BY <1>8 DEF AwaitBack, HandlerInv, Entry, Links, Carries, Setting, Carrying, Either,
       Releasing, Over
  <2> QED  BY <2>1, <2>2, <2>3, <2>4, <2>5 DEF HandlerInv
<1>9. ASSUME DropNext(h) PROVE Kept
  <2>1. TypeOK'
    BY <1>9 DEF DropNext, Places, RawStates, Sockets, Dirs
  <2>2. Own(h)
    BY <1>9 DEF DropNext, Own, SameAt, Dirs
  <2>3. Entry(h)'
    BY <1>9 DEF DropNext, HandlerInv, Entry, Setting, Carrying, Either, Releasing, Over
  <2>4. Helpers(h)'
    BY <1>9 DEF DropNext, HandlerInv, Entry, Helpers, Carries, Dirs, Setting, Carrying, Either,
       Releasing
  <2>5. Links(h)'
    BY <1>9 DEF DropNext, HandlerInv, Entry, Links, Carries, Setting, Carrying, Either,
       Releasing, Over
  <2> QED  BY <2>1, <2>2, <2>3, <2>4, <2>5 DEF HandlerInv
<1>10. ASSUME AwaitBwd(h) PROVE Kept
  <2>1. TypeOK'
    BY <1>10 DEF AwaitBwd, Places, RawStates, Sockets, Dirs
  <2>2. Own(h)
    BY <1>10 DEF AwaitBwd, Own, SameAt, Dirs
  <2>3. Entry(h)'
    BY <1>10 DEF AwaitBwd, HandlerInv, Entry, Setting, Carrying, Either, Releasing, Over
  <2>4. Helpers(h)'
    BY <1>10 DEF AwaitBwd, HandlerInv, Entry, Helpers, Carries, Dirs, Setting, Carrying, Either,
       Releasing
  <2>5. Links(h)'
    BY <1>10 DEF AwaitBwd, HandlerInv, Entry, Links, Carries, Setting, Carrying, Either,
       Releasing, Over
  <2> QED  BY <2>1, <2>2, <2>3, <2>4, <2>5 DEF HandlerInv
<1>11. ASSUME Destroy(h) PROVE Kept
  <2>1. TypeOK'
    BY <1>11 DEF Destroy, Places, RawStates, Sockets, Dirs
  <2>2. Own(h)
    BY <1>11 DEF Destroy, Own, SameAt, Dirs
  <2>3. Entry(h)'
    BY <1>11 DEF Destroy, HandlerInv, Entry, Setting, Carrying, Either, Releasing, Over
  <2>4. Helpers(h)'
    BY <1>11 DEF Destroy, HandlerInv, Entry, Helpers, Carries, Dirs, Setting, Carrying, Either,
       Releasing
  <2>5. Links(h)'
    BY <1>11 DEF Destroy, HandlerInv, Entry, Links, Carries, Setting, Carrying, Either,
       Releasing, Over
  <2> QED  BY <2>1, <2>2, <2>3, <2>4, <2>5 DEF HandlerInv
<1>12. ASSUME Leave(h) PROVE Kept
  <2>1. TypeOK'
    BY <1>12 DEF Leave, Places, RawStates, Sockets, Dirs
  <2>2. Own(h)
    BY <1>12 DEF Leave, Own, SameAt, Dirs
  <2>3. Entry(h)'
    BY <1>12 DEF Leave, HandlerInv, Entry, Setting, Carrying, Either, Releasing, Over
  <2>4. Helpers(h)'
    BY <1>12 DEF Leave, HandlerInv, Entry, Helpers, Carries, Dirs, Setting, Carrying, Either,
       Releasing
  <2>5. Links(h)'
    BY <1>12 DEF Leave, HandlerInv, Entry, Links, Carries, Setting, Carrying, Either, Releasing,
       Over
  <2> QED  BY <2>1, <2>2, <2>3, <2>4, <2>5 DEF HandlerInv
<1> QED  BY <1>1, <1>2, <1>3, <1>4, <1>5, <1>6, <1>7, <1>8, <1>9, <1>10, <1>11, <1>12

\* The backward goroutine.
LEMMA GoingBack ==
  ASSUME NodeInv, NEW h \in Handlers,
         \/ BackRead(h)
         \/ BackReadFails(h)
         \/ BackWrap(h)
         \/ BackWriteDone(h)
         \/ BackWriteFails(h)
         \/ BackExit(h)
         \/ BackCloseIn(h)
  PROVE  TypeOK' /\ HandlerInv(h)' /\ Own(h)
<1> USE DEF NodeInv, TypeOK, handlerVars, socketVars, helperVars, closeVars, Goto, BackGoto
<1> DEFINE Kept == TypeOK' /\ HandlerInv(h)' /\ Own(h)
<1>1. ASSUME BackRead(h) PROVE Kept
  <2>1. TypeOK'
    BY <1>1 DEF BackRead, Count, Places, RawStates, Sockets, Dirs
  <2>2. Own(h)
    BY <1>1 DEF BackRead, Count, Own, SameAt, Dirs
  <2>3. /\ UNCHANGED <<pc, id, exits, key, using, owners, conns>>
        /\ back'[h] \in {"none", "closeIn", "done"} \/ back[h] \notin {"none", "closeIn", "done"}
    BY <1>1 DEF BackRead, Count
  <2>4. \A e \in Dirs : pacer'[h][e] \in {"none", "done"} \/ pacer[h][e] \notin {"none", "done"}
    BY <1>1 DEF BackRead, Count, Dirs
  <2>5. /\ \/ rawIn'[h] \in {rawIn[h], Shut(rawIn[h])}
           \/ rawIn[h] = "open" /\ rawIn'[h] = "gone"
        /\ \/ rawOut'[h] \in {rawOut[h], Shut(rawOut[h])}
           \/ rawOut[h] = "open" /\ rawOut'[h] = "gone"
    BY <1>1 DEF BackRead
  <2>6. HandlerInv(h)'
    BY <2>3, <2>4, <2>5, HelperKeeps
  <2> QED  BY <2>1, <2>2, <2>6
<1>2. ASSUME BackReadFails(h) PROVE Kept
  <2>1. TypeOK'
    BY <1>2 DEF BackReadFails, Places, RawStates, Sockets, Dirs
  <2>2. Own(h)
    BY <1>2 DEF BackReadFails, Own, SameAt, Dirs
  <2>3. /\ UNCHANGED <<pc, id, exits, key, using, owners, conns>>
        /\ back'[h] \in {"none", "closeIn", "done"} \/ back[h] \notin {"none", "closeIn", "done"}
    BY <1>2 DEF BackReadFails
  <2>4. \A e \in Dirs : pacer'[h][e] \in {"none", "done"} \/ pacer[h][e] \notin {"none", "done"}
    BY <1>2 DEF BackReadFails, Dirs
  <2>5. /\ \/ rawIn'[h] \in {rawIn[h], Shut(rawIn[h])}
           \/ rawIn[h] = "open" /\ rawIn'[h] = "gone"
        /\ \/ rawOut'[h] \in {rawOut[h], Shut(rawOut[h])}
           \/ rawOut[h] = "open" /\ rawOut'[h] = "gone"
    BY <1>2 DEF BackReadFails
  <2>6. HandlerInv(h)'
    BY <2>3, <2>4, <2>5, HelperKeeps
  <2> QED  BY <2>1, <2>2, <2>6
<1>3. ASSUME BackWrap(h) PROVE Kept
  <2>1. TypeOK'
    <3>1. back' \in [Handlers -> {"none", "read", "wrap", "write", "exit", "closeIn", "done"}]
      BY <1>3 DEF BackWrap
    <3>2. broken' \in [Handlers -> Nat]
      BY <1>3 DEF BackWrap, Count
    <3> QED  BY <1>3, <3>1, <3>2 DEF BackWrap
  <2>2. Own(h)
    BY <1>3 DEF BackWrap, Own, SameAt, Dirs
  <2>3. /\ UNCHANGED <<pc, id, exits, key, using, owners, conns>>
        /\ back'[h] \in {"none", "closeIn", "done"} \/ back[h] \notin {"none", "closeIn", "done"}
    BY <1>3 DEF BackWrap, Count
  <2>4. \A e \in Dirs : pacer'[h][e] \in {"none", "done"} \/ pacer[h][e] \notin {"none", "done"}
    BY <1>3 DEF BackWrap, Count, Dirs
  <2>5. /\ \/ rawIn'[h] \in {rawIn[h], Shut(rawIn[h])}
           \/ rawIn[h] = "open" /\ rawIn'[h] = "gone"
        /\ \/ rawOut'[h] \in {rawOut[h], Shut(rawOut[h])}
           \/ rawOut[h] = "open" /\ rawOut'[h] = "gone"
    BY <1>3 DEF BackWrap
  <2>6. HandlerInv(h)'
    BY <2>3, <2>4, <2>5, HelperKeeps
  <2> QED  BY <2>1, <2>2, <2>6
<1>4. ASSUME BackWriteDone(h) PROVE Kept
  <2>1. TypeOK'
    BY <1>4 DEF BackWriteDone, Places, RawStates, Sockets, Dirs
  <2>2. Own(h)
    BY <1>4 DEF BackWriteDone, Own, SameAt, Dirs
  <2>3. /\ UNCHANGED <<pc, id, exits, key, using, owners, conns>>
        /\ back'[h] \in {"none", "closeIn", "done"} \/ back[h] \notin {"none", "closeIn", "done"}
    BY <1>4 DEF BackWriteDone
  <2>4. \A e \in Dirs : pacer'[h][e] \in {"none", "done"} \/ pacer[h][e] \notin {"none", "done"}
    BY <1>4 DEF BackWriteDone, Dirs
  <2>5. /\ \/ rawIn'[h] \in {rawIn[h], Shut(rawIn[h])}
           \/ rawIn[h] = "open" /\ rawIn'[h] = "gone"
        /\ \/ rawOut'[h] \in {rawOut[h], Shut(rawOut[h])}
           \/ rawOut[h] = "open" /\ rawOut'[h] = "gone"
    BY <1>4 DEF BackWriteDone
  <2>6. HandlerInv(h)'
    BY <2>3, <2>4, <2>5, HelperKeeps
  <2> QED  BY <2>1, <2>2, <2>6
<1>5. ASSUME BackWriteFails(h) PROVE Kept
  <2>1. TypeOK'
    BY <1>5 DEF BackWriteFails, Count, Places, RawStates, Sockets, Dirs
  <2>2. Own(h)
    BY <1>5 DEF BackWriteFails, Count, Own, SameAt, Dirs
  <2>3. /\ UNCHANGED <<pc, id, exits, key, using, owners, conns>>
        /\ back'[h] \in {"none", "closeIn", "done"} \/ back[h] \notin {"none", "closeIn", "done"}
    BY <1>5 DEF BackWriteFails, Count
  <2>4. \A e \in Dirs : pacer'[h][e] \in {"none", "done"} \/ pacer[h][e] \notin {"none", "done"}
    BY <1>5 DEF BackWriteFails, Count, Dirs
  <2>5. /\ \/ rawIn'[h] \in {rawIn[h], Shut(rawIn[h])}
           \/ rawIn[h] = "open" /\ rawIn'[h] = "gone"
        /\ \/ rawOut'[h] \in {rawOut[h], Shut(rawOut[h])}
           \/ rawOut[h] = "open" /\ rawOut'[h] = "gone"
    BY <1>5 DEF BackWriteFails
  <2>6. HandlerInv(h)'
    BY <2>3, <2>4, <2>5, HelperKeeps
  <2> QED  BY <2>1, <2>2, <2>6
<1>6. ASSUME BackExit(h) PROVE Kept
  <2>1. TypeOK'
    BY <1>6 DEF BackExit, Places, RawStates, Sockets, Dirs
  <2>2. Own(h)
    BY <1>6 DEF BackExit, Own, SameAt, Dirs
  <2>3. /\ UNCHANGED <<pc, id, exits, key, using, owners, conns>>
        /\ back'[h] \in {"none", "closeIn", "done"} \/ back[h] \notin {"none", "closeIn", "done"}
    BY <1>6 DEF BackExit
  <2>4. \A e \in Dirs : pacer'[h][e] \in {"none", "done"} \/ pacer[h][e] \notin {"none", "done"}
    BY <1>6 DEF BackExit, Dirs
  <2>5. /\ \/ rawIn'[h] \in {rawIn[h], Shut(rawIn[h])}
           \/ rawIn[h] = "open" /\ rawIn'[h] = "gone"
        /\ \/ rawOut'[h] \in {rawOut[h], Shut(rawOut[h])}
           \/ rawOut[h] = "open" /\ rawOut'[h] = "gone"
    BY <1>6 DEF BackExit
  <2>6. HandlerInv(h)'
    BY <2>3, <2>4, <2>5, HelperKeeps
  <2> QED  BY <2>1, <2>2, <2>6
<1>7. ASSUME BackCloseIn(h) PROVE Kept
  <2>1. TypeOK'
    BY <1>7 DEF BackCloseIn, Shut, Places, RawStates, Sockets, Dirs
  <2>2. Own(h)
    BY <1>7 DEF BackCloseIn, Shut, Own, SameAt, Dirs
  <2>3. /\ UNCHANGED <<pc, id, exits, key, using, owners, conns>>
        /\ back'[h] \in {"none", "closeIn", "done"} \/ back[h] \notin {"none", "closeIn", "done"}
    BY <1>7 DEF BackCloseIn, Shut
  <2>4. \A e \in Dirs : pacer'[h][e] \in {"none", "done"} \/ pacer[h][e] \notin {"none", "done"}
    BY <1>7 DEF BackCloseIn, Shut, Dirs
  <2>5. /\ \/ rawIn'[h] \in {rawIn[h], Shut(rawIn[h])}
           \/ rawIn[h] = "open" /\ rawIn'[h] = "gone"
        /\ \/ rawOut'[h] \in {rawOut[h], Shut(rawOut[h])}
           \/ rawOut[h] = "open" /\ rawOut'[h] = "gone"
    BY <1>7 DEF BackCloseIn
  <2>6. HandlerInv(h)'
    BY <2>3, <2>4, <2>5, HelperKeeps
  <2> QED  BY <2>1, <2>2, <2>6
<1> QED  BY <1>1, <1>2, <1>3, <1>4, <1>5, <1>6, <1>7

\* The pacers.
LEMMA Pacing ==
  ASSUME NodeInv, NEW h \in Handlers, NEW d \in Dirs,
         \/ PacerTick(h, d)
         \/ PacerStops(h, d)
         \/ PacerWriteDone(h, d)
         \/ PacerWriteFails(h, d)
         \/ PacerCloses(h, d)
         \/ PacerDiscards(h, d)
  PROVE  TypeOK' /\ HandlerInv(h)' /\ Own(h)
<1> USE DEF NodeInv, TypeOK, handlerVars, socketVars, helperVars, closeVars, Goto, PacerGoto
<1> DEFINE Kept == TypeOK' /\ HandlerInv(h)' /\ Own(h)
<1>1. ASSUME PacerTick(h, d) PROVE Kept
  <2>1. TypeOK'
    BY <1>1 DEF PacerTick, Places, RawStates, Sockets, Dirs
  <2>2. Own(h)
    BY <1>1 DEF PacerTick, Own, SameAt, Dirs
  <2>3. /\ UNCHANGED <<pc, id, exits, key, using, owners, conns>>
        /\ back'[h] \in {"none", "closeIn", "done"} \/ back[h] \notin {"none", "closeIn", "done"}
    BY <1>1 DEF PacerTick
  <2>4. \A e \in Dirs : pacer'[h][e] \in {"none", "done"} \/ pacer[h][e] \notin {"none", "done"}
    BY <1>1 DEF PacerTick, Dirs
  <2>5. /\ \/ rawIn'[h] \in {rawIn[h], Shut(rawIn[h])}
           \/ rawIn[h] = "open" /\ rawIn'[h] = "gone"
        /\ \/ rawOut'[h] \in {rawOut[h], Shut(rawOut[h])}
           \/ rawOut[h] = "open" /\ rawOut'[h] = "gone"
    BY <1>1 DEF PacerTick
  <2>6. HandlerInv(h)'
    BY <2>3, <2>4, <2>5, HelperKeeps
  <2> QED  BY <2>1, <2>2, <2>6
<1>2. ASSUME PacerStops(h, d) PROVE Kept
  <2>1. TypeOK'
    BY <1>2 DEF PacerStops, Places, RawStates, Sockets, Dirs
  <2>2. Own(h)
    BY <1>2 DEF PacerStops, Own, SameAt, Dirs
  <2>3. /\ UNCHANGED <<pc, id, exits, key, using, owners, conns>>
        /\ back'[h] \in {"none", "closeIn", "done"} \/ back[h] \notin {"none", "closeIn", "done"}
    BY <1>2 DEF PacerStops
  <2>4. \A e \in Dirs : pacer'[h][e] \in {"none", "done"} \/ pacer[h][e] \notin {"none", "done"}
    BY <1>2 DEF PacerStops, Dirs
  <2>5. /\ \/ rawIn'[h] \in {rawIn[h], Shut(rawIn[h])}
           \/ rawIn[h] = "open" /\ rawIn'[h] = "gone"
        /\ \/ rawOut'[h] \in {rawOut[h], Shut(rawOut[h])}
           \/ rawOut[h] = "open" /\ rawOut'[h] = "gone"
    BY <1>2 DEF PacerStops
  <2>6. HandlerInv(h)'
    BY <2>3, <2>4, <2>5, HelperKeeps
  <2> QED  BY <2>1, <2>2, <2>6
<1>3. ASSUME PacerWriteDone(h, d) PROVE Kept
  <2>1. TypeOK'
    BY <1>3 DEF PacerWriteDone, Places, RawStates, Sockets, Dirs
  <2>2. Own(h)
    BY <1>3 DEF PacerWriteDone, Own, SameAt, Dirs
  <2>3. /\ UNCHANGED <<pc, id, exits, key, using, owners, conns>>
        /\ back'[h] \in {"none", "closeIn", "done"} \/ back[h] \notin {"none", "closeIn", "done"}
    BY <1>3 DEF PacerWriteDone
  <2>4. \A e \in Dirs : pacer'[h][e] \in {"none", "done"} \/ pacer[h][e] \notin {"none", "done"}
    BY <1>3 DEF PacerWriteDone, Dirs
  <2>5. /\ \/ rawIn'[h] \in {rawIn[h], Shut(rawIn[h])}
           \/ rawIn[h] = "open" /\ rawIn'[h] = "gone"
        /\ \/ rawOut'[h] \in {rawOut[h], Shut(rawOut[h])}
           \/ rawOut[h] = "open" /\ rawOut'[h] = "gone"
    BY <1>3 DEF PacerWriteDone
  <2>6. HandlerInv(h)'
    BY <2>3, <2>4, <2>5, HelperKeeps
  <2> QED  BY <2>1, <2>2, <2>6
<1>4. ASSUME PacerWriteFails(h, d) PROVE Kept
  <2>1. TypeOK'
    BY <1>4 DEF PacerWriteFails, Count, Places, RawStates, Sockets, Dirs
  <2>2. Own(h)
    BY <1>4 DEF PacerWriteFails, Count, Own, SameAt, Dirs
  <2>3. /\ UNCHANGED <<pc, id, exits, key, using, owners, conns>>
        /\ back'[h] \in {"none", "closeIn", "done"} \/ back[h] \notin {"none", "closeIn", "done"}
    BY <1>4 DEF PacerWriteFails, Count
  <2>4. \A e \in Dirs : pacer'[h][e] \in {"none", "done"} \/ pacer[h][e] \notin {"none", "done"}
    BY <1>4 DEF PacerWriteFails, Count, Dirs
  <2>5. /\ \/ rawIn'[h] \in {rawIn[h], Shut(rawIn[h])}
           \/ rawIn[h] = "open" /\ rawIn'[h] = "gone"
        /\ \/ rawOut'[h] \in {rawOut[h], Shut(rawOut[h])}
           \/ rawOut[h] = "open" /\ rawOut'[h] = "gone"
    BY <1>4 DEF PacerWriteFails
  <2>6. HandlerInv(h)'
    BY <2>3, <2>4, <2>5, HelperKeeps
  <2> QED  BY <2>1, <2>2, <2>6
<1>5. ASSUME PacerCloses(h, d) PROVE Kept
  <2>1. /\ pacer[h][d] = "close" /\ pacer' = [pacer EXCEPT ![h][d] = "discard"]
        /\ UNCHANGED <<handlerVars, conns, back, stopped, timer, unwatched, broken, closeVars,
                       hangups>>
    BY <1>5 DEF PacerCloses
  <2>2. pacer' \in [Handlers -> [Dirs -> {"none", "sleep", "write", "close", "discard", "done"}]]
        /\ (~Paced => pacer' = [g \in Handlers |-> [e \in Dirs |-> "none"]])
    BY <2>1 DEF Dirs
  <2>3. /\ rawIn'[h] \in {rawIn[h], Shut(rawIn[h])} /\ rawOut'[h] \in {rawOut[h], Shut(rawOut[h])}
        /\ rawIn' \in [Handlers -> RawStates] /\ rawOut' \in [Handlers -> RawStates]
        /\ \A g \in Handlers \ {h} : rawIn'[g] = rawIn[g] /\ rawOut'[g] = rawOut[g]
    BY <1>5 DEF PacerCloses, Shut, RawStates
  <2>4. TypeOK'
    BY <2>1, <2>2, <2>3
  <2>5. Own(h)
    BY <2>1, <2>3 DEF Own, SameAt, Dirs
  <2>6. \A e \in Dirs : pacer'[h][e] = pacer[h][e] \/ (e = d /\ pacer[h][e] = "close")
    BY <2>1 DEF Dirs
  <2>7. HandlerInv(h)'
    <3>1. UNCHANGED <<pc, id, exits, key, using, owners, conns, back>> /\ HandlerInv(h)
      BY <2>1
    <3>2. \A e \in Dirs : pacer'[h][e] \in {"none", "done"} \/ pacer[h][e] \notin {"none", "done"}
      BY <2>6
    <3> QED  BY <2>3, <3>1, <3>2, HelperKeeps
  <2> QED  BY <2>4, <2>5, <2>7
<1>6. ASSUME PacerDiscards(h, d) PROVE Kept
  <2>1. TypeOK'
    BY <1>6 DEF PacerDiscards, Places, RawStates, Sockets, Dirs
  <2>2. Own(h)
    BY <1>6 DEF PacerDiscards, Own, SameAt, Dirs
  <2>3. /\ UNCHANGED <<pc, id, exits, key, using, owners, conns>>
        /\ back'[h] \in {"none", "closeIn", "done"} \/ back[h] \notin {"none", "closeIn", "done"}
    BY <1>6 DEF PacerDiscards
  <2>4. \A e \in Dirs : pacer'[h][e] \in {"none", "done"} \/ pacer[h][e] \notin {"none", "done"}
    BY <1>6 DEF PacerDiscards, Dirs
  <2>5. /\ \/ rawIn'[h] \in {rawIn[h], Shut(rawIn[h])}
           \/ rawIn[h] = "open" /\ rawIn'[h] = "gone"
        /\ \/ rawOut'[h] \in {rawOut[h], Shut(rawOut[h])}
           \/ rawOut[h] = "open" /\ rawOut'[h] = "gone"
    BY <1>6 DEF PacerDiscards
  <2>6. HandlerInv(h)'
    BY <2>3, <2>4, <2>5, HelperKeeps
  <2> QED  BY <2>1, <2>2, <2>6
<1> QED  BY <1>1, <1>2, <1>3, <1>4, <1>5, <1>6

\* The expiry timer and the peers.
LEMMA Outside ==
  ASSUME NodeInv, NEW h \in Handlers,
         \/ Expire(h)
         \/ ExpireCloses(h)
         \/ Hangup(h)
  PROVE  TypeOK' /\ HandlerInv(h)' /\ Own(h)
<1> USE DEF NodeInv, TypeOK, handlerVars, socketVars, helperVars, closeVars, Goto
<1> DEFINE Kept == TypeOK' /\ HandlerInv(h)' /\ Own(h)
<1>1. ASSUME Expire(h) PROVE Kept
  <2>1. TypeOK'
    BY <1>1 DEF Expire, Places, RawStates, Sockets, Dirs
  <2>2. Own(h)
    BY <1>1 DEF Expire, Own, SameAt, Dirs
  <2>3. /\ UNCHANGED <<pc, id, exits, key, using, owners, conns>>
        /\ back'[h] \in {"none", "closeIn", "done"} \/ back[h] \notin {"none", "closeIn", "done"}
    BY <1>1 DEF Expire
  <2>4. \A e \in Dirs : pacer'[h][e] \in {"none", "done"} \/ pacer[h][e] \notin {"none", "done"}
    BY <1>1 DEF Expire, Dirs
  <2>5. /\ \/ rawIn'[h] \in {rawIn[h], Shut(rawIn[h])}
           \/ rawIn[h] = "open" /\ rawIn'[h] = "gone"
        /\ \/ rawOut'[h] \in {rawOut[h], Shut(rawOut[h])}
           \/ rawOut[h] = "open" /\ rawOut'[h] = "gone"
    BY <1>1 DEF Expire
  <2>6. HandlerInv(h)'
    BY <2>3, <2>4, <2>5, HelperKeeps
  <2> QED  BY <2>1, <2>2, <2>6
<1>2. ASSUME ExpireCloses(h) PROVE Kept
  <2>1. TypeOK'
    BY <1>2 DEF ExpireCloses, Shut, Places, RawStates, Sockets, Dirs
  <2>2. Own(h)
    BY <1>2 DEF ExpireCloses, Shut, Own, SameAt, Dirs
  <2>3. /\ UNCHANGED <<pc, id, exits, key, using, owners, conns>>
        /\ back'[h] \in {"none", "closeIn", "done"} \/ back[h] \notin {"none", "closeIn", "done"}
    BY <1>2 DEF ExpireCloses, Shut
  <2>4. \A e \in Dirs : pacer'[h][e] \in {"none", "done"} \/ pacer[h][e] \notin {"none", "done"}
    BY <1>2 DEF ExpireCloses, Shut, Dirs
  <2>5. /\ \/ rawIn'[h] \in {rawIn[h], Shut(rawIn[h])}
           \/ rawIn[h] = "open" /\ rawIn'[h] = "gone"
        /\ \/ rawOut'[h] \in {rawOut[h], Shut(rawOut[h])}
           \/ rawOut[h] = "open" /\ rawOut'[h] = "gone"
    BY <1>2 DEF ExpireCloses
  <2>6. HandlerInv(h)'
    BY <2>3, <2>4, <2>5, HelperKeeps
  <2> QED  BY <2>1, <2>2, <2>6
<1>3. ASSUME Hangup(h) PROVE Kept
  <2>1. TypeOK'
    <3>1. hangups' \in 0 .. MaxHangups
      BY <1>3, NodeAssumption DEF Hangup
    <3>2. rawIn' \in [Handlers -> RawStates] /\ rawOut' \in [Handlers -> RawStates]
      BY <1>3 DEF Hangup, RawStates
    <3> QED  BY <1>3, <3>1, <3>2 DEF Hangup
  <2>2. Own(h)
    BY <1>3 DEF Hangup, Own, SameAt, Dirs
  <2>3. /\ UNCHANGED <<pc, id, exits, key, using, owners, conns>>
        /\ back'[h] \in {"none", "closeIn", "done"} \/ back[h] \notin {"none", "closeIn", "done"}
    BY <1>3 DEF Hangup
  <2>4. \A e \in Dirs : pacer'[h][e] \in {"none", "done"} \/ pacer[h][e] \notin {"none", "done"}
    BY <1>3 DEF Hangup, Dirs
  <2>5. /\ \/ rawIn'[h] \in {rawIn[h], Shut(rawIn[h])}
           \/ rawIn[h] = "open" /\ rawIn'[h] = "gone"
        /\ \/ rawOut'[h] \in {rawOut[h], Shut(rawOut[h])}
           \/ rawOut[h] = "open" /\ rawOut'[h] = "gone"
    BY <1>3 DEF Hangup
  <2>6. HandlerInv(h)'
    BY <2>3, <2>4, <2>5, HelperKeeps
  <2> QED  BY <2>1, <2>2, <2>6
<1> QED  BY <1>1, <1>2, <1>3
-----------------------------------------------------------------------------
(* The whole relay.                                                         *)

\* A handler's step keeps the facts about every handler and about Close.
LEMMA OwnKeeps ==
  ASSUME NodeInv, NEW h \in Handlers, HandlerInv(h)', Own(h)
  PROVE  Closing' /\ \A g \in Handlers : HandlerInv(g)'
<1>1. ASSUME NEW g \in Handlers PROVE HandlerInv(g)'
  <2>1. CASE g # h
    BY <2>1, SameKeeps DEF Own, NodeInv
  <2> QED  BY <2>1
<1>2. Closing'
  BY DEF NodeInv, Closing, Own, SameAt
<1> QED  BY <1>1, <1>2

\* The two maps change together: an entry is made where there is none, and
\* taken back by its owner.
LEMMA RecordsKept ==
  ASSUME NodeInv, NEW h \in Handlers,
         \/ UNCHANGED <<circuits, owners>>
         \/ Register(h) \/ Undo(h) \/ Teardown(h)
  PROVE  Records'
<1>0. TypeOK /\ Records /\ HandlerInv(h) /\ h # NoOne
  BY NodeAssumption DEF NodeInv
<1>1. CASE UNCHANGED <<circuits, owners>>
  BY <1>0, <1>1 DEF Records
<1>2. CASE /\ owners[h] = NoOne /\ id[h] \in Ids /\ circuits[id[h]] = NoOne
           /\ circuits' = [circuits EXCEPT ![id[h]] = h]
           /\ owners' = [owners EXCEPT ![h] = id[h]]
  <2>1. id[h] # NoOne
    BY <1>2, NodeAssumption
  <2>2. /\ circuits'[id[h]] = h /\ \A i \in Ids \ {id[h]} : circuits'[i] = circuits[i]
        /\ owners'[h] = id[h] /\ \A g \in Handlers \ {h} : owners'[g] = owners[g]
    BY <1>0, <1>2 DEF TypeOK
  <2>3. ASSUME NEW i \in Ids, circuits'[i] # NoOne PROVE owners'[circuits'[i]] = i
    <3>1. CASE i = id[h]
      BY <2>2, <3>1
    <3>2. CASE i # id[h]
      <4>1. circuits'[i] = circuits[i] /\ owners[circuits[i]] = i /\ circuits[i] \in Handlers
        BY <1>0, <2>2, <2>3, <3>2 DEF Records, TypeOK
      <4>2. circuits[i] # h
        BY <1>2, <4>1, NodeAssumption
      <4> QED  BY <2>2, <4>1, <4>2
    <3> QED  BY <3>1, <3>2
  <2>4. ASSUME NEW g \in Handlers, owners'[g] # NoOne PROVE circuits'[owners'[g]] = g
    <3>1. CASE g = h
      BY <2>2, <3>1
    <3>2. CASE g # h
      <4>1. owners'[g] = owners[g] /\ owners[g] \in Ids /\ circuits[owners[g]] = g /\ g # NoOne
        BY <1>0, <2>2, <2>4, <3>2, NodeAssumption DEF Records, TypeOK
      <4>2. owners[g] # id[h]
        BY <1>2, <4>1
      <4> QED  BY <2>2, <4>1, <4>2
    <3> QED  BY <3>1, <3>2
  <2> QED  BY <2>3, <2>4 DEF Records
<1>3. CASE /\ owners[h] # NoOne
           /\ circuits' = [circuits EXCEPT ![owners[h]] = NoOne]
           /\ owners' = [owners EXCEPT ![h] = NoOne]
  <2>1. owners[h] \in Ids /\ circuits[owners[h]] = h
    BY <1>0, <1>3 DEF Records, TypeOK
  <2>2. /\ circuits'[owners[h]] = NoOne /\ \A i \in Ids \ {owners[h]} : circuits'[i] = circuits[i]
        /\ owners'[h] = NoOne /\ \A g \in Handlers \ {h} : owners'[g] = owners[g]
    BY <1>0, <1>3, <2>1 DEF TypeOK
  <2>3. ASSUME NEW i \in Ids, circuits'[i] # NoOne PROVE owners'[circuits'[i]] = i
    <3>1. i # owners[h] /\ circuits'[i] = circuits[i]
      BY <2>2, <2>3
    <3>2. owners[circuits[i]] = i /\ circuits[i] \in Handlers
      BY <1>0, <2>3, <3>1 DEF Records, TypeOK
    <3>3. circuits[i] # h
      BY <3>1, <3>2
    <3> QED  BY <2>2, <3>1, <3>2, <3>3
  <2>4. ASSUME NEW g \in Handlers, owners'[g] # NoOne PROVE circuits'[owners'[g]] = g
    <3>1. g # h /\ owners'[g] = owners[g]
      BY <2>2, <2>4
    <3>2. circuits[owners[g]] = g /\ owners[g] \in Ids
      BY <1>0, <2>4, <3>1 DEF Records, TypeOK
    <3>3. owners[g] # owners[h]
      BY <2>1, <3>1, <3>2
    <3> QED  BY <2>2, <3>1, <3>2, <3>3
  <2> QED  BY <2>3, <2>4 DEF Records
<1>4. CASE Register(h)
  <2>1. owners[h] = NoOne /\ id[h] \in Ids
    BY <1>0, <1>4 DEF Register, HandlerInv, Entry, Setting, Carrying, Either
  <2> QED  BY <1>1, <1>2, <1>4, <2>1 DEF Register
<1>5. CASE Undo(h)
  <2>1. owners[h] # NoOne /\ id[h] = owners[h]
    BY <1>0, <1>5 DEF Undo, HandlerInv, Entry, Setting
  <2> QED  BY <1>3, <1>5, <2>1 DEF Undo
<1>6. CASE Teardown(h)
  BY <1>1, <1>3, <1>6 DEF Teardown
<1> QED  BY <1>1, <1>4, <1>5, <1>6

LEMMA NodeInit == Init => NodeInv
<1> SUFFICES ASSUME Init PROVE NodeInv
  OBVIOUS
<1>1. TypeOK
  <2>1. hangups \in 0 .. MaxHangups /\ 0 \in Nat
    BY NodeAssumption DEF Init
  <2>2. /\ pacer \in [Handlers -> [Dirs -> {"none", "sleep", "write", "close", "discard", "done"}]]
        /\ pacer = [h \in Handlers |-> [d \in Dirs |-> "none"]]
    BY DEF Init
  <2>3. broken \in [Handlers -> Nat] /\ unwatched \in [Handlers -> BOOLEAN]
    BY DEF Init
  <2> QED  BY <2>1, <2>2, <2>3 DEF Init, TypeOK, Places, RawStates
<1>2. Records /\ Closing
  BY DEF Init, Records, Closing
<1>3. ASSUME NEW h \in Handlers PROVE HandlerInv(h)
  BY DEF Init, HandlerInv, Entry, Helpers, Links, Carries, Setting, Carrying, Either, Releasing,
         Over, Dirs
<1> QED  BY <1>1, <1>2, <1>3 DEF NodeInv

\* Close closes sockets the handlers know of, and waits for the handlers.
LEMMA CloseKeeps ==
  ASSUME NodeInv,
         \/ CloseMarks \/ CloseCancels \/ CloseReturns
         \/ \E s \in Sockets : CloseSocket(s)
  PROVE  NodeInv'
<1>0. TypeOK /\ Records /\ Closing /\ \A h \in Handlers : HandlerInv(h)
  BY DEF NodeInv
<1>1. CASE CloseMarks \/ CloseCancels \/ CloseReturns
  <2>1. UNCHANGED <<handlerVars, socketVars, helperVars>>
    BY <1>1 DEF CloseMarks, CloseCancels, CloseReturns
  <2>2. TypeOK'
    BY <1>0, <1>1 DEF CloseMarks, CloseCancels, CloseReturns, TypeOK, handlerVars, socketVars,
       helperVars
  <2>3. Closing'
    BY <1>0, <1>1 DEF CloseMarks, CloseCancels, CloseReturns, Closing, TypeOK, handlerVars
  <2>4. Records'
    BY <1>0, <2>1 DEF Records, handlerVars
  <2>5. ASSUME NEW h \in Handlers PROVE HandlerInv(h)'
    <3>1. SameAt(h)
      BY <2>1 DEF SameAt, handlerVars, socketVars, helperVars
    <3> QED  BY <1>0, <3>1, SameKeeps
  <2> QED  BY <2>2, <2>3, <2>4, <2>5 DEF NodeInv
<1>2. ASSUME NEW s \in Sockets, CloseSocket(s) PROVE NodeInv'
  <2>1. /\ UNCHANGED <<handlerVars, conns, helperVars, broken, closed, closer, hangups>>
        /\ toClose' \subseteq toClose
    BY <1>2 DEF CloseSocket
  <2>2. /\ rawIn' \in [Handlers -> RawStates] /\ rawOut' \in [Handlers -> RawStates]
        /\ \A h \in Handlers : /\ rawIn'[h] \in {rawIn[h], Shut(rawIn[h])}
                               /\ rawOut'[h] \in {rawOut[h], Shut(rawOut[h])}
    <3>1. rawIn \in [Handlers -> RawStates] /\ rawOut \in [Handlers -> RawStates]
          /\ s[2] \in Handlers
      BY <1>0 DEF TypeOK, Sockets
    <3>2. \A raw \in RawStates : Shut(raw) \in RawStates
      BY DEF Shut, RawStates
    <3>3. CASE rawIn' = [rawIn EXCEPT ![s[2]] = Shut(@)] /\ UNCHANGED rawOut
      BY <3>1, <3>2, <3>3
    <3>4. CASE rawOut' = [rawOut EXCEPT ![s[2]] = Shut(@)] /\ UNCHANGED rawIn
      BY <3>1, <3>2, <3>4
    <3> QED  BY <1>2, <3>3, <3>4 DEF CloseSocket
  <2>3. TypeOK'
    BY <1>0, <2>1, <2>2 DEF TypeOK, handlerVars, helperVars
  <2>4. Records' /\ Closing'
    BY <1>0, <2>1 DEF Records, Closing, handlerVars
  <2>5. ASSUME NEW h \in Handlers PROVE HandlerInv(h)'
    <3>1. HandlerInv(h) /\ UNCHANGED <<pc, id, exits, key, using, owners, conns, back, pacer>>
      BY <1>0, <2>1 DEF handlerVars, helperVars
    <3> QED  BY <2>2, <3>1, HelperKeeps
  <2> QED  BY <2>3, <2>4, <2>5 DEF NodeInv
<1> QED  BY <1>1, <1>2

LEMMA NodeNext == NodeInv /\ [Next]_vars => NodeInv'
<1> SUFFICES ASSUME NodeInv, [Next]_vars PROVE NodeInv'
  OBVIOUS
<1>1. ASSUME NEW h \in Handlers, TypeOK', HandlerInv(h)', Own(h), Records' PROVE NodeInv'
  BY <1>1, OwnKeeps DEF NodeInv
<1> USE DEF handlerVars
<1>2. ASSUME NEW h \in Handlers,
             \/ Accept(h) \/ ReadFails(h) \/ ReadSetup(h) \/ RefuseSetup(h) \/ ReadData(h)
             \/ Use(h) \/ WriteDone(h) \/ WriteFails(h)
      PROVE  NodeInv'
  <2>1. UNCHANGED <<circuits, owners>>
    BY <1>2 DEF Accept, ReadFails, ReadSetup, RefuseSetup, ReadData, Use, WriteDone, WriteFails
  <2> QED  BY <1>1, <1>2, <2>1, Reading, RecordsKept
<1>3. ASSUME NEW h \in Handlers,
             \/ Register(h) \/ DialDone(h) \/ DialFails(h) \/ Hold(h)
             \/ ShakeDone(h) \/ ShakeFails(h) \/ Undo(h) \/ Watch(h)
      PROVE  NodeInv'
  <2>1. UNCHANGED <<circuits, owners>> \/ Register(h) \/ Undo(h)
    BY <1>3 DEF DialDone, DialFails, Hold, ShakeDone, ShakeFails, Watch
  <2> QED  BY <1>1, <1>3, <2>1, SettingUp, RecordsKept
<1>4. ASSUME NEW h \in Handlers,
             \/ Ending(h) \/ Discard(h) \/ Teardown(h) \/ Unwatch(h) \/ CloseNext(h)
             \/ DiscardNext(h) \/ AwaitFwd(h) \/ AwaitBack(h) \/ DropNext(h) \/ AwaitBwd(h)
             \/ Destroy(h) \/ Leave(h)
      PROVE  NodeInv'
  <2>1. UNCHANGED <<circuits, owners>> \/ Teardown(h)
    BY <1>4 DEF Ending, Discard, Unwatch, CloseNext, DiscardNext, AwaitFwd, AwaitBack, DropNext,
       AwaitBwd, Destroy, Leave, Await
  <2> QED  BY <1>1, <1>4, <2>1, TearingDown, RecordsKept
<1>5. ASSUME NEW h \in Handlers,
             \/ BackRead(h) \/ BackReadFails(h) \/ BackWrap(h) \/ BackWriteDone(h)
             \/ BackWriteFails(h) \/ BackExit(h) \/ BackCloseIn(h)
      PROVE  NodeInv'
  <2>1. UNCHANGED <<circuits, owners>>
    BY <1>5 DEF BackRead, BackReadFails, BackWrap, BackWriteDone, BackWriteFails, BackExit,
       BackCloseIn
  <2> QED  BY <1>1, <1>5, <2>1, GoingBack, RecordsKept
<1>6. ASSUME NEW h \in Handlers, NEW d \in Dirs,
             \/ PacerTick(h, d) \/ PacerStops(h, d) \/ PacerWriteDone(h, d)
             \/ PacerWriteFails(h, d) \/ PacerCloses(h, d) \/ PacerDiscards(h, d)
      PROVE  NodeInv'
  <2>1. UNCHANGED <<circuits, owners>>
    BY <1>6 DEF PacerTick, PacerStops, PacerWriteDone, PacerWriteFails, PacerCloses,
       PacerDiscards
  <2> QED  BY <1>1, <1>6, <2>1, Pacing, RecordsKept
<1>7. ASSUME NEW h \in Handlers, Expire(h) \/ ExpireCloses(h) \/ Hangup(h) PROVE NodeInv'
  <2>1. UNCHANGED <<circuits, owners>>
    BY <1>7 DEF Expire, ExpireCloses, Hangup
  <2> QED  BY <1>1, <1>7, <2>1, Outside, RecordsKept
<1>8. CASE UNCHANGED vars
  <2>1. \A h \in Handlers : SameAt(h)
    BY <1>8 DEF vars, SameAt, socketVars, helperVars
  <2>2. TypeOK' /\ Records' /\ Closing'
    BY <1>8 DEF vars, NodeInv, TypeOK, Records, Closing, socketVars, helperVars, closeVars
  <2>3. ASSUME NEW h \in Handlers PROVE HandlerInv(h)'
    BY <2>1, SameKeeps DEF NodeInv
  <2> QED  BY <2>2, <2>3 DEF NodeInv
<1> QED
  BY <1>2, <1>3, <1>4, <1>5, <1>6, <1>7, <1>8, CloseKeeps
  DEF Next, Awaited, HandlerStep, BackStep, PacerStep, Unblocked

LEMMA NodeAlways == Spec => []NodeInv
  BY NodeInit, NodeNext, PTL DEF Spec

\* However links, goroutines, timers and Close interleave, a circuit on record
\* belongs to the link that owns it and its keys are live (relay.setup,
\* relay.teardown): for any number of links and identifiers.
THEOREM NodeRecordsAgree == Spec => []RecordsAgree
<1>1. NodeInv => RecordsAgree
  BY DEF NodeInv, Records, HandlerInv, Entry, RecordsAgree
<1> QED  BY <1>1, NodeAlways, PTL

\* No goroutine uses a key that has been destroyed: release waits for the
\* backward goroutine before it, and a link routes on its own circuit only.
THEOREM NodeKeysInUseAreLive == Spec => []KeysInUseAreLive
<1>1. NodeInv => KeysInUseAreLive
  <2> SUFFICES ASSUME NodeInv, NEW h \in Handlers
               PROVE  /\ pc[h] = "use" => key[using[h]] = "live"
                      /\ back[h] = "wrap" => key[h] = "live"
    BY DEF KeysInUseAreLive
  <2>1. pc[h] = "use" => key[using[h]] = "live"
    BY DEF NodeInv, HandlerInv, Entry, Carrying
  <2>2. back[h] = "wrap" => key[h] = "live"
    BY DEF NodeInv, HandlerInv, Helpers, Entry, Carries, Carrying, Releasing
  <2> QED  BY <2>1, <2>2
<1> QED  BY <1>1, NodeAlways, PTL

\* A handler that returned leaves nothing behind, and once Close has returned
\* there is no key, socket, record or goroutine left, whichever link was being
\* set up, carried or torn down when Close was called.
THEOREM NodeNothingLeft == Spec => []NothingLeft
<1>1. NodeInv => NothingLeft
  <2> SUFFICES ASSUME NodeInv PROVE NothingLeft
    OBVIOUS
  <2>1. ASSUME NEW h \in Handlers, pc[h] \in {"start", "done"}
        PROVE  /\ <<"in", h>> \notin conns /\ <<"out", h>> \notin conns
               /\ rawIn[h] \in {"none", "closed"} /\ (pc[h] = "done" => rawIn[h] = "closed")
               /\ rawOut[h] \in {"none", "closed"}
               /\ key[h] # "live" /\ owners[h] = NoOne
               /\ back[h] \in {"none", "closeIn", "done"}
               /\ \A d \in Dirs : pacer[h][d] \in {"none", "done"}
    <3>1. Entry(h) /\ Helpers(h) /\ Links(h)
      BY DEF NodeInv, HandlerInv
    <3>2. ~Carries(h)
      BY <2>1 DEF Carries, Carrying, Either
    <3>3. key[h] # "live" /\ owners[h] = NoOne
      BY <2>1, <3>1 DEF Entry, Over, Setting, Carrying, Either
    <3>4. back[h] \in {"none", "closeIn", "done"}
          /\ \A d \in Dirs : pacer[h][d] \in {"none", "done"}
      BY <2>1, <3>1, <3>2 DEF Helpers, Releasing, Dirs
    <3>5. /\ <<"in", h>> \notin conns /\ <<"out", h>> \notin conns
          /\ rawIn[h] \in {"none", "closed"} /\ (pc[h] = "done" => rawIn[h] = "closed")
          /\ rawOut[h] \in {"none", "closed"}
      BY <2>1, <3>1, <3>2 DEF Links, Releasing, Over
    <3> QED  BY <3>3, <3>4, <3>5
  <2>2. ASSUME closer = "returned"
        PROVE  conns = {} /\ \A i \in Ids : circuits[i] = NoOne
    <3>1. \A h \in Handlers : pc[h] \in {"start", "done"}
      BY <2>2 DEF NodeInv, Closing
    <3>2. \A h \in Handlers : owners[h] = NoOne
      BY <2>1, <3>1
    <3>3. \A i \in Ids : circuits[i] = NoOne
      BY <3>2, NodeAssumption DEF NodeInv, Records, TypeOK
    <3>4. ASSUME NEW s \in Sockets PROVE s \notin conns
      <4>1. PICK k \in {"in", "out"}, h \in Handlers : s = <<k, h>>
        BY DEF Sockets
      <4>2. <<"in", h>> \notin conns /\ <<"out", h>> \notin conns
        BY <2>1, <3>1
      <4> QED  BY <4>1, <4>2
    <3>5. conns \subseteq Sockets
      BY DEF NodeInv, TypeOK
    <3> QED  BY <3>3, <3>4, <3>5
  <2>3. closer = "returned" => \A h \in Handlers : pc[h] \in {"start", "done"}
    BY DEF NodeInv, Closing
  <2> QED  BY <2>1, <2>2, <2>3 DEF NothingLeft
<1> QED  BY <1>1, NodeAlways, PTL

=============================================================================

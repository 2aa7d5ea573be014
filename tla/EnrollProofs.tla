---------------------------- MODULE EnrollProofs ----------------------------
(***************************************************************************)
(* For every number of relays and runs, every lifetime and every bound on  *)
(* what goes wrong: an anchor is given out only once every relay that has  *)
(* not restarted holds the certificate and the roster of the run, a        *)
(* relay's roster comes from the CA of its certificate, a failed run's     *)
(* report names every relay that holds something of it, and a run within   *)
(* its deadline is not refused for being late unless the relay's clock is  *)
(* ahead by more than the skew less the deadline.                          *)
(*                                                                         *)
(* The first induction rests on three facts: a process keeps what it has   *)
(* taken (Kept), a process that restarted never has the pinned identity    *)
(* again (Pins), and what a run has been answered is still so at every     *)
(* process with the pinned identity (CertsTaken, RostersTaken).  The       *)
(* second, NamedInv, adds the clocks and the lists of every run (RunInv).  *)
(***************************************************************************)
EXTENDS Enrollment, TLAPS

\* the types the induction needs
EnrollType ==
    /\ proc \in [Nodes -> Nat]
    /\ installed \in [Nodes -> Runs \cup {None}]
    /\ roster \in [Nodes -> Runs \cup {None}]
    /\ pc \in [Runs -> Calls \cup {"idle", "done", "failed", "killed"}]
    /\ at \in [Runs -> Nodes]
    /\ pin \in [Runs -> [Nodes -> Nat]]
    /\ call \in [Runs -> [st : {"open", "answered"}, code : Codes, val : Nat]]
    /\ orphans \subseteq (Calls \X Runs \X Nodes)

\* identities only move away from the ones a run has read
Pins == \A e \in Runs : pc[e] # "idle" => \A r \in Nodes : pin[e][r] <= proc[r]

Same(e, r) == proc[r] = pin[e][r]
AnsweredOk(e) == call[e].st = "answered" /\ call[e].code = "ok"

\* the certificates a run has been told of are installed
CertsTaken ==
    \A e \in Runs, r \in Nodes :
        /\ Same(e, r)
        /\ \/ pc[e] = "cert" /\ r < at[e]
           \/ pc[e] = "cert" /\ r = at[e] /\ AnsweredOk(e)
           \/ pc[e] \in {"descriptor", "roster", "done"}
        => installed[r] = e

\* and so are the rosters
RostersTaken ==
    \A e \in Runs, r \in Nodes :
        /\ Same(e, r)
        /\ \/ pc[e] = "roster" /\ r < at[e]
           \/ pc[e] = "roster" /\ r = at[e] /\ AnsweredOk(e)
           \/ pc[e] = "done"
        => roster[r] = e

EnrollInv == EnrollType /\ Pins /\ CertsTaken /\ RostersTaken /\ RosterOfItsCA

\* what a step leaves of what the relays have taken
Kept ==
    /\ proc' = proc
    /\ installed' \in [Nodes -> Runs \cup {None}]
    /\ roster' \in [Nodes -> Runs \cup {None}]
    /\ \A s \in Nodes : installed[s] # None => installed'[s] = installed[s]
    /\ \A s \in Nodes : roster[s] # None => roster'[s] = roster[s]
    /\ RosterOfItsCA'

\* A handler keeps what the relay has taken, and answers a certificate or a
\* roster with success only when the relay holds it.
LEMMA HandlerKeeps ==
    ASSUME EnrollType, RosterOfItsCA,
           NEW kind, NEW e \in Runs, NEW r \in Nodes, NEW a \in Answers,
           Handle(kind, e, r, a)
    PROVE  /\ Kept
           /\ kind = "cert" /\ a.code = "ok" => installed'[r] = e
           /\ kind = "roster" /\ a.code = "ok" => roster'[r] = e
<1>1. e # None
  BY DEF Runs, None
<1>2. CASE kind = "csr" /\ HandleRequest(r, a)
  BY <1>2 DEF HandleRequest, Kept, RosterOfItsCA, EnrollType, relayVars
<1>3. CASE kind = "cert" /\ HandleCert(r, e, a)
  <2>1. CASE CertRefusal(r, e) # "none" /\ a = Says(CertRefusal(r, e)) /\ UNCHANGED relayVars
    <3>1. a.code = "ok" => installed[r] = e
      BY <2>1 DEF Says, CertRefusal, SameCert
    <3> QED  BY <1>3, <2>1, <3>1 DEF Kept, RosterOfItsCA, EnrollType, relayVars
  <2>2. CASE /\ CertRefusal(r, e) = "none"
             /\ installed' = [installed EXCEPT ![r] = e]
             /\ UNCHANGED <<proc, roster>>
    <3>1. installed[r] = None
      BY <2>2 DEF CertRefusal
    <3>2. roster[r] = None
      BY <3>1 DEF RosterOfItsCA
    <3> QED  BY <1>1, <1>3, <2>2, <3>1, <3>2 DEF Kept, RosterOfItsCA, EnrollType
  <2> QED  BY <1>3, <2>1, <2>2 DEF HandleCert
<1>4. CASE kind = "descriptor" /\ HandleDescriptor(r, a)
  BY <1>4 DEF HandleDescriptor, Kept, RosterOfItsCA, EnrollType, relayVars
<1>5. CASE kind = "roster" /\ HandleRoster(r, e, a)
  <2>1. CASE RosterRefusal(r, e) # "none" /\ a = Says(RosterRefusal(r, e)) /\ UNCHANGED relayVars
    <3>1. a.code = "ok" => roster[r] = e
      BY <2>1 DEF Says, RosterRefusal, SameRoster
    <3> QED  BY <1>5, <2>1, <3>1 DEF Kept, RosterOfItsCA, EnrollType, relayVars
  <2>2. CASE /\ RosterRefusal(r, e) = "none"
             /\ roster' = [roster EXCEPT ![r] = e]
             /\ UNCHANGED <<proc, installed>>
    <3>1. roster[r] = None /\ installed[r] = e
      BY <2>2 DEF RosterRefusal, VerifiesUnder
    <3> QED  BY <1>1, <1>5, <2>2, <3>1 DEF Kept, RosterOfItsCA, EnrollType
  <2> QED  BY <1>5, <2>1, <2>2 DEF HandleRoster
<1> QED  BY <1>2, <1>3, <1>4, <1>5 DEF Handle

\* A step that keeps what the relays have taken and leaves the runs where they
\* are, except for calls that are open again, keeps the invariant.
LEMMA StepKeeps ==
    ASSUME EnrollInv, Kept, UNCHANGED <<pc, at, pin>>,
           call' \in [Runs -> [st : {"open", "answered"}, code : Codes, val : Nat]],
           orphans' \subseteq (Calls \X Runs \X Nodes),
           \A e \in Runs : AnsweredOk(e)' => AnsweredOk(e)
    PROVE  EnrollInv'
<1>1. EnrollType'
  BY DEF EnrollInv, EnrollType, Kept
<1>2. Pins'
  BY DEF EnrollInv, Pins, Kept
<1>3. CertsTaken'
  BY DEF EnrollInv, CertsTaken, Kept, Same, Runs, None
<1>4. RostersTaken'
  BY DEF EnrollInv, RostersTaken, Kept, Same, Runs, None
<1> QED  BY <1>1, <1>2, <1>3, <1>4 DEF EnrollInv, Kept

\* A restarted process holds nothing and has no identity a run has read.
LEMMA RestartKeeps ==
    ASSUME EnrollInv, NEW r \in Nodes, Restart(r), UNCHANGED <<runVars, orphans>>
    PROVE  EnrollInv'
<1>1. EnrollType'
  BY DEF EnrollInv, EnrollType, Restart, runVars
<1>2. Pins'
  BY DEF EnrollInv, EnrollType, Pins, Restart, runVars
<1>3. \A e \in Runs, s \in Nodes :
         pc[e] # "idle" /\ Same(e, s)' => s # r /\ Same(e, s)
  BY DEF EnrollInv, EnrollType, Pins, Same, Restart, runVars
<1>4. CertsTaken'
  BY <1>3 DEF EnrollInv, EnrollType, CertsTaken, AnsweredOk, Restart, runVars
<1>5. RostersTaken'
  BY <1>3 DEF EnrollInv, EnrollType, RostersTaken, AnsweredOk, Restart, runVars
<1>6. RosterOfItsCA'
  BY DEF EnrollInv, EnrollType, RosterOfItsCA, Restart
<1> QED  BY <1>1, <1>2, <1>4, <1>5, <1>6 DEF EnrollInv

\* The answers of the handlers are answers a call can hold.
LEMMA AnswerTypes ==
    ASSUME NEW a \in Answers
    PROVE  /\ Answered(a) \in [st : {"open", "answered"}, code : Codes, val : Nat]
           /\ Answered(a).st = "answered" /\ Answered(a).code = a.code
<1>1. R \in Nat /\ MaxCrashes \in Nat
  BY EnrollAssumption
<1>2. a.code \in Codes /\ a.val \in Nat
  <2>1. CASE a \in {Says(c) : c \in Codes}
    <3>1. PICK c \in Codes : a = [code |-> c, val |-> 0]
      BY <2>1 DEF Says
    <3> QED  BY <3>1
  <2>2. CASE a \in [code : {"ok"}, val : 1..(1 + R + MaxCrashes)]
    <3>1. a.code \in {"ok"} /\ a.val \in 1..(1 + R + MaxCrashes)
      BY <2>2
    <3>2. \A i \in 1..(1 + R + MaxCrashes) : i \in Nat
      BY <1>1
    <3> QED  BY <3>1, <3>2 DEF Codes
  <2> QED  BY <2>1, <2>2 DEF Answers
<1> QED  BY <1>2 DEF Answered

\* A relay's answer to the call of a run keeps the invariant.
LEMMA ProcessKeeps ==
    ASSUME EnrollInv, NEW e \in Runs, Process(e)
    PROVE  EnrollInv'
<1>1. PICK a \in Answers : /\ Handle(pc[e], e, at[e], a)
                           /\ call' = [call EXCEPT ![e] = Answered(a)]
  BY DEF Process
<1>2. UNCHANGED <<pc, at, pin, orphans>>
  BY DEF Process
<1>3. at[e] \in Nodes
  BY DEF EnrollInv, EnrollType
<1>4. /\ Kept
      /\ pc[e] = "cert" /\ a.code = "ok" => installed'[at[e]] = e
      /\ pc[e] = "roster" /\ a.code = "ok" => roster'[at[e]] = e
  BY <1>1, <1>3, HandlerKeeps DEF EnrollInv
<1>5. call' \in [Runs -> [st : {"open", "answered"}, code : Codes, val : Nat]]
  BY <1>1, AnswerTypes DEF EnrollInv, EnrollType
<1>6. /\ AnsweredOk(e)' => a.code = "ok"
      /\ \A d \in Runs : d # e => (AnsweredOk(d)' <=> AnsweredOk(d))
  BY <1>1, AnswerTypes DEF EnrollInv, EnrollType, AnsweredOk
<1>7. EnrollType'
  BY <1>2, <1>4, <1>5 DEF EnrollInv, EnrollType, Kept
<1>8. Pins'
  BY <1>2, <1>4 DEF EnrollInv, Pins, Kept
<1>9. CertsTaken'
  BY <1>2, <1>4, <1>6 DEF EnrollInv, CertsTaken, Kept, Same, Runs, None
<1>10. RostersTaken'
  BY <1>2, <1>4, <1>6 DEF EnrollInv, RostersTaken, Kept, Same, Runs, None
<1> QED  BY <1>4, <1>7, <1>8, <1>9, <1>10 DEF EnrollInv, Kept

\* A step that leaves the relays alone and takes run e somewhere else.
Moves(e) ==
    /\ UNCHANGED relayVars
    /\ \E p \in Calls \cup {"done", "failed", "killed"} : pc' = [pc EXCEPT ![e] = p]
    /\ \E i \in Nodes : at' = [at EXCEPT ![e] = i]
    /\ call' = [call EXCEPT ![e] = Open]
    /\ orphans' \subseteq (Calls \X Runs \X Nodes)

\* A run that moves keeps the invariant if it counts as told of nothing but what
\* it has been told of.
LEMMA MoveKeeps ==
    ASSUME EnrollInv, NEW e \in Runs, Moves(e),
           pin' \in [Runs -> [Nodes -> Nat]],
           \A d \in Runs : d # e => pin'[d] = pin[d],
           \A r \in Nodes : pin'[e][r] <= proc[r],
           \A r \in Nodes :
              /\ Same(e, r)'
              /\ \/ pc'[e] = "cert" /\ r < at'[e]
                 \/ pc'[e] \in {"descriptor", "roster", "done"}
              => installed[r] = e,
           \A r \in Nodes :
              /\ Same(e, r)'
              /\ \/ pc'[e] = "roster" /\ r < at'[e]
                 \/ pc'[e] = "done"
              => roster[r] = e
    PROVE  EnrollInv'
<1>1. EnrollType'
  <2>1. Open \in [st : {"open", "answered"}, code : Codes, val : Nat]
    BY DEF Open, Codes
  <2>2. call' \in [Runs -> [st : {"open", "answered"}, code : Codes, val : Nat]]
    BY <2>1 DEF EnrollInv, EnrollType, Moves
  <2>3. at' \in [Runs -> Nodes]
    BY DEF EnrollInv, EnrollType, Moves
  <2>4. pc' \in [Runs -> Calls \cup {"idle", "done", "failed", "killed"}]
    BY DEF EnrollInv, EnrollType, Moves
  <2>5. UNCHANGED <<proc, installed, roster>> /\ orphans' \subseteq (Calls \X Runs \X Nodes)
    BY DEF Moves, relayVars
  <2> QED  BY <2>2, <2>3, <2>4, <2>5 DEF EnrollInv, EnrollType
<1>2. \A d \in Runs : d # e =>
         pc'[d] = pc[d] /\ at'[d] = at[d] /\ call'[d] = call[d] /\ pin'[d] = pin[d]
  BY DEF EnrollInv, EnrollType, Moves
<1>3. ~AnsweredOk(e)'
  BY DEF EnrollInv, EnrollType, Moves, Open, AnsweredOk
<1>4. proc' = proc /\ installed' = installed /\ roster' = roster
  BY DEF Moves, relayVars
<1>5. Pins'
  BY <1>2, <1>4 DEF EnrollInv, Pins
<1>6. CertsTaken'
  <2> SUFFICES ASSUME NEW d \in Runs, NEW r \in Nodes, Same(d, r)',
                      \/ pc'[d] = "cert" /\ r < at'[d]
                      \/ pc'[d] = "cert" /\ r = at'[d] /\ AnsweredOk(d)'
                      \/ pc'[d] \in {"descriptor", "roster", "done"}
               PROVE  installed[r] = d
    BY <1>4 DEF CertsTaken
  <2>1. CASE d = e
    BY <1>3, <2>1
  <2>2. CASE d # e
    BY <1>2, <1>4, <2>2 DEF EnrollInv, CertsTaken, Same, AnsweredOk
  <2> QED  BY <2>1, <2>2
<1>7. RostersTaken'
  <2> SUFFICES ASSUME NEW d \in Runs, NEW r \in Nodes, Same(d, r)',
                      \/ pc'[d] = "roster" /\ r < at'[d]
                      \/ pc'[d] = "roster" /\ r = at'[d] /\ AnsweredOk(d)'
                      \/ pc'[d] = "done"
               PROVE  roster[r] = d
    BY <1>4 DEF RostersTaken
  <2>1. CASE d = e
    BY <1>3, <2>1
  <2>2. CASE d # e
    BY <1>2, <1>4, <2>2 DEF EnrollInv, RostersTaken, Same, AnsweredOk
  <2> QED  BY <2>1, <2>2
<1>8. RosterOfItsCA'
  BY <1>4 DEF EnrollInv, RosterOfItsCA
<1> QED  BY <1>1, <1>5, <1>6, <1>7, <1>8 DEF EnrollInv

\* A request left behind by a run is a call of it.
LEMMA LeftBehindType ==
    ASSUME EnrollInv, NEW e \in Runs, Active(e), LeftBehind(e)
    PROVE  orphans' \subseteq (Calls \X Runs \X Nodes)
BY DEF EnrollInv, EnrollType, Active, LeftBehind

\* A run that is over holds nothing the invariant speaks of.
LEMMA OverKeeps ==
    ASSUME EnrollInv, NEW e \in Runs, Active(e), Forget(e),
           UNCHANGED <<relayVars, pin>>,
           orphans' \subseteq (Calls \X Runs \X Nodes),
           \E p \in {"failed", "killed"} : pc' = [pc EXCEPT ![e] = p]
    PROVE  EnrollInv'
<1>1. PICK p \in {"failed", "killed"} : pc' = [pc EXCEPT ![e] = p]
  OBVIOUS
<1>2. pc'[e] = p
  BY <1>1 DEF EnrollInv, EnrollType
<1>3. 1 \in Nodes
  BY EnrollAssumption DEF Nodes
<1>4. Moves(e)
  BY <1>1, <1>3 DEF Moves, Forget
<1>5. \A r \in Nodes : pin'[e][r] <= proc[r]
  BY DEF EnrollInv, Pins, Active, Calls
<1> QED  BY <1>2, <1>4, <1>5, MoveKeeps DEF EnrollInv, EnrollType

\* A run that goes on has been told what it counts as told of.
LEMMA ProceedKeeps ==
    ASSUME EnrollInv, NEW e \in Runs, Active(e), call[e].st = "answered", Proceed(e),
           UNCHANGED <<relayVars, orphans>>
    PROVE  EnrollInv'
<1>1. AnsweredOk(e) /\ pin' = pin /\ proc' = proc
  BY DEF Proceed, Passes, AnsweredOk, relayVars
<1>2. N \in Nat \ {0} /\ at[e] \in 1..N /\ pc[e] \in Calls
  BY EnrollAssumption DEF EnrollInv, EnrollType, Nodes, Active
<1>3. \A r \in Nodes : pin'[e][r] <= proc[r]
  BY <1>1 DEF EnrollInv, Pins, Active, Calls
<1>4. \A r \in Nodes :
         Same(e, r) /\ (\/ pc[e] = "cert" /\ r <= at[e]
                        \/ pc[e] \in {"descriptor", "roster"}) => installed[r] = e
  BY <1>1, <1>2 DEF EnrollInv, CertsTaken, Nodes
<1>5. \A r \in Nodes : Same(e, r) /\ pc[e] = "roster" /\ r <= at[e] => roster[r] = e
  BY <1>1, <1>2 DEF EnrollInv, RostersTaken, Nodes
<1>6. \A r \in Nodes : Same(e, r)' <=> Same(e, r)
  BY <1>1 DEF Same
<1>7. CASE More(e)
  <2>1. /\ at' = [at EXCEPT ![e] = at[e] + 1] /\ pc' = pc
        /\ at[e] + 1 \in Nodes
    BY <1>2, <1>7 DEF Proceed, More, Nodes
  <2>2. at'[e] = at[e] + 1 /\ pc' = [pc EXCEPT ![e] = pc[e]]
    BY <2>1 DEF EnrollInv, EnrollType
  <2>3. Moves(e)
    BY <1>2, <2>1, <2>2 DEF Moves, Proceed, EnrollInv, EnrollType
  <2>4. \A r \in Nodes : r < at'[e] => r <= at[e]
    BY <1>2, <2>2 DEF Nodes
  <2>5. pc'[e] = pc[e] /\ pc[e] # "done"
    BY <1>2, <2>1 DEF Calls
  <2> QED  BY <1>1, <1>3, <1>4, <1>5, <1>6, <2>3, <2>4, <2>5, MoveKeeps
           DEF EnrollInv, EnrollType
<1>8. CASE ~More(e)
  <2>1. at' = [at EXCEPT ![e] = 1] /\ pc' = [pc EXCEPT ![e] = After(pc[e])]
    BY <1>8 DEF Proceed
  <2>2. at'[e] = 1 /\ pc'[e] = After(pc[e]) /\ 1 \in Nodes
    BY <1>2, <2>1 DEF EnrollInv, EnrollType, Nodes
  <2>3. /\ pc[e] = "csr" => After(pc[e]) = "cert"
        /\ pc[e] = "cert" => After(pc[e]) = "descriptor"
        /\ pc[e] = "descriptor" => After(pc[e]) = "roster"
        /\ pc[e] = "roster" => After(pc[e]) = "done"
    BY DEF After
  <2>4. Moves(e)
    BY <1>2, <2>1, <2>2, <2>3 DEF Moves, Proceed, Calls, EnrollInv, EnrollType
  <2>5. \A r \in Nodes : r <= at[e] /\ ~(r < at'[e])
    BY <1>2, <1>8, <2>2 DEF More, Nodes
  <2>6. \A r \in Nodes :
           Same(e, r)' /\ pc'[e] \in {"descriptor", "roster", "done"} => installed[r] = e
    BY <1>2, <1>4, <1>6, <2>2, <2>3, <2>5 DEF Calls
  <2>7. \A r \in Nodes : Same(e, r)' /\ pc'[e] = "done" => roster[r] = e
    BY <1>2, <1>5, <1>6, <2>2, <2>3, <2>5 DEF Calls
  <2> QED  BY <1>1, <1>3, <2>4, <2>5, <2>6, <2>7, MoveKeeps DEF EnrollInv, EnrollType
<1> QED  BY <1>7, <1>8

\* The invariant holds before anything has happened.
LEMMA EnrollInvInit == Init => EnrollInv
BY EnrollAssumption
   DEF Init, EnrollInv, EnrollType, Pins, CertsTaken, RostersTaken, RosterOfItsCA,
       Nodes, Runs, None, Open, Codes, Calls

\* Every step keeps the invariant.
LEMMA EnrollInvNext == EnrollInv /\ [Next]_vars => EnrollInv'
<1> SUFFICES ASSUME EnrollInv, [Next]_vars PROVE EnrollInv'
  OBVIOUS
<1>0. ASSUME UNCHANGED <<proc, installed, roster>> PROVE Kept
  BY <1>0 DEF Kept, EnrollInv, EnrollType, RosterOfItsCA
<1>1. CASE UNCHANGED vars
  BY <1>0, <1>1, StepKeeps DEF vars, relayVars, runVars, EnrollInv, EnrollType, AnsweredOk
<1>2. CASE Tick
  BY <1>0, <1>2, StepKeeps DEF Tick, relayVars, runVars, EnrollInv, EnrollType, AnsweredOk
<1>3. ASSUME NEW e \in Runs, Start(e) PROVE EnrollInv'
  <2>1. /\ UNCHANGED <<proc, installed, roster, at, call, orphans>>
        /\ pc' = [pc EXCEPT ![e] = "csr"] /\ pin' = [pin EXCEPT ![e] = proc]
    BY <1>3 DEF Start, relayVars
  <2>2. EnrollType'
    BY <2>1 DEF EnrollInv, EnrollType, Calls
  <2>3. Pins'
    BY <2>1 DEF EnrollInv, EnrollType, Pins
  <2>4. \A d \in Runs : pc'[d] # "csr" => pc'[d] = pc[d] /\ pin'[d] = pin[d]
    BY <2>1 DEF EnrollInv, EnrollType
  <2>5. CertsTaken' /\ RostersTaken' /\ RosterOfItsCA'
    BY <2>1, <2>4 DEF EnrollInv, CertsTaken, RostersTaken, RosterOfItsCA, Same, AnsweredOk
  <2> QED  BY <2>2, <2>3, <2>5 DEF EnrollInv
<1>4. ASSUME NEW e \in Runs, Process(e) PROVE EnrollInv'
  BY <1>4, ProcessKeeps
<1>5. ASSUME NEW e \in Runs, Receive(e) PROVE EnrollInv'
  <2>1. /\ Active(e) /\ call[e].st = "answered" /\ UNCHANGED <<relayVars, orphans>>
        /\ Proceed(e) \/ \E code \in Codes \cup {"transport"} : Fail(e, code)
    BY <1>5 DEF Receive, IssueFails, BodyFails, EnrollInv, EnrollType, Codes
  <2>2. CASE Proceed(e)
    BY <2>1, <2>2, ProceedKeeps
  <2>3. CASE \E code \in Codes \cup {"transport"} : Fail(e, code)
    BY <2>1, <2>3, OverKeeps DEF Fail, EnrollInv, EnrollType
  <2> QED  BY <2>1, <2>2, <2>3
<1>6. ASSUME NEW e \in Runs, Expire(e) PROVE EnrollInv'
  BY <1>6, LeftBehindType, OverKeeps DEF Expire, Fail
<1>7. ASSUME NEW e \in Runs, Kill(e) PROVE EnrollInv'
  BY <1>7, LeftBehindType, OverKeeps DEF Kill
<1>8. ASSUME NEW e \in Runs, Lose(e) PROVE EnrollInv'
  <2>1. /\ Kept /\ UNCHANGED <<pc, at, pin>>
        /\ call' = [call EXCEPT ![e] = Open]
        /\ orphans' \subseteq (Calls \X Runs \X Nodes)
    BY <1>0, <1>8, LeftBehindType DEF Lose, relayVars
  <2>2. call' \in [Runs -> [st : {"open", "answered"}, code : Codes, val : Nat]]
    BY <2>1 DEF EnrollInv, EnrollType, Open, Codes
  <2>3. \A d \in Runs : AnsweredOk(d)' => AnsweredOk(d)
    BY <2>1 DEF EnrollInv, EnrollType, AnsweredOk, Open
  <2> QED  BY <2>1, <2>2, <2>3, StepKeeps
<1>9. ASSUME NEW e \in Runs, NEW r \in Nodes, OperatorRestart(e, r) PROVE EnrollInv'
  BY <1>9, RestartKeeps DEF OperatorRestart
<1>10. ASSUME NEW r \in Nodes, Crash(r) PROVE EnrollInv'
  BY <1>10, RestartKeeps DEF Crash
<1>11. ASSUME NEW r \in Nodes, Resign(r) PROVE EnrollInv'
  BY <1>0, <1>11, StepKeeps DEF Resign, runVars, EnrollInv, EnrollType, AnsweredOk
<1>12. ASSUME NEW o \in orphans, ProcessOrphan(o) PROVE EnrollInv'
  <2>1. o[2] \in Runs /\ o[3] \in Nodes
    BY DEF EnrollInv, EnrollType
  <2>2. Kept
    BY <1>12, <2>1, HandlerKeeps DEF ProcessOrphan, EnrollInv
  <2> QED  BY <1>12, <2>2, StepKeeps DEF ProcessOrphan, runVars, EnrollInv, EnrollType, AnsweredOk
<1> QED
  BY <1>1, <1>2, <1>3, <1>4, <1>5, <1>6, <1>7, <1>8, <1>9, <1>10, <1>11, <1>12 DEF Next, RunStep

\* For every roster and every number of runs: a run that has given out its
\* anchor has left its certificate and its roster at every relay that still is
\* the process whose log the operator read (enrollment.run, enroll.go:282-403).
THEOREM EnrollAnchor == Spec => []AnchorMeansEnrolled
<1>1. EnrollInv => AnchorMeansEnrolled
  BY DEF EnrollInv, CertsTaken, RostersTaken, AnchorMeansEnrolled, Same
<1> QED  BY <1>1, EnrollInvInit, EnrollInvNext, PTL DEF Spec

\* For every roster and every number of runs: a relay never holds the roster of
\* one CA next to the certificate of another (handleRoster, peers.go:329-379).
THEOREM EnrollRosterOfItsCA == Spec => []RosterOfItsCA
<1>1. EnrollInv => RosterOfItsCA
  BY DEF EnrollInv
<1> QED  BY <1>1, EnrollInvInit, EnrollInvNext, PTL DEF Spec

-----------------------------------------------------------------------------
(* Reports and windows.                                                     *)
(*                                                                         *)
(* A run is active for at most Timeout, and what it was told a relay took,  *)
(* the relay took since the run started: so no window of the relay, each at *)
(* least as long, closes on the run. A relay that holds something of a run, *)
(* or may yet take it from a copy still on its way, is the one the run is   *)
(* calling or one its lists name: an answer that would leave it out comes   *)
(* only from a process the operator never saw, or after the certificate     *)
(* has run out.                                                             *)

\* what a relay answers, by the call; nothing before the run has started
AnswersFit(e) ==
    /\ pc[e] = "idle" => call[e].st = "open" /\ at[e] = 1
    /\ Active(e) /\ call[e].st = "answered" =>
        /\ pc[e] = "csr" => call[e].code \in {"ok", "installed"}
        /\ pc[e] = "cert" =>
              call[e].code \in {"ok", "installed", "no request", "stale", "bad", "error"}
        /\ pc[e] = "descriptor" =>
              /\ call[e].code \in {"ok", "unavailable"}
              /\ call[e].code = "ok" => call[e].val \in Runs
        /\ pc[e] = "roster" => call[e].code \notin {"installed", "error"}

\* when a run started and issued
Timing(e) ==
    /\ Active(e) => /\ started[e] \in Times /\ started[e] <= now
                    /\ now <= started[e] + Timeout
    /\ Active(e) /\ pc[e] # "csr" => started[e] <= issuedAt[e]
    /\ issuedAt[e] <= now

\* a relay took the certificate it holds from its run, in its time
Holding(e) ==
    \A r \in Nodes : installed[r] = e =>
        /\ Same(e, r) /\ pc[e] \notin {"idle", "csr"}
        /\ Active(e) => started[e] <= installedAt[r]

\* the requests a run was answered are still open, or gone into a certificate
RequestsTaken(e) ==
    \A r \in Nodes :
        /\ Active(e) /\ Same(e, r)
        /\ pc[e] = "csr" => r < at[e] \/ (r = at[e] /\ AnsweredOk(e))
        => installed[r] # None \/ started[e] <= requestAt[r]

\* NeverRefusedLate of one run
NotLate(e) ==
    /\ Active(e) /\ call[e].st = "answered" /\ Same(e, at[e])
    => /\ call[e].code \notin {"no request", "early", "late"}
       /\ call[e].code = "stale" => ahead[at[e]] > Skew - Timeout

\* the descriptors a run has read back were signed
SignedTaken(e) ==
    \A r \in Nodes :
        /\ Same(e, r)
        /\ \/ pc[e] = "descriptor" /\ r < at[e]
           \/ pc[e] = "descriptor" /\ r = at[e] /\ AnsweredOk(e)
           \/ pc[e] = "roster"
        => out[r]

\* the process still is the one the run certified, and the certificate valid
CanHold(e, r) == Same(e, r) /\ Reads(r, now) < NotAfter(e)

\* and the relay, without a certificate, has no request open that makes it stale
CanTake(e, r) == CanHold(e, r) /\ installed[r] = None /\ ~Stale(r, e)

\* an answer that names nobody
Refused(e) == call[e].st = "answered" /\ call[e].code \notin {"ok", "installed", "error"}

CertTouched(e, r) == installed[r] = e \/ (<<"cert", e, r>> \in orphans /\ CanTake(e, r))
RosterTouched(e, r) == roster[r] = e \/ (<<"roster", e, r>> \in orphans /\ CanHold(e, r))

CertNamed(e, r) == r \in named[e].installed \cup named[e].mayHold \cup named[e].hinted
RosterNamed(e, r) == r \in named[e].rostered \cup named[e].mayRoster

CertsNoted(e) ==
    \A r \in Nodes : CertTouched(e, r) =>
        \/ pc[e] = "cert" /\ r = at[e] /\ ~Refused(e)
        \/ CertNamed(e, r)
        \/ pc[e] = "killed"

RostersNoted(e) ==
    \A r \in Nodes : RosterTouched(e, r) =>
        \/ pc[e] = "roster" /\ r = at[e] /\ ~Refused(e)
        \/ RosterNamed(e, r)
        \/ pc[e] = "killed"

\* copies are of calls the run has made
OrphansMade(e) ==
    \A r \in Nodes :
        /\ <<"cert", e, r>> \in orphans => pc[e] \notin {"idle", "csr"}
        /\ <<"roster", e, r>> \in orphans => pc[e] \notin {"idle", "csr", "cert", "descriptor"}

RunInv(e) ==
    /\ AnswersFit(e) /\ Timing(e) /\ Holding(e) /\ RequestsTaken(e) /\ NotLate(e)
    /\ SignedTaken(e) /\ CertsNoted(e) /\ RostersNoted(e) /\ OrphansMade(e)

NoFuture == \A r \in Nodes : requestAt[r] <= now

NamedInv == EnrollInv /\ TypeOK /\ NoFuture /\ \A e \in Runs : RunInv(e)

-----------------------------------------------------------------------------
(* What a handler does to a relay.                                          *)

\* One relay takes what run e sends it, or signs what was left open, or nothing.
Takes(kind, e, r) ==
    /\ proc' = proc /\ ahead' = ahead
    /\ \A s \in Nodes :
          \/ installed'[s] = installed[s] /\ installedAt'[s] = installedAt[s]
          \/ /\ kind = "cert" /\ s = r
             /\ installed[s] = None /\ installed'[s] = e /\ installedAt'[s] = now
             /\ CanTake(e, s)
    /\ \A s \in Nodes :
          \/ requestAt'[s] = requestAt[s]
          \/ requestAt'[s] = now
          \/ requestAt'[s] = Never /\ installed'[s] # None
    /\ \A s \in Nodes : out[s] => out'[s]
    /\ \A s \in Nodes :
          \/ roster'[s] = roster[s]
          \/ /\ kind = "roster" /\ s = r
             /\ roster[s] = None /\ roster'[s] = e
             /\ installed[s] = e /\ Reads(s, now) < NotAfter(e)

RelayType ==
    /\ ahead \in Clocks
    /\ proc \in [Nodes -> Nat \ {0}]
    /\ requestAt \in [Nodes -> Times \cup {Never}]
    /\ installed \in [Nodes -> Runs \cup {None}]
    /\ installedAt \in [Nodes -> Times \cup {Never}]
    /\ out \in [Nodes -> BOOLEAN]
    /\ roster \in [Nodes -> Runs \cup {None}]

LEMMA RequestTakes ==
    ASSUME TypeOK, NEW e \in Runs, NEW r \in Nodes, NEW a, HandleRequest(r, a)
    PROVE  /\ Takes("csr", e, r) /\ RelayType'
           /\ a.code \in {"ok", "installed"}
           /\ a.code = "ok" => requestAt'[r] = now
<1> USE DEF TypeOK
<1>1. CASE installed[r] # None /\ a = Says("installed") /\ UNCHANGED relayVars
  BY <1>1 DEF Takes, RelayType, relayVars, Says
<1>2. CASE /\ a = [code |-> "ok", val |-> proc[r]]
           /\ requestAt' = [requestAt EXCEPT ![r] = now]
           /\ UNCHANGED <<ahead, proc, installed, installedAt, out, roster>>
  BY <1>2 DEF Takes, RelayType
<1> QED  BY <1>1, <1>2 DEF HandleRequest

LEMMA CertTakes ==
    ASSUME TypeOK, NEW e \in Runs, NEW r \in Nodes, NEW a, HandleCert(r, e, a)
    PROVE  /\ Takes("cert", e, r) /\ RelayType' /\ faults' \in 0..MaxFaults
           /\ a.code \in {"ok", "installed", "no request", "stale", "bad", "error"}
           /\ a.code \notin {"ok", "installed", "error"} =>
                 /\ UNCHANGED relayVars /\ installed[r] = None
                 /\ a.code = "no request" => ~Waits(r)
                 /\ a.code = "stale" => Stale(r, e)
                 /\ a.code = "bad" => ~Installs(r, e)
<1> USE DEF TypeOK
<1>0. e # None
  BY DEF Runs, None
<1>1. CASE CertRefusal(r, e) # "none" /\ a = Says(CertRefusal(r, e)) /\ UNCHANGED <<relayVars, faults>>
  <2>1. Takes("cert", e, r) /\ RelayType' /\ faults' \in 0..MaxFaults
    BY <1>1 DEF Takes, RelayType, relayVars
  <2>2. a.code = CertRefusal(r, e)
    BY <1>1 DEF Says
  <2>3. /\ CertRefusal(r, e) \in {"ok", "installed", "no request", "stale", "bad"}
        /\ CertRefusal(r, e) \notin {"ok", "installed"} => installed[r] = None
        /\ CertRefusal(r, e) = "no request" => ~Waits(r)
        /\ CertRefusal(r, e) = "stale" => Stale(r, e)
        /\ CertRefusal(r, e) = "bad" => ~Installs(r, e)
    BY <1>1 DEF CertRefusal
  <2>4. UNCHANGED relayVars
    BY <1>1
  <2> QED  BY <2>1, <2>2, <2>3, <2>4 DEF relayVars
<1>2. CASE CertRefusal(r, e) = "none"
  <2>1. /\ requestAt' = [requestAt EXCEPT ![r] = Never]
        /\ installed' = [installed EXCEPT ![r] = e]
        /\ installedAt' = [installedAt EXCEPT ![r] = now]
        /\ UNCHANGED <<ahead, proc, roster>>
        /\ \/ /\ a = Says("ok")
              /\ out' = [out EXCEPT ![r] = TRUE]
              /\ UNCHANGED faults
           \/ /\ faults < MaxFaults
              /\ faults' = faults + 1
              /\ a = Says("error")
              /\ UNCHANGED out
    BY <1>2 DEF HandleCert
  <2>2. installed[r] = None /\ ~Stale(r, e) /\ Installs(r, e)
    BY <1>2 DEF CertRefusal
  <2>3. CanTake(e, r)
    BY <2>2 DEF CanTake, CanHold, Same, Installs
  <2>4. Takes("cert", e, r)
    BY <1>0, <2>1, <2>2, <2>3 DEF Takes
  <2>5. RelayType'
    BY <2>1 DEF RelayType
  <2>6. faults' \in 0..MaxFaults
    BY <2>1, EnrollAssumption
  <2>7. a.code \in {"ok", "error"}
    BY <2>1 DEF Says
  <2> QED  BY <2>4, <2>5, <2>6, <2>7
<1> QED  BY <1>1, <1>2 DEF HandleCert

LEMMA DescriptorTakes ==
    ASSUME TypeOK, NEW e \in Runs, NEW r \in Nodes, NEW a, HandleDescriptor(r, a)
    PROVE  /\ Takes("descriptor", e, r) /\ RelayType'
           /\ a.code \in {"ok", "unavailable"}
           /\ a.code = "ok" => out'[r] /\ a.val \in Runs
<1> USE DEF TypeOK
<1>1. Takes("descriptor", e, r) /\ RelayType' /\ out' = out
  BY DEF HandleDescriptor, Takes, RelayType, relayVars
<1>2. CASE InService(r)
  <2>1. a.code = "ok" /\ a.val = installed[r]
    BY <1>2 DEF HandleDescriptor
  <2> QED  BY <1>1, <1>2, <2>1 DEF InService, CertValid
<1>3. CASE ~InService(r)
  BY <1>1, <1>3 DEF HandleDescriptor, Says
<1> QED  BY <1>2, <1>3

LEMMA RosterTakes ==
    ASSUME TypeOK, NEW e \in Runs, NEW r \in Nodes, NEW a, HandleRoster(r, e, a)
    PROVE  /\ Takes("roster", e, r) /\ RelayType'
           /\ a.code \in {"ok", "roster set", "early", "late", "no bundle", "bad"}
           /\ a.code # "ok" =>
                 /\ UNCHANGED relayVars /\ roster[r] # e
                 /\ a.code = "roster set" => roster[r] # None
                 /\ a.code = "early" => installed[r] = None
                 /\ a.code = "late" => now - installedAt[r] > InstallWindow
                 /\ a.code = "no bundle" => ~InService(r)
                 /\ a.code = "bad" => installed[r] # e
<1> USE DEF TypeOK
<1>0. e # None
  BY DEF Runs, None
<1>1. CASE RosterRefusal(r, e) # "none" /\ a = Says(RosterRefusal(r, e)) /\ UNCHANGED relayVars
  <2>1. Takes("roster", e, r) /\ RelayType'
    BY <1>1 DEF Takes, RelayType, relayVars
  <2>2. a.code = RosterRefusal(r, e)
    BY <1>1 DEF Says
  <2>3. /\ RosterRefusal(r, e) \in {"ok", "roster set", "early", "late", "no bundle", "bad"}
        /\ RosterRefusal(r, e) # "ok" => roster[r] # e
        /\ RosterRefusal(r, e) = "roster set" => roster[r] # None
        /\ RosterRefusal(r, e) = "early" => installed[r] = None
        /\ RosterRefusal(r, e) = "late" => now - installedAt[r] > InstallWindow
        /\ RosterRefusal(r, e) = "no bundle" => ~InService(r)
        /\ RosterRefusal(r, e) = "bad" => installed[r] # e
    BY <1>1 DEF RosterRefusal, SameRoster, VerifiesUnder
  <2> QED  BY <1>1, <2>1, <2>2, <2>3 DEF relayVars
<1>2. CASE /\ RosterRefusal(r, e) = "none"
           /\ a = Says("ok")
           /\ roster' = [roster EXCEPT ![r] = e]
           /\ UNCHANGED <<ahead, proc, requestAt, installed, installedAt, out>>
  <2>1. roster[r] = None /\ installed[r] = e /\ InService(r)
    BY <1>2 DEF RosterRefusal, VerifiesUnder
  <2>2. Reads(r, now) < NotAfter(e)
    BY <2>1 DEF InService, CertValid
  <2>3. Takes("roster", e, r)
    BY <1>2, <2>1, <2>2 DEF Takes
  <2> QED  BY <1>2, <2>3 DEF RelayType, Says
<1> QED  BY <1>1, <1>2 DEF HandleRoster

\* Whatever the call, a handler takes at most what it is sent.
LEMMA HandleTakes ==
    ASSUME TypeOK, NEW kind, NEW e \in Runs, NEW r \in Nodes, NEW a, Handle(kind, e, r, a)
    PROVE  Takes(kind, e, r) /\ RelayType' /\ faults' \in 0..MaxFaults
<1>1. faults \in 0..MaxFaults
  BY DEF TypeOK
<1>2. CASE kind = "csr" /\ HandleRequest(r, a) /\ UNCHANGED faults
  BY <1>1, <1>2, RequestTakes
<1>3. CASE kind = "cert" /\ HandleCert(r, e, a)
  BY <1>3, CertTakes
<1>4. CASE kind = "descriptor" /\ HandleDescriptor(r, a) /\ UNCHANGED faults
  BY <1>1, <1>4, DescriptorTakes
<1>5. CASE kind = "roster" /\ HandleRoster(r, e, a) /\ UNCHANGED faults
  BY <1>1, <1>5, RosterTakes
<1> QED  BY <1>2, <1>3, <1>4, <1>5 DEF Handle

-----------------------------------------------------------------------------
(* Types.                                                                   *)

LEMMA NotedFields ==
    ASSUME TypeOK, NEW e \in Runs, NEW code
    PROVE  /\ Noted(e, code) \in [{"installed", "mayHold", "hinted", "rostered", "mayRoster"}
                                    -> SUBSET Nodes]
           /\ named[e].installed \subseteq Noted(e, code).installed
           /\ named[e].mayHold \subseteq Noted(e, code).mayHold
           /\ named[e].hinted \subseteq Noted(e, code).hinted
           /\ named[e].rostered \subseteq Noted(e, code).rostered
           /\ named[e].mayRoster \subseteq Noted(e, code).mayRoster
           /\ pc[e] = "cert" /\ code = "ok" => at[e] \in Noted(e, code).installed
           /\ pc[e] = "cert" /\ code \in {"transport", "error"} => at[e] \in Noted(e, code).mayHold
           /\ pc[e] = "cert" /\ code = "installed" => at[e] \in Noted(e, code).hinted
           /\ pc[e] = "roster" /\ code = "ok" => at[e] \in Noted(e, code).rostered
           /\ pc[e] = "roster" /\ code \in {"transport", "error"}
                => at[e] \in Noted(e, code).mayRoster
<1>1. at[e] \in Nodes
      /\ named[e] \in [{"installed", "mayHold", "hinted", "rostered", "mayRoster"}
                         -> SUBSET Nodes]
  BY DEF TypeOK
<1> DEFINE n == Noted(e, code)
<1>2. /\ n.installed = IF pc[e] = "cert" /\ code = "ok"
                         THEN named[e].installed \cup {at[e]} ELSE named[e].installed
      /\ n.mayHold = IF pc[e] = "cert" /\ code \in {"transport", "error"}
                       THEN named[e].mayHold \cup {at[e]} ELSE named[e].mayHold
      /\ n.hinted = IF pc[e] \in {"csr", "cert"} /\ code = "installed"
                      THEN named[e].hinted \cup {at[e]} ELSE named[e].hinted
      /\ n.rostered = IF pc[e] = "roster" /\ code = "ok"
                        THEN named[e].rostered \cup {at[e]} ELSE named[e].rostered
      /\ n.mayRoster = IF pc[e] = "roster" /\ code \in {"transport", "error"}
                         THEN named[e].mayRoster \cup {at[e]} ELSE named[e].mayRoster
      /\ n = [installed |-> n.installed, mayHold |-> n.mayHold, hinted |-> n.hinted,
              rostered |-> n.rostered, mayRoster |-> n.mayRoster]
  BY DEF Noted, Ambiguous, AlreadyInstalled
<1>3. /\ n.installed \in SUBSET Nodes /\ n.mayHold \in SUBSET Nodes /\ n.hinted \in SUBSET Nodes
      /\ n.rostered \in SUBSET Nodes /\ n.mayRoster \in SUBSET Nodes
  BY <1>1, <1>2
<1> HIDE DEF n
<1>4. n \in [{"installed", "mayHold", "hinted", "rostered", "mayRoster"} -> SUBSET Nodes]
  BY <1>2, <1>3
<1>5. /\ named[e].installed \subseteq n.installed
      /\ named[e].mayHold \subseteq n.mayHold
      /\ named[e].hinted \subseteq n.hinted
      /\ named[e].rostered \subseteq n.rostered
      /\ named[e].mayRoster \subseteq n.mayRoster
  BY <1>2
<1>6. /\ pc[e] = "cert" /\ code = "ok" => at[e] \in n.installed
      /\ pc[e] = "cert" /\ code \in {"transport", "error"} => at[e] \in n.mayHold
      /\ pc[e] = "cert" /\ code = "installed" => at[e] \in n.hinted
      /\ pc[e] = "roster" /\ code = "ok" => at[e] \in n.rostered
      /\ pc[e] = "roster" /\ code \in {"transport", "error"} => at[e] \in n.mayRoster
  BY <1>2
<1> QED  BY <1>4, <1>5, <1>6 DEF n

\* the types of a run that the induction so far did not need
RunType ==
    /\ started \in [Runs -> Times \cup {Never}]
    /\ issuedAt \in [Runs -> Times \cup {Never}]
    /\ got \in [Runs -> SUBSET Runs]
    /\ named \in [Runs -> [{"installed", "mayHold", "hinted", "rostered", "mayRoster"}
                             -> SUBSET Nodes]]

BudgetType == faults \in 0..MaxFaults /\ crashes \in 0..MaxCrashes /\ kills \in 0..MaxKills

LEMMA TypeSplits ==
    ASSUME TypeOK
    PROVE  RelayType /\ RunType /\ BudgetType /\ now \in Times
BY DEF TypeOK, RelayType, RunType, BudgetType

LEMMA TypeJoins ==
    ASSUME EnrollType', RelayType', RunType', BudgetType', now' \in Times
    PROVE  TypeOK'
BY DEF TypeOK, EnrollType, RelayType, RunType, BudgetType

LEMMA FailType ==
    ASSUME TypeOK, NEW e \in Runs, NEW code, Fail(e, code)
    PROVE  RunType'
<1>1. Noted(e, code) \in [{"installed", "mayHold", "hinted", "rostered", "mayRoster"}
                            -> SUBSET Nodes]
  BY NotedFields
<1> QED  BY <1>1 DEF Fail, Forget, TypeOK, RunType

LEMMA RestartType ==
    ASSUME TypeOK, NEW r \in Nodes, Restart(r)
    PROVE  RelayType'
<1>1. proc[r] + 1 \in Nat \ {0}
  BY DEF TypeOK
<1>2. proc' \in [Nodes -> Nat \ {0}]
  BY <1>1 DEF Restart, TypeOK
<1> QED  BY <1>2 DEF Restart, TypeOK, RelayType

LEMMA TypeNext ==
    ASSUME EnrollInv, TypeOK, \A e \in Runs : AnswersFit(e), [Next]_vars
    PROVE  TypeOK'
<1>0. EnrollType'
  BY EnrollInvNext DEF EnrollInv
<1>1. RelayType /\ RunType /\ BudgetType /\ now \in Times
  BY TypeSplits
<1>2. ASSUME UNCHANGED <<now, relayVars>> PROVE RelayType' /\ (now \in Times)'
  BY <1>1, <1>2 DEF RelayType, relayVars
<1>3. ASSUME UNCHANGED <<started, issuedAt, got, named>> PROVE RunType'
  BY <1>1, <1>3 DEF RunType
<1>4. CASE UNCHANGED vars
  <2>1. BudgetType'
    BY <1>1, <1>4 DEF vars, budget, BudgetType
  <2>2. UNCHANGED <<now, relayVars>> /\ UNCHANGED <<started, issuedAt, got, named>>
    BY <1>4 DEF vars, runVars
  <2> QED  BY <1>0, <1>2, <1>3, <2>1, <2>2, TypeJoins
<1>5. CASE Tick
  <2>1. BudgetType' /\ RelayType' /\ RunType'
    BY <1>1, <1>5 DEF Tick, relayVars, runVars, budget, BudgetType, RelayType, RunType
  <2>2. now' \in Times
    BY <1>1, <1>5, EnrollAssumption DEF Tick, Times
  <2> QED  BY <1>0, <2>1, <2>2, TypeJoins
<1>6. ASSUME NEW e \in Runs, Start(e) PROVE TypeOK'
  <2>1. BudgetType' /\ RunType' /\ UNCHANGED <<now, relayVars>>
    BY <1>1, <1>6 DEF Start, budget, BudgetType, RunType
  <2> QED  BY <1>0, <1>2, <2>1, TypeJoins
<1>7. ASSUME NEW e \in Runs, Process(e) PROVE TypeOK'
  <2>1. PICK a \in Answers : Handle(pc[e], e, at[e], a)
    BY <1>7 DEF Process
  <2>2. at[e] \in Nodes
    BY DEF TypeOK
  <2>3. RelayType' /\ faults' \in 0..MaxFaults
    BY <2>1, <2>2, HandleTakes
  <2>4. RunType' /\ BudgetType' /\ now' \in Times
    BY <1>1, <1>7, <2>3 DEF Process, RunType, BudgetType
  <2> QED  BY <1>0, <2>3, <2>4, TypeJoins
<1>8. ASSUME NEW e \in Runs, Receive(e) PROVE TypeOK'
  <2>1. UNCHANGED <<now, relayVars>> /\ UNCHANGED <<crashes, kills>>
    BY <1>8 DEF Receive
  <2>2. CASE Proceed(e)
    <3>1. Noted(e, "ok") \in [{"installed", "mayHold", "hinted", "rostered", "mayRoster"}
                                -> SUBSET Nodes]
      BY NotedFields
    <3>2. pc[e] = "descriptor" => call[e].val \in Runs
      BY <1>8, <2>2 DEF Receive, Proceed, Passes, AnswersFit
    <3>3. got' \in [Runs -> SUBSET Runs]
      BY <1>1, <2>2, <3>2 DEF Proceed, RunType
    <3>4. issuedAt' \in [Runs -> Times \cup {Never}]
      BY <1>1, <2>2 DEF Proceed, RunType
    <3>5. RunType'
      BY <1>1, <2>2, <3>1, <3>3, <3>4 DEF Proceed, RunType
    <3>6. BudgetType'
      BY <1>1, <2>1, <2>2 DEF Proceed, BudgetType
    <3> QED  BY <1>0, <1>2, <2>1, <3>5, <3>6, TypeJoins
  <2>3. ASSUME NEW code, Fail(e, code), IssueFails(e) \/ BodyFails(e) \/ UNCHANGED faults
        PROVE  TypeOK'
    <3>1. RunType'
      BY <2>3, FailType
    <3>2. BudgetType'
      BY <1>1, <2>1, <2>3, EnrollAssumption DEF IssueFails, BodyFails, BudgetType
    <3> QED  BY <1>0, <1>2, <2>1, <3>1, <3>2, TypeJoins
  <2> QED  BY <1>8, <2>2, <2>3 DEF Receive, IssueFails, BodyFails
<1>9. ASSUME NEW e \in Runs, Expire(e) PROVE TypeOK'
  <2>1. RunType' /\ UNCHANGED <<now, relayVars>>
    BY <1>9, FailType DEF Expire
  <2>2. BudgetType'
    BY <1>1, <1>9 DEF Expire, budget, BudgetType
  <2> QED  BY <1>0, <1>2, <2>1, <2>2, TypeJoins
<1>10. ASSUME NEW e \in Runs, Lose(e) PROVE TypeOK'
  <2>1. UNCHANGED <<now, relayVars>> /\ UNCHANGED <<started, issuedAt, got, named>>
    BY <1>10 DEF Lose
  <2>2. BudgetType'
    BY <1>1, <1>10, EnrollAssumption DEF Lose, BudgetType
  <2> QED  BY <1>0, <1>2, <1>3, <2>1, <2>2, TypeJoins
<1>11. ASSUME NEW e \in Runs, Kill(e) PROVE TypeOK'
  <2>1. RunType' /\ UNCHANGED <<now, relayVars>>
    BY <1>1, <1>11 DEF Kill, Forget, RunType, NothingNamed
  <2>2. BudgetType'
    BY <1>1, <1>11, EnrollAssumption DEF Kill, BudgetType
  <2> QED  BY <1>0, <1>2, <2>1, <2>2, TypeJoins
<1>12. ASSUME NEW e \in Runs, NEW r \in Nodes, OperatorRestart(e, r) PROVE TypeOK'
  <2>1. RelayType' /\ UNCHANGED <<now, started, issuedAt, got, named, budget>>
    BY <1>12, RestartType DEF OperatorRestart, runVars
  <2> QED  BY <1>0, <1>1, <1>3, <2>1, TypeJoins DEF budget, BudgetType
<1>13. ASSUME NEW r \in Nodes, Crash(r) PROVE TypeOK'
  <2>1. RelayType' /\ UNCHANGED <<now, started, issuedAt, got, named, faults, kills>>
    BY <1>13, RestartType DEF Crash, runVars
  <2>2. BudgetType'
    BY <1>1, <1>13, <2>1, EnrollAssumption DEF Crash, BudgetType
  <2> QED  BY <1>0, <1>1, <1>3, <2>1, <2>2, TypeJoins
<1>14. ASSUME NEW r \in Nodes, Resign(r) PROVE TypeOK'
  <2>1. RelayType' /\ UNCHANGED <<now, started, issuedAt, got, named, budget>>
    BY <1>1, <1>14 DEF Resign, runVars, RelayType
  <2> QED  BY <1>0, <1>1, <1>3, <2>1, TypeJoins DEF budget, BudgetType
<1>15. ASSUME NEW o \in orphans, ProcessOrphan(o) PROVE TypeOK'
  <2>1. o[2] \in Runs /\ o[3] \in Nodes
    BY DEF TypeOK
  <2>2. PICK a \in Answers : Handle(o[1], o[2], o[3], a)
    BY <1>15 DEF ProcessOrphan
  <2>3. RelayType' /\ faults' \in 0..MaxFaults
    BY <2>1, <2>2, HandleTakes
  <2>4. UNCHANGED <<now, started, issuedAt, got, named, crashes, kills>>
    BY <1>15 DEF ProcessOrphan, runVars
  <2> QED  BY <1>0, <1>1, <1>3, <2>3, <2>4, TypeJoins DEF BudgetType
<1> QED
  BY <1>4, <1>5, <1>6, <1>7, <1>8, <1>9, <1>10, <1>11, <1>12, <1>13, <1>14, <1>15 DEF Next, RunStep

-----------------------------------------------------------------------------
(* What a step does to the facts about one run.                             *)

\* The clocks of the relays differ from the operator's by at most the skew.
LEMMA AheadInts ==
    ASSUME TypeOK, NEW r \in Nodes
    PROVE  ahead[r] \in Int /\ ahead[r] >= -Skew /\ ahead[r] <= Skew
<1>1. ahead \in [Nodes -> (-Skew)..Skew]
  BY ClockAssumption DEF TypeOK, Nodes
<1>2. ahead[r] \in (-Skew)..Skew
  BY <1>1
<1> QED  BY <1>2, EnrollAssumption

\* the run is where it was and has been told nothing new
Rests(d) ==
    /\ pc'[d] = pc[d] /\ at'[d] = at[d] /\ started'[d] = started[d] /\ pin'[d] = pin[d]
    /\ issuedAt'[d] = issuedAt[d] /\ call'[d] = call[d] /\ named'[d] = named[d]
    /\ \A k, r : <<k, d, r>> \in orphans' => <<k, d, r>> \in orphans

\* A step of another run that leaves the relays alone.
LEMMA RestKeeps ==
    ASSUME NEW d \in Runs, RunInv(d), Rests(d), UNCHANGED <<now, relayVars>>
    PROVE  RunInv(d)'
<1> USE DEF RunInv, Rests
<1>0. UNCHANGED <<now, ahead, proc, requestAt, installed, installedAt, out, roster>>
  BY DEF relayVars
<1>1. AnswersFit(d)' /\ Timing(d)' /\ NotLate(d)'
  BY <1>0 DEF AnswersFit, Timing, NotLate, Active, Same
<1>2. Holding(d)' /\ RequestsTaken(d)' /\ SignedTaken(d)'
  BY <1>0 DEF Holding, RequestsTaken, SignedTaken, Active, Same, AnsweredOk
<1>3. \A r \in Nodes : (CanHold(d, r)' => CanHold(d, r)) /\ (CanTake(d, r)' => CanTake(d, r))
  BY <1>0 DEF CanTake, CanHold, Same, NotAfter, Reads, Stale
<1>4. \A r \in Nodes : (CertTouched(d, r)' => CertTouched(d, r))
                         /\ (RosterTouched(d, r)' => RosterTouched(d, r))
  BY <1>0, <1>3 DEF CertTouched, RosterTouched
<1>5. CertsNoted(d)' /\ RostersNoted(d)'
  BY <1>4 DEF CertsNoted, RostersNoted, CertNamed, RosterNamed, Refused
<1>6. OrphansMade(d)'
  BY DEF OrphansMade
<1> QED  BY <1>1, <1>2, <1>5, <1>6

\* The clock moves on, past no run's deadline.
LEMMA TickKeeps ==
    ASSUME NamedInv, NEW d \in Runs, Tick
    PROVE  RunInv(d)'
<1>0. /\ now' = now + 1 /\ (Active(d) => now < started[d] + Timeout)
      /\ UNCHANGED <<ahead, proc, requestAt, installed, installedAt, out, roster>>
      /\ UNCHANGED <<pc, at, started, pin, issuedAt, got, call, named, orphans>>
  BY DEF Tick, relayVars, runVars
<1>1. RunInv(d) /\ now \in Nat /\ Timeout \in Nat
      /\ started[d] \in Int /\ issuedAt[d] \in Int /\ CertLife \in Nat
      /\ \A r \in Nodes : ahead[r] \in Int
  BY EnrollAssumption, AheadInts DEF NamedInv, TypeOK, Times, Never
<1> USE DEF RunInv
<1>2. AnswersFit(d)' /\ NotLate(d)'
  BY <1>0, <1>1 DEF AnswersFit, NotLate, Active, Same
<1>3. Timing(d)'
  BY <1>0, <1>1 DEF Timing, Active
<1>4. Holding(d)' /\ RequestsTaken(d)' /\ SignedTaken(d)'
  BY <1>0, <1>1 DEF Holding, RequestsTaken, SignedTaken, Active, Same, AnsweredOk
<1>5. \A r \in Nodes : (CanHold(d, r)' => CanHold(d, r)) /\ (CanTake(d, r)' => CanTake(d, r))
  <2>1. \A r \in Nodes : Reads(r, now)' < NotAfter(d)' => Reads(r, now) < NotAfter(d)
    BY <1>0, <1>1 DEF Reads, NotAfter
  <2>2. \A r \in Nodes : Stale(r, d)' <=> Stale(r, d)
    BY <1>0 DEF Stale, Reads
  <2> QED  BY <1>0, <2>1, <2>2 DEF CanTake, CanHold, Same
<1>6. \A r \in Nodes : (CertTouched(d, r)' => CertTouched(d, r))
                         /\ (RosterTouched(d, r)' => RosterTouched(d, r))
  BY <1>0, <1>5 DEF CertTouched, RosterTouched
<1>7. CertsNoted(d)' /\ RostersNoted(d)'
  BY <1>0, <1>1, <1>6 DEF CertsNoted, RostersNoted, CertNamed, RosterNamed, Refused
<1>8. OrphansMade(d)'
  BY <1>0, <1>1 DEF OrphansMade
<1> QED  BY <1>2, <1>3, <1>4, <1>7, <1>8

\* While a relay has no certificate its open request only gets younger, so a
\* certificate it would not take it will not take later.
LEMMA TakeOnly ==
    ASSUME NamedInv, NEW kind, NEW e \in Runs, NEW r \in Nodes, Takes(kind, e, r),
           NEW d \in Runs, UNCHANGED now, pin'[d] = pin[d], issuedAt'[d] = issuedAt[d],
           NEW s \in Nodes, CanTake(d, s)'
    PROVE  CanTake(d, s)
<1>0. now \in Nat /\ issuedAt[d] \in Int /\ requestAt[s] \in Int /\ requestAt[s] <= now
      /\ ahead[s] \in Int /\ Skew \in Nat /\ e # None
  <2>1. Times \subseteq Int /\ Never \in Int /\ \A t \in Times : t \in Nat
    BY EnrollAssumption DEF Times, Never
  <2>2. ahead[s] \in Int
    BY AheadInts DEF NamedInv
  <2>3. requestAt[s] <= now
    BY DEF NamedInv, NoFuture
  <2>4. now \in Nat /\ issuedAt[d] \in Int /\ requestAt[s] \in Int
    BY <2>1 DEF NamedInv, TypeOK
  <2> QED  BY <2>2, <2>3, <2>4, EnrollAssumption DEF Runs, None
<1>1. installed'[s] = None /\ installed[s] = None
  BY <1>0 DEF CanTake, Takes
<1>2. requestAt'[s] = requestAt[s] \/ requestAt'[s] = now
  BY <1>1 DEF Takes
<1>3. ahead' = ahead /\ ~(issuedAt'[d] < (requestAt'[s] + ahead'[s]) - Skew)
  BY DEF CanTake, Stale, Reads, Takes
<1>4. ~(issuedAt[d] < (requestAt[s] + ahead[s]) - Skew)
  BY <1>0, <1>2, <1>3
<1>5. CanHold(d, s)
  BY <1>3 DEF CanTake, CanHold, Same, NotAfter, Takes, Reads
<1>6. ~Stale(s, d)
  BY <1>4 DEF Stale, Reads
<1> QED  BY <1>1, <1>5, <1>6 DEF CanTake

\* A relay takes what was on its way to it, of this run or another.
LEMMA TakeKeeps ==
    ASSUME NamedInv, NEW kind, NEW e \in Runs, NEW r \in Nodes, Takes(kind, e, r),
           NEW d \in Runs, Rests(d), UNCHANGED now,
           kind = "cert" /\ d = e => pc[e] \notin {"idle", "csr"} /\ <<"cert", e, r>> \in orphans,
           kind = "roster" /\ d = e => <<"roster", e, r>> \in orphans
    PROVE  RunInv(d)'
<1>0. RunInv(d) /\ RunInv(e) /\ d # None /\ e # None
      /\ now \in Nat /\ started[d] \in Int /\ issuedAt[d] \in Int
      /\ \A s \in Nodes : requestAt[s] \in Int /\ requestAt[s] <= now /\ ahead[s] \in Int
  <2>1. RunInv(d) /\ RunInv(e) /\ d # None /\ e # None
    BY DEF NamedInv, Runs, None
  <2>2. Times \subseteq Int /\ Never \in Int /\ \A t \in Times : t \in Nat
    BY EnrollAssumption DEF Times, Never
  <2>3. \A s \in Nodes : requestAt[s] <= now /\ ahead[s] \in Int
    BY AheadInts DEF NamedInv, NoFuture
  <2> QED  BY <2>1, <2>2, <2>3 DEF NamedInv, TypeOK
<1> USE DEF RunInv, Rests
<1>1. AnswersFit(d)' /\ NotLate(d)' /\ Timing(d)'
  BY <1>0 DEF AnswersFit, NotLate, Timing, Active, Same, Takes
<1>2. Holding(d)'
  <2> SUFFICES ASSUME NEW s \in Nodes, installed'[s] = d
               PROVE  /\ Same(d, s)' /\ pc'[d] \notin {"idle", "csr"}
                      /\ Active(d)' => started'[d] <= installedAt'[s]
    BY DEF Holding
  <2>1. CASE installed'[s] = installed[s] /\ installedAt'[s] = installedAt[s]
    BY <1>0, <2>1 DEF Holding, Takes, Same, Active
  <2>2. CASE /\ kind = "cert" /\ s = r /\ installed'[s] = e /\ installedAt'[s] = now
             /\ CanTake(e, s)
    BY <1>0, <2>2 DEF CanTake, CanHold, Same, Takes, Timing, Active
  <2> QED  BY <2>1, <2>2 DEF Takes
<1>3. RequestsTaken(d)'
  <2> SUFFICES ASSUME NEW s \in Nodes, Active(d), Same(d, s),
                      pc[d] = "csr" => s < at[d] \/ (s = at[d] /\ AnsweredOk(d))
               PROVE  installed'[s] # None \/ started[d] <= requestAt'[s]
    BY DEF RequestsTaken, Active, Same, AnsweredOk, Takes
  <2>1. installed[s] # None \/ started[d] <= requestAt[s]
    BY <1>0 DEF RequestsTaken
  <2>2. installed[s] # None => installed'[s] # None
    BY <1>0 DEF Takes
  <2>3. started[d] <= now
    BY <1>0 DEF Timing
  <2> QED  BY <2>1, <2>2, <2>3 DEF Takes
<1>4. SignedTaken(d)'
  BY <1>0 DEF SignedTaken, Takes, Same, AnsweredOk
<1>5. \A s \in Nodes : CanHold(d, s)' => CanHold(d, s)
  BY <1>0 DEF CanHold, Same, NotAfter, Takes, Reads
<1>6. \A s \in Nodes : CertTouched(d, s)' => CertTouched(d, s)
  <2>1. ASSUME NEW s \in Nodes, CanTake(d, s)' PROVE CanTake(d, s)
    BY <2>1, TakeOnly
  <2>2. ASSUME NEW s \in Nodes, installed'[s] = d, installed[s] # d PROVE CertTouched(d, s)
    BY <2>2 DEF CertTouched, Takes
  <2> QED  BY <2>1, <2>2 DEF CertTouched
<1>7. \A s \in Nodes : RosterTouched(d, s)' => RosterTouched(d, s)
  <2>1. ASSUME NEW s \in Nodes, roster'[s] = d, roster[s] # d
        PROVE  RosterTouched(d, s)
    <3>1. kind = "roster" /\ s = r /\ d = e /\ installed[s] = e
          /\ Reads(s, now) < NotAfter(e)
      BY <2>1 DEF Takes
    <3>2. Same(d, s)
      BY <1>0, <3>1 DEF Holding
    <3> QED  BY <3>1, <3>2 DEF RosterTouched, CanHold
  <2> QED  BY <1>5, <2>1 DEF RosterTouched
<1>8. CertsNoted(d)' /\ RostersNoted(d)'
  BY <1>0, <1>6, <1>7 DEF CertsNoted, RostersNoted, CertNamed, RosterNamed, Refused
<1>9. OrphansMade(d)'
  BY <1>0 DEF OrphansMade
<1> QED  BY <1>1, <1>2, <1>3, <1>4, <1>8, <1>9

\* A restarted process holds nothing, and no run has its identity.
LEMMA RestartRuns ==
    ASSUME NamedInv, NEW r \in Nodes, Restart(r), UNCHANGED <<now, runVars, orphans>>,
           NEW d \in Runs
    PROVE  RunInv(d)'
<1>0. /\ RunInv(d) /\ d # None
      /\ UNCHANGED <<now, ahead, pc, at, started, pin, issuedAt, call, named, orphans>>
  BY DEF NamedInv, Restart, runVars, Runs, None
<1>1. /\ \A s \in Nodes \ {r} : /\ installed'[s] = installed[s] /\ installedAt'[s] = installedAt[s]
                                /\ requestAt'[s] = requestAt[s] /\ out'[s] = out[s]
                                /\ roster'[s] = roster[s] /\ proc'[s] = proc[s]
      /\ installed'[r] = None /\ roster'[r] = None
  BY DEF Restart, NamedInv, TypeOK
<1>2. \A s \in Nodes : pc[d] # "idle" /\ Same(d, s)' => s # r /\ Same(d, s)
  <2>1. pc[d] # "idle" => pin[d][r] <= proc[r]
    BY DEF NamedInv, EnrollInv, Pins
  <2>2. proc'[r] = proc[r] + 1 /\ proc[r] \in Nat /\ pin[d][r] \in Nat
    BY DEF Restart, NamedInv, TypeOK
  <2>3. pc[d] # "idle" => proc'[r] # pin[d][r]
    BY <2>1, <2>2
  <2> QED  BY <1>0, <1>1, <2>3 DEF Same
<1> USE DEF RunInv
<1>3. AnswersFit(d)' /\ Timing(d)'
  BY <1>0 DEF AnswersFit, Timing, Active
<1>4. NotLate(d)'
  <2>1. at[d] \in Nodes
    BY DEF NamedInv, TypeOK
  <2>2. Active(d) => pc[d] # "idle"
    BY DEF Active, Calls
  <2>3. Active(d) /\ proc'[at[d]] = pin'[d][at[d]] => Same(d, at[d])
    BY <1>2, <2>1, <2>2 DEF Same
  <2> QED  BY <1>0, <2>3 DEF NotLate, Active, Same
<1>5. Holding(d)'
  <2> SUFFICES ASSUME NEW s \in Nodes, installed'[s] = d
               PROVE  /\ Same(d, s)' /\ pc'[d] \notin {"idle", "csr"}
                      /\ Active(d)' => started'[d] <= installedAt'[s]
    BY DEF Holding
  <2>1. s # r
    BY <1>0, <1>1
  <2> QED  BY <1>0, <1>1, <2>1 DEF Holding, Same, Active
<1>6. RequestsTaken(d)'
  <2> SUFFICES ASSUME NEW s \in Nodes, Active(d), Same(d, s)',
                      pc[d] = "csr" => s < at[d] \/ (s = at[d] /\ AnsweredOk(d))
               PROVE  installed'[s] # None \/ started[d] <= requestAt'[s]
    BY <1>0 DEF RequestsTaken, Active, AnsweredOk
  <2>1. s # r /\ Same(d, s)
    BY <1>2 DEF Active, Calls
  <2> QED  BY <1>0, <1>1, <2>1 DEF RequestsTaken
<1>7. SignedTaken(d)'
  <2> SUFFICES ASSUME NEW s \in Nodes, Same(d, s)',
                      \/ pc[d] = "descriptor" /\ s < at[d]
                      \/ pc[d] = "descriptor" /\ s = at[d] /\ AnsweredOk(d)
                      \/ pc[d] = "roster"
               PROVE  out'[s]
    BY <1>0 DEF SignedTaken, AnsweredOk
  <2>1. s # r /\ Same(d, s)
    BY <1>2
  <2> QED  BY <1>0, <1>1, <2>1 DEF SignedTaken
<1>8. \A s \in Nodes : CertTouched(d, s)' => CertTouched(d, s)
  <2> TAKE s \in Nodes
  <2>1. CASE installed'[s] = d
    BY <1>0, <1>1, <2>1 DEF CertTouched
  <2>2. CASE <<"cert", d, s>> \in orphans /\ CanTake(d, s)'
    <3>1. pc[d] # "idle"
      BY <1>0, <2>2 DEF OrphansMade
    <3>2. s # r /\ Same(d, s)
      BY <1>2, <2>2, <3>1 DEF CanTake, CanHold
    <3>3. CanTake(d, s)
      BY <1>0, <1>1, <2>2, <3>2 DEF CanTake, CanHold, NotAfter, Reads, Stale
    <3> QED  BY <2>2, <3>3 DEF CertTouched
  <2> QED  BY <1>0, <2>1, <2>2 DEF CertTouched
<1>9. \A s \in Nodes : RosterTouched(d, s)' => RosterTouched(d, s)
  <2> TAKE s \in Nodes
  <2>1. CASE roster'[s] = d
    BY <1>0, <1>1, <2>1 DEF RosterTouched
  <2>2. CASE <<"roster", d, s>> \in orphans /\ CanHold(d, s)'
    <3>1. pc[d] # "idle"
      BY <1>0, <2>2 DEF OrphansMade
    <3>2. Same(d, s)
      BY <1>2, <2>2, <3>1 DEF CanHold
    <3> QED  BY <1>0, <2>2, <3>2 DEF RosterTouched, CanHold, NotAfter, Reads
  <2> QED  BY <1>0, <2>1, <2>2 DEF RosterTouched
<1>10. CertsNoted(d)' /\ RostersNoted(d)'
  BY <1>0, <1>8, <1>9 DEF CertsNoted, RostersNoted, CertNamed, RosterNamed, Refused
<1>11. OrphansMade(d)'
  BY <1>0 DEF OrphansMade
<1> QED  BY <1>3, <1>4, <1>5, <1>6, <1>7, <1>10, <1>11

-----------------------------------------------------------------------------
(* The steps of a run.                                                      *)

LEMMA TimeInts ==
    ASSUME TypeOK
    PROVE  /\ now \in Nat
           /\ \A e \in Runs : started[e] \in Int /\ issuedAt[e] \in Int
           /\ \A r \in Nodes : requestAt[r] \in Int /\ installedAt[r] \in Int
<1>1. Times \subseteq Int /\ Never \in Int /\ \A t \in Times : t \in Nat
  BY EnrollAssumption DEF Times, Never
<1> QED  BY <1>1 DEF TypeOK

\* Within the deadline of the run nothing is late: a process that gives such an
\* answer is not the one the operator read of, or its clock is far ahead.
LEMMA RefusedByOthers ==
    ASSUME NamedInv, NEW e \in Runs, Active(e), NEW r \in Nodes, r = at[e], Same(e, r)
    PROVE  /\ pc[e] = "cert" /\ installed[r] = None =>
                 Waits(r) /\ (Stale(r, e) => ahead[r] > Skew - Timeout)
           /\ pc[e] = "roster" =>
                 /\ installed[r] = e /\ ~(now - installedAt[r] > InstallWindow)
                 /\ roster[r] \in {None, e}
                 /\ out[r]
<1>0. /\ now \in Nat /\ started[e] \in Int /\ issuedAt[e] \in Int
      /\ requestAt[r] \in Int /\ installedAt[r] \in Int /\ ahead[r] \in Int
  BY TimeInts, AheadInts DEF NamedInv
<1>1. /\ started[e] \in Times /\ started[e] <= now /\ now <= started[e] + Timeout
      /\ pc[e] # "csr" => started[e] <= issuedAt[e]
      /\ requestAt[r] <= now
  BY DEF NamedInv, RunInv, Timing, NoFuture
<1>2. started[e] >= 0
  BY <1>1, EnrollAssumption DEF Times
<1>3. /\ Timeout \in Nat /\ InstallWindow \in Nat /\ Skew \in Nat
      /\ Timeout <= InstallWindow
  BY EnrollAssumption
<1>4. ASSUME pc[e] = "cert", installed[r] = None
      PROVE  Waits(r) /\ (Stale(r, e) => ahead[r] > Skew - Timeout)
  <2>1. started[e] <= requestAt[r]
    BY <1>4 DEF NamedInv, RunInv, RequestsTaken
  <2>2. requestAt[r] # Never /\ now - requestAt[r] <= InstallWindow
    BY <1>0, <1>1, <1>2, <1>3, <2>1 DEF Never
  <2>3. issuedAt[e] < (requestAt[r] + ahead[r]) - Skew => ahead[r] > Skew - Timeout
    BY <1>0, <1>1, <1>3, <1>4
  <2>4. Stale(r, e) => issuedAt[e] < (requestAt[r] + ahead[r]) - Skew
    BY DEF Stale, Reads
  <2> QED  BY <2>2, <2>3, <2>4 DEF Waits
<1>5. ASSUME pc[e] = "roster"
      PROVE  /\ installed[r] = e /\ ~(now - installedAt[r] > InstallWindow)
             /\ roster[r] \in {None, e} /\ out[r]
  <2>1. installed[r] = e
    BY <1>5 DEF NamedInv, EnrollInv, CertsTaken
  <2>2. started[e] <= installedAt[r]
    BY <2>1 DEF NamedInv, RunInv, Holding
  <2>3. ~(now - installedAt[r] > InstallWindow)
    BY <1>0, <1>1, <1>3, <2>2
  <2>4. roster[r] \in {None, e}
    BY <2>1 DEF NamedInv, EnrollInv, RosterOfItsCA
  <2>5. out[r]
    BY <1>5 DEF NamedInv, RunInv, SignedTaken
  <2> QED  BY <2>1, <2>3, <2>4, <2>5
<1> QED  BY <1>4, <1>5

\* The relay answers the run, and refuses it only when it can hold nothing of it.
LEMMA AnswerKeeps ==
    ASSUME NamedInv, NEW e \in Runs, Process(e)
    PROVE  RunInv(e)'
<1>0. RunInv(e) /\ e # None /\ at[e] \in Nodes /\ pc[e] \in Calls /\ Active(e)
      /\ call[e].st = "open" /\ TypeOK
  <2>1. Active(e) /\ call[e].st = "open"
    BY DEF Process
  <2>2. RunInv(e) /\ TypeOK /\ at[e] \in Nodes
    BY DEF NamedInv, TypeOK
  <2>3. e # None
    BY DEF Runs, None
  <2> QED  BY <2>1, <2>2, <2>3 DEF Active
<1>1. PICK a \in Answers : /\ Handle(pc[e], e, at[e], a)
                           /\ call' = [call EXCEPT ![e] = Answered(a)]
  BY DEF Process
<1>2. UNCHANGED <<now, pc, at, started, pin, issuedAt, got, named, orphans>>
  BY DEF Process
<1>3. call'[e].st = "answered" /\ call'[e].code = a.code /\ call'[e].val = a.val
  BY <1>0, <1>1 DEF TypeOK, Answered
<1>4. Takes(pc[e], e, at[e])
  BY <1>0, <1>1, HandleTakes
<1>5. /\ now \in Nat /\ started[e] \in Int /\ issuedAt[e] \in Int
      /\ ahead[at[e]] \in Int /\ ahead[at[e]] >= -Skew
  BY <1>0, TimeInts, AheadInts
<1>6. started[e] <= now /\ (pc[e] # "csr" => issuedAt[e] <= now)
  BY <1>0 DEF RunInv, Timing, Calls
<1> DEFINE r == at[e]
<1>7. /\ pc[e] = "csr" => /\ a.code \in {"ok", "installed"}
                          /\ a.code = "ok" => requestAt'[r] = now
      /\ pc[e] = "cert" =>
            a.code \in {"ok", "installed", "no request", "stale", "bad", "error"}
      /\ pc[e] = "descriptor" => /\ a.code \in {"ok", "unavailable"}
                                 /\ a.code = "ok" => out'[r] /\ a.val \in Runs
      /\ pc[e] = "roster" =>
            a.code \in {"ok", "roster set", "early", "late", "no bundle", "bad"}
  <2>1. CASE pc[e] = "csr"
    <3>1. HandleRequest(r, a)
      BY <1>1, <2>1 DEF Handle
    <3> QED  BY <1>0, <2>1, <3>1, RequestTakes
  <2>2. CASE pc[e] = "cert"
    <3>1. HandleCert(r, e, a)
      BY <1>1, <2>2 DEF Handle
    <3> QED  BY <1>0, <2>2, <3>1, CertTakes
  <2>3. CASE pc[e] = "descriptor"
    <3>1. HandleDescriptor(r, a)
      BY <1>1, <2>3 DEF Handle
    <3> QED  BY <1>0, <2>3, <3>1, DescriptorTakes
  <2>4. CASE pc[e] = "roster"
    <3>1. HandleRoster(r, e, a)
      BY <1>1, <2>4 DEF Handle
    <3> QED  BY <1>0, <2>4, <3>1, RosterTakes
  <2> QED  BY <1>0, <2>1, <2>2, <2>3, <2>4 DEF Calls
\* an answer that names nobody changes nothing and comes from a relay that can
\* hold nothing of the run
<1>8. ASSUME pc[e] \in {"cert", "roster"}, a.code \notin {"ok", "installed", "error"}
      PROVE  /\ UNCHANGED <<requestAt, installed, roster>>
             /\ pc[e] = "cert" => installed[r] = None /\ ~CanTake(e, r)
             /\ pc[e] = "roster" => roster[r] # e /\ ~CanHold(e, r)
             /\ Same(e, r) =>
                   /\ a.code \notin {"no request", "early", "late"}
                   /\ a.code = "stale" => ahead[r] > Skew - Timeout
  <2>1. CASE pc[e] = "cert"
    <3>1. HandleCert(r, e, a)
      BY <1>1, <2>1 DEF Handle
    <3>2. /\ UNCHANGED relayVars /\ installed[r] = None
          /\ a.code = "no request" => ~Waits(r)
          /\ a.code = "stale" => Stale(r, e)
          /\ a.code = "bad" => ~Installs(r, e)
          /\ a.code \in {"no request", "stale", "bad"}
      BY <1>0, <1>8, <3>1, CertTakes
    <3>3. Same(e, r) => /\ a.code # "no request"
                        /\ a.code = "stale" => ahead[r] > Skew - Timeout
      BY <1>0, <2>1, <3>2, RefusedByOthers
    <3>4. a.code = "bad" => ~CanHold(e, r)
      <4>1. Reads(r, now) + Skew >= issuedAt[e]
        BY <1>5, <1>6, <2>1, EnrollAssumption DEF Reads
      <4> QED  BY <3>2, <4>1 DEF CanHold, Same, Installs
    <3>5. ~CanTake(e, r)
      BY <3>2, <3>3, <3>4 DEF CanTake, CanHold
    <3> QED  BY <2>1, <3>2, <3>3, <3>5 DEF relayVars
  <2>2. CASE pc[e] = "roster"
    <3>1. HandleRoster(r, e, a)
      BY <1>1, <2>2 DEF Handle
    <3>2. /\ UNCHANGED relayVars /\ roster[r] # e
          /\ a.code = "roster set" => roster[r] # None
          /\ a.code = "early" => installed[r] = None
          /\ a.code = "late" => now - installedAt[r] > InstallWindow
          /\ a.code = "no bundle" => ~InService(r)
          /\ a.code = "bad" => installed[r] # e
          /\ a.code \in {"roster set", "early", "late", "no bundle", "bad"}
      <4>1. r \in Nodes /\ a.code # "ok"
        BY <1>0, <1>8
      <4> QED  BY <1>0, <3>1, <4>1, RosterTakes
    <3>3. Same(e, r) => a.code = "no bundle" /\ installed[r] = e /\ out[r]
      BY <1>0, <2>2, <3>2, RefusedByOthers
    <3>4. Same(e, r) => ~(Reads(r, now) < NotAfter(e))
      BY <1>0, <3>2, <3>3 DEF InService, CertValid
    <3> QED  BY <2>2, <3>2, <3>3, <3>4 DEF CanHold, relayVars
  <2> QED  BY <1>8, <2>1, <2>2
<1> USE DEF RunInv
<1> HIDE DEF r
<1>9. AnswersFit(e)' /\ Timing(e)'
  BY <1>0, <1>2, <1>3, <1>7 DEF AnswersFit, Timing, Active, Calls
<1>10. NotLate(e)'
  <2>1. proc' = proc /\ ahead' = ahead
    BY <1>4 DEF Takes
  <2>2. Same(e, r) => /\ a.code \notin {"no request", "early", "late"}
                      /\ a.code = "stale" => ahead[r] > Skew - Timeout
    BY <1>0, <1>7, <1>8 DEF Calls
  <2> QED  BY <1>2, <1>3, <2>1, <2>2 DEF NotLate, Same, r
<1>11. Holding(e)'
  <2> SUFFICES ASSUME NEW s \in Nodes, installed'[s] = e
               PROVE  /\ Same(e, s)' /\ pc'[e] \notin {"idle", "csr"}
                      /\ Active(e)' => started'[e] <= installedAt'[s]
    BY DEF Holding
  <2>1. CASE installed'[s] = installed[s] /\ installedAt'[s] = installedAt[s]
    BY <1>0, <1>2, <1>4, <2>1 DEF Holding, Takes, Same, Active
  <2>2. CASE pc[e] = "cert" /\ installedAt'[s] = now /\ CanTake(e, s)
    BY <1>2, <1>4, <1>6, <2>2 DEF CanTake, CanHold, Same, Takes
  <2> QED  BY <1>4, <2>1, <2>2 DEF Takes
<1>12. RequestsTaken(e)'
  <2> SUFFICES ASSUME NEW s \in Nodes, Same(e, s),
                      pc[e] = "csr" => s < at[e] \/ (s = at[e] /\ AnsweredOk(e)')
               PROVE  installed'[s] # None \/ started[e] <= requestAt'[s]
    BY <1>0, <1>2, <1>4 DEF RequestsTaken, Active, Same, Takes
  <2>1. CASE pc[e] = "csr" /\ s = at[e] /\ AnsweredOk(e)'
    <3>1. a.code = "ok"
      BY <1>3, <2>1 DEF AnsweredOk
    <3>2. requestAt'[s] = now
      BY <1>7, <2>1, <3>1 DEF r
    <3> QED  BY <1>6, <3>2
  <2>2. CASE pc[e] = "csr" => s < at[e]
    <3>1. installed[s] # None \/ started[e] <= requestAt[s]
      BY <1>0, <2>2 DEF RequestsTaken
    <3>2. installed[s] # None => installed'[s] # None
      BY <1>0, <1>4 DEF Takes
    <3> QED  BY <1>4, <1>6, <3>1, <3>2 DEF Takes
  <2> QED  BY <2>1, <2>2
<1>13. SignedTaken(e)'
  <2> SUFFICES ASSUME NEW s \in Nodes, Same(e, s),
                      \/ pc[e] = "descriptor" /\ s < at[e]
                      \/ pc[e] = "descriptor" /\ s = at[e] /\ AnsweredOk(e)'
                      \/ pc[e] = "roster"
               PROVE  out'[s]
    BY <1>2, <1>4 DEF SignedTaken, Same, Takes
  <2>1. CASE pc[e] = "descriptor" /\ s = at[e] /\ AnsweredOk(e)'
    BY <1>3, <1>7, <2>1 DEF AnsweredOk, r
  <2>2. CASE (pc[e] = "descriptor" /\ s < at[e]) \/ pc[e] = "roster"
    BY <1>0, <1>4, <2>2 DEF SignedTaken, Takes
  <2> QED  BY <2>1, <2>2
<1>14. \A s \in Nodes : CanHold(e, s)' <=> CanHold(e, s)
  BY <1>2, <1>4 DEF CanHold, Same, NotAfter, Takes, Reads
<1>15. CertsNoted(e)'
  <2> SUFFICES ASSUME NEW s \in Nodes, CertTouched(e, s)'
               PROVE  \/ pc[e] = "cert" /\ s = at[e] /\ ~Refused(e)'
                      \/ CertNamed(e, s)
                      \/ pc[e] = "killed"
    BY <1>2 DEF CertsNoted, CertNamed
  <2>1. CASE pc[e] = "cert" /\ s = at[e]
    <3>1. ~Refused(e)'
      <4> SUFFICES ASSUME Refused(e)' PROVE FALSE
        OBVIOUS
      <4>1. a.code \notin {"ok", "installed", "error"}
        BY <1>3 DEF Refused
      <4>2. /\ requestAt' = requestAt /\ installed' = installed
            /\ installed[s] = None /\ ~CanTake(e, s)
        BY <1>8, <2>1, <4>1 DEF r
      <4>3. ~CanTake(e, s)'
        BY <1>2, <1>4, <1>14, <4>2 DEF CanTake, Stale, Reads, Takes
      <4> QED  BY <1>0, <4>2, <4>3 DEF CertTouched
    <3> QED  BY <2>1, <3>1
  <2>2. CASE ~(pc[e] = "cert" /\ s = at[e])
    <3>1. CertTouched(e, s)
      <4>1. CASE installed'[s] = e
        BY <1>4, <2>2, <4>1 DEF CertTouched, Takes
      <4>2. CASE <<"cert", e, s>> \in orphans /\ CanTake(e, s)'
        <5>1. CanTake(e, s)
          BY <1>0, <1>2, <1>4, <4>2, TakeOnly
        <5> QED  BY <4>2, <5>1 DEF CertTouched
      <4> QED  BY <1>2, <4>1, <4>2 DEF CertTouched
    <3> QED  BY <1>0, <2>2, <3>1 DEF CertsNoted
  <2> QED  BY <2>1, <2>2
<1>16. RostersNoted(e)'
  <2> SUFFICES ASSUME NEW s \in Nodes, RosterTouched(e, s)'
               PROVE  \/ pc[e] = "roster" /\ s = at[e] /\ ~Refused(e)'
                      \/ RosterNamed(e, s)
                      \/ pc[e] = "killed"
    BY <1>2 DEF RostersNoted, RosterNamed
  <2>1. CASE pc[e] = "roster" /\ s = at[e]
    <3>1. ~Refused(e)'
      <4> SUFFICES ASSUME Refused(e)' PROVE FALSE
        OBVIOUS
      <4>1. a.code \notin {"ok", "installed", "error"}
        BY <1>3 DEF Refused
      <4>2. roster' = roster /\ roster[s] # e /\ ~CanHold(e, s)
        BY <1>8, <2>1, <4>1 DEF r
      <4> QED  BY <1>0, <1>14, <4>2 DEF RosterTouched
    <3> QED  BY <2>1, <3>1
  <2>2. CASE ~(pc[e] = "roster" /\ s = at[e])
    <3>1. RosterTouched(e, s)
      BY <1>2, <1>4, <1>14, <2>2 DEF RosterTouched, Takes
    <3> QED  BY <1>0, <2>2, <3>1 DEF RostersNoted
  <2> QED  BY <2>1, <2>2
<1>17. OrphansMade(e)'
  BY <1>0, <1>2 DEF OrphansMade
<1> QED  BY <1>9, <1>10, <1>11, <1>12, <1>13, <1>15, <1>16, <1>17

\* A copy left behind is of the call under way.
LEMMA CopyLeft ==
    ASSUME NEW e \in Runs, LeftBehind(e)
    PROVE  \A k, d, r : <<k, d, r>> \in orphans' =>
              \/ <<k, d, r>> \in orphans
              \/ k = pc[e] /\ d = e /\ r = at[e] /\ call[e].st = "open"
BY DEF LeftBehind

\* A run starts: no relay has anything of it yet.
LEMMA StartKeeps ==
    ASSUME NamedInv, NEW e \in Runs, Start(e)
    PROVE  RunInv(e)'
<1>0. /\ RunInv(e) /\ e # None /\ TypeOK /\ RosterOfItsCA /\ at[e] \in Nodes
      /\ now \in Nat /\ issuedAt[e] \in Int /\ issuedAt[e] <= now /\ now \in Times
  <2>1. RunInv(e) /\ TypeOK /\ RosterOfItsCA /\ at[e] \in Nodes /\ now \in Times
    BY DEF NamedInv, EnrollInv, TypeOK
  <2>2. e # None
    BY DEF Runs, None
  <2>3. issuedAt[e] <= now
    BY <2>1 DEF RunInv, Timing
  <2> QED  BY <2>1, <2>2, <2>3, TimeInts
<1>1. /\ pc[e] = "idle" /\ pc'[e] = "csr" /\ started'[e] = now
      /\ UNCHANGED <<now, installed, roster, at, issuedAt, call, orphans>>
  BY <1>0 DEF Start, TypeOK, relayVars
<1>2. call[e].st = "open" /\ at[e] = 1
  BY <1>0, <1>1 DEF RunInv, AnswersFit
<1>3. \A r \in Nodes : installed[r] # e
  BY <1>0, <1>1 DEF RunInv, Holding
<1>4. \A r \in Nodes : roster[r] # e
  BY <1>0, <1>3 DEF RosterOfItsCA
<1>5. \A r \in Nodes : <<"cert", e, r>> \notin orphans /\ <<"roster", e, r>> \notin orphans
  BY <1>0, <1>1 DEF RunInv, OrphansMade
<1>6. AnswersFit(e)' /\ NotLate(e)' /\ OrphansMade(e)'
  BY <1>1, <1>2, <1>5 DEF AnswersFit, NotLate, OrphansMade
<1>7. Timing(e)'
  <2>1. now <= now + Timeout
    BY <1>0, EnrollAssumption
  <2> QED  BY <1>0, <1>1, <2>1 DEF Timing
<1>8. Holding(e)' /\ SignedTaken(e)'
  BY <1>1, <1>3 DEF Holding, SignedTaken
<1>9. RequestsTaken(e)'
  <2>1. \A r \in Nodes : ~(r < at'[e])
    BY <1>1, <1>2, EnrollAssumption DEF Nodes
  <2> QED  BY <1>1, <1>2, <2>1 DEF RequestsTaken, AnsweredOk
<1>10. CertsNoted(e)' /\ RostersNoted(e)'
  BY <1>1, <1>3, <1>4, <1>5 DEF CertsNoted, RostersNoted, CertTouched, RosterTouched
<1> QED  BY <1>6, <1>7, <1>8, <1>9, <1>10 DEF RunInv

\* A call is lost and made again.
LEMMA LoseKeeps ==
    ASSUME NamedInv, NEW e \in Runs, Lose(e)
    PROVE  RunInv(e)'
<1>0. RunInv(e) /\ TypeOK /\ Active(e)
  BY DEF NamedInv, Lose
<1>1. /\ call'[e].st = "open"
      /\ UNCHANGED <<now, ahead, proc, requestAt, installed, installedAt, out, roster>>
      /\ UNCHANGED <<pc, at, started, pin, issuedAt, named>>
  BY <1>0 DEF Lose, TypeOK, Open, relayVars
<1>2. \A k, r : <<k, e, r>> \in orphans' =>
         <<k, e, r>> \in orphans \/ (k = pc[e] /\ r = at[e])
  <2>1. LeftBehind(e)
    BY DEF Lose
  <2>2. \A k, d, r : <<k, d, r>> \in orphans' =>
           <<k, d, r>> \in orphans \/ (k = pc[e] /\ d = e /\ r = at[e] /\ call[e].st = "open")
    BY <2>1, CopyLeft
  <2> QED  BY <2>2
<1>3. pc[e] # "idle"
  BY <1>0 DEF Active, Calls
<1>4. AnswersFit(e)' /\ NotLate(e)' /\ Timing(e)' /\ Holding(e)'
  BY <1>0, <1>1, <1>3 DEF RunInv, AnswersFit, NotLate, Timing, Holding, Active, Same
<1>5. RequestsTaken(e)' /\ SignedTaken(e)'
  BY <1>0, <1>1 DEF RunInv, RequestsTaken, SignedTaken, Active, Same, AnsweredOk
<1>6. OrphansMade(e)'
  BY <1>0, <1>1, <1>2 DEF RunInv, OrphansMade
<1>7. ~Refused(e)'
  BY <1>1 DEF Refused
<1>8. \A r \in Nodes : (CanHold(e, r)' <=> CanHold(e, r)) /\ (CanTake(e, r)' <=> CanTake(e, r))
  BY <1>1 DEF CanTake, CanHold, Same, NotAfter, Reads, Stale
<1>9. CertsNoted(e)'
  <2>1. \A r \in Nodes : CertTouched(e, r)' => CertTouched(e, r) \/ (pc[e] = "cert" /\ r = at[e])
    BY <1>1, <1>2, <1>8 DEF CertTouched
  <2> QED  BY <1>0, <1>1, <1>7, <2>1 DEF RunInv, CertsNoted, CertNamed
<1>10. RostersNoted(e)'
  <2>1. \A r \in Nodes :
           RosterTouched(e, r)' => RosterTouched(e, r) \/ (pc[e] = "roster" /\ r = at[e])
    BY <1>1, <1>2, <1>8 DEF RosterTouched
  <2> QED  BY <1>0, <1>1, <1>7, <2>1 DEF RunInv, RostersNoted, RosterNamed
<1> QED  BY <1>4, <1>5, <1>6, <1>9, <1>10 DEF RunInv

\* A run ends before its anchor: killed, or with a report that keeps its lists
\* and adds the relay of a call that did not refuse.
LEMMA OverKeepsRun ==
    ASSUME NamedInv, NEW e \in Runs, Active(e), pc'[e] \in {"failed", "killed"},
           UNCHANGED <<now, relayVars, pin, issuedAt>>,
           \A k, r : <<k, e, r>> \in orphans' =>
              \/ <<k, e, r>> \in orphans
              \/ k = pc[e] /\ r = at[e] /\ call[e].st = "open",
           pc'[e] = "failed" =>
              /\ \A r \in Nodes : CertNamed(e, r) => CertNamed(e, r)'
              /\ \A r \in Nodes : RosterNamed(e, r) => RosterNamed(e, r)'
              /\ \A r \in Nodes : pc[e] = "cert" /\ r = at[e] /\ ~Refused(e) => CertNamed(e, r)'
              /\ \A r \in Nodes : pc[e] = "roster" /\ r = at[e] /\ ~Refused(e) => RosterNamed(e, r)'
    PROVE  RunInv(e)'
<1>0. RunInv(e) /\ pc[e] \notin {"idle", "killed"} /\ ~Active(e)'
  BY DEF NamedInv, Active, Calls
<1>1. UNCHANGED <<now, ahead, proc, requestAt, installed, installedAt, out, roster, pin, issuedAt>>
  BY DEF relayVars
<1>2. AnswersFit(e)' /\ NotLate(e)' /\ Timing(e)' /\ RequestsTaken(e)' /\ SignedTaken(e)'
  BY <1>0, <1>1 DEF AnswersFit, NotLate, Timing, RequestsTaken, SignedTaken, RunInv
<1>3. Holding(e)' /\ OrphansMade(e)'
  BY <1>0, <1>1 DEF Holding, Same, OrphansMade, RunInv
<1>4. \A r \in Nodes : (CanHold(e, r)' <=> CanHold(e, r)) /\ (CanTake(e, r)' <=> CanTake(e, r))
  BY <1>1 DEF CanTake, CanHold, Same, NotAfter, Reads, Stale
<1>5. CertsNoted(e)'
  <2> SUFFICES ASSUME NEW r \in Nodes, CertTouched(e, r)', pc'[e] = "failed"
               PROVE  CertNamed(e, r)'
    BY DEF CertsNoted
  <2>1. \/ CertTouched(e, r)
        \/ pc[e] = "cert" /\ r = at[e] /\ call[e].st = "open"
    BY <1>1, <1>4 DEF CertTouched
  <2>2. \/ pc[e] = "cert" /\ r = at[e] /\ ~Refused(e)
        \/ CertNamed(e, r)
    BY <1>0, <2>1 DEF RunInv, CertsNoted, Refused
  <2> QED  BY <2>2
<1>6. RostersNoted(e)'
  <2> SUFFICES ASSUME NEW r \in Nodes, RosterTouched(e, r)', pc'[e] = "failed"
               PROVE  RosterNamed(e, r)'
    BY DEF RostersNoted
  <2>1. \/ RosterTouched(e, r)
        \/ pc[e] = "roster" /\ r = at[e] /\ call[e].st = "open"
    BY <1>1, <1>4 DEF RosterTouched
  <2>2. \/ pc[e] = "roster" /\ r = at[e] /\ ~Refused(e)
        \/ RosterNamed(e, r)
    BY <1>0, <2>1 DEF RunInv, RostersNoted, Refused
  <2> QED  BY <2>2
<1> QED  BY <1>2, <1>3, <1>5, <1>6 DEF RunInv

\* A failing run notes what its last call left open.
LEMMA FailKeeps ==
    ASSUME NamedInv, NEW e \in Runs, Active(e), NEW code, Fail(e, code),
           UNCHANGED <<now, relayVars>>,
           \/ code = "transport"
           \/ code = "ok" /\ pc[e] = "csr"
           \/ code = call[e].code /\ call[e].st = "answered",
           \A k, r : <<k, e, r>> \in orphans' =>
              \/ <<k, e, r>> \in orphans
              \/ k = pc[e] /\ r = at[e] /\ call[e].st = "open"
    PROVE  RunInv(e)'
<1>0. RunInv(e) /\ TypeOK /\ at[e] \in Nodes
  BY DEF NamedInv, TypeOK
<1>1. pc'[e] = "failed" /\ named'[e] = Noted(e, code) /\ UNCHANGED <<pin, issuedAt>>
  BY <1>0 DEF Fail, TypeOK
<1>2. /\ \A r \in Nodes : CertNamed(e, r) => CertNamed(e, r)'
      /\ \A r \in Nodes : RosterNamed(e, r) => RosterNamed(e, r)'
  BY <1>0, <1>1, NotedFields DEF CertNamed, RosterNamed
<1>3. ASSUME NEW r \in Nodes, pc[e] = "cert", r = at[e], ~Refused(e) PROVE CertNamed(e, r)'
  <2>1. code \in {"ok", "installed", "error", "transport"}
    BY <1>3 DEF Refused
  <2>2. \/ r \in Noted(e, code).installed
        \/ r \in Noted(e, code).mayHold
        \/ r \in Noted(e, code).hinted
    BY <1>0, <1>3, <2>1, NotedFields
  <2> QED  BY <1>1, <2>2 DEF CertNamed
<1>4. ASSUME NEW r \in Nodes, pc[e] = "roster", r = at[e], ~Refused(e) PROVE RosterNamed(e, r)'
  <2>1. code \in {"ok", "transport"}
    BY <1>0, <1>4 DEF Refused, RunInv, AnswersFit
  <2>2. \/ r \in Noted(e, code).rostered
        \/ r \in Noted(e, code).mayRoster
    BY <1>0, <1>4, <2>1, NotedFields
  <2> QED  BY <1>1, <2>2 DEF RosterNamed
<1> QED  BY <1>1, <1>2, <1>3, <1>4, OverKeepsRun

\* An answer that passes moves the run on, and its relay onto the lists.
LEMMA PassKeeps ==
    ASSUME NamedInv, NEW e \in Runs, Active(e), call[e].st = "answered", Proceed(e),
           UNCHANGED <<now, relayVars, orphans>>
    PROVE  RunInv(e)'
<1>0. /\ RunInv(e) /\ TypeOK /\ RosterOfItsCA /\ at[e] \in Nodes /\ pc[e] \in Calls
      /\ AnsweredOk(e) /\ N \in Nat \ {0} /\ at[e] \in Nat
  <2>1. RunInv(e) /\ TypeOK /\ RosterOfItsCA /\ at[e] \in Nodes
    BY DEF NamedInv, EnrollInv, TypeOK
  <2>2. AnsweredOk(e)
    BY DEF Proceed, Passes, AnsweredOk
  <2>3. N \in Nat \ {0} /\ at[e] \in Nat
    BY <2>1, EnrollAssumption DEF Nodes
  <2> QED  BY <2>1, <2>2, <2>3 DEF Active
<1>1. /\ UNCHANGED <<now, ahead, proc, requestAt, installed, installedAt, out, roster>>
      /\ UNCHANGED <<started, pin, orphans>>
      /\ call'[e].st = "open" /\ named'[e] = Noted(e, "ok")
  BY <1>0 DEF Proceed, relayVars, TypeOK, Open
<1>2. \/ More(e) /\ pc'[e] = pc[e] /\ at'[e] = at[e] + 1 /\ issuedAt'[e] = issuedAt[e]
      \/ ~More(e) /\ pc[e] = "csr" /\ pc'[e] = "cert" /\ at'[e] = 1 /\ issuedAt'[e] = now
      \/ /\ ~More(e) /\ at'[e] = 1 /\ issuedAt'[e] = issuedAt[e]
         /\ \/ pc[e] = "cert" /\ pc'[e] = "descriptor"
            \/ pc[e] = "descriptor" /\ pc'[e] = "roster"
            \/ pc[e] = "roster" /\ pc'[e] = "done"
  BY <1>0 DEF Proceed, TypeOK, After, Calls
<1>3. ASSUME ~More(e), NEW r \in Nodes PROVE r < at[e] \/ r = at[e]
  BY <1>0, <1>3 DEF More, Nodes
<1>4. \A r \in Nodes : r < at[e] + 1 => r < at[e] \/ r = at[e]
  BY <1>0 DEF Nodes
<1>5. \A r \in Nodes : ~(r < 1)
  BY DEF Nodes
<1>6. /\ \A r \in Nodes : CertNamed(e, r) => CertNamed(e, r)'
      /\ \A r \in Nodes : RosterNamed(e, r) => RosterNamed(e, r)'
      /\ \A r \in Nodes : pc[e] = "cert" /\ r = at[e] => CertNamed(e, r)'
      /\ \A r \in Nodes : pc[e] = "roster" /\ r = at[e] => RosterNamed(e, r)'
  BY <1>0, <1>1, NotedFields DEF CertNamed, RosterNamed
<1>7. /\ pc'[e] \notin {"idle", "killed"}
      /\ pc'[e] = "csr" => pc[e] = "csr"
  BY <1>0, <1>2 DEF Calls
<1>8. AnswersFit(e)' /\ NotLate(e)'
  BY <1>1, <1>7 DEF AnswersFit, NotLate
<1>9. Timing(e)'
  <2>1. /\ started[e] \in Times /\ started[e] <= now /\ now <= started[e] + Timeout
        /\ issuedAt[e] <= now /\ (pc[e] # "csr" => started[e] <= issuedAt[e])
    BY <1>0 DEF RunInv, Timing
  <2>2. now \in Nat
    BY <1>0, TimeInts
  <2>3. now <= now
    BY <2>2
  <2> QED  BY <1>0, <1>1, <1>2, <2>1, <2>3 DEF Timing
\* before the certificates are issued no relay has anything of the run
<1>10. pc[e] = "csr" => /\ \A r \in Nodes : installed[r] # e /\ roster[r] # e
                        /\ \A r \in Nodes : <<"cert", e, r>> \notin orphans
                                            /\ <<"roster", e, r>> \notin orphans
  <2> SUFFICES ASSUME pc[e] = "csr", NEW r \in Nodes
               PROVE  /\ installed[r] # e /\ roster[r] # e
                      /\ <<"cert", e, r>> \notin orphans /\ <<"roster", e, r>> \notin orphans
    OBVIOUS
  <2>1. installed[r] # e
    BY <1>0 DEF RunInv, Holding
  <2>2. e # None
    BY DEF Runs, None
  <2>3. roster[r] # e
    BY <1>0, <2>1, <2>2 DEF RosterOfItsCA
  <2> QED  BY <1>0, <2>1, <2>3 DEF RunInv, OrphansMade
<1>11. Holding(e)'
  BY <1>0, <1>1, <1>2, <1>7, <1>10 DEF RunInv, Holding, Same, Active
<1>12. RequestsTaken(e)'
  <2> SUFFICES ASSUME NEW r \in Nodes, Same(e, r), pc'[e] = "csr" => r < at'[e]
               PROVE  installed[r] # None \/ started[e] <= requestAt[r]
    BY <1>1 DEF RequestsTaken, Same, AnsweredOk
  <2>1. pc[e] = "csr" => r < at[e] \/ (r = at[e] /\ AnsweredOk(e))
    BY <1>0, <1>2, <1>3, <1>4
  <2> QED  BY <1>0, <2>1 DEF RunInv, RequestsTaken
<1>13. SignedTaken(e)'
  <2> SUFFICES ASSUME NEW r \in Nodes, Same(e, r),
                      (pc'[e] = "descriptor" /\ r < at'[e]) \/ pc'[e] = "roster"
               PROVE  out[r]
    BY <1>1 DEF SignedTaken, Same, AnsweredOk
  <2>1. \/ pc[e] = "descriptor" /\ r < at[e]
        \/ pc[e] = "descriptor" /\ r = at[e] /\ AnsweredOk(e)
        \/ pc[e] = "roster"
    BY <1>0, <1>2, <1>3, <1>4, <1>5
  <2> QED  BY <1>0, <2>1 DEF RunInv, SignedTaken
<1>14. OrphansMade(e)'
  BY <1>0, <1>1, <1>2, <1>10 DEF RunInv, OrphansMade
<1>15. ASSUME pc[e] # "csr", NEW r \in Nodes
       PROVE  (CanHold(e, r)' <=> CanHold(e, r)) /\ (CanTake(e, r)' <=> CanTake(e, r))
  BY <1>1, <1>2, <1>15 DEF CanTake, CanHold, Same, NotAfter, Reads, Stale
<1>16. ASSUME NEW r \in Nodes, CertTouched(e, r)' PROVE CertNamed(e, r)'
  <2>1. pc[e] # "csr"
    BY <1>1, <1>10, <1>16 DEF CertTouched
  <2>2. CertTouched(e, r)
    BY <1>1, <1>15, <1>16, <2>1 DEF CertTouched
  <2>3. CertNamed(e, r) \/ (pc[e] = "cert" /\ r = at[e])
    BY <1>0, <2>2 DEF RunInv, CertsNoted, Calls
  <2> QED  BY <1>6, <2>3
<1>17. ASSUME NEW r \in Nodes, RosterTouched(e, r)' PROVE RosterNamed(e, r)'
  <2>1. pc[e] # "csr"
    BY <1>1, <1>10, <1>17 DEF RosterTouched
  <2>2. RosterTouched(e, r)
    BY <1>1, <1>15, <1>17, <2>1 DEF RosterTouched
  <2>3. RosterNamed(e, r) \/ (pc[e] = "roster" /\ r = at[e])
    BY <1>0, <2>2 DEF RunInv, RostersNoted, Calls
  <2> QED  BY <1>6, <2>3
<1>18. CertsNoted(e)' /\ RostersNoted(e)'
  BY <1>16, <1>17 DEF CertsNoted, RostersNoted
<1> QED  BY <1>8, <1>9, <1>11, <1>12, <1>13, <1>14, <1>18 DEF RunInv

-----------------------------------------------------------------------------
(* The induction.                                                           *)

LEMMA NamedInit == Init => NamedInv
<1> SUFFICES ASSUME Init PROVE NamedInv
  OBVIOUS
<1>1. EnrollInv
  BY EnrollInvInit
<1>2. 0 \in Times /\ 1 \in Nodes /\ 1 \in Nat \ {0}
  BY EnrollAssumption DEF Times, Nodes
<1>3. TypeOK
  <2>1. NothingNamed \in [{"installed", "mayHold", "hinted", "rostered", "mayRoster"}
                            -> SUBSET Nodes]
    BY DEF NothingNamed
  <2>2. Open \in [st : {"open", "answered"}, code : Codes, val : Nat]
    BY DEF Open, Codes
  <2>3. faults \in 0..MaxFaults /\ crashes \in 0..MaxCrashes /\ kills \in 0..MaxKills
    BY EnrollAssumption DEF Init
  <2>4. pin \in [Runs -> [Nodes -> Nat]]
    BY DEF Init
  <2> QED  BY <1>2, <2>1, <2>2, <2>3, <2>4 DEF Init, TypeOK
<1>4. Never <= 0
  BY DEF Never
<1>5. NoFuture
  BY <1>4 DEF Init, NoFuture
<1>6. ASSUME NEW e \in Runs PROVE RunInv(e)
  <2>1. pc[e] = "idle" /\ call[e].st = "open" /\ at[e] = 1 /\ issuedAt[e] <= now /\ ~Active(e)
    BY <1>4 DEF Init, Open, Active, Calls
  <2>2. e # None
    BY DEF Runs, None
  <2>3. \A r \in Nodes : installed[r] # e /\ roster[r] # e
    BY <2>2 DEF Init
  <2>4. orphans = {}
    BY DEF Init
  <2>5. AnswersFit(e) /\ Timing(e) /\ Holding(e) /\ RequestsTaken(e) /\ NotLate(e) /\ SignedTaken(e)
    BY <2>1, <2>3 DEF AnswersFit, Timing, Holding, RequestsTaken, NotLate, SignedTaken
  <2>6. CertsNoted(e) /\ RostersNoted(e) /\ OrphansMade(e)
    BY <2>3, <2>4 DEF CertsNoted, RostersNoted, OrphansMade, CertTouched, RosterTouched
  <2> QED  BY <2>5, <2>6 DEF RunInv
<1> QED  BY <1>1, <1>3, <1>5, <1>6 DEF NamedInv

\* A handler's step keeps the open requests in the past.
LEMMA TakeNoFuture ==
    ASSUME TypeOK, NoFuture, NEW kind, NEW e \in Runs, NEW r \in Nodes, Takes(kind, e, r),
           UNCHANGED now
    PROVE  NoFuture'
<1>1. now \in Nat /\ Never <= now
  BY TimeInts DEF Never
<1> QED  BY <1>1 DEF NoFuture, Takes

\* A step of run e that touches no relay.
LEMMA RunNext ==
    ASSUME NamedInv, NEW e \in Runs, RunInv(e)', UNCHANGED <<now, relayVars>>,
           \A d \in Runs \ {e} : Rests(d)
    PROVE  NoFuture' /\ \A d \in Runs : RunInv(d)'
<1>1. NoFuture'
  BY DEF NamedInv, NoFuture, relayVars
<1>2. ASSUME NEW d \in Runs PROVE RunInv(d)'
  <2>1. CASE d # e
    <3>1. RunInv(d) /\ Rests(d)
      BY <2>1 DEF NamedInv
    <3> QED  BY <3>1, RestKeeps
  <2> QED  BY <2>1
<1> QED  BY <1>1, <1>2

LEMMA NamedNext == NamedInv /\ [Next]_vars => NamedInv'
<1> SUFFICES ASSUME NamedInv, [Next]_vars PROVE NamedInv'
  OBVIOUS
<1>0. TypeOK /\ NoFuture /\ EnrollInv /\ \A d \in Runs : RunInv(d)
  BY DEF NamedInv
<1>1. EnrollInv'
  BY <1>0, EnrollInvNext
<1>2. TypeOK'
  <2>1. \A e \in Runs : AnswersFit(e)
    BY <1>0 DEF RunInv
  <2> QED  BY <1>0, <2>1, TypeNext
<1> DEFINE Goal == NoFuture' /\ \A d \in Runs : RunInv(d)'
<1>3. ASSUME UNCHANGED vars PROVE Goal
  <2>1. UNCHANGED <<now, relayVars>> /\ \A d \in Runs : Rests(d)
    BY <1>3 DEF vars, runVars, Rests
  <2>2. NoFuture'
    BY <1>0, <2>1 DEF NoFuture, relayVars
  <2>3. ASSUME NEW d \in Runs PROVE RunInv(d)'
    BY <1>0, <2>1, RestKeeps
  <2> QED  BY <2>2, <2>3
<1>4. ASSUME Tick PROVE Goal
  <2>1. now \in Nat /\ now' = now + 1 /\ requestAt' = requestAt
        /\ \A r \in Nodes : requestAt[r] \in Int
    BY <1>0, <1>4, TimeInts DEF Tick, relayVars
  <2>2. NoFuture'
    BY <1>0, <2>1 DEF NoFuture
  <2> QED  BY <1>4, <2>2, TickKeeps
<1>5. ASSUME NEW e \in Runs, Start(e) PROVE Goal
  <2>1. UNCHANGED <<now, relayVars>> /\ \A d \in Runs \ {e} : Rests(d)
    BY <1>0, <1>5 DEF Start, Rests, TypeOK
  <2>2. RunInv(e)'
    BY <1>5, StartKeeps
  <2> QED  BY <2>1, <2>2, RunNext
<1>6. ASSUME NEW e \in Runs, Process(e) PROVE Goal
  <2>1. PICK a \in Answers : Handle(pc[e], e, at[e], a)
    BY <1>6 DEF Process
  <2>2. at[e] \in Nodes
    BY <1>0 DEF TypeOK
  <2>3. Takes(pc[e], e, at[e]) /\ UNCHANGED now
    BY <1>0, <1>6, <2>1, <2>2, HandleTakes DEF Process
  <2>4. NoFuture'
    BY <1>0, <2>2, <2>3, TakeNoFuture
  <2>5. \A d \in Runs \ {e} : Rests(d)
    BY <1>0, <1>6 DEF Process, Rests, TypeOK
  <2>6. ASSUME NEW d \in Runs PROVE RunInv(d)'
    <3>1. CASE d = e
      BY <1>6, <3>1, AnswerKeeps
    <3>2. CASE d # e
      BY <2>2, <2>3, <2>5, <3>2, TakeKeeps
    <3> QED  BY <3>1, <3>2
  <2> QED  BY <2>4, <2>6
<1>7. ASSUME NEW e \in Runs, Receive(e) PROVE Goal
  <2>1. /\ UNCHANGED <<now, relayVars>> /\ UNCHANGED orphans
        /\ Active(e) /\ call[e].st = "answered"
    BY <1>7 DEF Receive
  <2>2. CASE Proceed(e)
    <3>1. RunInv(e)'
      BY <2>1, <2>2, PassKeeps
    <3>2. \A d \in Runs \ {e} : Rests(d)
      BY <1>0, <2>1, <2>2 DEF Proceed, Rests, TypeOK
    <3> QED  BY <2>1, <3>1, <3>2, RunNext
  <2>3. ASSUME NEW code, Fail(e, code),
               code \in {call[e].code, "transport"} \/ (code = "ok" /\ pc[e] = "csr")
        PROVE  Goal
    <3>1. RunInv(e)'
      BY <2>1, <2>3, FailKeeps
    <3>2. \A d \in Runs \ {e} : Rests(d)
      BY <1>0, <2>1, <2>3 DEF Fail, Forget, Rests, TypeOK
    <3> QED  BY <2>1, <3>1, <3>2, RunNext
  <2> QED  BY <1>7, <2>2, <2>3 DEF Receive, IssueFails, BodyFails
<1>8. ASSUME NEW e \in Runs, Expire(e) PROVE Goal
  <2>1. /\ UNCHANGED <<now, relayVars>> /\ Active(e)
        /\ Fail(e, "transport") /\ LeftBehind(e)
    BY <1>8 DEF Expire
  <2>2. RunInv(e)'
    <3>1. \A k, r : <<k, e, r>> \in orphans' =>
             \/ <<k, e, r>> \in orphans
             \/ k = pc[e] /\ r = at[e] /\ call[e].st = "open"
      BY <2>1, CopyLeft
    <3> QED  BY <2>1, <3>1, FailKeeps
  <2>3. \A d \in Runs \ {e} : \A k, r : <<k, d, r>> \in orphans' => <<k, d, r>> \in orphans
    BY <2>1, CopyLeft
  <2>4. \A d \in Runs \ {e} : Rests(d)
    BY <1>0, <2>1, <2>3 DEF Fail, Forget, Rests, TypeOK
  <2> QED  BY <2>1, <2>2, <2>4, RunNext
<1>9. ASSUME NEW e \in Runs, Lose(e) PROVE Goal
  <2>1. UNCHANGED <<now, relayVars>> /\ LeftBehind(e) /\ RunInv(e)'
    BY <1>9, LoseKeeps DEF Lose
  <2>2. \A d \in Runs \ {e} : \A k, r : <<k, d, r>> \in orphans' => <<k, d, r>> \in orphans
    BY <2>1, CopyLeft
  <2>3. \A d \in Runs \ {e} : Rests(d)
    BY <1>0, <1>9, <2>2 DEF Lose, Rests, TypeOK
  <2> QED  BY <2>1, <2>3, RunNext
<1>10. ASSUME NEW e \in Runs, Kill(e) PROVE Goal
  <2>1. /\ UNCHANGED <<now, relayVars>> /\ UNCHANGED <<pin, issuedAt>>
        /\ Active(e) /\ LeftBehind(e) /\ pc'[e] = "killed"
    BY <1>0, <1>10 DEF Kill, TypeOK
  <2>2. \A k, d, r : <<k, d, r>> \in orphans' =>
           \/ <<k, d, r>> \in orphans
           \/ k = pc[e] /\ d = e /\ r = at[e] /\ call[e].st = "open"
    BY <2>1, CopyLeft
  <2>3. RunInv(e)'
    BY <2>1, <2>2, OverKeepsRun
  <2>4. \A d \in Runs \ {e} : Rests(d)
    BY <1>0, <1>10, <2>2 DEF Kill, Forget, Rests, TypeOK
  <2> QED  BY <2>1, <2>3, <2>4, RunNext
<1>11. ASSUME NEW r \in Nodes, Restart(r), UNCHANGED <<now, runVars, orphans>> PROVE Goal
  <2>1. Never <= now
    BY <1>0, TimeInts DEF Never
  <2>2. NoFuture'
    BY <1>0, <1>11, <2>1 DEF NoFuture, Restart, TypeOK
  <2> QED  BY <1>11, <2>2, RestartRuns
<1>12. ASSUME NEW r \in Nodes, Resign(r) PROVE Goal
  <2>1. UNCHANGED <<now, ahead, proc, requestAt, installed, installedAt, roster>>
        /\ out' = [out EXCEPT ![r] = TRUE] /\ \A d \in Runs : Rests(d)
    BY <1>12 DEF Resign, runVars, Rests
  <2>2. NoFuture'
    BY <1>0, <2>1 DEF NoFuture
  <2>3. ASSUME NEW d \in Runs PROVE RunInv(d)'
    <3>1. Takes("none", d, r)
      BY <1>0, <2>1 DEF Takes, TypeOK
    <3>2. Rests(d) /\ now' = now
      BY <2>1
    <3>3. "none" # "cert" /\ "none" # "roster"
      OBVIOUS
    <3> HIDE DEF Goal
    <3> QED  BY <3>1, <3>2, <3>3, TakeKeeps
  <2> QED  BY <2>2, <2>3
<1>13. ASSUME NEW o \in orphans, ProcessOrphan(o) PROVE Goal
  <2>1. o[2] \in Runs /\ o[3] \in Nodes /\ o = <<o[1], o[2], o[3]>>
    BY <1>0 DEF TypeOK
  <2>2. PICK a \in Answers : Handle(o[1], o[2], o[3], a)
    BY <1>13 DEF ProcessOrphan
  <2>3. Takes(o[1], o[2], o[3]) /\ UNCHANGED now /\ \A d \in Runs : Rests(d)
    BY <1>0, <1>13, <2>1, <2>2, HandleTakes DEF ProcessOrphan, runVars, Rests
  <2>4. NoFuture'
    BY <1>0, <2>1, <2>3, TakeNoFuture
  <2>5. o[1] = "cert" => pc[o[2]] \notin {"idle", "csr"} /\ <<"cert", o[2], o[3]>> \in orphans
    BY <1>0, <2>1 DEF RunInv, OrphansMade
  <2>6. o[1] = "roster" => <<"roster", o[2], o[3]>> \in orphans
    BY <2>1
  <2>7. ASSUME NEW d \in Runs PROVE RunInv(d)'
    BY <2>1, <2>3, <2>5, <2>6, TakeKeeps
  <2> QED  BY <2>4, <2>7
<1>14. Goal
  BY <1>3, <1>4, <1>5, <1>6, <1>7, <1>8, <1>9, <1>10, <1>11, <1>12, <1>13
  DEF Next, RunStep, Crash, OperatorRestart
<1> QED  BY <1>1, <1>2, <1>14 DEF NamedInv

\* A failed run's report names every relay that holds a certificate or a roster
\* of its discarded CA, whichever answers were lost and whichever copies of its
\* requests arrive after it has ended (reportDiscarded, enroll.go:344-354).
THEOREM EnrollHoldersAreNamed == Spec => []HoldersAreNamed
<1>1. NamedInv => HoldersAreNamed
  BY DEF NamedInv, RunInv, CertsNoted, RostersNoted, CertTouched, RosterTouched,
         CertNamed, RosterNamed, HoldersAreNamed
<1> QED  BY <1>1, NamedInit, NamedNext, PTL DEF Spec

\* Within its deadline a run is refused for being late only by a process it
\* never read of (-timeout against pki.InstallWindow, enroll.go:169-171), or, as
\* stale, by one whose clock is ahead of the operator's by more than the skew
\* less the deadline (admin.go:333).
THEOREM EnrollNeverRefusedLate == Spec => []NeverRefusedLate
<1>1. NamedInv => NeverRefusedLate
  BY DEF NamedInv, RunInv, NotLate, Same, NeverRefusedLate
<1> QED  BY <1>1, NamedInit, NamedNext, PTL DEF Spec
=============================================================================

----------------------------- MODULE Enrollment -----------------------------
(***************************************************************************)
(* Certificate issuance: the operator's `jimichi enroll`                   *)
(* (cmd/jimichi/enroll.go) against the admin and info ports of the relays  *)
(* (cmd/relay/admin.go, cmd/relay/peers.go handleRoster, pki).             *)
(*                                                                         *)
(* A run asks every relay for a signed request, creates a CA and issues    *)
(* every certificate, installs them one relay at a time, reads every       *)
(* descriptor back and verifies the chain, sends every relay the roster,   *)
(* and only then gives out the anchor.  Nothing of this is atomic: a call  *)
(* is retried after every transport error, an earlier copy of a request    *)
(* may still reach the relay, relays restart with a fresh identity, the    *)
(* run has a deadline, and a second run may be under way.                  *)
(*                                                                         *)
(* Time is counted in units of the smallest interval that matters.  now is *)
(* the operator's clock, which dates the certificates; every relay reads a *)
(* clock of its own, ahead of it or behind by up to Skew, and durations    *)
(* are the same on all of them.  Certificates are identified by the run    *)
(* whose CA issued them and by the relay they were issued to; a relay's    *)
(* identity key by the number of its process.                              *)
(***************************************************************************)
EXTENDS Integers, FiniteSets

CONSTANTS
    N,              \* relays of the roster, in the order the run visits them
    R,              \* runs of jimichi enroll, each with a CA of its own
    Timeout,        \* -timeout, the deadline of a whole run
    InstallWindow,  \* pki.InstallWindow
    Skew,           \* pki.Skew
    CertLife,       \* -cert-ttl
    Clocks,         \* what the relays' clocks may show more than the operator's
    Overlap,        \* whether a run may start while another is under way
    MaxTime,        \* bound: the last moment of the clock
    MaxFaults,      \* bound: lost calls, failed signatures, failed issuances
    MaxCrashes,     \* bound: restarts of a relay nobody asked for
    MaxKills        \* bound: runs that are killed and report nothing

\* runEnroll refuses a timeout over the window and a lifetime under a minute
ASSUME EnrollAssumption ==
    /\ N \in Nat \ {0} /\ R \in Nat \ {0}
    /\ Timeout \in Nat \ {0} /\ InstallWindow \in Nat /\ Timeout <= InstallWindow
    /\ CertLife \in Nat /\ CertLife >= InstallWindow
    /\ Skew \in Nat /\ MaxTime \in Nat
    /\ MaxFaults \in Nat /\ MaxCrashes \in Nat /\ MaxKills \in Nat
    /\ Overlap \in BOOLEAN

\* "the clocks of nodes and clients must agree within 2 minutes (the Skew
\* allowance)", docs/en/LIMITATIONS.md:253, taken for the operator's clock too
ASSUME ClockAssumption == Clocks \subseteq [1..N -> (-Skew)..Skew]

VARIABLES
    now,            \* the operator's clock
    ahead,          \* ahead[r]: what the clock of r's host shows more than that
    proc,           \* proc[r]: the process serving relay r, and so its identity
    requestAt,      \* node.requestAt, None without an open request
    installed,      \* node.installed: the run whose certificate is held, or None
    installedAt,    \* node.installedAt
    out,            \* node.out: whether a descriptor has been signed
    roster,         \* node.roster: the run whose roster is held, or None
    pc,             \* where a run is
    at,             \* the relay the run is calling
    started,        \* when the run started: its context ends Timeout later
    pin,            \* the identities the operator passed, read from the logs
    issuedAt,       \* not_before of the certificates of the run
    got,            \* the CAs of the bundles read back so far
    call,           \* the HTTP call under way
    named,          \* the lists the run reports when it fails
    orphans,        \* copies of requests the run gave up on, still on their way
    faults, crashes, kills   \* what the bounds count

relayVars == <<ahead, proc, requestAt, installed, installedAt, out, roster>>
runVars == <<pc, at, started, pin, issuedAt, got, call, named>>
budget == <<faults, crashes, kills>>
vars == <<now, relayVars, runVars, orphans, budget>>

Nodes == 1..N
Runs == 1..R
None == 0
Never == -1
Times == 0..MaxTime

Calls == {"csr", "cert", "descriptor", "roster"}
Codes == {"ok", "installed", "no request", "stale", "bad", "error",
          "roster set", "early", "late", "no bundle", "unavailable"}
\* a call open until it is answered: its request may be on the way, lost or late
Open == [st |-> "open", code |-> "ok", val |-> 0]
Answered(a) == [st |-> "answered", code |-> a.code, val |-> a.val]
Says(c) == [code |-> c, val |-> 0]
\* an identity is answered to a request, a CA to a descriptor
Answers == {Says(c) : c \in Codes} \cup [code : {"ok"}, val : 1..(1 + R + MaxCrashes)]

NothingNamed == [installed |-> {}, mayHold |-> {}, hinted |-> {},
                 rostered |-> {}, mayRoster |-> {}]

Active(e) == pc[e] \in Calls
NotAfter(e) == issuedAt[e] + CertLife

TypeOK ==
    /\ now \in Times
    /\ ahead \in Clocks
    /\ proc \in [Nodes -> Nat \ {0}]
    /\ requestAt \in [Nodes -> Times \cup {Never}]
    /\ installed \in [Nodes -> Runs \cup {None}]
    /\ installedAt \in [Nodes -> Times \cup {Never}]
    /\ out \in [Nodes -> BOOLEAN]
    /\ roster \in [Nodes -> Runs \cup {None}]
    /\ pc \in [Runs -> Calls \cup {"idle", "done", "failed", "killed"}]
    /\ at \in [Runs -> Nodes]
    /\ started \in [Runs -> Times \cup {Never}]
    /\ pin \in [Runs -> [Nodes -> Nat]]
    /\ issuedAt \in [Runs -> Times \cup {Never}]
    /\ got \in [Runs -> SUBSET Runs]
    /\ call \in [Runs -> [st : {"open", "answered"}, code : Codes, val : Nat]]
    /\ named \in [Runs -> [{"installed", "mayHold", "hinted", "rostered", "mayRoster"}
                             -> SUBSET Nodes]]
    /\ orphans \subseteq (Calls \X Runs \X Nodes)
    /\ faults \in 0..MaxFaults /\ crashes \in 0..MaxCrashes /\ kills \in 0..MaxKills

Init ==
    /\ now = 0
    /\ ahead \in Clocks
    /\ proc = [r \in Nodes |-> 1]
    /\ requestAt = [r \in Nodes |-> Never]
    /\ installed = [r \in Nodes |-> None]
    /\ installedAt = [r \in Nodes |-> Never]
    /\ out = [r \in Nodes |-> FALSE]
    /\ roster = [r \in Nodes |-> None]
    /\ pc = [e \in Runs |-> "idle"]
    /\ at = [e \in Runs |-> 1]
    /\ started = [e \in Runs |-> Never]
    /\ pin = [e \in Runs |-> [r \in Nodes |-> 0]]
    /\ issuedAt = [e \in Runs |-> Never]
    /\ got = [e \in Runs |-> {}]
    /\ call = [e \in Runs |-> Open]
    /\ named = [e \in Runs |-> NothingNamed]
    /\ orphans = {}
    /\ faults = 0 /\ crashes = 0 /\ kills = 0

-----------------------------------------------------------------------------
(* The relay's handlers.  Each holds node.mu from the first check to the    *)
(* answer, so each is one step.                                             *)

\* node.now: what the clock of relay r shows at the moment t
Reads(r, t) == t + ahead[r]

\* certState: whether the installed certificate is inside its validity
CertValid(r) == installed[r] # None /\ Reads(r, now) < NotAfter(installed[r])

\* current: the bundle in service
InService(r) == out[r] /\ CertValid(r)

\* handleRequest: POST /csr
HandleRequest(r, a) ==
    \/ /\ installed[r] # None
       /\ a = Says("installed")
       /\ UNCHANGED relayVars
    \/ /\ installed[r] = None
       /\ a = [code |-> "ok", val |-> proc[r]]
       /\ requestAt' = [requestAt EXCEPT ![r] = now]
       /\ UNCHANGED <<ahead, proc, installed, installedAt, out, roster>>

\* mutant: the window ends one moment early
WaitsLess(r) == requestAt[r] # Never /\ now - requestAt[r] < InstallWindow

\* handleCert: no open request, or one older than the window
Waits(r) == requestAt[r] # Never /\ now - requestAt[r] <= InstallWindow

\* handleCert: not_before, by the operator's clock, against the moment of the
\* open request by the relay's
Stale(r, e) == issuedAt[e] < Reads(r, requestAt[r]) - Skew

\* Identity.Install: the certificate names this process's key and is in its window
Installs(r, e) ==
    /\ pin[e][r] = proc[r]
    /\ Reads(r, now) + Skew >= issuedAt[e]
    /\ Reads(r, now) < NotAfter(e)

\* handleCert: the same bytes again while they are valid
SameCert(r, e) == installed[r] = e /\ CertValid(r)

\* handleCert: what the checks before the installation answer, in their order
CertRefusal(r, e) ==
    IF SameCert(r, e) THEN "ok"
    ELSE IF installed[r] # None THEN "installed"
    ELSE IF ~Waits(r) THEN "no request"
    ELSE IF Stale(r, e) THEN "stale"
    ELSE IF ~Installs(r, e) THEN "bad"
    ELSE "none"

\* handleCert: PUT /cert; the signature of the first descriptor may fail after
\* the certificate has been taken, which answers 500
HandleCert(r, e, a) ==
    \/ /\ CertRefusal(r, e) # "none"
       /\ a = Says(CertRefusal(r, e))
       /\ UNCHANGED <<relayVars, faults>>
    \/ /\ CertRefusal(r, e) = "none"
       /\ requestAt' = [requestAt EXCEPT ![r] = Never]
       /\ installed' = [installed EXCEPT ![r] = e]
       /\ installedAt' = [installedAt EXCEPT ![r] = now]
       /\ \/ /\ a = Says("ok")
             /\ out' = [out EXCEPT ![r] = TRUE]
             /\ UNCHANGED faults
          \/ /\ faults < MaxFaults
             /\ faults' = faults + 1
             /\ a = Says("error")
             /\ UNCHANGED out
       /\ UNCHANGED <<ahead, proc, roster>>

\* GET /descriptor
HandleDescriptor(r, a) ==
    /\ a = IF InService(r) THEN [code |-> "ok", val |-> installed[r]]
                           ELSE Says("unavailable")
    /\ UNCHANGED relayVars

\* mutant: the roster's anchor is not checked
VerifiesAnyhow(r, e) == TRUE

\* pki.Verify of the node's own bundle under the anchor the roster names
VerifiesUnder(r, e) == installed[r] = e

\* handleRoster: the same bytes again; ParseRoster accepts one spelling, so equal
\* rosters are equal bytes
SameRoster(r, e) == roster[r] = e

\* handleRoster: the checks in their order
RosterRefusal(r, e) ==
    IF SameRoster(r, e) THEN "ok"
    ELSE IF roster[r] # None THEN "roster set"
    ELSE IF installed[r] = None THEN "early"
    ELSE IF now - installedAt[r] > InstallWindow THEN "late"
    ELSE IF ~InService(r) THEN "no bundle"
    ELSE IF ~VerifiesUnder(r, e) THEN "bad"
    ELSE "none"

\* handleRoster: PUT /roster
HandleRoster(r, e, a) ==
    \/ /\ RosterRefusal(r, e) # "none"
       /\ a = Says(RosterRefusal(r, e))
       /\ UNCHANGED relayVars
    \/ /\ RosterRefusal(r, e) = "none"
       /\ a = Says("ok")
       /\ roster' = [roster EXCEPT ![r] = e]
       /\ UNCHANGED <<ahead, proc, requestAt, installed, installedAt, out>>

Handle(kind, e, r, a) ==
    \/ kind = "csr" /\ HandleRequest(r, a) /\ UNCHANGED faults
    \/ kind = "cert" /\ HandleCert(r, e, a)
    \/ kind = "descriptor" /\ HandleDescriptor(r, a) /\ UNCHANGED faults
    \/ kind = "roster" /\ HandleRoster(r, e, a) /\ UNCHANGED faults

\* the relay answers the call the run waits for
Process(e) ==
    /\ Active(e) /\ call[e].st = "open"
    /\ \E a \in Answers :
          /\ Handle(pc[e], e, at[e], a)
          /\ call' = [call EXCEPT ![e] = Answered(a)]
    /\ UNCHANGED <<now, pc, at, started, pin, issuedAt, got, named, orphans, crashes, kills>>

\* the relay handles a copy nobody waits for any more
ProcessOrphan(o) ==
    /\ \E a \in Answers : Handle(o[1], o[2], o[3], a)
    /\ orphans' = orphans \ {o}
    /\ UNCHANGED <<now, runVars, crashes, kills>>

\* refreshIfDue: the timer signs what a failed first signing left open
Resign(r) ==
    /\ CertValid(r) /\ ~out[r]
    /\ out' = [out EXCEPT ![r] = TRUE]
    /\ UNCHANGED <<now, ahead, proc, requestAt, installed, installedAt, roster>>
    /\ UNCHANGED <<runVars, orphans, budget>>

\* a new process on the same host: fresh identity, no certificate, no roster
Restart(r) ==
    /\ proc' = [proc EXCEPT ![r] = @ + 1]
    /\ requestAt' = [requestAt EXCEPT ![r] = Never]
    /\ installed' = [installed EXCEPT ![r] = None]
    /\ installedAt' = [installedAt EXCEPT ![r] = Never]
    /\ out' = [out EXCEPT ![r] = FALSE]
    /\ roster' = [roster EXCEPT ![r] = None]
    /\ UNCHANGED ahead

Crash(r) ==
    /\ crashes < MaxCrashes
    /\ crashes' = crashes + 1
    /\ Restart(r)
    /\ UNCHANGED <<now, runVars, orphans, faults, kills>>
-----------------------------------------------------------------------------
(* The operator's side: enrollment.run and enrollment.call.                 *)

\* the relays a run's report asks to restart
Reported(e) ==
    named[e].installed \cup named[e].mayHold \cup named[e].hinted
        \cup named[e].rostered \cup named[e].mayRoster

\* the operator reads the identities from the logs and starts a run; one at a
\* time means after the relays the last report named have been restarted
MayStart(e) ==
    /\ \A d \in Runs : d < e => pc[d] # "idle"
    /\ \/ Overlap
       \/ \A d \in Runs : d < e =>
             /\ pc[d] \in {"failed", "killed"}
             /\ \A r \in Reported(d) : proc[r] # pin[d][r]

Start(e) ==
    /\ pc[e] = "idle" /\ MayStart(e)
    /\ pc' = [pc EXCEPT ![e] = "csr"]
    /\ started' = [started EXCEPT ![e] = now]
    /\ pin' = [pin EXCEPT ![e] = proc]
    /\ UNCHANGED <<now, relayVars, at, issuedAt, got, call, named, orphans, budget>>

\* the restart the report asks for, of a process that still runs
OperatorRestart(e, r) ==
    /\ pc[e] = "failed" /\ r \in Reported(e) /\ proc[r] = pin[e][r]
    /\ Restart(r)
    /\ UNCHANGED <<now, runVars, orphans, budget>>

\* what becomes of a request whose connection broke: lost, or late (a late read
\* changes nothing)
LeftBehind(e) ==
    \/ UNCHANGED orphans
    \/ /\ call[e].st = "open" /\ pc[e] # "descriptor"
       /\ orphans' = orphans \cup {<<pc[e], e, at[e]>>}

\* enrollment.call: a transport error before the deadline is tried again
Lose(e) ==
    /\ Active(e) /\ faults < MaxFaults
    /\ faults' = faults + 1
    /\ call' = [call EXCEPT ![e] = Open]
    /\ LeftBehind(e)
    /\ UNCHANGED <<now, relayVars, pc, at, started, pin, issuedAt, got, named, crashes, kills>>

\* mutants: the restart hint is not printed; a lost answer counts as a refusal
NeverInstalled(code) == FALSE
AnsweredOnly(code) == code = "error"

\* what an answer, or a transport error, says about the relay
AlreadyInstalled(code) == code = "installed"
Ambiguous(code) == code \in {"transport", "error"}

\* the lists after a call of the given kind came back with code
Noted(e, code) ==
    LET r == at[e]
        add(list, cond) == IF cond THEN named[e][list] \cup {r} ELSE named[e][list]
        cert == pc[e] = "cert"
        asks == pc[e] \in {"csr", "cert"}
        rost == pc[e] = "roster"
    IN [installed |-> add("installed", cert /\ code = "ok"),
        mayHold   |-> add("mayHold", cert /\ Ambiguous(code)),
        hinted    |-> add("hinted", asks /\ AlreadyInstalled(code)),
        rostered  |-> add("rostered", rost /\ code = "ok"),
        mayRoster |-> add("mayRoster", rost /\ Ambiguous(code))]

\* the local state of a run that is over
Forget(e) ==
    /\ call' = [call EXCEPT ![e] = Open]
    /\ at' = [at EXCEPT ![e] = 1]
    /\ started' = [started EXCEPT ![e] = Never]
    /\ got' = [got EXCEPT ![e] = {}]

\* the run returns an error; the deferred report names what it has noted
Fail(e, code) ==
    /\ pc' = [pc EXCEPT ![e] = "failed"]
    /\ named' = [named EXCEPT ![e] = Noted(e, code)]
    /\ Forget(e)
    /\ UNCHANGED <<pin, issuedAt>>

\* the context has ended, in the pause before a retry or during a call
Expire(e) ==
    /\ Active(e) /\ now >= started[e] + Timeout
    /\ Fail(e, "transport")
    /\ LeftBehind(e)
    /\ UNCHANGED <<now, relayVars, budget>>

\* the process is killed: nothing is reported
Kill(e) ==
    /\ Active(e) /\ kills < MaxKills
    /\ kills' = kills + 1
    /\ pc' = [pc EXCEPT ![e] = "killed"]
    /\ named' = [named EXCEPT ![e] = NothingNamed]
    /\ Forget(e)
    /\ LeftBehind(e)
    /\ UNCHANGED <<now, relayVars, pin, issuedAt, faults, crashes>>

\* pki.VerifyChain over the bundles read back, the last one included, at the
\* operator's clock
ChainVerifies(e) == got[e] \cup {call[e].val} = {e} /\ now < NotAfter(e)

\* descWindow: a descriptor signed by a clock behind the operator's may be over
\* for the operator; one from a clock ahead by no more than Skew has begun
LooksExpired(e) == pc[e] = "descriptor" /\ at[e] = N /\ \E r \in Nodes : ahead[r] < 0

\* Request.Check and the pin: the request is signed by the key the operator read
RequestChecks(e) == call[e].val = pin[e][at[e]]

\* whether the answer lets the run go on
Passes(e) ==
    /\ call[e].code = "ok"
    /\ pc[e] = "csr" => RequestChecks(e)
    /\ pc[e] = "descriptor" /\ at[e] = N => ChainVerifies(e)

\* mutant: the anchor is given out before the rosters
AfterWithoutRoster(kind) ==
    CASE kind = "csr" -> "cert"
      [] kind = "cert" -> "descriptor"
      [] OTHER -> "done"

\* the parts of a run, in their order
After(kind) ==
    CASE kind = "csr" -> "cert"
      [] kind = "cert" -> "descriptor"
      [] kind = "descriptor" -> "roster"
      [] kind = "roster" -> "done"

\* the loops over e.nodes
More(e) == at[e] < N

\* the next relay, or the next part of the run; the CA issues every
\* certificate once the last request has passed
Proceed(e) ==
    /\ Passes(e)
    /\ named' = [named EXCEPT ![e] = Noted(e, "ok")]
    /\ call' = [call EXCEPT ![e] = Open]
    /\ got' = [got EXCEPT ![e] = IF pc[e] = "descriptor" THEN @ \cup {call[e].val} ELSE @]
    /\ IF More(e)
       THEN /\ at' = [at EXCEPT ![e] = @ + 1]
            /\ UNCHANGED <<pc, issuedAt>>
       ELSE /\ at' = [at EXCEPT ![e] = 1]
            /\ pc' = [pc EXCEPT ![e] = After(@)]
            /\ issuedAt' = [issuedAt EXCEPT ![e] = IF pc[e] = "csr" THEN now ELSE @]
    /\ UNCHANGED <<started, pin, faults>>

\* the roster is too long, the CA key is not to be had or issuing fails
IssueFails(e) ==
    /\ pc[e] = "csr" /\ at[e] = N /\ Passes(e) /\ faults < MaxFaults
    /\ faults' = faults + 1
    /\ Fail(e, "ok")

\* enrollment.call: the answer breaks off or is too long, which is an error of
\* its own and not tried again
BodyFails(e) ==
    /\ faults < MaxFaults
    /\ faults' = faults + 1
    /\ Fail(e, "transport")

Receive(e) ==
    /\ Active(e) /\ call[e].st = "answered"
    /\ \/ Proceed(e)
       \/ IssueFails(e)
       \/ BodyFails(e)
       \/ (~Passes(e) \/ LooksExpired(e)) /\ Fail(e, call[e].code) /\ UNCHANGED faults
    /\ UNCHANGED <<now, relayVars, orphans, crashes, kills>>

\* the context's timer fires before the clock moves past the deadline
Tick ==
    /\ now < MaxTime
    /\ \A e \in Runs : Active(e) => now < started[e] + Timeout
    /\ now' = now + 1
    /\ UNCHANGED <<relayVars, runVars, orphans, budget>>

RunStep(e) == Start(e) \/ Process(e) \/ Receive(e) \/ Expire(e)

Next ==
    \/ Tick
    \/ \E e \in Runs : RunStep(e) \/ Lose(e) \/ Kill(e)
    \/ \E e \in Runs, r \in Nodes : OperatorRestart(e, r)
    \/ \E r \in Nodes : Crash(r) \/ Resign(r)
    \/ \E o \in orphans : ProcessOrphan(o)

Spec == Init /\ [][Next]_vars

\* the operator's process and the relays keep running, and the operator follows
\* the report; nothing is assumed of the network beyond the bound on its faults
FairSpec ==
    /\ Spec
    /\ \A e \in Runs : WF_vars(RunStep(e))
    /\ \A e \in Runs, r \in Nodes : WF_vars(OperatorRestart(e, r))

-----------------------------------------------------------------------------
(* Properties.                                                              *)

\* A run gives out its anchor only once every relay holds the certificate and
\* the roster of that run (enroll.go:282-284), so a relay that does not has
\* restarted since the operator read its log; whatever was lost, retried or
\* installed by another run in between.
AnchorMeansEnrolled ==
    \A e \in Runs : pc[e] = "done" =>
        \A r \in Nodes : proc[r] = pin[e][r] => installed[r] = e /\ roster[r] = e

\* A relay's roster names the anchor that certified the relay (handleRoster,
\* peers.go:361-368): a roster sent by a run whose certificate went with a
\* restart is not taken next to the certificate of a later run.
RosterOfItsCA ==
    \A r \in Nodes : roster[r] # None => roster[r] = installed[r]

\* When a run fails, every relay that holds or will yet take a certificate or a
\* roster of its discarded CA is named to the operator (enroll.go:344-354),
\* those included whose answer was lost or whose request arrives late; and the
\* state stays well typed.
HoldersAreNamed ==
    /\ TypeOK
    /\ \A e \in Runs : pc[e] = "failed" =>
           \A r \in Nodes :
               /\ installed[r] = e =>
                     r \in named[e].installed \cup named[e].mayHold \cup named[e].hinted
               /\ roster[r] = e => r \in named[e].rostered \cup named[e].mayRoster

\* A run within its deadline is never refused for being late (pki.InstallWindow
\* against -timeout, enroll.go:169-171): a relay that answers so has restarted
\* since the run read its log.  The one exception is the comparison across two
\* clocks (admin.go:333): a relay that was asked again after the run issued,
\* by another run or a late copy, may call the certificate stale, but only if
\* its clock is ahead of the operator's by more than Skew less the deadline.
NeverRefusedLate ==
    \A e \in Runs :
        LET r == at[e] IN
        /\ Active(e) /\ call[e].st = "answered" /\ proc[r] = pin[e][r]
        => /\ call[e].code \notin {"no request", "early", "late"}
           /\ call[e].code = "stale" => ahead[r] > Skew - Timeout

\* However runs are cut short, following the reports and running enroll again
\* ends with an anchor (alreadyInstalled and reportDiscarded, enroll.go:54,267).
EnrollmentConverges == <>(\E e \in Runs : pc[e] = "done")
=============================================================================

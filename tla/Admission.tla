----------------------------- MODULE Admission -----------------------------
(***************************************************************************)
(* Who gets a link of a relay (relay/limits.go): caps on links and on      *)
(* handshakes, shared and per source, a rate of connections and of setups  *)
(* per source, and the table of sources, which forgets a source once it    *)
(* has no link open and no token to win back.                              *)
(*                                                                         *)
(* Every operation holds Relay.mu. Tokens are counted in whole ones; time  *)
(* is the steps in which a bucket wins a token back. A limit of 0 is off.  *)
(***************************************************************************)
EXTENDS Naturals, FiniteSets

CONSTANTS
  Conns,             \* inbound connections
  Sources,           \* addresses, as sourceOf groups them
  SourceOf,          \* the address a connection comes from
  MaxLinks, MaxHandshakes, MaxLinksPerSource, MaxHandshakesPerSource,
  LinkRate, SetupRate,      \* whether the buckets are on
  LinkBurst, SetupBurst,
  SourceCap,         \* the size of the table
  MaxAttempts        \* bound on connection attempts

ASSUME AdmissionAssumption ==
  /\ IsFiniteSet(Conns)
  /\ IsFiniteSet(Sources)
  /\ SourceOf \in [Conns -> Sources]
  /\ MaxLinks \in Nat /\ MaxHandshakes \in Nat
  /\ MaxLinksPerSource \in Nat /\ MaxHandshakesPerSource \in Nat
  /\ LinkRate \in BOOLEAN /\ SetupRate \in BOOLEAN
  /\ LinkBurst \in Nat \ {0} /\ SetupBurst \in Nat \ {0}
  /\ SourceCap \in Nat
  /\ MaxAttempts \in Nat

VARIABLES
  conn,         \* "out", "shaking", "up" once the handshake is over, "carrying"
  inbound,      \* Relay.inbound
  handshaking,  \* Relay.handshaking
  sources,      \* Relay.sources, with the timers set for each record
  closed,       \* Relay.closed
  allowance,    \* history: the tokens each address has, were it never forgotten
  attempts

vars == <<conn, inbound, handshaking, sources, closed, allowance, attempts>>

Buckets == [links : 0 .. LinkBurst, setups : 0 .. SetupBurst]

Records ==
  [known : BOOLEAN, open : Nat, handshaking : Nat, links : 0 .. LinkBurst,
   setups : 0 .. SetupBurst, forgetting : BOOLEAN, timers : Nat]

TypeOK ==
  /\ conn \in [Conns -> {"out", "shaking", "up", "carrying"}]
  /\ inbound \in Nat
  /\ handshaking \in Nat
  /\ sources \in [Sources -> Records]
  /\ closed \in BOOLEAN
  /\ allowance \in [Sources -> Buckets]
  /\ attempts \in 0 .. MaxAttempts

-----------------------------------------------------------------------------
(* Sources.                                                                *)

PerSourceOn == MaxLinksPerSource > 0 \/ MaxHandshakesPerSource > 0 \/ LinkRate \/ SetupRate

NoRecord ==
  [known |-> FALSE, open |-> 0, handshaking |-> 0, links |-> LinkBurst,
   setups |-> SetupBurst, forgetting |-> FALSE, timers |-> 0]

Known == {s \in Sources : sources[s].known}

TableFull(s) == s \notin Known /\ Cardinality(Known) >= SourceCap

\* The record of s, made if there is none.
Record(s) == IF sources[s].known THEN sources[s] ELSE [NoRecord EXCEPT !.known = TRUE]

HasToken(r) == LinkRate => r.links >= 1
TakeToken(r) == IF LinkRate THEN [r EXCEPT !.links = @ - 1] ELSE r

\* Mutant of Full: a bucket never counts as full.
FullOffByOne(r) == (LinkRate => r.links > LinkBurst) /\ (SetupRate => r.setups > SetupBurst)

Full(r) == (LinkRate => r.links = LinkBurst) /\ (SetupRate => r.setups = SetupBurst)

\* Mutant of Settle: only the links count, not the setups still owed.
SettleLinksOnly(r) ==
  IF r.open > 0 \/ r.forgetting THEN r
  ELSE IF LinkRate => r.links = LinkBurst THEN NoRecord
  ELSE [r EXCEPT !.forgetting = TRUE, !.timers = @ + 1]

\* What is left of a record: all of it while it has links or a timer, nothing
\* once its buckets are full, and otherwise the record with a timer set.
Settle(r) ==
  IF r.open > 0 \/ r.forgetting THEN r
  ELSE IF Full(r) THEN NoRecord
  ELSE [r EXCEPT !.forgetting = TRUE, !.timers = @ + 1]

AtSourceCap(r) ==
  \/ MaxLinksPerSource > 0 /\ r.open >= MaxLinksPerSource
  \/ MaxHandshakesPerSource > 0 /\ r.handshaking >= MaxHandshakesPerSource

AtSharedCap ==
  \/ MaxLinks > 0 /\ inbound >= MaxLinks
  \/ MaxHandshakes > 0 /\ handshaking >= MaxHandshakes

-----------------------------------------------------------------------------
Init ==
  /\ conn = [c \in Conns |-> "out"]
  /\ inbound = 0
  /\ handshaking = 0
  /\ sources = [s \in Sources |-> NoRecord]
  /\ closed = FALSE
  /\ allowance = [s \in Sources |-> [links |-> LinkBurst, setups |-> SetupBurst]]
  /\ attempts = 0

(* admit.                                                                  *)

Attempt(c) ==
  /\ ~closed
  /\ conn[c] = "out"
  /\ attempts < MaxAttempts
  /\ attempts' = attempts + 1

SpendLink(s) ==
  allowance' = IF LinkRate THEN [allowance EXCEPT ![s].links = @ - 1] ELSE allowance

\* No room for another source, or no token left.
RefuseSource(c) ==
  /\ Attempt(c)
  /\ PerSourceOn
  /\ LET s == SourceOf[c] IN
       \/ TableFull(s) /\ UNCHANGED sources
       \/ /\ ~TableFull(s)
          /\ ~HasToken(Record(s))
          /\ sources' = [sources EXCEPT ![s] = Settle(Record(s))]
  /\ UNCHANGED <<conn, inbound, handshaking, closed, allowance>>

\* Over a cap of its own: the token is spent all the same.
RefuseCap(c) ==
  /\ Attempt(c)
  /\ PerSourceOn
  /\ LET s == SourceOf[c] IN
       /\ ~TableFull(s)
       /\ HasToken(Record(s))
       /\ AtSourceCap(Record(s))
       /\ sources' = [sources EXCEPT ![s] = Settle(TakeToken(Record(s)))]
       /\ SpendLink(s)
  /\ UNCHANGED <<conn, inbound, handshaking, closed>>

\* Over a shared cap: looked at last, and the token is spent.
RefuseShared(c) ==
  /\ Attempt(c)
  /\ AtSharedCap
  /\ LET s == SourceOf[c] IN
       IF PerSourceOn
       THEN /\ ~TableFull(s)
            /\ HasToken(Record(s))
            /\ ~AtSourceCap(Record(s))
            /\ sources' = [sources EXCEPT ![s] = Settle(TakeToken(Record(s)))]
            /\ SpendLink(s)
       ELSE UNCHANGED <<sources, allowance>>
  /\ UNCHANGED <<conn, inbound, handshaking, closed>>

Admit(c) ==
  /\ Attempt(c)
  /\ ~AtSharedCap
  /\ LET s == SourceOf[c] IN
       IF PerSourceOn
       THEN /\ ~TableFull(s)
            /\ HasToken(Record(s))
            /\ ~AtSourceCap(Record(s))
            /\ sources' = [sources EXCEPT ![s] =
                 [TakeToken(Record(s)) EXCEPT !.open = @ + 1, !.handshaking = @ + 1]]
            /\ SpendLink(s)
       ELSE UNCHANGED <<sources, allowance>>
  /\ inbound' = inbound + 1
  /\ handshaking' = handshaking + 1
  /\ conn' = [conn EXCEPT ![c] = "shaking"]
  /\ UNCHANGED closed

-----------------------------------------------------------------------------
(* The life of an admitted connection.                                     *)

\* Mutant of HandshakeDone: the count of the source stays.
HandshakeDoneShared(c) ==
  /\ conn[c] = "shaking"
  /\ conn' = [conn EXCEPT ![c] = "up"]
  /\ handshaking' = handshaking - 1
  /\ UNCHANGED <<inbound, sources, closed, allowance, attempts>>

\* link.Accept returned, with a link or with an error.
HandshakeDone(c) ==
  /\ conn[c] = "shaking"
  /\ conn' = [conn EXCEPT ![c] = "up"]
  /\ handshaking' = handshaking - 1
  /\ LET s == SourceOf[c] IN
       IF sources[s].known
       THEN sources' = [sources EXCEPT ![s].handshaking = @ - 1]
       ELSE UNCHANGED sources
  /\ UNCHANGED <<inbound, closed, allowance, attempts>>

\* A link that carries no circuit yet brings a setup cell; without a token the
\* setup is refused and the handler returns.
AllowSetup(c) ==
  /\ conn[c] = "up"
  /\ LET s == SourceOf[c] IN
       IF SetupRate /\ sources[s].known
       THEN /\ sources[s].setups >= 1
            /\ sources' = [sources EXCEPT ![s].setups = @ - 1]
            /\ allowance' = [allowance EXCEPT ![s].setups = @ - 1]
       ELSE UNCHANGED <<sources, allowance>>
  /\ conn' = [conn EXCEPT ![c] = "carrying"]
  /\ UNCHANGED <<inbound, handshaking, closed, attempts>>

\* Mutant of Leave: the record is not looked at when its last link goes.
LeaveUnsettled(c) ==
  /\ conn[c] \in {"up", "carrying"}
  /\ conn' = [conn EXCEPT ![c] = "out"]
  /\ inbound' = inbound - 1
  /\ LET s == SourceOf[c] IN
       IF sources[s].known
       THEN sources' = [sources EXCEPT ![s].open = @ - 1]
       ELSE UNCHANGED sources
  /\ UNCHANGED <<handshaking, closed, allowance, attempts>>

Leave(c) ==
  /\ conn[c] \in {"up", "carrying"}
  /\ conn' = [conn EXCEPT ![c] = "out"]
  /\ inbound' = inbound - 1
  /\ LET s == SourceOf[c] IN
       IF sources[s].known
       THEN sources' = [sources EXCEPT ![s] = Settle([sources[s] EXCEPT !.open = @ - 1])]
       ELSE UNCHANGED sources
  /\ UNCHANGED <<handshaking, closed, allowance, attempts>>

Close ==
  /\ ~closed
  /\ closed' = TRUE
  /\ UNCHANGED <<conn, inbound, handshaking, sources, allowance, attempts>>

-----------------------------------------------------------------------------
(* Time.                                                                   *)

\* A timer runs out. The timer of a record that is gone finds nothing to do.
Forget(s) ==
  /\ sources[s].timers > 0
  /\ sources' = [sources EXCEPT ![s] =
       Settle([sources[s] EXCEPT !.timers = @ - 1, !.forgetting = FALSE])]
  /\ UNCHANGED <<conn, inbound, handshaking, closed, allowance, attempts>>

RefillLinks(s) ==
  /\ LinkRate
  /\ allowance[s].links < LinkBurst
  /\ allowance' = [allowance EXCEPT ![s].links = @ + 1]
  /\ sources' = [sources EXCEPT ![s].links = IF @ < LinkBurst THEN @ + 1 ELSE @]
  /\ UNCHANGED <<conn, inbound, handshaking, closed, attempts>>

RefillSetups(s) ==
  /\ SetupRate
  /\ allowance[s].setups < SetupBurst
  /\ allowance' = [allowance EXCEPT ![s].setups = @ + 1]
  /\ sources' = [sources EXCEPT ![s].setups = IF @ < SetupBurst THEN @ + 1 ELSE @]
  /\ UNCHANGED <<conn, inbound, handshaking, closed, attempts>>

Next ==
  \/ \E c \in Conns :
       \/ RefuseSource(c)
       \/ RefuseCap(c)
       \/ RefuseShared(c)
       \/ Admit(c)
       \/ HandshakeDone(c)
       \/ AllowSetup(c)
       \/ Leave(c)
  \/ \E s \in Sources : Forget(s) \/ RefillLinks(s) \/ RefillSetups(s)
  \/ Close

\* Time passes and timers run; nobody has to connect, leave or close.
Fairness ==
  \A s \in Sources :
    /\ WF_vars(Forget(s))
    /\ WF_vars(RefillLinks(s))
    /\ WF_vars(RefillSetups(s))

Spec == Init /\ [][Next]_vars

FairSpec == Spec /\ Fairness

-----------------------------------------------------------------------------
Linked == {c \in Conns : conn[c] # "out"}
Shaking == {c \in Conns : conn[c] = "shaking"}
From(s) == {c \in Conns : SourceOf[c] = s}

\* The counters count the connections there are.
CountersMatch ==
  /\ inbound = Cardinality(Linked)
  /\ handshaking = Cardinality(Shaking)
  /\ PerSourceOn => \A s \in Sources :
       /\ sources[s].open = Cardinality(Linked \cap From(s))
       /\ sources[s].handshaking = Cardinality(Shaking \cap From(s))

\* No cap is exceeded, the shared ones by all, its own by no source.
CapsHeld ==
  /\ MaxLinks > 0 => Cardinality(Linked) <= MaxLinks
  /\ MaxHandshakes > 0 => Cardinality(Shaking) <= MaxHandshakes
  /\ \A s \in Sources :
       /\ MaxLinksPerSource > 0 => Cardinality(Linked \cap From(s)) <= MaxLinksPerSource
       /\ MaxHandshakesPerSource > 0 =>
            Cardinality(Shaking \cap From(s)) <= MaxHandshakesPerSource
  /\ Cardinality(Known) <= SourceCap

\* The caps hold, because the counters they are checked against count the
\* connections there are, through every order of admissions, handshakes,
\* departures and forgetting: a source with a link open is never forgotten, so
\* what admit added is what handshakeDone and leave take off (relay.admit,
\* handshakeDone, leave).
CapsAccounted == TypeOK /\ CountersMatch /\ CapsHeld

\* Forgetting a source gives it nothing back: while its record is gone it has
\* its full allowance, and a record holds exactly the tokens the address has
\* left, however often it was forgotten and met again (relay.settle).
ForgettingIsFree ==
  \A s \in Sources :
    /\ LinkRate => sources[s].links = allowance[s].links
    /\ SetupRate => sources[s].setups = allowance[s].setups

\* A record without a link open is on its way out: exactly one timer is set for
\* it, and no record ever has two (relay.settle: the table does not keep a
\* record of who connected).
NoRecordWithoutReason ==
  \A s \in Sources :
    /\ sources[s].timers = (IF sources[s].forgetting THEN 1 ELSE 0)
    /\ sources[s].known /\ sources[s].open = 0 => sources[s].forgetting

\* Once no more connections come and its last link is gone, an address is
\* forgotten: the timers look again until the buckets are full.
EveryoneForgotten ==
  \A s \in Sources :
    (attempts = MaxAttempts /\ Linked \cap From(s) = {}) ~> ~sources[s].known

=============================================================================

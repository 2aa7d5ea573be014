------------------------------ MODULE PathModel -------------------------------
(***************************************************************************)
(* `lab paths`: the chains a client takes when rogue nodes leave others    *)
(* out of their mirrors or keep their own descriptors back, counted, and   *)
(* the closed form they are compared with (cmd/lab/paths.go, lab/paths.go, *)
(* lab/metrics/compromise.go).                                             *)
(*                                                                         *)
(* In place of a random sample the laboratory here takes the one that has  *)
(* every draw equally often, as UniformPaths of PathChoice has it; then     *)
(* the two sides have to agree exactly.  A share is an integer over Unit,  *)
(* (nodes - 1)!, which every number of chains from one entry divides.      *)
(***************************************************************************)
EXTENDS Choose

CONSTANT Plans   \* arguments: [nodes, hops, rogue, missing, leftOut, withheld]

\* The arguments after flag.Parse: numbers of either sign.
ASSUME PlanAssumption ==
    \A p \in Plans : /\ p.nodes \in Int /\ p.hops \in Int /\ p.rogue \in Int
                     /\ p.missing \in Int /\ p.leftOut \in Int /\ p.withheld \in Int

VARIABLES
    plan,     \* the arguments of the laboratory, fixed from the start
    at,       \* the entry the sample is at; 0 before the arguments are checked
    tally     \* the attempts counted so far

lab == <<plan, at, tally>>

Zero == [refused |-> 0, failed |-> 0, up |-> 0, ends |-> 0, touched |-> 0]

LabInit == plan \in Plans /\ at = 0 /\ tally = Zero

Honest == plan.nodes - plan.rogue

\* What samplePaths and SampleMirrorPaths accept.
PlanGood ==
    /\ plan.hops \in 1 .. plan.nodes /\ plan.rogue \in 0 .. plan.nodes
    /\ plan.missing >= 0
    /\ plan.leftOut \in 0 .. Honest /\ plan.withheld \in 0 .. plan.rogue

CheckPlan ==
    /\ at = 0 /\ PlanGood
    /\ at' = 1
    /\ UNCHANGED <<plan, tally>>

\* mirrorsOf: the first nodes are rogue, the first of those withhold, and a
\* rogue entry leaves out the last nodes.
MirrorOf(e) ==
    [i \in 1 .. plan.nodes |->
        IF e <= plan.rogue THEN i <= plan.nodes - plan.leftOut ELSE i > plan.withheld]

\* A plausible slip: a rogue node only extends to the nodes it serves.
ExtendsServed(x, y) == MirrorOf(x)[y]

\* extendsOf: a rogue node extends to every node.
Extends(x, y) == x <= plan.rogue \/ MirrorOf(x)[y]

\* m (m-1) ... over k factors.
Falling(m, k) ==
    LET f[i \in 0 .. k] == IF i = 0 THEN 1 ELSE f[i - 1] * (m - i + 1) IN f[k]

Unit == Falling(plan.nodes - 1, plan.nodes - 1)

\* SampleMirrorPaths for one entry: the path of each sequence of draws, as
\* places among the nodes held and then as nodes.
Drawn(e) ==
    LET held  == Held(MirrorOf(e))
        start == Begin(Place(MirrorOf(e), e), Len(held))
        more  == plan.hops - 1
        draw  == {js \in [1 .. more -> 0 .. Len(held)] :
                    \A i \in 1 .. more : js[i] < Bound(start) - i + 1}
    IN  [js \in draw |-> LET p == FoldLeft(Take, start, js).path
                         IN  [i \in DOMAIN p |-> held[p[i]]]]

\* SurvivingPaths.
ComesUp(path) == \A i \in 2 .. Len(path) : Extends(path[i - 1], path[i])

\* CompromiseFraction.
Rogue(x) == x <= plan.rogue
BothEnds(path) == Rogue(path[1]) /\ Rogue(path[Len(path)])
AnyNode(path) == \E i \in DOMAIN path : Rogue(path[i])

\* One entry of the sample: refused, or its chains, each with its share.
Sample ==
    /\ at \in 1 .. plan.nodes
    /\ IF ~JudgeMirror(MirrorOf(at), at, plan.hops, plan.missing)
       THEN tally' = [tally EXCEPT !.refused = @ + Unit]
       ELSE LET paths    == Drawn(at)
                share    == Unit \div Cardinality(DOMAIN paths)
                up       == {js \in DOMAIN paths : ComesUp(paths[js])}
                those(P(_)) == share * Cardinality({js \in up : P(paths[js])})
            IN  tally' = [refused |-> tally.refused,
                          failed  |-> tally.failed
                                        + share * Cardinality(DOMAIN paths \ up),
                          up      |-> tally.up + share * Cardinality(up),
                          ends    |-> tally.ends + those(BothEnds),
                          touched |-> tally.touched + those(AnyNode)]
    /\ at' = at + 1
    /\ UNCHANGED plan

LabNext == CheckPlan \/ Sample

LabSpec == LabInit /\ [][LabNext]_lab

-------------------------------------------------------------------------------
(* metrics: the closed form. *)

\* undrawn: the nodes not yet drawn, by kind, and whether the last one is honest.
Left(honest, withholding, others, after) ==
    [honest |-> honest, withholding |-> withholding, others |-> others, after |-> after]

Undrawn(honest, withholding, others) ==
    [honest : 0 .. honest, withholding : 0 .. withholding, others : 0 .. others,
     after : BOOLEAN]

\* add: count ways on, each with the chains of next, which come up, fail, and
\* come up with a rogue exit.
AddChains(count, next, sum) ==
    IF count = 0 THEN sum
    ELSE [up     |-> sum.up + count * next.up,
          failed |-> sum.failed + count * next.failed,
          exit   |-> sum.exit + count * next.exit]

\* One more draw, of d, where next has the chains of the draws after it.
DrawOn(next, u, d) ==
    LET left == u.honest + u.withholding + u.others
        viaHonest ==
          AddChains(u.honest, next[Left(u.honest - 1, u.withholding, u.others, TRUE)],
                    [up |-> 0, failed |-> 0, exit |-> 0])
        viaWithholding ==
          IF u.after
          THEN [viaHonest EXCEPT !.failed = @ + u.withholding * Falling(left - 1, d - 1)]
          ELSE AddChains(u.withholding,
                         next[Left(u.honest, u.withholding - 1, u.others, FALSE)], viaHonest)
    IN  AddChains(u.others, next[Left(u.honest, u.withholding, u.others - 1, FALSE)],
                  viaWithholding)

\* rogueEntryChains, in units of Falling(pool, draws): the chains of one entry.
RogueEntryChains(honest, withholding, others, draws) ==
    LET from[d \in 0 .. draws] ==
          [u \in Undrawn(honest, withholding, others) |->
             IF d = 0
             THEN [up |-> 1, failed |-> 0, exit |-> IF u.after THEN 0 ELSE 1]
             ELSE DrawOn(from[d - 1], u, d)]
    IN  from[draws][Left(honest, withholding, others, FALSE)]

Allowed == MaxAbsent(plan.nodes, plan.hops, plan.missing)

\* What the honest entries add, in units of Unit.
HonestEntries ==
    LET more  == plan.hops - 1
        all   == Falling(plan.nodes - plan.withheld - 1, more)
        clean == Falling(Honest - 1, more)
    IN  IF Honest > 0 /\ plan.withheld <= Allowed
        THEN [accepted |-> Honest, up |-> Honest * Unit, down |-> 0, ends |-> 0,
              any |-> Honest * ((Unit \div all) * (all - clean))]
        ELSE [accepted |-> 0, up |-> 0, down |-> 0, ends |-> 0, any |-> 0]

\* The withholding nodes among the other nodes of a rogue entry.
OthersWithholding(withholds) == IF withholds THEN plan.withheld - 1 ELSE plan.withheld

\* What one rogue entry adds, withholding or not.
RogueEntry(withholds) ==
    LET more   == plan.hops - 1
        pool   == Honest - plan.leftOut + plan.rogue - 1
        w      == OthersWithholding(withholds)
        chains == RogueEntryChains(Honest - plan.leftOut, w, plan.rogue - 1 - w, more)
        share  == Unit \div Falling(pool, more)
    IN  [up |-> share * chains.up, down |-> share * chains.failed,
         ends |-> share * chains.exit, any |-> share * chains.up]

\* The chains of as many rogue entries, withholding or not, added to sum.
AddEntries(entries, withholds, sum) ==
    IF entries = 0 THEN sum
    ELSE LET one == RogueEntry(withholds) IN
         [accepted |-> sum.accepted,
          up   |-> sum.up + entries * one.up,
          down |-> sum.down + entries * one.down,
          ends |-> sum.ends + entries * one.ends,
          any  |-> sum.any + entries * one.any]

\* MirrorCompromiseProbability before its divisions.
MirrorCompromise ==
    IF plan.leftOut > Allowed THEN HonestEntries
    ELSE AddEntries(plan.rogue - plan.withheld, FALSE,
           AddEntries(plan.withheld, TRUE, [HonestEntries EXCEPT !.accepted = @ + plan.rogue]))

\* CompromiseProbability as two pairs, a numerator over a denominator.
UniformEnds ==
    IF plan.hops = 1 THEN <<plan.rogue, plan.nodes>>
    ELSE <<plan.rogue * (plan.rogue - 1), plan.nodes * (plan.nodes - 1)>>

UniformTouched ==
    LET all == Falling(plan.nodes, plan.hops)
    IN  <<all - Falling(Honest, plan.hops), all>>

-------------------------------------------------------------------------------
(* Properties. *)

\* What `lab paths` prints as expected is what the draws give: the shares of the
\* attempts refused and failed and, over the chains that come up, of those with
\* both ends rogue and with any rogue node; with full mirrors both forms agree
\* (MirrorCompromiseProbability, rogueEntryChains, CompromiseProbability).
ModelMatchesDraws ==
    at > 0 /\ at = plan.nodes + 1 =>
      LET m == MirrorCompromise
          share(part, pair) == part * pair[2] = tally.up * pair[1]
      IN
      /\ tally.refused = (plan.nodes - m.accepted) * Unit
      /\ tally.failed = m.down /\ tally.up = m.up
      /\ tally.ends = m.ends /\ tally.touched = m.any
      /\ plan.leftOut = 0 /\ plan.withheld = 0 =>
           share(tally.ends, UniformEnds) /\ share(tally.touched, UniformTouched)

===============================================================================

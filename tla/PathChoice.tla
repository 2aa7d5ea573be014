------------------------------ MODULE PathChoice ------------------------------
(***************************************************************************)
(* How the client program takes a chain from the nodes it is given: it     *)
(* checks the list, draws the entry, asks that one node for the bundles of *)
(* all of them, judges and verifies what it served, and draws the other    *)
(* hops among the nodes served (package client, choose.go; cmd/client).    *)
(*                                                                         *)
(* A node is its address and its key.  A bundle is the name of the node it *)
(* was issued to, or Forged, which no anchor has signed; None is a listed  *)
(* node the answer leaves out.                                             *)
(***************************************************************************)
EXTENDS Choose

CONSTANTS
    Jobs,       \* arguments of a run: [addrs, hops, missing, fixed, auth]
    Limit,      \* wire.MaxLayers, the hops a setup cell carries
    MaxDraws,   \* words below() reads before it gives up
    Attempts,   \* requests for the mirror
    Forged, None,
    Answers(_)  \* the bundles a mirror may hold under the address of a node

\* The arguments after flag.Parse: numbers of either sign, any list of nodes.
ASSUME JobAssumption ==
    /\ \A j \in Jobs : /\ j.addrs \in Seq(Range(j.addrs))
                       /\ j.hops \in Int /\ j.missing \in Int
                       /\ j.fixed \in BOOLEAN /\ j.auth \in BOOLEAN
    /\ Limit \in Nat /\ Bits \in Nat

VARIABLES
    job,        \* the arguments, fixed from the start
    stage,      \* what the program is at, then "built" or "refused"
    entry,      \* the place of the entry in the list
    tries,      \* requests made for its mirror
    mirror,     \* the bundle served for each place of the list
    chosen,     \* the shuffle of ChooseRest and the path so far
    draws,      \* words below() has thrown away in this draw
    asked,      \* addresses the program has contacted
    chain       \* what Dial is given, addresses and bundles

choice == <<job, stage, entry, tries, mirror, chosen, draws, asked, chain>>

-------------------------------------------------------------------------------
(* The run of the program. *)

Nothing == [others |-> <<>>, path |-> <<>>]

ChoiceInit ==
    /\ job \in Jobs
    /\ stage = "check" /\ entry = 0 /\ tries = 0 /\ mirror = <<>>
    /\ chosen = Nothing /\ draws = 0 /\ asked = {} /\ chain = <<>>

N == Len(job.addrs)

\* checkNodes, settled before anything is drawn or asked for.
ListGood ==
    /\ N > 0
    /\ job.hops \in 1 .. Limit /\ job.hops <= N
    /\ IsInjective(job.addrs)

\* The arguments are refused; trustPolicy may refuse the anchor of -ca.
CheckArguments ==
    /\ stage = "check"
    /\ \/ /\ ListGood /\ job.missing >= 0
          /\ stage' = IF job.fixed THEN "fetch" ELSE "entry"
          /\ entry' = IF job.fixed THEN 1 ELSE 0
       \/ /\ ~ListGood \/ job.missing < 0 \/ job.auth
          /\ stage' = "refused" /\ UNCHANGED entry
    /\ UNCHANGED <<job, tries, mirror, chosen, draws, asked, chain>>

\* below() reads a word it cannot use, or its source fails.
DrawAgain(m) ==
    /\ \/ \E v \in Words :
            /\ ~Usable(v, m)
            /\ draws' = draws + 1
            /\ stage' = IF draws + 1 = MaxDraws THEN "refused" ELSE stage
       \/ stage' = "refused" /\ UNCHANGED draws
    /\ UNCHANGED <<job, entry, tries, mirror, chosen, asked, chain>>

DrawEntry ==
    /\ stage = "entry"
    /\ \E v \in Words :
         /\ Usable(v, N)
         /\ entry' = (v % N) + 1
    /\ stage' = "fetch" /\ draws' = 0
    /\ UNCHANGED <<job, tries, mirror, chosen, asked, chain>>

\* fetch.Mirror and nodeBundles: the entry answers with a mirror, of which only
\* the listed addresses are looked at; the connection fails or nothing is
\* published yet, which is tried again; or the answer is wrong for good.
Fetch ==
    /\ stage = "fetch"
    /\ asked' = asked \cup {job.addrs[entry]}
    /\ tries' = tries + 1
    /\ \/ /\ mirror' \in {m \in [1 .. N -> UNION {Answers(a) : a \in Range(job.addrs)}] :
                            \A i \in 1 .. N : m[i] \in Answers(job.addrs[i])}
          /\ stage' = "judge"
       \/ /\ stage' = IF tries + 1 = Attempts THEN "refused" ELSE "fetch"
          /\ UNCHANGED mirror
       \/ stage' = "refused" /\ UNCHANGED mirror
    /\ UNCHANGED <<job, entry, chosen, draws, chain>>

Served == [i \in 1 .. N |-> mirror[i] # None]

\* enough(): a fixed chain needs its own nodes, a drawn one JudgeMirror's.
Enough ==
    IF job.fixed
    THEN \A i \in 1 .. job.hops : Served[i]
    ELSE JudgeMirror(Served, entry, job.hops, job.missing)

Judge ==
    /\ stage = "judge"
    /\ stage' = IF Enough THEN "resolve" ELSE "refused"
    /\ UNCHANGED <<job, entry, tries, mirror, chosen, draws, asked, chain>>

\* The keys of a bundle that eachNode compares, the onion key and the identity,
\* as one; a link key may repeat.  Two forged bundles have two keys.
Key(i) == IF mirror[i] = Forged THEN <<Forged, i>> ELSE <<mirror[i]>>

\* VerifyChain, or Unverified without -auth, over every bundle served: Verify
\* finds another node's bundle and a forged one out, eachNode a key twice.
Resolves ==
    LET served == {i \in 1 .. N : Served[i]} IN
    /\ job.auth => \A i \in served : mirror[i] = job.addrs[i]
    /\ \A i, k \in served : Key(i) = Key(k) => i = k

\* A plausible slip: the place in the list, not among the nodes served.
EntryListed == entry

\* Where ChooseRest starts among the nodes that were resolved.
EntryPlace == Place(Served, entry)

\* What stops the program once the bundles have been read.
Unresolved ==
    \/ ~Resolves
    \/ ~job.fixed /\ (EntryPlace > Len(Held(Served)) \/ job.hops > Len(Held(Served)))

\* A fixed chain takes the first nodes of the list, in the places they have now.
Resolve ==
    /\ stage = "resolve"
    /\ \/ Unresolved /\ stage' = "refused" /\ UNCHANGED chosen
       \/ /\ ~Unresolved /\ job.fixed
          /\ stage' = "chain"
          /\ chosen' = [Nothing EXCEPT !.path = [i \in 1 .. job.hops |-> Place(Served, i)]]
       \/ /\ ~Unresolved /\ ~job.fixed
          /\ stage' = "rest"
          /\ chosen' = Begin(EntryPlace, Len(Held(Served)))
    /\ UNCHANGED <<job, entry, tries, mirror, draws, asked, chain>>

DrawRest ==
    /\ stage = "rest" /\ Len(chosen.path) < job.hops
    /\ \E v \in Words :
         /\ Usable(v, Bound(chosen))
         /\ chosen' = Take(chosen, v)
    /\ draws' = 0
    /\ UNCHANGED <<job, stage, entry, tries, mirror, asked, chain>>

\* chainOf: positions among the nodes resolved become addresses and keys.
ChainOf ==
    /\ stage \in {"chain", "rest"} /\ Len(chosen.path) = job.hops
    /\ chain' = [i \in 1 .. job.hops |->
                    LET at == Held(Served)[chosen.path[i]]
                    IN  [addr |-> job.addrs[at], key |-> Key(at)]]
    /\ stage' = "built"
    /\ UNCHANGED <<job, entry, tries, mirror, chosen, draws, asked>>

ChoiceNext ==
    \/ CheckArguments \/ DrawEntry \/ Fetch \/ Judge \/ Resolve \/ DrawRest \/ ChainOf
    \/ stage = "entry" /\ DrawAgain(N)
    \/ stage = "rest" /\ Len(chosen.path) < job.hops /\ DrawAgain(Bound(chosen))

ChoiceSpec == ChoiceInit /\ [][ChoiceNext]_choice

-------------------------------------------------------------------------------
(* Properties. *)

\* The chain that is built is one the arguments allow and the mirror supports:
\* it has the hops asked for, no address and no onion key twice, each hop with the
\* bundle served for its own address; a drawn chain starts at the one node that
\* was asked, a fixed one follows the list; and with -auth nothing the entry
\* served, on the path or off it, was another node's or forged
\* (selection.chain, whose positions go through two translations).
ChainFits ==
    stage = "built" =>
      LET first == IF job.fixed THEN 1 ELSE entry
          auth  == [i \in 1 .. N |-> mirror[i] \in {None, job.addrs[i]}]
      IN
      /\ Len(chain) = job.hops
      /\ \A i, k \in DOMAIN chain :
            chain[i].addr = chain[k].addr \/ chain[i].key = chain[k].key => i = k
      /\ \A i \in DOMAIN chain :
            \E k \in 1 .. N : /\ mirror[k] # None
                              /\ chain[i] = [addr |-> job.addrs[k], key |-> Key(k)]
      /\ asked = {chain[1].addr} /\ chain[1].addr = job.addrs[first]
      /\ job.fixed => \A i \in DOMAIN chain : chain[i].addr = job.addrs[i]
      /\ ~job.fixed => Absent(Served) <= job.missing
      /\ job.auth => \A i \in 1 .. N : auth[i]

\* "Every ordered path is equally likely when rnd is uniform" (Choose): over the
\* words below() can use, each node is as often the entry as any other, and each
\* ordered choice of the other hops among the nodes served as often as any other.
UniformPaths ==
    /\ stage = "entry" =>
         LET used == {v \in Words : Usable(v, N)} IN
         \A e \in 0 .. N - 1 :
            N * Cardinality({v \in used : v % N = e}) = Cardinality(used)
    /\ stage = "rest" /\ Len(chosen.path) = 1 =>
         LET more  == job.hops - 1
             used  == {ws \in [1 .. more -> Words] :
                         \A i \in 1 .. more : Usable(ws[i], Bound(chosen) - i + 1)}
             ends  == [ws \in used |-> FoldLeft(Take, chosen, ws).path]
             paths == {p \in [1 .. job.hops -> 1 .. Len(chosen.others) + 1] :
                         IsInjective(p) /\ p[1] = chosen.path[1]}
         IN  \A p \in paths :
               Cardinality(paths) * Cardinality({ws \in used : ends[ws] = p})
                 = Cardinality(used)

===============================================================================

----------------------------- MODULE PathProofs -----------------------------
(***************************************************************************)
(* For any list of nodes, any number of hops and any mirror: the chain the *)
(* client program builds is one its arguments allow and the mirror         *)
(* supports (ChainFits), and every ordered path is as likely as any other  *)
(* (UniformPaths).  For any plan of `lab paths`: the closed form it prints *)
(* is what the draws give (ModelMatchesDraws).                             *)
(*                                                                         *)
(* The positions of a path go through two translations, so the argument is *)
(* about them: Place and Held are inverse to each other (HeldPlaces), and  *)
(* a step of the shuffle keeps what is drawn apart from what is not        *)
(* (TakeDrawn).  PathInv carries the verdicts of the earlier stages to the *)
(* one that builds the chain.                                              *)
(*                                                                         *)
(* A word that below() takes is a place and a turn, and every pair of a    *)
(* place and a turn is one word (WordOf, WordOnce).  So a sequence of      *)
(* words is a path and a sequence of turns: two that share both are one    *)
(* (RunOnce), and each pair is reached (FollowsAll).  Counting then gives  *)
(* every path as many sequences as there are turns (EachAsOften).          *)
(*                                                                         *)
(* The draws of the laboratory are the same shuffle, so they are, one by   *)
(* one, the tours of the nodes an entry serves (DrawnTours).  Tours are    *)
(* counted by the kind of node drawn next, which is the recursion of       *)
(* rogueEntryChains (CountsAll), and the invariant LabInv adds the entries *)
(* up by their kinds, as MirrorCompromiseProbability does (MirrorAgrees).  *)
(***************************************************************************)
EXTENDS PathChoice, PathModel, FiniteSetTheorems, FunctionTheorems, WellFoundedInduction, TLAPS

-----------------------------------------------------------------------------
(* Places in the list, and places among the nodes served. *)

LEMMA PlaceZero ==
  ASSUME NEW served
  PROVE  Place(served, 0) = 0
<1>1. {k \in 1 .. 0 : served[k]} = {}
  OBVIOUS
<1> QED  BY <1>1, FS_EmptySet DEF Place

LEMMA PlaceStep ==
  ASSUME NEW n \in Nat, NEW served \in [1 .. n -> BOOLEAN], NEW i \in 1 .. n
  PROVE  /\ Place(served, i) \in Nat /\ Place(served, i - 1) \in Nat
         /\ served[i] => Place(served, i) = Place(served, i - 1) + 1
         /\ ~served[i] => Place(served, i) = Place(served, i - 1)
<1> DEFINE Before == {k \in 1 .. i - 1 : served[k]}
           Upto == {k \in 1 .. i : served[k]}
<1>1. IsFiniteSet(Before) /\ Before \subseteq 1 .. i - 1
  <2>1. IsFiniteSet(1 .. i - 1)
    BY FS_Interval
  <2> QED  BY <2>1, FS_Subset
<1>2. i \notin Before
  BY <1>1
<1>3. CASE served[i]
  <2>1. Upto = Before \cup {i}
    BY <1>3
  <2> HIDE DEF Before, Upto
  <2>2. Cardinality(Before) \in Nat /\ Cardinality(Upto) = Cardinality(Before) + 1
    BY <1>1, <1>2, <2>1, FS_AddElement, FS_CardinalityType
  <2> QED  BY <1>3, <2>2 DEF Before, Upto, Place
<1>4. CASE ~served[i]
  <2>1. Upto = Before
    BY <1>4
  <2> HIDE DEF Before, Upto
  <2>2. Cardinality(Before) \in Nat /\ Cardinality(Upto) = Cardinality(Before)
    BY <1>1, <2>1, FS_CardinalityType
  <2> QED  BY <1>4, <2>2 DEF Before, Upto, Place
<1> QED  BY <1>3, <1>4

\* Two nodes that are served never stand at one place.
LEMMA PlaceGrows ==
  ASSUME NEW n \in Nat, NEW served \in [1 .. n -> BOOLEAN],
         NEW i \in 0 .. n, NEW k \in 1 .. n, i < k
  PROVE  /\ Place(served, i) <= Place(served, k)
         /\ served[k] => Place(served, i) < Place(served, k)
<1> DEFINE Lower == {m \in 1 .. i : served[m]}
           Before == {m \in 1 .. k - 1 : served[m]}
<1>1. IsFiniteSet(Before) /\ Lower \subseteq Before
  <2>1. IsFiniteSet(1 .. k - 1) /\ Before \subseteq 1 .. k - 1
    BY FS_Interval
  <2> QED  BY <2>1, FS_Subset
<1> HIDE DEF Lower, Before
<1>2. Cardinality(Lower) \in Nat /\ Cardinality(Before) \in Nat
      /\ Cardinality(Lower) <= Cardinality(Before)
  BY <1>1, FS_Subset, FS_CardinalityType
<1>3. Place(served, i) = Cardinality(Lower) /\ Place(served, k - 1) = Cardinality(Before)
  BY DEF Place, Lower, Before
<1>4. /\ Place(served, k) \in Nat /\ Place(served, k - 1) \in Nat
      /\ served[k] => Place(served, k) = Place(served, k - 1) + 1
      /\ ~served[k] => Place(served, k) = Place(served, k - 1)
  BY PlaceStep
<1> QED  BY <1>2, <1>3, <1>4

\* Every place among the nodes served is that of one of them.
LEMMA PlaceReached ==
  ASSUME NEW n \in Nat, NEW served \in [1 .. n -> BOOLEAN], NEW p \in Nat \ {0},
         p <= Place(served, n)
  PROVE  \E i \in 1 .. n : served[i] /\ Place(served, i) = p
<1> DEFINE S == {i \in Nat : i <= n /\ p <= Place(served, i)}
<1>1. n \in S
  OBVIOUS
<1> DEFINE R == {ss \in Nat \X Nat : ss[1] < ss[2]}
<1>a. IsWellFoundedOn(R, Nat)
  BY NatLessThanWellFounded DEF OpToRel
<1>2. PICK i \in S : \A k \in S : ~(<<k, i>> \in R)
  <2>1. S \subseteq Nat /\ S # {}
    BY <1>1
  <2> HIDE DEF S, R
  <2> QED  BY <1>a, <2>1, WFMin
<1>3. i # 0
  <2>1. p <= Place(served, i) /\ i \in Nat /\ i <= n
    OBVIOUS
  <2>2. i = 0 => Place(served, i) = 0
    BY PlaceZero
  <2> HIDE DEF S
  <2> QED  BY <2>1, <2>2
<1>4. i \in 1 .. n /\ i - 1 \in Nat /\ i - 1 <= n /\ p <= Place(served, i)
  BY <1>3
<1>5. i - 1 \notin S
  <2>1. <<i - 1, i>> \in R
    BY <1>4
  <2> HIDE DEF S, R
  <2> QED  BY <1>2, <2>1
<1>6. ~(p <= Place(served, i - 1))
  BY <1>4, <1>5
<1>7. /\ Place(served, i) \in Nat /\ Place(served, i - 1) \in Nat
      /\ served[i] => Place(served, i) = Place(served, i - 1) + 1
      /\ ~served[i] => Place(served, i) = Place(served, i - 1)
  BY <1>4, PlaceStep
<1>8. served[i] /\ Place(served, i) = p
  BY <1>4, <1>6, <1>7
<1> QED  BY <1>4, <1>8

\* The place of the last node is the number of those served.
LEMMA PlaceLast ==
  ASSUME NEW n \in Nat, NEW served \in [1 .. n -> BOOLEAN]
  PROVE  /\ Place(served, n) \in Nat
         /\ Cardinality({i \in DOMAIN served : served[i]}) = Place(served, n)
<1>1. DOMAIN served = 1 .. n
  OBVIOUS
<1>2. Place(served, n) \in Nat
  BY PlaceZero, PlaceStep
<1> QED  BY <1>1, <1>2 DEF Place

\* Held lists the nodes served, and Place says where.
LEMMA HeldPlaces ==
  ASSUME NEW n \in Nat, NEW served \in [1 .. n -> BOOLEAN]
  PROVE  /\ Len(Held(served)) \in Nat
         /\ \A p \in 1 .. Len(Held(served)) :
              /\ Held(served)[p] \in 1 .. n
              /\ served[Held(served)[p]]
              /\ Place(served, Held(served)[p]) = p
         /\ \A i \in 1 .. n : served[i] =>
              /\ Place(served, i) \in 1 .. Len(Held(served))
              /\ Held(served)[Place(served, i)] = i
<1> DEFINE held == {i \in 1 .. n : served[i]}
           m == Place(served, n)
           q == [p \in 1 .. m |-> CHOOSE i \in held : Place(served, i) = p]
<1>1. m \in Nat /\ Held(served) = q
  <2>1. DOMAIN served = 1 .. n
    OBVIOUS
  <2>2. Cardinality(held) = m /\ m \in Nat
    BY <2>1, PlaceLast
  <2> QED  BY <2>1, <2>2 DEF Held
<1>2. Len(q) = m
  BY <1>1
<1>3. ASSUME NEW p \in 1 .. m PROVE q[p] \in held /\ Place(served, q[p]) = p
  <2>1. \E i \in held : Place(served, i) = p
    BY <1>1, PlaceReached
  <2> QED  BY <2>1
<1>4. ASSUME NEW i \in held PROVE Place(served, i) \in 1 .. m /\ q[Place(served, i)] = i
  <2>1. Place(served, i) \in Nat /\ Place(served, i) # 0
    <3>1. i \in 1 .. n /\ served[i]
      OBVIOUS
    <3>2. /\ Place(served, i) \in Nat /\ Place(served, i - 1) \in Nat
          /\ served[i] => Place(served, i) = Place(served, i - 1) + 1
      BY <3>1, PlaceStep
    <3> QED  BY <3>1, <3>2
  <2>2. Place(served, i) <= m
    BY <1>1, <2>1, PlaceGrows
  <2>3. Place(served, i) \in 1 .. m
    BY <1>1, <2>1, <2>2
  <2>4. PICK k \in held : k = q[Place(served, i)] /\ Place(served, k) = Place(served, i)
    BY <1>3, <2>3
  <2>5. k = i
    <3>1. ~(k < i)
      BY <2>1, <2>4, PlaceGrows
    <3>2. ~(i < k)
      BY <2>1, <2>4, PlaceGrows
    <3> QED  BY <3>1, <3>2
  <2> QED  BY <2>3, <2>4, <2>5
<1> HIDE DEF q, m
<1> QED  BY <1>1, <1>2, <1>3, <1>4

-----------------------------------------------------------------------------
(* The shuffle of ChooseRest. *)

\* The path starts at e and goes on with the first of the others, of which none
\* is e or comes twice.
Shuffled(c, e, n) ==
  /\ c.others \in Seq(1 .. n) /\ Len(c.others) = n - 1
  /\ c.path \in Seq(1 .. n) /\ Len(c.path) \in 1 .. n
  /\ c.path[1] = e
  /\ \A i \in 1 .. n - 1 : c.others[i] # e
  /\ \A i, k \in 1 .. n - 1 : c.others[i] = c.others[k] => i = k
  /\ \A i \in 1 .. Len(c.path) - 1 : c.path[i + 1] = c.others[i]

LEMMA SeqOfFunction ==
  ASSUME NEW S, NEW m \in Nat, NEW f \in [1 .. m -> S]
  PROVE  f \in Seq(S) /\ Len(f) = m
  OBVIOUS

LEMMA FunctionOfSeq ==
  ASSUME NEW S, NEW s \in Seq(S)
  PROVE  s \in [1 .. Len(s) -> S]
  OBVIOUS

LEMMA Appended ==
  ASSUME NEW S, NEW s \in Seq(S), NEW x \in S
  PROVE  /\ Append(s, x) \in Seq(S) /\ Len(Append(s, x)) = Len(s) + 1
         /\ Append(s, x)[Len(s) + 1] = x
         /\ \A k \in 1 .. Len(s) : Append(s, x)[k] = s[k]
  OBVIOUS

LEMMA BeginDrawn ==
  ASSUME NEW n \in Nat, NEW e \in 1 .. n
  PROVE  Shuffled(Begin(e, n), e, n) /\ Len(Begin(e, n).path) = 1
<1> DEFINE o == [i \in 1 .. n - 1 |-> IF i < e THEN i ELSE i + 1]
           p == <<e>>
<1>1. Begin(e, n).others = o /\ Begin(e, n).path = p
  BY DEF Begin
<1>2. /\ o \in Seq(1 .. n) /\ Len(o) = n - 1
      /\ p \in Seq(1 .. n) /\ Len(p) = 1 /\ p[1] = e
  <2>1. o \in [1 .. n - 1 -> 1 .. n] /\ n - 1 \in Nat
    OBVIOUS
  <2> QED  BY <2>1, SeqOfFunction
<1>3. /\ \A i \in 1 .. n - 1 : o[i] # e
      /\ \A i, k \in 1 .. n - 1 : o[i] = o[k] => i = k
  OBVIOUS
<1> HIDE DEF o, p
<1> QED  BY <1>1, <1>2, <1>3 DEF Shuffled

LEMMA Remainder ==
  ASSUME NEW v \in Nat, NEW b \in Nat, b > 0
  PROVE  v % b \in 0 .. b - 1
  OBVIOUS

LEMMA TakeDrawn ==
  ASSUME NEW n \in Nat, NEW e \in 1 .. n, NEW c, Shuffled(c, e, n), Len(c.path) < n,
         NEW v \in Nat
  PROVE  Shuffled(Take(c, v), e, n) /\ Len(Take(c, v).path) = Len(c.path) + 1
<1>1. PICK i \in 1 .. n - 1 : i = Len(c.path)
  <2>1. Len(c.path) \in 1 .. n
    BY DEF Shuffled
  <2> QED  BY <2>1
<1>2. Len(c.others) = n - 1
  BY DEF Shuffled
<1>3. Bound(c) = n - i
  <2>1. Bound(c) = (n - 1) - i + 1
    BY <1>1, <1>2 DEF Bound
  <2> QED  BY <2>1
<1>4. PICK j \in i .. n - 1 : j = i + (v % Bound(c))
  <2>1. PICK r \in 0 .. n - i - 1 : r = v % Bound(c)
    <3>1. n - i \in Nat /\ n - i > 0
      OBVIOUS
    <3> QED  BY <1>3, <3>1, Remainder
  <2>2. i + r \in i .. n - 1
    OBVIOUS
  <2> QED  BY <2>1, <2>2
<1>5. PICK o : o = [c.others EXCEPT ![i] = c.others[j], ![j] = c.others[i]]
  OBVIOUS
<1>6. PICK p : p = Append(c.path, c.others[j])
  OBVIOUS
<1>7. Take(c, v).others = o /\ Take(c, v).path = p
  BY <1>1, <1>4, <1>5, <1>6 DEF Take
<1>8. /\ c.others \in [1 .. n - 1 -> 1 .. n] /\ c.path \in Seq(1 .. n)
      /\ \A k \in 1 .. n - 1 : c.others[k] # e
      /\ \A k, l \in 1 .. n - 1 : c.others[k] = c.others[l] => k = l
  <2>1. c.others \in [1 .. Len(c.others) -> 1 .. n]
    BY FunctionOfSeq DEF Shuffled
  <2> QED  BY <1>2, <2>1 DEF Shuffled
<1>9. /\ o \in [1 .. n - 1 -> 1 .. n]
      /\ o[i] = c.others[j]
      /\ \A k \in (1 .. n - 1) \ {i, j} : o[k] = c.others[k]
      /\ \A k \in 1 .. n - 1 : \E l \in 1 .. n - 1 : o[k] = c.others[l]
      /\ \A k, l \in 1 .. n - 1 : o[k] = o[l] => k = l
  <2>1. i \in 1 .. n - 1 /\ j \in 1 .. n - 1
    OBVIOUS
  <2> DEFINE D == 1 .. n - 1
             S == 1 .. n
  <2>2. /\ c.others \in [D -> S] /\ i \in D /\ j \in D
        /\ \A k, l \in D : c.others[k] = c.others[l] => k = l
    BY <1>8, <2>1
  <2> HIDE DEF D, S
  <2>3. /\ o \in [D -> S]
        /\ o[i] = c.others[j]
        /\ \A k \in D \ {i, j} : o[k] = c.others[k]
        /\ \A k \in D : \E l \in D : o[k] = c.others[l]
        /\ \A k, l \in D : o[k] = o[l] => k = l
    <3>1. PICK f : f = c.others
      OBVIOUS
    <3>2. /\ f \in [D -> S] /\ o = [f EXCEPT ![i] = f[j], ![j] = f[i]]
          /\ \A k, l \in D : f[k] = f[l] => k = l
      BY <1>5, <2>2, <3>1
    <3>3. o \in [D -> S] /\ o[j] = f[i] /\ o[i] = f[j] /\ \A k \in D \ {i, j} : o[k] = f[k]
      BY <2>2, <3>2
    <3>4. /\ \A k \in D : \E l \in D : o[k] = f[l]
          /\ \A k, l \in D : o[k] = o[l] => k = l
      BY <2>2, <3>2, <3>3
    <3> QED  BY <3>1, <3>3, <3>4
  <2> QED  BY <2>3 DEF D, S
<1>10. o \in Seq(1 .. n) /\ Len(o) = n - 1
  <2>1. n - 1 \in Nat
    OBVIOUS
  <2> QED  BY <1>9, <2>1, SeqOfFunction
<1>11. \A k \in 1 .. n - 1 : o[k] # e
  <2> SUFFICES ASSUME NEW k \in 1 .. n - 1 PROVE o[k] # e
    OBVIOUS
  <2>1. PICK l \in 1 .. n - 1 : o[k] = c.others[l]
    BY <1>9
  <2> QED  BY <1>8, <2>1
<1>12. /\ p \in Seq(1 .. n) /\ Len(p) = i + 1 /\ p[i + 1] = c.others[j]
       /\ \A k \in 1 .. i : p[k] = c.path[k]
  <2>1. c.others[j] \in 1 .. n
    BY <1>8
  <2> QED  BY <1>1, <1>6, <1>8, <2>1, Appended
<1>13. ASSUME NEW k \in 1 .. i PROVE p[k + 1] = o[k]
  <2>1. CASE k = i
    BY <1>2, <1>9, <1>12, <2>1
  <2>2. CASE k < i
    <3>1. o[k] = c.others[k] /\ p[k + 1] = c.path[k + 1]
      <4>1. k \in (1 .. n - 1) \ {i, j} /\ k + 1 \in 1 .. i
        BY <2>2
      <4> QED  BY <1>9, <1>12, <4>1
    <3>2. c.path[k + 1] = c.others[k]
      <4>1. \A m \in 1 .. Len(c.path) - 1 : c.path[m + 1] = c.others[m]
        BY DEF Shuffled
      <4>2. k \in 1 .. Len(c.path) - 1
        BY <1>1, <2>2
      <4> QED  BY <4>1, <4>2
    <3> QED  BY <3>1, <3>2
  <2> QED  BY <1>2, <2>1, <2>2
<1>14. p[1] = e
  <2>1. c.path[1] = e /\ 1 \in 1 .. i
    BY DEF Shuffled
  <2> QED  BY <1>12, <2>1
<1>15. Len(p) \in 1 .. n /\ Len(p) - 1 = i /\ Len(p) = Len(c.path) + 1
  BY <1>1, <1>12
<1> QED  BY <1>7, <1>9, <1>10, <1>11, <1>12, <1>13, <1>14, <1>15 DEF Shuffled

LEMMA DrawnOnce ==
  ASSUME NEW n \in Nat, NEW e \in 1 .. n, NEW c, Shuffled(c, e, n),
         NEW i \in 1 .. Len(c.path), NEW k \in 1 .. Len(c.path), c.path[i] = c.path[k]
  PROVE  i = k
<1>1. Len(c.path) \in 1 .. n
  BY DEF Shuffled
<1>2. ASSUME NEW m \in 1 .. Len(c.path), m # 1
      PROVE  m - 1 \in 1 .. n - 1 /\ c.path[m] = c.others[m - 1] /\ c.path[m] # e
  <2>1. m - 1 \in 1 .. Len(c.path) - 1 /\ m - 1 \in 1 .. n - 1 /\ (m - 1) + 1 = m
    BY <1>1, <1>2
  <2> QED  BY <2>1 DEF Shuffled
<1>3. c.path[1] = e
  BY DEF Shuffled
<1>4. CASE i = 1 \/ k = 1
  BY <1>2, <1>3, <1>4
<1>5. CASE i # 1 /\ k # 1
  <2>1. i - 1 = k - 1
    <3>1. \A l, m \in 1 .. n - 1 : c.others[l] = c.others[m] => l = m
      BY DEF Shuffled
    <3>2. /\ i - 1 \in 1 .. n - 1 /\ k - 1 \in 1 .. n - 1
          /\ c.others[i - 1] = c.others[k - 1]
      BY <1>2, <1>5
    <3> QED  BY <3>1, <3>2
  <2> QED  BY <1>1, <2>1
<1> QED  BY <1>4, <1>5

-----------------------------------------------------------------------------
(* The run of the program. *)

Fetched == {"judge", "resolve", "chain", "rest", "built"}
Resolved == {"chain", "rest", "built"}

\* What each stage has settled for the ones after it.
Settled ==
  /\ job \in Jobs
  /\ stage \notin {"check", "refused"} => ListGood
  /\ stage \in {"check", "entry"} => asked = {}
  /\ stage = "entry" => ~job.fixed
  /\ stage \in Fetched \cup {"fetch"} => entry \in 1 .. N /\ (job.fixed => entry = 1)
  /\ stage = "fetch" => asked \subseteq {job.addrs[entry]}
  /\ stage \in Fetched => asked = {job.addrs[entry]}
  /\ stage \in Resolved \cup {"resolve"} => Enough
  /\ stage \in Resolved => Resolves

\* The path so far: the first nodes of the list, or what has been drawn.
Pathed ==
  /\ stage = "chain" => /\ job.fixed
                        /\ chosen.path = [i \in 1 .. job.hops |-> Place(Served, i)]
  /\ stage = "rest" => /\ ~job.fixed
                       /\ job.hops <= Len(Held(Served)) /\ Len(chosen.path) <= job.hops
                       /\ Shuffled(chosen, EntryPlace, Len(Held(Served)))

PathInv == Settled /\ Pathed /\ ChainFits

LEMMA ListType ==
  ASSUME job \in Jobs
  PROVE  /\ N \in Nat
         /\ Served \in [1 .. N -> BOOLEAN]
         /\ job.hops \in Int /\ job.missing \in Int
         /\ job.fixed \in BOOLEAN /\ job.auth \in BOOLEAN
<1>1. N \in Nat
  BY JobAssumption DEF N
<1>2. Served \in [1 .. N -> BOOLEAN]
  BY DEF Served
<1> QED  BY <1>1, <1>2, JobAssumption

\* Judge found the entry served, or the first nodes of the list.
LEMMA EnoughServed ==
  ASSUME job \in Jobs, ListGood, Enough, entry \in 1 .. N, job.fixed => entry = 1
  PROVE  /\ Served[entry]
         /\ job.fixed => \A i \in 1 .. job.hops : i \in 1 .. N /\ Served[i]
         /\ ~job.fixed => Absent(Served) <= job.missing
<1>1. N \in Nat /\ job.hops \in 1 .. N /\ job.missing \in Int
  BY ListType DEF ListGood
<1>2. CASE job.fixed
  BY <1>1, <1>2 DEF Enough
<1>3. CASE ~job.fixed
  <2>1. Served[entry] /\ Absent(Served) <= MaxAbsent(Len(Served), job.hops, job.missing)
    BY <1>3 DEF Enough, JudgeMirror
  <2>2. Len(Served) = N
    BY <1>1, ListType
  <2>3. Absent(Served) \in Int
    <3>1. {i \in DOMAIN Served : ~Served[i]} \subseteq 1 .. N
      BY ListType
    <3>2. IsFiniteSet({i \in DOMAIN Served : ~Served[i]})
      BY <1>1, <3>1, FS_Interval, FS_Subset
    <3> QED  BY <3>2, FS_CardinalityType DEF Absent
  <2>4. Absent(Served) <= job.missing
    BY <1>1, <2>1, <2>2, <2>3 DEF MaxAbsent
  <2> QED  BY <1>3, <2>1, <2>4
<1> QED  BY <1>2, <1>3

\* The path names nodes served, none twice, and begins where it must.
LEMMA PathServed ==
  ASSUME PathInv, stage \in {"chain", "rest"}, Len(chosen.path) = job.hops,
         NEW i \in 1 .. job.hops
  PROVE  /\ Held(Served)[chosen.path[i]] \in 1 .. N
         /\ Served[Held(Served)[chosen.path[i]]]
         /\ \A k \in 1 .. job.hops :
              Held(Served)[chosen.path[i]] = Held(Served)[chosen.path[k]] => i = k
         /\ i = 1 => Held(Served)[chosen.path[i]] = entry
         /\ job.fixed => Held(Served)[chosen.path[i]] = i
<1> DEFINE served == Served
           h == Held(served)
<1>1. /\ job \in Jobs /\ ListGood /\ Enough /\ entry \in 1 .. N
      /\ job.fixed => entry = 1
  BY DEF PathInv, Settled, Fetched, Resolved
<1>2. /\ N \in Nat /\ served \in [1 .. N -> BOOLEAN]
      /\ job.hops \in 1 .. N
  BY <1>1, ListType DEF ListGood
<1>3. served[entry]
  BY <1>1, EnoughServed
<1>4. /\ Len(h) \in Nat
      /\ \A p \in 1 .. Len(h) : h[p] \in 1 .. N /\ served[h[p]] /\ Place(served, h[p]) = p
      /\ \A k \in 1 .. N : served[k] =>
           Place(served, k) \in 1 .. Len(h) /\ h[Place(served, k)] = k
  BY <1>2, HeldPlaces
<1>5. CASE stage = "chain"
  <2>1. /\ job.fixed /\ \A k \in 1 .. job.hops : chosen.path[k] = Place(served, k)
        /\ entry = 1
    BY <1>1, <1>5 DEF PathInv, Pathed
  <2>2. \A k \in 1 .. job.hops : k \in 1 .. N /\ served[k]
    BY <1>1, <2>1, EnoughServed
  <2> HIDE DEF served, h
  <2>3. \A k \in 1 .. job.hops : h[chosen.path[k]] = k
    BY <1>4, <2>1, <2>2
  <2> QED  BY <2>1, <2>2, <2>3 DEF served, h
<1>6. CASE stage = "rest"
  <2>1. /\ ~job.fixed /\ job.hops <= Len(h)
        /\ Shuffled(chosen, Place(served, entry), Len(h))
    BY <1>6 DEF PathInv, Pathed, EntryPlace
  <2>2. Place(served, entry) \in 1 .. Len(h)
    BY <1>1, <1>3, <1>4
  <2> HIDE DEF served, h
  <2>3. /\ chosen.path \in Seq(1 .. Len(h)) /\ Len(chosen.path) = job.hops
        /\ chosen.path[1] = Place(served, entry)
    BY <2>1 DEF Shuffled
  <2>4. \A k \in 1 .. job.hops : chosen.path[k] \in 1 .. Len(h)
    BY <1>2, <2>3
  <2>5. \A k \in 1 .. job.hops : chosen.path[i] = chosen.path[k] => i = k
    BY <1>4, <2>1, <2>2, DrawnOnce
  <2>6. \A k \in 1 .. job.hops : h[chosen.path[i]] = h[chosen.path[k]] => i = k
    BY <1>4, <2>4, <2>5
  <2>7. i = 1 => h[chosen.path[i]] = entry
    BY <1>1, <1>3, <1>4, <2>3
  <2>8. h[chosen.path[i]] \in 1 .. N /\ served[h[chosen.path[i]]]
    BY <1>4, <2>4
  <2> QED  BY <2>1, <2>6, <2>7, <2>8 DEF served, h
<1> QED  BY <1>5, <1>6

LEMMA ChainOfFits ==
  ASSUME PathInv, ChainOf
  PROVE  PathInv'
<1>1. /\ stage \in {"chain", "rest"} /\ Len(chosen.path) = job.hops /\ stage' = "built"
      /\ UNCHANGED <<job, entry, mirror, chosen, asked>>
  BY DEF ChainOf
<1>2. /\ job \in Jobs /\ ListGood /\ Enough /\ Resolves /\ entry \in 1 .. N
      /\ job.fixed => entry = 1
      /\ asked = {job.addrs[entry]}
  BY <1>1 DEF PathInv, Settled, Fetched, Resolved
<1>3. Settled'
  <2>1. ListGood' /\ Enough' /\ Resolves' /\ N' = N
    BY <1>1, <1>2 DEF ListGood, Enough, Resolves, N, Served, Key
  <2> QED  BY <1>1, <1>2, <2>1 DEF Settled, Fetched, Resolved
<1>4. Pathed'
  BY <1>1 DEF Pathed
<1>5. N \in Nat /\ job.hops \in 1 .. N /\ IsInjective(job.addrs)
  BY <1>2, ListType DEF ListGood
<1> DEFINE spot(i) == Held(Served)[chosen.path[i]]
<1>6. \A i \in 1 .. job.hops :
        /\ spot(i) \in 1 .. N /\ Served[spot(i)]
        /\ \A k \in 1 .. job.hops : spot(i) = spot(k) => i = k
        /\ i = 1 => spot(i) = entry
        /\ job.fixed => spot(i) = i
  BY <1>1, PathServed
<1>7. chain' = [i \in 1 .. job.hops |-> [addr |-> job.addrs[spot(i)], key |-> Key(spot(i))]]
  BY DEF ChainOf
<1> HIDE DEF spot
<1>8. /\ DOMAIN chain' = 1 .. job.hops /\ Len(chain') = job.hops
      /\ \A i \in 1 .. job.hops : chain'[i] = [addr |-> job.addrs[spot(i)], key |-> Key(spot(i))]
  BY <1>5, <1>7
<1>a. ASSUME NEW i \in 1 .. job.hops
      PROVE  chain'[i].addr = job.addrs[spot(i)] /\ chain'[i].key = Key(spot(i))
  <2>1. chain'[i] = [addr |-> job.addrs[spot(i)], key |-> Key(spot(i))]
    BY <1>8
  <2> QED  BY <2>1
<1>9. ASSUME NEW i \in 1 .. job.hops, NEW k \in 1 .. job.hops,
             chain'[i].addr = chain'[k].addr \/ chain'[i].key = chain'[k].key
      PROVE  i = k
  <2>1. spot(i) \in 1 .. N /\ spot(k) \in 1 .. N /\ Served[spot(i)] /\ Served[spot(k)]
    BY <1>6
  <2>2. CASE chain'[i].addr = chain'[k].addr
    <3>1. job.addrs[spot(i)] = job.addrs[spot(k)]
      BY <1>a, <2>2
    <3>2. DOMAIN job.addrs = 1 .. N
      BY <1>2, JobAssumption DEF N
    <3>3. spot(i) = spot(k)
      BY <1>5, <2>1, <3>1, <3>2 DEF IsInjective
    <3> QED  BY <1>6, <3>3
  <2>3. CASE chain'[i].key = chain'[k].key
    <3>1. Key(spot(i)) = Key(spot(k))
      BY <1>a, <2>3
    <3>2. spot(i) = spot(k)
      BY <1>2, <2>1, <3>1 DEF Resolves
    <3> QED  BY <1>6, <3>2
  <2> QED  BY <1>9, <2>2, <2>3
<1>10. ASSUME NEW i \in 1 .. job.hops
       PROVE  \E k \in 1 .. N : /\ mirror[k] # None
                                /\ chain'[i] = [addr |-> job.addrs[k], key |-> Key(k)]
  <2>1. spot(i) \in 1 .. N /\ mirror[spot(i)] # None
    BY <1>6 DEF Served
  <2> QED  BY <1>8, <2>1
<1>11. chain'[1].addr = job.addrs[entry]
  <2>1. 1 \in 1 .. job.hops
    BY <1>5
  <2> QED  BY <1>6, <1>a, <2>1
<1>12. job.fixed => \A i \in 1 .. job.hops : chain'[i].addr = job.addrs[i]
  BY <1>6, <1>a
<1>13. ~job.fixed => Absent(Served) <= job.missing
  BY <1>2, EnoughServed
<1>14. job.auth => \A i \in 1 .. N : mirror[i] \in {None, job.addrs[i]}
  BY <1>2 DEF Resolves, Served
<1>15. N' = N /\ Served' = Served /\ \A k : Key(k)' = Key(k)
  BY <1>1 DEF N, Served, Key
<1>16. ChainFits'
  BY <1>1, <1>2, <1>8, <1>9, <1>10, <1>11, <1>12, <1>13, <1>14, <1>15 DEF ChainFits
<1> QED  BY <1>3, <1>4, <1>16 DEF PathInv

\* The steps that settle nothing about a chain yet.
LEMMA EarlySteps ==
  ASSUME PathInv, CheckArguments \/ DrawEntry \/ Fetch \/ Judge
  PROVE  PathInv'
<1>1. /\ job \in Jobs /\ job' = job /\ N' = N /\ N \in Nat
      /\ stage' \notin Resolved
  BY ListType DEF PathInv, Settled, N, CheckArguments, DrawEntry, Fetch, Judge, Resolved
<1>2. Pathed' /\ ChainFits'
  BY <1>1 DEF Pathed, ChainFits, Resolved
<1>3. ListGood' <=> ListGood
  BY <1>1 DEF ListGood
<1>4. CASE CheckArguments
  <2>1. stage = "check" /\ asked = {} /\ asked' = {}
    BY <1>4 DEF CheckArguments, PathInv, Settled
  <2>2. \/ /\ ListGood /\ stage' = "fetch" /\ job.fixed /\ entry' = 1
        \/ /\ ListGood /\ stage' = "entry" /\ ~job.fixed
        \/ stage' = "refused"
    BY <1>4 DEF CheckArguments
  <2>3. ListGood => 1 \in 1 .. N
    BY <1>1 DEF ListGood
  <2> QED  BY <1>1, <1>2, <1>3, <2>1, <2>2, <2>3 DEF PathInv, Settled, Fetched, Resolved
<1>5. CASE DrawEntry
  <2>1. /\ stage = "entry" /\ stage' = "fetch" /\ asked = {} /\ asked' = {} /\ ~job.fixed
        /\ ListGood
    BY <1>5 DEF DrawEntry, PathInv, Settled
  <2>2. entry' \in 1 .. N
    <3>1. PICK v \in Words : entry' = (v % N) + 1
      BY <1>5 DEF DrawEntry
    <3>2. v \in Nat /\ N > 0
      BY <2>1 DEF Words, ListGood
    <3>3. PICK r \in 0 .. N - 1 : r = v % N
      BY <1>1, <3>2, Remainder
    <3> QED  BY <1>1, <3>1, <3>3
  <2> QED  BY <1>1, <1>2, <1>3, <2>1, <2>2 DEF PathInv, Settled, Fetched, Resolved
<1>6. CASE Fetch
  <2>1. /\ stage = "fetch" /\ stage' \in {"judge", "fetch", "refused"} /\ entry' = entry
        /\ asked' = asked \cup {job.addrs[entry]}
    BY <1>6 DEF Fetch
  <2>2. /\ ListGood /\ entry \in 1 .. N /\ (job.fixed => entry = 1)
        /\ asked' = {job.addrs[entry]}
    BY <2>1 DEF PathInv, Settled, Fetched
  <2> QED  BY <1>1, <1>2, <1>3, <2>1, <2>2 DEF PathInv, Settled, Fetched, Resolved
<1>7. CASE Judge
  <2>1. /\ stage = "judge" /\ UNCHANGED <<entry, mirror, asked>>
        /\ (stage' = "resolve" /\ Enough) \/ stage' = "refused"
    BY <1>7 DEF Judge
  <2>2. /\ ListGood /\ entry \in 1 .. N /\ (job.fixed => entry = 1)
        /\ asked = {job.addrs[entry]}
    BY <2>1 DEF PathInv, Settled, Fetched
  <2>3. Enough' <=> Enough
    BY <1>1, <2>1 DEF Enough, Served
  <2> QED  BY <1>1, <1>2, <1>3, <2>1, <2>2, <2>3 DEF PathInv, Settled, Fetched, Resolved
<1> QED  BY <1>4, <1>5, <1>6, <1>7

\* A step that leaves the list, the entry and the mirror alone, and goes on from
\* a mirror that was judged, keeps what was settled.
LEMMA LateSettled ==
  ASSUME PathInv, UNCHANGED <<job, entry, mirror, asked>>,
         \/ stage' = "refused" \/ stage' = stage
         \/ stage = "resolve" /\ stage' \in {"chain", "rest"} /\ Resolves
  PROVE  Settled'
<1>1. N' = N /\ Served' = Served
  BY DEF N, Served
<1>2. (ListGood' <=> ListGood) /\ (Enough' <=> Enough) /\ (Resolves' <=> Resolves)
  BY <1>1 DEF ListGood, Enough, Resolves, Key
<1> QED  BY <1>1, <1>2 DEF PathInv, Settled, Fetched, Resolved

LEMMA ResolveSteps ==
  ASSUME PathInv, Resolve
  PROVE  PathInv'
<1>1. /\ stage = "resolve" /\ UNCHANGED <<job, entry, mirror, asked>>
      /\ stage' \in {"refused", "chain", "rest"}
      /\ stage' # "refused" => ~Unresolved
      /\ stage' = "chain" => job.fixed
      /\ stage' = "rest" => ~job.fixed
  BY DEF Resolve
<1>2. Settled'
  BY <1>1, LateSettled DEF Unresolved
<1>3. ChainFits'
  BY <1>1 DEF ChainFits
<1>4. Served' = Served /\ EntryPlace' = EntryPlace
  BY <1>1 DEF Served, N, EntryPlace
<1>5. CASE stage' = "refused"
  BY <1>2, <1>3, <1>5 DEF PathInv, Pathed
<1>6. CASE stage' = "chain"
  <2>1. chosen'.path = [i \in 1 .. job.hops |-> Place(Served, i)]
    BY <1>6 DEF Resolve, Nothing
  <2> QED  BY <1>1, <1>2, <1>3, <1>4, <1>6, <2>1 DEF PathInv, Pathed
<1>7. CASE stage' = "rest"
  <2>1. chosen' = Begin(EntryPlace, Len(Held(Served)))
    BY <1>7 DEF Resolve
  <2>2. /\ job \in Jobs /\ ListGood /\ Enough /\ entry \in 1 .. N
        /\ job.fixed => entry = 1
    BY <1>1 DEF PathInv, Settled, Fetched
  <2>3. /\ N \in Nat /\ Served \in [1 .. N -> BOOLEAN] /\ Served[entry]
        /\ job.hops \in 1 .. N
    BY <2>2, ListType, EnoughServed DEF ListGood
  <2>4. Len(Held(Served)) \in Nat /\ EntryPlace \in 1 .. Len(Held(Served))
    BY <2>2, <2>3, HeldPlaces DEF EntryPlace
  <2>5. /\ Shuffled(Begin(EntryPlace, Len(Held(Served))), EntryPlace, Len(Held(Served)))
        /\ Len(Begin(EntryPlace, Len(Held(Served))).path) = 1
    BY <2>4, BeginDrawn
  <2>6. job.hops <= Len(Held(Served))
    BY <1>1, <1>7, <2>3, <2>4 DEF Unresolved
  <2>7. Len(chosen'.path) <= job.hops
    BY <2>1, <2>3, <2>5
  <2> QED  BY <1>1, <1>2, <1>3, <1>4, <1>7, <2>1, <2>5, <2>6, <2>7 DEF PathInv, Pathed
<1> QED  BY <1>1, <1>5, <1>6, <1>7

LEMMA DrawSteps ==
  ASSUME PathInv, DrawRest \/ \E m : stage \in {"entry", "rest"} /\ DrawAgain(m)
  PROVE  PathInv'
<1>1. CASE DrawRest
  <2>1. /\ stage = "rest" /\ stage' = stage /\ UNCHANGED <<job, entry, mirror, asked>>
        /\ Len(chosen.path) < job.hops
    BY <1>1 DEF DrawRest
  <2>2. Settled' /\ ChainFits'
    BY <2>1, LateSettled DEF ChainFits
  <2>3. Served' = Served /\ EntryPlace' = EntryPlace
    BY <2>1 DEF Served, N, EntryPlace
  <2>4. /\ job \in Jobs /\ ListGood /\ Enough /\ entry \in 1 .. N
        /\ job.fixed => entry = 1
    BY <2>1 DEF PathInv, Settled, Fetched, Resolved
  <2>5. /\ N \in Nat /\ Served \in [1 .. N -> BOOLEAN] /\ Served[entry]
        /\ job.hops \in 1 .. N
    BY <2>4, ListType, EnoughServed DEF ListGood
  <2>6. Len(Held(Served)) \in Nat /\ EntryPlace \in 1 .. Len(Held(Served))
    BY <2>4, <2>5, HeldPlaces DEF EntryPlace
  <2>7. /\ ~job.fixed /\ job.hops <= Len(Held(Served))
        /\ Shuffled(chosen, EntryPlace, Len(Held(Served)))
    BY <2>1 DEF PathInv, Pathed
  <2>8. PICK v \in Words : chosen' = Take(chosen, v)
    BY <1>1 DEF DrawRest
  <2>9. v \in Nat /\ Len(chosen.path) \in Nat
    BY <2>7 DEF Words, Shuffled
  <2>10. /\ Shuffled(chosen', EntryPlace, Len(Held(Served)))
         /\ Len(chosen'.path) = Len(chosen.path) + 1
    <3>1. Len(chosen.path) < Len(Held(Served))
      BY <2>1, <2>5, <2>6, <2>7, <2>9
    <3> QED  BY <2>6, <2>7, <2>8, <2>9, <3>1, TakeDrawn
  <2>11. Len(chosen'.path) <= job.hops
    BY <2>1, <2>5, <2>9, <2>10
  <2> QED  BY <2>1, <2>2, <2>3, <2>7, <2>10, <2>11 DEF PathInv, Pathed
<1>2. CASE \E m : stage \in {"entry", "rest"} /\ DrawAgain(m)
  <2>1. /\ UNCHANGED <<job, entry, mirror, chosen, asked, chain>>
        /\ stage \in {"entry", "rest"} /\ stage' \in {stage, "refused"}
    BY <1>2 DEF DrawAgain
  <2>2. Settled' /\ ChainFits'
    BY <2>1, LateSettled DEF ChainFits
  <2>3. Served' = Served /\ EntryPlace' = EntryPlace
    BY <2>1 DEF Served, N, EntryPlace
  <2> QED  BY <2>1, <2>2, <2>3 DEF PathInv, Pathed
<1> QED  BY <1>1, <1>2

\* The stages keep PathInv, whatever the list, the mirror and the words.
LEMMA PathInvariant == ChoiceSpec => []PathInv
<1>1. ChoiceInit => PathInv
  BY DEF ChoiceInit, PathInv, Settled, Pathed, ChainFits, Fetched, Resolved
<1>2. PathInv /\ [ChoiceNext]_choice => PathInv'
  <2> SUFFICES ASSUME PathInv, [ChoiceNext]_choice PROVE PathInv'
    OBVIOUS
  <2>1. CASE CheckArguments \/ DrawEntry \/ Fetch \/ Judge
    BY <2>1, EarlySteps
  <2>2. CASE Resolve
    BY <2>2, ResolveSteps
  <2>3. CASE DrawRest \/ \E m : stage \in {"entry", "rest"} /\ DrawAgain(m)
    BY <2>3, DrawSteps
  <2>4. CASE ChainOf
    BY <2>4, ChainOfFits
  <2>5. CASE UNCHANGED choice
    <3>1. UNCHANGED <<job, stage, entry, mirror, chosen, asked, chain>>
      BY <2>5 DEF choice
    <3>2. N' = N /\ Served' = Served /\ EntryPlace' = EntryPlace /\ \A k : Key(k)' = Key(k)
      BY <3>1 DEF N, Served, EntryPlace, Key
    <3>3. Settled'
      BY <3>1, LateSettled
    <3>4. Pathed' /\ ChainFits'
      BY <3>1, <3>2 DEF PathInv, Pathed, ChainFits
    <3> QED  BY <3>3, <3>4 DEF PathInv
  <2> QED  BY <2>1, <2>2, <2>3, <2>4, <2>5 DEF ChoiceNext
<1> QED  BY <1>1, <1>2, PTL DEF ChoiceSpec

\* The chain the client program builds fits its arguments and the mirror, whatever
\* the list, the mirror and the words of the random source (selection.chain).
THEOREM PathChainFits == ChoiceSpec => []ChainFits
<1>1. PathInv => ChainFits
  BY DEF PathInv
<1> QED  BY <1>1, PathInvariant, PTL

-----------------------------------------------------------------------------
(* Division. *)

LEMMA DivMod ==
  ASSUME NEW a \in Int, NEW m \in Nat \ {0}
  PROVE  /\ a \div m \in Int /\ a % m \in 0 .. m - 1
         /\ a = m * (a \div m) + (a % m)
  OBVIOUS

LEMMA MoreTimes ==
  ASSUME NEW m \in Nat \ {0}, NEW q \in Int, NEW t \in Int, q < t
  PROVE  m * q + m <= m * t
<1>1. PICK d \in Nat : t = q + 1 + d
  <2>1. t - q - 1 \in Nat /\ t = q + 1 + (t - q - 1)
    OBVIOUS
  <2> QED  BY <2>1
<1>2. m * (q + 1 + d) = m * q + m + m * d
  OBVIOUS
<1>3. m * d \in Nat /\ m * q \in Int
  OBVIOUS
<1> QED  BY <1>1, <1>2, <1>3

LEMMA DivModOnce ==
  ASSUME NEW m \in Nat \ {0}, NEW q \in Int, NEW t \in Int,
         NEW r \in 0 .. m - 1, NEW s \in 0 .. m - 1, m * q + r = m * t + s
  PROVE  q = t /\ r = s
<1>1. m * q \in Int /\ m * t \in Int
  OBVIOUS
<1>2. ~(q < t)
  <2>1. q < t => m * q + m <= m * t
    BY MoreTimes
  <2> QED  BY <1>1, <2>1
<1>3. ~(t < q)
  <2>1. t < q => m * t + m <= m * q
    BY MoreTimes
  <2> QED  BY <1>1, <2>1
<1> QED  BY <1>1, <1>2, <1>3

LEMMA DivModIs ==
  ASSUME NEW a \in Int, NEW m \in Nat \ {0}, NEW q \in Int, NEW r \in 0 .. m - 1,
         a = m * q + r
  PROVE  a \div m = q /\ a % m = r
<1>1. PICK d \in Int, u \in 0 .. m - 1 : d = a \div m /\ u = a % m /\ a = m * d + u
  BY DivMod
<1>2. m * d + u = m * q + r
  BY <1>1
<1> HIDE DEF DivMod
<1> QED  BY <1>1, <1>2, DivModOnce

LEMMA SmallRemainder ==
  ASSUME NEW m \in Nat \ {0}, NEW v \in 0 .. m - 1
  PROVE  v % m = v
<1>1. PICK d \in Int, u \in 0 .. m - 1 : d = v \div m /\ u = v % m /\ v = m * d + u
  BY DivMod
<1>2. m * d \in Int
  OBVIOUS
<1>3. ~(d < 0)
  <2>1. d < 0 => m * d + m <= m * 0
    BY MoreTimes
  <2> QED  BY <1>1, <1>2, <2>1
<1>4. ~(0 < d)
  <2>1. 0 < d => m * 0 + m <= m * d
    BY MoreTimes
  <2> QED  BY <1>1, <1>2, <2>1
<1>5. d = 0
  BY <1>3, <1>4
<1> QED  BY <1>1, <1>5

-----------------------------------------------------------------------------
(* Induction on a number, with a set for the numbers the claim holds for. *)

LEMMA Counting ==
  ASSUME NEW S, 0 \in S, \A k \in Nat : k \in S => k + 1 \in S
  PROVE  Nat \subseteq S
<1> DEFINE R == {ss \in Nat \X Nat : ss[1] < ss[2]}
           T == Nat \ S
<1> SUFFICES ASSUME T # {} PROVE FALSE
  OBVIOUS
<1>1. IsWellFoundedOn(R, Nat)
  BY NatLessThanWellFounded DEF OpToRel
<1>2. PICK m \in T : \A k \in T : ~(<<k, m>> \in R)
  <2>1. T \subseteq Nat
    OBVIOUS
  <2> HIDE DEF R, T
  <2> QED  BY <1>1, <2>1, WFMin
<1>3. m \in Nat /\ m \notin S /\ m # 0
  OBVIOUS
<1>4. m - 1 \in Nat /\ m - 1 < m
  BY <1>3
<1>5. <<m - 1, m>> \in R
  BY <1>3, <1>4
<1>6. m - 1 \in S
  BY <1>2, <1>4, <1>5
<1>7. (m - 1) + 1 \in S
  BY <1>4, <1>6
<1> QED  BY <1>3, <1>7

-----------------------------------------------------------------------------
(* Folds. *)

\* The states a sequence of words takes the shuffle through.
Run(c, ws, k, run) ==
  /\ DOMAIN run = 0 .. k
  /\ run[0] = c
  /\ \A i \in 1 .. k : run[i] = Take(run[i - 1], ws[i])

LEMMA RunExists ==
  ASSUME NEW c, NEW ws, NEW n \in Nat
  PROVE  \E run : Run(c, ws, n, run)
<1> DEFINE S == {k \in Nat : \E run : Run(c, ws, k, run)}
<1>1. 0 \in S
  <2> DEFINE run == [i \in 0 .. 0 |-> c]
  <2>1. Run(c, ws, 0, run)
    BY DEF Run
  <2> QED  BY <2>1
<1>2. ASSUME NEW k \in Nat, k \in S PROVE k + 1 \in S
  <2>1. PICK run : Run(c, ws, k, run)
    BY <1>2
  <2> DEFINE more == [i \in 0 .. k + 1 |-> IF i = k + 1 THEN Take(run[k], ws[k + 1]) ELSE run[i]]
  <2>2. DOMAIN more = 0 .. k + 1 /\ more[k + 1] = Take(run[k], ws[k + 1])
    OBVIOUS
  <2>3. \A i \in 0 .. k : more[i] = run[i]
    OBVIOUS
  <2> HIDE DEF more
  <2>4. ASSUME NEW i \in 1 .. k + 1 PROVE more[i] = Take(more[i - 1], ws[i])
    <3>1. CASE i = k + 1
      <4>1. i - 1 = k /\ k \in 0 .. k
        BY <3>1
      <4> QED  BY <2>2, <2>3, <3>1, <4>1
    <3>2. CASE i # k + 1
      <4>1. i \in 1 .. k /\ i \in 0 .. k /\ i - 1 \in 0 .. k
        BY <3>2
      <4> QED  BY <2>1, <2>3, <4>1 DEF Run
    <3> QED  BY <3>1, <3>2
  <2>5. more[0] = c
    BY <2>1, <2>3 DEF Run
  <2> QED  BY <2>2, <2>4, <2>5 DEF Run
<1>3. Nat \subseteq S
  <2> HIDE DEF S
  <2> QED  BY <1>1, <1>2, Counting
<1> QED  BY <1>3

\* What FoldLeft computes goes through the subsets of the domain.
Folding(c, ws, n, g) ==
  \A s \in SUBSET (1 .. n) : g[s] = IF s = {} THEN c ELSE Take(g[s \ {Max(s)}], ws[Max(s)])

LEMMA TopOf ==
  ASSUME NEW k \in Nat, NEW s \in SUBSET (1 .. k + 1), k + 1 \in s
  PROVE  Max(s) = k + 1
<1>1. \A y \in s : k + 1 >= y
  OBVIOUS
<1>2. \A x \in s : (\A y \in s : x >= y) => x = k + 1
  OBVIOUS
<1> QED  BY <1>1, <1>2 DEF Max

\* The function that FoldLeft chooses.
Folded(c, ws, n, g) ==
  g = [s \in SUBSET (1 .. n) |-> IF s = {} THEN c ELSE Take(g[s \ {Max(s)}], ws[Max(s)])]

LEMMA FoldingExists ==
  ASSUME NEW c, NEW ws, NEW n \in Nat
  PROVE  \E g : Folded(c, ws, n, g)
<1> DEFINE S == {k \in Nat : \E g : Folding(c, ws, k, g)}
<1>1. 0 \in S
  <2> DEFINE g == [s \in SUBSET (1 .. 0) |-> c]
  <2>1. Folding(c, ws, 0, g)
    BY DEF Folding
  <2> QED  BY <2>1
<1>2. ASSUME NEW k \in Nat, k \in S PROVE k + 1 \in S
  <2>1. PICK g : Folding(c, ws, k, g)
    BY <1>2
  <2> DEFINE h == [s \in SUBSET (1 .. k + 1) |->
                     IF k + 1 \in s THEN Take(g[s \ {k + 1}], ws[k + 1]) ELSE g[s]]
  <2>2. ASSUME NEW s \in SUBSET (1 .. k + 1)
        PROVE  h[s] = IF s = {} THEN c ELSE Take(h[s \ {Max(s)}], ws[Max(s)])
    <3>1. CASE k + 1 \in s
      <4>1. Max(s) = k + 1
        BY <3>1, TopOf
      <4>2. s \ {k + 1} \in SUBSET (1 .. k + 1) /\ k + 1 \notin s \ {k + 1} /\ s # {}
        BY <3>1
      <4>3. h[s \ {k + 1}] = g[s \ {k + 1}]
        BY <4>2
      <4>4. h[s] = Take(g[s \ {k + 1}], ws[k + 1])
        BY <3>1
      <4> HIDE DEF h
      <4> QED  BY <4>1, <4>2, <4>3, <4>4
    <3>2. CASE k + 1 \notin s
      <4>1. \A x \in s : x \in 1 .. k
        <5> SUFFICES ASSUME NEW x \in s PROVE x \in 1 .. k
          OBVIOUS
        <5>1. x \in 1 .. k + 1 /\ x # k + 1
          BY <3>2
        <5> QED  BY <5>1
      <4>2. s \in SUBSET (1 .. k) /\ s \ {Max(s)} \in SUBSET (1 .. k + 1) /\ k + 1 \notin s \ {Max(s)}
        BY Zenon, <3>2, <4>1
      <4>3. h[s] = g[s] /\ h[s \ {Max(s)}] = g[s \ {Max(s)}]
        BY <3>2, <4>2
      <4>4. g[s] = IF s = {} THEN c ELSE Take(g[s \ {Max(s)}], ws[Max(s)])
        BY <2>1, <4>2 DEF Folding
      <4> HIDE DEF h
      <4> QED  BY <4>3, <4>4
    <3> QED  BY <3>1, <3>2
  <2>3. Folding(c, ws, k + 1, h)
    <3> HIDE DEF h
    <3> QED  BY <2>2 DEF Folding
  <2> QED  BY <2>3
<1>3. Nat \subseteq S
  <2> HIDE DEF S
  <2> QED  BY <1>1, <1>2, Counting
<1>4. PICK g : Folding(c, ws, n, g)
  BY <1>3
<1> DEFINE h == [s \in SUBSET (1 .. n) |-> g[s]]
<1>5. ASSUME NEW s \in SUBSET (1 .. n)
      PROVE  h[s] = IF s = {} THEN c ELSE Take(h[s \ {Max(s)}], ws[Max(s)])
  <2>1. s \ {Max(s)} \in SUBSET (1 .. n)
    OBVIOUS
  <2>2. h[s] = g[s] /\ h[s \ {Max(s)}] = g[s \ {Max(s)}]
    BY <2>1
  <2>3. g[s] = IF s = {} THEN c ELSE Take(g[s \ {Max(s)}], ws[Max(s)])
    BY <1>4 DEF Folding
  <2> HIDE DEF h
  <2> QED  BY <2>2, <2>3
<1>6. h = [s \in SUBSET (1 .. n) |-> h[s]]
  OBVIOUS
<1> HIDE DEF h
<1>7. h = [s \in SUBSET (1 .. n) |-> IF s = {} THEN c ELSE Take(h[s \ {Max(s)}], ws[Max(s)])]
  BY Zenon, <1>5, <1>6
<1> QED  BY Zenon, <1>7 DEF Folded

LEMMA FoldRun ==
  ASSUME NEW c, NEW n \in Nat, NEW ws, DOMAIN ws = 1 .. n, NEW run, Run(c, ws, n, run)
  PROVE  FoldLeft(Take, c, ws) = run[n]
<1> DEFINE Iter == CHOOSE h : h = [s \in SUBSET (1 .. n) |->
                                      IF s = {} THEN c ELSE Take(h[s \ {Max(s)}], ws[Max(s)])]
<1>1. FoldLeft(Take, c, ws) = Iter[1 .. n]
  BY Zenon DEF FoldLeft, MapThenFoldSet
<1>2. Iter = [s \in SUBSET (1 .. n) |-> IF s = {} THEN c ELSE Take(Iter[s \ {Max(s)}], ws[Max(s)])]
  <2>1. \E h : Folded(c, ws, n, h)
    BY FoldingExists
  <2> QED  BY Zenon, <2>1 DEF Folded
<1> HIDE DEF Iter
<1>3. \A s \in SUBSET (1 .. n) : Iter[s] = IF s = {} THEN c ELSE Take(Iter[s \ {Max(s)}], ws[Max(s)])
  BY Zenon, <1>2
<1> DEFINE S == {k \in Nat : k <= n => Iter[1 .. k] = run[k]}
<1>4. 0 \in S
  <2>1. 1 .. 0 = {} /\ {} \in SUBSET (1 .. n)
    OBVIOUS
  <2>2. Iter[1 .. 0] = c
    BY <1>3, <2>1
  <2> QED  BY <2>2 DEF Run
<1>5. ASSUME NEW k \in Nat, k \in S PROVE k + 1 \in S
  <2> SUFFICES ASSUME k + 1 <= n PROVE Iter[1 .. k + 1] = run[k + 1]
    OBVIOUS
  <2>1. /\ 1 .. k + 1 \in SUBSET (1 .. n) /\ 1 .. k + 1 # {}
        /\ (1 .. k + 1) \ {k + 1} = 1 .. k
    OBVIOUS
  <2>2. Max(1 .. k + 1) = k + 1
    BY TopOf
  <2>3. Iter[1 .. k + 1] = Take(Iter[1 .. k], ws[k + 1])
    BY <1>3, <2>1, <2>2
  <2>4. Iter[1 .. k] = run[k]
    BY <1>5
  <2>5. k + 1 \in 1 .. n /\ (k + 1) - 1 = k
    OBVIOUS
  <2>6. run[k + 1] = Take(run[k], ws[k + 1])
    BY <2>5 DEF Run
  <2> QED  BY <2>3, <2>4, <2>6
<1>6. n \in S
  <2> HIDE DEF S
  <2> QED  BY <1>4, <1>5, Counting
<1> QED  BY <1>1, <1>6

-----------------------------------------------------------------------------
(* Counting. *)

LEMMA FunctionsFinite ==
  ASSUME NEW A, NEW B, IsFiniteSet(A), IsFiniteSet(B)
  PROVE  IsFiniteSet([A -> B])
<1> DEFINE graph == [f \in [A -> B] |-> {<<a, f[a]>> : a \in A}]
<1>1. IsFiniteSet(SUBSET (A \X B))
  BY FS_Product, FS_SUBSET
<1>2. graph \in [[A -> B] -> SUBSET (A \X B)]
  OBVIOUS
<1>3. ASSUME NEW f \in [A -> B], NEW g \in [A -> B], graph[f] = graph[g] PROVE f = g
  <2>1. ASSUME NEW a \in A PROVE f[a] = g[a]
    <3>1. <<a, f[a]>> \in {<<x, f[x]>> : x \in A}
      OBVIOUS
    <3>2. <<a, f[a]>> \in {<<x, g[x]>> : x \in A}
      BY <1>3, <3>1
    <3> QED  BY <3>2
  <2> QED  BY <2>1
<1>4. graph \in Injection([A -> B], SUBSET (A \X B))
  BY <1>2, <1>3 DEF Injection, IsInjective
<1> QED  BY <1>1, <1>4, FS_Injection

\* Every member of P goes with every member of T exactly once.
Covers(U, P, T, f, g) ==
  /\ f \in [U -> P] /\ g \in [U -> T]
  /\ \A p \in P : \A t \in T : \E u \in U : f[u] = p /\ g[u] = t
  /\ \A u, w \in U : f[u] = f[w] /\ g[u] = g[w] => u = w

\* Then each member of P comes up as often as any other.
LEMMA EachAsOften ==
  ASSUME NEW U, NEW P, NEW T, IsFiniteSet(P), IsFiniteSet(T),
         NEW f, NEW g, Covers(U, P, T, f, g), NEW p \in P
  PROVE  Cardinality(P) * Cardinality({u \in U : f[u] = p}) = Cardinality(U)
<1> DEFINE both == [u \in U |-> <<f[u], g[u]>>]
           Fibre == {u \in U : f[u] = p}
           turn == [u \in Fibre |-> g[u]]
<1> USE DEF Covers
<1>1. both \in Bijection(U, P \X T)
  <2>1. both \in [U -> P \X T]
    OBVIOUS
  <2>2. ASSUME NEW u \in U, NEW w \in U, both[u] = both[w] PROVE u = w
    <3>1. f[u] = f[w] /\ g[u] = g[w]
      BY <2>2
    <3> QED  BY <3>1
  <2>3. ASSUME NEW x \in P \X T PROVE \E u \in U : both[u] = x
    <3>1. PICK u \in U : f[u] = x[1] /\ g[u] = x[2]
      BY <2>3
    <3>2. both[u] = x
      BY <2>3, <3>1
    <3> QED  BY <3>2
  <2> HIDE DEF both
  <2> QED  BY <2>1, <2>2, <2>3 DEF Bijection, Injection, IsInjective, Surjection
<1>2. turn \in Bijection(Fibre, T)
  <2>1. turn \in [Fibre -> T]
    OBVIOUS
  <2>2. ASSUME NEW u \in Fibre, NEW w \in Fibre, turn[u] = turn[w] PROVE u = w
    <3>1. f[u] = f[w] /\ g[u] = g[w] /\ u \in U /\ w \in U
      BY <2>2
    <3> QED  BY <3>1
  <2>3. ASSUME NEW t \in T PROVE \E u \in Fibre : turn[u] = t
    <3>1. PICK u \in U : f[u] = p /\ g[u] = t
      OBVIOUS
    <3> QED  BY <3>1
  <2> HIDE DEF turn, Fibre
  <2> QED  BY <2>1, <2>2, <2>3 DEF Bijection, Injection, IsInjective, Surjection
<1>3. IsFiniteSet(P \X T) /\ Cardinality(P \X T) = Cardinality(P) * Cardinality(T)
  BY FS_Product
<1> HIDE DEF both, turn, Fibre
<1>4. ExistsBijection(P \X T, U) /\ ExistsBijection(T, Fibre)
  BY <1>1, <1>2, Fun_ExistsBijSymmetric DEF ExistsBijection
<1>5. Cardinality(U) = Cardinality(P \X T)
  BY <1>3, <1>4, FS_Bijection
<1>6. Cardinality(Fibre) = Cardinality(T)
  BY <1>4, FS_Bijection
<1> QED  BY <1>3, <1>5, <1>6 DEF Fibre

-----------------------------------------------------------------------------
(* The paths that sequences of draws lead to. *)

\* The place among n - 1 others from which a word draws.
Spot(l, v, n) == l + (v % (n - l))

\* A path of l nodes goes on with the one that stands at place s.
Draws(c, d, l, s) ==
  d.path[l + 1] = c.others[s] /\ \A i \in 1 .. l : d.path[i] = c.path[i]

LEMMA TakePath ==
  ASSUME NEW n \in Nat, NEW e \in 1 .. n, NEW c, Shuffled(c, e, n),
         NEW l \in 1 .. n - 1, l = Len(c.path), NEW v \in Nat
  PROVE  /\ Spot(l, v, n) \in l .. n - 1
         /\ Draws(c, Take(c, v), l, Spot(l, v, n))
<1>1. Bound(c) = n - l
  <2>1. Len(c.others) = n - 1
    BY DEF Shuffled
  <2>2. Bound(c) = (n - 1) - l + 1
    BY <2>1 DEF Bound
  <2> QED  BY <2>2
<1>2. PICK r \in 0 .. n - l - 1 : r = v % (n - l)
  <2>1. n - l \in Nat /\ n - l > 0
    OBVIOUS
  <2> QED  BY <2>1, Remainder
<1>3. PICK j \in l .. n - 1 : j = l + r
  OBVIOUS
<1>4. Take(c, v).path = Append(c.path, c.others[j])
  BY <1>1, <1>2, <1>3 DEF Take
<1>5. c.path \in Seq(1 .. n) /\ c.others[j] \in 1 .. n
  <2>1. c.others \in Seq(1 .. n) /\ Len(c.others) = n - 1 /\ c.path \in Seq(1 .. n)
    BY DEF Shuffled
  <2>2. c.others \in [1 .. Len(c.others) -> 1 .. n]
    BY <2>1, FunctionOfSeq
  <2>3. j \in 1 .. n - 1
    OBVIOUS
  <2> QED  BY <2>1, <2>2, <2>3
<1>6. /\ Append(c.path, c.others[j])[l + 1] = c.others[j]
      /\ \A i \in 1 .. l : Append(c.path, c.others[j])[i] = c.path[i]
  BY <1>5, Appended
<1> QED  BY <1>2, <1>3, <1>4, <1>6 DEF Spot, Draws

Remains(c, l, n, x) == \E j \in l .. n - 1 : c.others[j] = x
OffPath(c, l, x) == \A i \in 1 .. l : c.path[i] # x

\* What is not on the path is still among the others.
LEMMA StillThere ==
  ASSUME NEW n \in Nat, NEW e \in 1 .. n, NEW c, Shuffled(c, e, n),
         NEW l \in 1 .. n - 1, l = Len(c.path), NEW x \in 1 .. n,
         OffPath(c, l, x)
  PROVE  Remains(c, l, n, x)
<1> DEFINE A == 1 .. n - 1
           B == (1 .. n) \ {e}
<1>1. PICK f : f = c.others
  OBVIOUS
<1>2. /\ f \in [A -> 1 .. n]
      /\ \A i \in A : f[i] # e
      /\ \A i, k \in A : f[i] = f[k] => i = k
      /\ \A i \in 1 .. l - 1 : c.path[i + 1] = f[i]
      /\ c.path[1] = e
  <2>1. c.others \in [1 .. Len(c.others) -> 1 .. n]
    BY FunctionOfSeq DEF Shuffled
  <2> QED  BY <1>1, <2>1 DEF Shuffled
<1>3. IsFiniteSet(B) /\ Cardinality(B) = n - 1
  <2>1. IsFiniteSet(1 .. n) /\ Cardinality(1 .. n) = n
    BY FS_Interval
  <2> QED  BY <2>1, FS_RemoveElement
<1>4. Cardinality(A) = n - 1
  <2>1. 1 \in Int /\ n - 1 \in Int
    OBVIOUS
  <2>2. Cardinality(1 .. n - 1) = IF 1 > n - 1 THEN 0 ELSE (n - 1) - 1 + 1
    BY <2>1, FS_Interval
  <2> QED  BY <2>2
<1>5. x \in B
  <2>1. 1 \in 1 .. l
    OBVIOUS
  <2> QED  BY <1>2, <2>1 DEF OffPath
<1>6. f \in Injection(A, B)
  <2>1. f \in [A -> B]
    BY <1>2
  <2> HIDE DEF A, B
  <2> QED  BY <1>2, <2>1 DEF Injection, IsInjective
<1>7. f \in Surjection(A, B)
  <2> HIDE DEF A, B
  <2> QED  BY <1>3, <1>4, <1>6, FS_Injection
<1>8. PICK j \in A : f[j] = x
  <2> HIDE DEF A, B
  <2> QED  BY <1>5, <1>7 DEF Surjection
<1>9. ~(j < l)
  <2> SUFFICES ASSUME j < l PROVE FALSE
    OBVIOUS
  <2>1. j \in 1 .. l - 1 /\ j + 1 \in 1 .. l
    OBVIOUS
  <2> QED  BY <1>2, <1>8, <2>1 DEF OffPath
<1> QED  BY <1>1, <1>8, <1>9 DEF Remains

\* The words of k draws, as far as the shuffle minds.
Numbers(ws, k) == \A i \in 1 .. k : ws[i] \in Nat

LEMMA RunDrawn ==
  ASSUME NEW n \in Nat, NEW e \in 1 .. n, NEW c, Shuffled(c, e, n), Len(c.path) = 1,
         NEW k \in 0 .. n - 1, NEW ws, Numbers(ws, k),
         NEW run, Run(c, ws, k, run), NEW j \in 0 .. k
  PROVE  Shuffled(run[j], e, n) /\ Len(run[j].path) = j + 1
<1> DEFINE S == {i \in Nat : i <= k => Shuffled(run[i], e, n) /\ Len(run[i].path) = i + 1}
<1>1. 0 \in S
  BY DEF Run
<1>2. ASSUME NEW i \in Nat, i \in S PROVE i + 1 \in S
  <2> SUFFICES ASSUME i + 1 <= k
               PROVE  Shuffled(run[i + 1], e, n) /\ Len(run[i + 1].path) = (i + 1) + 1
    OBVIOUS
  <2>1. Shuffled(run[i], e, n) /\ Len(run[i].path) = i + 1 /\ i + 1 < n
    BY <1>2
  <2>2. i + 1 \in 1 .. k /\ (i + 1) - 1 = i
    OBVIOUS
  <2>3. run[i + 1] = Take(run[i], ws[i + 1]) /\ ws[i + 1] \in Nat
    BY <2>2 DEF Run, Numbers
  <2>4. PICK v \in Nat : v = ws[i + 1]
    BY <2>3
  <2>5. PICK d : d = run[i]
    OBVIOUS
  <2>6. Shuffled(d, e, n) /\ Len(d.path) < n /\ Len(d.path) = i + 1
    BY <2>1, <2>5
  <2>7. Shuffled(Take(d, v), e, n) /\ Len(Take(d, v).path) = Len(d.path) + 1
    BY <2>6, TakeDrawn
  <2> QED  BY <2>3, <2>4, <2>5, <2>6, <2>7
<1>3. Nat \subseteq S
  <2> HIDE DEF S
  <2> QED  BY <1>1, <1>2, Counting
<1>4. j \in Nat /\ j <= k
  OBVIOUS
<1> QED  BY <1>3, <1>4

LEMMA RunStep ==
  ASSUME NEW n \in Nat, NEW e \in 1 .. n, NEW c, Shuffled(c, e, n), Len(c.path) = 1,
         NEW k \in 0 .. n - 1, NEW ws, Numbers(ws, k),
         NEW run, Run(c, ws, k, run), NEW j \in 1 .. k
  PROVE  /\ run[j] = Take(run[j - 1], ws[j])
         /\ Spot(j, ws[j], n) \in j .. n - 1
         /\ Draws(run[j - 1], run[j], j, Spot(j, ws[j], n))
<1>1. PICK v \in Nat : v = ws[j]
  BY DEF Numbers
<1>2. PICK d : d = run[j - 1]
  OBVIOUS
<1>3. j - 1 \in 0 .. k /\ (j - 1) + 1 = j /\ j \in 1 .. n - 1
  OBVIOUS
<1>4. Shuffled(d, e, n) /\ j = Len(d.path)
  BY <1>2, <1>3, RunDrawn
<1>5. run[j] = Take(d, v)
  BY <1>1, <1>2 DEF Run
<1>6. Spot(j, v, n) \in j .. n - 1 /\ Draws(d, Take(d, v), j, Spot(j, v, n))
  BY <1>3, <1>4, TakePath
<1> QED  BY <1>1, <1>2, <1>5, <1>6

\* A node once drawn keeps its place.
LEMMA RunKeeps ==
  ASSUME NEW n \in Nat, NEW e \in 1 .. n, NEW c, Shuffled(c, e, n), Len(c.path) = 1,
         NEW k \in 0 .. n - 1, NEW ws, Numbers(ws, k),
         NEW run, Run(c, ws, k, run), NEW j \in 0 .. k, NEW i \in 1 .. j + 1
  PROVE  run[k].path[i] = run[j].path[i]
<1> DEFINE S == {m \in Nat : j + m <= k => run[j + m].path[i] = run[j].path[i]}
<1>1. 0 \in S
  <2>1. j + 0 = j
    OBVIOUS
  <2> QED  BY <2>1
<1>2. ASSUME NEW m \in Nat, m \in S PROVE m + 1 \in S
  <2> SUFFICES ASSUME j + (m + 1) <= k PROVE run[j + (m + 1)].path[i] = run[j].path[i]
    OBVIOUS
  <2>1. run[j + m].path[i] = run[j].path[i]
    BY <1>2
  <2>2. PICK l \in 1 .. k : l = j + (m + 1) /\ l - 1 = j + m /\ i \in 1 .. l
    OBVIOUS
  <2>3. Draws(run[l - 1], run[l], l, Spot(l, ws[l], n))
    BY RunStep
  <2> QED  BY <2>1, <2>2, <2>3 DEF Draws
<1>3. Nat \subseteq S
  <2> HIDE DEF S
  <2> QED  BY <1>1, <1>2, Counting
<1>4. k - j \in Nat /\ j + (k - j) = k
  OBVIOUS
<1> QED  BY <1>3, <1>4

\* The draws lead to an ordered path of different nodes that starts at e.
LEMMA RunPath ==
  ASSUME NEW n \in Nat, NEW e \in 1 .. n, NEW c, Shuffled(c, e, n), Len(c.path) = 1,
         NEW k \in 0 .. n - 1, NEW ws, Numbers(ws, k), NEW run, Run(c, ws, k, run)
  PROVE  /\ run[k].path \in [1 .. k + 1 -> 1 .. n]
         /\ IsInjective(run[k].path)
         /\ run[k].path[1] = e
<1>1. k \in 0 .. k
  OBVIOUS
<1>2. PICK d : d = run[k]
  OBVIOUS
<1>3. Shuffled(d, e, n) /\ Len(d.path) = k + 1
  BY <1>1, <1>2, RunDrawn
<1>4. d.path \in [1 .. Len(d.path) -> 1 .. n] /\ d.path[1] = e
  BY <1>3, FunctionOfSeq DEF Shuffled
<1>5. d.path \in [1 .. k + 1 -> 1 .. n]
  BY <1>3, <1>4
<1>6. ASSUME NEW i \in 1 .. Len(d.path), NEW j \in 1 .. Len(d.path), d.path[i] = d.path[j]
      PROVE  i = j
  BY <1>3, <1>6, DrawnOnce
<1>7. IsInjective(d.path)
  BY <1>4, <1>6 DEF IsInjective
<1> QED  BY <1>2, <1>4, <1>5, <1>7

\* Two draws from the same place are the same step.
LEMMA TakeSame ==
  ASSUME NEW n \in Nat, NEW e \in 1 .. n, NEW c, Shuffled(c, e, n),
         NEW l \in 1 .. n - 1, l = Len(c.path), NEW v, NEW w, v % (n - l) = w % (n - l)
  PROVE  Take(c, v) = Take(c, w)
<1>1. Bound(c) = n - l
  <2>1. Len(c.others) = n - 1
    BY DEF Shuffled
  <2>2. Bound(c) = (n - 1) - l + 1
    BY <2>1 DEF Bound
  <2> QED  BY <2>2
<1> QED  BY <1>1 DEF Take

SamePlaces(ws, us, k, n) == \A i \in 1 .. k : ws[i] % (n - i) = us[i] % (n - i)

\* Two sequences that lead to one path draw from the same places.
LEMMA RunOnce ==
  ASSUME NEW n \in Nat, NEW e \in 1 .. n, NEW c, Shuffled(c, e, n), Len(c.path) = 1,
         NEW k \in 0 .. n - 1,
         NEW ws, Numbers(ws, k), NEW run, Run(c, ws, k, run),
         NEW us, Numbers(us, k), NEW rum, Run(c, us, k, rum),
         run[k].path = rum[k].path
  PROVE  SamePlaces(ws, us, k, n)
<1> DEFINE S == {j \in Nat : j <= k => run[j] = rum[j] /\ SamePlaces(ws, us, j, n)}
<1>1. 0 \in S
  BY DEF Run, SamePlaces
<1>2. ASSUME NEW j \in Nat, j \in S PROVE j + 1 \in S
  <2> SUFFICES ASSUME j + 1 <= k
               PROVE  run[j + 1] = rum[j + 1] /\ SamePlaces(ws, us, j + 1, n)
    OBVIOUS
  <2>1. run[j] = rum[j] /\ SamePlaces(ws, us, j, n)
    BY <1>2
  <2>2. PICK l \in 1 .. k : l = j + 1 /\ l - 1 = j /\ l \in 0 .. k /\ l \in 1 .. n - 1
    OBVIOUS
  <2>3. /\ run[l] = Take(run[l - 1], ws[l]) /\ Spot(l, ws[l], n) \in l .. n - 1
        /\ Draws(run[l - 1], run[l], l, Spot(l, ws[l], n))
    BY RunStep
  <2>4. /\ rum[l] = Take(rum[l - 1], us[l]) /\ Spot(l, us[l], n) \in l .. n - 1
        /\ Draws(rum[l - 1], rum[l], l, Spot(l, us[l], n))
    BY RunStep
  <2>5. run[l].path[l + 1] = rum[l].path[l + 1]
    <3>1. PICK x \in 1 .. l + 1 : x = l + 1
      OBVIOUS
    <3>2. run[k].path[x] = run[l].path[x]
      BY <2>2, RunKeeps
    <3>3. rum[k].path[x] = rum[l].path[x]
      BY <2>2, RunKeeps
    <3> QED  BY <3>1, <3>2, <3>3
  <2>6. Shuffled(run[j], e, n) /\ Len(run[j].path) = l
    <3>1. j \in 0 .. k
      OBVIOUS
    <3> QED  BY <2>2, <3>1, RunDrawn
  <2>7. Spot(l, ws[l], n) = Spot(l, us[l], n)
    <3>1. \A i, m \in 1 .. n - 1 : run[j].others[i] = run[j].others[m] => i = m
      BY <2>6 DEF Shuffled
    <3>2. Spot(l, ws[l], n) \in 1 .. n - 1 /\ Spot(l, us[l], n) \in 1 .. n - 1
      BY <2>3, <2>4
    <3>3. run[j].others[Spot(l, ws[l], n)] = run[j].others[Spot(l, us[l], n)]
      BY <2>1, <2>2, <2>3, <2>4, <2>5 DEF Draws
    <3> QED  BY <3>1, <3>2, <3>3
  <2>8. ws[l] % (n - l) = us[l] % (n - l)
    <3>1. PICK m \in Nat : m = n - l /\ m > 0
      BY <2>2
    <3>2. ws[l] \in Nat /\ us[l] \in Nat
      BY DEF Numbers
    <3>3. PICK x \in Int, y \in Int : x = ws[l] % m /\ y = us[l] % m
      BY <3>1, <3>2, Remainder
    <3>4. l + x = l + y
      BY <2>7, <3>1, <3>3 DEF Spot
    <3>5. x = y
      BY <3>4
    <3> QED  BY <3>1, <3>3, <3>5
  <2>9. run[l] = rum[l]
    <3>1. PICK d : d = run[j]
      OBVIOUS
    <3>2. Shuffled(d, e, n) /\ l = Len(d.path)
      BY <2>6, <3>1
    <3>3. PICK m \in 1 .. n - 1 : m = l
      BY <2>2
    <3>4. Take(d, ws[l]) = Take(d, us[l])
      BY <2>8, <3>2, <3>3, TakeSame
    <3> QED  BY <2>1, <2>2, <2>3, <2>4, <3>1, <3>4
  <2>10. \A i \in 1 .. j + 1 : i \in 1 .. j \/ i = l
    BY <2>2
  <2>11. SamePlaces(ws, us, j + 1, n)
    BY <2>1, <2>8, <2>10 DEF SamePlaces
  <2> QED  BY <2>2, <2>9, <2>11
<1>3. k \in S
  <2>1. k \in Nat
    OBVIOUS
  <2> HIDE DEF S
  <2> QED  BY <1>1, <1>2, <2>1, Counting
<1> QED  BY <1>3

\* Draws from the same places take the shuffle through the same states.
LEMMA RunSame ==
  ASSUME NEW n \in Nat, NEW e \in 1 .. n, NEW c, Shuffled(c, e, n), Len(c.path) = 1,
         NEW k \in 0 .. n - 1, NEW ws, Numbers(ws, k), NEW run, Run(c, ws, k, run),
         NEW us, SamePlaces(ws, us, k, n)
  PROVE  Run(c, us, k, run)
<1>1. ASSUME NEW l \in 1 .. k PROVE run[l] = Take(run[l - 1], us[l])
  <2>1. PICK d : d = run[l - 1]
    OBVIOUS
  <2>2. l - 1 \in 0 .. k /\ (l - 1) + 1 = l /\ l \in 1 .. n - 1
    OBVIOUS
  <2>3. Shuffled(d, e, n) /\ l = Len(d.path)
    BY <2>1, <2>2, RunDrawn
  <2>4. ws[l] % (n - l) = us[l] % (n - l)
    BY DEF SamePlaces
  <2>5. Take(d, ws[l]) = Take(d, us[l])
    BY <2>2, <2>3, <2>4, TakeSame
  <2>6. run[l] = Take(run[l - 1], ws[l])
    BY DEF Run
  <2> QED  BY <2>1, <2>5, <2>6
<1> QED  BY <1>1 DEF Run

\* Draws for k steps among n - 1 others, and the ones that lead to a path.
Dice(js, k, n) ==
  js \in [1 .. k -> Nat] /\ \A i \in 1 .. k : js[i] \in 0 .. n - i - 1

LEMMA DiceNumbers ==
  ASSUME NEW k, NEW n, NEW js, Dice(js, k, n)
  PROVE  Numbers(js, k) /\ DOMAIN js = 1 .. k
  BY DEF Dice, Numbers

Follows(c, p, n, j) ==
  \E js, run : /\ Dice(js, j, n) /\ Run(c, js, j, run)
               /\ \A i \in 1 .. j + 1 : run[j].path[i] = p[i]

LEMMA FollowsStep ==
  ASSUME NEW n \in Nat, NEW e \in 1 .. n, NEW c, Shuffled(c, e, n), Len(c.path) = 1,
         NEW k \in 0 .. n - 1, NEW p \in [1 .. k + 1 -> 1 .. n], IsInjective(p),
         NEW j \in Nat, j + 1 <= k, Follows(c, p, n, j)
  PROVE  Follows(c, p, n, j + 1)
<1>1. PICK ws, run : /\ Dice(ws, j, n) /\ Run(c, ws, j, run)
                     /\ \A i \in 1 .. j + 1 : run[j].path[i] = p[i]
  BY DEF Follows
<1>2. PICK l \in 1 .. n - 1 : l = j + 1 /\ l \in 1 .. k /\ l - 1 = j
  OBVIOUS
<1>3. PICK d : d = run[j]
  OBVIOUS
<1>4. Shuffled(d, e, n) /\ l = Len(d.path)
  <2>1. j \in 0 .. n - 1 /\ j \in 0 .. j
    OBVIOUS
  <2> QED  BY <1>1, <1>2, <1>3, <2>1, DiceNumbers, RunDrawn
<1>5. PICK x \in 1 .. n : x = p[l + 1]
  <2>1. l + 1 \in 1 .. k + 1
    BY <1>2
  <2> QED  BY <2>1
<1>6. OffPath(d, l, x)
  <2> SUFFICES ASSUME NEW i \in 1 .. l PROVE d.path[i] # x
    BY DEF OffPath
  <2>1. d.path[i] = p[i]
    BY <1>1, <1>2, <1>3
  <2>2. i \in 1 .. k + 1 /\ l + 1 \in 1 .. k + 1 /\ i # l + 1
    BY <1>2
  <2> QED  BY <1>5, <2>1, <2>2 DEF IsInjective
<1>7. PICK s \in l .. n - 1 : d.others[s] = x
  <2>1. Remains(d, l, n, x)
    BY <1>4, <1>6, StillThere
  <2> QED  BY <2>1 DEF Remains
<1>8. PICK v \in 0 .. n - l - 1 : v = s - l
  OBVIOUS
<1>9. v \in Nat /\ Spot(l, v, n) = s
  <2>1. PICK m \in Nat : m = n - l /\ m > 0
    OBVIOUS
  <2>2. v \in 0 .. m - 1 /\ m \in Nat \ {0}
    BY <2>1
  <2>3. v % m = v
    BY <2>1, <2>2, SmallRemainder
  <2>4. l + v = s
    BY <1>8
  <2> QED  BY <2>1, <2>3, <2>4 DEF Spot
<1>10. Draws(d, Take(d, v), l, s)
  BY <1>4, <1>9, TakePath
<1> DEFINE us == [i \in 1 .. j + 1 |-> IF i = j + 1 THEN v ELSE ws[i]]
           rum == [i \in 0 .. j + 1 |-> IF i = j + 1 THEN Take(d, v) ELSE run[i]]
<1>11. /\ us[l] = v /\ \A i \in 1 .. j : us[i] = ws[i]
       /\ rum[l] = Take(d, v) /\ \A i \in 0 .. j : rum[i] = run[i]
       /\ DOMAIN us = 1 .. j + 1 /\ DOMAIN rum = 0 .. j + 1
       /\ us = [i \in 1 .. j + 1 |-> us[i]]
  BY <1>2
<1>12. \A i \in 1 .. j + 1 : i \in 1 .. j \/ i = l
  BY <1>2
<1> HIDE DEF us, rum
<1>13. Dice(us, j + 1, n)
  <2>1. \A i \in 1 .. j : us[i] \in Nat /\ us[i] \in 0 .. n - i - 1
    BY <1>1, <1>11 DEF Dice
  <2>2. us[l] \in Nat /\ us[l] \in 0 .. n - l - 1
    BY <1>9, <1>11
  <2>3. \A i \in 1 .. j + 1 : us[i] \in Nat /\ us[i] \in 0 .. n - i - 1
    BY <1>12, <2>1, <2>2
  <2> QED  BY <1>11, <2>3 DEF Dice
<1>14. Run(c, us, j + 1, rum)
  <2>1. rum[0] = c
    <3>1. 0 \in 0 .. j
      OBVIOUS
    <3> QED  BY <1>1, <1>11, <3>1 DEF Run
  <2>2. ASSUME NEW i \in 1 .. j PROVE rum[i] = Take(rum[i - 1], us[i])
    <3>1. i \in 0 .. j /\ i - 1 \in 0 .. j
      OBVIOUS
    <3> QED  BY <1>1, <1>11, <3>1 DEF Run
  <2>3. rum[l] = Take(rum[l - 1], us[l])
    <3>1. j \in 0 .. j
      OBVIOUS
    <3> QED  BY <1>2, <1>3, <1>11, <3>1
  <2> QED  BY <1>11, <1>12, <2>1, <2>2, <2>3 DEF Run
<1>15. \A i \in 1 .. (j + 1) + 1 : rum[j + 1].path[i] = p[i]
  <2>1. \A i \in 1 .. l : Take(d, v).path[i] = p[i]
    BY <1>1, <1>2, <1>3, <1>10 DEF Draws
  <2>2. Take(d, v).path[l + 1] = p[l + 1]
    BY <1>5, <1>7, <1>10 DEF Draws
  <2>3. \A i \in 1 .. (j + 1) + 1 : i \in 1 .. l \/ i = l + 1
    BY <1>2
  <2>4. rum[j + 1] = Take(d, v)
    BY <1>2, <1>11
  <2> QED  BY <2>1, <2>2, <2>3, <2>4
<1> QED  BY <1>13, <1>14, <1>15 DEF Follows

Reached(c, p, n, k) ==
  \E js, run : Dice(js, k, n) /\ Run(c, js, k, run) /\ run[k].path = p

\* Every ordered path of different nodes that starts at e is drawn.
LEMMA FollowsAll ==
  ASSUME NEW n \in Nat, NEW e \in 1 .. n, NEW c, Shuffled(c, e, n), Len(c.path) = 1,
         NEW k \in 0 .. n - 1, NEW p \in [1 .. k + 1 -> 1 .. n], IsInjective(p), p[1] = e
  PROVE  Reached(c, p, n, k)
<1> DEFINE S == {j \in Nat : j <= k => Follows(c, p, n, j)}
<1>1. 0 \in S
  <2> DEFINE ws == [i \in 1 .. 0 |-> 0]
             run == [i \in 0 .. 0 |-> c]
  <2>1. Dice(ws, 0, n) /\ Run(c, ws, 0, run)
    BY DEF Dice, Run
  <2>2. \A i \in 1 .. 0 + 1 : run[0].path[i] = p[i]
    <3>1. c.path[1] = e /\ \A i \in 1 .. 0 + 1 : i = 1
      BY DEF Shuffled
    <3> QED  BY <3>1
  <2> HIDE DEF ws, run
  <2>3. Follows(c, p, n, 0)
    BY <2>1, <2>2 DEF Follows
  <2> QED  BY <2>3
<1>2. ASSUME NEW j \in Nat, j \in S PROVE j + 1 \in S
  <2> SUFFICES ASSUME j + 1 <= k PROVE Follows(c, p, n, j + 1)
    OBVIOUS
  <2>1. Follows(c, p, n, j)
    BY <1>2
  <2> QED  BY <2>1, FollowsStep
<1>3. k \in S
  <2>1. k \in Nat
    OBVIOUS
  <2> HIDE DEF S
  <2> QED  BY <1>1, <1>2, <2>1, Counting
<1>4. PICK js, run : /\ Dice(js, k, n) /\ Run(c, js, k, run)
                     /\ \A i \in 1 .. k + 1 : run[k].path[i] = p[i]
  BY <1>3 DEF Follows
<1>5. run[k].path \in [1 .. k + 1 -> 1 .. n]
  BY <1>4, DiceNumbers, RunPath
<1>6. PICK q : q = run[k].path
  OBVIOUS
<1>7. q \in [1 .. k + 1 -> 1 .. n] /\ \A i \in 1 .. k + 1 : q[i] = p[i]
  BY <1>4, <1>5, <1>6
<1>8. q = p
  BY ONLY <1>7, p \in [1 .. k + 1 -> 1 .. n]
<1> QED  BY <1>4, <1>6, <1>8 DEF Reached

-----------------------------------------------------------------------------
(* The words below() can use: a place and a turn each. *)

LEMMA TwoBits == 2 ^ Bits \in Nat
<1>1. Bits \in Nat
  BY JobAssumption
<1>2. IsFiniteSet(1 .. Bits) /\ Cardinality(1 .. Bits) = Bits
  BY <1>1, FS_Interval
<1>3. IsFiniteSet(SUBSET (1 .. Bits)) /\ Cardinality(SUBSET (1 .. Bits)) = 2 ^ Bits
  BY <1>2, FS_SUBSET
<1> QED  BY <1>3, FS_CardinalityType

\* How often every place comes up, and which of these times a word is.
Turns(m) == (2 ^ Bits - Reject(m)) \div m
Turn(v, m) == (v - Reject(m)) \div m

LEMMA TurnsFill ==
  ASSUME NEW m \in Nat \ {0}
  PROVE  /\ Reject(m) \in 0 .. m - 1 /\ Turns(m) \in Nat
         /\ m * Turns(m) = 2 ^ Bits - Reject(m)
         /\ Turns(m) <= 2 ^ Bits
<1>1. PICK b \in Nat : b = 2 ^ Bits
  BY TwoBits
<1>2. PICK q \in Int, r \in 0 .. m - 1 : r = Reject(m) /\ b - m = m * q + r
  <2>1. b - m \in Int
    OBVIOUS
  <2> QED  BY <1>1, <2>1, DivMod DEF Reject
<1>3. m * (q + 1) = m * q + m /\ m * q \in Int
  OBVIOUS
<1>4. b - r = m * (q + 1) + 0
  <2>1. PICK x \in Int, y \in Int : x = m * q /\ y = m * (q + 1)
    BY <1>3
  <2>2. y = x + m /\ b - m = x + r
    BY ONLY <1>2, <1>3, <2>1
  <2> QED  BY ONLY <2>1, <2>2, b \in Nat, m \in Nat, r \in 0 .. m - 1
<1>5. Turns(m) = q + 1
  <2>1. b - r \in Int /\ q + 1 \in Int /\ 0 \in 0 .. m - 1
    OBVIOUS
  <2> QED  BY <1>1, <1>2, <1>4, <2>1, DivModIs DEF Turns
<1>6. q + 1 >= 0
  <2>1. q < -1 => m * q + m <= m * (-1)
    BY MoreTimes
  <2>2. m * (-1) = -m
    OBVIOUS
  <2>3. b - r > -m
    OBVIOUS
  <2> QED  BY <1>3, <1>4, <2>1, <2>2, <2>3
<1>7. q + 1 <= b
  <2>1. CASE q + 1 = 0
    BY <2>1
  <2>2. CASE q + 1 # 0
    <3>1. PICK k \in Nat, l \in Nat : k = q + 1 /\ m = l + 1
      <4>1. q + 1 \in Nat /\ m - 1 \in Nat /\ m = (m - 1) + 1
        BY <1>6
      <4> QED  BY <4>1
    <3>2. (l + 1) * k = l * k + k /\ l * k \in Nat
      OBVIOUS
    <3>3. m * (q + 1) = l * k + k
      BY <3>1, <3>2
    <3> QED  BY <1>4, <3>1, <3>2, <3>3
  <2> QED  BY <2>1, <2>2
<1> QED  BY <1>1, <1>2, <1>4, <1>5, <1>6, <1>7

LEMMA WordParts ==
  ASSUME NEW m \in Nat \ {0}, NEW v \in Words, Usable(v, m)
  PROVE  /\ v \in Nat /\ v % m \in 0 .. m - 1 /\ Turn(v, m) \in 0 .. Turns(m) - 1
         /\ v = Reject(m) + m * Turn(v, m) + ((v - Reject(m)) % m)
         /\ (v - Reject(m)) % m = IF v % m >= Reject(m) THEN (v % m) - Reject(m)
                                                      ELSE (v % m) - Reject(m) + m
<1>1. PICK b \in Nat : b = 2 ^ Bits
  BY TwoBits
<1>2. PICK k \in Nat, r \in 0 .. m - 1 :
        k = Turns(m) /\ r = Reject(m) /\ m * k = b - r
  BY <1>1, TurnsFill
<1>3. v \in 0 .. b - 1 /\ v >= r /\ v - r \in Int
  BY <1>1, <1>2 DEF Words, Usable
<1>4. PICK t \in Int, s \in 0 .. m - 1 : t = Turn(v, m) /\ s = (v - r) % m /\ v - r = m * t + s
  BY <1>2, <1>3, DivMod DEF Turn
<1>5. m * t \in Int
  OBVIOUS
<1>6. t >= 0
  <2>1. t < 0 => m * t + m <= m * 0
    BY MoreTimes
  <2>2. m * 0 = 0
    OBVIOUS
  <2> QED  BY <1>3, <1>4, <1>5, <2>1, <2>2
<1>7. t < k
  <2>1. k < t => m * k + m <= m * t
    BY MoreTimes
  <2>2. k = t => m * k = m * t
    OBVIOUS
  <2> QED  BY <1>2, <1>3, <1>4, <1>5, <2>1, <2>2
<1>8. v % m = IF r + s < m THEN r + s ELSE r + s - m
  <2>1. CASE r + s < m
    <3>1. v = m * t + (r + s) /\ r + s \in 0 .. m - 1
      BY <1>3, <1>4, <1>5, <2>1
    <3>2. PICK u \in 0 .. m - 1 : u = r + s
      BY <3>1
    <3>3. v = m * t + u /\ v \in Int
      BY <1>3, <3>1, <3>2
    <3>4. v % m = u
      BY <3>3, DivModIs
    <3> QED  BY <2>1, <3>2, <3>4
  <2>2. CASE ~(r + s < m)
    <3>1. m * (t + 1) = m * t + m
      OBVIOUS
    <3>2. PICK u \in 0 .. m - 1 : u = r + s - m
      BY <2>2
    <3>3. PICK x \in Int, y \in Int : x = m * t /\ y = m * (t + 1) /\ y = x + m
      BY <1>5, <3>1
    <3>4. v = y + u /\ v \in Int /\ t + 1 \in Int
      <4>1. v - r = x + s /\ y = x + m /\ u = r + s - m /\ v \in Int
        BY <1>3, <1>4, <3>2, <3>3
      <4>2. v = y + u
        BY ONLY <4>1, x \in Int, y \in Int, u \in Int, s \in Int, r \in Int, m \in Int
      <4> QED  BY <4>1, <4>2
    <3>5. v % m = u
      BY <3>3, <3>4, DivModIs
    <3> QED  BY <2>2, <3>2, <3>5
  <2> QED  BY <2>1, <2>2
<1>9. PICK p \in Int : p = v % m
  BY <1>8
<1>10. p \in 0 .. m - 1 /\ s = IF p >= r THEN p - r ELSE p - r + m
  BY <1>8, <1>9
<1>11. v = r + m * t + s
  BY <1>3, <1>4, <1>5
<1>12. t \in 0 .. k - 1
  BY <1>6, <1>7
<1>13. Reject(m) = r /\ Turns(m) = k /\ Turn(v, m) = t /\ v % m = p /\ (v - Reject(m)) % m = s
  BY <1>2, <1>4, <1>9
<1> QED  BY <1>3, <1>10, <1>11, <1>12, <1>13

\* A place and a turn are those of one word.
LEMMA WordOf ==
  ASSUME NEW m \in Nat \ {0}, NEW p \in 0 .. m - 1, NEW t \in 0 .. Turns(m) - 1
  PROVE  \E v \in Words : Usable(v, m) /\ v % m = p /\ Turn(v, m) = t
<1>1. PICK b \in Nat : b = 2 ^ Bits
  BY TwoBits
<1>2. PICK k \in Nat, r \in 0 .. m - 1 :
        k = Turns(m) /\ r = Reject(m) /\ m * k = b - r
  BY <1>1, TurnsFill
<1>3. t \in 0 .. k - 1
  BY <1>2
<1>4. PICK s \in 0 .. m - 1 : s = IF p >= r THEN p - r ELSE p - r + m
  <2>1. p >= r => p - r \in 0 .. m - 1
    OBVIOUS
  <2>2. ~(p >= r) => p - r + m \in 0 .. m - 1
    OBVIOUS
  <2> QED  BY <2>1, <2>2
<1>5. m * t \in Nat /\ m * t + m <= m * k
  <2>1. m * t \in Nat
    BY <1>3
  <2> QED  BY <1>3, <2>1, MoreTimes
<1>6. PICK v \in Nat : v = r + (m * t + s)
  BY <1>5
<1>7. v \in Words /\ Usable(v, m)
  BY <1>1, <1>2, <1>5, <1>6 DEF Words, Usable
<1>8. Turn(v, m) = t
  <2>1. v - r = m * t + s /\ v - r \in Int /\ t \in Int
    BY <1>3, <1>5, <1>6
  <2> QED  BY <1>2, <2>1, DivModIs DEF Turn
<1>9. v % m = p
  <2>1. CASE p >= r
    <3>1. v = m * t + p /\ t \in Int
      BY <1>3, <1>4, <1>5, <1>6, <2>1
    <3> QED  BY <3>1, DivModIs
  <2>2. CASE ~(p >= r)
    <3>1. m * (t + 1) = m * t + m
      BY <1>3
    <3>2. v = m * (t + 1) + p /\ t + 1 \in Int
      BY <1>3, <1>4, <1>5, <1>6, <2>2, <3>1
    <3> QED  BY <3>2, DivModIs
  <2> QED  BY <2>1, <2>2
<1> QED  BY <1>7, <1>8, <1>9

LEMMA WordOnce ==
  ASSUME NEW m \in Nat \ {0}, NEW v \in Words, NEW w \in Words,
         Usable(v, m), Usable(w, m), v % m = w % m, Turn(v, m) = Turn(w, m)
  PROVE  v = w
<1>1. /\ v = Reject(m) + m * Turn(v, m) + ((v - Reject(m)) % m)
      /\ (v - Reject(m)) % m = IF v % m >= Reject(m) THEN (v % m) - Reject(m)
                                                   ELSE (v % m) - Reject(m) + m
  BY WordParts
<1>2. /\ w = Reject(m) + m * Turn(w, m) + ((w - Reject(m)) % m)
      /\ (w - Reject(m)) % m = IF w % m >= Reject(m) THEN (w % m) - Reject(m)
                                                   ELSE (w % m) - Reject(m) + m
  BY WordParts
<1>3. (v - Reject(m)) % m = (w - Reject(m)) % m
  <2>1. PICK a, d, r, p : /\ a = (v - Reject(m)) % m /\ d = (w - Reject(m)) % m
                          /\ r = Reject(m) /\ p = v % m
    OBVIOUS
  <2>2. /\ a = IF p >= r THEN p - r ELSE p - r + m
        /\ d = IF p >= r THEN p - r ELSE p - r + m
    BY <1>1, <1>2, <2>1
  <2> QED  BY <2>1, <2>2
<1> QED  BY ONLY <1>1, <1>2, <1>3, Turn(v, m) = Turn(w, m), Zenon

\* "Every ordered path is equally likely": the entry.
LEMMA EntryUniform ==
  ASSUME NEW n \in Nat \ {0}, NEW e \in 0 .. n - 1
  PROVE  LET used == {v \in Words : Usable(v, n)}
         IN  n * Cardinality({v \in used : v % n = e}) = Cardinality(used)
<1> DEFINE U == {v \in Words : Usable(v, n)}
           P == 0 .. n - 1
           T == 0 .. Turns(n) - 1
           f == [v \in U |-> v % n]
           g == [v \in U |-> Turn(v, n)]
<1>1. Turns(n) \in Nat
  BY TurnsFill
<1>2. IsFiniteSet(P) /\ Cardinality(P) = n /\ IsFiniteSet(T)
  <2>1. 0 \in Int /\ n - 1 \in Int /\ Turns(n) - 1 \in Int
    BY <1>1
  <2>2. IsFiniteSet(P) /\ IsFiniteSet(T)
    BY <2>1, FS_Interval
  <2>3. Cardinality(0 .. n - 1) = IF 0 > n - 1 THEN 0 ELSE (n - 1) - 0 + 1
    BY <2>1, FS_Interval
  <2> QED  BY <2>2, <2>3
<1>3. f \in [U -> P] /\ g \in [U -> T]
  <2>1. \A v \in U : v % n \in P /\ Turn(v, n) \in T
    BY WordParts
  <2> QED  BY <2>1
<1>4. \A p \in P : \A t \in T : \E u \in U : f[u] = p /\ g[u] = t
  <2> SUFFICES ASSUME NEW p \in P, NEW t \in T PROVE \E u \in U : f[u] = p /\ g[u] = t
    OBVIOUS
  <2>1. PICK v \in Words : Usable(v, n) /\ v % n = p /\ Turn(v, n) = t
    BY WordOf
  <2> QED  BY <2>1
<1>5. ASSUME NEW u \in U, NEW w \in U, f[u] = f[w], g[u] = g[w] PROVE u = w
  <2>1. u % n = w % n /\ Turn(u, n) = Turn(w, n)
    BY <1>5
  <2> QED  BY <2>1, WordOnce
<1>6. \A u, w \in U : f[u] = f[w] /\ g[u] = g[w] => u = w
  BY <1>5
<1>7. {u \in U : f[u] = e} = {v \in U : v % n = e}
  OBVIOUS
<1>8. Cardinality(P) * Cardinality({u \in U : f[u] = e}) = Cardinality(U)
  <2>1. e \in P
    OBVIOUS
  <2> HIDE DEF U, P, T, f, g
  <2>2. Covers(U, P, T, f, g)
    BY <1>3, <1>4, <1>6 DEF Covers
  <2> QED  BY <1>2, <2>1, <2>2, EachAsOften
<1> QED  BY <1>2, <1>7, <1>8

\* Words that below() takes for k draws among n - 1 others.
Wording(ws, k, n) ==
  ws \in [1 .. k -> Words] /\ \A i \in 1 .. k : Usable(ws[i], n - i)

LEMMA WordNat ==
  ASSUME NEW v \in Words
  PROVE  v \in Nat
  BY TwoBits DEF Words

LEMMA WordingNat ==
  ASSUME NEW k, NEW n, NEW ws, Wording(ws, k, n), NEW i \in 1 .. k
  PROVE  ws[i] \in Nat /\ ws[i] \in Words /\ Usable(ws[i], n - i)
  BY WordNat DEF Wording

LEMMA WordingNumbers ==
  ASSUME NEW k, NEW n, NEW ws, Wording(ws, k, n)
  PROVE  Numbers(ws, k) /\ DOMAIN ws = 1 .. k
  BY WordNat DEF Wording, Numbers

InTurns(ts, k, n) == \A i \in 1 .. k : ts[i] \in 0 .. Turns(n - i) - 1

Worded(js, ts, k, n) ==
  \E ws : /\ Wording(ws, k, n) /\ SamePlaces(js, ws, k, n)
          /\ \A i \in 1 .. k : Turn(ws[i], n - i) = ts[i]

\* Draws and turns are those of one sequence of words.
LEMMA WordsOf ==
  ASSUME NEW n \in Nat, NEW k \in 0 .. n - 1, NEW js, Dice(js, k, n),
         NEW ts, InTurns(ts, k, n)
  PROVE  Worded(js, ts, k, n)
<1> DEFINE ws == [i \in 1 .. k |-> CHOOSE v \in Words : /\ Usable(v, n - i)
                                                        /\ v % (n - i) = js[i]
                                                        /\ Turn(v, n - i) = ts[i]]
<1>1. ASSUME NEW i \in 1 .. k
      PROVE  /\ ws[i] \in Words /\ Usable(ws[i], n - i)
             /\ js[i] % (n - i) = ws[i] % (n - i)
             /\ Turn(ws[i], n - i) = ts[i]
  <2>1. PICK m \in Nat \ {0} : m = n - i
    OBVIOUS
  <2>2. PICK p \in 0 .. m - 1 : p = js[i]
    BY <2>1 DEF Dice
  <2>3. PICK t \in 0 .. Turns(m) - 1 : t = ts[i]
    BY <2>1 DEF InTurns
  <2>4. \E v \in Words : Usable(v, m) /\ v % m = p /\ Turn(v, m) = t
    BY WordOf
  <2>5. \E v \in Words : Usable(v, n - i) /\ v % (n - i) = js[i] /\ Turn(v, n - i) = ts[i]
    BY <2>1, <2>2, <2>3, <2>4
  <2>6. /\ ws[i] \in Words /\ Usable(ws[i], n - i)
        /\ ws[i] % (n - i) = js[i] /\ Turn(ws[i], n - i) = ts[i]
    BY Zenon, <2>5
  <2>7. js[i] % (n - i) = js[i]
    BY <2>1, <2>2, SmallRemainder
  <2> QED  BY <2>6, <2>7
<1>2. ws = [i \in 1 .. k |-> ws[i]]
  OBVIOUS
<1> HIDE DEF ws
<1> QED  BY <1>1, <1>2 DEF Wording, SamePlaces, Worded

\* "Every ordered path is equally likely": the hops after the entry.
LEMMA RestUniform ==
  ASSUME NEW n \in Nat, NEW e \in 1 .. n, NEW c, Shuffled(c, e, n), Len(c.path) = 1,
         NEW h \in 1 .. n
  PROVE  LET more  == h - 1
             used  == {ws \in [1 .. more -> Words] :
                         \A i \in 1 .. more : Usable(ws[i], Bound(c) - i + 1)}
             ends  == [ws \in used |-> FoldLeft(Take, c, ws).path]
             paths == {p \in [1 .. h -> 1 .. Len(c.others) + 1] :
                         IsInjective(p) /\ p[1] = c.path[1]}
         IN  \A p \in paths :
               Cardinality(paths) * Cardinality({ws \in used : ends[ws] = p})
                 = Cardinality(used)
<1>1. PICK k \in 0 .. n - 1 : k = h - 1 /\ h = k + 1
  OBVIOUS
<1> DEFINE U == {ws \in [1 .. h - 1 -> Words] :
                   \A i \in 1 .. h - 1 : Usable(ws[i], Bound(c) - i + 1)}
           f == [ws \in U |-> FoldLeft(Take, c, ws).path]
           P == {p \in [1 .. h -> 1 .. Len(c.others) + 1] :
                   IsInjective(p) /\ p[1] = c.path[1]}
           T == {ts \in [1 .. k -> Words] : \A i \in 1 .. k : ts[i] \in 0 .. Turns(n - i) - 1}
           g == [ws \in U |-> [i \in 1 .. k |-> Turn(ws[i], n - i)]]
<1>2. Len(c.others) + 1 = n /\ c.path[1] = e /\ Bound(c) = n - 1
  <2>1. Len(c.others) = n - 1 /\ c.path[1] = e
    BY DEF Shuffled
  <2> QED  BY <2>1 DEF Bound
<1>3. \A ws : ws \in U <=> Wording(ws, k, n)
  <2>1. \A i \in 1 .. k : Bound(c) - i + 1 = n - i
    BY <1>2
  <2> QED  BY <1>1, <2>1 DEF Wording
<1>4. \A p : p \in P <=> p \in [1 .. k + 1 -> 1 .. n] /\ IsInjective(p) /\ p[1] = e
  BY <1>1, <1>2
<1>5. IsFiniteSet(Words) /\ IsFiniteSet(1 .. k) /\ IsFiniteSet(1 .. h) /\ IsFiniteSet(1 .. n)
  <2>1. /\ 0 \in Int /\ 1 \in Int /\ 2 ^ Bits - 1 \in Int
        /\ k \in Int /\ h \in Int /\ n \in Int
    BY TwoBits
  <2> QED  BY <2>1, FS_Interval DEF Words
<1>6. IsFiniteSet(P)
  <2>1. IsFiniteSet([1 .. k + 1 -> 1 .. n])
    BY <1>1, <1>5, FunctionsFinite
  <2>2. P \subseteq [1 .. k + 1 -> 1 .. n]
    BY <1>4
  <2> HIDE DEF P
  <2> QED  BY <2>1, <2>2, FS_Subset
<1>7. IsFiniteSet(T)
  <2>1. IsFiniteSet([1 .. k -> Words])
    BY <1>5, FunctionsFinite
  <2>2. T \subseteq [1 .. k -> Words]
    OBVIOUS
  <2> HIDE DEF T
  <2> QED  BY <2>1, <2>2, FS_Subset
<1>8. ASSUME NEW ws \in U
      PROVE  \E run : Run(c, ws, k, run) /\ f[ws] = run[k].path
  <2>1. k \in Nat /\ DOMAIN ws = 1 .. k
    BY <1>3 DEF Wording
  <2>2. PICK run : Run(c, ws, k, run)
    BY <2>1, RunExists
  <2>3. FoldLeft(Take, c, ws) = run[k]
    BY <2>1, <2>2, FoldRun
  <2>4. f[ws] = FoldLeft(Take, c, ws).path
    OBVIOUS
  <2> HIDE DEF f
  <2> QED  BY <2>2, <2>3, <2>4
<1>9. ASSUME NEW ws \in U, NEW i \in 1 .. k
      PROVE  g[ws][i] = Turn(ws[i], n - i)
  OBVIOUS
<1>10. f \in [U -> P]
  <2>1. ASSUME NEW ws \in U PROVE f[ws] \in P
    <3>1. PICK run : Run(c, ws, k, run) /\ f[ws] = run[k].path
      BY <1>8
    <3>2. Numbers(ws, k)
      BY <1>3, WordingNumbers
    <3>3. /\ run[k].path \in [1 .. k + 1 -> 1 .. n]
          /\ IsInjective(run[k].path) /\ run[k].path[1] = e
      BY <3>1, <3>2, RunPath
    <3> HIDE DEF f, P
    <3> QED  BY <1>4, <3>1, <3>3
  <2>2. f = [ws \in U |-> f[ws]]
    OBVIOUS
  <2> HIDE DEF f, P, U
  <2> QED  BY <2>1, <2>2
<1>11. ASSUME NEW i \in 1 .. k, NEW t \in 0 .. Turns(n - i) - 1
       PROVE  t \in Words
  <2>1. PICK m \in Nat \ {0} : m = n - i
    OBVIOUS
  <2>2. Turns(m) \in Nat /\ Turns(m) <= 2 ^ Bits
    BY TurnsFill
  <2> QED  BY <2>1, <2>2, TwoBits DEF Words
<1>12. g \in [U -> T]
  <2>1. ASSUME NEW ws \in U PROVE g[ws] \in T
    <3>1. ASSUME NEW i \in 1 .. k PROVE Turn(ws[i], n - i) \in 0 .. Turns(n - i) - 1
      <4>1. PICK m \in Nat \ {0} : m = n - i
        OBVIOUS
      <4>2. ws[i] \in Words /\ Usable(ws[i], m)
        BY <1>3, <4>1 DEF Wording
      <4>3. Turn(ws[i], m) \in 0 .. Turns(m) - 1
        BY <4>2, WordParts
      <4> QED  BY <4>1, <4>3
    <3>2. \A i \in 1 .. k : g[ws][i] \in 0 .. Turns(n - i) - 1 /\ g[ws][i] \in Words
      BY <1>9, <1>11, <3>1
    <3>3. g[ws] = [i \in 1 .. k |-> g[ws][i]]
      OBVIOUS
    <3> HIDE DEF g
    <3> QED  BY <3>2, <3>3
  <2>2. g = [ws \in U |-> g[ws]]
    OBVIOUS
  <2> HIDE DEF g, T, U
  <2> QED  BY <2>1, <2>2
<1>13. ASSUME NEW p \in P, NEW ts \in T PROVE \E ws \in U : f[ws] = p /\ g[ws] = ts
  <2>1. p \in [1 .. k + 1 -> 1 .. n] /\ IsInjective(p) /\ p[1] = e
    BY <1>4
  <2>2. InTurns(ts, k, n)
    BY DEF InTurns
  <2>3. ts = [i \in 1 .. k |-> ts[i]]
    OBVIOUS
  <2>4. PICK js, run : Dice(js, k, n) /\ Run(c, js, k, run) /\ run[k].path = p
    <3>1. Reached(c, p, n, k)
      BY <2>1, FollowsAll
    <3> QED  BY <3>1 DEF Reached
  <2>5. PICK ws : /\ Wording(ws, k, n) /\ SamePlaces(js, ws, k, n)
                  /\ \A i \in 1 .. k : Turn(ws[i], n - i) = ts[i]
    <3>1. Worded(js, ts, k, n)
      BY <2>2, <2>4, WordsOf
    <3> QED  BY <3>1 DEF Worded
  <2>6. ws \in U
    BY <1>3, <2>5
  <2>7. Run(c, ws, k, run)
    BY <2>4, <2>5, DiceNumbers, RunSame
  <2>8. f[ws] = p
    <3>1. k \in Nat /\ DOMAIN ws = 1 .. k
      BY <2>5 DEF Wording
    <3>2. FoldLeft(Take, c, ws) = run[k]
      BY <2>7, <3>1, FoldRun
    <3>3. f[ws] = FoldLeft(Take, c, ws).path
      BY <2>6
    <3> HIDE DEF f
    <3> QED  BY <2>4, <3>2, <3>3
  <2>9. g[ws] = ts
    <3>1. g[ws] = [i \in 1 .. k |-> Turn(ws[i], n - i)]
      BY <2>6
    <3> QED  BY <2>3, <2>5, <3>1
  <2> QED  BY <2>6, <2>8, <2>9
<1>14. ASSUME NEW ws \in U, NEW us \in U, f[ws] = f[us], g[ws] = g[us] PROVE ws = us
  <2>1. PICK run : Run(c, ws, k, run) /\ f[ws] = run[k].path
    BY <1>8
  <2>2. PICK rum : Run(c, us, k, rum) /\ f[us] = rum[k].path
    BY <1>8
  <2>3. Wording(ws, k, n) /\ Wording(us, k, n)
    BY <1>3
  <2>4. SamePlaces(ws, us, k, n)
    <3>1. run[k].path = rum[k].path
      BY <1>14, <2>1, <2>2
    <3>2. Numbers(ws, k) /\ Numbers(us, k)
      BY <2>3, WordingNumbers
    <3> QED  BY <2>1, <2>2, <3>1, <3>2, RunOnce
  <2>5. ASSUME NEW i \in 1 .. k PROVE ws[i] = us[i]
    <3>1. PICK m \in Nat \ {0} : m = n - i
      OBVIOUS
    <3>2. /\ ws[i] \in Words /\ us[i] \in Words /\ Usable(ws[i], m) /\ Usable(us[i], m)
      BY <2>3, <3>1, WordingNat
    <3>3. ws[i] % m = us[i] % m
      BY <2>4, <3>1 DEF SamePlaces
    <3>4. Turn(ws[i], m) = Turn(us[i], m)
      BY <1>9, <1>14, <3>1
    <3> QED  BY <3>2, <3>3, <3>4, WordOnce
  <2> QED  BY <2>3, <2>5 DEF Wording
<1>15. Covers(U, P, T, f, g)
  <2> HIDE DEF U, P, T, f, g
  <2> QED  BY <1>10, <1>12, <1>13, <1>14 DEF Covers
<1>16. ASSUME NEW p \in P
       PROVE  Cardinality(P) * Cardinality({ws \in U : f[ws] = p}) = Cardinality(U)
  <2> HIDE DEF U, P, T, f, g
  <2> QED  BY <1>6, <1>7, <1>15, EachAsOften
<1> QED  BY Zenon, <1>16

LEMMA PathsUniform ==
  ASSUME PathInv
  PROVE  UniformPaths
<1>1. job \in Jobs
  BY DEF PathInv, Settled
<1>2. ASSUME stage = "entry"
      PROVE  LET used == {v \in Words : Usable(v, N)}
             IN  \A e \in 0 .. N - 1 :
                   N * Cardinality({v \in used : v % N = e}) = Cardinality(used)
  <2>1. N \in Nat \ {0}
    BY <1>1, <1>2, ListType DEF PathInv, Settled, ListGood
  <2>2. PICK n \in Nat \ {0} : n = N
    BY <2>1
  <2> QED  BY Zenon, <2>2, EntryUniform
<1>3. ASSUME stage = "rest", Len(chosen.path) = 1
      PROVE  LET more  == job.hops - 1
                 used  == {ws \in [1 .. more -> Words] :
                             \A i \in 1 .. more : Usable(ws[i], Bound(chosen) - i + 1)}
                 ends  == [ws \in used |-> FoldLeft(Take, chosen, ws).path]
                 paths == {p \in [1 .. job.hops -> 1 .. Len(chosen.others) + 1] :
                             IsInjective(p) /\ p[1] = chosen.path[1]}
             IN  \A p \in paths :
                   Cardinality(paths) * Cardinality({ws \in used : ends[ws] = p})
                     = Cardinality(used)
  <2>1. /\ ListGood /\ Enough /\ entry \in 1 .. N /\ (job.fixed => entry = 1)
        /\ job.hops <= Len(Held(Served)) /\ Shuffled(chosen, EntryPlace, Len(Held(Served)))
    BY <1>3 DEF PathInv, Settled, Pathed, Fetched, Resolved
  <2>2. Served[entry] /\ Served \in [1 .. N -> BOOLEAN] /\ N \in Nat
    BY <1>1, <2>1, EnoughServed, ListType
  <2>3. Len(Held(Served)) \in Nat /\ EntryPlace \in 1 .. Len(Held(Served))
    BY <2>1, <2>2, HeldPlaces DEF EntryPlace
  <2>4. PICK n \in Nat : n = Len(Held(Served))
    BY <2>3
  <2>5. PICK e \in 1 .. n : e = EntryPlace
    BY <2>3, <2>4
  <2>6. job.hops \in Int /\ job.hops >= 1
    BY <1>1, <2>1, ListType DEF ListGood
  <2>7. job.hops \in 1 .. n
    BY <2>1, <2>4, <2>6
  <2>8. Shuffled(chosen, e, n)
    BY <2>1, <2>4, <2>5
  <2> QED  BY Zenon, <1>3, <2>7, <2>8, RestUniform
<1> QED  BY Zenon, <1>2, <1>3 DEF UniformPaths

\* "Every ordered path is equally likely when rnd is uniform" (Choose), for a word
\* of any width, a list of any length and any number of hops: what below() throws
\* away leaves every entry as many words as any other, and the shuffle gives every
\* ordered choice of the other hops as many sequences of words as any other.
THEOREM PathUniformPaths == ChoiceSpec => []UniformPaths
<1>1. PathInv => UniformPaths
  BY PathsUniform
<1> QED  BY <1>1, PathInvariant, PTL

-----------------------------------------------------------------------------
(* Falling factorials. *)

\* The function that Falling chooses.
Fallen(m, k, f) ==
  f = [i \in 0 .. k |-> IF i = 0 THEN 1 ELSE f[i - 1] * (m - i + 1)]

\* Every table of falling products can be written down.
LEMMA FallenExists ==
  ASSUME NEW m \in Int, NEW n \in Nat
  PROVE  \E f : Fallen(m, n, f)
<1> DEFINE S == {k \in Nat : \E f : Fallen(m, k, f)}
<1>1. 0 \in S
  <2> DEFINE f == [i \in 0 .. 0 |-> 1]
  <2>1. f = [i \in 0 .. 0 |-> IF i = 0 THEN 1 ELSE f[i - 1] * (m - i + 1)]
    OBVIOUS
  <2> QED  BY <2>1 DEF Fallen
<1>2. ASSUME NEW k \in Nat, k \in S PROVE k + 1 \in S
  <2>1. PICK f : Fallen(m, k, f)
    BY <1>2
  <2>2. /\ DOMAIN f = 0 .. k /\ f[0] = 1
        /\ \A i \in 0 .. k : f[i] = IF i = 0 THEN 1 ELSE f[i - 1] * (m - i + 1)
    BY <2>1 DEF Fallen
  <2> DEFINE g == [i \in 0 .. k + 1 |-> IF i = k + 1 THEN f[k] * (m - (k + 1) + 1) ELSE f[i]]
  <2>3. DOMAIN g = 0 .. k + 1 /\ g[k + 1] = f[k] * (m - (k + 1) + 1)
    OBVIOUS
  <2>4. \A i \in 0 .. k : g[i] = f[i]
    OBVIOUS
  <2>5. g = [i \in 0 .. k + 1 |-> g[i]]
    OBVIOUS
  <2> HIDE DEF g
  <2>6. ASSUME NEW i \in 0 .. k + 1
        PROVE  g[i] = IF i = 0 THEN 1 ELSE g[i - 1] * (m - i + 1)
    <3>1. CASE i = k + 1
      <4>1. i # 0 /\ i - 1 = k /\ k \in 0 .. k
        BY <3>1
      <4>2. g[i - 1] = f[k]
        BY <2>4, <4>1
      <4> QED  BY <2>3, <3>1, <4>1, <4>2
    <3>2. CASE i = 0
      BY <2>2, <2>4, <3>2
    <3>3. CASE i # 0 /\ i # k + 1
      <4>1. i \in 0 .. k /\ i - 1 \in 0 .. k
        BY <3>3
      <4>2. g[i] = f[i] /\ g[i - 1] = f[i - 1]
        BY <2>4, <4>1
      <4> QED  BY <2>2, <3>3, <4>1, <4>2
    <3> QED  BY <3>1, <3>2, <3>3
  <2>7. g = [i \in 0 .. k + 1 |-> IF i = 0 THEN 1 ELSE g[i - 1] * (m - i + 1)]
    BY Zenon, <2>5, <2>6
  <2>8. Fallen(m, k + 1, g)
    BY <2>7 DEF Fallen
  <2> QED  BY <2>8
<1>3. Nat \subseteq S
  <2> HIDE DEF S
  <2> QED  BY <1>1, <1>2, Counting
<1> QED  BY <1>3

\* Falling is the last value of such a table.
LEMMA FallingIs ==
  ASSUME NEW m \in Int, NEW k \in Nat
  PROVE  \E f : Fallen(m, k, f) /\ Falling(m, k) = f[k]
<1> DEFINE f == CHOOSE g : g = [i \in 0 .. k |-> IF i = 0 THEN 1 ELSE g[i - 1] * (m - i + 1)]
<1>1. \E g : Fallen(m, k, g)
  BY FallenExists
<1>2. Fallen(m, k, f)
  BY Zenon, <1>1 DEF Fallen
<1>3. Falling(m, k) = f[k]
  BY Zenon DEF Falling
<1> HIDE DEF f
<1> QED  BY <1>2, <1>3

\* Two tables agree as far as both go.
LEMMA FallenOnce ==
  ASSUME NEW m \in Int, NEW k \in Nat, NEW l \in Nat, NEW f, Fallen(m, k, f),
         NEW g, Fallen(m, l, g), NEW j \in Nat, j <= k, j <= l
  PROVE  f[j] = g[j] /\ f[j] \in Int
<1>1. /\ \A i \in 0 .. k : f[i] = IF i = 0 THEN 1 ELSE f[i - 1] * (m - i + 1)
      /\ \A i \in 0 .. l : g[i] = IF i = 0 THEN 1 ELSE g[i - 1] * (m - i + 1)
  BY DEF Fallen
<1> DEFINE S == {i \in Nat : i <= k /\ i <= l => f[i] = g[i] /\ f[i] \in Int}
<1>2. 0 \in S
  BY <1>1
<1>3. ASSUME NEW i \in Nat, i \in S PROVE i + 1 \in S
  <2> SUFFICES ASSUME i + 1 <= k, i + 1 <= l PROVE f[i + 1] = g[i + 1] /\ f[i + 1] \in Int
    OBVIOUS
  <2>1. f[i] = g[i] /\ f[i] \in Int
    BY <1>3
  <2>2. PICK x \in Int : x = f[i]
    BY <2>1
  <2>3. i + 1 \in 0 .. k /\ i + 1 \in 0 .. l /\ i + 1 # 0 /\ (i + 1) - 1 = i
    OBVIOUS
  <2>4. f[i + 1] = f[i] * (m - (i + 1) + 1) /\ g[i + 1] = g[i] * (m - (i + 1) + 1)
    BY <1>1, <2>3
  <2>5. x * (m - (i + 1) + 1) \in Int
    OBVIOUS
  <2> QED  BY <2>1, <2>2, <2>4, <2>5
<1>4. Nat \subseteq S
  <2> HIDE DEF S
  <2> QED  BY <1>2, <1>3, Counting
<1> QED  BY <1>4

LEMMA FallingInt ==
  ASSUME NEW m \in Int, NEW k \in Nat
  PROVE  Falling(m, k) \in Int
<1>1. PICK f : Fallen(m, k, f) /\ Falling(m, k) = f[k]
  BY FallingIs
<1> QED  BY <1>1, FallenOnce

LEMMA FallingZero ==
  ASSUME NEW m \in Int
  PROVE  Falling(m, 0) = 1
<1>1. PICK f : Fallen(m, 0, f) /\ Falling(m, 0) = f[0]
  BY FallingIs
<1> QED  BY <1>1 DEF Fallen

\* One more factor at the end.
LEMMA FallingStep ==
  ASSUME NEW m \in Int, NEW k \in Nat
  PROVE  Falling(m, k + 1) = Falling(m, k) * (m - k)
<1>1. PICK f : Fallen(m, k, f) /\ Falling(m, k) = f[k]
  BY FallingIs
<1>2. PICK g : Fallen(m, k + 1, g) /\ Falling(m, k + 1) = g[k + 1]
  BY FallingIs
<1>3. k + 1 \in 0 .. k + 1 /\ k + 1 # 0 /\ (k + 1) - 1 = k /\ m - (k + 1) + 1 = m - k
  OBVIOUS
<1>4. g[k + 1] = g[k] * (m - k)
  BY <1>2, <1>3 DEF Fallen
<1>5. f[k] = g[k]
  BY <1>1, <1>2, FallenOnce
<1> QED  BY <1>1, <1>2, <1>4, <1>5

\* The first factor taken out.
LEMMA FallingFront ==
  ASSUME NEW m \in Int, NEW k \in Nat
  PROVE  Falling(m, k + 1) = m * Falling(m - 1, k)
<1> DEFINE S == {i \in Nat : Falling(m, i + 1) = m * Falling(m - 1, i)}
<1>1. 0 \in S
  <2>1. Falling(m, 0) = 1 /\ Falling(m - 1, 0) = 1 /\ Falling(m, 0 + 1) = Falling(m, 0) * (m - 0)
    BY FallingZero, FallingStep
  <2> QED  BY <2>1
<1>2. ASSUME NEW i \in Nat, i \in S PROVE i + 1 \in S
  <2>1. PICK x \in Int : x = Falling(m - 1, i)
    BY FallingInt
  <2>2. Falling(m, i + 1) = m * x
    BY <1>2, <2>1
  <2>3. Falling(m, (i + 1) + 1) = Falling(m, i + 1) * (m - (i + 1))
    BY FallingStep
  <2>4. Falling(m - 1, i + 1) = x * ((m - 1) - i)
    BY <2>1, FallingStep
  <2>5. (m * x) * (m - (i + 1)) = m * (x * ((m - 1) - i))
    OBVIOUS
  <2> QED  BY <2>2, <2>3, <2>4, <2>5
<1>3. Nat \subseteq S
  <2> HIDE DEF S
  <2> QED  BY <1>1, <1>2, Counting
<1> QED  BY <1>3

\* With no more factors than m, none of them is 0.
LEMMA FallingPositive ==
  ASSUME NEW m \in Nat, NEW k \in 0 .. m
  PROVE  Falling(m, k) \in Nat \ {0}
<1> DEFINE S == {i \in Nat : i <= m => Falling(m, i) \in Nat \ {0}}
<1>1. 0 \in S
  BY FallingZero
<1>2. ASSUME NEW i \in Nat, i \in S PROVE i + 1 \in S
  <2> SUFFICES ASSUME i + 1 <= m PROVE Falling(m, i + 1) \in Nat \ {0}
    OBVIOUS
  <2>1. PICK x \in Nat \ {0} : x = Falling(m, i)
    BY <1>2
  <2>2. PICK y \in Nat \ {0} : y = m - i
    OBVIOUS
  <2>3. Falling(m, i + 1) = x * y
    BY <2>1, <2>2, FallingStep
  <2>4. x * y \in Nat \ {0}
    OBVIOUS
  <2> QED  BY <2>3, <2>4
<1>3. Nat \subseteq S
  <2> HIDE DEF S
  <2> QED  BY <1>1, <1>2, Counting
<1> QED  BY <1>3

\* The number of chains from one entry divides Unit.
Divides(x, y) == \E q \in Nat : y = q * x

\* Unit is a multiple of the number of chains from any entry.
LEMMA FallingDivides ==
  ASSUME NEW m \in Nat, NEW n \in Nat, m <= n, NEW k \in 0 .. m
  PROVE  Divides(Falling(m, k), Falling(n, n))
<1>1. Divides(Falling(m, k), Falling(m, m))
  <2> DEFINE S == {i \in Nat : k + i <= m => Divides(Falling(m, k), Falling(m, k + i))}
  <2>1. PICK x \in Nat : x = Falling(m, k)
    BY FallingPositive
  <2>2. 0 \in S
    <3>1. k + 0 = k /\ x = 1 * x
      OBVIOUS
    <3> QED  BY <2>1, <3>1 DEF Divides
  <2>3. ASSUME NEW i \in Nat, i \in S PROVE i + 1 \in S
    <3> SUFFICES ASSUME k + (i + 1) <= m PROVE Divides(Falling(m, k), Falling(m, k + (i + 1)))
      OBVIOUS
    <3>1. PICK q \in Nat : Falling(m, k + i) = q * x
      BY <2>1, <2>3 DEF Divides
    <3>2. PICK y \in Nat : y = m - (k + i)
      OBVIOUS
    <3>3. k + (i + 1) = (k + i) + 1 /\ k + i \in Nat
      OBVIOUS
    <3>4. Falling(m, k + (i + 1)) = (q * x) * y
      BY <3>1, <3>2, <3>3, FallingStep
    <3>5. (q * x) * y = (q * y) * x /\ q * y \in Nat
      OBVIOUS
    <3> QED  BY <2>1, <3>4, <3>5 DEF Divides
  <2>4. Nat \subseteq S
    <3> HIDE DEF S
    <3> QED  BY <2>2, <2>3, Counting
  <2>5. m - k \in Nat /\ k + (m - k) = m
    OBVIOUS
  <2> QED  BY <2>4, <2>5
<1>2. Divides(Falling(m, k), Falling(n, n))
  <2> DEFINE S == {i \in Nat : Divides(Falling(m, k), Falling(m + i, m + i))}
  <2>1. PICK x \in Nat : x = Falling(m, k)
    BY FallingPositive
  <2>2. 0 \in S
    <3>1. m + 0 = m
      OBVIOUS
    <3> QED  BY <1>1, <3>1
  <2>3. ASSUME NEW i \in Nat, i \in S PROVE i + 1 \in S
    <3>1. PICK q \in Nat : Falling(m + i, m + i) = q * x
      BY <2>1, <2>3 DEF Divides
    <3>2. PICK y \in Nat : y = m + (i + 1) /\ y = (m + i) + 1 /\ y - 1 = m + i
      OBVIOUS
    <3>3. Falling(y, (m + i) + 1) = y * Falling(y - 1, m + i)
      BY FallingFront
    <3>4. Falling(m + (i + 1), m + (i + 1)) = y * (q * x)
      BY <3>1, <3>2, <3>3
    <3>5. y * (q * x) = (y * q) * x /\ y * q \in Nat
      OBVIOUS
    <3> QED  BY <2>1, <3>4, <3>5 DEF Divides
  <2>4. Nat \subseteq S
    <3> HIDE DEF S
    <3> QED  BY <2>2, <2>3, Counting
  <2>5. n - m \in Nat /\ m + (n - m) = n
    OBVIOUS
  <2> QED  BY <2>4, <2>5
<1> QED  BY <1>2

-----------------------------------------------------------------------------
(* Chains from a node, counted by the next one. *)

\* f leads from U into C, c times to each member.
Evenly(U, C, f, c) ==
  /\ f \in [U -> C]
  /\ \A y \in C : /\ IsFiniteSet({u \in U : f[u] = y})
                  /\ Cardinality({u \in U : f[u] = y}) = c

\* As many members as there are values times the members with each.
LEMMA EvenCount ==
  ASSUME NEW U, NEW C, IsFiniteSet(C), NEW f, NEW c \in Nat, Evenly(U, C, f, c)
  PROVE  Cardinality(U) = Cardinality(C) * c
<1>1. CASE C = {}
  <2>1. U = {}
    BY <1>1 DEF Evenly
  <2> QED  BY <1>1, <2>1, FS_EmptySet
<1>2. CASE C # {}
  <2> DEFINE Fibre(y) == {u \in U : f[u] = y}
             num == [y \in C |-> CHOOSE b : b \in Bijection(Fibre(y), 1 .. c)]
             g == [u \in U |-> num[f[u]][u]]
  <2>1. ASSUME NEW y \in C PROVE num[y] \in Bijection(Fibre(y), 1 .. c)
    <3>1. ExistsBijection(1 .. c, Fibre(y))
      BY FS_CardinalityType DEF Evenly
    <3>2. ExistsBijection(Fibre(y), 1 .. c)
      BY <3>1, Fun_ExistsBijSymmetric
    <3>3. \E b : b \in Bijection(Fibre(y), 1 .. c)
      BY <3>2 DEF ExistsBijection
    <3>4. num[y] = CHOOSE b : b \in Bijection(Fibre(y), 1 .. c)
      OBVIOUS
    <3> HIDE DEF Fibre, num
    <3> QED  BY Zenon, <3>3, <3>4
  <2>2. ASSUME NEW u \in U PROVE f[u] \in C /\ u \in Fibre(f[u]) /\ g[u] = num[f[u]][u]
    BY DEF Evenly
  <2>3. g = [u \in U |-> g[u]]
    OBVIOUS
  <2> HIDE DEF num, g
  <2>4. Covers(U, C, 1 .. c, f, g)
    <3>1. f \in [U -> C]
      BY DEF Evenly
    <3>2. g \in [U -> 1 .. c]
      <4>1. ASSUME NEW u \in U PROVE g[u] \in 1 .. c
        <5>1. num[f[u]] \in [Fibre(f[u]) -> 1 .. c]
          BY <2>1, <2>2 DEF Bijection, Injection
        <5> HIDE DEF Fibre
        <5> QED  BY <2>2, <5>1
      <4> QED  BY <2>3, <4>1
    <3>3. ASSUME NEW y \in C, NEW t \in 1 .. c PROVE \E u \in U : f[u] = y /\ g[u] = t
      <4>1. num[y] \in Surjection(Fibre(y), 1 .. c)
        BY <2>1 DEF Bijection
      <4>2. PICK u \in Fibre(y) : num[y][u] = t
        <5> HIDE DEF Fibre
        <5> QED  BY <4>1 DEF Surjection
      <4>3. u \in U /\ f[u] = y
        OBVIOUS
      <4> QED  BY <2>2, <4>2, <4>3
    <3>4. ASSUME NEW u \in U, NEW v \in U, f[u] = f[v], g[u] = g[v] PROVE u = v
      <4>1. num[f[u]] \in Injection(Fibre(f[u]), 1 .. c)
        BY <2>1, <2>2 DEF Bijection
      <4>2. u \in Fibre(f[u]) /\ v \in Fibre(f[u]) /\ num[f[u]][u] = num[f[u]][v]
        BY <2>2, <3>4
      <4> HIDE DEF Fibre
      <4> QED  BY <4>1, <4>2 DEF Injection, IsInjective
    <3> QED  BY <3>1, <3>2, <3>3, <3>4 DEF Covers
  <2>5. PICK y \in C : TRUE
    BY <1>2
  <2>6. IsFiniteSet(1 .. c)
    BY FS_Interval
  <2>7. Cardinality(C) * Cardinality({u \in U : f[u] = y}) = Cardinality(U)
    BY <2>4, <2>6, EachAsOften
  <2> QED  BY <2>7 DEF Evenly
<1> QED  BY <1>1, <1>2

\* The chains of d more nodes, all different and from S, after x.
Tours(x, S, d) ==
  {p \in [1 .. d + 1 -> S \cup {x}] : IsInjective(p) /\ p[1] = x}

LEMMA ToursFinite ==
  ASSUME NEW S, IsFiniteSet(S), NEW x, NEW d \in Nat
  PROVE  IsFiniteSet(Tours(x, S, d))
<1>1. IsFiniteSet(S \cup {x}) /\ IsFiniteSet(1 .. d + 1)
  <2>1. 1 \in Int /\ d + 1 \in Int
    OBVIOUS
  <2>2. IsFiniteSet(1 .. d + 1)
    BY <2>1, FS_Interval
  <2>3. IsFiniteSet(S \cup {x})
    BY FS_AddElement
  <2> QED  BY <2>2, <2>3
<1>2. IsFiniteSet([1 .. d + 1 -> S \cup {x}])
  BY <1>1, FunctionsFinite
<1> QED  BY <1>2, FS_Subset DEF Tours

LEMMA TourIs ==
  ASSUME NEW S, NEW x, NEW d \in Nat, NEW p \in Tours(x, S, d)
  PROVE  /\ p \in [1 .. d + 1 -> S \cup {x}] /\ p[1] = x
         /\ \A i, j \in 1 .. d + 1 : p[i] = p[j] => i = j
         /\ Len(p) = d + 1
<1>1. p \in [1 .. d + 1 -> S \cup {x}] /\ p[1] = x
  BY DEF Tours
<1>2. \A i, j \in 1 .. d + 1 : p[i] = p[j] => i = j
  BY DEF Tours, IsInjective
<1>3. Len(p) = d + 1
  BY <1>1, SeqOfFunction
<1> QED  BY <1>1, <1>2, <1>3

\* The chain after its first node, and a chain with a node before it.
Rest(p, d) == [i \in 1 .. d + 1 |-> p[i + 1]]
Lead(x, q, d) == [i \in 1 .. d + 2 |-> IF i = 1 THEN x ELSE q[i - 1]]

\* A tour of more than one node is its first node and a tour of the rest.
LEMMA RestTour ==
  ASSUME NEW S, NEW x, x \notin S, NEW d \in Nat, NEW e, e = d + 1,
         NEW p \in Tours(x, S, e)
  PROVE  /\ p[2] \in S /\ Rest(p, d) \in Tours(p[2], S \ {p[2]}, d)
         /\ Lead(x, Rest(p, d), d) = p
<1> DEFINE q == Rest(p, d)
<1>0. PICK y : y = p[2]
  OBVIOUS
<1>1. p \in [1 .. d + 2 -> S \cup {x}] /\ p[1] = x /\ \A i, j \in 1 .. d + 2 : p[i] = p[j] => i = j
  <2>1. (d + 1) + 1 = d + 2 /\ d + 1 \in Nat
    OBVIOUS
  <2> QED  BY <2>1, TourIs
<1>2. \A i \in 1 .. d + 1 : q[i] = p[i + 1] /\ i + 1 \in 1 .. d + 2 /\ i + 1 # 1
  BY DEF Rest
<1>3. DOMAIN q = 1 .. d + 1 /\ q = [i \in 1 .. d + 1 |-> q[i]]
  BY DEF Rest
<1> HIDE DEF q
<1>4. 1 \in 1 .. d + 1 /\ 1 + 1 = 2 /\ 1 \in 1 .. d + 2
  OBVIOUS
<1>5. q[1] = y
  BY <1>0, <1>2, <1>4
<1>6. ASSUME NEW i \in 1 .. d + 1 PROVE q[i] \in S /\ (q[i] = y => i = 1)
  <2>1. p[i + 1] \in S \cup {x} /\ p[i + 1] # p[1] /\ (p[i + 1] = p[1 + 1] => i + 1 = 1 + 1)
    BY <1>1, <1>2, <1>4
  <2> QED  BY <1>0, <1>1, <1>2, <1>4, <2>1
<1>7. y \in S
  BY <1>4, <1>5, <1>6
<1>8. q \in [1 .. d + 1 -> (S \ {y}) \cup {y}]
  BY <1>3, <1>6
<1>9. ASSUME NEW i \in 1 .. d + 1, NEW j \in 1 .. d + 1, q[i] = q[j] PROVE i = j
  <2>1. i + 1 = j + 1
    BY <1>1, <1>2, <1>9
  <2> QED  BY <2>1
<1>10. q \in Tours(y, S \ {y}, d)
  <2>1. IsInjective(q)
    BY <1>3, <1>9 DEF IsInjective
  <2> QED  BY <1>5, <1>8, <2>1 DEF Tours
<1>11. p = Lead(x, q, d)
  <2>1. ASSUME NEW i \in 1 .. d + 2 PROVE p[i] = IF i = 1 THEN x ELSE q[i - 1]
    <3>1. CASE i = 1
      BY <1>1, <3>1
    <3>2. CASE i # 1
      <4>1. i - 1 \in 1 .. d + 1 /\ (i - 1) + 1 = i
        BY <3>2
      <4> QED  BY <1>2, <3>2, <4>1
    <3> QED  BY <3>1, <3>2
  <2>2. p = [i \in 1 .. d + 2 |-> p[i]]
    BY <1>1
  <2> QED  BY Zenon, <2>1, <2>2 DEF Lead
<1> QED  BY <1>0, <1>7, <1>10, <1>11 DEF q

\* And a tour of the rest, with a first node, is a tour.
LEMMA LeadTour ==
  ASSUME NEW S, NEW x, x \notin S, NEW d \in Nat, NEW y \in S, NEW q \in Tours(y, S \ {y}, d)
  PROVE  /\ Lead(x, q, d) \in Tours(x, S, d + 1) /\ Lead(x, q, d)[2] = y
         /\ Rest(Lead(x, q, d), d) = q
<1> DEFINE p == Lead(x, q, d)
<1>1. /\ q \in [1 .. d + 1 -> (S \ {y}) \cup {y}] /\ q[1] = y
      /\ \A i, j \in 1 .. d + 1 : q[i] = q[j] => i = j
  BY TourIs
<1>2. DOMAIN p = 1 .. d + 2 /\ p[1] = x /\ p = [i \in 1 .. d + 2 |-> p[i]]
  BY DEF Lead
<1>3. \A i \in 1 .. d + 2 : i # 1 => p[i] = q[i - 1] /\ i - 1 \in 1 .. d + 1 /\ p[i] \in S
  <2> SUFFICES ASSUME NEW i \in 1 .. d + 2, i # 1
               PROVE  p[i] = q[i - 1] /\ i - 1 \in 1 .. d + 1 /\ p[i] \in S
    OBVIOUS
  <2>1. p[i] = q[i - 1]
    BY DEF Lead
  <2>2. i - 1 \in 1 .. d + 1
    OBVIOUS
  <2>3. q[i - 1] \in S
    BY <1>1, <2>2
  <2> QED  BY <2>1, <2>2, <2>3
<1> HIDE DEF p
<1>4. p \in [1 .. d + 2 -> S \cup {x}]
  BY <1>2, <1>3
<1>5. ASSUME NEW i \in 1 .. d + 2, NEW j \in 1 .. d + 2, p[i] = p[j] PROVE i = j
  <2>1. CASE i = 1 \/ j = 1
    BY <1>2, <1>3, <1>5, <2>1
  <2>2. CASE i # 1 /\ j # 1
    <3>1. i - 1 = j - 1
      BY <1>1, <1>3, <1>5, <2>2
    <3> QED  BY <3>1
  <2> QED  BY <2>1, <2>2
<1>6. p \in Tours(x, S, d + 1)
  <2>1. (d + 1) + 1 = d + 2
    OBVIOUS
  <2>2. IsInjective(p)
    BY <1>2, <1>5 DEF IsInjective
  <2> QED  BY <1>2, <1>4, <2>1, <2>2 DEF Tours
<1>7. p[2] = y
  <2>1. 2 \in 1 .. d + 2 /\ 2 # 1 /\ 2 - 1 = 1
    OBVIOUS
  <2> QED  BY <1>1, <1>3, <2>1
<1>8. Rest(p, d) = q
  <2>1. ASSUME NEW i \in 1 .. d + 1 PROVE p[i + 1] = q[i]
    <3>1. i + 1 \in 1 .. d + 2 /\ i + 1 # 1 /\ (i + 1) - 1 = i
      OBVIOUS
    <3> QED  BY <1>3, <3>1
  <2>2. q = [i \in 1 .. d + 1 |-> q[i]]
    BY <1>1
  <2> QED  BY Zenon, <2>1, <2>2 DEF Rest
<1> QED  BY <1>6, <1>7, <1>8 DEF p

\* The chains that are counted: all of them, those that come up, and of those
\* the ones with a rogue exit.
Wanted(kind, p) ==
  kind = "all" \/ (ComesUp(p) /\ (kind = "exit" => Rogue(p[Len(p)])))

\* The tours that are counted: all, those that come up, or those of them with a rogue exit.
Counted(kind, x, S, d) == {p \in Tours(x, S, d) : Wanted(kind, p)}

\* Whether a chain comes up depends on its first step and on the rest.
LEMMA WantedRest ==
  ASSUME NEW S, NEW x, x \notin S, NEW d \in Nat, NEW e, e = d + 1,
         NEW p \in Tours(x, S, e), NEW kind
  PROVE  Wanted(kind, p) <=> (kind = "all" \/ Extends(x, p[2])) /\ Wanted(kind, Rest(p, d))
<1>1. PICK y : y = p[2]
  OBVIOUS
<1>2. PICK q : q = Rest(p, d)
  OBVIOUS
<1>3. q \in Tours(y, S \ {y}, d)
  BY <1>1, <1>2, RestTour
<1>4. Len(p) = d + 2 /\ p[1] = x /\ Len(q) = d + 1
  <2>1. d + 1 \in Nat /\ (d + 1) + 1 = d + 2
    OBVIOUS
  <2> QED  BY <1>3, <2>1, TourIs
<1>5. \A i \in 1 .. d + 1 : q[i] = p[i + 1]
  BY <1>2 DEF Rest
<1>6. p[Len(p)] = q[Len(q)]
  <2>1. d + 1 \in 1 .. d + 1 /\ (d + 1) + 1 = d + 2
    OBVIOUS
  <2> QED  BY <1>4, <1>5, <2>1
<1>7. ComesUp(p) => Extends(x, y) /\ ComesUp(q)
  <2> SUFFICES ASSUME ComesUp(p) PROVE Extends(x, y) /\ ComesUp(q)
    OBVIOUS
  <2>1. \A i \in 2 .. d + 2 : Extends(p[i - 1], p[i])
    BY <1>4 DEF ComesUp
  <2>2. 2 \in 2 .. d + 2 /\ 2 - 1 = 1
    OBVIOUS
  <2>3. Extends(x, y)
    BY <1>1, <1>4, <2>1, <2>2
  <2>4. ASSUME NEW i \in 2 .. d + 1 PROVE Extends(q[i - 1], q[i])
    <3>1. i + 1 \in 2 .. d + 2 /\ i - 1 \in 1 .. d + 1 /\ i \in 1 .. d + 1
          /\ (i - 1) + 1 = i /\ (i + 1) - 1 = i
      OBVIOUS
    <3>2. q[i - 1] = p[i] /\ q[i] = p[i + 1]
      BY <1>5, <3>1
    <3> QED  BY <2>1, <3>1, <3>2
  <2> QED  BY <1>4, <2>3, <2>4 DEF ComesUp
<1>8. Extends(x, y) /\ ComesUp(q) => ComesUp(p)
  <2> SUFFICES ASSUME Extends(x, y), ComesUp(q) PROVE ComesUp(p)
    OBVIOUS
  <2>1. \A i \in 2 .. d + 1 : Extends(q[i - 1], q[i])
    BY <1>4 DEF ComesUp
  <2>2. ASSUME NEW i \in 2 .. d + 2 PROVE Extends(p[i - 1], p[i])
    <3>1. CASE i = 2
      <4>1. i - 1 = 1
        BY <3>1
      <4> QED  BY <1>1, <1>4, <3>1, <4>1
    <3>2. CASE i # 2
      <4>1. PICK j \in 2 .. d + 1 : j = i - 1 /\ j + 1 = i /\ j - 1 \in 1 .. d + 1
                                    /\ (j - 1) + 1 = j /\ j \in 1 .. d + 1
        BY <3>2
      <4>2. q[j - 1] = p[j] /\ q[j] = p[i]
        BY <1>5, <4>1
      <4> QED  BY <2>1, <4>1, <4>2
    <3> QED  BY <3>1, <3>2
  <2> QED  BY <1>4, <2>2 DEF ComesUp
<1> QED  BY <1>1, <1>2, <1>6, <1>7, <1>8 DEF Wanted

LEMMA CountedFinite ==
  ASSUME NEW S, IsFiniteSet(S), NEW x, NEW d \in Nat, NEW kind
  PROVE  IsFiniteSet(Counted(kind, x, S, d)) /\ Cardinality(Counted(kind, x, S, d)) \in Nat
<1>1. IsFiniteSet(Tours(x, S, d))
  BY ToursFinite
<1>2. Counted(kind, x, S, d) \subseteq Tours(x, S, d)
  BY DEF Counted
<1> QED  BY <1>1, <1>2, FS_Subset, FS_CardinalityType

\* The chains counted that go on with y.
Via(kind, x, S, d, y) == {p \in Counted(kind, x, S, d) : p[2] = y}

\* No chain comes up through a node that the first does not extend to.
LEMMA ViaNone ==
  ASSUME NEW S, NEW x, x \notin S, NEW d \in Nat, NEW y, NEW kind,
         kind # "all", ~Extends(x, y)
  PROVE  Via(kind, x, S, d + 1, y) = {}
<1>0. PICK e : e = d + 1
  OBVIOUS
<1> SUFFICES ASSUME NEW p \in Counted(kind, x, S, e), p[2] = y PROVE FALSE
  BY <1>0 DEF Via
<1>1. p \in Tours(x, S, e) /\ Wanted(kind, p)
  BY DEF Counted
<1>2. Wanted(kind, p) <=> (kind = "all" \/ Extends(x, p[2])) /\ Wanted(kind, Rest(p, d))
  BY ONLY <1>0, <1>1, x \notin S, d \in Nat, WantedRest
<1> QED  BY <1>1, <1>2

\* The chains through y are those that start at y among the nodes left.
LEMMA ViaCount ==
  ASSUME NEW S, IsFiniteSet(S), NEW x, x \notin S, NEW d \in Nat, NEW y \in S, NEW kind,
         kind = "all" \/ Extends(x, y)
  PROVE  /\ IsFiniteSet(Via(kind, x, S, d + 1, y))
         /\ Cardinality(Via(kind, x, S, d + 1, y)) = Cardinality(Counted(kind, y, S \ {y}, d))
<1>0. PICK e : e = d + 1
  OBVIOUS
<1> DEFINE A == Via(kind, x, S, e, y)
           B == Counted(kind, y, S \ {y}, d)
           f == [p \in A |-> Rest(p, d)]
<1>1. ASSUME NEW p \in A
      PROVE  f[p] = Rest(p, d) /\ Rest(p, d) \in B /\ Lead(x, Rest(p, d), d) = p
  <2>1. p \in Tours(x, S, e) /\ Wanted(kind, p) /\ p[2] = y
    BY DEF Via, Counted
  <2>2. Rest(p, d) \in Tours(y, S \ {y}, d) /\ Lead(x, Rest(p, d), d) = p
    <3>1. /\ p[2] \in S /\ Rest(p, d) \in Tours(p[2], S \ {p[2]}, d)
          /\ Lead(x, Rest(p, d), d) = p
      BY <1>0, <2>1, RestTour
    <3> QED  BY <2>1, <3>1
  <2>3. Wanted(kind, Rest(p, d))
    BY <1>0, <2>1, WantedRest
  <2> QED  BY <2>2, <2>3 DEF Counted
<1>2. ASSUME NEW q \in B PROVE Lead(x, q, d) \in A /\ Rest(Lead(x, q, d), d) = q
  <2>1. q \in Tours(y, S \ {y}, d) /\ Wanted(kind, q)
    BY DEF Counted
  <2>2. /\ Lead(x, q, d) \in Tours(x, S, e) /\ Lead(x, q, d)[2] = y
        /\ Rest(Lead(x, q, d), d) = q
    BY <1>0, <2>1, LeadTour
  <2>3. Wanted(kind, Lead(x, q, d))
    BY <1>0, <2>1, <2>2, WantedRest
  <2> QED  BY <2>2, <2>3 DEF Via, Counted
<1>3. f \in [A -> B]
  BY <1>1
<1> HIDE DEF f, A, B
<1>4. f \in Bijection(A, B)
  <2>1. ASSUME NEW p \in A, NEW q \in A, f[p] = f[q] PROVE p = q
    <3>1. Rest(p, d) = Rest(q, d)
      BY <1>1, <2>1
    <3> QED  BY <1>1, <3>1
  <2>2. ASSUME NEW q \in B PROVE \E p \in A : f[p] = q
    BY <1>1, <1>2
  <2> QED  BY <1>3, <2>1, <2>2 DEF Bijection, Injection, IsInjective, Surjection
<1>5. IsFiniteSet(B)
  <2>1. IsFiniteSet(S \ {y})
    BY FS_RemoveElement
  <2> QED  BY <2>1, CountedFinite DEF B
<1>6. ExistsBijection(B, A)
  BY <1>4, Fun_ExistsBijSymmetric DEF ExistsBijection
<1>7. IsFiniteSet(A) /\ Cardinality(A) = Cardinality(B)
  BY <1>5, <1>6, FS_Bijection
<1> QED  BY <1>0, <1>7 DEF A, B

\* The chains counted that go on with a member of C, each of which counts c.
Among(kind, x, S, d, C) == {p \in Counted(kind, x, S, d) : p[2] \in C}

LEMMA AmongCount ==
  ASSUME NEW S, IsFiniteSet(S), NEW x, x \notin S, NEW d \in Nat, NEW C \in SUBSET S, NEW kind,
         NEW c \in Nat,
         \A y \in C : /\ kind = "all" \/ Extends(x, y)
                      /\ Cardinality(Counted(kind, y, S \ {y}, d)) = c
  PROVE  Cardinality(Among(kind, x, S, d + 1, C)) = Cardinality(C) * c
<1> DEFINE U == Among(kind, x, S, d + 1, C)
           f == [p \in U |-> p[2]]
<1>1. f \in [U -> C]
  BY DEF Among
<1>2. IsFiniteSet(C)
  BY FS_Subset
<1>3. ASSUME NEW y \in C PROVE {p \in U : f[p] = y} = Via(kind, x, S, d + 1, y)
  BY DEF Among, Via
<1> HIDE DEF f, U
<1>4. ASSUME NEW y \in C
      PROVE  /\ IsFiniteSet({p \in U : f[p] = y})
             /\ Cardinality({p \in U : f[p] = y}) = c
  <2>1. /\ IsFiniteSet(Via(kind, x, S, d + 1, y))
        /\ Cardinality(Via(kind, x, S, d + 1, y)) = Cardinality(Counted(kind, y, S \ {y}, d))
    BY ViaCount
  <2> QED  BY <1>3, <2>1
<1>5. Evenly(U, C, f, c)
  BY <1>1, <1>4 DEF Evenly
<1>6. Cardinality(U) = Cardinality(C) * c
  BY <1>2, <1>5, EvenCount
<1> QED  BY <1>6 DEF U

-----------------------------------------------------------------------------
(* The chains counted by what is left to draw. *)

\* The arguments that the laboratory accepts, with their types.
Planned ==
  /\ plan.nodes \in Nat \ {0} /\ plan.hops \in 1 .. plan.nodes
  /\ plan.rogue \in 0 .. plan.nodes /\ plan.missing \in Nat
  /\ plan.leftOut \in 0 .. Honest /\ plan.withheld \in 0 .. plan.rogue

LEMMA PlanTypes ==
  ASSUME Planned
  PROVE  /\ plan.nodes \in Nat /\ plan.nodes > 0 /\ plan.hops \in Nat /\ plan.hops > 0
         /\ plan.hops <= plan.nodes
         /\ plan.rogue \in Nat /\ plan.rogue <= plan.nodes /\ plan.missing \in Nat
         /\ plan.leftOut \in Nat /\ plan.leftOut <= plan.nodes - plan.rogue
         /\ plan.withheld \in Nat /\ plan.withheld <= plan.rogue
         /\ Honest \in Nat /\ Honest = plan.nodes - plan.rogue
  BY DEF Planned, Honest

\* Only an honest node does not extend, and only to a withholding one.
LEMMA ExtendsIs ==
  ASSUME Planned, NEW x \in 1 .. plan.nodes, NEW y \in 1 .. plan.nodes
  PROVE  Extends(x, y) <=> x <= plan.rogue \/ y > plan.withheld
<1>1. CASE x <= plan.rogue
  BY <1>1 DEF Extends
<1>2. CASE ~(x <= plan.rogue)
  <2>1. MirrorOf(x) = [i \in 1 .. plan.nodes |-> i > plan.withheld]
    BY <1>2 DEF MirrorOf
  <2>2. MirrorOf(x)[y] = (y > plan.withheld)
    BY <2>1
  <2> QED  BY <1>2, <2>2 DEF Extends
<1> QED  BY <1>1, <1>2

\* The honest, the withholding and the other rogue nodes of S.
Trusty(S) == {y \in S : y > plan.rogue}
Silent(S) == {y \in S : y <= plan.withheld}
Partner(S) == {y \in S : y > plan.withheld /\ y <= plan.rogue}

\* What is left to draw when S is, after x.
Kinds(S, x) ==
  Left(Cardinality(Trusty(S)), Cardinality(Silent(S)), Cardinality(Partner(S)),
       IF x > plan.rogue THEN TRUE ELSE FALSE)

\* What is left once one of a kind is drawn.
LessHonest(u) == Left(u.honest - 1, u.withholding, u.others, TRUE)
LessWithholding(u) == Left(u.honest, u.withholding - 1, u.others, FALSE)
LessOthers(u) == Left(u.honest, u.withholding, u.others - 1, FALSE)

LEMMA LeftParts ==
  ASSUME NEW h, NEW w, NEW o, NEW a
  PROVE  /\ Left(h, w, o, a).honest = h /\ Left(h, w, o, a).withholding = w
         /\ Left(h, w, o, a).others = o /\ Left(h, w, o, a).after = a
  BY DEF Left

LEMMA KindsParts ==
  ASSUME NEW S, NEW x
  PROVE  /\ Kinds(S, x).honest = Cardinality(Trusty(S))
         /\ Kinds(S, x).withholding = Cardinality(Silent(S))
         /\ Kinds(S, x).others = Cardinality(Partner(S))
         /\ Kinds(S, x).after \in BOOLEAN
         /\ x > plan.rogue => Kinds(S, x).after = TRUE
         /\ ~(x > plan.rogue) => Kinds(S, x).after = FALSE
<1>1. CASE x > plan.rogue
  <2>1. Kinds(S, x) = Left(Cardinality(Trusty(S)), Cardinality(Silent(S)),
                           Cardinality(Partner(S)), TRUE)
    BY <1>1 DEF Kinds
  <2>2. /\ Kinds(S, x).honest = Cardinality(Trusty(S))
        /\ Kinds(S, x).withholding = Cardinality(Silent(S))
        /\ Kinds(S, x).others = Cardinality(Partner(S))
        /\ Kinds(S, x).after = TRUE
    BY <2>1 DEF Left
  <2> QED  BY <1>1, <2>2
<1>2. CASE ~(x > plan.rogue)
  <2>1. Kinds(S, x) = Left(Cardinality(Trusty(S)), Cardinality(Silent(S)),
                           Cardinality(Partner(S)), FALSE)
    BY <1>2 DEF Kinds
  <2>2. /\ Kinds(S, x).honest = Cardinality(Trusty(S))
        /\ Kinds(S, x).withholding = Cardinality(Silent(S))
        /\ Kinds(S, x).others = Cardinality(Partner(S))
        /\ Kinds(S, x).after = FALSE
    BY <2>1 DEF Left
  <2> QED  BY <1>2, <2>2
<1> QED  BY <1>1, <1>2

LEMMA OneLess ==
  ASSUME NEW A, IsFiniteSet(A), NEW y \in A
  PROVE  Cardinality(A \ {y}) = Cardinality(A) - 1 /\ Cardinality(A) \in Nat /\ Cardinality(A) # 0
<1>1. Cardinality(A) \in Nat
  BY FS_CardinalityType
<1>2. Cardinality(A) # 0
  BY FS_EmptySet
<1>3. Cardinality(A \ {y}) = Cardinality(A) - 1
  BY FS_RemoveElement
<1> QED  BY <1>1, <1>2, <1>3

\* A place to draw from: the nodes left and the last one drawn.
Spread(S, x) ==
  /\ IsFiniteSet(S) /\ S \subseteq 1 .. plan.nodes
  /\ x \in 1 .. plan.nodes /\ x \notin S

LEMMA SpreadOn ==
  ASSUME NEW S, NEW x, Spread(S, x), NEW y \in S
  PROVE  Spread(S \ {y}, y)
<1>1. IsFiniteSet(S \ {y})
  BY FS_RemoveElement DEF Spread
<1> QED  BY <1>1 DEF Spread

LEMMA KindsFinite ==
  ASSUME NEW S, IsFiniteSet(S)
  PROVE  /\ IsFiniteSet(Trusty(S)) /\ IsFiniteSet(Silent(S)) /\ IsFiniteSet(Partner(S))
         /\ Cardinality(Trusty(S)) \in Nat /\ Cardinality(Silent(S)) \in Nat
         /\ Cardinality(Partner(S)) \in Nat
<1>1. Trusty(S) \subseteq S /\ Silent(S) \subseteq S /\ Partner(S) \subseteq S
  BY DEF Trusty, Silent, Partner
<1>2. IsFiniteSet(Trusty(S)) /\ IsFiniteSet(Silent(S)) /\ IsFiniteSet(Partner(S))
  BY <1>1, FS_Subset
<1> QED  BY <1>2, FS_CardinalityType

\* A node drawn leaves one fewer of its kind, as rogueEntryChains has it.
LEMMA DrawnHonest ==
  ASSUME Planned, NEW S, NEW x, Spread(S, x), NEW y \in Trusty(S)
  PROVE  Kinds(S \ {y}, y) = LessHonest(Kinds(S, x)) /\ Kinds(S, x).honest # 0
<1>1. y \in S /\ y \in 1 .. plan.nodes /\ y > plan.rogue /\ plan.withheld <= plan.rogue
      /\ plan.withheld \in Nat /\ plan.rogue \in Nat
  BY PlanTypes DEF Trusty, Spread
<1>2. ~(y <= plan.rogue) /\ ~(y <= plan.withheld) /\ (y > plan.rogue) = TRUE
  BY <1>1
<1>3. /\ Trusty(S \ {y}) = Trusty(S) \ {y}
      /\ Silent(S \ {y}) = Silent(S) /\ Partner(S \ {y}) = Partner(S)
  BY <1>2 DEF Trusty, Silent, Partner
<1>4. /\ Cardinality(Trusty(S \ {y})) = Cardinality(Trusty(S)) - 1
      /\ Cardinality(Trusty(S)) # 0
  <2>1. IsFiniteSet(Trusty(S))
    BY KindsFinite DEF Spread
  <2> QED  BY <1>3, <2>1, OneLess
<1>5. Kinds(S \ {y}, y) = LessHonest(Kinds(S, x))
  BY <1>2, <1>3, <1>4, KindsParts DEF Kinds, LessHonest
<1> QED  BY <1>4, <1>5, KindsParts

LEMMA DrawnSilent ==
  ASSUME Planned, NEW S, NEW x, Spread(S, x), NEW y \in Silent(S)
  PROVE  Kinds(S \ {y}, y) = LessWithholding(Kinds(S, x)) /\ Kinds(S, x).withholding # 0
<1>1. y \in S /\ y \in 1 .. plan.nodes /\ y <= plan.withheld /\ plan.withheld <= plan.rogue
      /\ plan.withheld \in Nat /\ plan.rogue \in Nat
  BY PlanTypes DEF Silent, Spread
<1>2. ~(y > plan.rogue) /\ ~(y > plan.withheld) /\ (y > plan.rogue) = FALSE
  BY <1>1
<1>3. /\ Silent(S \ {y}) = Silent(S) \ {y}
      /\ Trusty(S \ {y}) = Trusty(S) /\ Partner(S \ {y}) = Partner(S)
  BY <1>2 DEF Trusty, Silent, Partner
<1>4. /\ Cardinality(Silent(S \ {y})) = Cardinality(Silent(S)) - 1
      /\ Cardinality(Silent(S)) # 0
  <2>1. IsFiniteSet(Silent(S))
    BY KindsFinite DEF Spread
  <2> QED  BY <1>3, <2>1, OneLess
<1> QED  BY <1>2, <1>3, <1>4, KindsParts DEF Kinds, LessWithholding

LEMMA DrawnPartner ==
  ASSUME Planned, NEW S, NEW x, Spread(S, x), NEW y \in Partner(S)
  PROVE  Kinds(S \ {y}, y) = LessOthers(Kinds(S, x)) /\ Kinds(S, x).others # 0
<1>1. y \in S /\ y \in 1 .. plan.nodes /\ y > plan.withheld /\ y <= plan.rogue
      /\ plan.withheld \in Nat /\ plan.rogue \in Nat
  BY PlanTypes DEF Partner, Spread
<1>2. ~(y > plan.rogue) /\ ~(y <= plan.withheld) /\ (y > plan.rogue) = FALSE
  BY <1>1
<1>3. /\ Partner(S \ {y}) = Partner(S) \ {y}
      /\ Trusty(S \ {y}) = Trusty(S) /\ Silent(S \ {y}) = Silent(S)
  BY <1>2 DEF Trusty, Silent, Partner
<1>4. /\ Cardinality(Partner(S \ {y})) = Cardinality(Partner(S)) - 1
      /\ Cardinality(Partner(S)) # 0
  <2>1. IsFiniteSet(Partner(S))
    BY KindsFinite DEF Spread
  <2> QED  BY <1>3, <2>1, OneLess
<1> QED  BY <1>2, <1>3, <1>4, KindsParts DEF Kinds, LessOthers

\* What count ways on add, where c is known only if there is one.
Ways(count, c) == IF count = 0 THEN 0 ELSE count * c

\* The chains counted when one more node is drawn, and next counts the rest.
Onward(kind, next, u) ==
  Ways(u.honest, next[LessHonest(u)])
    + (IF kind # "all" /\ u.after = TRUE THEN 0
       ELSE Ways(u.withholding, next[LessWithholding(u)]))
    + Ways(u.others, next[LessOthers(u)])

\* count[d] says how many chains of d more nodes are counted, by what is left.
Recurs(kind, count, H, W, O, D) ==
  /\ \A u \in Undrawn(H, W, O) :
       count[0][u] = IF kind = "exit" /\ u.after = TRUE THEN 0 ELSE 1
  /\ \A d \in Nat : d < D =>
       \A u \in Undrawn(H, W, O) : count[d + 1][u] = Onward(kind, count[d], u)

\* The tours of d more nodes from any place are as many as count says.
CountsTo(kind, count, H, W, O, d) ==
  \A S, x : Spread(S, x) /\ Kinds(S, x) \in Undrawn(H, W, O) =>
              Cardinality(Counted(kind, x, S, d)) = count[d][Kinds(S, x)]

LEMMA LessUndrawn ==
  ASSUME NEW H \in Int, NEW W \in Int, NEW O \in Int, NEW u \in Undrawn(H, W, O)
  PROVE  /\ u.honest # 0 => LessHonest(u) \in Undrawn(H, W, O)
         /\ u.withholding # 0 => LessWithholding(u) \in Undrawn(H, W, O)
         /\ u.others # 0 => LessOthers(u) \in Undrawn(H, W, O)
<1>1. PICK h, w, o \in Int : h = u.honest /\ w = u.withholding /\ o = u.others
  BY DEF Undrawn
<1>2. h \in 0 .. H /\ w \in 0 .. W /\ o \in 0 .. O
  BY <1>1 DEF Undrawn
<1>3. h # 0 => h - 1 \in 0 .. H
  BY <1>2
<1>4. w # 0 => w - 1 \in 0 .. W
  BY <1>2
<1>5. o # 0 => o - 1 \in 0 .. O
  BY <1>2
<1>6. h # 0 => LessHonest(u) \in Undrawn(H, W, O)
  BY <1>1, <1>2, <1>3 DEF LessHonest, Left, Undrawn
<1>7. w # 0 => LessWithholding(u) \in Undrawn(H, W, O)
  BY <1>1, <1>2, <1>4 DEF LessWithholding, Left, Undrawn
<1>8. o # 0 => LessOthers(u) \in Undrawn(H, W, O)
  BY <1>1, <1>2, <1>5 DEF LessOthers, Left, Undrawn
<1> QED  BY <1>1, <1>6, <1>7, <1>8

LEMMA TourAlone ==
  ASSUME NEW S, NEW x
  PROVE  Tours(x, S, 0) = {[i \in 1 .. 1 |-> x]}
<1> DEFINE p == [i \in 1 .. 1 |-> x]
<1>1. 0 + 1 = 1 /\ 1 .. 1 = {1}
  OBVIOUS
<1>2. p \in [1 .. 1 -> S \cup {x}] /\ p[1] = x /\ DOMAIN p = {1}
  BY <1>1
<1>3. IsInjective(p)
  BY <1>2 DEF IsInjective
<1>4. p \in Tours(x, S, 0)
  BY <1>1, <1>2, <1>3 DEF Tours
<1>5. ASSUME NEW q \in Tours(x, S, 0) PROVE q = p
  <2>1. q \in [1 .. 1 -> S \cup {x}] /\ q[1] = x
    BY <1>1 DEF Tours
  <2>2. q = [i \in 1 .. 1 |-> q[i]]
    BY <2>1
  <2>3. \A i \in 1 .. 1 : q[i] = x
    BY <1>1, <2>1
  <2> QED  BY Zenon, <2>2, <2>3
<1> QED  BY <1>4, <1>5

\* With nothing to draw, the chain is its entry.
LEMMA CountsStart ==
  ASSUME NEW kind, NEW count, NEW H, NEW W, NEW O, NEW D, Recurs(kind, count, H, W, O, D), Planned
  PROVE  CountsTo(kind, count, H, W, O, 0)
<1> SUFFICES ASSUME NEW S, NEW x, Spread(S, x), Kinds(S, x) \in Undrawn(H, W, O)
             PROVE  Cardinality(Counted(kind, x, S, 0)) = count[0][Kinds(S, x)]
  BY DEF CountsTo
<1> DEFINE p == [i \in 1 .. 1 |-> x]
<1>1. Tours(x, S, 0) = {p}
  BY TourAlone
<1>2. p[1] = x /\ Len(p) = 1
  <2>1. p \in [1 .. 1 -> {x}] /\ 1 \in 1 .. 1
    OBVIOUS
  <2> HIDE DEF p
  <2> QED  BY <2>1, SeqOfFunction
<1> HIDE DEF p
<1>3. ComesUp(p)
  BY <1>2 DEF ComesUp
<1>4. Wanted(kind, p) <=> ~(kind = "exit" /\ ~Rogue(x))
  BY <1>2, <1>3 DEF Wanted
<1>5. x \in Int /\ plan.rogue \in Int
  BY PlanTypes DEF Spread
<1>6. Kinds(S, x).after = TRUE <=> ~Rogue(x)
  <2>1. CASE x > plan.rogue
    <3>1. Kinds(S, x).after = TRUE
      BY <2>1, KindsParts
    <3> QED  BY <1>5, <2>1, <3>1 DEF Rogue
  <2>2. CASE ~(x > plan.rogue)
    <3>1. Kinds(S, x).after = FALSE
      BY <2>2, KindsParts
    <3> QED  BY <1>5, <2>2, <3>1 DEF Rogue
  <2> QED  BY <2>1, <2>2
<1>7. CASE kind = "exit" /\ ~Rogue(x)
  <2>1. Counted(kind, x, S, 0) = {}
    BY <1>1, <1>4, <1>7 DEF Counted
  <2>2. count[0][Kinds(S, x)] = 0
    BY <1>6, <1>7 DEF Recurs
  <2> QED  BY <2>1, <2>2, FS_EmptySet
<1>8. CASE ~(kind = "exit" /\ ~Rogue(x))
  <2>1. Counted(kind, x, S, 0) = {p}
    BY <1>1, <1>4, <1>8 DEF Counted
  <2>2. count[0][Kinds(S, x)] = 1
    BY <1>6, <1>8 DEF Recurs
  <2> QED  BY <2>1, <2>2, FS_Singleton
<1> QED  BY <1>7, <1>8

\* Each member of C may follow x, with c chains counted after it.
EachWay(kind, x, S, d, C, c) ==
  \A y \in C : /\ kind = "all" \/ Extends(x, y)
               /\ Cardinality(Counted(kind, y, S \ {y}, d)) = c

LEMMA AmongWays ==
  ASSUME NEW S, NEW x, Spread(S, x), NEW d \in Nat, NEW C \in SUBSET S, NEW kind, NEW c,
         EachWay(kind, x, S, d, C, c)
  PROVE  Cardinality(Among(kind, x, S, d + 1, C)) = Ways(Cardinality(C), c)
<1>1. IsFiniteSet(S) /\ x \notin S
  BY DEF Spread
<1>2. IsFiniteSet(C)
  BY <1>1, FS_Subset
<1>3. CASE C = {}
  <2>1. Among(kind, x, S, d + 1, C) = {}
    BY <1>3 DEF Among
  <2> QED  BY <1>3, <2>1, FS_EmptySet DEF Ways
<1>4. CASE C # {}
  <2>1. PICK y \in C : TRUE
    BY <1>4
  <2>2. IsFiniteSet(S \ {y})
    BY <1>1, FS_RemoveElement
  <2>3. c \in Nat
    <3>1. Cardinality(Counted(kind, y, S \ {y}, d)) \in Nat
      BY <2>2, CountedFinite
    <3> QED  BY <2>1, <3>1 DEF EachWay
  <2>4. Cardinality(Among(kind, x, S, d + 1, C)) = Cardinality(C) * c
    BY <1>1, <2>3, AmongCount DEF EachWay
  <2>5. Cardinality(C) # 0
    BY <1>2, <1>4, FS_EmptySet
  <2> QED  BY <2>4, <2>5 DEF Ways
<1> QED  BY <1>3, <1>4

LEMMA TwoParts ==
  ASSUME NEW A, NEW B, IsFiniteSet(A), IsFiniteSet(B), A \cap B = {}
  PROVE  /\ IsFiniteSet(A \cup B)
         /\ Cardinality(A \cup B) = Cardinality(A) + Cardinality(B)
         /\ Cardinality(A) \in Nat /\ Cardinality(B) \in Nat
<1>1. /\ IsFiniteSet(A \cup B)
      /\ Cardinality(A \cup B) = Cardinality(A) + Cardinality(B) - Cardinality(A \cap B)
  BY FS_Union
<1>2. IsFiniteSet(A \cap B)
  <2>1. A \cap B \subseteq A
    OBVIOUS
  <2> QED  BY <2>1, FS_Subset
<1>3. Cardinality(A \cap B) = 0
  BY <1>2, FS_EmptySet
<1>4. Cardinality(A) \in Nat /\ Cardinality(B) \in Nat
  BY FS_CardinalityType
<1> QED  BY <1>1, <1>3, <1>4

LEMMA ThreeParts ==
  ASSUME NEW A, NEW B, NEW C, IsFiniteSet(A), IsFiniteSet(B), IsFiniteSet(C),
         A \cap B = {}, A \cap C = {}, B \cap C = {}
  PROVE  Cardinality((A \cup B) \cup C) = Cardinality(A) + Cardinality(B) + Cardinality(C)
<1>1. /\ IsFiniteSet(A \cup B)
      /\ Cardinality(A \cup B) = Cardinality(A) + Cardinality(B)
  BY TwoParts
<1>2. (A \cup B) \cap C = {}
  OBVIOUS
<1>3. Cardinality((A \cup B) \cup C) = Cardinality(A \cup B) + Cardinality(C)
  BY <1>1, <1>2, TwoParts
<1> QED  BY <1>1, <1>3

\* The tours of one node more, by the kind of the node drawn first.
LEMMA CountsOn ==
  ASSUME NEW kind, NEW count, NEW H \in Int, NEW W \in Int, NEW O \in Int, NEW D,
         Recurs(kind, count, H, W, O, D), Planned,
         NEW d \in Nat, d < D, CountsTo(kind, count, H, W, O, d)
  PROVE  CountsTo(kind, count, H, W, O, d + 1)
<1> SUFFICES ASSUME NEW S, NEW x, Spread(S, x), Kinds(S, x) \in Undrawn(H, W, O)
             PROVE  Cardinality(Counted(kind, x, S, d + 1)) = count[d + 1][Kinds(S, x)]
  BY DEF CountsTo
<1>1. PICK u \in Undrawn(H, W, O) : u = Kinds(S, x)
  OBVIOUS
<1>2. PICK e : e = d + 1
  OBVIOUS
<1>3. count[e][u] = Onward(kind, count[d], u)
  BY <1>2 DEF Recurs
<1>4. /\ u.honest = Cardinality(Trusty(S)) /\ u.withholding = Cardinality(Silent(S))
      /\ u.others = Cardinality(Partner(S))
  BY <1>1, KindsParts
<1>5. /\ S \subseteq 1 .. plan.nodes /\ x \in 1 .. plan.nodes /\ x \notin S /\ IsFiniteSet(S)
      /\ plan.rogue \in Nat /\ plan.withheld \in Nat /\ plan.withheld <= plan.rogue
      /\ plan.nodes \in Nat
  BY PlanTypes DEF Spread
<1>6. Trusty(S) \in SUBSET S /\ Silent(S) \in SUBSET S /\ Partner(S) \in SUBSET S
  BY DEF Trusty, Silent, Partner
<1> DEFINE way(C) == Among(kind, x, S, e, C)
<1>7. Cardinality(way(Trusty(S))) = Ways(u.honest, count[d][LessHonest(u)])
  <2>1. ASSUME NEW y \in Trusty(S)
        PROVE  /\ kind = "all" \/ Extends(x, y)
               /\ Cardinality(Counted(kind, y, S \ {y}, d)) = count[d][LessHonest(u)]
    <3>1. Kinds(S \ {y}, y) = LessHonest(u) /\ u.honest # 0
      BY <1>1, DrawnHonest
    <3>2. Kinds(S \ {y}, y) \in Undrawn(H, W, O)
      BY <3>1, LessUndrawn
    <3>3. Spread(S \ {y}, y)
      BY <1>6, SpreadOn
    <3>4. Cardinality(Counted(kind, y, S \ {y}, d)) = count[d][Kinds(S \ {y}, y)]
      BY <3>2, <3>3 DEF CountsTo
    <3>5. y \in 1 .. plan.nodes /\ y > plan.withheld
      BY <1>5 DEF Trusty
    <3>6. Extends(x, y)
      BY <1>5, <3>5, ExtendsIs
    <3> QED  BY <3>1, <3>4, <3>6
  <2>2. Cardinality(Among(kind, x, S, d + 1, Trusty(S)))
          = Ways(Cardinality(Trusty(S)), count[d][LessHonest(u)])
    <3>1. EachWay(kind, x, S, d, Trusty(S), count[d][LessHonest(u)])
      BY <2>1 DEF EachWay
    <3> QED  BY <1>6, <3>1, AmongWays
  <2> QED  BY <1>2, <1>4, <2>2
<1>8. Cardinality(way(Partner(S))) = Ways(u.others, count[d][LessOthers(u)])
  <2>1. ASSUME NEW y \in Partner(S)
        PROVE  /\ kind = "all" \/ Extends(x, y)
               /\ Cardinality(Counted(kind, y, S \ {y}, d)) = count[d][LessOthers(u)]
    <3>1. Kinds(S \ {y}, y) = LessOthers(u) /\ u.others # 0
      BY <1>1, DrawnPartner
    <3>2. Kinds(S \ {y}, y) \in Undrawn(H, W, O)
      BY <3>1, LessUndrawn
    <3>3. Spread(S \ {y}, y)
      BY <1>6, SpreadOn
    <3>4. Cardinality(Counted(kind, y, S \ {y}, d)) = count[d][Kinds(S \ {y}, y)]
      BY <3>2, <3>3 DEF CountsTo
    <3>5. y \in 1 .. plan.nodes /\ y > plan.withheld
      BY <1>5 DEF Partner
    <3>6. Extends(x, y)
      BY <1>5, <3>5, ExtendsIs
    <3> QED  BY <3>1, <3>4, <3>6
  <2>2. Cardinality(Among(kind, x, S, d + 1, Partner(S)))
          = Ways(Cardinality(Partner(S)), count[d][LessOthers(u)])
    <3>1. EachWay(kind, x, S, d, Partner(S), count[d][LessOthers(u)])
      BY <2>1 DEF EachWay
    <3> QED  BY <1>6, <3>1, AmongWays
  <2> QED  BY <1>2, <1>4, <2>2
<1>9. Cardinality(way(Silent(S))) = IF kind # "all" /\ u.after = TRUE THEN 0
                                   ELSE Ways(u.withholding, count[d][LessWithholding(u)])
  <2>1. CASE kind # "all" /\ u.after = TRUE
    <3>1. x > plan.rogue
      <4>1. ~(x > plan.rogue) => u.after = FALSE
        BY <1>1, KindsParts
      <4> QED  BY <2>1, <4>1
    <3>2. way(Silent(S)) = {}
      <4> SUFFICES ASSUME NEW p \in Counted(kind, x, S, e), p[2] \in Silent(S) PROVE FALSE
        BY DEF Among
      <4>1. PICK y : y = p[2]
        OBVIOUS
      <4>2. y \in 1 .. plan.nodes /\ y <= plan.withheld
        BY <1>5, <4>1 DEF Silent
      <4>3. ~(x <= plan.rogue) /\ ~(y > plan.withheld)
        BY <1>5, <3>1, <4>2
      <4>4. ~Extends(x, y)
        BY <1>5, <4>2, <4>3, ExtendsIs
      <4>5. Via(kind, x, S, d + 1, y) = {}
        BY <1>5, <2>1, <4>4, ViaNone
      <4>6. p \in Via(kind, x, S, d + 1, y)
        BY <1>2, <4>1 DEF Via
      <4> QED  BY <4>5, <4>6
    <3>3. Cardinality(way(Silent(S))) = 0
      BY <3>2, FS_EmptySet
    <3> QED  BY <2>1, <3>3
  <2>2. CASE ~(kind # "all" /\ u.after = TRUE)
    <3>1. ASSUME NEW y \in Silent(S)
          PROVE  /\ kind = "all" \/ Extends(x, y)
                 /\ Cardinality(Counted(kind, y, S \ {y}, d)) = count[d][LessWithholding(u)]
      <4>1. Kinds(S \ {y}, y) = LessWithholding(u) /\ u.withholding # 0
        BY <1>1, DrawnSilent
      <4>2. Kinds(S \ {y}, y) \in Undrawn(H, W, O)
        BY <4>1, LessUndrawn
      <4>3. Spread(S \ {y}, y)
        BY <1>6, SpreadOn
      <4>4. Cardinality(Counted(kind, y, S \ {y}, d)) = count[d][Kinds(S \ {y}, y)]
        BY <4>2, <4>3 DEF CountsTo
      <4>5. x > plan.rogue => u.after = TRUE
        BY <1>1, KindsParts
      <4>6. y \in 1 .. plan.nodes
        BY <1>5 DEF Silent
      <4>7. kind = "all" \/ x <= plan.rogue
        BY <1>5, <2>2, <4>5
      <4>8. kind = "all" \/ Extends(x, y)
        BY <1>5, <4>6, <4>7, ExtendsIs
      <4> QED  BY <4>1, <4>4, <4>8
    <3>2. Cardinality(Among(kind, x, S, d + 1, Silent(S)))
            = Ways(Cardinality(Silent(S)), count[d][LessWithholding(u)])
      <4>1. EachWay(kind, x, S, d, Silent(S), count[d][LessWithholding(u)])
        BY <3>1 DEF EachWay
      <4> QED  BY <1>6, <4>1, AmongWays
    <3> QED  BY <1>2, <1>4, <2>2, <3>2
  <2> QED  BY <2>1, <2>2
<1>10. /\ IsFiniteSet(way(Trusty(S))) /\ IsFiniteSet(way(Silent(S)))
       /\ IsFiniteSet(way(Partner(S)))
  <2>1. e \in Nat
    BY <1>2
  <2>2. IsFiniteSet(Counted(kind, x, S, e))
    BY <1>5, <2>1, CountedFinite
  <2>3. \A C : way(C) \subseteq Counted(kind, x, S, e)
    BY DEF Among
  <2> QED  BY <2>2, <2>3, FS_Subset
<1>11. /\ way(Trusty(S)) \cap way(Silent(S)) = {} /\ way(Trusty(S)) \cap way(Partner(S)) = {}
       /\ way(Silent(S)) \cap way(Partner(S)) = {}
  <2>1. /\ Trusty(S) \cap Silent(S) = {} /\ Trusty(S) \cap Partner(S) = {}
        /\ Silent(S) \cap Partner(S) = {}
    <3>1. ASSUME NEW y \in S
          PROVE  /\ ~(y > plan.rogue /\ y <= plan.withheld)
                 /\ ~(y > plan.rogue /\ y <= plan.rogue)
                 /\ ~(y <= plan.withheld /\ y > plan.withheld)
      <4>1. y \in 1 .. plan.nodes
        BY <1>5
      <4> QED  BY <1>5, <4>1
    <3> QED  BY <3>1 DEF Trusty, Silent, Partner
  <2> QED  BY <2>1 DEF Among
<1>12. Counted(kind, x, S, e) = (way(Trusty(S)) \cup way(Silent(S))) \cup way(Partner(S))
  <2>1. ASSUME NEW p \in Counted(kind, x, S, e)
        PROVE  p[2] \in Trusty(S) \/ p[2] \in Silent(S) \/ p[2] \in Partner(S)
    <3>1. p \in Tours(x, S, e)
      BY DEF Counted
    <3>2. p[2] \in S /\ Rest(p, d) \in Tours(p[2], S \ {p[2]}, d) /\ Lead(x, Rest(p, d), d) = p
      <4>1. x \notin S
        BY <1>5
      <4> QED  BY ONLY <1>2, <3>1, <4>1, d \in Nat, RestTour
    <3>3. PICK y \in 1 .. plan.nodes : y = p[2] /\ y \in S
      BY <1>5, <3>2
    <3>4. y \in Trusty(S) \/ y \in Silent(S) \/ y \in Partner(S)
      BY <1>5, <3>3 DEF Trusty, Silent, Partner
    <3> QED  BY <3>3, <3>4
  <2> QED  BY <2>1 DEF Among
<1>13. Cardinality(Counted(kind, x, S, e))
         = Cardinality(way(Trusty(S))) + Cardinality(way(Silent(S))) + Cardinality(way(Partner(S)))
  <2>1. Cardinality((way(Trusty(S)) \cup way(Silent(S))) \cup way(Partner(S)))
          = Cardinality(way(Trusty(S))) + Cardinality(way(Silent(S))) + Cardinality(way(Partner(S)))
    <3> HIDE DEF way
    <3> QED  BY <1>10, <1>11, ThreeParts
  <2> HIDE DEF way
  <2> QED  BY <1>12, <2>1
<1> HIDE DEF way
<1>14. Cardinality(Counted(kind, x, S, e)) = Onward(kind, count[d], u)
  BY <1>7, <1>8, <1>9, <1>13 DEF Onward
<1> QED  BY <1>1, <1>2, <1>3, <1>14

\* So what recurs as rogueEntryChains does counts the tours.
LEMMA CountsAll ==
  ASSUME NEW kind, NEW count, NEW H \in Int, NEW W \in Int, NEW O \in Int, NEW D \in Nat,
         Recurs(kind, count, H, W, O, D), Planned
  PROVE  CountsTo(kind, count, H, W, O, D)
<1> DEFINE T == {d \in Nat : d <= D => CountsTo(kind, count, H, W, O, d)}
<1>1. 0 \in T
  BY CountsStart
<1>2. ASSUME NEW d \in Nat, d \in T PROVE d + 1 \in T
  <2> SUFFICES ASSUME d + 1 <= D PROVE CountsTo(kind, count, H, W, O, d + 1)
    OBVIOUS
  <2>1. d < D /\ CountsTo(kind, count, H, W, O, d)
    BY <1>2
  <2> QED  BY <2>1, CountsOn
<1>3. Nat \subseteq T
  <2> HIDE DEF T
  <2> QED  BY <1>1, <1>2, Counting
<1> QED  BY <1>3

-----------------------------------------------------------------------------
(* What rogueEntryChains computes. *)

Sums == [up : Int, failed : Int, exit : Int]

\* What add does to each part of the sum.
LEMMA AddChainsIs ==
  ASSUME NEW count \in Nat, NEW next, NEW sum \in Sums, count # 0 => next \in Sums
  PROVE  /\ AddChains(count, next, sum) \in Sums
         /\ AddChains(count, next, sum).up = sum.up + Ways(count, next.up)
         /\ AddChains(count, next, sum).failed = sum.failed + Ways(count, next.failed)
         /\ AddChains(count, next, sum).exit = sum.exit + Ways(count, next.exit)
         /\ Ways(count, next.up) \in Int /\ Ways(count, next.failed) \in Int
         /\ Ways(count, next.exit) \in Int
<1>1. sum.up \in Int /\ sum.failed \in Int /\ sum.exit \in Int
  BY DEF Sums
<1>2. CASE count = 0
  BY <1>1, <1>2 DEF AddChains, Ways
<1>3. CASE count # 0
  <2>1. PICK x, y, z \in Int : x = next.up /\ y = next.failed /\ z = next.exit
    BY <1>3 DEF Sums
  <2>2. count * x \in Int /\ count * y \in Int /\ count * z \in Int
    OBVIOUS
  <2>3. AddChains(count, next, sum) = [up     |-> sum.up + count * x,
                                       failed |-> sum.failed + count * y,
                                       exit   |-> sum.exit + count * z]
    BY <1>3, <2>1 DEF AddChains
  <2>4. /\ Ways(count, next.up) = count * x /\ Ways(count, next.failed) = count * y
        /\ Ways(count, next.exit) = count * z
    BY <1>3, <2>1 DEF Ways
  <2> QED  BY <1>1, <2>2, <2>3, <2>4 DEF Sums
<1> QED  BY <1>2, <1>3

\* The chains of next, by what is left.
Summed(next, H, W, O) == \A v \in Undrawn(H, W, O) : next[v] \in Sums

\* The nodes not yet drawn.
Total(u) == u.honest + u.withholding + u.others

LEMMA UndrawnParts ==
  ASSUME NEW H \in Int, NEW W \in Int, NEW O \in Int, NEW u \in Undrawn(H, W, O)
  PROVE  /\ u.honest \in Nat /\ u.withholding \in Nat /\ u.others \in Nat
         /\ Total(u) \in Nat /\ (u.after = TRUE \/ u.after = FALSE)
<1>1. /\ u.honest \in 0 .. H /\ u.withholding \in 0 .. W /\ u.others \in 0 .. O
      /\ u.after \in BOOLEAN
  BY DEF Undrawn
<1>2. u.honest \in Nat /\ u.withholding \in Nat /\ u.others \in Nat
  BY <1>1
<1>3. u.after = TRUE \/ u.after = FALSE
  BY <1>1
<1> QED  BY <1>2, <1>3 DEF Total

\* What one more draw adds up to.
DrawnOn(next, u, d, r) ==
  /\ r \in Sums
  /\ r.up = Ways(u.honest, next[LessHonest(u)].up)
              + (IF u.after = TRUE THEN 0
                 ELSE Ways(u.withholding, next[LessWithholding(u)].up))
              + Ways(u.others, next[LessOthers(u)].up)
  /\ r.exit = Ways(u.honest, next[LessHonest(u)].exit)
                + (IF u.after = TRUE THEN 0
                   ELSE Ways(u.withholding, next[LessWithholding(u)].exit))
                + Ways(u.others, next[LessOthers(u)].exit)
  /\ r.failed = Ways(u.honest, next[LessHonest(u)].failed)
                  + (IF u.after = TRUE THEN u.withholding * Falling(Total(u) - 1, d - 1)
                     ELSE Ways(u.withholding, next[LessWithholding(u)].failed))
                  + Ways(u.others, next[LessOthers(u)].failed)

LEMMA DrawOnIs ==
  ASSUME NEW H \in Int, NEW W \in Int, NEW O \in Int, NEW u \in Undrawn(H, W, O),
         NEW next, Summed(next, H, W, O), NEW d \in Nat \ {0}
  PROVE  DrawnOn(next, u, d, DrawOn(next, u, d))
<1> DEFINE none == [up |-> 0, failed |-> 0, exit |-> 0]
           a == AddChains(u.honest, next[LessHonest(u)], none)
           b == IF u.after
                THEN [a EXCEPT !.failed = @ + u.withholding * Falling(Total(u) - 1, d - 1)]
                ELSE AddChains(u.withholding, next[LessWithholding(u)], a)
           c == AddChains(u.others, next[LessOthers(u)], b)
<1>1. DrawOn(next, u, d) = c
  BY DEF DrawOn, LessHonest, LessWithholding, LessOthers, Total
<1>2. /\ u.honest \in Nat /\ u.withholding \in Nat /\ u.others \in Nat
      /\ Total(u) \in Nat /\ (u.after = TRUE \/ u.after = FALSE)
  BY UndrawnParts
<1>3. /\ u.honest # 0 => next[LessHonest(u)] \in Sums
      /\ u.withholding # 0 => next[LessWithholding(u)] \in Sums
      /\ u.others # 0 => next[LessOthers(u)] \in Sums
  BY LessUndrawn DEF Summed
<1>4. none \in Sums /\ none.up = 0 /\ none.failed = 0 /\ none.exit = 0
  BY DEF Sums
<1> HIDE DEF none
<1>5. /\ a \in Sums
      /\ a.up = none.up + Ways(u.honest, next[LessHonest(u)].up)
      /\ a.failed = none.failed + Ways(u.honest, next[LessHonest(u)].failed)
      /\ a.exit = none.exit + Ways(u.honest, next[LessHonest(u)].exit)
      /\ Ways(u.honest, next[LessHonest(u)].up) \in Int
      /\ Ways(u.honest, next[LessHonest(u)].failed) \in Int
      /\ Ways(u.honest, next[LessHonest(u)].exit) \in Int
  BY <1>2, <1>3, <1>4, AddChainsIs
<1>6. /\ a.up = Ways(u.honest, next[LessHonest(u)].up)
      /\ a.failed = Ways(u.honest, next[LessHonest(u)].failed)
      /\ a.exit = Ways(u.honest, next[LessHonest(u)].exit)
      /\ a.up \in Int /\ a.failed \in Int /\ a.exit \in Int
  BY <1>4, <1>5
<1>7. PICK x \in Int : x = u.withholding * Falling(Total(u) - 1, d - 1)
  <2>1. PICK y \in Int : y = Falling(Total(u) - 1, d - 1)
    BY <1>2, FallingInt
  <2> QED  BY <1>2, <2>1
<1> HIDE DEF a
<1>8. /\ b \in Sums
      /\ b.up = a.up + (IF u.after = TRUE THEN 0
                        ELSE Ways(u.withholding, next[LessWithholding(u)].up))
      /\ b.exit = a.exit + (IF u.after = TRUE THEN 0
                            ELSE Ways(u.withholding, next[LessWithholding(u)].exit))
      /\ b.failed = a.failed + (IF u.after = TRUE THEN x
                                ELSE Ways(u.withholding, next[LessWithholding(u)].failed))
  <2>1. CASE u.after = TRUE
    <3>1. b = [a EXCEPT !.failed = @ + x]
      BY <1>7, <2>1
    <3>2. b \in Sums /\ b.up = a.up /\ b.exit = a.exit /\ b.failed = a.failed + x
      BY <1>5, <3>1 DEF Sums
    <3> HIDE DEF b
    <3> QED  BY <1>6, <2>1, <3>2
  <2>2. CASE u.after = FALSE
    <3>1. b = AddChains(u.withholding, next[LessWithholding(u)], a)
      BY <2>2
    <3> HIDE DEF b
    <3>2. /\ b \in Sums
          /\ b.up = a.up + Ways(u.withholding, next[LessWithholding(u)].up)
          /\ b.failed = a.failed + Ways(u.withholding, next[LessWithholding(u)].failed)
          /\ b.exit = a.exit + Ways(u.withholding, next[LessWithholding(u)].exit)
      BY <1>2, <1>3, <1>5, <3>1, AddChainsIs
    <3> QED  BY <2>2, <3>2
  <2> QED  BY <1>2, <2>1, <2>2
<1> HIDE DEF b
<1>9. /\ c \in Sums
      /\ c.up = b.up + Ways(u.others, next[LessOthers(u)].up)
      /\ c.failed = b.failed + Ways(u.others, next[LessOthers(u)].failed)
      /\ c.exit = b.exit + Ways(u.others, next[LessOthers(u)].exit)
  BY <1>2, <1>3, <1>8, AddChainsIs
<1> HIDE DEF c
<1> QED  BY <1>1, <1>6, <1>7, <1>8, <1>9 DEF DrawnOn

\* The function that rogueEntryChains works out.

\* f is what from gives, for every number of draws.
Worked(H, W, O, D, f) ==
  f = [d \in 0 .. D |-> [u \in Undrawn(H, W, O) |->
         IF d = 0 THEN [up |-> 1, failed |-> 0, exit |-> IF u.after THEN 0 ELSE 1]
         ELSE DrawOn(f[d - 1], u, d)]]

Row(H, W, O, d, f) ==
  [u \in Undrawn(H, W, O) |->
     IF d = 0 THEN [up |-> 1, failed |-> 0, exit |-> IF u.after THEN 0 ELSE 1]
     ELSE DrawOn(f[d - 1], u, d)]

LEMMA WorkedRows ==
  ASSUME NEW H, NEW W, NEW O, NEW D \in Nat, NEW f
  PROVE  Worked(H, W, O, D, f) <=> f = [d \in 0 .. D |-> Row(H, W, O, d, f)]
  BY Zenon DEF Worked, Row

LEMMA RowSame ==
  ASSUME NEW H, NEW W, NEW O, NEW d, NEW f, NEW g, d # 0 => f[d - 1] = g[d - 1]
  PROVE  Row(H, W, O, d, f) = Row(H, W, O, d, g)
<1>1. CASE d = 0
  BY Zenon, <1>1 DEF Row
<1>2. CASE d # 0
  BY Zenon, <1>2 DEF Row
<1> QED  BY <1>1, <1>2

\* The recursion of rogueEntryChains has a solution.
LEMMA WorkedExists ==
  ASSUME NEW H, NEW W, NEW O, NEW D \in Nat
  PROVE  \E f : Worked(H, W, O, D, f)
<1> DEFINE T == {k \in Nat : \E f : f = [d \in 0 .. k |-> Row(H, W, O, d, f)]}
<1>1. 0 \in T
  <2> DEFINE f == [d \in 0 .. 0 |-> Row(H, W, O, 0, 0)]
  <2>1. f = [d \in 0 .. 0 |-> f[d]]
    OBVIOUS
  <2>2. ASSUME NEW d \in 0 .. 0 PROVE f[d] = Row(H, W, O, d, f)
    <3>1. d = 0
      OBVIOUS
    <3>2. f[d] = Row(H, W, O, 0, 0)
      OBVIOUS
    <3> HIDE DEF f
    <3>3. Row(H, W, O, d, f) = Row(H, W, O, d, 0)
      BY <3>1, RowSame
    <3> QED  BY <3>1, <3>2, <3>3
  <2> HIDE DEF f
  <2>3. f = [d \in 0 .. 0 |-> Row(H, W, O, d, f)]
    BY Zenon, <2>1, <2>2
  <2> QED  BY <2>3
<1>2. ASSUME NEW k \in Nat, k \in T PROVE k + 1 \in T
  <2>1. PICK f : f = [d \in 0 .. k |-> Row(H, W, O, d, f)]
    BY <1>2
  <2> DEFINE g == [d \in 0 .. k + 1 |-> IF d = k + 1 THEN Row(H, W, O, d, f) ELSE f[d]]
  <2>2. g = [d \in 0 .. k + 1 |-> g[d]]
    OBVIOUS
  <2>3. \A d \in 0 .. k : g[d] = f[d]
    OBVIOUS
  <2>4. g[k + 1] = Row(H, W, O, k + 1, f)
    OBVIOUS
  <2>5. \A d \in 0 .. k : f[d] = Row(H, W, O, d, f)
    BY Zenon, <2>1
  <2> HIDE DEF g
  <2>6. ASSUME NEW d \in 0 .. k + 1 PROVE g[d] = Row(H, W, O, d, g)
    <3>1. d # 0 => d - 1 \in 0 .. k
      OBVIOUS
    <3>2. d # 0 => f[d - 1] = g[d - 1]
      BY <2>3, <3>1
    <3>3. Row(H, W, O, d, f) = Row(H, W, O, d, g)
      BY <3>2, RowSame
    <3>4. d = k + 1 \/ d \in 0 .. k
      OBVIOUS
    <3> QED  BY <2>3, <2>4, <2>5, <3>3, <3>4
  <2>7. g = [d \in 0 .. k + 1 |-> Row(H, W, O, d, g)]
    BY Zenon, <2>2, <2>6
  <2> QED  BY <2>7
<1>3. Nat \subseteq T
  <2> HIDE DEF T
  <2> QED  BY <1>1, <1>2, Counting
<1> QED  BY <1>3, WorkedRows

\* And RogueEntryChains is the value of one.
LEMMA EntryChainsIs ==
  ASSUME NEW H, NEW W, NEW O, NEW D \in Nat
  PROVE  \E f : /\ Worked(H, W, O, D, f)
                /\ RogueEntryChains(H, W, O, D) = f[D][Left(H, W, O, FALSE)]
<1> DEFINE f == CHOOSE g : g = [d \in 0 .. D |-> [u \in Undrawn(H, W, O) |->
                  IF d = 0 THEN [up |-> 1, failed |-> 0, exit |-> IF u.after THEN 0 ELSE 1]
                  ELSE DrawOn(g[d - 1], u, d)]]
<1>1. \E g : Worked(H, W, O, D, g)
  BY WorkedExists
<1>2. Worked(H, W, O, D, f)
  BY Zenon, <1>1 DEF Worked
<1>3. RogueEntryChains(H, W, O, D) = f[D][Left(H, W, O, FALSE)]
  BY Zenon DEF RogueEntryChains
<1> HIDE DEF f
<1> QED  BY <1>2, <1>3

\* With no more draws the last node is the exit.
ExitOnly(r, u) ==
  r \in Sums /\ r.up = 1 /\ r.failed = 0 /\ r.exit = IF u.after = TRUE THEN 0 ELSE 1

LEMMA WorkedStart ==
  ASSUME NEW H, NEW W, NEW O, NEW D \in Nat, NEW f, Worked(H, W, O, D, f),
         NEW u \in Undrawn(H, W, O)
  PROVE  ExitOnly(f[0][u], u)
<1>1. f = [d \in 0 .. D |-> Row(H, W, O, d, f)]
  BY WorkedRows
<1>2. 0 \in 0 .. D
  OBVIOUS
<1>3. f[0] = Row(H, W, O, 0, f)
  BY Zenon, <1>1, <1>2
<1>4. f[0][u] = [up |-> 1, failed |-> 0, exit |-> IF u.after THEN 0 ELSE 1]
  BY <1>3 DEF Row
<1>5. u.after \in BOOLEAN
  BY DEF Undrawn
<1>6. CASE u.after = TRUE
  <2>1. f[0][u] = [up |-> 1, failed |-> 0, exit |-> 0]
    BY <1>4, <1>6
  <2> QED  BY <1>6, <2>1 DEF Sums, ExitOnly
<1>7. CASE u.after = FALSE
  <2>1. f[0][u] = [up |-> 1, failed |-> 0, exit |-> 1]
    BY <1>4, <1>7
  <2> QED  BY <1>7, <2>1 DEF Sums, ExitOnly
<1> QED  BY <1>5, <1>6, <1>7

LEMMA WorkedStep ==
  ASSUME NEW H, NEW W, NEW O, NEW D \in Nat, NEW f, Worked(H, W, O, D, f),
         NEW d \in Nat, d < D, NEW u \in Undrawn(H, W, O)
  PROVE  f[d + 1][u] = DrawOn(f[d], u, d + 1)
<1>1. f = [k \in 0 .. D |-> Row(H, W, O, k, f)]
  BY WorkedRows
<1>2. d + 1 \in 0 .. D /\ d + 1 # 0 /\ (d + 1) - 1 = d
  OBVIOUS
<1>3. f[d + 1] = Row(H, W, O, d + 1, f)
  BY Zenon, <1>1, <1>2
<1>4. Row(H, W, O, d + 1, f)[u] = DrawOn(f[(d + 1) - 1], u, d + 1)
  BY <1>2 DEF Row
<1> QED  BY <1>2, <1>3, <1>4

LEMMA WorkedSums ==
  ASSUME NEW H \in Int, NEW W \in Int, NEW O \in Int, NEW D \in Nat, NEW f,
         Worked(H, W, O, D, f), NEW d \in 0 .. D
  PROVE  Summed(f[d], H, W, O)
<1> DEFINE T == {k \in Nat : k <= D => Summed(f[k], H, W, O)}
<1>1. 0 \in T
  BY WorkedStart DEF Summed, ExitOnly
<1>2. ASSUME NEW k \in Nat, k \in T PROVE k + 1 \in T
  <2> SUFFICES ASSUME k + 1 <= D PROVE Summed(f[k + 1], H, W, O)
    OBVIOUS
  <2>1. Summed(f[k], H, W, O) /\ k < D
    BY <1>2
  <2>2. PICK e \in Nat \ {0} : e = k + 1
    OBVIOUS
  <2> SUFFICES ASSUME NEW u \in Undrawn(H, W, O) PROVE f[k + 1][u] \in Sums
    BY DEF Summed
  <2>3. f[k + 1][u] = DrawOn(f[k], u, k + 1)
    BY <2>1, WorkedStep
  <2>4. DrawnOn(f[k], u, e, DrawOn(f[k], u, e))
    BY <2>1, DrawOnIs
  <2> QED  BY <2>2, <2>3, <2>4 DEF DrawnOn
<1>3. Nat \subseteq T
  <2> HIDE DEF T
  <2> QED  BY <1>1, <1>2, Counting
<1> QED  BY <1>3

LEMMA WorkedOn ==
  ASSUME NEW H \in Int, NEW W \in Int, NEW O \in Int, NEW D \in Nat, NEW f,
         Worked(H, W, O, D, f), NEW d \in Nat, d < D, NEW u \in Undrawn(H, W, O)
  PROVE  DrawnOn(f[d], u, d + 1, f[d + 1][u])
<1>1. PICK e \in Nat \ {0} : e = d + 1
  OBVIOUS
<1>2. Summed(f[d], H, W, O)
  BY WorkedSums
<1>3. f[d + 1][u] = DrawOn(f[d], u, d + 1)
  BY WorkedStep
<1>4. DrawnOn(f[d], u, e, DrawOn(f[d], u, e))
  BY <1>2, DrawOnIs
<1> QED  BY <1>1, <1>3, <1>4

\* The chains that come up, and those with a rogue exit, as rogueEntryChains has them.
Ups(H, W, O, D, f) == [d \in 0 .. D |-> [u \in Undrawn(H, W, O) |-> f[d][u].up]]
Exits(H, W, O, D, f) == [d \in 0 .. D |-> [u \in Undrawn(H, W, O) |-> f[d][u].exit]]

\* The chains that come up and those with a rogue exit recur as the tours do.
LEMMA RecursUps ==
  ASSUME NEW H \in Int, NEW W \in Int, NEW O \in Int, NEW D \in Nat, NEW f,
         Worked(H, W, O, D, f)
  PROVE  Recurs("up", Ups(H, W, O, D, f), H, W, O, D)
<1> DEFINE count == Ups(H, W, O, D, f)
<1>1. \A d \in 0 .. D : \A u \in Undrawn(H, W, O) : count[d][u] = f[d][u].up
  BY DEF Ups
<1> HIDE DEF count
<1>2. ASSUME NEW u \in Undrawn(H, W, O)
      PROVE  count[0][u] = IF "up" = "exit" /\ u.after = TRUE THEN 0 ELSE 1
  <2>1. 0 \in 0 .. D
    OBVIOUS
  <2>2. ExitOnly(f[0][u], u)
    BY WorkedStart
  <2> QED  BY <1>1, <2>1, <2>2 DEF ExitOnly
<1>3. ASSUME NEW d \in Nat, d < D, NEW u \in Undrawn(H, W, O)
      PROVE  count[d + 1][u] = Onward("up", count[d], u)
  <2>1. DrawnOn(f[d], u, d + 1, f[d + 1][u])
    BY <1>3, WorkedOn
  <2>2. d \in 0 .. D /\ d + 1 \in 0 .. D
    BY <1>3
  <2>3. /\ u.honest # 0 => LessHonest(u) \in Undrawn(H, W, O)
        /\ u.withholding # 0 => LessWithholding(u) \in Undrawn(H, W, O)
        /\ u.others # 0 => LessOthers(u) \in Undrawn(H, W, O)
    BY LessUndrawn
  <2>4. Ways(u.honest, count[d][LessHonest(u)]) = Ways(u.honest, f[d][LessHonest(u)].up)
    BY <1>1, <2>2, <2>3 DEF Ways
  <2>5. Ways(u.withholding, count[d][LessWithholding(u)])
          = Ways(u.withholding, f[d][LessWithholding(u)].up)
    BY <1>1, <2>2, <2>3 DEF Ways
  <2>6. Ways(u.others, count[d][LessOthers(u)]) = Ways(u.others, f[d][LessOthers(u)].up)
    BY <1>1, <2>2, <2>3 DEF Ways
  <2>7. count[d + 1][u] = f[d + 1][u].up
    BY <1>1, <2>2
  <2> QED  BY <2>1, <2>4, <2>5, <2>6, <2>7 DEF DrawnOn, Onward
<1>4. Recurs("up", count, H, W, O, D)
  BY <1>2, <1>3 DEF Recurs
<1> QED  BY <1>4 DEF count

LEMMA RecursExits ==
  ASSUME NEW H \in Int, NEW W \in Int, NEW O \in Int, NEW D \in Nat, NEW f,
         Worked(H, W, O, D, f)
  PROVE  Recurs("exit", Exits(H, W, O, D, f), H, W, O, D)
<1> DEFINE count == Exits(H, W, O, D, f)
<1>1. \A d \in 0 .. D : \A u \in Undrawn(H, W, O) : count[d][u] = f[d][u].exit
  BY DEF Exits
<1> HIDE DEF count
<1>2. ASSUME NEW u \in Undrawn(H, W, O)
      PROVE  count[0][u] = IF "exit" = "exit" /\ u.after = TRUE THEN 0 ELSE 1
  <2>1. 0 \in 0 .. D
    OBVIOUS
  <2>2. ExitOnly(f[0][u], u)
    BY WorkedStart
  <2> QED  BY <1>1, <2>1, <2>2 DEF ExitOnly
<1>3. ASSUME NEW d \in Nat, d < D, NEW u \in Undrawn(H, W, O)
      PROVE  count[d + 1][u] = Onward("exit", count[d], u)
  <2>1. DrawnOn(f[d], u, d + 1, f[d + 1][u])
    BY <1>3, WorkedOn
  <2>2. d \in 0 .. D /\ d + 1 \in 0 .. D
    BY <1>3
  <2>3. /\ u.honest # 0 => LessHonest(u) \in Undrawn(H, W, O)
        /\ u.withholding # 0 => LessWithholding(u) \in Undrawn(H, W, O)
        /\ u.others # 0 => LessOthers(u) \in Undrawn(H, W, O)
    BY LessUndrawn
  <2>4. Ways(u.honest, count[d][LessHonest(u)]) = Ways(u.honest, f[d][LessHonest(u)].exit)
    BY <1>1, <2>2, <2>3 DEF Ways
  <2>5. Ways(u.withholding, count[d][LessWithholding(u)])
          = Ways(u.withholding, f[d][LessWithholding(u)].exit)
    BY <1>1, <2>2, <2>3 DEF Ways
  <2>6. Ways(u.others, count[d][LessOthers(u)]) = Ways(u.others, f[d][LessOthers(u)].exit)
    BY <1>1, <2>2, <2>3 DEF Ways
  <2>7. count[d + 1][u] = f[d + 1][u].exit
    BY <1>1, <2>2
  <2> QED  BY <2>1, <2>4, <2>5, <2>6, <2>7 DEF DrawnOn, Onward
<1>4. Recurs("exit", count, H, W, O, D)
  BY <1>2, <1>3 DEF Recurs
<1> QED  BY <1>4 DEF count

LEMMA LessTotal ==
  ASSUME NEW H \in Int, NEW W \in Int, NEW O \in Int, NEW u \in Undrawn(H, W, O)
  PROVE  /\ Total(LessHonest(u)) = Total(u) - 1 /\ Total(LessWithholding(u)) = Total(u) - 1
         /\ Total(LessOthers(u)) = Total(u) - 1
<1>1. PICK h, w, o \in Int : h = u.honest /\ w = u.withholding /\ o = u.others
  <2>1. /\ u.honest \in Nat /\ u.withholding \in Nat /\ u.others \in Nat
        /\ Total(u) \in Nat /\ (u.after = TRUE \/ u.after = FALSE)
    BY UndrawnParts
  <2> QED  BY <2>1
<1>2. Total(u) = h + w + o
  BY <1>1 DEF Total
<1>3. /\ Total(LessHonest(u)) = (h - 1) + w + o /\ Total(LessWithholding(u)) = h + (w - 1) + o
      /\ Total(LessOthers(u)) = h + w + (o - 1)
  BY <1>1 DEF Total, LessHonest, LessWithholding, LessOthers, Left
<1> QED  BY <1>2, <1>3

\* The kinds of what is left, taken together.
LEMMA KindsTogether ==
  ASSUME NEW H \in Int, NEW W \in Int, NEW O \in Int, NEW u \in Undrawn(H, W, O), NEW d \in Nat
  PROVE  Ways(u.honest, Falling(Total(u) - 1, d)) + Ways(u.withholding, Falling(Total(u) - 1, d))
           + Ways(u.others, Falling(Total(u) - 1, d)) = Falling(Total(u), d + 1)
<1>1. PICK h, w, o \in Int : h = u.honest /\ w = u.withholding /\ o = u.others
  <2>1. /\ u.honest \in Nat /\ u.withholding \in Nat /\ u.others \in Nat
        /\ Total(u) \in Nat /\ (u.after = TRUE \/ u.after = FALSE)
    BY UndrawnParts
  <2> QED  BY <2>1
<1>2. PICK t \in Int : t = Total(u) /\ t = h + w + o
  BY <1>1 DEF Total
<1>3. PICK x \in Int : x = Falling(t - 1, d)
  BY FallingInt
<1>4. Ways(h, x) = h * x /\ Ways(w, x) = w * x /\ Ways(o, x) = o * x
  BY DEF Ways
<1>5. Falling(t, d + 1) = t * x
  BY <1>3, FallingFront
<1>6. (h + w + o) * x = h * x + w * x + o * x
  OBVIOUS
<1> QED  BY <1>1, <1>2, <1>3, <1>4, <1>5, <1>6

\* All the chains, by the draws that are left.
Alls(H, W, O, D) == [d \in 0 .. D |-> [u \in Undrawn(H, W, O) |-> Falling(Total(u), d)]]

LEMMA RecursAlls ==
  ASSUME NEW H \in Int, NEW W \in Int, NEW O \in Int, NEW D \in Nat
  PROVE  Recurs("all", Alls(H, W, O, D), H, W, O, D)
<1> DEFINE count == Alls(H, W, O, D)
<1>1. \A d \in 0 .. D : \A u \in Undrawn(H, W, O) : count[d][u] = Falling(Total(u), d)
  BY DEF Alls
<1> HIDE DEF count
<1>2. ASSUME NEW u \in Undrawn(H, W, O)
      PROVE  count[0][u] = IF "all" = "exit" /\ u.after = TRUE THEN 0 ELSE 1
  <2>1. 0 \in 0 .. D /\ Total(u) \in Int
    <3>1. /\ u.honest \in Nat /\ u.withholding \in Nat /\ u.others \in Nat
          /\ Total(u) \in Nat /\ (u.after = TRUE \/ u.after = FALSE)
      BY UndrawnParts
    <3> QED  BY <3>1
  <2>2. Falling(Total(u), 0) = 1
    BY <2>1, FallingZero
  <2> QED  BY <1>1, <2>1, <2>2
<1>3. ASSUME NEW d \in Nat, d < D, NEW u \in Undrawn(H, W, O)
      PROVE  count[d + 1][u] = Onward("all", count[d], u)
  <2>2. d \in 0 .. D /\ d + 1 \in 0 .. D
    BY <1>3
  <2>3. /\ u.honest # 0 => LessHonest(u) \in Undrawn(H, W, O)
        /\ u.withholding # 0 => LessWithholding(u) \in Undrawn(H, W, O)
        /\ u.others # 0 => LessOthers(u) \in Undrawn(H, W, O)
    BY LessUndrawn
  <2>4. /\ Ways(u.honest, count[d][LessHonest(u)]) = Ways(u.honest, Falling(Total(u) - 1, d))
        /\ Ways(u.withholding, count[d][LessWithholding(u)])
             = Ways(u.withholding, Falling(Total(u) - 1, d))
        /\ Ways(u.others, count[d][LessOthers(u)]) = Ways(u.others, Falling(Total(u) - 1, d))
    BY <1>1, <2>2, <2>3, LessTotal DEF Ways
  <2>5. Onward("all", count[d], u) = Falling(Total(u), d + 1)
    BY <2>4, KindsTogether DEF Onward
  <2>6. count[d + 1][u] = Falling(Total(u), d + 1)
    BY <1>1, <2>2
  <2> QED  BY <2>5, <2>6
<1>4. Recurs("all", count, H, W, O, D)
  BY <1>2, <1>3 DEF Recurs
<1> QED  BY <1>4 DEF count

LEMMA WaysAdd ==
  ASSUME NEW h \in Nat, NEW a, NEW b, NEW c,
         h # 0 => a \in Int /\ b \in Int /\ c = a + b
  PROVE  /\ Ways(h, a) \in Int /\ Ways(h, b) \in Int /\ Ways(h, c) \in Int
         /\ Ways(h, a) + Ways(h, b) = Ways(h, c)
<1>1. CASE h = 0
  BY <1>1 DEF Ways
<1>2. CASE h # 0
  <2>1. PICK x, y \in Int : x = a /\ y = b /\ c = x + y
    BY <1>2
  <2>2. h * x \in Int /\ h * y \in Int /\ h * (x + y) = h * x + h * y
    OBVIOUS
  <2> QED  BY <1>2, <2>1, <2>2 DEF Ways
<1> QED  BY <1>1, <1>2

\* Every chain comes up or fails.
Complete(H, W, O, f, d) ==
  \A u \in Undrawn(H, W, O) : Falling(Total(u), d) = f[d][u].up + f[d][u].failed

\* A chain comes up or fails: the two shares of rogueEntryChains make up the whole.
LEMMA WorkedComplete ==
  ASSUME NEW H \in Int, NEW W \in Int, NEW O \in Int, NEW D \in Nat, NEW f,
         Worked(H, W, O, D, f), NEW d \in 0 .. D
  PROVE  Complete(H, W, O, f, d)
<1> DEFINE T == {k \in Nat : k <= D => Complete(H, W, O, f, k)}
<1>1. 0 \in T
  <2> SUFFICES ASSUME NEW u \in Undrawn(H, W, O)
               PROVE  Falling(Total(u), 0) = f[0][u].up + f[0][u].failed
    BY DEF Complete
  <2>1. ExitOnly(f[0][u], u)
    BY WorkedStart
  <2>2. Total(u) \in Int
    <3>1. /\ u.honest \in Nat /\ u.withholding \in Nat /\ u.others \in Nat
          /\ Total(u) \in Nat /\ (u.after = TRUE \/ u.after = FALSE)
      BY UndrawnParts
    <3> QED  BY <3>1
  <2>3. Falling(Total(u), 0) = 1
    BY <2>2, FallingZero
  <2> QED  BY <2>1, <2>3 DEF ExitOnly
<1>2. ASSUME NEW k \in Nat, k \in T PROVE k + 1 \in T
  <2> SUFFICES ASSUME k + 1 <= D PROVE Complete(H, W, O, f, k + 1)
    OBVIOUS
  <2>1. Complete(H, W, O, f, k) /\ k < D /\ k \in 0 .. D
    BY <1>2
  <2> SUFFICES ASSUME NEW u \in Undrawn(H, W, O)
               PROVE  Falling(Total(u), k + 1) = f[k + 1][u].up + f[k + 1][u].failed
    BY DEF Complete
  <2>2. Summed(f[k], H, W, O)
    BY <2>1, WorkedSums
  <2>3. DrawnOn(f[k], u, k + 1, f[k + 1][u])
    BY <2>1, WorkedOn
  <2>4. PICK r : r = f[k + 1][u]
    OBVIOUS
  <2>5. /\ u.honest \in Nat /\ u.withholding \in Nat /\ u.others \in Nat
        /\ Total(u) \in Nat /\ (u.after = TRUE \/ u.after = FALSE)
    BY UndrawnParts
  <2>6. PICK x : x = Falling(Total(u) - 1, k)
    OBVIOUS
  <2>7. x \in Int
    BY <2>5, <2>6, FallingInt
  <2>8. /\ u.honest # 0 => LessHonest(u) \in Undrawn(H, W, O)
        /\ u.withholding # 0 => LessWithholding(u) \in Undrawn(H, W, O)
        /\ u.others # 0 => LessOthers(u) \in Undrawn(H, W, O)
    BY LessUndrawn
  <2>9. ASSUME NEW v \in Undrawn(H, W, O), Total(v) = Total(u) - 1
        PROVE  f[k][v].up \in Int /\ f[k][v].failed \in Int /\ x = f[k][v].up + f[k][v].failed
    BY <2>1, <2>2, <2>6, <2>9 DEF Complete, Summed, Sums
  <2>10. /\ Total(LessHonest(u)) = Total(u) - 1 /\ Total(LessWithholding(u)) = Total(u) - 1
         /\ Total(LessOthers(u)) = Total(u) - 1
    BY LessTotal
  <2>11. PICK a, b : a = f[k][LessHonest(u)].up /\ b = f[k][LessHonest(u)].failed
    OBVIOUS
  <2>12. /\ Ways(u.honest, a) \in Int /\ Ways(u.honest, b) \in Int /\ Ways(u.honest, x) \in Int
         /\ Ways(u.honest, a) + Ways(u.honest, b) = Ways(u.honest, x)
    <3>1. u.honest # 0 => a \in Int /\ b \in Int /\ x = a + b
      BY <2>8, <2>9, <2>10, <2>11
    <3> QED  BY <2>5, <3>1, WaysAdd
  <2>13. PICK p, q : p = f[k][LessWithholding(u)].up /\ q = f[k][LessWithholding(u)].failed
    OBVIOUS
  <2>14. /\ Ways(u.withholding, p) \in Int /\ Ways(u.withholding, q) \in Int
         /\ Ways(u.withholding, x) \in Int
         /\ Ways(u.withholding, p) + Ways(u.withholding, q) = Ways(u.withholding, x)
    <3>1. u.withholding # 0 => p \in Int /\ q \in Int /\ x = p + q
      BY <2>8, <2>9, <2>10, <2>13
    <3> QED  BY <2>5, <3>1, WaysAdd
  <2>15. PICK s, t : s = f[k][LessOthers(u)].up /\ t = f[k][LessOthers(u)].failed
    OBVIOUS
  <2>16. /\ Ways(u.others, s) \in Int /\ Ways(u.others, t) \in Int /\ Ways(u.others, x) \in Int
         /\ Ways(u.others, s) + Ways(u.others, t) = Ways(u.others, x)
    <3>1. u.others # 0 => s \in Int /\ t \in Int /\ x = s + t
      BY <2>8, <2>9, <2>10, <2>15
    <3> QED  BY <2>5, <3>1, WaysAdd
  <2>17. u.withholding * x = Ways(u.withholding, x)
    BY <2>5, <2>7 DEF Ways
  <2>18. (k + 1) - 1 = k
    OBVIOUS
  <2>19. /\ r.up = Ways(u.honest, a) + (IF u.after = TRUE THEN 0 ELSE Ways(u.withholding, p))
                     + Ways(u.others, s)
         /\ r.failed = Ways(u.honest, b) + (IF u.after = TRUE THEN Ways(u.withholding, x)
                                            ELSE Ways(u.withholding, q)) + Ways(u.others, t)
    BY <2>3, <2>4, <2>6, <2>11, <2>13, <2>15, <2>17, <2>18 DEF DrawnOn
  <2>20. r.up + r.failed = Ways(u.honest, x) + Ways(u.withholding, x) + Ways(u.others, x)
    <3>1. CASE u.after = TRUE
      BY <2>12, <2>14, <2>16, <2>19, <3>1
    <3>2. CASE u.after = FALSE
      BY <2>12, <2>14, <2>16, <2>19, <3>2
    <3> QED  BY <2>5, <3>1, <3>2
  <2>21. Ways(u.honest, Falling(Total(u) - 1, k)) + Ways(u.withholding, Falling(Total(u) - 1, k))
           + Ways(u.others, Falling(Total(u) - 1, k)) = Falling(Total(u), k + 1)
    BY KindsTogether
  <2> QED  BY <2>4, <2>6, <2>20, <2>21
<1>3. Nat \subseteq T
  <2> HIDE DEF T
  <2> QED  BY <1>1, <1>2, Counting
<1> QED  BY <1>3

\* With no node withholding every chain comes up.
NoneFails(H, W, O, f, d) == \A u \in Undrawn(H, W, O) : u.withholding = 0 => f[d][u].failed = 0

\* With no withholding node no chain fails.
LEMMA WorkedNoneFails ==
  ASSUME NEW H \in Int, NEW W \in Int, NEW O \in Int, NEW D \in Nat, NEW f,
         Worked(H, W, O, D, f), NEW d \in 0 .. D
  PROVE  NoneFails(H, W, O, f, d)
<1> DEFINE T == {k \in Nat : k <= D => NoneFails(H, W, O, f, k)}
<1>1. 0 \in T
  <2> SUFFICES ASSUME NEW u \in Undrawn(H, W, O) PROVE f[0][u].failed = 0
    BY DEF NoneFails
  <2>1. ExitOnly(f[0][u], u)
    BY WorkedStart
  <2> QED  BY <2>1 DEF ExitOnly
<1>2. ASSUME NEW k \in Nat, k \in T PROVE k + 1 \in T
  <2> SUFFICES ASSUME k + 1 <= D PROVE NoneFails(H, W, O, f, k + 1)
    OBVIOUS
  <2>1. NoneFails(H, W, O, f, k) /\ k < D
    BY <1>2
  <2> SUFFICES ASSUME NEW u \in Undrawn(H, W, O), u.withholding = 0
               PROVE  f[k + 1][u].failed = 0
    BY DEF NoneFails
  <2>2. DrawnOn(f[k], u, k + 1, f[k + 1][u])
    BY <2>1, WorkedOn
  <2>3. PICK r : r = f[k + 1][u]
    OBVIOUS
  <2>4. /\ u.honest \in Nat /\ u.withholding \in Nat /\ u.others \in Nat
        /\ Total(u) \in Nat /\ (u.after = TRUE \/ u.after = FALSE)
    BY UndrawnParts
  <2>5. PICK x \in Int : x = Falling(Total(u) - 1, (k + 1) - 1)
    <3>1. (k + 1) - 1 \in Nat /\ Total(u) - 1 \in Int
      BY <2>4
    <3> QED  BY <3>1, FallingInt
  <2>6. /\ u.honest # 0 => LessHonest(u) \in Undrawn(H, W, O)
        /\ u.withholding # 0 => LessWithholding(u) \in Undrawn(H, W, O)
        /\ u.others # 0 => LessOthers(u) \in Undrawn(H, W, O)
    BY LessUndrawn
  <2>7. LessHonest(u).withholding = 0 /\ LessOthers(u).withholding = 0
    BY DEF LessHonest, LessOthers, Left
  <2>8. Ways(u.honest, f[k][LessHonest(u)].failed) = 0
    BY <2>1, <2>4, <2>6, <2>7 DEF Ways, NoneFails
  <2>9. Ways(u.others, f[k][LessOthers(u)].failed) = 0
    BY <2>1, <2>4, <2>6, <2>7 DEF Ways, NoneFails
  <2>10. u.withholding * x = 0 /\ Ways(u.withholding, f[k][LessWithholding(u)].failed) = 0
    BY DEF Ways
  <2>11. r.failed = Ways(u.honest, f[k][LessHonest(u)].failed)
                     + (IF u.after = TRUE THEN u.withholding * x
                        ELSE Ways(u.withholding, f[k][LessWithholding(u)].failed))
                     + Ways(u.others, f[k][LessOthers(u)].failed)
    BY <2>2, <2>3, <2>5 DEF DrawnOn
  <2>12. r.failed = 0
    BY <2>8, <2>9, <2>10, <2>11
  <2> QED  BY <2>3, <2>12
<1>3. Nat \subseteq T
  <2> HIDE DEF T
  <2> QED  BY <1>1, <1>2, Counting
<1> QED  BY <1>3

\* And every rogue node is as often the exit as any other.
EvenExits(H, W, O, f, k) ==
  \A u \in Undrawn(H, W, O) :
     u.withholding = 0 => f[k + 1][u].exit = u.others * Falling(Total(u) - 1, k)

\* And every other rogue node is as often the exit as any node.
LEMMA WorkedExits ==
  ASSUME NEW H \in Int, NEW W \in Int, NEW O \in Int, NEW D \in Nat, NEW f,
         Worked(H, W, O, D, f), NEW d \in Nat, d < D
  PROVE  EvenExits(H, W, O, f, d)
<1>0. ASSUME NEW k \in Nat, k < D, NEW u \in Undrawn(H, W, O), u.withholding = 0
      PROVE  f[k + 1][u].exit = Ways(u.honest, f[k][LessHonest(u)].exit)
                                  + Ways(u.others, f[k][LessOthers(u)].exit)
  <2>1. DrawnOn(f[k], u, k + 1, f[k + 1][u])
    BY <1>0, WorkedOn
  <2>2. PICK r : r = f[k + 1][u]
    OBVIOUS
  <2>3. Ways(u.withholding, f[k][LessWithholding(u)].exit) = 0
    BY <1>0 DEF Ways
  <2>4. r.exit = Ways(u.honest, f[k][LessHonest(u)].exit)
                   + (IF u.after = TRUE THEN 0
                      ELSE Ways(u.withholding, f[k][LessWithholding(u)].exit))
                   + Ways(u.others, f[k][LessOthers(u)].exit)
    BY <2>1, <2>2 DEF DrawnOn
  <2>5. Ways(u.honest, f[k][LessHonest(u)].exit) \in Int
    <3>1. /\ u.honest \in Nat /\ u.withholding \in Nat /\ u.others \in Nat
          /\ Total(u) \in Nat /\ (u.after = TRUE \/ u.after = FALSE)
      BY UndrawnParts
    <3>2. k \in 0 .. D
      BY <1>0
    <3>3. Summed(f[k], H, W, O)
      BY <3>2, WorkedSums
    <3>4. u.honest # 0 => LessHonest(u) \in Undrawn(H, W, O)
      BY LessUndrawn
    <3>5. u.honest # 0 => f[k][LessHonest(u)].exit \in Int
      BY <3>3, <3>4 DEF Summed, Sums
    <3> QED  BY <3>1, <3>5 DEF Ways
  <2>6. r.exit = Ways(u.honest, f[k][LessHonest(u)].exit)
                   + Ways(u.others, f[k][LessOthers(u)].exit)
    BY <2>3, <2>4, <2>5
  <2> QED  BY <2>2, <2>6
<1> DEFINE T == {k \in Nat : k < D => EvenExits(H, W, O, f, k)}
<1>1. 0 \in T
  <2> SUFFICES ASSUME 0 < D, NEW u \in Undrawn(H, W, O), u.withholding = 0
               PROVE  f[0 + 1][u].exit = u.others * Falling(Total(u) - 1, 0)
    BY DEF EvenExits
  <2>1. f[0 + 1][u].exit = Ways(u.honest, f[0][LessHonest(u)].exit)
                             + Ways(u.others, f[0][LessOthers(u)].exit)
    BY <1>0
  <2>2. /\ u.honest \in Nat /\ u.withholding \in Nat /\ u.others \in Nat
        /\ Total(u) \in Nat /\ (u.after = TRUE \/ u.after = FALSE)
    BY UndrawnParts
  <2>3. /\ u.honest # 0 => LessHonest(u) \in Undrawn(H, W, O)
        /\ u.withholding # 0 => LessWithholding(u) \in Undrawn(H, W, O)
        /\ u.others # 0 => LessOthers(u) \in Undrawn(H, W, O)
    BY LessUndrawn
  <2>4. LessHonest(u).after = TRUE /\ LessOthers(u).after = FALSE
    BY DEF LessHonest, LessOthers, Left
  <2>5. Ways(u.honest, f[0][LessHonest(u)].exit) = 0
    <3>1. u.honest # 0 => ExitOnly(f[0][LessHonest(u)], LessHonest(u))
      BY <2>3, WorkedStart
    <3>2. u.honest # 0 => f[0][LessHonest(u)].exit = 0
      BY <2>4, <3>1 DEF ExitOnly
    <3> QED  BY <2>2, <3>2 DEF Ways
  <2>6. Ways(u.others, f[0][LessOthers(u)].exit) = u.others
    <3>1. u.others # 0 => ExitOnly(f[0][LessOthers(u)], LessOthers(u))
      BY <2>3, WorkedStart
    <3>2. u.others # 0 => f[0][LessOthers(u)].exit = 1
      BY <2>4, <3>1 DEF ExitOnly
    <3> QED  BY <2>2, <3>2 DEF Ways
  <2>7. Falling(Total(u) - 1, 0) = 1
    BY <2>2, FallingZero
  <2> QED  BY <2>1, <2>2, <2>5, <2>6, <2>7
<1>2. ASSUME NEW k \in Nat, k \in T PROVE k + 1 \in T
  <2> SUFFICES ASSUME k + 1 < D PROVE EvenExits(H, W, O, f, k + 1)
    OBVIOUS
  <2>1. EvenExits(H, W, O, f, k) /\ k + 1 \in Nat
    BY <1>2
  <2> SUFFICES ASSUME NEW u \in Undrawn(H, W, O), u.withholding = 0
               PROVE  f[(k + 1) + 1][u].exit = u.others * Falling(Total(u) - 1, k + 1)
    BY DEF EvenExits
  <2>2. f[(k + 1) + 1][u].exit = Ways(u.honest, f[k + 1][LessHonest(u)].exit)
                                   + Ways(u.others, f[k + 1][LessOthers(u)].exit)
    BY <1>0, <2>1
  <2>3. /\ u.honest \in Nat /\ u.withholding \in Nat /\ u.others \in Nat
        /\ Total(u) \in Nat /\ (u.after = TRUE \/ u.after = FALSE)
    BY UndrawnParts
  <2>4. PICK h, o \in Nat : h = u.honest /\ o = u.others
    BY <2>3
  <2>5. Total(u) = h + o
    BY <2>3, <2>4 DEF Total
  <2>6. /\ u.honest # 0 => LessHonest(u) \in Undrawn(H, W, O)
        /\ u.withholding # 0 => LessWithholding(u) \in Undrawn(H, W, O)
        /\ u.others # 0 => LessOthers(u) \in Undrawn(H, W, O)
    BY LessUndrawn
  <2>7. /\ LessHonest(u).withholding = 0 /\ LessOthers(u).withholding = 0
        /\ LessHonest(u).others = o /\ LessOthers(u).others = o - 1
    BY <2>4 DEF LessHonest, LessOthers, Left
  <2>8. PICK x \in Int : x = Falling((h + o) - 1 - 1, k)
    BY FallingInt
  <2>9. Total(LessHonest(u)) = (h + o) - 1 /\ Total(LessOthers(u)) = (h + o) - 1
    BY <2>5, LessTotal
  <2>10. h # 0 => f[k + 1][LessHonest(u)].exit = o * x
    BY <2>1, <2>4, <2>6, <2>7, <2>8, <2>9 DEF EvenExits
  <2>11. o # 0 => f[k + 1][LessOthers(u)].exit = (o - 1) * x
    BY <2>1, <2>4, <2>6, <2>7, <2>8, <2>9 DEF EvenExits
  <2>12. Ways(h, f[k + 1][LessHonest(u)].exit) = h * (o * x)
    <3>1. CASE h = 0
      <4>1. o * x \in Int
        OBVIOUS
      <4> QED  BY <3>1, <4>1 DEF Ways
    <3>2. CASE h # 0
      BY <2>10, <3>2 DEF Ways
    <3> QED  BY <3>1, <3>2
  <2>13. Ways(o, f[k + 1][LessOthers(u)].exit) = o * ((o - 1) * x)
    <3>1. CASE o = 0
      <4>1. (o - 1) * x \in Int
        OBVIOUS
      <4> QED  BY <3>1, <4>1 DEF Ways
    <3>2. CASE o # 0
      BY <2>11, <3>2 DEF Ways
    <3> QED  BY <3>1, <3>2
  <2>14. Falling((h + o) - 1, k + 1) = ((h + o) - 1) * x
    BY <2>8, FallingFront
  <2>15. h * (o * x) + o * ((o - 1) * x) = o * (((h + o) - 1) * x)
    OBVIOUS
  <2> QED  BY <2>2, <2>4, <2>5, <2>12, <2>13, <2>14, <2>15
<1>3. Nat \subseteq T
  <2> HIDE DEF T
  <2> QED  BY <1>1, <1>2, Counting
<1> QED  BY <1>3

-----------------------------------------------------------------------------
(* The paths of the draws of one entry. *)

\* The path that the draws js lead to.
PathOf(c, js) == FoldLeft(Take, c, js).path

LEMMA PathRun ==
  ASSUME NEW c, NEW k \in Nat, NEW n, NEW js, Dice(js, k, n)
  PROVE  \E run : Run(c, js, k, run) /\ PathOf(c, js) = run[k].path
<1>1. DOMAIN js = 1 .. k
  BY DiceNumbers
<1>2. PICK run : Run(c, js, k, run)
  BY RunExists
<1>3. FoldLeft(Take, c, js) = run[k]
  BY <1>1, <1>2, FoldRun
<1> QED  BY <1>2, <1>3 DEF PathOf

\* The ordered choices of k more among n places, from place e.
Orders(e, n, k) == {p \in [1 .. k + 1 -> 1 .. n] : IsInjective(p) /\ p[1] = e}

LEMMA DicePath ==
  ASSUME NEW n \in Nat, NEW e \in 1 .. n, NEW c, Shuffled(c, e, n), Len(c.path) = 1,
         NEW k \in 0 .. n - 1, NEW js, Dice(js, k, n)
  PROVE  PathOf(c, js) \in Orders(e, n, k)
<1>1. PICK run : Run(c, js, k, run) /\ PathOf(c, js) = run[k].path
  <2>1. k \in Nat
    OBVIOUS
  <2> QED  BY <2>1, PathRun
<1>2. Numbers(js, k)
  BY DiceNumbers
<1>3. /\ run[k].path \in [1 .. k + 1 -> 1 .. n]
      /\ IsInjective(run[k].path) /\ run[k].path[1] = e
  BY <1>1, <1>2, RunPath
<1> QED  BY <1>1, <1>3 DEF Orders

\* Two sequences of draws with one path are one.
LEMMA DiceOnce ==
  ASSUME NEW n \in Nat, NEW e \in 1 .. n, NEW c, Shuffled(c, e, n), Len(c.path) = 1,
         NEW k \in 0 .. n - 1, NEW js, Dice(js, k, n), NEW us, Dice(us, k, n),
         PathOf(c, js) = PathOf(c, us)
  PROVE  js = us
<1>1. PICK run : Run(c, js, k, run) /\ PathOf(c, js) = run[k].path
  <2>1. k \in Nat
    OBVIOUS
  <2> QED  BY <2>1, PathRun
<1>2. PICK rum : Run(c, us, k, rum) /\ PathOf(c, us) = rum[k].path
  <2>1. k \in Nat
    OBVIOUS
  <2> QED  BY <2>1, PathRun
<1>3. Numbers(js, k) /\ Numbers(us, k)
  BY DiceNumbers
<1>4. run[k].path = rum[k].path
  BY <1>1, <1>2
<1>5. SamePlaces(js, us, k, n)
  BY <1>1, <1>2, <1>3, <1>4, RunOnce
<1>6. ASSUME NEW i \in 1 .. k PROVE js[i] = us[i]
  <2>1. PICK m \in Nat \ {0} : m = n - i
    OBVIOUS
  <2>2. js[i] \in 0 .. m - 1 /\ us[i] \in 0 .. m - 1
    BY <2>1 DEF Dice
  <2>3. js[i] % m = js[i] /\ us[i] % m = us[i]
    BY <2>2, SmallRemainder
  <2>4. js[i] % m = us[i] % m
    BY <1>5, <2>1 DEF SamePlaces
  <2> QED  BY <2>3, <2>4
<1>7. js = [i \in 1 .. k |-> js[i]] /\ us = [i \in 1 .. k |-> us[i]]
  BY DEF Dice
<1> QED  BY Zenon, <1>6, <1>7

\* Every order of distinct places is drawn.
LEMMA DiceAll ==
  ASSUME NEW n \in Nat, NEW e \in 1 .. n, NEW c, Shuffled(c, e, n), Len(c.path) = 1,
         NEW k \in 0 .. n - 1, NEW p \in Orders(e, n, k)
  PROVE  \E js : Dice(js, k, n) /\ PathOf(c, js) = p
<1>1. PICK q \in [1 .. k + 1 -> 1 .. n] : q = p /\ IsInjective(q) /\ q[1] = e
  BY DEF Orders
<1>2. Reached(c, q, n, k)
  BY <1>1, FollowsAll
<1>3. PICK js, run : Dice(js, k, n) /\ Run(c, js, k, run) /\ run[k].path = q
  BY <1>2 DEF Reached
<1>4. DOMAIN js = 1 .. k /\ k \in Nat
  BY <1>3, DiceNumbers
<1>5. FoldLeft(Take, c, js) = run[k]
  BY <1>3, <1>4, FoldRun
<1> QED  BY <1>1, <1>3, <1>5 DEF PathOf

LEMMA BijectionCount ==
  ASSUME NEW A, NEW B, IsFiniteSet(B), NEW f \in Bijection(A, B), NEW Q
  PROVE  Cardinality({a \in A : f[a] \in Q}) = Cardinality({b \in B : b \in Q})
<1> DEFINE X == {a \in A : f[a] \in Q}
           Y == {b \in B : b \in Q}
           g == [a \in X |-> f[a]]
<1>1. /\ f \in [A -> B] /\ \A a, b \in A : f[a] = f[b] => a = b
      /\ \A b \in B : \E a \in A : f[a] = b
  BY DEF Bijection, Injection, IsInjective, Surjection
<1>2. g \in [X -> Y]
  BY <1>1
<1>3. ASSUME NEW a \in X, NEW b \in X, g[a] = g[b] PROVE a = b
  BY <1>1, <1>3
<1>4. ASSUME NEW b \in Y PROVE \E a \in X : g[a] = b
  BY <1>1
<1>5. IsFiniteSet(Y)
  <2>1. Y \subseteq B
    OBVIOUS
  <2> HIDE DEF Y
  <2> QED  BY <2>1, FS_Subset
<1> HIDE DEF X, Y, g
<1>6. g \in Bijection(X, Y)
  BY <1>2, <1>3, <1>4 DEF Bijection, Injection, IsInjective, Surjection
<1>7. ExistsBijection(Y, X)
  BY <1>6, Fun_ExistsBijSymmetric DEF ExistsBijection
<1>8. Cardinality(X) = Cardinality(Y)
  BY <1>5, <1>7, FS_Bijection
<1> QED  BY <1>8 DEF X, Y

\* The nodes in the mirror of entry e.
Listed(e) == {i \in 1 .. plan.nodes : MirrorOf(e)[i]}

\* The draws of an entry that holds m nodes, and its path from place s.
Throws(k, m) == {js \in [1 .. k -> Nat] : Dice(js, k, m)}

LEMMA DrawnIs ==
  ASSUME NEW e, NEW s, s = Place(MirrorOf(e), e), NEW m \in Nat, m = Len(Held(MirrorOf(e))),
         s \in 1 .. m, NEW k \in 0 .. m - 1, k = plan.hops - 1
  PROVE  /\ DOMAIN Drawn(e) = Throws(k, m)
         /\ \A js \in Throws(k, m) :
              Drawn(e)[js] = [i \in DOMAIN PathOf(Begin(s, m), js) |->
                                Held(MirrorOf(e))[PathOf(Begin(s, m), js)[i]]]
<1> DEFINE c == Begin(s, m)
           T == {js \in [1 .. k -> 0 .. m] : \A i \in 1 .. k : js[i] < Bound(c) - i + 1}
<1>1. Drawn(e) = [js \in T |-> [i \in DOMAIN PathOf(c, js) |-> Held(MirrorOf(e))[PathOf(c, js)[i]]]]
  BY Zenon DEF Drawn, PathOf
<1>2. Bound(c) = m - 1
  <2>1. Shuffled(c, s, m) /\ Len(c.path) = 1
    BY BeginDrawn
  <2>2. Len(c.others) = m - 1
    BY <2>1 DEF Shuffled
  <2> HIDE DEF c
  <2> QED  BY <2>1, <2>2 DEF Bound
<1>3. T = Throws(k, m)
  <2> HIDE DEF c
  <2>1. ASSUME NEW js \in T PROVE js \in Throws(k, m)
    <3>1. js \in [1 .. k -> 0 .. m] /\ \A i \in 1 .. k : js[i] < Bound(c) - i + 1
      OBVIOUS
    <3>2. ASSUME NEW i \in 1 .. k PROVE js[i] \in Nat /\ js[i] \in 0 .. m - i - 1
      <4>1. js[i] \in 0 .. m /\ js[i] < (m - 1) - i + 1
        BY <1>2, <3>1
      <4> QED  BY <4>1
    <3>3. js = [i \in 1 .. k |-> js[i]]
      BY <3>1
    <3>4. js \in [1 .. k -> Nat]
      BY <3>2, <3>3
    <3> QED  BY <3>2, <3>4 DEF Throws, Dice
  <2>2. ASSUME NEW js \in Throws(k, m) PROVE js \in T
    <3>1. js \in [1 .. k -> Nat] /\ \A i \in 1 .. k : js[i] \in 0 .. m - i - 1
      BY DEF Throws, Dice
    <3>2. ASSUME NEW i \in 1 .. k PROVE js[i] \in 0 .. m /\ js[i] < Bound(c) - i + 1
      <4>1. js[i] \in 0 .. m - i - 1
        BY <3>1
      <4> QED  BY <1>2, <4>1
    <3>3. js = [i \in 1 .. k |-> js[i]]
      BY <3>1
    <3>4. js \in [1 .. k -> 0 .. m]
      BY <3>2, <3>3
    <3> QED  BY <3>2, <3>4
  <2> HIDE DEF T
  <2> QED  BY <2>1, <2>2
<1> HIDE DEF T
<1> QED  BY <1>1, <1>3

\* The draws of an entry are, one by one, the tours of the nodes it serves.
LEMMA DrawnTours ==
  ASSUME NEW e \in 1 .. plan.nodes, plan.nodes \in Nat,
         MirrorOf(e) \in [1 .. plan.nodes -> BOOLEAN], MirrorOf(e)[e],
         plan.hops \in 1 .. Len(Held(MirrorOf(e)))
  PROVE  Drawn(e) \in Bijection(DOMAIN Drawn(e), Tours(e, Listed(e) \ {e}, plan.hops - 1))
<1>1. PICK served, held : served = MirrorOf(e) /\ held = Held(MirrorOf(e))
  OBVIOUS
<1>2. PICK m \in Nat : m = Len(held)
  BY <1>1, HeldPlaces
<1>3. /\ \A p \in 1 .. m : held[p] \in Listed(e) /\ Place(served, held[p]) = p
      /\ \A i \in Listed(e) : Place(served, i) \in 1 .. m /\ held[Place(served, i)] = i
  <2>1. /\ \A p \in 1 .. Len(Held(served)) :
              /\ Held(served)[p] \in 1 .. plan.nodes
              /\ served[Held(served)[p]]
              /\ Place(served, Held(served)[p]) = p
        /\ \A i \in 1 .. plan.nodes : served[i] =>
              /\ Place(served, i) \in 1 .. Len(Held(served))
              /\ Held(served)[Place(served, i)] = i
    BY <1>1, HeldPlaces
  <2> QED  BY <1>1, <1>2, <2>1 DEF Listed
<1>4. e \in Listed(e)
  BY DEF Listed
<1>5. PICK s \in 1 .. m : s = Place(served, e) /\ held[s] = e
  BY <1>3, <1>4
<1>6. PICK k \in 0 .. m - 1 : k = plan.hops - 1
  BY <1>1, <1>2
<1>7. PICK c : c = Begin(s, m)
  OBVIOUS
<1>8. Shuffled(c, s, m) /\ Len(c.path) = 1
  BY <1>7, BeginDrawn
<1> DEFINE B == Tours(e, Listed(e) \ {e}, k)
           A == Throws(k, m)
<1>9. /\ DOMAIN Drawn(e) = A
      /\ \A js \in A : Drawn(e)[js] = [i \in DOMAIN PathOf(c, js) |-> held[PathOf(c, js)[i]]]
  BY <1>1, <1>2, <1>5, <1>6, <1>7, DrawnIs
<1>10. ASSUME NEW js \in A
       PROVE  /\ Dice(js, k, m) /\ PathOf(c, js) \in Orders(s, m, k)
              /\ DOMAIN PathOf(c, js) = 1 .. k + 1
              /\ Drawn(e)[js] = [i \in 1 .. k + 1 |-> held[PathOf(c, js)[i]]]
              /\ \A i \in 1 .. k + 1 : PathOf(c, js)[i] \in 1 .. m
  <2>1. Dice(js, k, m)
    BY DEF Throws
  <2>2. PathOf(c, js) \in Orders(s, m, k)
    BY <1>8, <2>1, DicePath
  <2>3. DOMAIN PathOf(c, js) = 1 .. k + 1 /\ \A i \in 1 .. k + 1 : PathOf(c, js)[i] \in 1 .. m
    BY <2>2 DEF Orders
  <2> QED  BY <1>9, <2>1, <2>2, <2>3
<1>11. ASSUME NEW js \in A PROVE Drawn(e)[js] \in B
  <2>1. PICK p : p = PathOf(c, js)
    OBVIOUS
  <2>2. p \in [1 .. k + 1 -> 1 .. m] /\ p[1] = s
        /\ \A i, j \in 1 .. k + 1 : p[i] = p[j] => i = j
    BY <1>10, <2>1 DEF Orders, IsInjective
  <2>3. PICK t : t = Drawn(e)[js]
    OBVIOUS
  <2>4. t = [i \in 1 .. k + 1 |-> held[p[i]]]
    BY <1>10, <2>1, <2>3
  <2>5. DOMAIN t = 1 .. k + 1 /\ \A i \in 1 .. k + 1 : t[i] = held[p[i]]
    BY <2>4
  <2>6. t \in [1 .. k + 1 -> (Listed(e) \ {e}) \cup {e}]
    BY <1>3, <1>4, <2>2, <2>4
  <2>7. 1 \in 1 .. k + 1
    OBVIOUS
  <2>8. t[1] = e
    BY <1>5, <2>2, <2>5, <2>7
  <2>9. ASSUME NEW i \in 1 .. k + 1, NEW j \in 1 .. k + 1, t[i] = t[j] PROVE i = j
    <3>1. Place(served, held[p[i]]) = p[i] /\ Place(served, held[p[j]]) = p[j]
      BY <1>3, <2>2
    <3>2. p[i] = p[j]
      BY <2>5, <2>9, <3>1
    <3> QED  BY <2>2, <3>2
  <2>10. IsInjective(t)
    BY <2>5, <2>9 DEF IsInjective
  <2> QED  BY <2>3, <2>6, <2>8, <2>10 DEF Tours
<1>12. ASSUME NEW js \in A, NEW us \in A, Drawn(e)[js] = Drawn(e)[us] PROVE js = us
  <2>1. PICK p, q : p = PathOf(c, js) /\ q = PathOf(c, us)
    OBVIOUS
  <2>2. p \in [1 .. k + 1 -> 1 .. m] /\ q \in [1 .. k + 1 -> 1 .. m]
    BY <1>10, <2>1 DEF Orders
  <2>3. ASSUME NEW i \in 1 .. k + 1 PROVE p[i] = q[i]
    <3>1. PICK t : t = Drawn(e)[js] /\ t = Drawn(e)[us]
      BY <1>12
    <3>2. t = [j \in 1 .. k + 1 |-> held[p[j]]]
      BY <1>10, <2>1, <3>1
    <3>3. t = [j \in 1 .. k + 1 |-> held[q[j]]]
      BY <1>10, <2>1, <3>1
    <3>4. t[i] = held[p[i]]
      BY <3>2
    <3>5. t[i] = held[q[i]]
      BY <3>3
    <3>6. Place(served, held[p[i]]) = p[i] /\ Place(served, held[q[i]]) = q[i]
      BY <1>3, <2>2
    <3> QED  BY <3>4, <3>5, <3>6
  <2>4. p = q
    BY <2>2, <2>3
  <2>5. PathOf(c, js) = PathOf(c, us)
    BY <2>1, <2>4
  <2>6. Dice(js, k, m) /\ Dice(us, k, m)
    BY <1>10
  <2> QED  BY <1>8, <2>5, <2>6, DiceOnce
<1>13. ASSUME NEW t \in B PROVE \E js \in A : Drawn(e)[js] = t
  <2>1. /\ t \in [1 .. k + 1 -> Listed(e)] /\ t[1] = e
        /\ \A i, j \in 1 .. k + 1 : t[i] = t[j] => i = j
    <3>1. (Listed(e) \ {e}) \cup {e} = Listed(e)
      BY <1>4
    <3>2. k \in Nat
      OBVIOUS
    <3> QED  BY <3>1, <3>2, TourIs
  <2> DEFINE p == [i \in 1 .. k + 1 |-> Place(served, t[i])]
  <2>2. p \in [1 .. k + 1 -> 1 .. m]
    BY <1>3, <2>1
  <2>3. \A i \in 1 .. k + 1 : p[i] = Place(served, t[i]) /\ held[p[i]] = t[i]
    BY <1>3, <2>1
  <2> HIDE DEF p
  <2>4. ASSUME NEW i \in 1 .. k + 1, NEW j \in 1 .. k + 1, p[i] = p[j] PROVE i = j
    <3>1. t[i] = t[j]
      BY <2>3, <2>4
    <3> QED  BY <2>1, <3>1
  <2>5. p[1] = s
    <3>1. 1 \in 1 .. k + 1
      OBVIOUS
    <3> QED  BY <1>5, <2>1, <2>3, <3>1
  <2>6. p \in Orders(s, m, k)
    <3>1. IsInjective(p)
      BY <2>2, <2>4 DEF IsInjective
    <3> QED  BY <2>2, <2>5, <3>1 DEF Orders
  <2>7. PICK js : Dice(js, k, m) /\ PathOf(c, js) = p
    BY <1>8, <2>6, DiceAll
  <2>8. js \in A
    BY <2>7 DEF Throws, Dice
  <2>9. Drawn(e)[js] = [i \in 1 .. k + 1 |-> held[p[i]]]
    BY <1>10, <2>7, <2>8
  <2>10. t = [i \in 1 .. k + 1 |-> t[i]]
    BY <2>1
  <2>11. [i \in 1 .. k + 1 |-> held[p[i]]] = t
    BY Zenon, <2>3, <2>10
  <2> QED  BY <2>8, <2>9, <2>11
<1>14. Drawn(e) = [js \in A |-> Drawn(e)[js]]
  BY <1>9 DEF Drawn
<1> HIDE DEF A, B
<1>15. Drawn(e) \in [A -> B]
  BY <1>11, <1>14
<1>16. Drawn(e) \in Bijection(A, B)
  BY <1>12, <1>13, <1>15 DEF Bijection, Injection, IsInjective, Surjection
<1> QED  BY <1>6, <1>9, <1>16 DEF B

\* The nodes that entry e leaves out.
Gone(e) == IF e <= plan.rogue THEN plan.leftOut ELSE plan.withheld

LEMMA MirrorIs ==
  ASSUME Planned, NEW e \in 1 .. plan.nodes
  PROVE  /\ MirrorOf(e) \in [1 .. plan.nodes -> BOOLEAN] /\ DOMAIN MirrorOf(e) = 1 .. plan.nodes
         /\ \A i \in 1 .. plan.nodes :
              /\ e <= plan.rogue => (MirrorOf(e)[i] <=> i <= plan.nodes - plan.leftOut)
              /\ ~(e <= plan.rogue) => (MirrorOf(e)[i] <=> i > plan.withheld)
         /\ MirrorOf(e)[e] /\ Len(MirrorOf(e)) = plan.nodes
<1>1. CASE e <= plan.rogue
  <2>1. MirrorOf(e) = [i \in 1 .. plan.nodes |-> i <= plan.nodes - plan.leftOut]
    BY <1>1 DEF MirrorOf
  <2>2. e <= plan.nodes - plan.leftOut
    BY <1>1, PlanTypes
  <2>3. PICK b : b = plan.nodes - plan.leftOut
    OBVIOUS
  <2>4. MirrorOf(e) = [i \in 1 .. plan.nodes |-> i <= b]
    BY <2>1, <2>3
  <2>5. DOMAIN MirrorOf(e) = 1 .. plan.nodes /\ \A i \in 1 .. plan.nodes : MirrorOf(e)[i] = (i <= b)
    BY <2>4
  <2>6. MirrorOf(e) \in [1 .. plan.nodes -> BOOLEAN]
    <3>1. b \in Int /\ plan.nodes \in Int
      BY <2>3, PlanTypes
    <3>2. \A i \in 1 .. plan.nodes : (i <= b) \in BOOLEAN
      BY <3>1
    <3> QED  BY Zenon, <2>4, <3>2
  <2>7. Len(MirrorOf(e)) = plan.nodes
    BY <2>6, PlanTypes
  <2> QED  BY <1>1, <2>2, <2>3, <2>5, <2>6, <2>7
<1>2. CASE ~(e <= plan.rogue)
  <2>1. MirrorOf(e) = [i \in 1 .. plan.nodes |-> i > plan.withheld]
    BY <1>2 DEF MirrorOf
  <2>2. e > plan.withheld
    BY <1>2, PlanTypes
  <2>3. DOMAIN MirrorOf(e) = 1 .. plan.nodes
        /\ \A i \in 1 .. plan.nodes : MirrorOf(e)[i] = (i > plan.withheld)
    BY <2>1
  <2>4. MirrorOf(e) \in [1 .. plan.nodes -> BOOLEAN]
    <3>1. \A i \in 1 .. plan.nodes : (i > plan.withheld) \in BOOLEAN
      BY PlanTypes
    <3> QED  BY Zenon, <2>1, <3>1
  <2>5. Len(MirrorOf(e)) = plan.nodes
    BY <2>4, PlanTypes
  <2> QED  BY <1>2, <2>2, <2>3, <2>4, <2>5
<1> QED  BY <1>1, <1>2

\* The nodes in the mirror, and how many are absent from it.
LEMMA ListedIs ==
  ASSUME Planned, NEW e \in 1 .. plan.nodes
  PROVE  /\ e <= plan.rogue => Listed(e) = 1 .. plan.nodes - plan.leftOut
         /\ ~(e <= plan.rogue) => Listed(e) = plan.withheld + 1 .. plan.nodes
         /\ IsFiniteSet(Listed(e)) /\ e \in Listed(e) /\ Listed(e) \subseteq 1 .. plan.nodes
         /\ Cardinality(Listed(e)) = plan.nodes - Gone(e)
         /\ Absent(MirrorOf(e)) = Gone(e)
<1>1. CASE e <= plan.rogue
  <2>1. Listed(e) = 1 .. plan.nodes - plan.leftOut
    BY <1>1, MirrorIs, PlanTypes DEF Listed
  <2>2. {i \in DOMAIN MirrorOf(e) : ~MirrorOf(e)[i]} = plan.nodes - plan.leftOut + 1 .. plan.nodes
    <3>1. {i \in DOMAIN MirrorOf(e) : ~MirrorOf(e)[i]}
            = {i \in 1 .. plan.nodes : ~(i <= plan.nodes - plan.leftOut)}
      BY <1>1, MirrorIs
    <3>2. {i \in 1 .. plan.nodes : ~(i <= plan.nodes - plan.leftOut)}
            = plan.nodes - plan.leftOut + 1 .. plan.nodes
      BY PlanTypes
    <3> QED  BY <3>1, <3>2
  <2>3. /\ IsFiniteSet(1 .. plan.nodes - plan.leftOut)
        /\ Cardinality(1 .. plan.nodes - plan.leftOut) = plan.nodes - plan.leftOut
    <3>1. PICK b \in Nat : b = plan.nodes - plan.leftOut
      BY PlanTypes
    <3>2. IsFiniteSet(1 .. b) /\ Cardinality(1 .. b) = IF 1 > b THEN 0 ELSE b - 1 + 1
      BY FS_Interval
    <3>3. IsFiniteSet(1 .. b) /\ Cardinality(1 .. b) = b
      BY <3>2
    <3> QED  BY <3>1, <3>3
  <2>4. Cardinality(plan.nodes - plan.leftOut + 1 .. plan.nodes) = plan.leftOut
    <3>1. PICK a \in Int, b \in Int, c \in Int :
             a = plan.nodes - plan.leftOut + 1 /\ b = plan.nodes /\ c = plan.leftOut
      BY PlanTypes
    <3>2. Cardinality(a .. b) = IF a > b THEN 0 ELSE b - a + 1
      BY FS_Interval
    <3>3. b - a + 1 = c /\ c >= 0
      BY <3>1, PlanTypes
    <3>4. Cardinality(a .. b) = c
      BY <3>2, <3>3
    <3> QED  BY <3>1, <3>4
  <2>5. e \in Listed(e)
    BY MirrorIs DEF Listed
  <2>6. Gone(e) = plan.leftOut
    BY <1>1 DEF Gone
  <2>7. Listed(e) \subseteq 1 .. plan.nodes
    BY DEF Listed
  <2> QED  BY <1>1, <2>1, <2>2, <2>3, <2>4, <2>5, <2>6, <2>7 DEF Absent
<1>2. CASE ~(e <= plan.rogue)
  <2>1. Listed(e) = plan.withheld + 1 .. plan.nodes
    BY <1>2, MirrorIs, PlanTypes DEF Listed
  <2>2. {i \in DOMAIN MirrorOf(e) : ~MirrorOf(e)[i]} = 1 .. plan.withheld
    <3>1. {i \in DOMAIN MirrorOf(e) : ~MirrorOf(e)[i]}
            = {i \in 1 .. plan.nodes : ~(i > plan.withheld)}
      BY <1>2, MirrorIs
    <3>2. {i \in 1 .. plan.nodes : ~(i > plan.withheld)} = 1 .. plan.withheld
      BY PlanTypes
    <3> QED  BY <3>1, <3>2
  <2>3. Cardinality(1 .. plan.withheld) = plan.withheld
    BY PlanTypes, FS_Interval
  <2>4. /\ IsFiniteSet(plan.withheld + 1 .. plan.nodes)
        /\ Cardinality(plan.withheld + 1 .. plan.nodes) = plan.nodes - plan.withheld
    <3>1. PICK a \in Int, b \in Int, c \in Int :
             a = plan.withheld + 1 /\ b = plan.nodes /\ c = plan.nodes - plan.withheld
      BY PlanTypes
    <3>2. IsFiniteSet(a .. b) /\ Cardinality(a .. b) = IF a > b THEN 0 ELSE b - a + 1
      BY FS_Interval
    <3>3. b - a + 1 = c /\ c >= 0
      BY <3>1, PlanTypes
    <3>4. IsFiniteSet(a .. b) /\ Cardinality(a .. b) = c
      BY <3>2, <3>3
    <3> QED  BY <3>1, <3>4
  <2>5. e \in Listed(e)
    BY MirrorIs DEF Listed
  <2>6. Gone(e) = plan.withheld
    BY <1>2 DEF Gone
  <2>7. Listed(e) \subseteq 1 .. plan.nodes
    BY DEF Listed
  <2> QED  BY <1>2, <2>1, <2>2, <2>3, <2>4, <2>5, <2>6, <2>7 DEF Absent
<1> QED  BY <1>1, <1>2

Judged(e) == JudgeMirror(MirrorOf(e), e, plan.hops, plan.missing)

\* A mirror is taken when the nodes it lacks are no more than allowed.
LEMMA JudgedIs ==
  ASSUME Planned, NEW e \in 1 .. plan.nodes
  PROVE  /\ Judged(e) <=> Gone(e) <= Allowed
         /\ Len(Held(MirrorOf(e))) = plan.nodes - Gone(e)
         /\ Judged(e) => plan.hops \in 1 .. Len(Held(MirrorOf(e)))
<1>1. PICK n, h, m, g \in Int : n = plan.nodes /\ h = plan.hops /\ m = plan.missing /\ g = Gone(e)
  BY PlanTypes DEF Gone
<1>2. Judged(e) <=> g <= MaxAbsent(n, h, m)
  BY <1>1, MirrorIs, ListedIs DEF Judged, JudgeMirror
<1>3. Len(Held(MirrorOf(e))) = n - g
  <2>1. Listed(e) = {i \in DOMAIN MirrorOf(e) : MirrorOf(e)[i]}
    BY MirrorIs DEF Listed
  <2>2. Cardinality(Listed(e)) = n - g /\ Cardinality(Listed(e)) \in Nat
    BY <1>1, ListedIs, FS_CardinalityType
  <2>3. PICK k \in Nat : k = Cardinality({i \in DOMAIN MirrorOf(e) : MirrorOf(e)[i]})
    BY <2>1, <2>2
  <2>4. DOMAIN Held(MirrorOf(e)) = 1 .. k
    BY <2>3 DEF Held
  <2>5. Len(Held(MirrorOf(e))) = k
    BY <1>1, MirrorIs, PlanTypes, <2>3, <2>4 DEF Held
  <2> QED  BY <2>1, <2>2, <2>3, <2>5
<1>4. MaxAbsent(n, h, m) <= n - h /\ MaxAbsent(n, h, m) \in Int
  BY DEF MaxAbsent
<1>5. h >= 1
  BY <1>1, PlanTypes
<1> QED  BY <1>1, <1>2, <1>3, <1>4, <1>5 DEF Allowed

LEMMA EntrySpread ==
  ASSUME Planned, NEW e \in 1 .. plan.nodes
  PROVE  /\ Spread(Listed(e) \ {e}, e)
         /\ Cardinality(Listed(e) \ {e}) = plan.nodes - Gone(e) - 1
         /\ Cardinality(Listed(e) \ {e}) \in Nat
<1>1. IsFiniteSet(Listed(e)) /\ Listed(e) \subseteq 1 .. plan.nodes /\ e \in Listed(e)
  BY ListedIs
<1>2. IsFiniteSet(Listed(e) \ {e})
  BY <1>1, FS_RemoveElement
<1> QED  BY <1>1, <1>2, ListedIs, OneLess, FS_CardinalityType DEF Spread

-----------------------------------------------------------------------------
(* The chains of one entry. *)

\* As many draws lead to a set of tours as it has members.
LEMMA DrawnSet ==
  ASSUME Planned, NEW e \in 1 .. plan.nodes, Judged(e),
         NEW Q, Q \subseteq Tours(e, Listed(e) \ {e}, plan.hops - 1)
  PROVE  /\ Cardinality({js \in DOMAIN Drawn(e) : Drawn(e)[js] \in Q}) = Cardinality(Q)
         /\ IsFiniteSet(DOMAIN Drawn(e))
         /\ \A js \in DOMAIN Drawn(e) : Drawn(e)[js] \in Tours(e, Listed(e) \ {e}, plan.hops - 1)
<1> DEFINE B == Tours(e, Listed(e) \ {e}, plan.hops - 1)
           A == DOMAIN Drawn(e)
<1>1. Drawn(e) \in Bijection(A, B)
  BY MirrorIs, JudgedIs, PlanTypes, DrawnTours
<1>2. IsFiniteSet(B)
  <2>1. plan.hops - 1 \in Nat
    BY PlanTypes
  <2> QED  BY <2>1, EntrySpread, ToursFinite DEF Spread
<1> HIDE DEF A, B
<1>3. Cardinality({js \in A : Drawn(e)[js] \in Q}) = Cardinality({b \in B : b \in Q})
  BY <1>1, <1>2, BijectionCount
<1>4. {b \in B : b \in Q} = Q
  BY DEF B
<1>5. Drawn(e) \in Injection(A, B) /\ Drawn(e) \in [A -> B]
  BY <1>1 DEF Bijection, Injection
<1>6. IsFiniteSet(A)
  BY <1>2, <1>5, FS_Injection
<1> QED  BY <1>3, <1>4, <1>5, <1>6 DEF A, B

LEMMA DrawnCounted ==
  ASSUME Planned, NEW e \in 1 .. plan.nodes, Judged(e), NEW kind
  PROVE  Cardinality({js \in DOMAIN Drawn(e) : Wanted(kind, Drawn(e)[js])})
           = Cardinality(Counted(kind, e, Listed(e) \ {e}, plan.hops - 1))
<1> DEFINE Q == Counted(kind, e, Listed(e) \ {e}, plan.hops - 1)
<1>1. Q \subseteq Tours(e, Listed(e) \ {e}, plan.hops - 1)
  BY DEF Counted
<1>2. /\ Cardinality({js \in DOMAIN Drawn(e) : Drawn(e)[js] \in Q}) = Cardinality(Q)
      /\ \A js \in DOMAIN Drawn(e) : Drawn(e)[js] \in Tours(e, Listed(e) \ {e}, plan.hops - 1)
  <2> HIDE DEF Q
  <2> QED  BY <1>1, DrawnSet
<1>3. \A js \in DOMAIN Drawn(e) : Drawn(e)[js] \in Q <=> Wanted(kind, Drawn(e)[js])
  BY <1>2 DEF Counted
<1> HIDE DEF Q
<1>4. {js \in DOMAIN Drawn(e) : Drawn(e)[js] \in Q}
        = {js \in DOMAIN Drawn(e) : Wanted(kind, Drawn(e)[js])}
  BY <1>3
<1> QED  BY <1>2, <1>4 DEF Q

\* The draws whose chain comes up, has both ends rogue, has any node rogue.
UpDraws(e) == {js \in DOMAIN Drawn(e) : ComesUp(Drawn(e)[js])}
EndDraws(e) == {js \in UpDraws(e) : BothEnds(Drawn(e)[js])}
AnyDraws(e) == {js \in UpDraws(e) : AnyNode(Drawn(e)[js])}

LEMMA SpanCount ==
  ASSUME NEW a \in Int, NEW b \in Int, a <= b + 1
  PROVE  IsFiniteSet(a .. b) /\ Cardinality(a .. b) = b - a + 1
<1>1. IsFiniteSet(a .. b) /\ Cardinality(a .. b) = IF a > b THEN 0 ELSE b - a + 1
  BY FS_Interval
<1> QED  BY <1>1

\* What a rogue entry has left to draw is what RogueEntry passes on.
LEMMA RogueKinds ==
  ASSUME Planned, NEW e \in 1 .. plan.rogue, NEW W, W = OthersWithholding(e <= plan.withheld)
  PROVE  /\ Kinds(Listed(e) \ {e}, e)
              = Left(Honest - plan.leftOut, W, plan.rogue - 1 - W, FALSE)
         /\ Honest - plan.leftOut \in Nat /\ W \in Nat /\ plan.rogue - 1 - W \in Nat
<1>1. PICK n, r, l, w \in Nat : /\ n = plan.nodes /\ r = plan.rogue /\ l = plan.leftOut
                                /\ w = plan.withheld /\ r <= n /\ l <= n - r /\ w <= r
                                /\ Honest = n - r
  BY PlanTypes
<1>2. e \in 1 .. n /\ e <= r /\ e \in 1 .. plan.nodes /\ e <= plan.rogue /\ ~(e > plan.rogue)
  BY <1>1
<1>3. Listed(e) = 1 .. n - l
  BY <1>1, <1>2, ListedIs
<1>4. Trusty(Listed(e) \ {e}) = r + 1 .. n - l
  BY <1>1, <1>2, <1>3 DEF Trusty
<1>5. Silent(Listed(e) \ {e}) = (1 .. w) \ {e}
  <2>1. Silent(Listed(e) \ {e}) = {y \in (1 .. n - l) \ {e} : y <= w}
    BY <1>1, <1>3 DEF Silent
  <2>2. w <= n - l
    BY <1>1
  <2>3. \A y : y \in {z \in (1 .. n - l) \ {e} : z <= w} <=> y \in (1 .. w) \ {e}
    BY <2>2
  <2> QED  BY <2>1, <2>3
<1>6. Partner(Listed(e) \ {e}) = (w + 1 .. r) \ {e}
  <2>1. Partner(Listed(e) \ {e}) = {y \in (1 .. n - l) \ {e} : y > w /\ y <= r}
    BY <1>1, <1>3 DEF Partner
  <2>2. r <= n - l
    BY <1>1
  <2>3. \A y : y \in {z \in (1 .. n - l) \ {e} : z > w /\ z <= r} <=> y \in (w + 1 .. r) \ {e}
    BY <2>2
  <2> QED  BY <2>1, <2>3
<1>7. Cardinality(Trusty(Listed(e) \ {e})) = Honest - plan.leftOut
  <2>1. PICK a, b \in Int : a = r + 1 /\ b = n - l
    OBVIOUS
  <2>2. a <= b + 1
    BY <1>1, <2>1
  <2>3. Cardinality(a .. b) = b - a + 1
    BY <2>2, SpanCount
  <2>4. Cardinality(Trusty(Listed(e) \ {e})) = b - a + 1
    BY <1>4, <2>1, <2>3
  <2>5. b - a + 1 = Honest - plan.leftOut
    BY <1>1, <2>1
  <2> QED  BY <2>4, <2>5
<1>8. IsFiniteSet(1 .. w) /\ Cardinality(1 .. w) = w
  BY SpanCount
<1>9. IsFiniteSet(w + 1 .. r) /\ Cardinality(w + 1 .. r) = r - w
  <2>1. PICK a \in Int : a = w + 1
    OBVIOUS
  <2>2. a <= r + 1 /\ r \in Int
    BY <1>1, <2>1
  <2>3. IsFiniteSet(a .. r) /\ Cardinality(a .. r) = r - a + 1
    BY <2>2, SpanCount
  <2>4. r - a + 1 = r - w
    BY <2>1
  <2> QED  BY <2>1, <2>3, <2>4
<1>10. /\ Cardinality(Silent(Listed(e) \ {e})) = W
       /\ Cardinality(Partner(Listed(e) \ {e})) = plan.rogue - 1 - W
       /\ W \in Nat /\ plan.rogue - 1 - W \in Nat
  <2>1. CASE e <= w
    <3>1. W = w - 1
      BY <1>1, <2>1 DEF OthersWithholding
    <3>2. e \in 1 .. w
      BY <2>1, <1>2
    <3>3. Cardinality((1 .. w) \ {e}) = w - 1
      BY <1>8, <3>2, OneLess
    <3>4. (w + 1 .. r) \ {e} = w + 1 .. r
      BY <2>1, <1>2
    <3>5. w - 1 \in Nat
      BY <3>2
    <3>6. Cardinality(Silent(Listed(e) \ {e})) = W
      BY <1>5, <3>1, <3>3
    <3>7. Cardinality(Partner(Listed(e) \ {e})) = r - w
      BY <1>6, <1>9, <3>4
    <3>8. r - w = plan.rogue - 1 - W /\ r - w \in Nat
      BY <1>1, <3>1
    <3> QED  BY <3>1, <3>5, <3>6, <3>7, <3>8
  <2>2. CASE ~(e <= w)
    <3>1. W = w
      BY <1>1, <2>2 DEF OthersWithholding
    <3>2. e \in w + 1 .. r
      BY <2>2, <1>2, <1>1
    <3>3. Cardinality((w + 1 .. r) \ {e}) = r - w - 1
      BY <1>9, <3>2, OneLess
    <3>4. (1 .. w) \ {e} = 1 .. w
      BY <2>2, <1>2
    <3>5. r - w - 1 \in Nat
      BY <3>2
    <3>6. Cardinality(Silent(Listed(e) \ {e})) = W
      BY <1>5, <1>8, <3>1, <3>4
    <3>7. Cardinality(Partner(Listed(e) \ {e})) = r - w - 1
      BY <1>6, <3>3
    <3>8. r - w - 1 = plan.rogue - 1 - W
      BY <1>1, <3>1
    <3> QED  BY <3>1, <3>5, <3>6, <3>7, <3>8
  <2> QED  BY <2>1, <2>2
<1>11. Honest - plan.leftOut \in Nat
  BY <1>1
<1> QED  BY <1>2, <1>7, <1>10, <1>11 DEF Kinds

\* The chains of an entry that may be drawn, given what is left to draw.
LEMMA EntryCounted ==
  ASSUME Planned, NEW e \in 1 .. plan.nodes, Judged(e),
         NEW H \in Nat, NEW W \in Nat, NEW O \in Nat, NEW D \in Nat, D = plan.hops - 1,
         NEW u \in Undrawn(H, W, O), u = Kinds(Listed(e) \ {e}, e),
         NEW kind, NEW count, Recurs(kind, count, H, W, O, D)
  PROVE  Cardinality({js \in DOMAIN Drawn(e) : Wanted(kind, Drawn(e)[js])}) = count[D][u]
<1>1. CountsTo(kind, count, H, W, O, D)
  BY CountsAll
<1>2. Spread(Listed(e) \ {e}, e)
  BY EntrySpread
<1>3. Cardinality(Counted(kind, e, Listed(e) \ {e}, D)) = count[D][Kinds(Listed(e) \ {e}, e)]
  BY <1>1, <1>2 DEF CountsTo
<1>4. Cardinality({js \in DOMAIN Drawn(e) : Wanted(kind, Drawn(e)[js])})
        = Cardinality(Counted(kind, e, Listed(e) \ {e}, D))
  BY DrawnCounted
<1> QED  BY <1>3, <1>4

LEMMA AllDraws ==
  ASSUME Planned, NEW e \in 1 .. plan.nodes, Judged(e),
         NEW H \in Nat, NEW W \in Nat, NEW O \in Nat, NEW D \in Nat, D = plan.hops - 1,
         NEW u \in Undrawn(H, W, O), u = Kinds(Listed(e) \ {e}, e)
  PROVE  Cardinality(DOMAIN Drawn(e)) = Falling(Total(u), D)
<1>1. Recurs("all", Alls(H, W, O, D), H, W, O, D)
  BY RecursAlls
<1>2. Cardinality({js \in DOMAIN Drawn(e) : Wanted("all", Drawn(e)[js])}) = Alls(H, W, O, D)[D][u]
  BY <1>1, EntryCounted
<1>3. {js \in DOMAIN Drawn(e) : Wanted("all", Drawn(e)[js])} = DOMAIN Drawn(e)
  BY DEF Wanted
<1>4. D \in 0 .. D
  OBVIOUS
<1>5. Alls(H, W, O, D)[D][u] = Falling(Total(u), D)
  BY <1>4 DEF Alls
<1> QED  BY <1>2, <1>3, <1>5

LEMMA PathEnds ==
  ASSUME Planned, NEW e \in 1 .. plan.nodes, Judged(e), NEW js \in DOMAIN Drawn(e)
  PROVE  /\ Drawn(e)[js][1] = e /\ DOMAIN Drawn(e)[js] = 1 .. plan.hops
         /\ Len(Drawn(e)[js]) = plan.hops
         /\ \A i \in 1 .. plan.hops : Drawn(e)[js][i] \in Listed(e)
<1>1. PICK D \in Nat : D = plan.hops - 1 /\ D + 1 = plan.hops
  BY PlanTypes
<1>2. {} \subseteq Tours(e, Listed(e) \ {e}, D)
  OBVIOUS
<1>3. Drawn(e)[js] \in Tours(e, Listed(e) \ {e}, D)
  BY <1>1, <1>2, DrawnSet
<1>4. /\ Drawn(e)[js] \in [1 .. D + 1 -> (Listed(e) \ {e}) \cup {e}] /\ Drawn(e)[js][1] = e
      /\ Len(Drawn(e)[js]) = D + 1
  BY <1>3, TourIs
<1>5. (Listed(e) \ {e}) \cup {e} = Listed(e)
  BY ListedIs
<1> QED  BY <1>1, <1>4, <1>5

\* What a rogue entry yields.
RogueCounts(e, c) ==
  /\ c \in Sums
  /\ Cardinality(UpDraws(e)) = c.up /\ Cardinality(DOMAIN Drawn(e) \ UpDraws(e)) = c.failed
  /\ Cardinality(EndDraws(e)) = c.exit /\ Cardinality(AnyDraws(e)) = c.up

\* The draws of a rogue entry are as many of each sort as rogueEntryChains says.
LEMMA RogueYield ==
  ASSUME Planned, NEW e \in 1 .. plan.rogue, Judged(e),
         NEW W, W = OthersWithholding(e <= plan.withheld)
  PROVE  /\ Cardinality(DOMAIN Drawn(e))
              = Falling(Honest - plan.leftOut + plan.rogue - 1, plan.hops - 1)
         /\ RogueCounts(e, RogueEntryChains(Honest - plan.leftOut, W, plan.rogue - 1 - W,
                                            plan.hops - 1))
<1>1. PICK H, O, D, V \in Nat : /\ H = Honest - plan.leftOut /\ O = plan.rogue - 1 - W
                                /\ D = plan.hops - 1 /\ V = W
  <2>1. Honest - plan.leftOut \in Nat /\ W \in Nat /\ plan.rogue - 1 - W \in Nat
    BY RogueKinds
  <2>2. plan.hops - 1 \in Nat
    BY PlanTypes
  <2> QED  BY <2>1, <2>2
<1>2. PICK u : u = Left(H, V, O, FALSE)
  OBVIOUS
<1>3. u.honest = H /\ u.withholding = V /\ u.others = O /\ u.after = FALSE
  BY <1>2 DEF Left
<1>4. u \in Undrawn(H, V, O)
  BY <1>2 DEF Left, Undrawn
<1>5. e \in 1 .. plan.nodes /\ e <= plan.rogue
  BY PlanTypes
<1>6. u = Kinds(Listed(e) \ {e}, e)
  BY <1>1, <1>2, RogueKinds
<1>7. Total(u) = Honest - plan.leftOut + plan.rogue - 1
  <2>1. Total(u) = H + V + O
    BY <1>3 DEF Total
  <2> QED  BY <1>1, <2>1, PlanTypes
<1>8. Cardinality(DOMAIN Drawn(e)) = Falling(Total(u), D)
  BY <1>1, <1>4, <1>5, <1>6, AllDraws
<1>9. PICK f : Worked(H, V, O, D, f) /\ RogueEntryChains(H, V, O, D) = f[D][Left(H, V, O, FALSE)]
  BY EntryChainsIs
<1>10. PICK c : c = f[D][u]
  OBVIOUS
<1>11. D \in 0 .. D
  OBVIOUS
<1>12. c \in Sums
  <2>1. Summed(f[D], H, V, O)
    BY <1>9, <1>11, WorkedSums
  <2> QED  BY <1>4, <1>10, <2>1 DEF Summed
<1>13. Cardinality(UpDraws(e)) = c.up
  <2>1. Recurs("up", Ups(H, V, O, D, f), H, V, O, D)
    BY <1>9, RecursUps
  <2>2. Cardinality({js \in DOMAIN Drawn(e) : Wanted("up", Drawn(e)[js])}) = Ups(H, V, O, D, f)[D][u]
    BY <1>1, <1>4, <1>5, <1>6, <2>1, EntryCounted
  <2>3. Ups(H, V, O, D, f)[D][u] = c.up
    BY <1>4, <1>10, <1>11 DEF Ups
  <2>4. UpDraws(e) = {js \in DOMAIN Drawn(e) : Wanted("up", Drawn(e)[js])}
    BY DEF UpDraws, Wanted
  <2> QED  BY <2>2, <2>3, <2>4
<1>14. Cardinality(EndDraws(e)) = c.exit
  <2>1. Recurs("exit", Exits(H, V, O, D, f), H, V, O, D)
    BY <1>9, RecursExits
  <2>2. Cardinality({js \in DOMAIN Drawn(e) : Wanted("exit", Drawn(e)[js])}) = Exits(H, V, O, D, f)[D][u]
    BY <1>1, <1>4, <1>5, <1>6, <2>1, EntryCounted
  <2>3. Exits(H, V, O, D, f)[D][u] = c.exit
    BY <1>4, <1>10, <1>11 DEF Exits
  <2>4. ASSUME NEW js \in DOMAIN Drawn(e)
        PROVE  ComesUp(Drawn(e)[js]) /\ BothEnds(Drawn(e)[js]) <=> Wanted("exit", Drawn(e)[js])
    <3>1. Rogue(Drawn(e)[js][1])
      BY <1>5, PathEnds DEF Rogue
    <3> QED  BY <3>1 DEF Wanted, BothEnds
  <2>5. EndDraws(e) = {js \in DOMAIN Drawn(e) : Wanted("exit", Drawn(e)[js])}
    BY <2>4 DEF EndDraws, UpDraws
  <2> QED  BY <2>2, <2>3, <2>5
<1>15. IsFiniteSet(DOMAIN Drawn(e)) /\ UpDraws(e) \subseteq DOMAIN Drawn(e)
  <2>1. {} \subseteq Tours(e, Listed(e) \ {e}, plan.hops - 1)
    OBVIOUS
  <2> QED  BY <1>5, <2>1, DrawnSet DEF UpDraws
<1>16. Cardinality(DOMAIN Drawn(e) \ UpDraws(e)) = c.failed
  <2>1. Falling(Total(u), D) = c.up + c.failed
    <3>1. Complete(H, V, O, f, D)
      BY <1>9, <1>11, WorkedComplete
    <3> QED  BY <1>4, <1>10, <3>1 DEF Complete
  <2>2. Cardinality(DOMAIN Drawn(e) \ UpDraws(e))
          = Cardinality(DOMAIN Drawn(e)) - Cardinality(DOMAIN Drawn(e) \cap UpDraws(e))
    BY <1>15, FS_Difference
  <2>3. DOMAIN Drawn(e) \cap UpDraws(e) = UpDraws(e)
    BY <1>15
  <2>4. c.up \in Int /\ c.failed \in Int
    BY <1>12 DEF Sums
  <2>5. PICK a, b \in Int : a = c.up /\ b = c.failed
    BY <2>4
  <2>6. Cardinality(DOMAIN Drawn(e)) = a + b /\ Cardinality(UpDraws(e)) = a
    BY <1>8, <1>13, <2>1, <2>5
  <2>7. Cardinality(DOMAIN Drawn(e) \ UpDraws(e)) = (a + b) - a
    BY <2>2, <2>3, <2>6
  <2>8. (a + b) - a = b
    OBVIOUS
  <2> QED  BY <2>5, <2>7, <2>8
<1>17. AnyDraws(e) = UpDraws(e)
  <2>1. ASSUME NEW js \in DOMAIN Drawn(e) PROVE AnyNode(Drawn(e)[js])
    <3>1. 1 \in 1 .. plan.hops
      BY PlanTypes
    <3>2. 1 \in DOMAIN Drawn(e)[js] /\ Rogue(Drawn(e)[js][1])
      BY <1>5, <3>1, PathEnds DEF Rogue
    <3> QED  BY <3>2 DEF AnyNode
  <2> QED  BY <2>1 DEF AnyDraws, UpDraws
<1>18. RogueCounts(e, c)
  BY <1>12, <1>13, <1>14, <1>16, <1>17 DEF RogueCounts
<1>19. c = RogueEntryChains(Honest - plan.leftOut, W, plan.rogue - 1 - W, plan.hops - 1)
  BY <1>1, <1>2, <1>9, <1>10
<1> QED  BY <1>1, <1>7, <1>8, <1>18, <1>19

LEMMA KindsTotal ==
  ASSUME Planned, NEW S, NEW x, Spread(S, x)
  PROVE  Total(Kinds(S, x)) = Cardinality(S)
<1>1. /\ plan.rogue \in Nat /\ plan.withheld \in Nat /\ plan.withheld <= plan.rogue
      /\ S \subseteq 1 .. plan.nodes /\ IsFiniteSet(S) /\ plan.nodes \in Nat
  BY PlanTypes DEF Spread
<1>2. S = (Trusty(S) \cup Silent(S)) \cup Partner(S)
  <2>1. ASSUME NEW y \in S PROVE y \in Trusty(S) \/ y \in Silent(S) \/ y \in Partner(S)
    <3>1. y \in 1 .. plan.nodes
      BY <1>1
    <3>2. y > plan.rogue \/ y <= plan.withheld \/ (y > plan.withheld /\ y <= plan.rogue)
      BY <1>1, <3>1
    <3> QED  BY <3>2 DEF Trusty, Silent, Partner
  <2>2. Trusty(S) \subseteq S /\ Silent(S) \subseteq S /\ Partner(S) \subseteq S
    BY DEF Trusty, Silent, Partner
  <2> QED  BY <2>1, <2>2
<1>3. /\ Trusty(S) \cap Silent(S) = {} /\ Trusty(S) \cap Partner(S) = {}
      /\ Silent(S) \cap Partner(S) = {}
  <2>1. ASSUME NEW y \in S
        PROVE  /\ ~(y > plan.rogue /\ y <= plan.withheld)
               /\ ~(y > plan.rogue /\ y <= plan.rogue)
               /\ ~(y <= plan.withheld /\ y > plan.withheld)
    <3>1. y \in 1 .. plan.nodes
      BY <1>1
    <3> QED  BY <1>1, <3>1
  <2> QED  BY <2>1 DEF Trusty, Silent, Partner
<1>4. Cardinality((Trusty(S) \cup Silent(S)) \cup Partner(S))
        = Cardinality(Trusty(S)) + Cardinality(Silent(S)) + Cardinality(Partner(S))
  BY <1>1, <1>3, KindsFinite, ThreeParts
<1> QED  BY <1>2, <1>4, KindsParts DEF Total

LEMMA ToursCount ==
  ASSUME Planned, NEW S, NEW x, Spread(S, x), NEW D \in Nat
  PROVE  Cardinality(Tours(x, S, D)) = Falling(Cardinality(S), D)
<1>1. PICK u : u = Kinds(S, x)
  OBVIOUS
<1>2. PICK H, W, O \in Nat : H = u.honest /\ W = u.withholding /\ O = u.others
  BY <1>1, KindsParts, KindsFinite DEF Spread
<1>3. PICK a \in BOOLEAN : u = Left(H, W, O, a)
  <2>1. (IF x > plan.rogue THEN TRUE ELSE FALSE) \in BOOLEAN
    OBVIOUS
  <2> QED  BY <1>1, <1>2, <2>1, KindsParts DEF Kinds
<1>4. u \in Undrawn(H, W, O)
  BY <1>3 DEF Left, Undrawn
<1>5. Recurs("all", Alls(H, W, O, D), H, W, O, D)
  BY RecursAlls
<1>6. CountsTo("all", Alls(H, W, O, D), H, W, O, D)
  BY <1>5, CountsAll
<1>7. Cardinality(Counted("all", x, S, D)) = Alls(H, W, O, D)[D][u]
  BY <1>1, <1>4, <1>6 DEF CountsTo
<1>8. D \in 0 .. D
  OBVIOUS
<1>9. Alls(H, W, O, D)[D][u] = Falling(Total(u), D)
  BY <1>4, <1>8 DEF Alls
<1>10. Counted("all", x, S, D) = Tours(x, S, D)
  BY DEF Counted, Wanted
<1> QED  BY <1>1, <1>7, <1>9, <1>10, KindsTotal

\* What an honest entry yields.
HonestCounts(e, all, clean) ==
  /\ Cardinality(DOMAIN Drawn(e)) = all /\ UpDraws(e) = DOMAIN Drawn(e)
  /\ EndDraws(e) = {} /\ Cardinality(AnyDraws(e)) = all - clean

\* All its chains come up, and those without a rogue node are the tours of honest ones.
LEMMA HonestYield ==
  ASSUME Planned, NEW e \in 1 .. plan.nodes, ~(e <= plan.rogue), Judged(e)
  PROVE  HonestCounts(e, Falling(plan.nodes - plan.withheld - 1, plan.hops - 1),
                      Falling(Honest - 1, plan.hops - 1))
<1>1. PICK S, D : S = Listed(e) \ {e} /\ D = plan.hops - 1
  OBVIOUS
<1>2. D \in Nat /\ D + 1 = plan.hops
  BY <1>1, PlanTypes
<1>3. Spread(S, e) /\ Cardinality(S) = plan.nodes - plan.withheld - 1
  <2>1. Gone(e) = plan.withheld
    BY DEF Gone
  <2> QED  BY <1>1, <2>1, EntrySpread
<1>4. PICK P : P = DOMAIN Drawn(e)
  OBVIOUS
<1> DEFINE all == Falling(plan.nodes - plan.withheld - 1, D)
           clean == Falling(Honest - 1, D)
           Q == Tours(e, Trusty(S), D)
<1>5. /\ IsFiniteSet(P) /\ Cardinality(P) = Cardinality(Tours(e, S, D))
      /\ \A js \in P : Drawn(e)[js] \in Tours(e, S, D)
  <2>1. /\ Cardinality({js \in P : Drawn(e)[js] \in Tours(e, S, D)}) = Cardinality(Tours(e, S, D))
        /\ IsFiniteSet(P)
        /\ \A js \in P : Drawn(e)[js] \in Tours(e, S, D)
    BY <1>1, <1>4, DrawnSet
  <2>2. {js \in P : Drawn(e)[js] \in Tours(e, S, D)} = P
    BY <2>1
  <2> QED  BY <2>1, <2>2
<1>6. Cardinality(P) = all
  BY <1>2, <1>3, <1>5, ToursCount
<1>7. ASSUME NEW js \in P
      PROVE  /\ Drawn(e)[js][1] = e /\ DOMAIN Drawn(e)[js] = 1 .. plan.hops
             /\ Len(Drawn(e)[js]) = plan.hops
             /\ \A i \in 1 .. plan.hops : Drawn(e)[js][i] \in Listed(e)
  BY <1>4, PathEnds
<1>8. UpDraws(e) = P
  <2>1. ASSUME NEW js \in P, NEW i \in 2 .. plan.hops
        PROVE  Extends(Drawn(e)[js][i - 1], Drawn(e)[js][i])
    <3>1. i \in 1 .. plan.hops /\ i - 1 \in 1 .. plan.hops
      BY PlanTypes
    <3>2. PICK x, y : x = Drawn(e)[js][i - 1] /\ y = Drawn(e)[js][i]
      OBVIOUS
    <3>3. x \in Listed(e) /\ y \in Listed(e)
      BY <1>7, <3>1, <3>2
    <3>4. x \in 1 .. plan.nodes /\ y \in 1 .. plan.nodes /\ y > plan.withheld
      BY <3>3, ListedIs, PlanTypes
    <3>5. Extends(x, y)
      BY <3>4, ExtendsIs
    <3> QED  BY <3>2, <3>5
  <2>2. ASSUME NEW js \in P PROVE ComesUp(Drawn(e)[js])
    BY <1>7, <2>1 DEF ComesUp
  <2> QED  BY <1>4, <2>2 DEF UpDraws
<1>9. EndDraws(e) = {}
  <2>1. ASSUME NEW js \in P PROVE ~BothEnds(Drawn(e)[js])
    BY <1>7 DEF BothEnds, Rogue
  <2> QED  BY <1>8, <2>1 DEF EndDraws
<1>10. Spread(Trusty(S), e) /\ Cardinality(Trusty(S)) = Honest - 1
  <2>1. PICK n, r, w \in Nat : /\ n = plan.nodes /\ r = plan.rogue /\ w = plan.withheld
                               /\ r <= n /\ w <= r /\ Honest = n - r
    BY PlanTypes
  <2>2. S = (w + 1 .. n) \ {e} /\ e \in r + 1 .. n
    BY <1>1, <2>1, ListedIs
  <2>3. Trusty(S) = {y \in (w + 1 .. n) \ {e} : y > r}
    BY <2>1, <2>2 DEF Trusty
  <2>4. \A y : y \in {z \in (w + 1 .. n) \ {e} : z > r} <=> y \in (r + 1 .. n) \ {e}
    BY <2>1
  <2>5. Trusty(S) = (r + 1 .. n) \ {e}
    BY <2>3, <2>4
  <2>6. PICK a \in Int : a = r + 1
    OBVIOUS
  <2>7. a <= n + 1 /\ n \in Int
    BY <2>1, <2>6
  <2>8. IsFiniteSet(a .. n) /\ Cardinality(a .. n) = n - a + 1
    BY <2>7, SpanCount
  <2>9. Cardinality((a .. n) \ {e}) = (n - a + 1) - 1
    BY <2>2, <2>6, <2>8, OneLess
  <2>10. (n - a + 1) - 1 = Honest - 1
    BY <2>1, <2>6
  <2>11. Cardinality(Trusty(S)) = Honest - 1
    BY <2>5, <2>6, <2>9, <2>10
  <2>12. IsFiniteSet(Trusty(S)) /\ Trusty(S) \subseteq S
    BY <1>3, KindsFinite DEF Spread, Trusty
  <2> QED  BY <1>3, <2>11, <2>12 DEF Spread
<1>11. Cardinality(Q) = clean
  BY <1>2, <1>10, ToursCount
<1>12. P \ AnyDraws(e) = {js \in P : Drawn(e)[js] \in Q}
  <2>1. ASSUME NEW js \in P PROVE ~AnyNode(Drawn(e)[js]) <=> Drawn(e)[js] \in Q
    <3>1. PICK p : p = Drawn(e)[js]
      OBVIOUS
    <3>2. p \in [1 .. D + 1 -> S \cup {e}] /\ IsInjective(p) /\ p[1] = e
      BY <1>5, <3>1 DEF Tours
    <3>3. DOMAIN p = 1 .. D + 1
      BY <3>2
    <3>4. ASSUME NEW y \in S \cup {e} PROVE ~Rogue(y) <=> y \in Trusty(S) \cup {e}
      <4>1. y \in 1 .. plan.nodes /\ ~(e <= plan.rogue) /\ e \notin S
        BY <1>3 DEF Spread
      <4>2. ~(y <= plan.rogue) <=> y > plan.rogue
        BY <4>1, PlanTypes
      <4> QED  BY <4>1, <4>2 DEF Rogue, Trusty
    <3>5. ~AnyNode(p) <=> \A i \in 1 .. D + 1 : p[i] \in Trusty(S) \cup {e}
      BY <3>2, <3>3, <3>4 DEF AnyNode
    <3>6. (\A i \in 1 .. D + 1 : p[i] \in Trusty(S) \cup {e})
            <=> p \in [1 .. D + 1 -> Trusty(S) \cup {e}]
      BY <3>2
    <3>7. p \in Q <=> p \in [1 .. D + 1 -> Trusty(S) \cup {e}]
      BY <3>2 DEF Tours
    <3> QED  BY <3>1, <3>5, <3>6, <3>7
  <2> HIDE DEF Q
  <2>2. ASSUME NEW js \in P PROVE js \in AnyDraws(e) <=> AnyNode(Drawn(e)[js])
    BY <1>8 DEF AnyDraws
  <2> QED  BY <2>1, <2>2
<1>13. Cardinality({js \in P : Drawn(e)[js] \in Q}) = Cardinality(Q)
  <2>1. Q \subseteq Tours(e, S, D)
    <3>1. Trusty(S) \cup {e} \subseteq S \cup {e}
      BY DEF Trusty
    <3> QED  BY <3>1 DEF Tours
  <2> HIDE DEF Q
  <2> QED  BY <1>1, <1>4, <2>1, DrawnSet
<1>14. Cardinality(AnyDraws(e)) = all - clean
  <2> HIDE DEF Q, all, clean
  <2>1. AnyDraws(e) \subseteq P
    BY <1>8 DEF AnyDraws
  <2>2. Cardinality(P \ AnyDraws(e)) = Cardinality(P) - Cardinality(P \cap AnyDraws(e))
    BY <1>5, FS_Difference
  <2>3. P \cap AnyDraws(e) = AnyDraws(e)
    BY <2>1
  <2>4. IsFiniteSet(AnyDraws(e))
    BY <1>5, <2>1, FS_Subset
  <2>5. PICK a, b, c \in Nat : a = Cardinality(P) /\ b = Cardinality(AnyDraws(e)) /\ c = clean
    <3>1. IsFiniteSet(P \ AnyDraws(e))
      BY <1>5, FS_Difference
    <3>2. Cardinality(P \ AnyDraws(e)) \in Nat
      BY <3>1, FS_CardinalityType
    <3>3. clean \in Nat
      BY <1>11, <1>12, <1>13, <3>2
    <3> QED  BY <1>5, <2>4, <3>3, FS_CardinalityType
  <2>6. c = a - b
    BY <1>11, <1>12, <1>13, <2>2, <2>3, <2>5
  <2>7. b = a - c
    BY <2>6
  <2> QED  BY <1>6, <2>5, <2>7
<1> QED  BY <1>1, <1>4, <1>6, <1>8, <1>9, <1>14 DEF HonestCounts

LEMMA DivideExactly ==
  ASSUME NEW a \in Nat \ {0}, NEW q \in Nat, NEW c, c = q * a
  PROVE  c \div a = q
<1>1. c \in Int /\ a \in Int /\ a > 0
  OBVIOUS
<1>2. PICK d \in Int : d = c \div a
  BY <1>1
<1>3. a * d <= c /\ c < a * (d + 1)
  BY <1>1, <1>2
<1>4. a * (d + 1) = a * d + a /\ q * a = a * q
  OBVIOUS
<1>5. CASE d <= q - 1
  <2>1. a * (d + 1) <= a * q
    <3>1. d + 1 <= q
      BY <1>5
    <3>2. PICK t \in Nat : q = d + 1 + t
      BY <3>1
    <3>3. a * q = a * (d + 1) + a * t /\ a * t >= 0
      BY <3>2
    <3> QED  BY <3>3
  <2> QED  BY <1>3, <1>4, <2>1
<1>6. CASE d >= q + 1
  <2>1. PICK t \in Nat : d = q + 1 + t
    BY <1>6
  <2>2. a * d = a * q + a + a * t /\ a * t >= 0
    BY <2>1
  <2> QED  BY <1>1, <1>3, <1>4, <2>2
<1> QED  BY <1>2, <1>5, <1>6

\* Each chain of an entry has the same share, and they make up the whole.
Shared(all) == /\ all \in Nat \ {0} /\ Unit \in Nat /\ Unit \div all \in Nat
               /\ (Unit \div all) * all = Unit

LEMMA FallingShared ==
  ASSUME Planned, NEW m \in Nat, m <= plan.nodes - 1, NEW k \in 0 .. m
  PROVE  Shared(Falling(m, k))
<1>1. PICK a \in Nat \ {0} : a = Falling(m, k)
  BY FallingPositive
<1>2. PICK n \in Nat : n = plan.nodes - 1
  BY PlanTypes
<1>3. Divides(Falling(m, k), Falling(n, n))
  BY <1>2, FallingDivides
<1>4. PICK q \in Nat : Falling(n, n) = q * a
  BY <1>1, <1>3 DEF Divides
<1>5. PICK c : c = Unit /\ c = q * a
  BY <1>2, <1>4 DEF Unit
<1>6. c \div a = q
  BY <1>5, DivideExactly
<1>7. q * a \in Nat
  OBVIOUS
<1> QED  BY <1>1, <1>5, <1>6, <1>7 DEF Shared

LEMMA EntryShared ==
  ASSUME Planned, NEW e \in 1 .. plan.nodes, Judged(e)
  PROVE  Shared(Falling(plan.nodes - Gone(e) - 1, plan.hops - 1))
<1>1. plan.hops \in 1 .. plan.nodes - Gone(e)
  BY JudgedIs
<1>2. PICK g \in Nat : g = Gone(e)
  BY PlanTypes DEF Gone
<1>3. PICK m \in Nat : m = plan.nodes - Gone(e) - 1
  BY <1>1, <1>2, PlanTypes
<1>4. PICK k \in 0 .. m : k = plan.hops - 1
  BY <1>1, <1>2, <1>3, PlanTypes
<1>5. m <= plan.nodes - 1
  BY <1>2, <1>3, PlanTypes
<1>6. Shared(Falling(m, k))
  BY <1>5, FallingShared
<1> QED  BY <1>3, <1>4, <1>6

-----------------------------------------------------------------------------
(* What an entry adds to the tally, by its kind. *)

Tallies == [refused : Int, failed : Int, up : Int, ends : Int, touched : Int]

\* An entry that is refused.
NoChains == [refused |-> Unit, failed |-> 0, up |-> 0, ends |-> 0, touched |-> 0]

RogueAdds(withholds) ==
  IF plan.leftOut <= Allowed
  THEN [refused |-> 0, failed |-> RogueEntry(withholds).down, up |-> RogueEntry(withholds).up,
        ends |-> RogueEntry(withholds).ends, touched |-> RogueEntry(withholds).any]
  ELSE NoChains

\* The chains of an honest entry, and those of them that touch a rogue node.
HonestAll == Falling(plan.nodes - plan.withheld - 1, plan.hops - 1)
HonestAny == (Unit \div HonestAll) * (HonestAll - Falling(Honest - 1, plan.hops - 1))

HonestAdds ==
  IF plan.withheld <= Allowed
  THEN [refused |-> 0, failed |-> 0, up |-> Unit, ends |-> 0, touched |-> HonestAny]
  ELSE NoChains

Adds(e) ==
  IF e <= plan.withheld THEN RogueAdds(TRUE)
  ELSE IF e <= plan.rogue THEN RogueAdds(FALSE) ELSE HonestAdds

\* The draws of an entry, each with the share it has of them.
Share(e) == Unit \div Cardinality(DOMAIN Drawn(e))

Drew(e, r) ==
  /\ r \in Tallies /\ r.refused = 0
  /\ r.failed = Share(e) * Cardinality(DOMAIN Drawn(e) \ UpDraws(e))
  /\ r.up = Share(e) * Cardinality(UpDraws(e))
  /\ r.ends = Share(e) * Cardinality(EndDraws(e))
  /\ r.touched = Share(e) * Cardinality(AnyDraws(e))

LEMMA RogueDrew ==
  ASSUME Planned, NEW e \in 1 .. plan.rogue, Judged(e),
         NEW withholds \in BOOLEAN, withholds = (e <= plan.withheld)
  PROVE  Drew(e, RogueAdds(withholds))
<1>1. e \in 1 .. plan.nodes /\ e <= plan.rogue /\ Gone(e) = plan.leftOut
  BY PlanTypes DEF Gone
<1>2. plan.leftOut <= Allowed
  BY <1>1, JudgedIs
<1>3. PICK W, c : /\ W = OthersWithholding(withholds)
                  /\ c = RogueEntryChains(Honest - plan.leftOut, W, plan.rogue - 1 - W, plan.hops - 1)
  OBVIOUS
<1>4. PICK all : all = Falling(Honest - plan.leftOut + plan.rogue - 1, plan.hops - 1)
  OBVIOUS
<1>5. Cardinality(DOMAIN Drawn(e)) = all /\ RogueCounts(e, c)
  BY <1>3, <1>4, RogueYield
<1>6. PICK s : s = Unit \div all
  OBVIOUS
<1>7. s \in Nat
  <2>1. plan.nodes - Gone(e) - 1 = Honest - plan.leftOut + plan.rogue - 1
    BY <1>1, PlanTypes
  <2>2. Shared(all)
    BY <1>1, <1>4, <2>1, EntryShared
  <2> QED  BY <1>6, <2>2 DEF Shared
<1>8. RogueEntry(withholds) = [up |-> s * c.up, down |-> s * c.failed,
                               ends |-> s * c.exit, any |-> s * c.up]
  BY <1>3, <1>4, <1>6 DEF RogueEntry
<1>9. RogueAdds(withholds) = [refused |-> 0, failed |-> s * c.failed, up |-> s * c.up,
                              ends |-> s * c.exit, touched |-> s * c.up]
  BY <1>2, <1>8 DEF RogueAdds
<1>10. Share(e) = s
  BY <1>5, <1>6 DEF Share
<1>11. PICK x, y, z \in Int : x = c.up /\ y = c.failed /\ z = c.exit
  BY <1>5 DEF RogueCounts, Sums
<1>12. RogueAdds(withholds) = [refused |-> 0, failed |-> s * y, up |-> s * x,
                               ends |-> s * z, touched |-> s * x]
  BY <1>9, <1>11
<1>13. s * x \in Int /\ s * y \in Int /\ s * z \in Int
  BY <1>7
<1>14. RogueAdds(withholds) \in Tallies
  BY <1>12, <1>13 DEF Tallies
<1>15. /\ Cardinality(UpDraws(e)) = x /\ Cardinality(DOMAIN Drawn(e) \ UpDraws(e)) = y
       /\ Cardinality(EndDraws(e)) = z /\ Cardinality(AnyDraws(e)) = x
  BY <1>5, <1>11 DEF RogueCounts
<1> QED  BY <1>10, <1>12, <1>14, <1>15 DEF Drew

LEMMA HonestDrew ==
  ASSUME Planned, NEW e \in 1 .. plan.nodes, ~(e <= plan.rogue), Judged(e)
  PROVE  Drew(e, HonestAdds)
<1>1. Gone(e) = plan.withheld
  BY DEF Gone
<1>2. plan.withheld <= Allowed
  BY <1>1, JudgedIs
<1>3. PICK all, clean : all = HonestAll /\ clean = Falling(Honest - 1, plan.hops - 1)
  OBVIOUS
<1>4. HonestCounts(e, all, clean)
  BY <1>3, HonestYield DEF HonestAll
<1>5. Shared(all)
  BY <1>1, <1>3, EntryShared DEF HonestAll
<1>6. PICK s \in Nat : s = Unit \div all
  BY <1>5 DEF Shared
<1>7. s * all = Unit /\ all \in Nat /\ Unit \in Nat
  BY <1>5, <1>6 DEF Shared
<1>8. clean \in Int
  <2>1. Honest - 1 \in Int /\ plan.hops - 1 \in Nat
    BY PlanTypes
  <2> QED  BY <1>3, <2>1, FallingInt
<1>9. HonestAdds = [refused |-> 0, failed |-> 0, up |-> Unit, ends |-> 0, touched |-> s * (all - clean)]
  BY <1>2, <1>3, <1>6 DEF HonestAdds, HonestAny
<1>10. s * (all - clean) \in Int
  BY <1>7, <1>8
<1>11. HonestAdds \in Tallies
  BY <1>7, <1>9, <1>10 DEF Tallies
<1>12. Share(e) = s
  BY <1>4, <1>6 DEF Share, HonestCounts
<1>13. /\ Cardinality(UpDraws(e)) = all /\ Cardinality(DOMAIN Drawn(e) \ UpDraws(e)) = 0
       /\ Cardinality(EndDraws(e)) = 0 /\ Cardinality(AnyDraws(e)) = all - clean
  <2>1. DOMAIN Drawn(e) \ UpDraws(e) = {} /\ UpDraws(e) = DOMAIN Drawn(e) /\ EndDraws(e) = {}
    BY <1>4 DEF HonestCounts
  <2> QED  BY <1>4, <2>1, FS_EmptySet DEF HonestCounts
<1>14. s * 0 = 0
  OBVIOUS
<1> QED  BY <1>7, <1>9, <1>11, <1>12, <1>13, <1>14 DEF Drew

\* What Sample counts for an entry is what its kind adds.
LEMMA EntryDrew ==
  ASSUME Planned, NEW e \in 1 .. plan.nodes
  PROVE  /\ Judged(e) => Drew(e, Adds(e))
         /\ ~Judged(e) => Adds(e) = NoChains /\ Adds(e) \in Tallies
<1>1. CASE Judged(e)
  <2>1. CASE e <= plan.withheld
    <3>1. e \in 1 .. plan.rogue
      BY <2>1, PlanTypes
    <3>2. Drew(e, RogueAdds(TRUE))
      BY <1>1, <2>1, <3>1, RogueDrew
    <3> QED  BY <1>1, <2>1, <3>2 DEF Adds
  <2>2. CASE ~(e <= plan.withheld) /\ e <= plan.rogue
    <3>1. e \in 1 .. plan.rogue
      BY <2>2, PlanTypes
    <3>2. FALSE = (e <= plan.withheld)
      <4>1. (e <= plan.withheld) \in BOOLEAN
        BY <3>1, PlanTypes
      <4> QED  BY <2>2, <4>1
    <3>3. FALSE \in BOOLEAN
      OBVIOUS
    <3>4. Drew(e, RogueAdds(FALSE))
      BY <1>1, <3>1, <3>2, <3>3, RogueDrew
    <3> QED  BY <1>1, <2>2, <3>4 DEF Adds
  <2>3. CASE ~(e <= plan.withheld) /\ ~(e <= plan.rogue)
    BY <1>1, <2>3, HonestDrew DEF Adds
  <2> QED  BY <2>1, <2>2, <2>3
<1>2. CASE ~Judged(e)
  <2>1. ~(Gone(e) <= Allowed)
    BY <1>2, JudgedIs
  <2>2. Adds(e) = NoChains
    <3>1. CASE e <= plan.rogue
      BY <2>1, <3>1 DEF Gone, Adds, RogueAdds
    <3>2. CASE ~(e <= plan.rogue)
      <4>1. ~(e <= plan.withheld)
        BY <3>2, PlanTypes
      <4> QED  BY <2>1, <3>2, <4>1 DEF Gone, Adds, HonestAdds
    <3> QED  BY <3>1, <3>2
  <2>3. Unit \in Int
    <3>1. plan.nodes - 1 \in Nat
      BY PlanTypes
    <3> QED  BY <3>1, FallingInt DEF Unit
  <2> QED  BY <1>2, <2>2, <2>3 DEF NoChains, Tallies
<1> QED  BY <1>1, <1>2

\* The sum over the first k entries: w of them add x each, those up to r add y,
\* and the others z.
SumTo(w, r, k, x, y, z) ==
  Ways(IF k <= w THEN k ELSE w, x)
    + Ways(IF k <= w THEN 0 ELSE IF k <= r THEN k - w ELSE r - w, y)
    + Ways(IF k <= r THEN 0 ELSE k - r, z)

LEMMA WaysStep ==
  ASSUME NEW h \in Nat, NEW c \in Int
  PROVE  Ways(h, c) \in Int /\ Ways(h + 1, c) = Ways(h, c) + c
<1>1. CASE h = 0
  <2>1. Ways(h, c) = 0 /\ Ways(h + 1, c) = (h + 1) * c
    BY <1>1 DEF Ways
  <2> QED  BY <1>1, <2>1
<1>2. CASE h # 0
  <2>1. Ways(h, c) = h * c /\ Ways(h + 1, c) = (h + 1) * c
    BY <1>2 DEF Ways
  <2>2. (h + 1) * c = h * c + c /\ h * c \in Int
    OBVIOUS
  <2> QED  BY <2>1, <2>2
<1> QED  BY <1>1, <1>2

LEMMA WaysInt ==
  ASSUME NEW h \in Nat, NEW c, h # 0 => c \in Int
  PROVE  Ways(h, c) \in Int /\ Ways(0, c) = 0
<1>1. CASE h = 0
  BY <1>1 DEF Ways
<1>2. CASE h # 0
  BY <1>2 DEF Ways
<1> QED  BY <1>1, <1>2

LEMMA SumToStep ==
  ASSUME NEW w \in Nat, NEW r \in Nat, w <= r, NEW k \in Nat, NEW x, NEW y, NEW z,
         w # 0 => x \in Int, r # w => y \in Int, k + 1 > r => z \in Int,
         NEW v \in Int, v = IF k + 1 <= w THEN x ELSE IF k + 1 <= r THEN y ELSE z
  PROVE  SumTo(w, r, k + 1, x, y, z) = SumTo(w, r, k, x, y, z) + v
<1>1. CASE k + 1 <= w
  <2>1. SumTo(w, r, k + 1, x, y, z) = Ways(k + 1, x) + Ways(0, y) + Ways(0, z)
    BY <1>1 DEF SumTo
  <2>2. SumTo(w, r, k, x, y, z) = Ways(k, x) + Ways(0, y) + Ways(0, z)
    BY <1>1 DEF SumTo
  <2>3. x \in Int /\ v = x
    BY <1>1
  <2>4. Ways(k, x) \in Int /\ Ways(k + 1, x) = Ways(k, x) + x
    BY <2>3, WaysStep
  <2>5. Ways(0, y) = 0 /\ Ways(0, z) = 0
    BY DEF Ways
  <2> QED  BY <2>1, <2>2, <2>3, <2>4, <2>5
<1>2. CASE ~(k + 1 <= w) /\ k + 1 <= r
  <2>1. PICK j \in Nat : j = k - w
    BY <1>2
  <2>2. SumTo(w, r, k + 1, x, y, z) = Ways(w, x) + Ways(j + 1, y) + Ways(0, z)
    <3>1. (k + 1) - w = j + 1
      BY <2>1
    <3> QED  BY <1>2, <3>1 DEF SumTo
  <2>3. SumTo(w, r, k, x, y, z) = Ways(w, x) + Ways(j, y) + Ways(0, z)
    <3>1. CASE k <= w
      <4>1. k = w /\ j = 0 /\ k <= r
        BY <1>2, <2>1, <3>1
      <4> QED  BY <3>1, <4>1 DEF SumTo
    <3>2. CASE ~(k <= w)
      <4>1. k <= r
        BY <1>2
      <4> QED  BY <2>1, <3>2, <4>1 DEF SumTo
    <3> QED  BY <3>1, <3>2
  <2>4. y \in Int /\ v = y
    BY <1>2
  <2>5. Ways(j, y) \in Int /\ Ways(j + 1, y) = Ways(j, y) + y
    BY <2>4, WaysStep
  <2>6. Ways(0, z) = 0
    BY DEF Ways
  <2>7. Ways(w, x) \in Int
    BY WaysInt
  <2> QED  BY <2>2, <2>3, <2>4, <2>5, <2>6, <2>7
<1>3. CASE ~(k + 1 <= w) /\ ~(k + 1 <= r)
  <2>1. PICK j \in Nat : j = k - r
    BY <1>3
  <2>2. PICK i \in Nat : i = r - w
    OBVIOUS
  <2>3. SumTo(w, r, k + 1, x, y, z) = Ways(w, x) + Ways(i, y) + Ways(j + 1, z)
    <3>1. (k + 1) - r = j + 1
      BY <2>1
    <3> QED  BY <1>3, <2>2, <3>1 DEF SumTo
  <2>4. SumTo(w, r, k, x, y, z) = Ways(w, x) + Ways(i, y) + Ways(j, z)
    <3>1. CASE k <= w
      <4>1. k = w /\ j = 0 /\ k <= r /\ i = 0
        BY <1>3, <2>1, <2>2, <3>1
      <4> QED  BY <3>1, <4>1 DEF SumTo
    <3>2. CASE ~(k <= w) /\ k <= r
      <4>1. k = r /\ j = 0 /\ k - w = i
        BY <1>3, <2>1, <2>2, <3>2
      <4> QED  BY <3>2, <4>1 DEF SumTo
    <3>3. CASE ~(k <= w) /\ ~(k <= r)
      BY <2>1, <2>2, <3>3 DEF SumTo
    <3> QED  BY <3>1, <3>2, <3>3
  <2>5. z \in Int /\ v = z
    BY <1>3
  <2>6. Ways(j, z) \in Int /\ Ways(j + 1, z) = Ways(j, z) + z
    BY <2>5, WaysStep
  <2>7. Ways(w, x) \in Int /\ Ways(i, y) \in Int
    BY <2>2, WaysInt
  <2> QED  BY <2>3, <2>4, <2>5, <2>6, <2>7
<1> QED  BY <1>1, <1>2, <1>3

LEMMA SumToLast ==
  ASSUME NEW w \in Nat, NEW r \in Nat, w <= r, NEW n \in Nat, r <= n, NEW x, NEW y, NEW z
  PROVE  /\ SumTo(w, r, 0, x, y, z) = 0
         /\ SumTo(w, r, n, x, y, z) = Ways(w, x) + Ways(r - w, y) + Ways(n - r, z)
<1>1. SumTo(w, r, 0, x, y, z) = 0
  <2>1. SumTo(w, r, 0, x, y, z) = Ways(0, x) + Ways(0, y) + Ways(0, z)
    BY DEF SumTo
  <2> QED  BY <2>1 DEF Ways
<1>2. CASE n <= w
  <2>1. n = w /\ n = r /\ r - w = 0 /\ n - r = 0
    BY <1>2
  <2> QED  BY <1>1, <1>2, <2>1 DEF SumTo
<1>3. CASE ~(n <= w) /\ n <= r
  <2>1. n = r /\ n - r = 0
    BY <1>3
  <2> QED  BY <1>1, <1>3, <2>1 DEF SumTo
<1>4. CASE ~(n <= w) /\ ~(n <= r)
  BY <1>1, <1>4 DEF SumTo
<1> QED  BY <1>2, <1>3, <1>4

LEMMA AddsTyped ==
  ASSUME Planned, NEW e \in 1 .. plan.nodes
  PROVE  Adds(e) \in Tallies
BY EntryDrew DEF Drew

LEMMA KindsTyped ==
  ASSUME Planned
  PROVE  /\ plan.withheld # 0 => RogueAdds(TRUE) \in Tallies
         /\ plan.rogue # plan.withheld => RogueAdds(FALSE) \in Tallies
         /\ plan.nodes # plan.rogue => HonestAdds \in Tallies
<1>1. ASSUME plan.withheld # 0 PROVE RogueAdds(TRUE) \in Tallies
  <2>1. 1 \in 1 .. plan.nodes /\ 1 <= plan.withheld
    BY <1>1, PlanTypes
  <2> QED  BY <2>1, AddsTyped DEF Adds
<1>2. ASSUME plan.rogue # plan.withheld PROVE RogueAdds(FALSE) \in Tallies
  <2>1. plan.rogue \in 1 .. plan.nodes /\ ~(plan.rogue <= plan.withheld) /\ plan.rogue <= plan.rogue
    BY <1>2, PlanTypes
  <2> QED  BY <2>1, AddsTyped DEF Adds
<1>3. ASSUME plan.nodes # plan.rogue PROVE HonestAdds \in Tallies
  <2>1. plan.nodes \in 1 .. plan.nodes /\ ~(plan.nodes <= plan.withheld) /\ ~(plan.nodes <= plan.rogue)
    BY <1>3, PlanTypes
  <2> QED  BY <2>1, AddsTyped DEF Adds
<1> QED  BY <1>1, <1>2, <1>3

\* The tally once the first k entries have been sampled.
Tallied(t, k) ==
  /\ t \in Tallies
  /\ t.refused = SumTo(plan.withheld, plan.rogue, k, RogueAdds(TRUE).refused, RogueAdds(FALSE).refused,
                     HonestAdds.refused)
  /\ t.failed = SumTo(plan.withheld, plan.rogue, k, RogueAdds(TRUE).failed, RogueAdds(FALSE).failed,
                     HonestAdds.failed)
  /\ t.up = SumTo(plan.withheld, plan.rogue, k, RogueAdds(TRUE).up, RogueAdds(FALSE).up,
                     HonestAdds.up)
  /\ t.ends = SumTo(plan.withheld, plan.rogue, k, RogueAdds(TRUE).ends, RogueAdds(FALSE).ends,
                     HonestAdds.ends)
  /\ t.touched = SumTo(plan.withheld, plan.rogue, k, RogueAdds(TRUE).touched, RogueAdds(FALSE).touched,
                     HonestAdds.touched)

\* The tally s is t with what entry e adds.
Grown(t, e, s) ==
  /\ s \in Tallies
  /\ s.refused = t.refused + Adds(e).refused
  /\ s.failed = t.failed + Adds(e).failed
  /\ s.up = t.up + Adds(e).up
  /\ s.ends = t.ends + Adds(e).ends
  /\ s.touched = t.touched + Adds(e).touched

LEMMA TallyParts ==
  ASSUME NEW t \in Tallies
  PROVE  /\ t.refused \in Int /\ t.failed \in Int /\ t.up \in Int /\ t.ends \in Int
         /\ t.touched \in Int
BY DEF Tallies

LEMMA TalliedStart ==
  ASSUME Planned
  PROVE  Tallied(Zero, 0)
<1>1. Zero \in Tallies /\ Zero.refused = 0 /\ Zero.failed = 0 /\ Zero.up = 0 /\ Zero.ends = 0
      /\ Zero.touched = 0
  BY DEF Zero, Tallies
<1>2. PICK w, r, n \in Nat : w = plan.withheld /\ r = plan.rogue /\ n = plan.nodes /\ w <= r /\ r <= n
  BY PlanTypes
<1>3. \A x, y, z : SumTo(w, r, 0, x, y, z) = 0
  BY <1>2, SumToLast
<1>4. \A x, y, z : SumTo(plan.withheld, plan.rogue, 0, x, y, z) = 0
  BY <1>2, <1>3
<1> QED  BY ONLY Zenon, <1>1, <1>4 DEF Tallied

LEMMA TalliedStep ==
  ASSUME Planned, NEW k \in Nat, k + 1 <= plan.nodes, NEW t, Tallied(t, k),
         NEW e, e = k + 1, NEW s, Grown(t, e, s)
  PROVE  Tallied(s, e)
<1>1. PICK w, r, n \in Nat : w = plan.withheld /\ r = plan.rogue /\ n = plan.nodes /\ w <= r /\ r <= n
  BY PlanTypes
<1>2. PICK X, Y, Z, A : X = RogueAdds(TRUE) /\ Y = RogueAdds(FALSE) /\ Z = HonestAdds /\ A = Adds(e)
  OBVIOUS
<1>3. e \in 1 .. plan.nodes
  BY <1>1
<1>4. A \in Tallies
  BY <1>2, <1>3, AddsTyped
<1>5. /\ w # 0 => X \in Tallies
      /\ r # w => Y \in Tallies
      /\ k + 1 > r => Z \in Tallies
  <2>1. k + 1 > r => plan.nodes # plan.rogue
    BY <1>1
  <2> QED  BY <1>1, <1>2, <2>1, KindsTyped
<1>6. A = IF k + 1 <= w THEN X ELSE IF k + 1 <= r THEN Y ELSE Z
  BY <1>1, <1>2 DEF Adds
<1>7. s.refused = SumTo(w, r, k + 1, X.refused, Y.refused, Z.refused)
  <2>1. PICK x, y, z, v : x = X.refused /\ y = Y.refused /\ z = Z.refused /\ v = A.refused
    OBVIOUS
  <2>2. (w # 0 => x \in Int) /\ (r # w => y \in Int) /\ (k + 1 > r => z \in Int) /\ v \in Int
    BY <1>4, <1>5, <2>1, TallyParts
  <2>3. v = IF k + 1 <= w THEN x ELSE IF k + 1 <= r THEN y ELSE z
    BY <1>6, <2>1
  <2>4. SumTo(w, r, k + 1, x, y, z) = SumTo(w, r, k, x, y, z) + v
    BY <1>1, <2>2, <2>3, SumToStep
  <2>5. s.refused = t.refused + v /\ t.refused = SumTo(w, r, k, x, y, z)
    BY <1>1, <1>2, <2>1 DEF Grown, Tallied
  <2> QED  BY <2>1, <2>4, <2>5
<1>8. s.failed = SumTo(w, r, k + 1, X.failed, Y.failed, Z.failed)
  <2>1. PICK x, y, z, v : x = X.failed /\ y = Y.failed /\ z = Z.failed /\ v = A.failed
    OBVIOUS
  <2>2. (w # 0 => x \in Int) /\ (r # w => y \in Int) /\ (k + 1 > r => z \in Int) /\ v \in Int
    BY <1>4, <1>5, <2>1, TallyParts
  <2>3. v = IF k + 1 <= w THEN x ELSE IF k + 1 <= r THEN y ELSE z
    BY <1>6, <2>1
  <2>4. SumTo(w, r, k + 1, x, y, z) = SumTo(w, r, k, x, y, z) + v
    BY <1>1, <2>2, <2>3, SumToStep
  <2>5. s.failed = t.failed + v /\ t.failed = SumTo(w, r, k, x, y, z)
    BY <1>1, <1>2, <2>1 DEF Grown, Tallied
  <2> QED  BY <2>1, <2>4, <2>5
<1>9. s.up = SumTo(w, r, k + 1, X.up, Y.up, Z.up)
  <2>1. PICK x, y, z, v : x = X.up /\ y = Y.up /\ z = Z.up /\ v = A.up
    OBVIOUS
  <2>2. (w # 0 => x \in Int) /\ (r # w => y \in Int) /\ (k + 1 > r => z \in Int) /\ v \in Int
    BY <1>4, <1>5, <2>1, TallyParts
  <2>3. v = IF k + 1 <= w THEN x ELSE IF k + 1 <= r THEN y ELSE z
    BY <1>6, <2>1
  <2>4. SumTo(w, r, k + 1, x, y, z) = SumTo(w, r, k, x, y, z) + v
    BY <1>1, <2>2, <2>3, SumToStep
  <2>5. s.up = t.up + v /\ t.up = SumTo(w, r, k, x, y, z)
    BY <1>1, <1>2, <2>1 DEF Grown, Tallied
  <2> QED  BY <2>1, <2>4, <2>5
<1>10. s.ends = SumTo(w, r, k + 1, X.ends, Y.ends, Z.ends)
  <2>1. PICK x, y, z, v : x = X.ends /\ y = Y.ends /\ z = Z.ends /\ v = A.ends
    OBVIOUS
  <2>2. (w # 0 => x \in Int) /\ (r # w => y \in Int) /\ (k + 1 > r => z \in Int) /\ v \in Int
    BY <1>4, <1>5, <2>1, TallyParts
  <2>3. v = IF k + 1 <= w THEN x ELSE IF k + 1 <= r THEN y ELSE z
    BY <1>6, <2>1
  <2>4. SumTo(w, r, k + 1, x, y, z) = SumTo(w, r, k, x, y, z) + v
    BY <1>1, <2>2, <2>3, SumToStep
  <2>5. s.ends = t.ends + v /\ t.ends = SumTo(w, r, k, x, y, z)
    BY <1>1, <1>2, <2>1 DEF Grown, Tallied
  <2> QED  BY <2>1, <2>4, <2>5
<1>11. s.touched = SumTo(w, r, k + 1, X.touched, Y.touched, Z.touched)
  <2>1. PICK x, y, z, v : x = X.touched /\ y = Y.touched /\ z = Z.touched /\ v = A.touched
    OBVIOUS
  <2>2. (w # 0 => x \in Int) /\ (r # w => y \in Int) /\ (k + 1 > r => z \in Int) /\ v \in Int
    BY <1>4, <1>5, <2>1, TallyParts
  <2>3. v = IF k + 1 <= w THEN x ELSE IF k + 1 <= r THEN y ELSE z
    BY <1>6, <2>1
  <2>4. SumTo(w, r, k + 1, x, y, z) = SumTo(w, r, k, x, y, z) + v
    BY <1>1, <2>2, <2>3, SumToStep
  <2>5. s.touched = t.touched + v /\ t.touched = SumTo(w, r, k, x, y, z)
    BY <1>1, <1>2, <2>1 DEF Grown, Tallied
  <2> QED  BY <2>1, <2>4, <2>5
<1>12. s \in Tallies
  BY DEF Grown
<1> QED  BY <1>1, <1>2, <1>7, <1>8, <1>9, <1>10, <1>11, <1>12 DEF Tallied

LEMMA SampleAdds ==
  ASSUME Planned, tally \in Tallies, Sample
  PROVE  Grown(tally, at, tally') /\ at \in 1 .. plan.nodes /\ at' = at + 1 /\ plan' = plan
<1>1. at \in 1 .. plan.nodes /\ at' = at + 1 /\ plan' = plan
  BY DEF Sample
<1>2. PICK r, f, u, d, c \in Int : /\ r = tally.refused /\ f = tally.failed /\ u = tally.up
                                 /\ d = tally.ends /\ c = tally.touched
  BY TallyParts
<1>3. PICK A : A = Adds(at)
  OBVIOUS
<1>4. CASE Judged(at)
  <2>1. Drew(at, A)
    BY <1>1, <1>3, <1>4, EntryDrew
  <2>2. PICK g, h, i, j \in Int : g = A.failed /\ h = A.up /\ i = A.ends /\ j = A.touched
    BY <2>1, TallyParts DEF Drew
  <2>3. /\ A.refused = 0 /\ g = Share(at) * Cardinality(DOMAIN Drawn(at) \ UpDraws(at))
        /\ h = Share(at) * Cardinality(UpDraws(at)) /\ i = Share(at) * Cardinality(EndDraws(at))
        /\ j = Share(at) * Cardinality(AnyDraws(at))
    BY <2>1, <2>2 DEF Drew
  <2>4. tally' = [refused |-> tally.refused,
                  failed  |-> tally.failed + Share(at) * Cardinality(DOMAIN Drawn(at) \ UpDraws(at)),
                  up      |-> tally.up + Share(at) * Cardinality(UpDraws(at)),
                  ends    |-> tally.ends + Share(at) * Cardinality(EndDraws(at)),
                  touched |-> tally.touched + Share(at) * Cardinality(AnyDraws(at))]
    BY Zenon, <1>4 DEF Sample, Judged, Share, UpDraws, EndDraws, AnyDraws
  <2>5. tally' = [refused |-> r, failed |-> f + g, up |-> u + h, ends |-> d + i, touched |-> c + j]
    BY <1>2, <2>3, <2>4
  <2>6. /\ f + g \in Int /\ u + h \in Int /\ d + i \in Int /\ c + j \in Int /\ r + 0 = r
    OBVIOUS
  <2>7. tally' \in Tallies
    BY <2>5, <2>6 DEF Tallies
  <2>8. /\ tally'.refused = r /\ tally'.failed = f + g /\ tally'.up = u + h
        /\ tally'.ends = d + i /\ tally'.touched = c + j
    BY <2>5
  <2> QED  BY <1>1, <1>2, <1>3, <2>2, <2>3, <2>6, <2>7, <2>8 DEF Grown
<1>5. CASE ~Judged(at)
  <2>1. A = NoChains /\ A \in Tallies
    BY <1>1, <1>3, <1>5, EntryDrew
  <2>2. PICK g \in Int : g = Unit /\ A = [refused |-> g, failed |-> 0, up |-> 0, ends |-> 0, touched |-> 0]
    BY <2>1, TallyParts DEF NoChains
  <2>3. tally' = [tally EXCEPT !.refused = @ + g]
    BY <1>5, <2>2 DEF Sample, Judged
  <2>4. /\ tally'.refused = r + g /\ tally'.failed = f /\ tally'.up = u
        /\ tally'.ends = d /\ tally'.touched = c
    BY <1>2, <2>3 DEF Tallies
  <2>5. tally' \in Tallies
    BY <2>3, TallyParts DEF Tallies
  <2>6. f + 0 = f /\ u + 0 = u /\ d + 0 = d /\ c + 0 = c
    OBVIOUS
  <2>7. A.refused = g /\ A.failed = 0 /\ A.up = 0 /\ A.ends = 0 /\ A.touched = 0
    BY <2>2
  <2> QED  BY <1>1, <1>2, <1>3, <2>4, <2>5, <2>6, <2>7 DEF Grown
<1> QED  BY <1>4, <1>5

-----------------------------------------------------------------------------
(* The inductive invariant of the laboratory. *)

\* Until the plan is checked nothing is counted; from then on the tally is the
\* sum over the entries before this one, by kind.
LabInv ==
  /\ plan \in Plans
  /\ \/ at = 0 /\ tally = Zero
     \/ Planned /\ at \in 1 .. plan.nodes + 1 /\ Tallied(tally, at - 1)

LEMMA PlanSame ==
  ASSUME plan' = plan
  PROVE  /\ Planned' <=> Planned
         /\ RogueAdds(TRUE)' = RogueAdds(TRUE) /\ RogueAdds(FALSE)' = RogueAdds(FALSE)
         /\ HonestAdds' = HonestAdds
<1>1. Honest' = Honest /\ Unit' = Unit /\ Allowed' = Allowed
  BY DEF Honest, Unit, Allowed
<1>2. Planned' <=> Planned
  BY <1>1 DEF Planned
<1>3. /\ OthersWithholding(TRUE)' = OthersWithholding(TRUE)
      /\ OthersWithholding(FALSE)' = OthersWithholding(FALSE)
  BY DEF OthersWithholding
<1>4. RogueEntry(TRUE)' = RogueEntry(TRUE) /\ RogueEntry(FALSE)' = RogueEntry(FALSE)
  BY <1>1, <1>3 DEF RogueEntry
<1>5. NoChains' = NoChains
  BY <1>1 DEF NoChains
<1>6. RogueAdds(TRUE)' = RogueAdds(TRUE) /\ RogueAdds(FALSE)' = RogueAdds(FALSE)
  BY <1>1, <1>4, <1>5 DEF RogueAdds
<1>7. HonestAll' = HonestAll
  BY DEF HonestAll
<1>8. HonestAny' = HonestAny
  BY <1>1, <1>7 DEF HonestAny
<1>9. HonestAdds' = HonestAdds
  BY <1>1, <1>5, <1>8 DEF HonestAdds
<1> QED  BY <1>2, <1>6, <1>9

LEMMA LabInvHolds == LabSpec => []LabInv
<1>1. ASSUME LabInit PROVE LabInv
  BY <1>1 DEF LabInit, LabInv
<1>2. ASSUME LabInv, [LabNext]_lab PROVE LabInv'
  <2>1. CASE CheckPlan
    <3>1. plan' = plan /\ tally' = tally /\ at = 0 /\ at' = 1 /\ PlanGood /\ plan \in Plans
      BY <1>2, <2>1 DEF CheckPlan, LabInv
    <3>2. tally = Zero
      BY <1>2, <3>1 DEF LabInv
    <3>3. Planned
      <4>1. /\ plan.nodes \in Int /\ plan.hops \in Int /\ plan.rogue \in Int
            /\ plan.missing \in Int /\ plan.leftOut \in Int /\ plan.withheld \in Int
        BY <3>1, PlanAssumption
      <4> QED  BY <3>1, <4>1 DEF PlanGood, Planned
    <3>4. Tallied(Zero, 0)
      BY <3>3, TalliedStart
    <3>5. Tallied(tally, 0)' <=> Tallied(tally', 0)
      BY <3>1, PlanSame DEF Tallied
    <3>6. plan.nodes \in Nat /\ 1 - 1 = 0
      BY <3>3, PlanTypes
    <3> QED  BY <3>1, <3>2, <3>3, <3>4, <3>5, <3>6, PlanSame DEF LabInv
  <2>2. CASE Sample
    <3>1. at \in 1 .. plan.nodes /\ at' = at + 1 /\ plan' = plan
      BY <2>2 DEF Sample
    <3>2. Planned /\ Tallied(tally, at - 1) /\ plan \in Plans
      <4>1. at # 0
        BY <3>1
      <4> QED  BY <1>2, <4>1 DEF LabInv
    <3>3. tally \in Tallies
      BY <3>2 DEF Tallied
    <3>4. Grown(tally, at, tally')
      BY <2>2, <3>2, <3>3, SampleAdds
    <3>5. PICK k \in Nat : k = at - 1 /\ at = k + 1 /\ k + 1 <= plan.nodes
      BY <3>1, <3>2, PlanTypes
    <3>6. PICK e, s : e = at /\ s = tally'
      OBVIOUS
    <3>7. Tallied(s, e)
      BY <3>2, <3>4, <3>5, <3>6, TalliedStep
    <3>8. at' - 1 = at
      BY <3>1, <3>2, PlanTypes
    <3>9. Tallied(tally, at - 1)'
      BY <3>1, <3>6, <3>7, <3>8, PlanSame DEF Tallied
    <3>10. at + 1 \in 1 .. plan.nodes + 1
      BY <3>1, <3>2, PlanTypes
    <3> QED  BY <3>1, <3>2, <3>9, <3>10, PlanSame DEF LabInv
  <2>3. CASE UNCHANGED lab
    <3>1. plan' = plan /\ at' = at /\ tally' = tally
      BY <2>3 DEF lab
    <3>2. Tallied(tally, at - 1)' <=> Tallied(tally, at - 1)
      BY <3>1, PlanSame DEF Tallied
    <3> QED  BY <1>2, <3>1, <3>2, PlanSame DEF LabInv
  <2> QED  BY <1>2, <2>1, <2>2, <2>3 DEF LabNext
<1> QED  BY <1>1, <1>2, PTL DEF LabSpec

Chains == [accepted : Int, up : Int, down : Int, ends : Int, any : Int]

LEMMA AddEntriesIs ==
  ASSUME NEW count \in Nat, NEW b, NEW s \in Chains,
         NEW x, NEW y, NEW z, NEW t,
         /\ x = RogueEntry(b).up /\ y = RogueEntry(b).down /\ z = RogueEntry(b).ends
         /\ t = RogueEntry(b).any,
         count # 0 => x \in Int /\ y \in Int /\ z \in Int /\ t \in Int
  PROVE  /\ AddEntries(count, b, s) \in Chains
         /\ AddEntries(count, b, s).accepted = s.accepted
         /\ AddEntries(count, b, s).up = s.up + Ways(count, x)
         /\ AddEntries(count, b, s).down = s.down + Ways(count, y)
         /\ AddEntries(count, b, s).ends = s.ends + Ways(count, z)
         /\ AddEntries(count, b, s).any = s.any + Ways(count, t)
<1>1. PICK a, p, q, r, m \in Int : /\ a = s.accepted /\ p = s.up /\ q = s.down /\ r = s.ends /\ m = s.any
  BY DEF Chains
<1>2. CASE count = 0
  <2>1. AddEntries(count, b, s) = s
    BY <1>2 DEF AddEntries
  <2>2. Ways(count, x) = 0 /\ Ways(count, y) = 0 /\ Ways(count, z) = 0 /\ Ways(count, t) = 0
    BY <1>2 DEF Ways
  <2>3. p + 0 = p /\ q + 0 = q /\ r + 0 = r /\ m + 0 = m
    OBVIOUS
  <2> QED  BY <1>1, <2>1, <2>2, <2>3
<1>3. CASE count # 0
  <2>1. /\ Ways(count, x) = count * x /\ Ways(count, y) = count * y
        /\ Ways(count, z) = count * z /\ Ways(count, t) = count * t
    BY <1>3 DEF Ways
  <2>2. AddEntries(count, b, s) = [accepted |-> a, up |-> p + count * x, down |-> q + count * y,
                                   ends |-> r + count * z, any |-> m + count * t]
    BY <1>1, <1>3 DEF AddEntries
  <2>3. /\ p + count * x \in Int /\ q + count * y \in Int /\ r + count * z \in Int
        /\ m + count * t \in Int
    BY <1>3
  <2>4. AddEntries(count, b, s) \in Chains
    BY <2>2, <2>3 DEF Chains
  <2> QED  BY <1>1, <2>1, <2>2, <2>4
<1> QED  BY <1>2, <1>3

\* The closed form adds up what the kinds of entries add.
Agrees(m) ==
  /\ m \in Chains
  /\ m.accepted = (IF plan.withheld <= Allowed THEN Honest ELSE 0)
                    + (IF plan.leftOut <= Allowed THEN plan.rogue ELSE 0)
  /\ m.up = Ways(plan.withheld, RogueAdds(TRUE).up)
              + Ways(plan.rogue - plan.withheld, RogueAdds(FALSE).up) + Ways(Honest, HonestAdds.up)
  /\ m.down = Ways(plan.withheld, RogueAdds(TRUE).failed)
                + Ways(plan.rogue - plan.withheld, RogueAdds(FALSE).failed)
                + Ways(Honest, HonestAdds.failed)
  /\ m.ends = Ways(plan.withheld, RogueAdds(TRUE).ends)
                + Ways(plan.rogue - plan.withheld, RogueAdds(FALSE).ends)
                + Ways(Honest, HonestAdds.ends)
  /\ m.any = Ways(plan.withheld, RogueAdds(TRUE).touched)
               + Ways(plan.rogue - plan.withheld, RogueAdds(FALSE).touched)
               + Ways(Honest, HonestAdds.touched)

LEMMA WaysZero ==
  ASSUME NEW h \in Nat
  PROVE  Ways(h, 0) = 0
BY DEF Ways

LEMMA HonestEntriesIs ==
  ASSUME Planned
  PROVE  /\ HonestEntries \in Chains
         /\ HonestEntries.accepted = IF plan.withheld <= Allowed THEN Honest ELSE 0
         /\ HonestEntries.up = Ways(Honest, HonestAdds.up)
         /\ HonestEntries.down = Ways(Honest, HonestAdds.failed)
         /\ HonestEntries.ends = Ways(Honest, HonestAdds.ends)
         /\ HonestEntries.any = Ways(Honest, HonestAdds.touched)
<1>1. PICK h \in Nat : h = Honest
  BY PlanTypes
<1>2. PICK no : no = [accepted |-> 0, up |-> 0, down |-> 0, ends |-> 0, any |-> 0]
  OBVIOUS
<1>3. /\ no \in Chains /\ no.accepted = 0 /\ no.up = 0 /\ no.down = 0 /\ no.ends = 0 /\ no.any = 0
  BY <1>2 DEF Chains
<1>4. CASE ~(plan.withheld <= Allowed)
  <2>1. HonestEntries = no
    BY <1>2, <1>4 DEF HonestEntries
  <2>2. HonestAdds.up = 0 /\ HonestAdds.failed = 0 /\ HonestAdds.ends = 0 /\ HonestAdds.touched = 0
    BY <1>4 DEF HonestAdds, NoChains
  <2>3. Ways(h, 0) = 0
    BY WaysZero
  <2> QED  BY <1>1, <1>3, <1>4, <2>1, <2>2, <2>3
<1>5. CASE plan.withheld <= Allowed /\ h = 0
  <2>1. HonestEntries = no
    BY <1>1, <1>2, <1>5 DEF HonestEntries
  <2>2. \A c : Ways(h, c) = 0
    BY <1>5 DEF Ways
  <2> QED  BY <1>1, <1>3, <1>5, <2>1, <2>2
<1>6. CASE plan.withheld <= Allowed /\ h # 0
  <2>1. h > 0
    BY <1>6
  <2>2. HonestEntries = [accepted |-> h, up |-> h * Unit, down |-> 0, ends |-> 0, any |-> h * HonestAny]
    BY <1>1, <1>6, <2>1 DEF HonestEntries, HonestAny, HonestAll
  <2>3. HonestAdds = [refused |-> 0, failed |-> 0, up |-> Unit, ends |-> 0, touched |-> HonestAny]
    BY <1>6 DEF HonestAdds
  <2>4. HonestAdds \in Tallies
    <3>1. plan.nodes # plan.rogue
      BY <1>1, <1>6, PlanTypes
    <3> QED  BY <3>1, KindsTyped
  <2>5. PICK u, v \in Int : u = Unit /\ v = HonestAny
    BY <2>3, <2>4, TallyParts
  <2>6. HonestEntries \in Chains
    <3>1. h * u \in Int /\ h * v \in Int
      OBVIOUS
    <3> QED  BY <2>2, <2>5, <3>1 DEF Chains
  <2>7. Ways(h, u) = h * u /\ Ways(h, v) = h * v /\ Ways(h, 0) = 0
    BY <1>6, WaysZero DEF Ways
  <2>8. /\ HonestAdds.up = u /\ HonestAdds.failed = 0 /\ HonestAdds.ends = 0 /\ HonestAdds.touched = v
    BY <2>3, <2>5
  <2>9. /\ HonestEntries.accepted = h /\ HonestEntries.up = h * u /\ HonestEntries.down = 0
        /\ HonestEntries.ends = 0 /\ HonestEntries.any = h * v
    BY <2>2, <2>5
  <2> QED  BY <1>1, <1>6, <2>6, <2>7, <2>8, <2>9
<1> QED  BY <1>4, <1>5, <1>6

\* MirrorCompromiseProbability is the sum of what all the entries add.
LEMMA MirrorAgrees ==
  ASSUME Planned
  PROVE  Agrees(MirrorCompromise)
<1>1. PICK w, v, r, h \in Nat : /\ w = plan.withheld /\ r = plan.rogue /\ v = plan.rogue - plan.withheld
                                /\ h = Honest
  BY PlanTypes
<1>2. PICK a, p, q, c, d \in Int :
         /\ a = HonestEntries.accepted /\ p = HonestEntries.up /\ q = HonestEntries.down
         /\ c = HonestEntries.ends /\ d = HonestEntries.any
  BY HonestEntriesIs DEF Chains
<1>3. /\ p = Ways(h, HonestAdds.up) /\ q = Ways(h, HonestAdds.failed)
      /\ c = Ways(h, HonestAdds.ends) /\ d = Ways(h, HonestAdds.touched)
      /\ a = IF plan.withheld <= Allowed THEN Honest ELSE 0
  BY <1>1, <1>2, HonestEntriesIs
<1>4. (plan.leftOut > Allowed) <=> ~(plan.leftOut <= Allowed)
  BY PlanTypes DEF Allowed, MaxAbsent
<1>5. CASE ~(plan.leftOut <= Allowed)
  <2>1. MirrorCompromise = HonestEntries
    BY <1>4, <1>5 DEF MirrorCompromise
  <2>2. RogueAdds(TRUE) = NoChains /\ RogueAdds(FALSE) = NoChains
    BY <1>5 DEF RogueAdds
  <2>3. NoChains.up = 0 /\ NoChains.failed = 0 /\ NoChains.ends = 0 /\ NoChains.touched = 0
    BY DEF NoChains
  <2>4. Ways(w, 0) = 0 /\ Ways(v, 0) = 0
    BY WaysZero
  <2>5. 0 + 0 + p = p /\ 0 + 0 + q = q /\ 0 + 0 + c = c /\ 0 + 0 + d = d /\ a + 0 = a
    OBVIOUS
  <2>6. HonestEntries \in Chains
    BY HonestEntriesIs
  <2> QED  BY <1>1, <1>2, <1>3, <1>5, <2>1, <2>2, <2>3, <2>4, <2>5, <2>6 DEF Agrees
<1>6. CASE plan.leftOut <= Allowed
  <2>1. PICK s : s = [HonestEntries EXCEPT !.accepted = @ + plan.rogue]
    OBVIOUS
  <2>2. /\ s \in Chains /\ s.accepted = a + r /\ s.up = p /\ s.down = q /\ s.ends = c /\ s.any = d
    <3>1. a + r \in Int
      OBVIOUS
    <3> QED  BY <1>1, <1>2, <2>1, <3>1, HonestEntriesIs DEF Chains
  <2>3. PICK t, m : t = AddEntries(w, TRUE, s) /\ m = AddEntries(v, FALSE, t)
    OBVIOUS
  <2>4. m = MirrorCompromise
    BY <1>1, <1>4, <1>6, <2>1, <2>3 DEF MirrorCompromise
  <2>5. /\ RogueAdds(TRUE).up = RogueEntry(TRUE).up /\ RogueAdds(TRUE).failed = RogueEntry(TRUE).down
        /\ RogueAdds(TRUE).ends = RogueEntry(TRUE).ends
        /\ RogueAdds(TRUE).touched = RogueEntry(TRUE).any
    BY <1>6 DEF RogueAdds
  <2>6. /\ RogueAdds(FALSE).up = RogueEntry(FALSE).up /\ RogueAdds(FALSE).failed = RogueEntry(FALSE).down
        /\ RogueAdds(FALSE).ends = RogueEntry(FALSE).ends
        /\ RogueAdds(FALSE).touched = RogueEntry(FALSE).any
    BY <1>6 DEF RogueAdds
  <2>7. PICK x1, y1, z1, t1 : /\ x1 = RogueAdds(TRUE).up /\ y1 = RogueAdds(TRUE).failed
                              /\ z1 = RogueAdds(TRUE).ends /\ t1 = RogueAdds(TRUE).touched
    OBVIOUS
  <2>8. PICK x2, y2, z2, t2 : /\ x2 = RogueAdds(FALSE).up /\ y2 = RogueAdds(FALSE).failed
                              /\ z2 = RogueAdds(FALSE).ends /\ t2 = RogueAdds(FALSE).touched
    OBVIOUS
  <2>9. w # 0 => x1 \in Int /\ y1 \in Int /\ z1 \in Int /\ t1 \in Int
    BY <1>1, <2>7, KindsTyped, TallyParts
  <2>10. v # 0 => x2 \in Int /\ y2 \in Int /\ z2 \in Int /\ t2 \in Int
    <3>1. v # 0 => plan.rogue # plan.withheld
      BY <1>1
    <3> QED  BY <2>8, <3>1, KindsTyped, TallyParts
  <2>11. /\ t \in Chains /\ t.accepted = s.accepted
         /\ t.up = s.up + Ways(w, x1) /\ t.down = s.down + Ways(w, y1)
         /\ t.ends = s.ends + Ways(w, z1) /\ t.any = s.any + Ways(w, t1)
    <3>1. PICK b : b = TRUE
      OBVIOUS
    <3>2. /\ x1 = RogueEntry(b).up /\ y1 = RogueEntry(b).down /\ z1 = RogueEntry(b).ends
          /\ t1 = RogueEntry(b).any
      BY <2>5, <2>7, <3>1
    <3>3. /\ AddEntries(w, b, s) \in Chains
          /\ AddEntries(w, b, s).accepted = s.accepted
          /\ AddEntries(w, b, s).up = s.up + Ways(w, x1)
          /\ AddEntries(w, b, s).down = s.down + Ways(w, y1)
          /\ AddEntries(w, b, s).ends = s.ends + Ways(w, z1)
          /\ AddEntries(w, b, s).any = s.any + Ways(w, t1)
      BY <2>2, <2>9, <3>2, AddEntriesIs
    <3> QED  BY <2>3, <3>1, <3>3
  <2>12. /\ m \in Chains /\ m.accepted = t.accepted
         /\ m.up = t.up + Ways(v, x2) /\ m.down = t.down + Ways(v, y2)
         /\ m.ends = t.ends + Ways(v, z2) /\ m.any = t.any + Ways(v, t2)
    <3>1. PICK b : b = FALSE
      OBVIOUS
    <3>2. /\ x2 = RogueEntry(b).up /\ y2 = RogueEntry(b).down /\ z2 = RogueEntry(b).ends
          /\ t2 = RogueEntry(b).any
      BY <2>6, <2>8, <3>1
    <3>3. /\ AddEntries(v, b, t) \in Chains
          /\ AddEntries(v, b, t).accepted = t.accepted
          /\ AddEntries(v, b, t).up = t.up + Ways(v, x2)
          /\ AddEntries(v, b, t).down = t.down + Ways(v, y2)
          /\ AddEntries(v, b, t).ends = t.ends + Ways(v, z2)
          /\ AddEntries(v, b, t).any = t.any + Ways(v, t2)
      BY <2>11, <2>10, <3>2, AddEntriesIs
    <3> QED  BY <2>3, <3>1, <3>3
  <2>13. /\ Ways(w, x1) \in Int /\ Ways(w, y1) \in Int /\ Ways(w, z1) \in Int /\ Ways(w, t1) \in Int
    BY <2>9, WaysInt
  <2>14. /\ Ways(v, x2) \in Int /\ Ways(v, y2) \in Int /\ Ways(v, z2) \in Int /\ Ways(v, t2) \in Int
    BY <2>10, WaysInt
  <2>15. /\ m.accepted = a + r
         /\ m.up = Ways(w, x1) + Ways(v, x2) + p /\ m.down = Ways(w, y1) + Ways(v, y2) + q
         /\ m.ends = Ways(w, z1) + Ways(v, z2) + c /\ m.any = Ways(w, t1) + Ways(v, t2) + d
    BY <2>2, <2>11, <2>12, <2>13, <2>14
  <2> QED  BY <1>1, <1>3, <1>6, <2>4, <2>7, <2>8, <2>12, <2>15 DEF Agrees
<1> QED  BY <1>5, <1>6

\* With full mirrors every entry is accepted.
Full == plan.leftOut = 0 /\ plan.withheld = 0

LEMMA FullAllowed ==
  ASSUME Planned, Full
  PROVE  plan.leftOut <= Allowed /\ plan.withheld <= Allowed
BY PlanTypes DEF Full, Allowed, MaxAbsent

\* The rogue exits among the chains of a rogue entry with full mirrors.
FullExits == IF plan.hops = 1 THEN 1 ELSE (plan.rogue - 1) * Falling(plan.nodes - 2, plan.hops - 2)

LEMMA FullChains ==
  ASSUME Planned, Full, plan.rogue # 0, NEW c,
         c = RogueEntryChains(Honest, 0, plan.rogue - 1, plan.hops - 1)
  PROVE  /\ c \in Sums /\ c.failed = 0 /\ c.up = Falling(plan.nodes - 1, plan.hops - 1)
         /\ c.exit = FullExits
<1>1. PICK h, o, d, n \in Nat : h = Honest /\ o = plan.rogue - 1 /\ d = plan.hops - 1 /\ n = plan.nodes
  BY PlanTypes
<1>2. h + o = n - 1
  BY <1>1, PlanTypes
<1>3. PICK f : Worked(h, 0, o, d, f) /\ RogueEntryChains(h, 0, o, d) = f[d][Left(h, 0, o, FALSE)]
  BY EntryChainsIs
<1>4. PICK u : u = Left(h, 0, o, FALSE)
  OBVIOUS
<1>5. u.honest = h /\ u.withholding = 0 /\ u.others = o /\ u.after = FALSE
  BY <1>4 DEF Left
<1>6. u \in Undrawn(h, 0, o)
  BY <1>4 DEF Left, Undrawn
<1>7. c = f[d][u]
  BY <1>1, <1>3, <1>4
<1>8. d \in 0 .. d /\ 0 \in Int
  OBVIOUS
<1>9. c \in Sums
  <2>1. Summed(f[d], h, 0, o)
    BY <1>3, <1>8, WorkedSums
  <2> QED  BY <1>6, <1>7, <2>1 DEF Summed
<1>10. c.failed = 0
  <2>1. NoneFails(h, 0, o, f, d)
    BY <1>3, <1>8, WorkedNoneFails
  <2> QED  BY <1>5, <1>6, <1>7, <2>1 DEF NoneFails
<1>11. Total(u) = n - 1
  BY <1>2, <1>5 DEF Total
<1>12. c.up = Falling(n - 1, d)
  <2>1. Complete(h, 0, o, f, d)
    BY <1>3, <1>8, WorkedComplete
  <2>2. Falling(n - 1, d) = c.up + c.failed
    BY <1>6, <1>7, <1>11, <2>1 DEF Complete
  <2>3. c.up \in Int
    BY <1>9 DEF Sums
  <2> QED  BY <1>10, <2>2, <2>3
<1>13. c.exit = FullExits
  <2>1. CASE d = 0
    <3>1. ExitOnly(f[0][u], u)
      BY <1>3, <1>6, WorkedStart
    <3>2. c.exit = 1
      BY <1>5, <1>7, <2>1, <3>1 DEF ExitOnly
    <3>3. plan.hops = 1
      BY <1>1, <2>1, PlanTypes
    <3> QED  BY <3>2, <3>3 DEF FullExits
  <2>2. CASE d # 0
    <3>1. PICK k \in Nat : d = k + 1 /\ k < d /\ k = plan.hops - 2 /\ plan.hops # 1
      BY <1>1, <2>2, PlanTypes
    <3>2. EvenExits(h, 0, o, f, k)
      BY <1>3, <3>1, WorkedExits
    <3>3. f[k + 1][u].exit = u.others * Falling(Total(u) - 1, k)
      BY <1>5, <1>6, <3>2 DEF EvenExits
    <3>4. Total(u) - 1 = n - 2
      BY <1>11
    <3>5. c.exit = o * Falling(n - 2, k)
      BY <1>5, <1>7, <3>1, <3>3, <3>4
    <3> QED  BY <1>1, <3>1, <3>5 DEF FullExits
  <2> QED  BY <2>1, <2>2
<1> QED  BY <1>1, <1>9, <1>10, <1>12, <1>13

\* The tally with full mirrors, where each chain of any entry has the share s.
FullSums(n, r, h, s, a, b, x) ==
  /\ n \in Nat /\ r \in Nat /\ h \in Nat /\ n = r + h /\ a \in Nat /\ b \in Int /\ s \in Nat
  /\ s * a = Unit /\ Unit \in Nat
  /\ tally.up = n * Unit /\ tally.touched = r * Unit + h * (s * (a - b))
  /\ r # 0 => x \in Int
  /\ tally.ends = IF r = 0 THEN 0 ELSE r * (s * x)

LEMMA FullTally ==
  ASSUME Planned, Full, Tallied(tally, plan.nodes),
         NEW n, NEW r, NEW h, NEW s, NEW a, NEW b, NEW x,
         n = plan.nodes, r = plan.rogue, h = Honest, a = Falling(plan.nodes - 1, plan.hops - 1),
         b = Falling(Honest - 1, plan.hops - 1), s = Unit \div a, x = FullExits
  PROVE  FullSums(n, r, h, s, a, b, x)
<1>1. n \in Nat /\ r \in Nat /\ h \in Nat /\ n = r + h
  BY PlanTypes
<1>2. Shared(a)
  <2>1. PICK m \in Nat : m = plan.nodes - 1 /\ m <= plan.nodes - 1
    BY PlanTypes
  <2>2. PICK k \in 0 .. m : k = plan.hops - 1
    BY <2>1, PlanTypes
  <2>3. Shared(Falling(m, k))
    BY <2>1, FallingShared
  <2> QED  BY <2>1, <2>2, <2>3
<1>3. a \in Nat /\ s \in Nat /\ s * a = Unit /\ Unit \in Nat
  BY <1>2 DEF Shared
<1>4. b \in Int
  <2>1. Honest - 1 \in Int /\ plan.hops - 1 \in Nat
    BY PlanTypes
  <2> QED  BY <2>1, FallingInt
<1>5. plan.leftOut <= Allowed /\ plan.withheld <= Allowed /\ plan.leftOut = 0 /\ plan.withheld = 0
  BY FullAllowed DEF Full
<1>6. HonestAdds.up = Unit /\ HonestAdds.ends = 0 /\ HonestAdds.touched = s * (a - b)
  <2>1. plan.nodes - plan.withheld - 1 = plan.nodes - 1
    BY <1>5, PlanTypes
  <2>2. HonestAll = a
    BY <2>1 DEF HonestAll
  <2>3. HonestAny = s * (a - b)
    BY <2>2 DEF HonestAny
  <2> QED  BY <1>5, <2>3 DEF HonestAdds
<1>7. ASSUME r # 0
      PROVE  /\ RogueAdds(FALSE).up = Unit /\ RogueAdds(FALSE).touched = Unit
             /\ RogueAdds(FALSE).ends = s * x /\ x \in Int
  <2>1. PICK c : c = RogueEntryChains(Honest, 0, plan.rogue - 1, plan.hops - 1)
    OBVIOUS
  <2>2. c \in Sums /\ c.up = a /\ c.exit = x
    BY <1>7, <2>1, FullChains
  <2>3. x \in Int
    BY <2>2 DEF Sums
  <2>4. OthersWithholding(FALSE) = 0
    BY <1>5 DEF OthersWithholding
  <2>5. /\ Honest - plan.leftOut = Honest /\ plan.rogue - 1 - 0 = plan.rogue - 1
        /\ Honest - plan.leftOut + plan.rogue - 1 = plan.nodes - 1
    BY <1>5, PlanTypes
  <2>6. RogueEntry(FALSE) = [up |-> s * c.up, down |-> s * c.failed, ends |-> s * c.exit, any |-> s * c.up]
    BY <2>1, <2>4, <2>5 DEF RogueEntry
  <2>7. RogueEntry(FALSE).up = Unit /\ RogueEntry(FALSE).ends = s * x /\ RogueEntry(FALSE).any = Unit
    <3>1. PICK p, q, t : p = s * c.up /\ q = s * c.failed /\ t = s * c.exit
      OBVIOUS
    <3>2. p = Unit /\ t = s * x
      BY <1>3, <2>2, <3>1
    <3>3. PICK one : one = RogueEntry(FALSE)
      OBVIOUS
    <3>4. one = [up |-> p, down |-> q, ends |-> t, any |-> p]
      BY <2>6, <3>1, <3>3
    <3>5. one.up = p /\ one.ends = t /\ one.any = p
      BY ONLY <3>4
    <3> QED  BY <3>2, <3>3, <3>5
  <2> QED  BY <1>5, <2>3, <2>7 DEF RogueAdds
<1>8. ASSUME NEW p, NEW q, NEW t, NEW v \in Int, r # 0 => q = v, NEW l \in Int, t = l
      PROVE  SumTo(plan.withheld, plan.rogue, plan.nodes, p, q, t) = r * v + h * l
  <2>1. 0 \in Nat /\ 0 <= r /\ r <= n
    BY <1>1
  <2>2. SumTo(0, r, n, p, q, t) = Ways(0, p) + Ways(r - 0, q) + Ways(n - r, t)
    BY <1>1, <2>1, SumToLast
  <2>3. r - 0 = r /\ n - r = h /\ Ways(0, p) = 0
    BY <1>1 DEF Ways
  <2>4. Ways(r, q) = r * v
    <3>1. CASE r = 0
      BY <1>8, <3>1 DEF Ways
    <3>2. CASE r # 0
      BY <1>8, <3>2 DEF Ways
    <3> QED  BY <3>1, <3>2
  <2>5. Ways(h, t) = h * l
    BY <1>1, <1>8 DEF Ways
  <2>6. 0 + r * v + h * l = r * v + h * l
    BY <1>1
  <2>7. SumTo(0, r, n, p, q, t) = 0 + r * v + h * l
    BY <2>2, <2>3, <2>4, <2>5
  <2> QED  BY <1>5, <2>6, <2>7
<1>9. tally.up = n * Unit
  <2>1. PICK p, q, t : p = RogueAdds(TRUE).up /\ q = RogueAdds(FALSE).up /\ t = HonestAdds.up
    OBVIOUS
  <2>2. tally.up = SumTo(plan.withheld, plan.rogue, plan.nodes, p, q, t)
    BY <2>1 DEF Tallied
  <2>3. PICK v, l \in Int : v = Unit /\ l = Unit
    BY <1>3, <1>4
  <2>4. (r # 0 => q = v) /\ t = l
    BY <1>6, <1>7, <2>1, <2>3
  <2>5. SumTo(plan.withheld, plan.rogue, plan.nodes, p, q, t) = r * v + h * l
    BY <1>8, <2>4
  <2>6. r * v + h * v = n * v
    BY <1>1
  <2> QED  BY <2>2, <2>3, <2>5, <2>6
<1>10. tally.touched = r * Unit + h * (s * (a - b))
  <2>1. PICK p, q, t : p = RogueAdds(TRUE).touched /\ q = RogueAdds(FALSE).touched /\ t = HonestAdds.touched
    OBVIOUS
  <2>2. tally.touched = SumTo(plan.withheld, plan.rogue, plan.nodes, p, q, t)
    BY <2>1 DEF Tallied
  <2>3. PICK v, l \in Int : v = Unit /\ l = s * (a - b)
    BY <1>3, <1>4
  <2>4. (r # 0 => q = v) /\ t = l
    BY <1>6, <1>7, <2>1, <2>3
  <2>5. SumTo(plan.withheld, plan.rogue, plan.nodes, p, q, t) = r * v + h * l
    BY <1>8, <2>4
  <2> QED  BY <2>2, <2>3, <2>5
<1>11. tally.ends = IF r = 0 THEN 0 ELSE r * (s * x)
  <2>1. PICK p, q, t : p = RogueAdds(TRUE).ends /\ q = RogueAdds(FALSE).ends /\ t = HonestAdds.ends
    OBVIOUS
  <2>2. tally.ends = SumTo(plan.withheld, plan.rogue, plan.nodes, p, q, t)
    BY <2>1 DEF Tallied
  <2>3. PICK v, l \in Int : (r # 0 => v = s * x) /\ l = 0
    <3>1. CASE r = 0
      BY <3>1
    <3>2. CASE r # 0
      <4>1. x \in Int
        BY ONLY Zenon, <1>7, <3>2
      <4>2. s \in Nat
        BY ONLY <1>3
      <4>3. s * x \in Int
        BY ONLY <4>1, <4>2
      <4> QED  BY <3>2, <4>3
    <3> QED  BY <3>1, <3>2
  <2>4. (r # 0 => q = v) /\ t = l
    BY <1>6, <1>7, <2>1, <2>3
  <2>5. SumTo(plan.withheld, plan.rogue, plan.nodes, p, q, t) = r * v + h * l
    BY <1>8, <2>4
  <2>6. r * v + h * l = r * v /\ (r = 0 => r * v = 0)
    BY <1>1, <2>3
  <2> QED  BY <2>2, <2>3, <2>5, <2>6
<1> QED  BY <1>1, <1>3, <1>4, <1>7, <1>9, <1>10, <1>11 DEF FullSums

\* With full mirrors the tally has the ratios of CompromiseProbability.
LEMMA FullAgrees ==
  ASSUME Planned, Full, Tallied(tally, plan.nodes)
  PROVE  /\ tally.ends * UniformEnds[2] = tally.up * UniformEnds[1]
         /\ tally.touched * UniformTouched[2] = tally.up * UniformTouched[1]
<1>1. PICK n, r, h, s, a, b, x :
        /\ n = plan.nodes /\ r = plan.rogue /\ h = Honest
        /\ a = Falling(plan.nodes - 1, plan.hops - 1)
        /\ b = Falling(Honest - 1, plan.hops - 1) /\ s = Unit \div a /\ x = FullExits
  OBVIOUS
<1>2. /\ n \in Nat /\ r \in Nat /\ h \in Nat /\ n = r + h /\ a \in Nat /\ b \in Int /\ s \in Nat
      /\ s * a = Unit /\ Unit \in Nat
      /\ tally.up = n * Unit /\ tally.touched = r * Unit + h * (s * (a - b))
      /\ r # 0 => x \in Int
      /\ tally.ends = IF r = 0 THEN 0 ELSE r * (s * x)
  <2>1. FullSums(n, r, h, s, a, b, x)
    BY <1>1, FullTally
  <2> QED  BY <2>1 DEF FullSums
<1>3. tally.up = n * (s * a) /\ tally.touched = r * (s * a) + h * (s * (a - b))
  BY <1>2
<1>4. PICK d \in Nat : d = plan.hops - 1 /\ plan.hops = d + 1
  BY PlanTypes
<1>5. tally.ends * UniformEnds[2] = tally.up * UniformEnds[1]
  <2>1. CASE plan.hops = 1
    <3>1. UniformEnds = <<r, n>>
      BY <1>1, <2>1 DEF UniformEnds
    <3>2. UniformEnds[1] = r /\ UniformEnds[2] = n
      BY <3>1
    <3>3. a = 1
      <4>1. d = 0 /\ n - 1 \in Int
        BY <1>2, <1>4, <2>1
      <4>2. Falling(n - 1, 0) = 1
        BY <4>1, FallingZero
      <4> QED  BY <1>1, <1>4, <4>1, <4>2
    <3>4. x = 1
      BY <1>1, <2>1 DEF FullExits
    <3>5. tally.ends = r * s
      BY <1>2, <3>4
    <3>6. (r * s) * n = (n * (s * 1)) * r
      BY <1>2
    <3> QED  BY <1>3, <3>2, <3>3, <3>5, <3>6
  <2>2. CASE plan.hops # 1
    <3>1. UniformEnds = <<r * (r - 1), n * (n - 1)>>
      BY <1>1, <2>2 DEF UniformEnds
    <3>2. UniformEnds[1] = r * (r - 1) /\ UniformEnds[2] = n * (n - 1)
      BY <3>1
    <3>3. PICK k \in Nat : k = plan.hops - 2 /\ d = k + 1
      BY <1>4, <2>2
    <3>4. PICK m, l \in Int : m = n - 1 /\ l = m - 1 /\ l = n - 2
      BY <1>2
    <3>5. PICK g \in Int : g = Falling(l, k)
      BY FallingInt
    <3>6. a = m * g
      <4>1. Falling(m, k + 1) = m * Falling(m - 1, k)
        BY FallingFront
      <4> QED  BY <1>1, <1>4, <3>3, <3>4, <3>5, <4>1
    <3>7. x = (r - 1) * g
      BY <1>1, <2>2, <3>3, <3>4, <3>5 DEF FullExits
    <3>8. tally.ends = r * (s * ((r - 1) * g))
      BY <1>2, <3>7
    <3>9. (r * (s * ((r - 1) * g))) * (n * m) = (n * (s * (m * g))) * (r * (r - 1))
      BY <1>2
    <3> QED  BY <1>3, <3>2, <3>4, <3>6, <3>8, <3>9
  <2> QED  BY <2>1, <2>2
<1>6. tally.touched * UniformTouched[2] = tally.up * UniformTouched[1]
  <2>1. Falling(n, d + 1) = n * a
    <3>1. Falling(n, d + 1) = n * Falling(n - 1, d)
      BY <1>2, FallingFront
    <3> QED  BY <1>1, <1>4, <3>1
  <2>2. Falling(h, d + 1) = h * b
    <3>1. Falling(h, d + 1) = h * Falling(h - 1, d)
      BY <1>2, FallingFront
    <3> QED  BY <1>1, <1>4, <3>1
  <2>3. UniformTouched = <<n * a - h * b, n * a>>
    BY <1>1, <1>4, <2>1, <2>2 DEF UniformTouched
  <2>4. UniformTouched[1] = n * a - h * b /\ UniformTouched[2] = n * a
    BY <2>3
  <2>5. r * (s * a) + h * (s * (a - b)) = s * (n * a - h * b)
    <3>1. h * (s * (a - b)) = s * (h * a) - s * (h * b)
      BY <1>2
    <3>2. r * (s * a) + s * (h * a) = s * ((r + h) * a)
      BY <1>2
    <3>3. s * (n * a - h * b) = s * (n * a) - s * (h * b)
      BY <1>2
    <3> QED  BY <1>2, <3>1, <3>2, <3>3
  <2>6. PICK t \in Int : t = n * a - h * b
    BY <1>2
  <2>7. (s * t) * (n * a) = (n * (s * a)) * t
    BY <1>2
  <2> QED  BY <1>3, <2>4, <2>5, <2>6, <2>7
<1> QED  BY <1>5, <1>6

\* At the end the tally is that of every entry.
LEMMA LabInvMatches ==
  ASSUME LabInv
  PROVE  ModelMatchesDraws
<1> SUFFICES ASSUME at > 0, at = plan.nodes + 1
             PROVE  /\ tally.refused = (plan.nodes - MirrorCompromise.accepted) * Unit
                    /\ tally.failed = MirrorCompromise.down /\ tally.up = MirrorCompromise.up
                    /\ tally.ends = MirrorCompromise.ends /\ tally.touched = MirrorCompromise.any
                    /\ plan.leftOut = 0 /\ plan.withheld = 0 =>
                         /\ tally.ends * UniformEnds[2] = tally.up * UniformEnds[1]
                         /\ tally.touched * UniformTouched[2] = tally.up * UniformTouched[1]
  BY Zenon DEF ModelMatchesDraws
<1>1. Planned /\ Tallied(tally, plan.nodes)
  <2>1. at # 0
    OBVIOUS
  <2>2. Planned /\ Tallied(tally, at - 1)
    BY <2>1 DEF LabInv
  <2>3. at - 1 = plan.nodes
    BY <2>2, PlanTypes
  <2> QED  BY <2>2, <2>3
<1>2. PICK w, r, v, h, n \in Nat : /\ w = plan.withheld /\ r = plan.rogue /\ v = plan.rogue - plan.withheld
                                   /\ h = Honest /\ n = plan.nodes /\ w <= r /\ r <= n
                                   /\ v = r - w /\ h = n - r
  BY <1>1, PlanTypes
<1>3. PICK m : m = MirrorCompromise
  OBVIOUS
<1>4. Agrees(m)
  BY <1>1, <1>3, MirrorAgrees
<1>5. ASSUME NEW x, NEW y, NEW z
      PROVE  SumTo(plan.withheld, plan.rogue, plan.nodes, x, y, z)
               = Ways(plan.withheld, x) + Ways(plan.rogue - plan.withheld, y) + Ways(Honest, z)
  <2>1. SumTo(w, r, n, x, y, z) = Ways(w, x) + Ways(r - w, y) + Ways(n - r, z)
    BY <1>2, SumToLast
  <2> QED  BY <1>2, <2>1
<1>6. tally.failed = m.down /\ tally.up = m.up /\ tally.ends = m.ends /\ tally.touched = m.any
  <2>1. tally.failed = m.down
    <3>1. PICK x, y, z : x = RogueAdds(TRUE).failed /\ y = RogueAdds(FALSE).failed /\ z = HonestAdds.failed
      OBVIOUS
    <3>2. tally.failed = SumTo(plan.withheld, plan.rogue, plan.nodes, x, y, z)
      BY <1>1, <3>1 DEF Tallied
    <3>3. m.down = Ways(plan.withheld, x) + Ways(plan.rogue - plan.withheld, y) + Ways(Honest, z)
      BY <1>4, <3>1 DEF Agrees
    <3> QED  BY <1>5, <3>2, <3>3
  <2>2. tally.up = m.up
    <3>1. PICK x, y, z : x = RogueAdds(TRUE).up /\ y = RogueAdds(FALSE).up /\ z = HonestAdds.up
      OBVIOUS
    <3>2. tally.up = SumTo(plan.withheld, plan.rogue, plan.nodes, x, y, z)
      BY <1>1, <3>1 DEF Tallied
    <3>3. m.up = Ways(plan.withheld, x) + Ways(plan.rogue - plan.withheld, y) + Ways(Honest, z)
      BY <1>4, <3>1 DEF Agrees
    <3> QED  BY <1>5, <3>2, <3>3
  <2>3. tally.ends = m.ends
    <3>1. PICK x, y, z : x = RogueAdds(TRUE).ends /\ y = RogueAdds(FALSE).ends /\ z = HonestAdds.ends
      OBVIOUS
    <3>2. tally.ends = SumTo(plan.withheld, plan.rogue, plan.nodes, x, y, z)
      BY <1>1, <3>1 DEF Tallied
    <3>3. m.ends = Ways(plan.withheld, x) + Ways(plan.rogue - plan.withheld, y) + Ways(Honest, z)
      BY <1>4, <3>1 DEF Agrees
    <3> QED  BY <1>5, <3>2, <3>3
  <2>4. tally.touched = m.any
    <3>1. PICK x, y, z : x = RogueAdds(TRUE).touched /\ y = RogueAdds(FALSE).touched /\ z = HonestAdds.touched
      OBVIOUS
    <3>2. tally.touched = SumTo(plan.withheld, plan.rogue, plan.nodes, x, y, z)
      BY <1>1, <3>1 DEF Tallied
    <3>3. m.any = Ways(plan.withheld, x) + Ways(plan.rogue - plan.withheld, y) + Ways(Honest, z)
      BY <1>4, <3>1 DEF Agrees
    <3> QED  BY <1>5, <3>2, <3>3
  <2> QED  BY <2>1, <2>2, <2>3, <2>4
<1>7. tally.refused = (plan.nodes - m.accepted) * Unit
  <2>1. PICK u \in Int : u = Unit
    <3>1. plan.nodes - 1 \in Nat
      BY <1>1, PlanTypes
    <3> QED  BY <3>1, FallingInt DEF Unit
  <2>2. PICK x, z \in Int : /\ x = IF plan.leftOut <= Allowed THEN 0 ELSE u
                            /\ z = IF plan.withheld <= Allowed THEN 0 ELSE u
    OBVIOUS
  <2>3. RogueAdds(TRUE).refused = x /\ RogueAdds(FALSE).refused = x /\ HonestAdds.refused = z
    <3>1. NoChains.refused = u
      BY <2>1 DEF NoChains
    <3>2. RogueAdds(TRUE).refused = x /\ RogueAdds(FALSE).refused = x
      <4>1. CASE plan.leftOut <= Allowed
        BY <2>2, <4>1 DEF RogueAdds
      <4>2. CASE ~(plan.leftOut <= Allowed)
        BY <2>2, <3>1, <4>2 DEF RogueAdds
      <4> QED  BY <4>1, <4>2
    <3>3. HonestAdds.refused = z
      <4>1. CASE plan.withheld <= Allowed
        BY <2>2, <4>1 DEF HonestAdds
      <4>2. CASE ~(plan.withheld <= Allowed)
        BY <2>2, <3>1, <4>2 DEF HonestAdds
      <4> QED  BY <4>1, <4>2
    <3> QED  BY <3>2, <3>3
  <2>4. tally.refused = Ways(w, x) + Ways(v, x) + Ways(h, z)
    <3>1. tally.refused = SumTo(plan.withheld, plan.rogue, plan.nodes, x, x, z)
      BY <1>1, <2>3 DEF Tallied
    <3>2. SumTo(plan.withheld, plan.rogue, plan.nodes, x, x, z)
            = Ways(plan.withheld, x) + Ways(plan.rogue - plan.withheld, x) + Ways(Honest, z)
      BY <1>5
    <3> QED  BY <1>2, <3>1, <3>2
  <2>5. Ways(w, x) = w * x /\ Ways(v, x) = v * x /\ Ways(h, z) = h * z
    BY DEF Ways
  <2>6. w * x + v * x = r * x
    BY <1>2
  <2>7. tally.refused = r * x + h * z
    BY <2>4, <2>5, <2>6
  <2>8. PICK a, b \in Int : /\ a = IF plan.withheld <= Allowed THEN h ELSE 0
                            /\ b = IF plan.leftOut <= Allowed THEN r ELSE 0
    OBVIOUS
  <2>9. m.accepted = a + b
    BY <1>2, <1>4, <2>8 DEF Agrees
  <2>10. r * x = (r - b) * u
    <3>1. CASE plan.leftOut <= Allowed
      BY <2>2, <2>8, <3>1
    <3>2. CASE ~(plan.leftOut <= Allowed)
      BY <2>2, <2>8, <3>2
    <3> QED  BY <3>1, <3>2
  <2>11. h * z = (h - a) * u
    <3>1. CASE plan.withheld <= Allowed
      BY <2>2, <2>8, <3>1
    <3>2. CASE ~(plan.withheld <= Allowed)
      BY <2>2, <2>8, <3>2
    <3> QED  BY <3>1, <3>2
  <2>12. (r - b) * u + (h - a) * u = (n - (a + b)) * u
    BY <1>2
  <2> QED  BY <1>2, <2>1, <2>7, <2>9, <2>10, <2>11, <2>12
<1>8. ASSUME plan.leftOut = 0, plan.withheld = 0
      PROVE  /\ tally.ends * UniformEnds[2] = tally.up * UniformEnds[1]
             /\ tally.touched * UniformTouched[2] = tally.up * UniformTouched[1]
  BY <1>1, <1>8, FullAgrees DEF Full
<1> QED  BY <1>3, <1>6, <1>7, <1>8

\* For every plan, what `lab paths` prints as expected is what the draws give:
\* the closed form MirrorCompromiseProbability counts, of the chains of each
\* entry, as many refused, failed, up, with both ends rogue and with any rogue
\* node as there are (samplePaths, rogueEntryChains, CompromiseProbability).
THEOREM LabModelMatchesDraws == LabSpec => []ModelMatchesDraws
<1>1. LabInv => ModelMatchesDraws
  BY LabInvMatches
<1> QED  BY <1>1, LabInvHolds, PTL

=============================================================================

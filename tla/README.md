# A verification project for jimichi

jimichi is an onion-routing research prototype in Go: a client sends fixed-size
cells through a chain of relays, each of which strips one layer; the exit answers
every cell with one that gains a layer at every hop on the way back. An operator
certifies the relays with a short-lived CA; the relays publish signed descriptors
of their onion keys, rotate these keys and mirror each other's descriptors.

The modules in this directory model the parts of that program whose correctness
depends on order, concurrency, time and failure. TLC checks them on small
instances; TLAPS proves nearly all of the safety properties for every value of the constants.
`PROJECT.json` lists components, runs, the mutants that show each property can
fail, the lines every definition stands for, hazards and theorems.

## 1. Inventory

| Part | State | Operations | Hard behaviours | What makes it correct |
|---|---|---|---|---|
| Counters (`wire/counter.go`, `nonce.go`, `replay.go`) | `Sequence`: next, taken, seeded | `Next`, `Expect`, shift and unshift modulo the limit | wrap-around, the limit on cells | no value twice on a link, no gap |
| Cells, layers, setup (`wire/cell.go`, `onion.go`, `setup.go`) | keys and offsets per hop | seal, peel, wrap, open; build, open and pass on a setup | cells repeated, reordered or made up | each end is handed cells in turn only |
| Relay (`relay/relay.go`) | circuits, owners, conns, closed; per circuit its sequences, links, timer | Serve, handle, route, reply, setup, extend, backward, teardown, expire, Close | a handler, a backward goroutine, two pacers and a timer per circuit against Close | keys outlive their users; nothing is left behind; a break reaches both ends; Close returns |
| Pacers (`relay/pace.go`) | a bounded queue, stop, done | push, run, send, close | full queue, failed write nobody is waiting for | no cell is dropped in silence |
| Admission (`relay/limits.go`) | inbound, handshaking, the table of sources with buckets and timers | admit, handshakeDone, allowSetup, leave, settle | timers against returning sources, the full table | counters match, caps hold, forgetting is free and happens |
| Onion keys (`relay/onion.go`, `cmd/relay/onion.go`) | current and previous key with their setup tags; two deadlines | Open, Rotate, Retire, Close, rotateIfDue | replays around a rotation, key release under an opener, sleep and clock changes | once per setup; descriptors accepted anywhere can be served; keys do not linger |
| Signing (`cmd/relay/admin.go`, `pki/identity.go`) | certificate, descriptor in service | handleRequest, handleCert, sign, refreshIfDue | signing fails after the certificate is taken | see enrollment and onion keys |
| Enrollment (`cmd/jimichi/enroll.go`, `pki/ca.go`, `request.go`, `roster.go`) | a run: its CA, certificates, what it noted | request, issue, install, read back, roster, report | not atomic across relays: retries, late copies, crashes, deadlines, two runs at once | an anchor means everybody is enrolled; a failed run names who must restart |
| Peer cache (`cmd/relay/peers.go`, `internal/fetch`) | entries, the mirror | refresh, publish, wait, descriptors, handleRoster | slow peers, three publishers, expiry | no dead bundle served, no live peer lost |
| Verification (`pki/verify.go`) | none | Verify, VerifyChain | windows and skew at their edges | part of the three above |
| Client (`client/client.go`) | sent, closed, refused, keys; sendMu, busy, the replies and the queue | Dial, Send, SendCover, schedule and cover goroutines, receive, Close | callers in jitter, a ticker and the receiver against Close and a refusal; every step of Dial may fail | cells leave in turn, keys outlive their users, nothing is left behind, an honest circuit is not refused |
| Links (`link/link.go`) | keys, sequence numbers, sticky write error, wmu and rmu | Dial, Accept, WriteCell, ReadCell, Close | partial handshakes, altered messages, Close against a blocked reader or writer | nothing is sent before the confirmation; a FIFO that fails closed |
| Path choice (`client/choose.go`) | none | Choose, ChooseEntry, ChooseRest, JudgeMirror, below | modulo bias, wrap-around, places before and after translation | every ordered path equally likely |
| Client program (`cmd/client`) | the list, what the entry served | checkNodes, selection.chain, exchange | a mirror that lacks or swaps bundles, retries, a refusal while sending | the chain is one asked for and verified; a refusal is named |
| Laboratory, `lab paths` (`cmd/lab/paths.go`, `lab/paths.go`, `lab/metrics/compromise.go`) | a sample of paths | mirrorsOf, SampleMirrorPaths, SurvivingPaths, the closed forms | a closed form that is nearly right | the closed form is what the draws give |
| Locked memory (`crypto/secmem`) | buffers | New, Clone, Equal, Release | allocation that fails half-way | released once by somebody: part of client, links and relay |
| Providers, encodings (`crypto`, `pki/cert.go` ...) | | primitives, formats | | not modelled: what they promise is assumed |
| Laboratory, traffic (`lab/harness.go`, `tap.go`, `metrics`) | recorded traffic | statistics | | not modelled: floating-point measurement code |

Components interact through links (relay to relay, client to relay), through HTTP
(enrollment, descriptors, mirrors) and, inside a relay process, through shared
state under `Relay.mu`, `OnionRing.mu`, `node.mu` and `peerCache.mu`.

## 2. Modules

| Module | Models | Composes |
|---|---|---|
| `Wire` | counter arithmetic and `Sequence` | |
| `Chain` | one circuit from client to exit: N hops, their links, pacers, breaks and faulty hops | `Wire`; refines `EchoChannel` |
| `EchoChannel` | abstract: what a circuit promises its two ends | |
| `Admission` | the limits of a relay | |
| `RelayNode` | the goroutines, sockets, keys and tables of one relay | |
| `OnionKeys` | the key ring, rotation and the descriptors that name keys | |
| `Enrollment` | runs of `jimichi enroll` against the relays' handlers | |
| `PeerCache` | the refresher, the mirror and the signer of one node | |
| `LinkHandshake` | both sides of a link's handshake, key by key | |
| `ClientDial` | `client.Dial` with `BuildSetup` and `NewCircuit` | `LinkHandshake` |
| `Client` | the threads of a client, its link and the loop of the client program | `ClientDial` |
| `Choose` | choosing nodes, as operators | |
| `PathChoice` | the client program taking a chain from its list | `Choose` |
| `PathModel` | `lab paths`: an exact sample against the closed form | `Choose` |
| `MC*` | values for the constants of each, for TLC | |
| `ChainProofs`, `AdmissionProofs`, `NodeProofs`, `OnionProofs`, `EnrollProofs`, `PeerProofs`, `ClientProofs`, `PathProofs` | theorems about `Chain`, `Admission`, `RelayNode`, `OnionKeys`, `Enrollment`, `PeerCache`, `Client`, `PathChoice` and `PathModel` | |

### Wire and Chain
A hop is `idle`, `live` or `gone`; link `i` joins hop `i - 1` (the client for
`i = 1`) and hop `i`, with an end at each and a FIFO per direction. `HandleSetup`
is the whole of `Relay.setup` with `extend`: it registers the circuit, dials and
passes the setup on. `HandleForward` and `HandleDeliver` are `route` for a relay
and for the exit with its `reply`; the `...Fails` actions are their error paths,
which end the circuit. `Backward` is one turn of the backward goroutine; `TickFwd`
and `TickBwd` are pacers. `EndHop` is the end of `handle` with `teardown`,
`release` and the pacers' `close` (their interleaving is the subject of
`RelayNode`). `Paced` is the set of hops whose `Config.Period` is positive, since
every relay has its own.

A layer is abstracted to the counter value it was sealed under: nonce and
associated data carry the value, so it opens under that value only. Padding is not
carried: `ReadCell` drops it. A write towards an end that is gone, cut or stalled
is lost or fails; a write on an end the node closed fails. `Faulty` hops lose,
copy, swap or restamp cells they have put on their links, or make cells up; they
do not have the others' keys. The environment may cut a link, stall one direction,
refuse a dial and let a circuit expire (`Cut`, `Stall`, `HandleSetupFails`,
`Expire`), and a closed connection may lose the tail of what it carried.

### Admission
A connection is out, shaking, up or carrying a circuit. Every operation holds
`Relay.mu`, so each is a step. Tokens are whole; time is the steps in which a
bucket wins a token back. `allowance` is a history variable: the tokens an address
would have if it were never forgotten.

### RelayNode
A step is what a goroutine does between two points where another may run. Each
handler's program counter follows `handle`: read, use the circuit's key, write,
register, dial, hold, shake hands, undo, watch, and then the deferred calls and
`release` one by one. The backward goroutine, both pacers, the expiry timer and
`Relay.Close` have their own. A key is `none`, `live` or `gone`. Cells carry only
the circuit they name and whether they are in turn.

### OnionKeys
A key is its epoch; a setup cell is the key it was built for and its tag. An
opener holds the read lock from `OpenLayer` to `AddTag`; `Rotate`, `Retire` and
`Close` need the write lock. Three clocks: time, the time the host is awake (the
monotonic clock) and the wall clock, which may be set; unix seconds may hold several
clock units. `signed` keeps every descriptor ever served, as others may. The
reserve pages and the failure counter of a rotation are abstracted: a rotation may
fail at any time. Only nodes with `-auth` are modelled, since an unsigned
descriptor never expires.

### Enrollment
A run visits the relays in order in four parts: requests, certificates,
descriptors, rosters. A call is open until a relay handles it (`Process`) and the
run receives the answer (`Receive`). `Lose` is a transport error before the
deadline, which `enrollment.call` retries, and may leave a copy of the request
behind that is handled later (`ProcessOrphan`); an answer that breaks off ends the run
(`BodyFails`). Handlers hold `node.mu` throughout,
so each is one step; their checks keep the order of the code. Certificates are known
by the run that issued them, identities by the number of the relay's process.

`now` is the operator's clock, which dates the certificates. Each relay has a clock of
its own: `ahead[r]`, chosen in `Init` and kept, is what it shows more. Moments are kept
in the operator's time and `Reads(r, t)` is what the relay reads at `t`, so the windows
that the relay measures on its own clock (`Waits`, the roster's) are durations, while
the checks that compare the operator's `not_before` and `not_after` with the relay's
clock (`Stale`, `Installs`, `CertValid`) see the difference. `docs/en/LIMITATIONS.md:253`
asks nodes and clients to agree within `Skew`; the operator is taken to do so too
(`ClockAssumption`). A relay further behind could refuse a certificate as not yet valid
and take a late copy of it after the report, which no property covers. The windows of
the descriptors themselves are not modelled, except that one signed by a clock behind the
operator's may be over for the operator (`LooksExpired`); `pki.Skew` covers the other
direction.

What the two clocks cost: `handleCert` allows `Skew` between the certificate's
`not_before` and the open request, and every new request moves the latter. A relay whose
clock is ahead by more than `Skew` less the run's deadline (90 s with the default
`-timeout` of 30 s, 60 s with the longest one) and which is asked again after the run
issued its certificates, by another run or by a late copy of the run's own request,
answers "certificate issued before the open request" to a run within its deadline. So
`NeverRefusedLate` excludes the other three refusals for any clocks, and this one up to
that difference; the bound is tight.

### PeerCache
A bundle is its age. The refresher asks peer after peer (a fetch may cost its whole
timeout), stores what verifies against the time read before the fetch, publishes
and pauses for `wait`. `publish` is two steps under `mu`: it reads the node's own
bundle, then stores the mirror. The certificate outlives the bundles, so each lives
`TTL`. What a node is started with is the rigid variable `setting`. `reach` is a history
variable: for how long a peer has answered. `HeldWithin` says by when it is held; the
bound `Within` is tight (one second less is violated) and asks nothing of a node whose
lifetime leaves no room to refresh (`InTime`). The variant without verification
(`-auth=false`) is not modelled.

### LinkHandshake, ClientDial and Client
Every key, secret, cipher and socket is an element of `live` from the call that makes it
to the one that releases it, and every call may fail: each step names what it takes, what
it releases and what its error return releases, the deferred calls included. The network
may alter the hello and the answer; at the entry's address may be the entry, one without
a link key, somebody without the entry's key, or one that does not confirm. Frame keys
are what they are derived from. A setup cell needs `Hops` rounds of `BuildSetup`; the
first failing round has nothing of the later ones to release.

After Dial a step is what a thread does between two points where another may run. A
sender goes through the jitter, `sendMu`, the counter, the seal, the link's `wmu` and a
write that blocks while the connection is full; the receiver holds `rmu` while it waits.
`shut` says who closed the connection first and `why` (history) what ended the program's
loop. Beyond the entry is a circuit that answers each cell once and in turn until
somebody on it forges; the relays themselves are `Chain`. An entry may stop reading,
answering or closing for ever.

### Choose, PathChoice and PathModel
A word of the random source has `Bits` bits; `UniformPaths` counts, over all sequences of
usable words, how often each path comes out, so a bias of one word shows. A bundle is the
name of the node it was issued to, forged, or not served; two forged bundles have two
keys. `PathChoice` follows `selection.chain`: the draw of the entry, the retried fetch,
`enough`, `resolve` and the two translations of places. Without `-auth` forged bundles
pass and only keys seen twice are refused.

In `PathModel` the laboratory takes the sample that has every draw equally often, entry
after entry. Shares are integers over `(nodes - 1)!`, which is exact, so the closed forms
have to be equal and not merely near. The closed form keeps the recursion of
`rogueEntryChains` as a recursive function (`DrawOn` is one draw of it, `AddChains` its
`add`) with whole numbers of chains in place of shares of them.

## 3. Runs

No run checks for deadlock: a circuit, a node that has closed and a finished
enrollment really stop, and where something must go on a liveness property says so.
In every run the counters of faults, breaks, attempts, crashes and time are the only
bounds, and each is a named constant.

| Run | Instance | Checks |
|---|---|---|
| `chain_faulty` | 3 unpaced hops, the first two faulty, two faults of six kinds; modulus 3, 2 cells | `TypeOK`, `ExitInOrder`, `AnswersInOrder`, `BackwardNonceOnce`, `ImplementsEcho` |
| `chain_breaks` | 3 hops, the second and the exit paced with queues of one, 3 cells, one break of four kinds; fair | `OrderlyInTurn`, `BreakReachesBothEnds`, `EveryCellAnswered` |
| `admission_limits` | 4 connections of 3 addresses, a table of 2, every limit on; fair | `CapsAccounted`, `ForgettingIsFree`, `NoRecordWithoutReason`, `EveryoneForgotten` |
| `node_links` | 2 links and one circuit identifier, unpaced | `KeysInUseAreLive`, `NothingLeft`, `RecordsAgree` |
| `node_close` | one paced circuit; fair | `CloseCompletes`, `BrokenCircuitReleased` |
| `node_broken` | one unpaced circuit | `BrokenCountsCircuits` is violated |
| `onion_keys` | 2 openers, 2 tags, a cache of one tag, half-second clock, certificate that ends, failed rotations, sleep and a clock that is set | `TypeOK`, `SetupOnce`, `KeysInUseHeld`, `NoKeyOutlivesItsPeriod`, `DescriptorsHonoured` |
| `enroll_overlap` | 2 relays, one behind the operator's clock and one ahead by `Skew`, 2 runs at once, a fault, a crash, time past both deadlines | `AnchorMeansEnrolled`, `RosterOfItsCA`, `HoldersAreNamed`, `NeverRefusedLate` |
| `enroll_converge` | 2 relays, either with its clock one unit ahead, 6 runs in turn, a fault, a crash, a kill; fair | `EnrollmentConverges` |
| `peers` | 2 peers that come and go, one of which may cost a whole timeout; three publishers; a lifetime with room to refresh and one without | `ServableIsLive`, `OwnBundleMirrored`, `HeldWithin` |
| `client_run` | 2 hops; two callers, two messages, cover or a schedule; room for one cell, one message and one reply; one forged cell, one cut; fair | `KeysOutliveUsers`, `CellsInTurn`, `HonestNotRefused`, `RefusalNamed`, `NothingHeld`, `ConfirmedFirst`, `Returns` |
| `paths` | lists of up to 4 nodes, words of 3 bits, every mirror of 4 kinds of bundles; all plans of the laboratory up to 5 nodes | `ChainFits`, `UniformPaths`, `ModelMatchesDraws` |

Why the bounds are enough to make the cases happen:

* `chain_faulty`: hop 1 takes four backward cells (two answers, two made up), one more
  than the modulus, so a limit that fails shows as a repeated value; two faults suffice
  to hide the first by the second. Three hops have a first hop, a middle one and an exit.
* `chain_breaks`: three cells against queues of one fill a queue and leave a cell to be
  seen out of turn behind a dropped one.
* `admission_limits`: three addresses compete for a table of two; five attempts let a
  source come back after it was forgotten, and while its timer runs.
* `node_links`: two handlers are what it takes to share an identifier, to use another
  link's circuit and to be accepted while Close runs.
* `onion_keys`: two rotations (`MaxEpoch` 2) are what the two slots of the ring
  can lose a key to; time runs past the grace period of the first.
* `enroll_overlap`: the ratio of deadline, window and skew is that of the code with the
  longest `-timeout` (1 : 1 : 2). The relay two units ahead does answer "stale" to a run
  within its deadline (with the bound of `NeverRefusedLate` one higher the property is
  violated), and its certificate of three units is over one unit after it was issued; the
  descriptor of the relay behind may be over when the operator reads it. One pair of clocks
  is checked, as every other one multiplies two million states; the theorems cover all.
* `enroll_converge`: without a crash five runs are needed (with four the property is
  violated), as a killed run names nobody and each later run learns of one relay at a
  time; a crash only helps or costs one more.
* `peers`: `InTime` is tight, and so is `Within`: each shorter by one is violated. The
  shortest lifetime the flags allow (60 s) leaves no room for several peers that time out,
  the default of an hour does.
* `client_run`: capacities of one make every queue full and every write block; two cells
  are enough for counters out of turn; two hops have a first and a last round of every
  loop in Dial.
* `paths`: with words of three bits a choice among three throws two words away and one
  among four none; four nodes and three hops leave a node out and make places in the list
  and among the nodes served differ. Five nodes let an honest node stand between two
  withholding ones.

What `node_broken` shows: the backward goroutine counts a circuit as broken before it
closes the inbound link, and in between the handler may count the same circuit. The
comment on `Counters.Broken` and the description of `relay_broken_circuits` speak of
circuits, and allow for a circuit counted by several relays, not twice by one.

### Fairness
* `Chain`: weak fairness of readers and pacers: goroutines blocked in a read or on a
  ticker run when data or the tick comes. Nobody has to send, close or break anything.
* `Admission`: timers fire and buckets fill.
* `RelayNode`: weak fairness of steps that do not block, and of the failure of a call on a
  socket the node itself closed or a dial it cancelled. `CloseCompletes` counts on no peer
  and no timeout. `BrokenCircuitReleased` assumes `Limits` besides: a blocked write, dial
  or handshake returns, which is what the write timeout and the onward limit are for. Both
  are on by default.
* `Enrollment`: the operator's process, the relays and an operator who does what the
  report asks; the network may fail `MaxFaults` times.
* `PeerCache`: none; `HeldWithin` is a bound in time, not a liveness property. Time does
  not pass while a goroutine has something to compute.
* `Client`: the goroutines run when they can, and the waits of Dial have deadlines
  (`DialTimeout`, `HandshakeTimeout`). The entry need not read, answer or close. `Returns`
  is stated from `Close` on: the link of a client has no write timeout, so an entry that
  stops reading holds a `Send`, and with it the program's loop, until `Close` is called.

## 4. Proofs

Each theorem holds for every value of the constants that satisfies the assumptions named
in the modules, so for any number of hops, links, relays, peers or nodes, and whatever the
bounds of the runs are. Only `Chain`'s `TypeOK` is inductive as it stands; the table says
what is added to the others and why.

| Theorem | Inductive invariant | Why the property alone is not enough |
|---|---|---|
| `ChainTypeCorrect` | `TypeOK` | |
| `ChainExitInOrder` | `ExitInv`: every forward cell anywhere that can open has a number the client gave out; the exit expects the shift of the number delivered | it says nothing of the cells on their way; shifts are injective, so the value due determines the number |
| `ChainBackwardNonceOnce` | `SealedInv`: the values a hop sealed under are consecutive, as many as its counter says, and the counter stands after the last | consecutive values are distinct only because `CellLimit` is within the modulus |
| `ChainAnswersInOrder` | `AnswerInv`: every backward cell whose innermost layer opens answers a delivered cell and is sealed for it (`Genuine`) | hops may copy, reorder or make up cells, but not the exit's layer |
| `ChainImplementsEcho` | `EchoInv`, which is `AnswerInv` behind an exit that follows the code | refinement: `EchoInit`, and `EchoStep` maps each step to one of the channel or a stutter |
| `ChainOrderlyInTurn` | `OrderInv`: what a link carries follows on what its reader has taken, in order and without a gap, and stays below what was written on it; the last ones are missing only where nothing written later arrives, and the value due is that of the first (`FwdOrder`, `BwdOrder`); a hop without a circuit reads its setup first (`Births`) | the property speaks of a cell when it is read, and where it stands in turn is settled when it is written or lost hops earlier |
| `AdmissionCaps`, `AdmissionForgettingIsFree`, `AdmissionNoRecordWithoutReason` | `AdmissionInv`: counters, caps and what an address without a record looks like | a source is forgotten when its counters are zero, and they are right because what is forgotten was zero |
| `NodeRecordsAgree`, `NodeKeysInUseAreLive`, `NodeNothingLeft` | `NodeInv`: per handler where it is, the entry it owns, the goroutines it waits for and the sockets `Close` knows of | that `release` waits for a key's users says nothing without where the handler is while they run |
| `OnionSetupOnce`, `OnionKeysInUseHeld` | `OnceInv`: a setup that went through is remembered by its key, or its key is gone (`Burned`); keys of the ring grow | a tag forgotten with its key may not come back with another |
| `OnionDescriptorsHonoured` | `HonourInv`: the end of every descriptor of a key is bounded by the key's release | speaks of the time until the wall clock is first set (`OffsetStays`); rounding to unix seconds needs a lemma on division |
| `OnionNoKeyOutlivesItsPeriod` | `DueInv`: both deadlines are those of the moment the current key was made, and a release is pending exactly while there is a previous key | the deadlines are on the monotonic clock, the keys' ages in time |
| `OnionTypeCorrect` | `OnionType`: also that the caches are finite and the clocks in order | a bound on a cardinality needs finiteness |
| `EnrollAnchor`, `EnrollRosterOfItsCA` | `EnrollInv`: identities only move away from the ones read (`Pins`); what was answered with success is still so at the same process | the anchor does not know what the run was told on its way |
| `EnrollHoldersAreNamed`, `EnrollNeverRefusedLate` | `NamedInv`: for every run what its answers, requests, certificates, rosters and copies of lost requests may still do (`RunInv`) | a late copy may reach a relay after the report, so the report must name it before |
| `PeerServableIsLive`, `PeerOwnBundleMirrored` | `MirrorInv`: time left and age of each bundle add up to a lifetime at most; who read what under `mu` | a reader with an old bundle is overtaken by the signer, who has yet to publish |
| `PeerHeldWithin` | `HeldInv`: by when the refresher is done with a peer again (`Remaining`) | an argument about time: `Remaining` falls by one each second and is covered by what is held |
| `ClientKeysOutliveUsers`, `ClientCellsInTurn`, `ClientHonestNotRefused`, `ClientRefusalNamed`, `ClientConfirmedFirst`, `ClientNothingHeld` | `ClientInv`: exactly what is held at every step of Dial and of the handshake (`DialInv`); locks, counters, cells and replies after it (`RunInv`) | each list of what a failure releases is compared with what is held there |
| `PathChainFits` | `PathInv`: what each stage settled for the later ones, and the path so far | positions go through two translations: `Place` and `Held` are inverse (`HeldPlaces`), and a step of the shuffle keeps what is drawn apart (`TakeDrawn`) |
| `PathUniformPaths` | `PathInv` | a count: a usable word is a place and a turn, each pair one word (`WordOf`, `WordOnce`); so the sequences of words are the pairs of a path and a sequence of turns (`FollowsAll`, `RunOnce`), and every path has as many as there are turns (`EachAsOften`) |
| `LabModelMatchesDraws` | `LabInv`: once the plan is checked, the tally is the sum over the entries sampled so far of what each kind adds (`Tallied`) | a count: the draws of an entry are, one by one, the tours of the nodes it serves (`DrawnTours`); tours counted by the kind of node drawn next obey the recursion of `rogueEntryChains` (`CountsOn`, `CountsAll`, `RogueYield`), and the sum over the entries is `MirrorCompromiseProbability` (`MirrorAgrees`) |

What is assumed of the constants is what the code makes sure of:

* `Chain`: `N <= CounterLimit`, running sums as `NewCircuit` adds them up, `CellLimit` within
  the modulus. Nothing is assumed of the faulty hops beyond what `FaultFwd` and `FaultBwd`
  do. `ChainImplementsEcho` and `AnswersInOrder` are about an exit that follows the code,
  `OrderlyInTurn` about relays that all do, or at worst make up cells towards the exit. Its
  proof sorts what a step does to a link into five ways (kept, cleared, taken, written,
  lost: `FwdMove`, `BwdMove`), shows once that each keeps the link in order (`FwdMoves`,
  `BwdMoves`), and then that every action is one of them for every link.
* `OnionKeys`: `Every >= TTL`, which `checkRotateFlags` enforces.
* `Enrollment`: `-timeout` is within `pki.InstallWindow`, which `enroll` checks, and the
  clocks differ by `pki.Skew` at most (`ClockAssumption`). Of the latter the two theorems
  from `NamedInv` use that no relay is further behind: a certificate refused as not yet
  valid might be taken from a late copy. That one is refused as stale is no such danger,
  since the open request only gets younger until the relay takes a certificate (`TakeOnly`).
* `PeerCache`: a fetch (`fetch.Timeout`, 5 s) is no longer than the skew
  (`SkewAssumption`), used for `PeerHeldWithin` only: a bundle is verified against the time
  read before the fetch.
* `PathChoice`, `PathModel`: numbers and lists of the right types, of any value; which plans
  are sampled is what `PlanGood` decides.

Counting and order are argued by smallest members (`WFMin` of `WellFoundedInduction`)
where a number of rounds or of places matters, or by induction over a set of numbers
(`Counting`: a set of naturals with 0 and the successor of each member has them all), since
the library's induction theorems take an operator.

Only model-checked, and why:

* All liveness properties (`BreakReachesBothEnds`, `EveryCellAnswered`, `EveryoneForgotten`,
  `CloseCompletes`, `BrokenCircuitReleased`, `EnrollmentConverges`, `Returns`): fairness and
  ENABLED are out of the prover's reach.

## 5. Plan

1. A relay without per-source limits; nodes without `-auth`.
2. The lock order of `secmem.Buffer.Equal` against two releases.

## 6. Not modelled

* Cryptographic primitives and their conformance tests: the models use what they promise.
* Encodings of cells, certificates, descriptors, anchors and mirrors: formats without
  state, taken as what they decide (well formed, for this node, in its window).
* The laboratory's traffic side (`harness.go`, `tap.go`, `correlation.go`, `cost.go`, and
  most of `cmd/lab/main.go`): floating-point statistics over recorded traffic and the
  wiring of a testbed out of the parts above.
* Flags, logging, failure texts, metrics other than `Broken`, deployment scripts; `vault`
  and `web`, which hold no code.
* Policies and system calls of locked memory; a buffer is made, may fail to be, and is
  released.
* Nodes without `-auth`; a relay without per-source limits.
* Which message a reply belongs to in the client program: a reply later than 5 seconds is
  taken for the answer to the next message; the program only prints its time.

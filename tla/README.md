# A TLA+ development for cirradio

cirradio is a frequency-hopping mesh radio: C++ software (`software/`), the
SystemVerilog of its FPGA (`fpga/`), the Python scripts that make its
development board (`hardware/cirradio-devboard`) and the Python scripts that
bring a board up (`tools/board-test`). This directory holds TLA+ modules that
model its stateful parts, TLC configurations that check them on small
instances, and TLAPS proofs for every size. `PROJECT.json` lists the runs, the
source lines each definition stands for, the hazards and the theorems.

Contents: 1 inventory, 2 modules and the code, 3 runs and bounds, 4 fairness,
5 proofs, 6 disagreements found, 7 what is not modelled, 8 plan.

## 1. Inventory

### Parts of the system

| Part | State | Operations | What makes it hard | What makes it correct |
|---|---|---|---|---|
| `RadioNode` | state, keys, frame number, inboxes | start, tick, send_data, voice_tx, receive_data, voice_rx | owns everything else; frame counters of radios drift | nothing delivered twice or to the wrong radio; discovery recovers |
| `SimChannel`, `SimRadioHal` | sample buffers per radio and frequency, partition flag, count | transmit, receive, set_partition_active | byte streams without message boundaries, bounded reads | a sent message is received or waits, unless dropped on purpose |
| `PeerDiscovery` | peers and when they were heard | generate_beacon, process_beacon, expire_stale | beacons of a partition | everyone is found once the net is whole |
| `RouteTable` | link graph, routes | update_link, remove_node, recompute | Dijkstra with products, ties, stale queue entries | best path, valid next hop, it returns |
| `MeshRouter` | neighbours, table, last sequence numbers | update_neighbor, remove_neighbor, generate and process advertisements | late, repeated, reordered advertisements | removed nodes stay out, neighbours stay in |
| `NetJoin` | trusted keys, outstanding challenges | create_challenge, sign_challenge, verify_and_accept | answers late, twice, to somebody else's challenge; restarts | one challenge, one join, the newest challenge |
| `KeyManager`, OTAR | KEK, TEK, FHEK, epoch | loads, rotate, generate and process rekey messages, zeroize | unreliable air, damage, refills, restarts | same epoch means same keys |
| `KeyFillPort` | session, nonces | run_session | time-outs, NAKs, exceptions between keys | ACK only when all keys are loaded |
| `SecurityManager`, `ZeroizeEngine` | zeroized flag | zeroize_immediate, run | two triggers at once, fills meanwhile, steps that throw | runs once, ends, leaves no usable key |
| `TamperMonitor` | thread, two descriptors | start, stop, run_loop | stop racing events, restart | every event is reported while it runs |
| `EmconManager`, CLI | level | set_level, force_emcon0 | operator and tamper threads without a lock | forced silence holds; the FPGA is never looser than software reports; relaxing needs the token |
| `tdma_mac.sv` | level, lock, token, switch, ramp, preamble | clock edge, two strobes | register writes against slot changes | silence reaches the antenna |
| `axi_regs.sv` | register file, strobes | bus write, bus read | strobe and data a cycle apart | a strobe carries its data |
| `HopSequencer`, `fhss_engine.sv` | blacklist, hop timer, attempt | get_hop_frequency, hop tick | blacklist given up after a bound | both choose the same frequency |
| `SlotScheduler` | frame, owners | claim, release, apply_slot_map, advance_frame | claims of several radios | one owner per slot |
| `JitterBuffer` | frames, next sequence number | push, pop, reset | reordering, loss, limit, counter wrap | in order, once, bounded |
| `TransecConfig` | hop rate, power, RSSI of peers | setters, on_beacon_rssi | stale peers | power within its range |
| `ComponentManager`, `PropertyService` | components, properties | load, unload, configure | life cycle order | no call outside the life cycle |
| `SoftHsm`, `Pkcs11Hsm` | session, key objects | init, shutdown, crypto | handles that outlive the session | no use after shutdown |
| modem, AD9361 interface, board drivers, codec | DSP, pins, devices | - | - | outside TLA+'s use here |
| sheet generators `gen_zynq.py` ... `gen_connectors.py` | designator counters; a sheet file each | draw a section, write the sheet | each counts designators from one; the sheets meet only in the netlist | one part per designator; paired nets have both ends |
| `gen_pcb_netlist.py` | net table, new board file | read the sheets there are, number and class the nets | a missing sheet is skipped and shifts every later number | numbers fit what the later scripts take for granted |
| `gen_pcb_placement.py` | zones with their cursors, plan, footprints | place at a written position, in a zone, in the overflow | zones fill up; designators of two sheets collide; reruns | every designator once and known which part it is, on the board, not on another part |
| `gen_pcb_planes.py`, `gen_pcb_routing.py` | zones, traces and vias in the board file | draw planes; draw pairs, lanes, rails, stitching | net numbers written in the script; skipped nets; reruns | copper is on its net; what must match matches |
| `gen_pcb_drc.py` | none | count and report | its patterns must fit what the others write | a report of what is there |
| `run_all.py` and five bring-up scripts | result files, exit codes, what they leave of the board | run in sequence or alone, `--dry-run` | deadlines, exceptions, remote commands that hang, files of earlier runs | the exit code tells the truth; a pass means a usable board |

### How they interact

* `RadioNode::tick()` is called by the application (the tests call it from one
  thread). It sends a beacon, reads the discovery frequency and the current hop
  frequency, hands beacons to `PeerDiscovery` and `MeshRouter`, decrypts data
  and voice with `KeyManager`, and moves to the next frame.
* The tamper thread calls `SecurityManager::zeroize_immediate()`, which runs
  the engine and then a hook into `EmconManager::force_emcon0()`.
* The operator's CLI calls `EmconManager::set_level()`; a fill gun drives
  `KeyFillPort::run_session()` on its own thread.
* `EmconManager` writes registers of the FPGA one at a time. The FPGA keeps its
  own level, lock and token, and decides by itself.
* The board scripts share files and nothing else. Each takes what it finds, in
  whatever order and however often somebody starts them.
* `run_all.py` starts the bring-up scripts one after the other and collects
  their exit codes; each talks to the board over UART, JTAG or SSH and leaves
  `results/<script>.json`.
* There is one atomic flag (`zeroized_`) in all this and no mutex around keys or
  levels: the interleavings of these threads are the hardest part of the radio.

### What is hard to test

`PROJECT.json` lists each hazard at its line with the properties that would
notice it. In short: threads meeting in EMCON and zeroization; rekey and join
messages late, repeated or from before a restart; a read that cuts a message;
radios out of step on the hop frequencies; the counter wrap and the limit of
the jitter buffer; ties and stale entries in Dijkstra's algorithm; exceptions
between the steps of a fill or of a zeroize. In the scripts: net numbers and
designators that depend on which sheets were read; board scripts run in another
order or twice; result files and a transceiver state that outlive a failed
script.

## 2. Modules and the code

| Module | Models | State and actions |
|---|---|---|
| `JitterBuffer` | `voice/JitterBuffer.cpp` | the key set of `buffer_`, `next_seq_`, `first_push_`; push, pop, reset. A frame is its sequence number, whose width is `MaxSeq`. |
| `EmconPolicy` | what README and `EmconManager.cpp:26` promise of the lock | abstract: a level, a token, and whether silence is held; only a token lifts held silence, and it is good for one write |
| `Emcon` | `EmconManager.cpp`, `CLIShell::handle_emcon`, latch of `tdma_mac.sv` | `level_`, the latch's three registers, the power register; one action per shared access, a program counter per thread |
| `TdmaMac` | rest of `tdma_mac.sv`, above `Emcon` | PA gate, T/R switch, ramp, preamble; one action per clock edge, input changes in between |
| `KeyManager` | `KeyManager.cpp`, loading in `RadioNode::start` and the fill port | per radio KEK, TEK, FHEK, epoch; rekey messages in a set that stands for an unreliable air |
| `NetJoin` | `NetJoin.cpp`, `EcSign.cpp`, identity keys in `RadioNode.cpp` | trusted keys and outstanding nonces per responder; messages heard by anyone, any number of times |
| `Zeroize` | `SecurityManager.cpp`, `ZeroizeEngine.cpp`, `KeyFillPort::run_session` | the engine step by step for each caller, the fill session frame by frame, sharing keys, HSM session and nonces |
| `RadioNet` | `RadioNode.cpp`, `PeerDiscovery.cpp`, `SimChannel.cpp`, `SimRadioHal.cpp` | buffers of messages with cells left to read; start, tick, send, receive, partition |
| `RouteTable` | `RouteTable.cpp` | graph, queue, qualities, predecessors; Dijkstra step by step |
| `MeshRouter` | `MeshRouter.cpp`, `LinkState.h` | neighbours, links, last sequence numbers of several routers, advertisements in a set |
| `Sheets` | `gen_zynq.py`, `gen_ddr3l.py`, `gen_ad9361.py`, `gen_rf.py`, `gen_peripherals.py`, `gen_connectors.py`, `power.kicad_sch` | per section its symbols in drawing order and its nets; the designator counters |
| `ZonePlace` | `class Zone` of `gen_pcb_placement.py` | wrap, fit and advance as operators on a zone |
| `PlacementZone` | one zone and any calls of `Zone.place()` | the zone and the boxes it has returned; a part fits or does not. Written to be proved about |
| `Placement` | rest of `gen_pcb_placement.py` | the parts kept of each sheet, written positions, zones, overflow, last resort; the plan as a function of the sheets read, grown part by part in fourteen stages: seven sheets planned, then seven searched for parts left over |
| `Routing` | `gen_pcb_netlist.py`, `gen_pcb_planes.py`, `gen_pcb_routing.py` | net numbers and classes, planes, traces and vias as functions of the sheets read |
| `PcbFlow` | the scripts as they are run, and `gen_pcb_drc.py` | sheets that exist, the board file, the last verdict; one action per script |
| `BoardTest` | all of `tools/board-test` | invocation, script and place in it, result files, FPGA and loopback state; one action per step between two waits |

`TdmaMac` composes with `Emcon` by EXTENDS: its next-state relation takes a
step of `Emcon` or one of its own. `Emcon` is shown to implement `EmconPolicy`
by an instance with a refinement mapping.

`RouteTable` keeps link qualities as integers over `Scale` and path qualities
as integers over `One`, rounded down. In the run `One` is a multiple of
`Scale^(N-1)`, so that products are exact; the proof holds for every `One`, and
needs of a product only that it is no more than its first factor and grows with
it, which is true of the code's floats too. `MeshRouter` keeps links without
their quality.

`PcbFlow` composes `Sheets`, `Placement` (which uses `ZonePlace`) and `Routing`:
its state is which sheets were there when each script ran, and what the scripts
draw is worked out from that. `PlacementZone` uses the same `ZonePlace`
operators, so that what is proved of one zone is about the zones of `Placement`:
the proof of `PartsInZones` uses the lemmas on `Wrapped` and `Advanced` proved there.

Abstractions worth knowing:

* Keys are numbers, never equal by chance; AES key wrap detects damage; a
  signature is the key it was made with; nonces are fresh.
* A message in the air is a member of a set that never shrinks: not delivering
  it is loss, delivering it again is duplication, later is reordering.
* `RadioNet` parses a read that starts inside a message as nothing, as any
  later suffix of the messages, and possibly as a beacon of a radio that does
  not exist (`Phantom`): the code takes payload bytes for a header there.
* The hop sequence of `RadioNet` is a constant and may name the discovery
  frequency, which lies on the grid of hop frequencies: tick() then reads one
  buffer twice.
* `Emcon` takes a register write as one step. `axi_regs.sv` registers the write
  strobe and passes the bus data through one cycle later, so this assumes a
  bus master that holds the data for one more cycle.
* A sheet is its symbols in order and its nets. Symbol graphics, wires, texts
  and coordinates on the sheet are left out. Lengths on the board are whole
  numbers, in 1/40 mm for placement and 1/200 mm for copper.
* The sheet generators are taken as writing beside the other scripts, and
  `gen_pcb_routing.py` as started from the repository's root (section 6).
* A remote command of `BoardTest` succeeds, fails, raises or never returns. EVM
  and jitter are verdicts; a hop log is its length and how much of it agrees.
* `JitterBuffer` forgets what was played when the counter wraps and at reset(),
  never because `next_seq_` was moved back.
* History variables (`aired`, `played`, `quiet`, `reign`, `replaced`, `ran`, `acked`,
  `cut`, `log`, `got`, `gone`, `accepted`, `accepts`) are marked as such and
  decide nothing in an action, except that bounds on the model count some of them.
* Operators named as a faulty variant stand beside the definition they replace;
  they show that a property can fail and are used by no specification.

## 3. Runs and bounds

| Run | Instance | Shows |
|---|---|---|
| `jitter` | depth and width small enough for several laps of the counter; 2 306 states | at most `depth_` frames; no frame is played again before the counter wraps or reset() is called, and none behind the play-out point; nothing lost before play-out starts |
| `jitter_drop` | same | violation, see section 6 |
| `emcon_unlock` | operator and tamper thread | violation, see section 6 |
| `emcon_race` | operator and tamper thread, two slots, a ramp of two uneven steps; 198 000 states | forced silence holds against calls in flight without unlock and reaches the T/R switch at the next edge; between calls the FPGA is never looser than `level_` (`NeverLooser`); the racing threads' accesses implement `EmconPolicy`, refused writes included; a preamble ends while its slot lasts |
| `keys` | issuer and two members, two epochs, one loss of the issuer's state; 2.4 million states | same epoch, same keys; a fresh rekey is refused only by a radio whose epoch is from an earlier life of the issuer (`FreshRekeyAccepted`) |
| `join` | two responders, two joiners, two nonces, one restart of anyone; 1.8 million states | one challenge is good for one join, by the joiner it was made for, and only if it is the newest |
| `zeroize` | two triggers, three fill sessions, any step and the hook may throw; 37 600 states | the engine runs once and always ends, with no usable key from the HSM step on; ACK means all three keys loaded |
| `radio` | two radios that run ahead of each other, a hop sequence of one channel and the discovery frequency, data and voice, reads of three cells over beacons and messages of two, two messages; 102 000 states | nothing is delivered twice or to the wrong radio, nothing vanishes unless a read cut a message; radios find each other once the channel stays whole |
| `route` | every graph of four radios with qualities 0, 1/2, 1 or no link, every visiting order, one change after it; 300 000 states | routes are those of the best paths; a node whose links were followed keeps its path (`SettledForGood`); every step uses something up (`Progress`); recompute() returns |
| `mesh` | three routers, two advertisements; 203 000 states | removed nodes stay out until heard again; neighbours stay in |
| `devboard` | the real sheets, of which four may be late, every script in every order, routing up to twice on one file; 6 098 states | planes and traces are on the net they were drawn for; each designator of the sheets is on the board once, as the part of the sheet read first (`EarlierSheetWins`), on the board and clear of the others (`PartsApart`); lanes are of one length, pairs side by side and in one class (`MatchedTraces`); four of the five documented counts |
| `board_test` | two invocations, of the sequence or of one script, dry or not; deadlines of two polls, logs of two hops; 249 000 states | the exit code is that of this invocation's results; a pass leaves a usable board; every invocation ends unless a command hangs |

Why these bounds are enough to meet the interesting cases: the jitter buffer
wraps and overflows; two epochs and a lost issuer state are what it takes for
an old message to meet a newer one or a reissued epoch; two nonces let a late
answer meet a newer challenge, or two challenges of different joiners or
responders be mixed up; a read of three cells over messages of two cuts every
second message; four radios are the smallest graph with two disjoint detours;
three sessions let one fail between two that succeed; the four late sheets are
those that carry nets written by number in a script or parts with a written
position, and each of the sixteen sets of sheets is worked out in full; two
invocations are what it takes to meet a result file or a board left by another
one. The theorems of section 5
remove the bounds where they apply.

`CHECK_DEADLOCK FALSE` is used for `zeroize` (the radio is powered off),
`route` (no more updates) and `board_test` (a command hangs, or nobody starts
another invocation). Symmetry is used only in runs without liveness.

## 4. Fairness

* `Zeroize`: weak fairness of the engine's steps of each caller. The tamper
  thread has the highest real-time priority (`TamperMonitor::start`), and each
  step returns or throws. Nothing is assumed of the fill thread or of triggers.
* `RadioNet`: weak fairness of start and tick of each radio, which is what an
  application that calls tick() in a loop gives.
* `RouteTable`: weak fairness of the steps of one recompute(): a thread that is
  in a loop goes on.
* `BoardTest`: weak fairness of the scripts' own steps together: the operating
  system runs them. Nobody has to start one, and nothing makes a command hang.
* `TdmaMac`: weak fairness of the clock. Slots and threads may stop or go on.
  The clock is the FPGA's own oscillator. One thing in the code asks for it to
  stop: the zeroize engine writes a halt bit to `REG_CONTROL`
  (`ZeroizeEngine.cpp:71`) before the hook forces silence. In this tree that bit
  (`ctrl_o` of `axi_regs.sv`) drives nothing, `fpga/src/top` being empty; in a
  design in which it stopped the clock, nothing that takes clock edges would
  happen after a zeroize. So only `PreambleEnds`, which is about transmitting in
  normal operation, rests on this fairness. That the ramp reaches full
  attenuation after silence was forced is not claimed; `SilentOnAir` says only
  what an edge does if it comes.

No other module states fairness, and no safety property depends on it.

## 5. What is proved

For every value of the constants, with TLAPS:

* **JitterBufferProofs**: types, bound, order and start of play-out. `Inv` adds
  to the properties that before the first pop() of a frame nothing of the lap has
  been played: only then may a push() move `next_seq_` back.
* **EmconProofs**: types for any threads. The rest is for one operator thread and
  any number of threads that force silence, which is what the code has: the CLI
  and the tamper thread (`OneOperator`). `SilenceInv` says that in
  silence the level is 0 and the lock still closed while a call of the operator
  can reach the FPGA (`Held`), and what a call at each point may write (`Calls`). From it follow `TamperSilence`,
  and the refinement of `EmconPolicy` (`EmconRefinesPolicy`): every access is a
  request, a grant, a silencing, a permitted write or a stutter. `NeverLooser`
  is not inductive, because `level_` is stored before the register is written:
  `LooseInv` adds that where the FPGA is looser than `level_` a write that closes
  the gap is under way (`AboutToFall`), and what is left when the tamper thread
  overtakes a call (`Overtaken`).
  `MacImplementsEmcon`: the specification with the MAC's clock implements that of
  the calls, so all this holds with the clock running. `SilentOnAir` follows:
  each clock edge sets the T/R switch from a gate closed at level 0.
* **KeyManagerProofs**: `AgreementAtEpoch` speaks of radios only; the invariant
  must speak of messages: an epoch names one pair of keys per life of the issuer
  (`MsgUnique`), none is from the future (`MsgBehind`), the current one carries
  the issuer's keys (`MsgIssuer`), a member's epoch came in one (`MemberHasMsg`).
  `KeyFreshAccepted` is an action property: no radio is ahead of the issuer in
  its present life (`NotAhead`) and no earlier message has the new epoch, so the
  one just sent is taken.
* **NetJoinProofs**: nonces name challenges (`ChallengeUnique`), an outstanding
  nonce was sent in this life of the responder and is the newest (`PendingSent`,
  `PendingNewest`), an accepted one is outstanding no more (`AcceptedGone`).
* **ZeroizeProofs**: types; at most one caller runs the engine, no key is usable after
  the HSM step, ACK means loaded, for any number of callers and sessions. The
  invariant says that a caller past the HSM step has closed the session for good,
  that a caller inside the engine is the one that ran it (`Inside`), and which keys
  a session past each import has loaded.
* **RadioNetProofs**: types, `DeliveredOnce` and `NothingVanishes`, for any
  number of radios, keys, hop sequences, message lengths and read sizes.
  `SeenBy` relates the buffers of one radio, its inboxes, its cuts and the log of
  what was sent: a message is in one buffer or once in the inboxes (`OncePending`,
  `OnceTaken`, `NotBoth`), only the first one of a buffer may be cut (`Lengths`),
  none is while the radio has cut none (`Aligned`), and what was not dropped is
  there (`Kept`). Lemmas say what one read takes and leaves (`WholeDef`,
  `RestDef`, `ParseDef`, `ReadFacts`).
* **MeshProofs**, `MeshRouter`: an advertisement once processed is stale for ever
  (`AcceptedIsStale`), from which removed nodes stay out; neighbours stay in.
* **MeshProofs**, `RouteTable`: the graph stays symmetric, and when recompute()
  ends the routes are those of the best paths, on every graph. This is Dijkstra's
  argument: no queue entry is better than a settled node (`Queue`), the links of
  settled nodes have been followed (`Edges`), a node's quality is that of its
  predecessor, which is settled, times the link (`Tree`), and the predecessors
  lead back to this radio without a cycle (`Chains`), so that tracing back ends.
  At the end everything known is settled; no path is better by induction along
  it (`NoneBetter`), and the chain is a path of that quality (`ChainQuality`)
  whose second node and length Trace finds (`TraceChain`). From the same invariant
  come two action properties: a settled node keeps its quality and predecessor and
  is not followed again (`RouteSettledForGood`: no queue entry can improve it, and
  an entry popped is the best of its node), and every step settles a node, follows
  a link or empties the queue a little (`RouteProgress`), which is what `Terminates`
  rests on besides fairness.
* **ScriptProofs**, `PlacementZone`: parts of any sizes placed in one zone never overlap,
  and one whose width leaves room for the margins stays inside it. The boxes alone are not
  inductive: `RoomAhead` says that each lies above the row in work, or in this
  row and left of the cursor.
* **ScriptProofs**, `PcbFlow`: three of the five invariants of `devboard`, for any set of
  late sheets, any order of the scripts and any number of routing runs. `PcbInv` says that
  what the board file holds was made of sheets that were there (`Inputs`); the rest
  is about what the scripts draw from such sheets.
  `CopperRight`: the sheets that a plane or trace needs draw every rail of
  `RailOrder` (`RailsDrawn`) and every signal (`SignalsDrawn`), so that the rails
  have the first numbers of the table (`RailsFirst`), and each kind of trace is then
  taken in turn (`TraceKinds`). `TracesMatched`: the same kinds give the lengths; for
  each pair the lines are written out (`StrobeLines`, `ClockPieces`, `LvdsPieces`) and each
  has a twin at the pair's distance with the same needs (`TwinsTogether`), so that both
  are drawn or none.
  `PartsPlaced`: the symbols of each sheet are typed section by section
  (`SheetsSymbols`) and numbered (`NumberedType`); a plan grows by the part in
  hand or not at all while planned (`Plan1Keeps`) and always when left over
  (`OverflowKeeps`); no designator is kept from two sheets (`KeptApart`), each
  is kept from one (`KeptAll`), and that is the sheet read first (`KeptFirst`); by
  induction over the parts of a stage (`StageKeeps`) and over the stages (`PlacedKeeps`)
  all are there in the end, once and with the sheet they came from (`Sourced`).
  `PartsInZones`: through all this each zone has room only where no part is yet
  (`PlanState`, preserved by `OfferKeeps`), so the parts in a zone are within it
  and apart.
* **ScriptProofs**, `BoardTest`: the exit code tells of this invocation's results, and a
  passing sequence leaves the board ready, for any number of invocations, polls
  and hops. `Tallied` says that the verdict so far is that of the results written
  in this invocation, and that scripts still to come have written none; `InOrder`
  that no script comes twice; `Ready` what the first n scripts say of the board.

The library's induction theorems take an operator as a parameter, which the
provers cannot instantiate. Where a proof needs an induction, over the steps of
a path or the messages of a buffer or the parts of a sheet, it takes the least
counterexample instead (`Least`, from the well-foundedness of the natural
numbers; `Climb`), and the recursive functions of `RadioNet`, `RouteTable` and
`Placement` are shown to exist by the same means (`PrimRec`).

Each inductive invariant was checked by TLC on a small instance before it was
proved.

Assumptions used: the ranges of the constants, named in the modules that
declare them; for four theorems of `EmconProofs` that one thread is the
operator (`OneOperator`), beside any number that force silence.

Only model-checked: all liveness (`ZeroizeCompletes`, `Reconverges`,
`Terminates`, `PreambleEnds`, `InvocationsEnd`), which is out of
the prover's reach; the violations of `jitter_drop` and `emcon_unlock`; and two
invariants of `PcbFlow`. `DocumentedCounts` compares counts of some hundred parts,
vias and traces with the documented numbers: the provers would have to enumerate them, and TLC does.
`PartsApart` adds to `PartsInZones` that parts of different zones are apart and
that written positions are on the board. The zones themselves overlap (`rf` and
`zynq`, `zynq` and `power`), so this is true of these parts and their sizes only,
and TLC works it out for every set of sheets.

## 6. Where code and documentation disagree

Runs that TLC refutes, each against a line of the repository:

* `jitter_drop`: `JitterBuffer.cpp:18` says dropping unplayed frames advances
  `next_seq_`. It does so only if the dropped frame is exactly `next_seq_`.
  After one lost frame and a full buffer, pop() returns nothing until the
  counter comes round.
* `emcon_unlock`: `EmconManager.h:14` says relaxing without unlock is rejected.
  A call set_level(2) without unlock passes its check at level 2; the tamper
  thread forces level 0; the call goes on. The FPGA refuses its level, but the
  refused write opens the lock bit, and `level_` is 2 again. A later
  set_level(1) without unlock is then taken for a tightening and raises the
  level in force from 0 to 1. (`TamperSilence` holds nevertheless: the first call
  cannot end the silence, and the second is a new request of the operator.)

Observed while modelling the radio, with no run of their own:

* `test_tamper.cpp:57` requires that the key manager is not initialized after a
  zeroize. A fill session running beside the engine can load keys after
  `km_.zeroize()`; they are dead (the HSM session is closed), but
  `is_initialized()` stays true.
* `SecurityManager.cpp:28-31` swallows an exception of the post-zeroize hook and
  never calls it again: keys are gone then, but the radio may stay on the air.
* An issuer that restarts or is zeroized begins at epoch 0 again. Members keep
  theirs, and refuse its fresh rekeys as stale until it has caught up
  (`KeyManager.cpp:87`); `FreshRekeyAccepted` names this exception.
* After the wrap of `next_seq_` the "oldest frames" of `JitterBuffer.cpp:15` are
  the newest ones: `buffer_` is in numeric order.
* Two threads in apply_level() and force_emcon0() can leave the power register
  at one thread's value and the level at the other's.
* `LinkState.h:16` says the sequence is monotonically increasing per node;
  `sequence_` is 0 for ever, so receivers take one advertisement per router and
  refuse the rest as stale.
* `SecurityManager.h:24` calls zeroize_immediate() synchronous; the caller that
  loses the race returns while the other one is still erasing.
* `RadioNode.cpp:430` reads 4096 samples: a longer backlog is cut and the next
  read parses payload bytes as headers.
* README says the TEK is rotated hourly; nothing calls the OTAR functions.
  `expire_stale` has no caller, EMCON does not gate tick().
* `tdma_mac.sv:117` calls 3000 cycles at 100 MHz 30 ms; it is 30 microseconds.
* `set_hop_rate` writes hops per second where `regs.svh` wants cycles per hop;
  FPGA and software try a different number of channels around the blacklist.
* `TamperMonitor::stop()` leaves its event in `stop_fd_`, so a monitor started
  again stops at once.

Observed while modelling the board scripts:

* `hardware/README.md:45` expects 434 nets; there are 437, of which the tamper
  section of `gen_peripherals.py` brings three. The other four numbers agree
  (`DocumentedCounts`, which leaves the nets out).
* `gen_pcb_netlist.py:662` takes the same designator on two sheets for the same
  part. It is not: every generator counts from one. Of the 418 parts on the seven
  sheets 106 are lost (53 resistors, 40 capacitors, 7 integrated circuits, 2
  connectors, 2 diodes, 2 switches): the Zynq U1 (the power sheet's converter has its
  name), J1 of the rf-frontend (power), U10 and U11 of the rf-frontend and of the
  peripherals (ad9361), U12 and U13 of the peripherals (rf-frontend), J10 of the
  connectors (peripherals), and D1, D3, SW1 and SW2 of the connectors among them.
  `EarlierSheetWins` says which part stays, not that none is lost.
* Eight parts overlap another where one has a written position (J1 and U4, C3
  and U6, L4 and U7, L6 and U5, U5 and C33, U5 and C34, J10 and Y10, U15 and J14);
  `PartsApart` speaks of parts that were placed by looking for room.
* Placement may read sheets newer than the net table, and writes pads without
  nets; running routing twice draws every trace twice.
* `classify_net` (`gen_pcb_netlist.py:152`) misses `DDR_DQS_P0`, which its
  comment names; the DQS pairs get the class of single-ended DDR3 lines, against
  note 4 of `gen_ddr3l.py:542`. `MatchedTraces` asks that both lines of a pair be in
  one class, not that it be a differential one.
* The four clock and frame pairs of `gen_pcb_routing.py:229` lie on top of each
  other, and so do the starts of the power rails; the transceiver's nets never
  meet the Zynq's `AD9361_B33_*` nets.
* The pattern of `gen_pcb_drc.py:96` matches no segment and no via, so a wrong
  net number passes the check.
* The sheet generators write to a fixed path under `/Users/pekka`;
  `gen_pcb_routing.py` looks for the board from the repository's root, whereas
  `hardware/README.md:25` runs it in its own directory; `gen_power_sch.py`,
  which is documented, does not exist.

Observed while modelling the bring-up scripts:

* `tools/board-test/README.md:86`: each script writes a result file. One that
  ends by an exception does not, and the file of an earlier run stays.
* `README.md:58` there speaks of two boards; `run_all.py` passes one host, so the
  board is compared with itself, through a CLI command (`fhss log`) that
  `CLIShell.cpp` does not have.
* `README.md:40` there has QPSK symbols transmitted; the script only receives.
* The console script waits for a `ZynqMP>` prompt on a Zynq-7045.

## 7. Not modelled

Cryptographic primitives and HSM back ends beyond open or closed; float
rounding of link qualities; text parsing of the CLI; DSP and pin-level FPGA
code; board drivers, build files, firmware recipes. Of the Python code:
`gen_toplevel.py` (one fixed text), `check_regmap.py` (compares two headers),
`gen_test_vectors.py` (computes samples), pad drawing and silkscreen texts,
symbol graphics. `PROJECT.json` gives the reason for each part.

Smaller omissions, on which no property depends: `BoardTest` bounds the length of
a hop log; `Placement` leaves out the rotation of J3; `SoftHsm::destroy_key`
leaves the key in `ec_keys_`, which shutdown() clears.

## 8. Plan

Modelled so far: the radio's software core, its EMCON and preamble hardware,
the board scripts and the bring-up scripts. What is left, most important first:

1. `FhssEngine` and `HopSequencer`: channel choice under a blacklist in software
   and FPGA, hop timer, PPS and hold-over. Properties: same frequency for the
   same inputs while an allowed channel is within the common attempts; a hop
   request is answered before the next; the hop index restarts with the PPS.
2. `TamperMonitor` inside `Zeroize`: start, stop, run_loop and the two
   descriptors, with the callback as a caller. Property: while the monitor runs,
   an event leads to a zeroize.
3. `AxiRegs`: bus handshake, strobes and read channel between `EmconManager` and
   `TdmaMac`, with data that may change after the handshake.
4. `SlotScheduler` inside `RadioNet`: claims, maps and frame changes of several
   radios; one owner per slot.
5. `TransecConfig`, `ComponentManager`, `PropertyService`, expiry of peers.
6. Composition of `RadioNet` with `Zeroize`: keys that go away during tick().
7. Proofs: every safety property that a passing run checks is proved, but for
   `PartsApart` and `DocumentedCounts`, which depend on the data of this one board.
   Left are step lemmas towards the other liveness properties, as `RouteProgress` is
   one towards `Terminates`: what shrinks with every step of a zeroize, of an
   invocation, or of two radios looking for each other.

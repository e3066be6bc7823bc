# Verification of the CS701 group project

TLA+ models, TLC runs and TLAPS proofs for the system under `src/Synthesis/GRP2`:
an FPGA design in which a small processor (ReCOP), a Nios computer and several
audio processors (ASPs) talk over a time-division network on chip (TDMA-MIN).
Paths below are relative to `src/Synthesis/GRP2` unless they start with `src/`.
`Components/`, `Final ReCOP/`, `Synthesis/Quartus` and `Synthesis/ModelSimProject`
hold earlier copies of the same VHDL; the models follow `Synthesis/GRP2`, the
version whose project files build the shipped system. `software/grp_phase_2_bsp` is
a second copy of the board support package `software/lab3_bsp`: their `HAL`
and `drivers` directories are the same, and the models name the lines of `lab3_bsp`.

## Inventory

| Part | Source | State | Operations | Talks to |
|---|---|---|---|---|
| Network | `src/TdmaMin/*.vhd`, `ip/TdmaMinFifo` | slot counter; per port a send fifo and a receive register; the fabric's signals | a clock edge (next slot; pop, push and load at every port); a signal of the fabric changing | every core, by one send and one receive port |
| ADC, DAC processors | `src/AspAdc.vhd`, `src/AspDac.vhd` | per channel destination, rate, enable, samples still to skip; the sample in hand | a configuration word, a sample, or neither, at each edge | network, codec fifos |
| Distortion, FIR, peak, mean processors | `src/AspDp.vhd`, `AspDpFIR.vhd`, `asp_peak.vhd`, `Average_ASP.vhd` | configuration, sample lines and filter registers, the registered send port | the same | network |
| Top level | `src/TopLevel.vhd`, `tdma_addr_circuit.vhd`, `tdma_recop.vhd`, `port_locations.vhd` | none | wiring; address and arrival circuits of ReCOP | all |
| ReCOP | `src/components/*.vhd`, `bdf/*.bdf`, `PM_RAM`, `DM_RAM` | state machine, latched control outputs, PC, IR, register file, flags, DPCR, SOP, two memories with registered ports | fetch, decode, execute, interrupt | network, through `dpcr` and `dprr_write` |
| ReCOP program | `program_memory.mif`, `src/Assembler/a.txt` | - | configures the ASPs in a loop | ReCOP |
| Codec interface | `src/Audio/*.vhd`, `ip/AudioFifo` | I2C sequencer and state machine; bit shifters; dual-clock fifos | configure the codec, move samples | codec; ADC and DAC processors |
| Nios program lab3 | `software/lab3/main.c` | where its loop is, a key edge, a mode, the word to send, two output ports | read the keys and the receive port; write the address; write the data | network, by the Nios port |
| Nios program of phase 2 | `software/grp_phase_2/main.c` | LED and display words | a polling loop | ReCOP's status |
| Board support package, files | `HAL/src/alt_open.c`, `alt_close.c`, `alt_ioctl.c`, `alt_fcntl.c`, `alt_fd_lock.c`, `alt_get_fd.c`, `alt_io_redirect.c`, `alt_main.c`, ... | the descriptor pool with its high-water mark, the device and file system lists | start up, register, open, close, lock, unlock, set flags | device drivers |
| Board support package, alarms and time | `HAL/src/alt_alarm_start.c`, `alt_tick.c`, `alt_settod.c`, `alt_gettod.c` | tick counter and rate, the list of alarms, the time of day at tick zero | start and stop an alarm, tick, callbacks, set and get the time | clock driver, application callbacks |
| Board support package, interrupts | `HAL/src/alt_irq_register.c`, `alt_irq_handler.c`, `HAL/inc/sys/alt_irq.h`, `HAL/inc/priv/alt_legacy_irq.h` | IENABLE and PIE, the enabled interrupts, the priority mask, the table of routines, the routines running | register, enable, disable, take, return, become interruptible and end it | devices, service routines |
| Assembler | `src/Assembler/assembler.py` | address counter | one line to one word | produces the program memory |

What is hard about it:

- **Concurrency.** All cores step at the same edge, but when their packets meet
  depends on slots; ReCOP is interrupted between any two instructions; the fabric's
  signals settle in no particular order.
- **No flow control.** A full send fifo drops in silence; the DAC does not look at
  its fifo; `dpcr` is offered in every cycle; some send ports never clear.
- **Latches and stale registers.** Control outputs of ReCOP keep their values from
  state to state; rate counters, filter lines and windows outlive the configuration
  they were filled under.
- **Timing by counting.** The I2C sequencer offers each word once and does not wait.
- **Callbacks.** An alarm's callback may start and stop alarms while `alt_tick` walks the
  list it is in; the walk holds on to the entry after the current one, also when a callback takes
  that one out.
- **Copies of one fact.** IENABLE, `alt_irq_active` and `alt_priority_mask` say three times
  who may interrupt; the descriptor pool and its mark say twice what is in use.
- **Roll-over.** Tick counter, alarm times and the product of the time of day have 32 bits.
- **Torn words.** lab3 writes the address and the data of its packet one after the other,
  and the network sends what is there in between.

What makes each part correct:

- *Network*: every accepted packet reaches the port it names exactly once, in order,
  with its true source, after a bounded wait at the head of its queue; two packets
  never compete for a destination.
- *ADC and DAC*: exactly as many samples are skipped as the rate says; samples keep
  their order, none is invented or duplicated.
- *The other processors*: each result is the stated function of the samples received.
- *ReCOP*: it executes its program as its instruction set says, program memory is
  never written, an interrupt disturbs nothing but the register it writes, and each
  word the program sends reaches the network.
- *Codec configuration*: the codec receives the eleven words in order and whole.
- *lab3*: a mode it stays in is applied in the end, and the mixtures of two modes do no
  lasting harm.
- *Files*: no descriptor is lost on any way out of `open`, none is given out twice, and
  exclusive access to a device is exclusive, before and after it is taken.
- *Alarms and time*: every callback runs at the tick its alarm asked for and at no other,
  `alt_tick` returns (unless a callback stops the alarm `alt_tick` has read as the next), the
  time of day is the one last set and the ticks since.
- *Interrupts*: a routine is interrupted by higher priorities only, and no enabled interrupt
  stays blocked once no routine is interruptible.

## Modules

### Network

| Module | Content |
|---|---|
| `TdmaMinTypes` | numbers of `Stages` bits as functions from bit positions: slots, terminals, `Xor`, `Increment` |
| `TdmaMin` | the network at its clock edges: `slot` (`count` of `TdmaMinSlots`), `fifo`, `recv`; the fabric by its law `Pull` |
| `TdmaMinFabric` | switch, shuffle stage and rows of stages, as `Driven`, what the drivers of a signal make of their inputs |
| `TdmaMinRtl` | `TdmaMin` with the fabric's signals in `links`, which change one at a time in any order (`Settle`) until the next edge; implements `TdmaMin` |
| `TdmaFlows` | the abstract network: a flow of words from each port to each address, ordered, exactly once, with the true source, and at most `Depth` words held by a port over all its flows |
| `TdmaMinLatency` | `TdmaMin` with the edges each head has waited, and the mapping of fifos to flows |
| `SequenceFilter` | the members of a sequence that are in a set, in their order, as a recursive function |
| `TdmaMin_proofs`, `TdmaMinLayers_proofs` | the proofs: the network at its edges; with its flows above it and its fabric below |
| `InductionTheorems` | what several proofs need: induction with sets, filtered sequences, powers and division |
| `TdmaMinInstances`, `MCTdmaMin`, `MCTdmaMinRtl` | instances |

One action, `Clock`, is one rising edge of the common clock: `Popped` and `Accepts`
are the two sides of the fifo at that edge (`ack` and `req`), `Peer`, `Ready` and
`Push` the combinational part of an interface. A word is a model value; only bit 31
(the request) and the address are told apart. An address has 8 bits and the slots
only three: `Far` are the addresses no slot produces. A full fifo drops the word
also in a cycle in which its head leaves, as the scfifo with overflow checking does.

### Audio processors

| Module | Content |
|---|---|
| `AspWords`, `AspNumbers` | the words between the cores as records, by header; fixed-width arithmetic |
| `AspAdc`, `AspDac`, `AspDp`, `AspDpFIR`, `AspPeak`, `AverageAsp` | one processor each; `AdcClock(w, ..)`, `DacClock(w)`, ... are one rising edge with the word `w` in the receive register, a disjunct per branch of the VHDL process |
| `AspBench`, `MCAspBench` | each processor alone, any of its words at every edge, with the history its results are checked against |
| `AspBench_proofs` | the proofs about the bench |
| `Lab3` | the program of the Nios computer as a client of the network: its loop in three steps |
| `AudioPath`, `MCAudioPath` | codec, ADC processor, network, DAC processor, codec, on the real slots of a network of eight, while a program configures the processors |
| `AudioPath_proofs` | the proofs about the path |

`AverageAsp` takes its window sizes as the constant `Size` (8, 4, 16, 32 in the code).
Reset values that the VHDL leaves open are not read before they are written, or have
the value of the declaration.

A behaviour of `AudioPath` chooses its `program`: `direct` and `filtered` are ReCOP's word
in `dpcr`, held and enqueued in every cycle, with the samples going from the ADC to the DAC
or by way of the FIR processor, whose send port keeps its result as well; `lab3` is the
Nios program with its two output ports. `Lab3` has the two modes its loop comes to; the
display is left out, and the words of the other modes are not reached (see Findings).
`ConfigWords` are the words a program may issue: any configuration of the two codec
processors, except one that sends the samples of the direct path into the filter or those
of the filtered path past it. Samples are numbered in the order the codec delivers them and
stay recognisable through the filter, whose taps of the start (4, 0, 0, -4) make each of the
first four results the sample before; from the fifth sample of a channel on a result
is a difference, which is why `SamplesAssumption` ends the filtered path at four. The
results for all samples and taps are `FirConvolves`, on the bench.

### Board support package

| Module | Content |
|---|---|
| `HalFiles` | descriptors, exclusive access, standard in, out and error, the order of `alt_main` |
| `HalTimer` | alarms with the walk of `alt_tick` entry by entry, and the time of day |
| `HalIrq` | enabling, dispatch, and nesting with `alt_irq_interruptible` |
| `HalBench`, `MCHalBench` | each of the three alone; the alarms and the clock, which share only the counter, one at a time |
| `HalBench_proofs` | the proofs, of each part and of the parts on the bench |

The package is the single-threaded one: its semaphores are empty macros, so a system call
is one step, and what runs with interrupts off is one step. A name given to `open` is the
device or file system that `alt_find_dev` and `alt_find_file` find for it; a driver's own
open function succeeds or fails at will. The list of alarms is a set, and the order of a
walk is left open (`ComesTo`): the list's real order is one of them. `alarm` and `next` are the
local variables of `alt_tick`, `todo` the entries from `next` on. `due` and `wall`
belong to the model: the ticks an alarm has left, and the time `gettimeofday` should give. `M` stands for 2^32. `running` is the stack of service routines, with the mask each one
found; a device keeps its line up until its routine clears it. `alt_irq_register` is the one of
`alt_irq_register.c`: the package is compiled without `ALT_ENHANCED_INTERRUPT_API_PRESENT`.

`StopsNext` says whether a callback may stop the alarm `alt_tick` has read as its next entry.
`alt_alarm_stop` makes a stopped entry point to itself, so `alt_tick` then comes to an entry that
is its own successor and stays there (`Stuck`). When `StopsNext` is false, every walk ends and
every alarm fires on its tick: `TickReturns` states this premise itself, the theorems
`AlarmsFire` and `WalkDescends` assume it, and the runs have it. When it is true the types still
hold, and `WalkHeld` proves that the walk does not end.

Calls that the callers do not make in the model:

- a use of a descriptor that is not open;
- `alt_alarm_start` with 2^32 - 1 ticks, on an alarm that is in the list, or by a callback on its
  own alarm; `alt_alarm_stop` on an alarm that was never started, whose links are null;
- `alt_irq_enable` for an interrupt without a routine. `alt_irq_enable` does not look; `Registered`
  is what its callers know, and the part of `HalTypeOK` that an enabled interrupt has a routine is
  about `alt_irq_register` and about such callers.

`CallsMasked` says whether service routines enable, disable or register interrupts while
one of them is interruptible. `alt_irq_enable` and `alt_irq_disable` write all enabled
interrupts to IENABLE, whatever the priority mask; `NestsUpward` and `NoneStaysBlocked` hold
when it is false, and the run `HalNest` shows what happens otherwise.

### ReCOP

| Module | Content |
|---|---|
| `ReCOPWords` | words, instructions, the arithmetic of the data path, for any width |
| `ReCOPControl` | the control unit: next state, and the latched outputs as the record `cu` |
| `ReCOP` | the whole processor; `Cycle` is one clock: the state machine at the rising edge, registers and memories at the falling edge |
| `ReCOPIsa` | the instruction set: one atomic step per instruction |
| `ReCOPRefinement` | the mapping: the program counter is one ahead in state T1, an instruction takes effect in T2 |
| `ReCOPSlots`, `MCReCOPSlots` | ReCOP beside the slot counter, running the shipped program word for word |
| `MCReCOP` | all programs over a few instructions |
| `ReCOP_proofs` | the proofs, the refinement included |

Instructions are records (`am`, `op`, `rz`, `rx`, `operand`) instead of bit patterns.
Simplifications, all from what the sources wire: the asynchronous reset is left out
(`reset_recop` is never raised by the shipped Nios program); SIP and LSIP never write,
because SIP is held in reset, and the select `rf_sip` that LSIP leaves in T3 is left out
for the same reason; `dprr_hi` and `dprr_lo` have no load signal and are
constants; `rf_value_sel_x` is always five; latches power up at zero, those that are
only ever driven to one may be one from the start. Program memory has a write port in
the model, as in the hardware, which is then shown never to be used. The arrival
circuit (`tdma_recop.vhd`) raises `dprr_write` in every round of slots, when ReCOP is
connected to itself, with or without a packet; `ReCOPSlots` has that.

### Codec configuration

`AudioControl` has the sequencer, the I2C state machine and the two open-drain lines
at the four ticks of a period that change anything (`quarter`), and, as an external
part, an I2C receiver that finds START, STOP and bits from the lines alone and
answers each byte or does not. `AudioControl_proofs` has the proofs.

## Runs

| Run | Question | States |
|---|---|---|
| `Network` | Is each packet delivered exactly once, in order, with its source, within a round of slots; does the network implement `TdmaFlows`, with a destination that has no port and one out of range in the traffic? | 7 thousand |
| `Fabric` | Does the wired fabric, under any order of its signals, connect t with t xor slot and settle, and so implement the network? | 5 thousand |
| `AudioPath` | From codec to codec, directly or through the filter: order, no copies, no backlog with a round of slots between samples, every filtered result arrives although the filter repeats it in every cycle, and a command that ReCOP or lab3 holds takes effect although the fifo is full of old and torn ones | 76 thousand |
| `AspBench` | Are the rates exact and the results those of the reference functions (limits, convolution, largest local peak, mean), for any order of configuration words and samples? | 0.8 million |
| `ReCOPIsa` | Does the pipelined processor implement the instruction set, for all programs of four over thirteen instructions? | 0.2 million |
| `ReCOPAll` | With every kind of instruction and an interrupt in any cycle: is program memory untouched, one register written by an interrupt, fetches in order, requests served? | 0.5 million |
| `Shipped` | Does each word of the shipped program reach `dpcr` again and again, with the interrupts of the running network, from every starting slot? | 4 thousand |
| `AudioControl` | Does the codec receive the eleven settings in order and whole, with START and STOP only where they belong, and is `success` what it answered? | 5 thousand |
| `Hal` | Is no descriptor lost and exclusive access exclusive; do alarms fire on their tick, and does the walk end, through roll-overs and whatever callbacks do to the list except stop the alarm read as the next (`StopsNext` false); is the time of day right; do routines nest by priority and leave nothing blocked? | 0.3 million |
| `AspGrown` | (violated) the mean is always that of the last samples | |
| `ShippedExact` | (violated) every DATACALL sends the word loaded before it | |
| `HalNest` | (violated) an interruptible routine that enables an interrupt is still interrupted by higher priorities only | |

Bounds, and why they are enough:

- `Network`: three ports on four terminals is the smallest network in which two
  ports can want the same third, and a terminal has no port; fifos of two fill,
  drop and hold two flows; the step of the network looks at one head per port.
  The proofs cover every size.
- `Fabric`: two stages, so that the shuffle between stages is not the identity.
- `AudioPath`: five ports of eight, those the paths use, so that the slots and their
  distances are the real ones; three samples of either channel on the two paths of ReCOP,
  and none with lab3, which never enables the ADC; one cycle or one round of slots between
  samples; fifos of two, which fill and drop. Three samples are one in the sample register, one in
  the fifo and one at the DAC.
- `AspBench`: rates 0, 1 and 3 with the 255 skips of rate 3 counted out; the extreme
  samples and taps; five samples (`MaxSamples`), one more than the filter line and the longest
  window (windows of 1 to 4) hold.
- `ReCOPIsa`, `ReCOPAll`: words of two bits, four places of program and two of data,
  every program over the listed instructions; program counters wrap within a few
  instructions. The proofs cover every width.
- `Shipped`: full width, 32 places, which hold the whole program.
- `Hal`: a pool of six, three of them the system's, so that a descriptor below, at and above
  the mark can hold or want a device; a console and a disk. Three alarms: one a callback is of,
  one it starts or stops, one the walk has still to visit. `M` = 6 with delays of 0 and 2 and
  periods of 1 and 3, so that an alarm lies on either side of each roll-over; a rate of 2 and 4
  microseconds to the second, so that the product of `settimeofday` overflows half way through
  the counter. Three interrupts nest three deep.
- `AudioControl` has no bound: the sequencer ends by itself (its counter stops at 480).

`CHECK_DEADLOCK` is on in every run: the clock never stops.

Fairness is that of the oscillator: a next-state relation that is a clock edge is
weakly fair (`ObservedFairSpec`, `PathFairSpec`, `CoreFairSpec`, `SlotSpec`,
`ControlSpec`), in `HalFairSpec` the processor goes on with the handler it is in (`Walk`:
nothing interrupts `alt_tick`, which runs with interrupts off), and in `RtlFairSpec` a signal that can change or an edge happens.
Nothing is assumed of single actions: what a core presents, the codec and the network
deliver is free. `HeldCommandApplies` states its own premise, that ReCOP or lab3 holds the
word; the programs do so for as long as they like.

## What is proved

With TLAPS, for every value of the constants that their assumptions allow:

- `TypeCorrect`, `CollisionFree`, `Soundness`, `Completeness`, `Wedging` (of `TdmaMin`):
  types and capacity; no collision; every received word is a head popped at that edge;
  no head for an existing port is lost; a head out of range stays. `TypeOK` is inductive
  by itself; the others are consequences of `TypeOK` and one step, by the two facts
  about `Xor` (it cancels, it is injective).
- `WaitsOneRound` (of `TdmaMinLatency`): `LatencyBound` for every number of stages and ports.
  It is not inductive; `Waiting` is: the edges a head has waited and the `Distance` from the
  slot to the one that connects it stay below a round together. The distance is that of
  the slots as numbers. That `Increment`, defined bit by bit with its carries, adds one to the
  number (`LowIncrement`) and that the number determines the slot (`NumberInjective`) are
  inductions over the bits.
- `OrderedChannels` (of `TdmaMinLatency`): `ObservedSpec => ImplementsFlows`. Each edge is one step of
  the flows: popping the head removes the first word of the one flow it belongs to, accepting
  a word extends one flow, and nothing else changes what is filtered out for an address
  (`FilteredCons`, `FilteredAppend`). The abstract `held` is the fill of the fifo, so that the
  flows may drop a word only when the fifo is full.
- `RtlTypeCorrect`, `FabricRoutes`, `RtlRefines` (of `TdmaMinRtl`): for every number of
  stages a quiet fabric routes by xor, and `RtlSpec => Spec`. The argument follows a
  word back through the rows: `OriginStep` says that a stage moves the origin of a
  terminal by one bit of the slot, and the rows are chained by induction on sets of
  naturals (`InductionTheorems` derives the principle from the well-foundedness of < on Nat,
  with a set in the place of an operator parameter).
- `FabricDescends` (of `TdmaMinRtl`): between two edges a change of a signal takes that signal
  out of those about to change and puts in none of its own row or of those before it. The words
  formed by the rows' numbers of unsettled signals descend in lexicographic order, so that the
  fabric has no combinational loop in any slot.
- `CoreTypeCorrect`, `ProgramKept`, `InterruptHarmless` (of `ReCOP`): with the inductive
  invariant `CoreTypeOK /\ Enables`, where `Enables` says in which states each latched
  write enable may be up. `ProgramUntouched` is not inductive: it holds because the
  enable and the selection of program memory, two separate latches, are never up
  together.
- `BitsMakeWords` (of `ReCOPWords`): a set of bit positions makes a word, which the types of `andd` and
  `orr` rest on. `WithOnes` is a fold that takes the elements in an order of its own: `WithOnesAdds`
  gives the function its recursion defines, `AddsAny` that any element could be taken first, `AddsBelow`
  that powers below the n-th add up to less, each an induction with a set of naturals.
- `FetchInOrder` (of `ReCOP`): `FetchesPc`, with interrupts in any cycle. The inductive invariant is
  `Pipeline`: in a program of steady instructions the address register follows the program
  counter in every state but T1 and T2, the output register is one clock behind it, through the two
  states of an interrupt too, and the selection of program memory is never dropped after
  the start (`Started`). `Steady` leaves out only the instructions that break this: stores,
  direct and indirect loads, and PRESENT.
- `RequestsHeld` (of `ReCOP`): a pending request stays, and every cycle brings the instruction
  in progress nearer to its end, until N1 accepts it. The invariant `Listening` says when the
  latched reset of `irq` is up. A delivery announced from N2 to the next T1 falls into that reset
  and leaves no request: `RequestHeld` speaks of `irq`, not of `dprr_write`.
- `CallsHandOver` (of `ReCOP`): how far the finding about `CallsExact` goes. With interrupts in any
  cycle, in a steady program, each word for the network comes from a DATACALL of the program:
  its high half is the register the DATACALL names or register 5, its low half the operand, or
  in the indirect form the register it names or register 7 (`Quiet` keeps `dpcr` from changing
  outside of T2, `Pipeline` says which instruction T2 has).
- `SlotsOnCore` (of `ReCOPSlots`): `SlotSpec => CoreSpec`, so that all theorems about `CoreSpec` hold of the
  shipped machine, interrupted in every round of slots.
- `CallsExactUndisturbed` (of `ReCOPSlots`): without interrupts, and for the programs that are
  `Paired`, every DATACALL hands over its operand and what the instruction before it loaded.
  Its argument is one about the instruction set: `FetchStep`, the step of `ProcessorImplements`,
  turns a cycle into an instruction, and `Ready` (before a DATACALL its register holds the
  operand of its load) is inductive over instructions. `MCReCOPSlots` assumes that the shipped
  program is `Paired`, and TLC evaluates it. Together with `CallsHandOver`: the interrupt alone
  breaks `CallsExact`, and only in the high half.
- `ProcessorImplements` (of `ReCOPRefinement`): without interrupts, and for programs of
  the kept instructions that begin with a load, `CoreSpec => ImplementsIsa`. The
  inductive invariant `Fetch` says for each state what the address and output registers
  of program memory hold and which latches are down; without it the instruction that
  arrives in IR is not the one at the program counter.
- `RatesAreExact`, `DistortionLimits`, `FilterConvolves`, `PeaksDetected`, `MeanIsRecent` (of
  `AspBench`): every action property of the bench, for all words and samples, any taps and any
  window sizes. Each needs the invariant that ties the processor's registers to the history it is
  checked against: `RatesInv` (skipped so far and still to skip make what was promised, `Balanced`),
  `FirInv` (place i of a line is the sample of that channel i before the last), `AvgInv` (the
  window is the last samples as far as it has been refilled since it grew) and `PeakInv` (the peak
  register is the largest known peak, and the two samples in hand are the last two).
- `OrderKept`, `KeepsUp`, `PlayedOnce` (of `AudioPath`): `SamplesInOrder`, `PathKeepsUp` and `PutOnce`
  for any number of stages, samples on the direct path and commands. The inductive invariant
  `PathInv` composes network and cores:
  `Carried` (which packets each port's fifo can hold, and that the slot tells where a received word
  is from), `Cores` (types, and what stays on the send ports), `Rising` and `Resulting` (bounds exist
  between the places a sample passes: what is in one place is above what is further on),
  `Lines` (the line of the filter is in order, so that a result is the sample before), `Alone` (no
  word reaches the DAC processor right after a sample: `SlotAfter` computes that the slot after
  the ADC's connects the DAC with port 3, which sends nothing) and `Spaced` (the head of the ADC's fifo
  leaves before the next sample comes: with `Distance`, as in `WaitsOneRound`).
- `PathOnNetwork`, `PathDelivers` (of `AudioPath`): `PathSpec => AnyTraffic`, the network's specification
  for words of any kind on the send ports, since the cores touch it only through them. What
  `TdmaMin_proofs` shows of one edge is stated for any sends (`ClockArrives`, `ClockKeeps`,
  `ClockDelivers`), so that no collision, soundness and completeness hold of the audio system.
- `TransmissionPlaced`, `SettingsArriveInOrder`, `WordsPrompt`, `LineSteady`, `SuccessAnswered` (of
  `AudioControl`, which has no constants: the run goes through every state, the proof says why they
  are right). The inductive invariant `IInv` puts every reachable state at a place: idle
  between two words (`Waiting`), or sending bit e of the next frame (`Sending(e)`), where the counter,
  the state of the I2C machine, both lines, the bits the codec has sampled (`Sampled`) and what it
  answered (`Judged`) are all functions of e and the quarter. `SettingsInOrder` alone is not
  inductive: a machine in the middle of the wrong word satisfies it until the word ends.
  `WordsPrompt` says that each word has arrived thirty periods after its offer, ten before
  the next.
- `FilesTypeCorrect`, `DescriptorsKept`, `LockExcludes`, `LockedOut` (of `HalFiles`): for every
  pool and all devices. The inductive invariant is `FilesInv`. `NoneLost` alone is not
  inductive (`alt_open_fd` fills a descriptor of the system and releases another), and neither
  is `OneHolder`: `alt_fd_lock` compares the descriptors below the mark, not the one at it.
  What makes up for that is `HolderFirst`, that a descriptor with exclusive access is the
  first of its device, with `Marked` (what is in use is up to the mark), `DevFlags` (only
  devices are locked) and `Startup` (nothing is open or locked before main).
- `AlarmsFire`, `TimerTypeCorrect` (of `HalTimer`): for a counter of any width, the first if
  `StopsNext` is false, the second always. The inductive invariant `TimerInv` relates the alarm time, the flag and the counter to the ticks left
  (`Kept`: with the flag set, the alarm time is a whole counter short), says that the walk has left
  nothing behind that is due (`Listing`) and what it has before it (`Walking`). `Kept` has a
  case of its own for the walk right after a roll-over, which has still to clear flags.
- `WalkDescends` (of `HalTimer`), if `StopsNext` is false: while `alt_tick` walks, the entries before
  it only get fewer, and each step of the walk takes the current one. No callback runs twice in a
  tick. It rests on `Walking` and on `Going`: what the walk comes to is in the list.
- `WalkHeld` (of `HalTimer`), for both values of `StopsNext`: at an entry that is out of the list
  `alt_tick` stays, whatever other alarms are started or stopped. `WalkDescends` thus needs its premise.
- `ClockRuns` (of `HalTimer`): `WallClockRuns` for every rate that divides a second. The invariant
  `ClockInv` says that the time at tick zero and the ticks since make `wall`; the carries of `settimeofday` and
  `gettimeofday` between seconds and microseconds are uniqueness of quotient and remainder
  (`DivModUnique`).
- `RoutinesNest`, `BlocksEnd` (of `HalIrq`), for any number of interrupts, if `CallsMasked` is
  false. The inductive invariant `IrqInv` ties the mask to the stack: each routine found the
  mask of the one it has interrupted (`Frames`), the innermost interruptible one has set the
  present mask (`MaskSet`), interrupts are taken only outside of routines and in interruptible
  ones (`Taken`), and IENABLE is the enabled interrupts under the mask (`Enabled`).

- `HalTypeCorrect`, `PartsOnBench` (of `HalBench`): the types of all parts whichever runs, and
  `HalSpec => FilesSpec /\ TimerSpec /\ IrqSpec`, so that the theorems about a part hold of what
  the run checks.

Assumptions used: the named `ASSUME`s of the modules, which TLC evaluates on the runs' values.
Most give the constants their types. Those that say more:

- `WidthAssumption`: the widths are positive and the memories not wider than a word.
- `ClockAssumption`: a tick is a whole number of microseconds; at another rate the code loses the
  rest of each second (the shipped `system.h` names no system clock, the rate is the driver's).
  Times have their microseconds in range.
- `TimerAssumption` leaves out the delay of 2^32 - 1 ticks (see Findings).
- `StopsNext` and `CallsMasked` are not assumed: the theorems that need one of them to be false say
  so in their statements.
- `WordsAssumption`: sample words have a channel, filter words four taps.
- `NobodyAssumption`: the abstract network needs a value that is no address.
- `PortsWired`: three stages at least, and the ports of `port_locations.vhd` are there.
  `CommandsAssumption`: a program issues the `ConfigWords` described above, and the words of lab3 are
  words of the network. `SamplesAssumption`: samples come at least a cycle apart, and the
  filtered path has four at most, for the reason given under Modules.

Only model-checked: liveness (`HeadIsServed`, `FabricSettles`, `IrqServed`, `CallsMade`,
`HeldCommandApplies`, `FilteredArrives`, `AllReceived`, `TickReturns`), which is beyond the prover. Five
of these have a proved half, the bound or the measure that makes them true once the
clock goes on: `LatencyBound` (`WaitsOneRound`) for `HeadIsServed`, `FabricDescends` for `FabricSettles`,
`RequestsHeld` for `IrqServed`, `WordsPrompt` for `AllReceived`, `WalkDescends` for `TickReturns` (where `StopsNext` is false). That a
measure which descends comes to its end is an induction, and that a step is taken is fairness: both
are left to TLC. All other properties of the passing runs are proved; the three violated ones are
counterexamples. Only proved, and in no run: `Wedging`, `FabricDescends`, `PathOnNetwork`,
`PathDelivers`, `RequestsHeld`, `CallsHandOver`, `SlotsOnCore`, `CallsExactUndisturbed`, `TransmissionPlaced`,
`WordsPrompt`, `WalkDescends`, `WalkHeld`, `BitsMakeWords`, `PartsOnBench`, and the types of `TdmaMinRtl`, `HalFiles` and `HalTimer` by
themselves. What a recursive definition computes for every input is proved
where an induction with a set does (filtered sequences, powers, slots as
numbers, words of bits).

## Findings

With a run each (see `findings` in `PROJECT.json`):

- a mean whose window grows averages samples of long before (`MeanAlways`);
- an interrupt between LDR and DATACALL sends register 5 instead of the loaded word
  (`CallsExact`); nothing else does, and the rest of the word is intact (`CallsHandOver`,
  `CallsExactUndisturbed`);
- a service routine that enables or disables an interrupt after `alt_irq_interruptible`
  lets lower priorities and itself in, though the comment at `alt_legacy_irq.h:103-104` speaks
  of higher ones (`NestsUpward`).

Noted while modelling, visible in the definitions named, without a run of their own:

- `FirOther`, `DpOther`: the send port keeps its last result, with bit 31 set, in idle
  cycles, so the network enqueues that result again and again.
- `AvgData`: only bits 15..0 of the send port are assigned, bit 31 is never set, and the
  mean never leaves.
- `Doubled`: bit 14 of a sample is lost before the limit is tested; the loudest samples
  come out quiet. `DpLimits` therefore speaks of samples below 2^14.
- `PeakConfigure`, `Result`: destination and function are shared by the channels, the
  destination only serves the direct pass, and every result is labelled channel 0.
- `Jump` for PRESENT, `ExecuteImmediate` for stores: the next instruction is fetched from
  the wrong place (`Steady` names the instructions that do not do this).
- `SelZ`: the register file's z select follows the x select, so `dpcr_r7` and the
  "hard code write to 10" select other registers.
- `AdcConfigure` and `DacConfigure` acknowledge with each other's port number.
- `ExecuteDirect`: a direct load does not select data memory, so its address goes to program
  memory, and it reads place 0 of data memory instead of the address (`opcodes.vhd:22`, "direct:
  LDR Rz $address").
- `PutOnce` is stated for the direct path only: the FIR processor sends in slot 5 and ReCOP
  in slot 6, so a configuration word can follow a filtered sample in the next cycle, and the
  DAC writes that sample twice.
- `ReadInputs`: the "check for key 0 press" (`lab3/main.c:108`) is true in every round of the
  loop while key 0 is up, so the mode alternates between 9 and 4 all the time; modes 8, 7, 6,
  3, 2 and 1 are not reached, and lab3 never enables the ADC. `Forwards`: the shifted `char` is
  -8 and not 8, so a received sample is never sent on.
- `Lockable`: `alt_fd_lock` leaves out the descriptor at the mark, where its comment
  (`alt_fd_lock.c:43-45`) says any other one; `HolderFirst` shows that this never lets two holders in,
  and a lock may succeed beside a second descriptor of the device.
- `Close`: closing a descriptor of the system keeps its lock, where `alt_fd_lock.c:47` says that
  close gives it up.
- `Delays`: an alarm of 2^32 - 1 ticks has the current tick as its time and fires at the next one.
- `StopInCallback`: a callback that stops the alarm after its own in the list (where `StopsNext` is
  true) leaves `alt_tick` on an entry that points to itself, for ever (`Stuck`, `WalkHeld`). The
  comment at `alt_tick.c:61-63` on `alt_alarm_stop` makes no exception for it.
- `SinceReset`: the product has 32 bits (`alt_settod.c:84`), the one of `gettimeofday` 64. After 71
  minutes the time that is set is not the one that is read; `WallClockRuns` speaks of the times
  before. With a tick rate that does not divide a million the time also steps back.

## Not modelled

- The distortion, peak and mean processors inside a network path: they are on the bench. The
  mean never leaves its processor, and the distortion holds its send port as the filter does.
- The codec's bit shifters, tone generator and dual-clock fifos (`AudioIn`, `AudioOut`,
  `AudioTones`).
- `grp_phase_2/main.c`: it shows counters on displays and LEDs and keeps nothing. The display
  of `lab3`.
- The assembler: one line to one word, with an address counter.
- The rest of the board support package: calls handed on to a driver (`read`, `write`,
  `lseek`, `fstat`, `isatty`), system calls that only report an error, cache operations and
  remapping, formatting and logging (`alt_printf`, `alt_log_printf`), profiling (`alt_gmon`), the decoding
  of instruction exceptions, busy loops, DMA and flash stubs without a device, constructors and
  the heap mark of `alt_sbrk` (whose failure `alt_gmon` does not look at). They keep no
  state between calls that a property could be about. `alt_load` and `crt0` run once before
  anything else. `system.h` is generated.
- The register save area of the exception entry, and software exceptions.
- The Nios hardware, PLLs and vendor memories: generated; used through what the VHDL
  expects of them. Seven-segment decoders and pin assignments: wiring.
- Testbenches: the network's run offers what `TestTdmaMin.vhd` offers, in any order.

## Plan

The network, the processors on the bench and in two paths, ReCOP with its program, the codec's
configuration, lab3 and the board support package are in place, in this order. What is left:

1. `AudioOut` and `AudioIn`: two clocks, the fifo between them, the channel registers.
2. ReCOP, network and DAC together: the shipped program configuring a real processor.
3. The peak processor in a path, with the destination its two channels share.
4. `assembler.py` as a function on instructions, against the fields `Instruction_reg.vhd`
   reads.

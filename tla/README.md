# LT24 controller: a TLA+ verification project

The repository is a hardware accelerator for the LT24 display on a DE0-Nano-SoC
board (EPFL CS-473) and the Nios II program that drives it. The program writes
the accelerator's registers over Avalon; the accelerator sends commands to the
display, or fetches an image from the HPS memory in bursts, buffers it in a FIFO
and writes it to the display pixel by pixel. Everything runs on one 50 MHz
clock, and that is what makes it hard: four state machines take every clock edge
together, see each other's outputs of the cycle before, and talk through single
flag bits that one side sets and the other clears.

Beside it are two blocks that the authors wrote or took for the camera side: an
I2C master and a stand-in for an image sensor.

This directory holds models of all of these, translated from the VHDL and the C,
TLC configurations that check them on small instances, and proofs of the most
important properties for all instances.

## 1. Inventory

### Parts of the system

| part | source | state | operations |
|---|---|---|---|
| register file | `src/hw/hdl/RegisterFile.vhd` | 71 16-bit registers, of which register 4 is the flags `lcd_enable`, `send_command`, `reset`; `readdata` | bus write, bus read, three active-low strobes that clear one flag each |
| DMA controller | `src/hw/hdl/DMAController.vhd` | FSM of 6 states, `CurrentAddr`, `CurrentLen`, `current_burst`, `read`, `address`, `reset_flag_lcdenable` | one branch per state |
| pixel FIFO | `src/hw/hdl/fifo.vhd` | 512 words, `q`; `almost_full` at 496 | push, pop, both at an edge |
| LCD controller | `src/hw/hdl/LCDController.vhd` | FSM of 10 states, `reset_counter`, `k`, `cc4`, `BytesLeft`, the display's lines, `rdreq`, two strobes | one branch per state, the asynchronous reset flag |
| top level | `src/hw/hdl/top.vhd` | none | wiring |
| driver and `main` | `src/sw/app/hello_world.c` (same file as `src/hello_world.c`) | program counter, the local `flags` | `set_flag`, `reset_lcd`, `send_command`, `configure_image`, `start_lcd`, `init_lcd`, `init_image` |
| memory path | `src/hw/quartus/soc_system.qsys` | outstanding burst | grant, return words |
| display | outside the repository | what it has received | takes `D`, `D_CX` at a rising `WRX` |
| camera demo | `src/hello_world_with_camera.c` | as the driver | waits for a camera frame, then the same calls as `main` |
| I2C master | `src/hw/quartus/ip/i2c/hdl/*.vhd` | FSM of 31 states, bit counter, clock divider, data, control, status and divisor registers, interrupt | register accesses, one branch per state; not instantiated in `soc_system.qsys` |
| CMOS sensor output generator | `src/hw/quartus/ip/cmos_sensor_output_generator/hdl/*.vhd` | FSM of 6 states, six counters, six configuration registers, command pulses | register accesses, one branch per state, reset; not instantiated in `soc_system.qsys` |
| FPGA top | `src/hw/hdl/DE0_Nano_SoC_TRDB_D5M_LT24_top_level.vhd` | none | pin wiring |
| generated, vendor | `src/hw/quartus/hps_isw_handoff`, `db`, `src/sw/lt24_bsp` | | not ours |

### How they interact

- Software sets a flag by writing register 4 and polls it. The LCD controller
  clears `reset` and `send_command`, the DMA controller clears `lcd_enable`.
  A strobe wins over a bus write in the same cycle (`RegisterFile.vhd:53-65`).
- `lcd_enable` starts *both* the DMA controller and the LCD controller, but only
  the DMA controller ends it. The LCD controller goes on until its own byte count
  is used up.
- The DMA controller asks for a burst only while `almost_full` is low; the words
  go straight from the bus into the FIFO, without back-pressure.
- The LCD controller's reset branch is asynchronous: it depends on the flag and
  the state, not on the clock (`LCDController.vhd:58-60`).
- `clk_0.clk_reset` (KEY0) resets everything at once, but not every register has
  a reset: the register file clears a variable that the next edge overwrites
  (`RegisterFile.vhd:42-45`), `read` and `address` of the DMA controller and
  `rdreq` and `BytesLeft` of the LCD controller are not named in their reset
  branches. The Nios II can also be restarted alone, by its debugger (`soc_system.qsys:1184-1231`): then the accelerator runs
  on, and the memory port in between is reset.
- The I2C host writes a command; the interface holds it until the core raises
  `cmd_done`, and acknowledges. `cmd_done` outlives the command by two cycles, and
  everything the core knows of the bus went through two registers.
- The sensor stand-in takes configuration in IDLE only and commands as pulses of
  one cycle, and nothing holds a command that comes in the wrong state.

### What is hard here, and what makes each part correct

- *DMA, memory and FIFO*: words may come at any pace and after any gap. Right
  means that exactly the words of the image enter the FIFO, in order, that none
  is dropped, and that the flag falls when and only when the image is complete.
- *Register file*: a request made in the cycle of a strobe must not get lost.
- *LCD controller*: every transfer must reach the display once, with its data
  still and `WRX` at each level for the usual five cycles; a pop must never find
  the FIFO empty; commands must not be changed while they are sent.
- *Driver and accelerator together*: the display receives the calls of `main()`
  in their order, with nothing lost, repeated or interleaved, although
  `start_lcd` returns before its image is displayed; and every call returns.
- *Restarts*: the program may start again while the accelerator is busy, and KEY0
  leaves part of the old state behind.
- *I2C master*: the wire must carry exactly the symbols of each command, between
  a handshake of five cycles on one side and a target with its own delays on the
  other, and the end, the interrupt and the results must be those of the host's
  own command.
- *Sensor stand-in*: every comparison is for equality, so a counter that was once
  past its limit would run until it wraps; stopping and reconfiguring at any
  moment must not bring that about, and frames must follow the configuration
  cycle by cycle.

`PROJECT.json` lists each hazard at its line, with the properties aimed at it.

## 2. Modules

| module | models | role |
|---|---|---|
| `Words` | `unsigned` registers that wrap | helper |
| `DMAController` | `DMAController.vhd` | component |
| `Fifo` | `fifo.vhd` | component |
| `AvalonMemory` | interconnect and memory | external component |
| `FetchService` | what the fetch side promises | abstract specification |
| `FetchPath` | DMA, memory and FIFO; software and LCD controller as environment | composition, properties |
| `FetchPath_proofs`, `FetchService_proofs` | | proofs |
| `MCFetchPath` | images for TLC | model |
| `FetchParts_proofs` | | lemmas that both fetch and top proofs cite |
| `RegisterFile` | `RegisterFile.vhd` | component |
| `LCDController` | `LCDController.vhd`, on top of `RegisterFile` and `Fifo` | component |
| `LT24` | the display | external component |
| `Driver` | `hello_world.c` | component |
| `LcdService` | what `main()` may rely on | abstract specification |
| `Top` | `top.vhd` with driver, memory and display | composition, properties |
| `Top_proofs` | | proofs: types, FIFO room, phases, pops |
| `TopCalls_proofs` | | proofs: transfers, requests, commands |
| `MCTop` | programs for TLC | model |
| `I2cTypes` | bits, bytes, symbols of the wire | helper |
| `I2cClkgen`, `I2cCore`, `I2cInterface` | the files of these names | components, each on top of the one before |
| `I2cTarget` | an I2C target and a monitor of the two lines | external component |
| `I2cService` | what a host may rely on | abstract specification |
| `I2cMaster` | the master with a host and a target | composition, properties, model |
| `I2cMaster_proofs` | | proofs: types, the end of a command |
| `I2cWire_proofs` | | proofs: the two lines, the refinement, the results |
| `CmosGenerator` | `cmos_sensor_output_generator.vhd` | component |
| `FrameService` | the schedule of a frame | abstract specification |
| `CmosFrames` | the generator with its test bench's host | composition, properties, model |
| `CmosFrames_proofs` | | proofs |

A component is a module with its registers as variables, one operator per state
of its FSM (the whole branch: every assignment, everything else UNCHANGED) and
one operator for a clock edge. Inputs are parameters, or the variables of the
modules it extends. A composition extends its components and conjoins their
edges, so that a step of `Tick` or `Clock` is one rising edge for all: unprimed
variables are what a VHDL process reads, primed ones what its signal assignments
leave after the edge. `RegClock` comes before `LcdClock` because the asynchronous
reset branch sees the flags *after* the edge.

Some correspondences that are not one to one:

- `read`, `rdreq`, `WRX` and so on are booleans; a strobe is active low, as in
  the code: FALSE clears its flag.
- Register 4 is the variable `Flags`, the set of bits that are up.
- `Forced` is the asynchronous branch. If the flag is up after the edge the state
  is `Reset`. If it falls at the very edge at which the state leaves `Reset`, the
  new state can meet the old flag: in simulation the branch fires again one delta
  cycle later, in the FPGA the two change together (the state bit is emulated
  with a latch), so both outcomes are possible in the model.
- `k` has 8 bits and selects one of 64 parameters by its low 6 bits; the model
  keeps the ratio (`4 * MaxParams` values, `MaxParams` parameters).
- The word stored at byte address *a* is *a* itself, so that a word which is lost,
  repeated or misplaced shows in the FIFO and at the display.
- A memory burst is granted at any cycle, one at a time (MAX_PENDING_READS is 1),
  and its words come with any gaps, except that both halves of a 32-bit beat come
  back to back: the port is 32 bits wide and the width adapter sends one 16-bit
  half per cycle. **This is an assumption about generated interconnect**, and
  correctness depends on it (see the findings).
- A call of the C program is the sequence of its bus accesses. Between two of
  them the processor takes one cycle or more, so an access to the slave takes at
  least two. The compiled code takes many more cycles between accesses; the
  shorter time only adds behaviours. `IOWR_32DIRECT` is two writes, low half
  first.
- The initial state is power-up, with the reset values of the nReset branches.
- KEY0 is held for many cycles of the clock, so `Key0` is one atomic action that
  conjoins what every nReset branch does and leaves alone. `nReset` comes after
  the reset flag in `LCDController.vhd:58-62`: if that flag is up, the controller
  leaves KEY0 in Reset. Whether the vendor FIFO's `q` is cleared with its contents
  depends on the device: both are possible.
- I2C: `i2c_comb` is a table of 31 states by nine outputs; the model has one
  operator per output, read down the table. Bits are numbered in the order they
  are sent, so `data_in(7)` is bit 0. A byte has `DataBits` bits. The registers
  that only software reads back, CR and CD, are written but not read.
- The I2C host and target are external: the repository has no driver. The host
  is any program that follows the register description in `i2c_interface.vhd`,
  asks only for what the bus specification allows next, and waits for the end by
  TIP or by the interrupt before it reads DR and goes on. The target chooses all
  of its bits and acknowledges. `wire` records what a monitor on the two lines
  sees; a change of SDA at the falling edge of SCL is a symbol of its own that no
  command may show.
- The sensor stand-in's six counters and six configuration registers are
  functions of the register's name. `height - 1` of an unsigned counter is never
  below zero where it is used, because lines are counted from 1.
- The sensor stand-in's host is external too. `cmos_sensor_output_generator_hw.tcl`
  declares `writeWaitTime 0`, so accesses may come in successive cycles, and they
  do; but the host leaves the cycle after a *command* free, as the test bench does
  after every access. The generator needs that cycle, in which its command pulse
  takes effect: without it a configuration write can change the limits under a
  frame that is starting, and a second command is dropped (hazards at lines 73 and
  109), and `CountersInRange`, `ImplementsFrames` and `StatusTellsCommand` are false.

### Abstract specifications

`FetchService` knows no bursts: begin an image, put its next word in the queue,
take one out, finish when nothing is left. `LcdService` knows no flags and no
hardware: calls begin and return, the display takes the next transfer of the
calls that have begun, `send_command` returns when all of its transfers are done,
`start_lcd` when at most `lpm_numwords + 1` are still to come. `FetchPath` and
`Top` are checked to implement them through the refinement mappings `Service`
(in `FetchPath`, `left` and `next` are the DMA's counters once it has left Idle,
and the image registers before).

`I2cService` knows no clock, no states and no handshake: a command is asked,
its symbols appear on the wire one after the other, when all are there the host
may learn that it is over, and then it collects the results; from the moment it
knows until the next command the wire is silent. The moment is the edge at which
the host takes TIP as low or the interrupt as raised, not its later read of DR.
`FrameService` knows no counters: a frame is a number of cycles computed from the
configuration, each shows the pixel or the blank that its place in the frame
stands for, and the place moves on by one. `CmosFrames` maps it to the state and
the counters (`Position`).

## 3. Runs

| run | question | result |
|---|---|---|
| `fetch_path` | aligned images of one burst and of three, the second longer than the FIFO, any pace of memory and LCD controller: does exactly the image enter the FIFO, without overrun, and does every fetch end? | holds |
| `top_main` | `main()` in small and then a command behind an image, an image behind a command, a long image behind a short one: do the display's transfers follow the calls, does every call return, is no request lost, no command torn, no pop in vain, no phase of `WRX` cut short? | holds |
| `top_restart` | a program of two images with one fault, either the processor restarting at any cycle, and the memory forgetting a burst or not, or KEY0 pressed at any cycle: what still holds? | types, room in the FIFO for every burst, whole phases of `WRX`, clean transfers, and every image that is started is one of the two |
| `i2c_master` | any legal sequence of transfers, polled or by interrupt, with divisors changed in between, and a target that answers anything: does the wire carry the commands and nothing else, is a command over when the host learns that it is, are the end and the results those of the host's command, does every command end? | holds |
| `cmos_frames` | any configuration, START, STOP and reset, at any moment but the cycle after a command: do counters stay below their limits, does the port show the configured schedule over and over, does the status tell the last command? | holds |
| `fetch_unaligned` | `DMAController.vhd:95`: is the burst finished in CheckData? | not for an image address that is not a multiple of 4 |
| `fetch_partial_burst` | `DMAController.vhd:45`: is `CurrentLen` what is left? | not for an image that is not a multiple of 32 bytes |
| `top_start_waits` | `hello_world.c:70`: does `start_lcd` wait for completion? | no, for the fetch only |
| `top_short_twice` | the same line: is a started image displayed? | not a second image that fits in the FIFO |
| `top_reset_waits` | `hello_world.c:30`: does `reset_lcd` wait for completion? | not if the reset procedure starts again |
| `top_restart_returns` | `hello_world.c:45`: does `send_command` complete? | not after a restart in the middle of an image |
| `top_key0` | the same line, after KEY0 | not if KEY0 is pressed while a burst is requested |

The findings that the violations stand for are described in `PROJECT.json`.
`main()` as it is written meets none of them, except that it returns early: its
image is aligned and whole, it is shown once, and nothing follows it.

### Bounds, and why they are enough

- `N = 4` words per burst (2 in `top_restart` and `top_restart_returns`): two
  beats, so a burst has a first, a middle and a last word and a gap before each.
- The FIFO has the exact fit of the code, `almost_full_value + N = lpm_numwords`
  (496 + 16 = 512): 10 words in `fetch_path`, 6 and 4 in the others, so that
  images both fit and do not fit. Shorter bursts leave *less* time between the
  first word and the clearing of the flag, so races between the DMA controller
  and the LCD controller are tighter than in the code.
- `WordMod = 64` so that a counter which passes zero is seen to wrap;
  `HalfMod = 8`, so both halves of addresses and lengths are used.
- `RESX_High`, `RESX_Low`, `RESX_End` = 1, 2, 3 instead of 50000, 550000,
  6550000: every branch of Reset is taken. Nothing compares the counter with
  anything else.
- `MaxParams = 2`; commands with none, one and two parameters.
- `MaxRestarts = 1` and `MaxKeys = 1` where restarts and KEY0 are asked about, else
  0; an execution has one or the other. Two properties of `top_restart` are about
  one fault only and say so (`OneFault`): with that bound lifted, TLC finds that
  both are false after a second.
  - `RoomAfterFault`: KEY0 in Request leaves `read` up with an idle DMA controller.
    After a first fault `lcd_enable` is still up, the controller starts again and
    takes `read` down. If the flag is clear by then, because a restarted program's
    `send_command` has overwritten it or an earlier KEY0 let the image go on to its
    strobe, the memory goes on answering and the FIFO overflows.
  - `ImageIsWhole`: a program restarted in an image, with no command before its
    `configure_image`, and then KEY0 in the middle of that, starts a mixture of two
    images.
- `i2c_master`: `DataBits = 2` has a first and a last bit, so the bit counter
  wraps and a byte can be reversed, cut short or repeated; the direction bit of an
  address is the last one. `Divisors = {1, 2}`: the fastest bus that the
  registers on the lines allow, where the handshake and the lines' delays are
  tightest, and a change of divisor both ways.
- `cmos_frames`: `CounterMod = 3` and `MaxConfig = 2`, so that counters reach the
  largest value and would wrap; one and two pixels, lines and blanks, and the
  optional blanks of zero; `PixMod = 2`, smaller than a frame, so that data wraps.
- `top_restart` uses a VIEW without `out`, the history of transfers: no action
  and none of its properties reads it.

### Fairness

`FetchPath`: the clock runs, a burst that stays requested is granted, an
outstanding word is delivered, and the LCD controller pops a FIFO that is not
empty. `Top` needs no fairness of the last kind, since the LCD controller is
there; it has weak fairness of the processor, of the grant and of the delivery.
Each names a part that does not depend on the others: a processor that executes,
an interconnect that arbitrates, a memory that answers.

`I2cMaster`: the clock runs and the host makes its accesses (`WF` of a tick in
which the host does not idle). The target needs none: it only samples the lines.
`CmosFrames`: the clock runs.

## 4. Proofs

Proved for every `WordMod` (a multiple of 4), `N`, FIFO size and set of images,
under the named assumptions of the modules (`WordAssumption`, `BurstAssumption`,
`FifoAssumption`, `RoomAssumption`: `almost_full_value + N <= lpm_numwords`,
`ImagesAssumption`: no empty image):

- `FetchTypeCorrect` and `BurstsAlwaysFit`: for any images, aligned or not.
  Neither is inductive. That the burst counter stays below `N + 1` follows from
  `m_left = N + 1 - current_burst` in WaitData, and the room for a burst is
  known when it is requested, so `IInv` adds `BurstInv` (the state against the
  words outstanding; outside WaitData at most one, the late word of an unaligned
  burst) and `RoomInv` (in Request, room for `N` more). The late word is why the
  exact fit is enough: almost_full is low at 495 words at most, one late word
  makes 496, and 16 more make 512.
- `EveryWordCounted`: if all images are 4-byte aligned and bursts are whole
  beats. `BeatInv` says that the next word's address plus the bytes outstanding
  is a multiple of 4 while a burst is outstanding; so when one word is left it is
  the second half of a beat, which cannot be late.
- `FetchImplementsService`: if, besides, images are whole bursts. `LengthInv`
  writes the bytes left as those of the outstanding words plus whole bursts, so
  the counter reaches 0 at the end of a burst and never wraps; `FlagInv` ties
  `lcd_enable` and its strobe to the state. Every edge is then a step of
  `FetchService` or a stuttering one.

Two hypotheses are parts of theorems rather than assumptions of the modules,
`ImagesAligned` and `ImagesWhole`: `fetch_unaligned` and `fetch_partial_burst`
show that they are needed.

For `Top`, for every program that `ProgramAssumption` calls one (its commands fit
the register file), every size, and any number of restarts and presses of KEY0:

- `TopTypeCorrect` follows from the inductive `TopInv`: the types; `ResetWins`, that
  the controller is in Reset while the reset flag is up; `CpuInv`, that whatever stands on the bus is an access
  that some call makes; `OwedInv`, that while a burst is awaited `read` is down and
  the memory owes no more than the DMA controller still counts, which keeps the
  burst counter in its range; and `RoomInv`.
- `BurstsFitUntilKey0`: `keys = 0 => RoomForBurst`, however often the processor
  restarts. `RoomInv` (`read` is up in Request only, at most one word is late, a
  requested burst has its room) holds only until KEY0, whose surviving `read` lets a
  burst in that nobody asked for. That one press, without a restart, leaves room all
  the same is model-checked only (`RoomAfterFault`); with a second fault it is false,
  as said under the bounds.
- `PhasesLast`: `PhaseInv` ties `held`, the display's count of cycles, to `cc4` and
  the state: `WRX` has had its level for at least `cc4` cycles, or, in the first
  cycle of a state that will change it, for the full five. The reset flag may cut
  a state short and leave its `cc4` behind, but then Reset has held `WRX` low for
  long enough: this needs `RESX_End >= 3`, which the code's 6550000 is.
- `NoPopInVain`: `NoUnderflow` until a restart or KEY0, if `ResetsFirst`: only the
  first call may be `reset_lcd`, as in `main()`. `PopInv` says that the word seen in
  the FIFO on the way into PutPixel is still there at `cc4 = 3`, the one cycle of
  `rdreq`. It survives only because nothing cuts PutPixel short, a reset with `rdreq`
  up would drain the FIFO; so `ResetInv` follows the three accesses of `reset_lcd`
  and shows that when its poll ends the flag is down, and that no later access can
  raise it.

- `TransfersAreClean`: `TransferIsClean` with any number of restarts and presses
  of KEY0, if `FirstIsReset`: the program begins with `reset_lcd`, as `main()` does.
  The display comes out of power-up in reset, so a program that begins with a
  command sends it to nobody. `CleanInv` says when the display can be in reset
  with the controller elsewhere: only in the first two accesses of the first call,
  where before KEY0 no flag is up and the controller is idle, and only after KEY0,
  whose surviving flags the restarted program has not yet taken back, may it send.

Two theorems hold under `ResetsFirst /\ NoFaults`, the second being
`MaxRestarts = 0 /\ MaxKeys = 0`. Both hypotheses describe `main()` running once:
a second `reset_lcd` while the LCD controller is busy cuts short a state with a
strobe low or a word on its way, and a restarted processor does not know what it
asked for before.

- `RequestsAreSeen` (`NoLostRequest`) and `CommandIsStable` (`StableWhileSending`).
  Nothing in the register file prevents a strobe from meeting the next request: it
  is the time the processor takes that does. `ProtocolInv` says who may have raised
  a flag: the access that polls for it, which cannot have read it as down, so at
  most one flag is up and none when a flags word is read to be or'ed. `EnableInv`
  does it for the DMA controller's strobe, which falls and rises within the poll.
  The LCD controller's strobe stays low for six cycles, longer than the poll may
  take, so `SendInv` counts: at which cycle after the strobe's fall the processor
  can be how far in its next call. The write that could be lost comes after two
  other accesses of its call, or after a read, which takes two cycles (`InOrder`, a
  lemma about every call), and by then the strobe is up again. The same count shows that the registers
  of a command are rewritten only after it.

For `I2cMaster`, every byte width and every set of divisors:

- `I2cTypeCorrect`: every register, the bit counter and the divider among them,
  stays in its range, and `wire` is a sequence of symbols.
- `NoFalseDone`. The end of a command takes five cycles, named `Running`,
  `Finished`, `Acked`, `Trailing`, `AtRest` by what core and interface show; `EndInv`
  lists which phase of the host, and which access on the bus, can meet which. Its
  content is that a host which has seen TIP low or the interrupt has used up the
  cycles in which `cmd_done` is still up.
- `WireOfCommands`: the master implements `I2cService` under `open <- phase =
  "waiting"`, so the end of a command is checked at the edge at which the host
  learns of it (`LearnsAtTheEnd`), not at its read of DR. What makes it hard is that no state of the core shows what is on the
  lines: a level goes through an output register, comes back through an input
  register, and the target answers one cycle after a falling SCL. `LineInv` says for
  every part of a command and every part of a bit which of the old levels can
  still be on their way: `SclInv` for SCL (the divider never gives two pulses in a
  row, so a level that a pulse lets in arrives before the next pulse), `SdaInv` for
  SDA, the target's direction and its bit count, `AskedInv` for what the core
  knows of the command. `WireInv` then says that `Sent`, a function of the state and
  the lines, is the number of symbols on the wire and that each `Fits` the command;
  every edge adds the next symbol or none (`LineSteps`, `WireSteps`), and a prefix
  of fitting symbols can be completed to one of the service's wires (`Completes`).
- `HostReadsWire` (`ResultsMatchWire`): `ResultInv` follows a received bit. From the
  cycle in which the core samples it until SCL has fallen it is the level of SDA
  (`ReadInv`, `AckInv`), and then the symbol that the fall of SCL put on the wire;
  `OutInv` and `FetchInv` bring it through the core's and the interface's output
  registers to the host.
  The restriction to a polled LAR is the property's: a host that waits for the
  interrupt has not read the status register.

For `CmosFrames`, every width, pixel depth and bound on the configuration:

- `CmosTypeCorrect`, `CountersNeverPass` from `CmosInv`, which adds `HostInv`: the
  cycle of a command pulse is the one that the host leaves free, so the
  configuration does not change under a generator that starts.
- `CmosImplementsFrames`: `ShowsSchedule` says that in every state the port shows
  what the place in the frame stands for; `NextCycle` that every edge moves the
  place on by one, returns it to 0 at the end of the schedule, or stops.

- `StatusIsOfLastCommand`: `CommandInv` says that the last command is still being
  written, is this cycle's pulse, or has been obeyed by the generator's state, with
  the commands that the state machine drops counted as obeyed already.

`DataBits` and `Divisors` are bound only by the modules' assumptions (at least one
bit; positive divisors): the inductive invariants were also checked by TLC with
three bits before they were proved.

Only model-checked: `DisplayService`, since the stream of transfers that
`LcdService` promises is the concatenation of a program's calls, which only an
induction over the program could reason about; `RoomAfterFault` and `ImageIsWhole`,
which are about a single fault; and all liveness (`ImageFetched`,
`MainReturns`, `AllDisplayed`, `CommandsEnd`, `FramesRepeat`): the proof system does
not reason about fairness or ENABLED. Every other property of the passing runs is
a theorem; those of `Top` that a run checks after restarts or KEY0 and a theorem only
without are named above.

## 5. Not modelled, and what could follow

- The FPGA top level (wires), `printf`, the contents of `init_image`, the HAL.
- The camera demo: its LCD calls are those of `main()`; before them it drives a
  camera controller whose source is not in the repository, so there is nothing
  to translate.
- The drafts `sw15` to `sw19` of the driver, superseded by `hello_world.c`.
- Generated and vendor code, which is nearly all of the repository by lines: the
  Quartus databases, the HPS handoff (the DDR calibration sequencer and the
  preloader's tables are most of it) and the Nios II HAL. It is not this
  project's code, and it bears on the accelerator only through the memory path,
  which is modelled as an external component.
- The cycle of latency of the vendor FIFO's `empty`; reads of registers other than
  the flags (the program only prints them).
- An image of length 0 (`ImagesAssumption`): the DMA controller ignores the start
  and never clears the flag.
- I2C: a divisor of 0, a reset in the middle of a transfer (the core does nothing
  to free the bus), clock stretching (wired off in `i2c_clkgen.vhd:62-63`), other
  masters (SCL is driven both ways, `i2c_interface.vhd:183`).
- Sensor stand-in: values below the minima, which it does not reject.

What could follow: `DisplayService` as a theorem, for which its stream would have to
be stated call by call, and `BytesLeft` related to the FIFO, the words outstanding
and `CurrentLen`; `NoLostRequest` after a restart, from the return of the restarted
program's first call on; `RoomAfterFault` and `ImageIsWhole` as theorems.

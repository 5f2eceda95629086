# A verification development for SparseMatrixAcclerator

The repository holds an accelerator for delta-PageRank on a memory with many
channels, twice: as a cycle-accurate simulator in C++ (`src/simulator`) and as
RTL in Verilog (`src/acc`). This directory holds TLA+ models of all stages of the
simulator and of one stage of the RTL, the TLC runs that check them on small
instances, and proofs of what matters most for all instances.

| file | what it is |
| --- | --- |
| `VertexRam.tla` | the back end of one core: stages 9, 10 and 11, the delta and rank memories, and the rest of the machine as this core sees it |
| `VertexStore.tla` | what stage 10 promises: updates applied one at a time, in order, in their iteration |
| `VertexRamProof.tla` | theorems about `VertexRam` for all values of its constants |
| `MCVertexRam.tla`, `VertexRamData.cfg`, `VertexRamLoad.cfg` | small instances of `VertexRam` |
| `HyperX.tla` | stage 8, the network of two crossbars between the schedulers and the cores |
| `Channels.tla` | what the network promises: a FIFO channel between every two nodes |
| `HyperXProof.tla` | theorems about `HyperX` for all values of its constants |
| `MCHyperX.tla`, `HyperXRoute.cfg`, `HyperXLoad.cfg` | small instances of `HyperX` |
| `EdgeFetch.tla` | the front end of one memory channel: stages 2 to 7, the offset memory and the source reads |
| `EdgeFetchProof.tla`, `EdgeOnceProof.tla` | theorems about `EdgeFetch` for all values of its constants: its queues, the streams through them, every edge once |
| `MCEdgeFetch.tla`, `EdgeFetch.cfg`, `EdgeFetchEnd.cfg` | small instances of `EdgeFetch` |
| `ActiveVertex.tla` | stage 1 of all cores: the bitmaps, the barrier between iterations, the end of the program |
| `ActiveSet.tla` | what stage 1 promises: two sets of vertices for every core, to send and marked |
| `ActiveVertexProof.tla` | theorems about `ActiveVertex` for all values of its constants |
| `MCActiveVertex.tla`, `ActiveVertex.cfg` | a small instance of `ActiveVertex` |
| `HbmInterface.tla` | stage 6 and its controller with the reorder ring, in front of a DRAM that answers in any order |
| `OrderedMemory.tla` | what stages 5 and 7 expect of it: lines in the order of the requests |
| `HbmInterfaceProof.tla` | the theorem that `HbmInterface` implements `OrderedMemory`, for all values of its constants |
| `MCHbmInterface.tla`, `HbmInterface.cfg`, `HbmInterfaceDrain.cfg` | small instances of `HbmInterface` |
| `RtlActiveVertex.tla` | stage 1 of one core in the RTL, and the way of the end through the other stages |
| `RtlActiveVertexProof.tla` | theorems about `RtlActiveVertex` for all values of its constants |
| `MCRtlActiveVertex.tla`, `RtlActiveVertex.cfg`, `RtlIterationWidth.cfg`, `RtlClearWidth.cfg` | instances of `RtlActiveVertex` |
| `Arithmetic.tla` | lemmas on quotients and remainders the proofs share |
| `PROJECT.json` | components, runs, mutants, the map from definitions to source lines, hazards, theorems |

## 1. The system

### How it runs

Every stage is a C++ function called once per tick (`top.cpp` 37-57). It reads
registers (`P1` ... `P11`, `MEM`) that its neighbours wrote in the tick before
and writes registers of its own; `pipe_manager::run` (`framework.h` 104-108)
copies all of them at the end of the tick. Queues and counters are `static`
variables of a stage and no other stage sees them. So the order in which the
functions are called within a tick does not matter, and a tick is one atomic
action: in the models `Tick` is the conjunction of the stages, each of which
fixes the next value of its own variables.

A register carries data and a `DValid` flag; the models write `None` for a
register whose flag is 0.

The same holds for back pressure and for the end of an iteration: `Stage_Full`
and `Iteration_End` are levels that travel through registers, so they are seen
late. Nearly everything that is hard in this design comes from that.

### Components

| component | state | operations | what it talks to |
| --- | --- | --- | --- |
| stage 1 `RD_Active_Vertex` | two bitmaps (this iteration, next), line and index, `iteration_id`, `iteration_end`, `iteration_flag` | send the lowest active vertex; mark a vertex; open the next iteration on a rising edge of the global end | to 2; from 11 |
| stage 2 `RD_Active_Vertex_Offset` | queue of ids, `end_ct` | queue and forward, ask the offset memory and the delta memory (through 10) | to 4, 10, memory; from 1 |
| stage 3 `Offset_Uram` | offsets of every vertex | read | to 4 |
| stage 4 `RD_Active_Vertex_Edge` | queues of id, offsets and value; `now_loffset`; `end_ct` | join the three, cut the edge range of a vertex into cache lines and masks | to 5; from 2, 3, 10 |
| stage 5 `Combine_Edge_Rqst` | queues per core of a channel; `end_ct` | send the lowest line, give every lane the vertex that owns it | to 6, 7; from 4 |
| stage 6 `HBM_Interface` | request and answer queues, reorder ring | send, match answers of the DRAM by address, return lines in order | to 7; DRAMsim3 |
| stage 7 `Schedule` | queues of id/value and of edges; `end_ct` | join vertex and edge into an update | to 8; from 5, 6 |
| stage 8 `Hyperx_Network` | row, column and local buffer of every node, end flag | two crossbars, arbitration by clock | to 9; from 7 |
| stage 9 `Backend_Core` | none | a register; drops an end that comes with an update | to 10, 8; from 8 |
| stage 10 `Vertex_RAM_Controller` | queues of updates to read for and to write, queues of results, conflict window, `end_ct` | read, add and write back delta and rank; source reads; decide whether a vertex is active; end | memories, 4, 11; from 2, 9 |
| `DELTA1/2_BRAM`, `PR_URAM` | delta with iteration tag, rank | read and write in one tick, read first | 10 |
| stage 11 `Apply_Iteration_End` | none | conjunction of the ends of all cores | to 1; from 10 |

Outside the pipeline: loading and distributing the graph
(`Initialization.cpp`), the RTL of the same stages (`acc/top`), its AXI shell
(`acc/axi`) and host program, stand-alone networks (`modules`), earlier overall
simulators (`simulator_overall`) and file tools (`tools`). DRAMsim3 and
googletest are vendored, except `6_HBM_Interface.cpp`, which is stage 6.

### What is hard in it, and what makes each component correct

* Stage 10 keeps several read-modify-writes under way. It is correct if the
  memories end up as if every update had been applied in one step, in order.
  The delta memory is double buffered and never cleared; a tag tells old
  values from current ones, and a parity selects the bank.
* The end of an iteration is detected by looking for emptiness, stage by
  stage, while data is still on its way. It is correct if stage 1 sees the end
  only when every contribution is in the memories and every mark is in the
  bitmap.
* The network may not lose, duplicate, misroute or reorder (per source and
  destination), has to stay within its buffers and has to drain. Its nodes end
  one by one, some of them several times; only the conjunction of the ends of
  one tick means something.
* Stages 4 to 7 join streams by position. They are correct if every edge of
  every active vertex leads to exactly one update with the value of its source.
* Stage 1 has to open each iteration once, and has to send exactly the
  vertices that were marked.

`PROJECT.json` lists these hazards at the lines where they bite.

## 2. The models

### `VertexRam`

One core. `BackendCore`, `VertexRamController` (`SendReads`, `WriteBack`,
`SendOutputs`, `DetectEnd`), `DeltaBram`, `PrUram` and `ApplyIterationEnd` are
the functions of the same name; their variables keep the names of the queues
and registers. Two banks are one variable indexed by the parity, so that what
the code writes twice (once for each parity) is written once. The queue pairs
of addresses and values are one queue of records each; `active_addr_buffer` and
`active_delta_buffer`, which are always pushed and popped together, are one
queue, `active_pr_buffer` is another because it is pushed on another condition.

The rest of the machine is its environment:

* `HyperxNetwork` delivers any update to the core at any time unless
  `Dest_Core_Full` is up, and raises the end of this core's node. `EarlyEnd`
  lets that end come while other nodes still send, `LastEnd` is the point after
  which nothing can arrive, `StaleEnd` is the time in which the old end level
  has not fallen yet although stage 1 has opened the next iteration.
* `ReadActiveVertex` is stage 1 with its bitmaps as sets; stages 1 and 2
  together choose when a source vertex is read.
* `ApplyIterationEnd` may hold the global end back (other cores) but raises it
  only if the ends of all nodes were up together two registers ago (`settled`).

What is assumed of the environment is what `HyperX` shows of the network
(`EndExcludesUpdate`, `EndIsGlobal`, and that a full core stops the output),
what `EdgeFetch` shows of the front end (a scheduler does not end before every
active vertex has been read and its edges have left, `EndIsComplete` there,
`SourcesRead` here), what `ActiveVertex` shows of stage 1 (`InStep`: all cores
open an iteration in one tick), and one fact of timing that no model holds: after
that tick the ends of all stage 1 stay down for as many ticks as the bitmap has
lines, longer than it takes for the ends of stages 2 to 8 to fall.

Left out: rounding (ranks are integers; the comparison with `E2` keeps its
form), the hundred ticks of reset, and the register of stage 2 between
`iteration_id` and `Iteration_ID`. That register delays the parity by one tick
in which, by `EndLevels`, nothing is queued, read or written.

### `HyperX`

All nodes of a grid of any size. The wires between crossbars and nodes are
copies of fronts and fill levels after the previous tick, so they are read off
the buffers. A node pops and pushes in one tick in the order of the code, and
stores what arrives even when full. `DetectEnd` is the two-tick confirmation of
the end. `MaySend` and `HandOver` stand for stage 7; the number of updates a
scheduler sends is bounded by `MAX_SENT`. Any set of cores may raise
`Dest_Core_Full` in any tick.

An update carries three history fields, `to`, `from` and `nr`, that no
definition of the network looks at; the properties do.

Dropping the test of the column buffer from `Empty` is not caught by
`EndIsGlobal` on these instances: an update leaves a column buffer that is not
blocked within the two ticks of the confirmation. The test of the local buffer
is caught at once.

### `EdgeFetch`

The cores of one channel and what they share. `ReadOffset`, `ReadEdge`,
`CombineEdgeRqst` and `Schedule` are stages 2, 4, 5 and 7; their queues are
`q2`, `vId`/`offset`/`value`, `rqst` and `q7`/`edge7`. The four queues of stage
5, which are pushed and popped together, are one queue of records, and so are
the ids and values of stage 7. The queues of stage 4 are not: they are filled
from three places in three different ticks and joined by position. `Count` and
`Ended` are the end detection all four stages have in common; the conditions
are `Drained2`, `Drained4`, `Drained5` and `Drained7`.

The data is chosen so that a slip shows. The value of a source is the vertex
itself (in the code its delta), and `deg` is what stage 4 divides it by; the
payload of an edge is its address. The mask of a request is a set of lanes.
A start of a line and its continuation, two branches of the code with the same
text, are told apart by `Start`. `INFINITE_OFFSET` is any number past the last
line. As in the code, a request carries the id of its vertex and a lane nobody
asked for the id -1 (`Idle`).

Environment: stage 1 sends each core's active vertices in ascending order with
any gaps while stage 2 is not full, and opens the next iteration when all
schedulers have ended and the end before has fallen; the network may block any
lane in any tick. The memory controller accepts and answers a line in order
after any time, which is what `HbmInterface` implements (`OrderedMemory`). This
version calls `HBM_Controller_IP_Ideal`, which is the fastest case; the channel
of answers in stage 6 is part of `memory`.

`VertexRam` reads a source at any time; here its read takes the three ticks it
takes there (`ReadMemories`).

### `ActiveVertex`

All cores at once, because what can go wrong is between them: each decides for
itself when the next iteration begins. `SendVertex`, `ManageIteration`,
`ManageStop`, `ReadLine` and `UpdateBitmap` are the five parts of the function.
The tree of wires that finds the lowest bit is `ActiveIndex`; the static arrays
are functions of the core. `active_vertex_num`, which all cores count up and
down and core 0 resets, is one step of all marks of the tick, in the order of
the calls. `ManageStop` shows what the order of the calls makes of
`iteration_end_flag`: every core computes it again, so that what core 0 has set
survives only if there is no other core, and the program always runs
`MAX_ITERATION` iterations (`Stops`).

Environment: marks are of vertices an edge leads to, at most one for a core and
tick, of updates of this iteration and before its end; the global end rises when
all cores have ended and falls some time later; stage 2 of any core is full at
any time it matters.

`ActiveSet` is the view from outside: a core sends one vertex of a set at a
time, marks go to a second set, and at the end of an iteration the second
becomes the first when the first is empty. The refinement mapping reads the
sets off the line that is sent, the lines behind it, and the other bitmap. Both
bitmaps begin full, so the first two iterations send vertices that were not
marked; the model says so in `Init`.

### `HbmInterface`

`SendRqst` and `RecvEdge` are the two functions of stage 6, `SendHalf` and
`DeliverLine` the parts of `HBM_Controller_IP`, `Counted` its callback. The two
halves of a line are pushed together, so that their queue is kept as lines and a
flag; the ring is kept as the sequence from `rd` to `wr`. The arithmetic of the
addresses is that of the code (`DramAddr`, `OriAddr`), with lines in different
pages.

`Dram` is the read path of `controller.cc`: a bounded read queue, one entry for
all pending reads of an address, reads issued in any order and answered in the
order of their issue, all reads of an address together. Which reads are
scheduled and issued in a tick is free, so that any timing is covered. Writes,
refresh and power are left out: the accelerator reads edges only.

When a line is requested twice, an answer for a first half may be counted as the
second half of the other request, so that a line is delivered before its own
half has come. The line is read from `Edge_MEM` and not from the answer, and the
counts match (`AnswersMatch`), so that this version delivers the right lines in
the right order; in hardware, where the data comes with the answer, it would
have to be a burst.

### `RtlActiveVertex`

Stage 1 in Verilog is not the C++ function: lines come from block RAM through a
FIFO, a bit is cleared in the block RAM when it is found instead of a line when
it is done, and the global end is recognised by the id that comes with it.
`PrefetchLine`, `ReadBlockRam`, `ReadLine`, `UpdateBitmap`, `ManageIteration`
and `SendVertex` are its `always` blocks and IP instances. `prog_full`, the size
of the FIFO and the contents of the block RAM after configuration are those of
the IP's `.xci` files; `prog_full` follows the fill level without any latency of
its own. `PassEnd` is what stages 2 to 11 do with the id (a register)
and the end (a register, some ticks late); the other cores appear as a longer
wait in stages 5 and 11. It implements `ActiveSet` too, with one core.

## 3. The runs

| run | instance | shows |
| --- | --- | --- |
| `vertex_ram_data` | two vertices, values 1 and 3, two updates per iteration, three iterations, window 2, full at 1 | `TypeOK`; the error exits are not reached (`NoErrorExit`); the memories and the bitmap are complete when an iteration ends (`EndIsComplete`); sources read the deltas of the last iteration, from a bank nobody writes (`SourceIsFresh`, `SourceBankStable`); the pipeline implements the store (`StoreRefinement`) |
| `vertex_ram_load` | two vertices, six updates, one iteration, window 5, full at 1 | the bound of the queue (`BoundedOvershoot`), `NoHazard` for a deep window, the inductive invariant (`PipelineInv`), and that the end follows (`EndFollows`) |
| `hyperx_route` | 2 x 2 nodes, three senders, one update each to any of three vertices, buffers of one | `TypeOK`, `NoMisroute`, `EndExcludesUpdate`, `EndIsGlobal`, and the channels (`ChannelRefinement`) |
| `hyperx_load` | two senders in one column, four updates each to one core, buffers of one | `BoundedBuffers`, `ChannelRefinement` under contention, `EndReached` |
| `edge_fetch` | lines of two, four vertices with degrees 1, 2, 0, 1, every set of active vertices, queues full at 1 | `TypeOK`; an update is an edge of an active vertex with its value and degree, on its lane (`UpdateIsEdge`), and leaves once (`NoEdgeTwice`); no lane of a line is claimed twice (`LanesDisjoint`); requests, lines and waiting vertices match one to one (`OneLinePerJob`); how far queues overshoot (`BoundedQueues`) |
| `edge_fetch_end` | lines of two, degrees 1, 2, 0, two iterations, `WAIT_END_DELAY` 0 | every edge has left when a scheduler ends, and the old end has fallen when the next iteration's first update leaves (`EndIsComplete`); every scheduler ends (`EndReached`) |
| `active_vertex` | two cores, two lines of two, five vertices of which three can be marked, three iterations | `TypeOK`; the counter is the number of marked bits (`CountIsMarks`); the cores go through the iterations together (`InStep`); the bitmaps are two sets (`ImplementsActiveSet`); the program stops after `MAX_ITERATION` iterations (`Stops`) |
| `hbm_interface` | lines 15 and 16 in different pages, ring of three, queues full at one, DRAM queue of two | `TypeOK` with the bounds of the queues; every answer has a place (`AnswersMatch`); lines come in order, once (`ImplementsOrderedMemory`) |
| `hbm_interface_drain` | one line requested any number of times, DRAM queue of one | every line is delivered (`Delivered`) |
| `rtl_active_vertex` | six lines of two, eleven vertices of which four can be marked, FIFO of four, three stages behind, four iterations | `TypeOK` with room in the FIFO; `InStep`; `ImplementsActiveSet`; all iterations are run (`Terminates`) |
| `rtl_iteration_width` | one line, the widths of `accelerator.vh`, sixteen iterations | a violation of `Terminates`, see below |
| `rtl_clear_width` | 66 lines, the widths of `accelerator.vh` | a violation of `SentIsClear`, see below |

Findings, both in the RTL:

* `accelerator.vh` 43 allows 31 iterations (`注意最高只能支持31轮迭代`). The id of
  the iteration has `ITERATION_WIDTH` = 4 bits and is compared with all 32 bits of
  `iteration_num` (`M01_rd_active_vertex.v` 118): from sixteen on
  `iteration_done` is never true and the host waits for ever. The host passes 10
  (`host.cpp` 371) and `accelerator.vh` 73 defines `MAX_ITERATION_NUM` as 14, so
  only the 31 iterations of the comment are out of reach; that parameter does not
  limit what the host may ask for.
* The address of the bit to clear (`M01_rd_active_vertex.v` 133 and 145) is an
  expression inside a concatenation, so that it is computed with the eleven bits
  of `local_vis_bitmap_index`. Lines from the 64th on are not cleared, lines
  below 64 are cleared in their place: harmless in the iteration in which it
  happens, since those have been read, but two iterations later the vertices of
  line 64 are sent again though nothing marked them. `rtl_active_vertex` shows
  that the stage is correct while all lines fit the address.

One thing to know is no finding, since no comment, document or test speaks of it:
with more than one core the simulator never stops early. Core 0 sets
`iteration_end_flag` when no vertex is active (`1_RD_Active_Vertex.cpp` 166), and
the next core's call overwrites it in the same tick (line 89). `Stops` records what
the code does: it ends after exactly `MAX_ITERATION` iterations.

Why these bounds are enough to be interesting:

* The window has to be at least two (two reads are under way before the first
  write is sent); at two every pair of updates is either inside or just outside
  it, and five leaves room for a conflict to block a queue that fills up. The
  code has 14.
* `WAIT_END_DELAY` is 1; with 0 `EndIsComplete` is violated, so the runs check
  the smallest value that works. The code has 20.
* Three iterations are the least in which a tag of two iterations ago is met.
* `FULL_SIZE` 1 makes the queue full with the first update; `FULL_SIZE + 3` is
  reached, so the bound is tight. The code has 32.
* Buffers of one make every buffer of the network full; two rows and two
  columns make both crossbars arbitrate. Vertices 1, 6 and 7 have row and
  column digits that cannot be confused with each other; 6 and 7 are above
  `CORE_NUM`.

* In `ActiveVertex` the last line holds a vertex, a bit without a vertex and,
  for one core, nothing else; three iterations meet both bitmaps again after
  they were sent.
* With a ring of three there is room for two lines, so that the third waits, and
  with it the second half of the second line. A DRAM queue of two refuses halves.
* In `RtlActiveVertex` the number of a line has one more bit than needed, as in
  the code; a FIFO of four that says full at one leaves exactly the room for the
  three lines under way.
* In `EdgeFetch` vertex 1 begins in the middle of a line and ends in the next;
  vertex 2 has no edges and stands behind vertex 0 in the queue of core 0. One
  line is shared by two cores (vertices 0 and 1), the other by two vertices of
  one core (1 and 3), which fetch it twice. Lines of two are the shortest that
  have a boundary inside; queues of one are full with every entry.

Every property has a mutant in `PROJECT.json`: a fault written next to the
definition it replaces, under which the property fails in the same run.

`CHECK_DEADLOCK` is left on but in `active_vertex`: the clock can always tick, but
the simulator leaves its loop when `iteration_end_flag` is set (`top.cpp` 48).

### Fairness

`FairSpec` of `VertexRam` is weak fairness of `Tick`: the loop of `top` runs.
It says nothing about when the network signals the end; `EndFollows` speaks of
what happens afterwards.

`FairSpec` of `HyperX` asks that no core stays full for ever (stage 10 writes
back everything it receives, see `EndFollows`) and that every scheduler ends.
It does not ask that any particular input of a crossbar is served: that follows
from the rotation of the priorities once traffic is finite. Under endless
traffic it does not follow, because the rotation is by the clock and a stream
may have the same rhythm; no property claims it.

`FairSpec` of `EdgeFetch` is weak fairness of `Next` and what the environment
does again and again, stated of the state: the memory takes a waiting request
and answers one it holds, no row buffer of the network stays full (`HyperX`,
`EndReached`), and stage 1 sends what it holds unless stage 2 is full. The order
in which they happen is free, so that fullness of the memory interface and of
the schedulers may alternate in any way.

`FairSpec` of `ActiveVertex` is weak fairness of a tick in which no mark arrives
(an edge leads to one update in an iteration, so marks do not arrive for ever),
stage 2 of no core full for ever, and the global end following the ends of all
cores up and down. That of `HbmInterface` asks that the DRAM schedules, issues
and answers what it has accepted, that of `RtlActiveVertex` that every stage
behind drains when its turn has come.

## 4. The proofs

`VertexRamProof` proves for any set of vertices, any set of values, any limits,
any window of at least two and any number of iterations:

* `TypeCorrect`: `TypeOK`.
* `PipelineCorrect`: `PipelineInv`, the inductive invariant. Its parts are
  * `Alignment`: the queue of updates to be written is the update whose answer
    has come, the update being read, and the queue of those to be read for, in
    this order; the first two entries of the conflict window are the two under
    way; the banks are read and written as the parity says.
  * `Distinct`: the updates being read, answered and written are of different
    vertices. This is where the window is needed, and why two entries suffice
    in the simulator, whose addition takes no time.
  * `Currency`: what a memory has answered is still what it holds. It follows
    from `Distinct`, since a write in between would be to the same vertex.
  * `EndLevels`: how the end level and its fall travel through stages 9 to 11.
    It is needed because the parity may change only when nothing is under way.
  * `Room`: what is queued, and what will be queued whatever `Stage_Full` says.
* `NoErrorExitHolds`, `NoHazardHolds`, `BoundedOvershootHolds`,
  `SourceBankStableHolds`: consequences of the invariant.
* `StoreRefinementHolds`: every behaviour of `VertexRam` is one of
  `VertexStore` under the mapping that counts the write on its way as landed.
  The write-back of an update is the step in which the store applies it.
* `EndIsCompleteHolds` and `SourceIsFreshHolds`, from a second inductive
  invariant, `EndInv /\ Fresh`. `LedgerInv` is its core: the memories reflect an
  account which the updates on their way, credited one by one (`Leads`), complete
  to the ledger, so that a write-back moves one update from the queue into the
  account and an empty queue makes the account the ledger. The marks are counted
  as if every verdict on its way had arrived (`FinalMarks`); `ActiveQueue` and
  `QuietOutputs` say where a verdict can be, and that none is under way while the
  end is up. The latter needs `WAIT_END_DELAY > 0`, the hypothesis of both
  theorems: with 0 the edge overtakes the last verdict.

The assumptions are the named ones of `VertexRam`: sizes are natural numbers,
`FULL_SIZE` is positive, the window is at least two, values are integers, and
`None` is none of the payloads.

`HyperXProof` proves for a grid of any size, buffers of any depth, any set of
vertices and any number of updates:

* `NetworkCorrect`: `NetworkInv`, the inductive invariant. Its parts are
  `TypeOK`; `Routing`, which says for every buffer what may be in it; `EndLevels`
  (a scheduler that has ended hands over nothing, and a node has seen the end
  only of such a one); and the three properties below themselves.
* `NoMisrouteHolds`, from `Routing`. The lemma behind it, `OwnerDigits`, is
  arithmetic: the row comes from the id modulo `CORE_NUM`, the column from the
  id modulo `HPX_COLUMN_NUM`, and they are the digits of the same number.
* `BoundedBuffersHolds`, from the grant only to outputs that are not full.
  `FirstIsInput` shows that the rotating priority always finds an input.
* `EndExcludesUpdateHolds` and `EndIsGlobalHolds`. If all nodes signal their end
  in a tick, all buffers were empty in the tick before, and by `EndLevels`
  nothing was about to enter one.
* `ChannelRefinementHolds`: the network implements the FIFO channels of
  `Channels`. `ChannelInv` adds `Origins` to the invariant: an update in a row
  buffer entered at that node, one in a column buffer in that column, so what a
  buffer holds tells by which input it came. `RowHop` and `ColumnHop` follow: what
  a crossbar gives a node comes from `s` exactly if it is taken from the front of
  the one buffer of the path of `s`. A tick therefore moves, seen from `s` and `d`,
  the front of each buffer of the path to the end of the next one (`StreamStep`),
  and joining the buffers leaves only the two ends changed (`OneQueue`). The
  lemmas `BetweenJoin`, `BetweenPush` and `BetweenPop` say what the updates from
  `s` to `d` in a queue are when queues are joined, extended and shortened;
  `Between` picks the k-th by counting, since of the recursive `SelectSeq` nothing
  can be proved.

The assumptions are those named in `HyperX`: dimensions and depth are positive,
the clock is kept modulo a multiple of both dimensions, vertices are natural
numbers, senders are nodes, and `None` is no update, row or column.

Three modules prove all safety properties of `EdgeFetch`, for any number of
cores and vertices, any degrees (zero included), limits, delays and iterations:

* `EdgeFetchProof`: `QueueInv`, inductive, which is `TypeOK`, `Lengths` (the
  queues filled in the wake of others have their lengths, and every queue leaves
  room for what is on its way to it) and `FullFlags`. `TypeCorrect`,
  `OneLinePerJobHolds` and `BoundedQueuesHolds` follow. `LOffset` is a recursive
  function; that it exists and ascends is proved by least counterexample
  (`LeastExists`), since the library's induction theorems cannot be used. The
  second half of the module is about streams: `Moved(s, n, x)` is a stream that
  loses its front if `n` is 1 and gets `x` behind it, and registers and queues in
  a row are one stream (`StreamsInRow`). With it `Answers`, inductive: the offsets and
  values stage 4 joins by position are those of its ids.
* `EdgeOnceProof`, first part: `Ends` says what the end levels mean: an end that is up says
  that its stage and all before it are empty and done, except that after a
  restart the levels of the iteration before fall one stage in a tick (`Phase1`
  to `Phase5`). `VerticesOk` says that every vertex of a core is in its stream at
  most once, and never after it was asked for; `NowOk` where `now_loffset` may
  stand. From these, `ToAskStep`: the edges still to be asked for lose exactly
  those of the request that stage 4 sends, also when it goes to the next vertex,
  skips one without edges, or stands still.
* `EdgeOnceProof`, second part: an edge of an active vertex is in exactly one of four places:
  to be asked for, asked, fetched, sent (`OnePlace`, `SomePlace`, with
  `AskedOnce` and `FetchedOnce` for the queues). `EdgesGo` describes a tick as a
  movement between them. `RequestsOk` and `JobsOk` say that what travels with an
  edge is its own vertex. `EdgeInv`, all of these together, is inductive, and
  `UpdateIsEdgeHolds`, `LanesDisjointHolds`, `NoEdgeTwiceHolds` and
  `EndIsCompleteHolds` follow: the last because a scheduler that has ended leaves
  three of the four places empty.

The assumptions are `ChannelAssumption` (sizes are natural numbers, a line holds an
edge, a queue an entry) and `NoneAssumption`.

`ActiveVertexProof` proves for any number of cores, lines, bits, vertices and
iterations:

* `StageOneCorrect`: `Inv`, the inductive invariant, which is `TypeOK`,
  `Together` and `Clear`. `Together`: all cores have the same iteration, the same
  `iteration_flag` and stop, and `iteration_end` is set only behind the last
  line; it is what makes decisions of single cores one decision. `Clear`: the
  lines that have been sent are empty, and so is the one that no vertex has.
* `TypeCorrect`, `InStepHolds`: consequences.
* `StageOneRefines`: every behaviour is one of `ActiveSet`. A tick sends at most
  the lowest bit of a core, which leaves its set; a change of line or of bitmap
  leaves the sets as they are, and here `Clear` is needed.
* `CountIsMarksHolds`: the counter of active vertices is the number of set bits
  of the bitmap of the next iteration, over all cores. The bits of all cores are
  one finite set; a tick adds to it the vertices that were not in it and are
  reported as active, one for each core at most, and this is what the counter
  counts; at the change of bitmaps both begin anew.

`BitmapAssumption` (the graph fits the bitmaps) is what the code's
`BitMap_Compressed_NUM` has to satisfy. `Arithmetic` holds what the proofs need of
quotients, remainders and powers of two.

`RtlActiveVertexProof` proves for any widths, any graph that fits the block RAMs, any
number of stages and any FIFO that leaves room for three lines:

* `ReadInv`, inductive, has four parts. `TypeOK`. `Counting`: as many lines have
  been requested as have been taken, are in the FIFO, in the registers of the
  block RAM or about to be read; from it follow the room in the FIFO and that no
  line beyond the last is taken. `Rest`: in the three states in which nothing is
  read (idle, before the first line, after the last) nothing is on its way.
  `Chain`: the first `k` stages have the number of this iteration, the others
  that of the one before; an end with this iteration's number is this core's own,
  although the numbers wrap round. `TypeCorrect` and `InStepHolds` follow.
* `SendInv` adds `Content` (the lines on their way are what the block RAM holds,
  though it is written to meanwhile) and `SentClear` (what has been sent is
  clear). Both hold only if the address of the clear reaches every vertex:
  `FitsIndex`, a hypothesis the code does not check. Under it `HardwareRefines`: the
  hardware implements `ActiveSet`, as the simulator's stage 1 does, and
  `SentIsClearHolds`. Without it the run `rtl_clear_width` shows the failure.

`NoneIsNew`, a hypothesis of these four theorems, says that the value that stands for
an invalid register is none of the payloads.

`HbmInterfaceProof` proves for any lines, any sizes of queues and ring, and
whatever the order of the answers:

* `ReorderingRefines`: `HbmInterface` implements `OrderedMemory`. The invariant,
  `LinesInv`, is small: types, and a first half has been sent only of a line that
  is in the queue. The argument is one of streams: the queue of stage 6, its
  register, the lines not yet in the ring, the ring, the register of the
  controller and the queue of received lines are a row in which each gives its
  front to the next (`QueueStep`, `SendHalfStep`, `DeliverStep`), and such a row is
  one queue (`AllInOne`). Counting answers changes no line of the ring
  (`CountedFacts`), so that a wrong count can delay a line but not reorder or
  lose it.
* `InterfaceCorrect`: `Inv`, inductive, from which `TypeCorrect` and
  `AnswersMatchHolds`. It is `TypeOK`; `StageBound` and `ControllerBound`, which say
  how far the two queues fill after their flag is up; `Requests`, the entries of
  the ring are for lines; and `AnswersMatch`. The argument is one of counting,
  for one line at a time: sending a half adds the same to both sides
  (`SendCount`, `RequestedCount`), a delivered line misses nothing (`KeptType`), an
  answer takes one from both (`MissingCounted`, `FilledFacts`), and issuing moves
  reads from one place to the other (`IssueAnswers`). The bounds of the DRAM follow
  from the balance: what it owes for a line is at most what the ring misses.

The proof corrected the model's own bound: that no address is read more often
than the ring has places is true of the small instance of the run, and false of
larger rings, since answers of first halves alone deliver lines whose second
halves still wait. `Reads`, twice the lines the ring holds, is what holds.

Only model-checked: liveness, which the prover does not handle. Every invariant,
action property and refinement of a passing run is also a theorem.

## 5. Not modelled

* The RTL of stages 2 to 11 but for the way of the end: the same algorithm as the
  simulator with other latencies (an adder of several ticks in stage 10, IP FIFOs
  with thresholds). What depends on these latencies would need a module for each
  stage; the tag of stage 10 has the width found too small in stage 1.
* The AXI shell (`acc/axi`), for the larger part generated from a vendor template,
  and the host program: set-up and one call.
* Loading and distribution of the graph beyond the initial values and offsets:
  sequential file input.
* Stand-alone networks (`modules`), which the accelerator does not instantiate,
  the overall simulators (performance models of other designs), the file tools.
* Vendored code: googletest, the headers of DRAMsim3 (JSON, Catch, fmt), and of
  DRAMsim3 itself all but the read path. Most lines of the repository are
  vendored, so that the share of all its lines that the models stand for is
  small; of the simulator's own pipeline (`simulator/src/core`, `noc`, `memory`)
  every stage is modelled.

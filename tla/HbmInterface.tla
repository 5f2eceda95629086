----------------------------- MODULE HbmInterface -----------------------------
(***************************************************************************)
(* Stage 6 of one memory channel and the controller behind it that talks   *)
(* to DRAMsim3 (6_HBM_Interface.cpp, HBM_Controller_IP).  A line is read   *)
(* in two halves.  The DRAM answers them in any order, naming an address   *)
(* only; a ring of the lines under way, in the order of the requests,      *)
(* counts the answers and puts the lines back in order.                    *)
(*                                                                         *)
(* One tick is one action.  The two halves of a line are pushed together,  *)
(* so their queue is kept as a queue of lines whose first one may have     *)
(* sent its first half.  The ring is kept as the sequence of its entries   *)
(* from rd to wr.  Of the DRAM the read path is modelled (controller.cc),  *)
(* its timing is left open.                                                *)
(***************************************************************************)
EXTENDS Integers, Sequences, FiniteSets

CONSTANTS
  Line,        \* the lines requested
  Channel,     \* the number of the channel
  RING,        \* places of the reorder ring (32)
  FIFO_SIZE,   \* fill level at which a queue is full (16)
  TRANS_QUEUE, \* capacity of the DRAM's read queue (HBM2_4Gb_x128.ini: 32)
  DRAM_TICKS,  \* DRAM ticks for a tick (4)
  None         \* the content of a register whose valid bit is 0

(* With two places the ring would hold one line, whose second half waits   *)
(* for a free place: the code has 32.                                      *)
ASSUME HbmAssumption ==
  /\ Line \subseteq Nat /\ Channel \in 0 .. 7 /\ None \notin Nat
  /\ RING \in Nat /\ RING >= 3 /\ FIFO_SIZE \in Nat \ {0}
  /\ TRANS_QUEUE \in Nat \ {0} /\ DRAM_TICKS \in Nat \ {0}

(* Addresses: a line has 2 * 64 bytes, and the channel is put between the  *)
(* 2048 bytes of a page and the number of the page.                        *)
HALF_BYTES == 64
PAGE == 2048
HalfAddr(line, half) == 2 * HALF_BYTES * line + HALF_BYTES * half
LineOfAddr(addr)     == addr \div (2 * HALF_BYTES)
IsFirstHalf(addr)    == addr % (2 * HALF_BYTES) = 0

DramAddr(channel, addr) == channel * PAGE + (addr % PAGE) + (addr \div PAGE) * (8 * PAGE)
ChannelOf(a)            == (a \div PAGE) % 8
OriAddr(a)              == (a % PAGE) + (a \div (8 * PAGE)) * PAGE

Address == {DramAddr(Channel, HalfAddr(l, h)) : l \in Line, h \in {0, 1}}

VARIABLES
  p5Line,       \* P5: Rd_HBM_Edge_Addr
  q6, p6Full, p6Line,   \* stage 6: edge_addr_buffer; P6: Stage_Full, Rd_HBM_Edge_Addr
  buffer,       \* transaction_addr_buffer: its lines
  halfSent,     \* the first half of the first of them has been sent
  ring,         \* rq_reorder_buffer from rd to wr
  read_queue,   \* DRAM: reads not scheduled
  pending,      \* DRAM: for every address, the reads not issued
  return_queue, \* DRAM: reads issued, in the order of their issue
  memEdge, memFull,     \* MEM: HBM_Controller_Edge, HBM_Controller_Full
  edge_buffer,  \* stage 6: lines received
  edges,        \* P6: Active_V_Edge
  answered      \* history: the DRAM has answered in this tick

stage6     == <<p5Line, q6, p6Full, p6Line, edge_buffer, edges>>
controller == <<buffer, halfSent, ring, memEdge, memFull>>
dram       == <<read_queue, pending, return_queue, answered>>
vars       == <<stage6, controller, dram>>

Entry == [addr : Nat, got : 0 .. 2]
Option(S) == S \union {None}

Push(q, x) == IF x = None THEN q ELSE Append(q, x)

Init ==
  /\ p5Line = None /\ q6 = <<>> /\ p6Full = FALSE /\ p6Line = None
  /\ buffer = <<>> /\ halfSent = FALSE /\ ring = <<>>
  /\ read_queue = {} /\ pending = [a \in Address |-> 0] /\ return_queue = <<>>
  /\ memEdge = None /\ memFull = FALSE /\ edge_buffer = <<>> /\ edges = None
  /\ answered = FALSE

-----------------------------------------------------------------------------
(* Stage 6: both of its queues look at their emptiness before they take    *)
(* what comes in.                                                          *)
(* Fault: the queue is full one line too late.                             *)
FullLate(q) == Len(q) > FIFO_SIZE

Full(q) == Len(q) >= FIFO_SIZE

SendRqst ==
  LET sends == ~memFull /\ q6 # <<>>
  IN /\ p6Line' = IF sends THEN Head(q6) ELSE None
     /\ q6' = Push(IF sends THEN Tail(q6) ELSE q6, p5Line)
     /\ p6Full' = Full(q6')

RecvEdge ==
  /\ edges' = IF edge_buffer = <<>> THEN None ELSE Head(edge_buffer)
  /\ edge_buffer' = Push(IF edge_buffer = <<>> THEN <<>> ELSE Tail(edge_buffer), memEdge)

-----------------------------------------------------------------------------
(* The controller sends the next half if the ring is not full, the second  *)
(* half of a line that has its place included, and if the DRAM takes it.   *)
(* A first half takes a place of the ring.                                 *)
Lines    == Push(buffer, p6Line)
NextHalf == HalfAddr(Head(Lines), IF halfSent THEN 1 ELSE 0)

(* Fault: one more place of the ring is kept free.                         *)
RingFullEarly == Len(ring) >= RING - 2

RingFull == Len(ring) >= RING - 1

Wants == Lines # <<>> /\ ~RingFull
Ok    == Cardinality(read_queue) < TRANS_QUEUE

(* Fault: the half counts as sent although the DRAM did not take it.       *)
SendsAnyway == Wants

Sends == Wants /\ Ok

Halves(lines, sent) == 2 * Len(lines) - (IF sent THEN 1 ELSE 0)

SendHalf ==
  /\ buffer' = IF Sends /\ halfSent THEN Tail(Lines) ELSE Lines
  /\ halfSent' = IF Sends THEN ~halfSent ELSE halfSent
  /\ memFull' = (Halves(buffer', halfSent') > FIFO_SIZE)

(* Fault: the second half takes a place of the ring too.                   *)
EnteredTwice == IF Sends THEN Append(ring, [addr |-> NextHalf, got |-> 0]) ELSE ring

Entered ==
  IF Sends /\ IsFirstHalf(NextHalf) THEN Append(ring, [addr |-> NextHalf, got |-> 0]) ELSE ring

(* The oldest line is delivered when both of its halves have come.         *)
Delivers == Entered # <<>> /\ Head(Entered).got = 2
Kept     == IF Delivers THEN Tail(Entered) ELSE Entered

(* dummy_call_back_0 gives an answer to the first entry of its line that   *)
(* misses one: the k-th answer for a line fills its k-th missing place.    *)
Missing(r, line) ==
  {p \in (DOMAIN r) \X {1, 2} : LineOfAddr(r[p[1]].addr) = line /\ p[2] > r[p[1]].got}

Before(p, q) == p[1] < q[1] \/ (p[1] = q[1] /\ p[2] < q[2])

(* Answers are read in groups of the same address, see below.              *)
AnswersFor(line, groups) ==
  {a \in UNION {{k} \X (1 .. groups[k].n) : k \in DOMAIN groups} :
     LET x == groups[a[1]].addr IN ChannelOf(x) = Channel /\ LineOfAddr(OriAddr(x)) = line}

Filled(r, line, groups) ==
  {p \in Missing(r, line) :
     Cardinality({q \in Missing(r, line) : Before(q, p)}) < Cardinality(AnswersFor(line, groups))}

Counted(r, groups) ==
  [i \in DOMAIN r |-> [r[i] EXCEPT !.got =
     @ + Cardinality({p \in Filled(r, LineOfAddr(r[i].addr), groups) : p[1] = i})]]

DeliverLine(groups) ==
  /\ memEdge' = IF Delivers THEN LineOfAddr(Head(Entered).addr) ELSE None
  /\ ring' = Counted(Kept, groups)

-----------------------------------------------------------------------------
(***************************************************************************)
(* The DRAM.  A read waits in the read queue until a bank takes it, unless *)
(* one of the same address is pending already; an issued read takes all    *)
(* pending ones of its address with it, as one group.  Some ticks later    *)
(* the groups are answered, in the order of their issue.                   *)
(***************************************************************************)
Accepted  == IF Wants /\ Ok THEN {DramAddr(Channel, NextHalf)} ELSE {}
Requested == [a \in Address |-> IF a \in Accepted THEN pending[a] + 1 ELSE pending[a]]
ReadQueue == read_queue \union {a \in Accepted : pending[a] = 0}

(* Up to DRAM_TICKS reads are scheduled, and issued, in a tick.            *)
Schedules == {s \in SUBSET ReadQueue : Cardinality(s) <= DRAM_TICKS}

Issues(scheduled) ==
  LET issuable == {a \in Address : Requested[a] > 0 /\ a \notin ReadQueue \ scheduled}
  IN {s \in UNION {[1 .. n -> issuable] : n \in 0 .. DRAM_TICKS} :
        \A i, j \in DOMAIN s : s[i] = s[j] => i = j}

Dram(scheduled, issued, done) ==
  /\ read_queue' = ReadQueue \ scheduled
  /\ pending' = [a \in Address |->
       IF \E i \in DOMAIN issued : issued[i] = a THEN 0 ELSE Requested[a]]
  /\ return_queue' = SubSeq(return_queue, done + 1, Len(return_queue))
       \o [i \in DOMAIN issued |-> [addr |-> issued[i], n |-> Requested[issued[i]]]]
  /\ answered' = (done > 0)

-----------------------------------------------------------------------------
(* Stage 5 requests a line when stage 6 is not full.                       *)
CombineEdgeRqst ==
  p5Line' \in (IF p6Full THEN {None} ELSE Option(Line))

Tick(scheduled, issued, done) ==
  /\ CombineEdgeRqst /\ SendRqst /\ RecvEdge
  /\ SendHalf /\ DeliverLine(SubSeq(return_queue, 1, done))
  /\ Dram(scheduled, issued, done)

Next ==
  \E scheduled \in Schedules : \E issued \in Issues(scheduled) :
    \E done \in 0 .. Len(return_queue) : Tick(scheduled, issued, done)

Spec == Init /\ [][Next]_vars

(* The clock runs, and the DRAM schedules, issues and answers what it has  *)
(* accepted.                                                               *)
FairSpec ==
  /\ Spec /\ WF_vars(Next)
  /\ \A a \in Address :
       []<>(a \notin read_queue) /\ []<>(pending[a] = 0 \/ a \in read_queue)
  /\ []<>(return_queue = <<>> \/ answered)

-----------------------------------------------------------------------------
(***************************************************************************)
(* Correctness.                                                            *)
(***************************************************************************)

(* An address may be read more often than the ring has places: answers of  *)
(* first halves alone deliver lines whose second halves still wait.        *)
Reads == 2 * (RING - 1)

(* Full is seen late: stage 6 takes one line more than its limit, and two  *)
(* lines more come to the controller after it has become full.             *)
TypeOK ==
  /\ {p5Line, p6Line, memEdge, edges} \subseteq Option(Line)
  /\ q6 \in Seq(Line) /\ buffer \in Seq(Line) /\ edge_buffer \in Seq(Line)
  /\ {p6Full, halfSent, memFull, answered} \subseteq BOOLEAN
  /\ ring \in Seq(Entry)
  /\ read_queue \subseteq Address /\ pending \in [Address -> 0 .. Reads]
  /\ return_queue \in Seq([addr : Address, n : 1 .. Reads])
  /\ Len(q6) <= FIFO_SIZE + 1 /\ Len(edge_buffer) <= 1 /\ Len(ring) < RING
  /\ 2 * Len(buffer) <= FIFO_SIZE + 5

(* Whatever the order of the answers, and also when a line is requested    *)
(* twice, there is a place of the ring for each of them: the halves that   *)
(* the entries of a line miss are those that the DRAM owes, and the second *)
(* half not yet sent.                                                      *)
ReadOf(line, half) == DramAddr(Channel, HalfAddr(line, half))
Owed(line) == pending[ReadOf(line, 0)] + pending[ReadOf(line, 1)]

AnswersMatch ==
  \A line \in Line :
    Cardinality(Missing(ring, line)) =
      Owed(line) + Cardinality(AnswersFor(line, return_queue))
        + (IF halfSent /\ Head(buffer) = line THEN 1 ELSE 0)

(* The DRAM answers in any order, stage 7 gets the lines in the order of   *)
(* the requests, each one once.                                            *)
Held(x) == IF x = None THEN <<>> ELSE <<x>>

UnderWay ==
  edge_buffer \o Held(memEdge) \o [i \in DOMAIN ring |-> LineOfAddr(ring[i].addr)]
    \o (IF halfSent THEN Tail(buffer) ELSE buffer) \o Held(p6Line) \o q6

Abstract == INSTANCE OrderedMemory WITH
  request <- p5Line, outstanding <- UnderWay, answer <- edges

ImplementsOrderedMemory == Abstract!Spec

(* Under fairness every line under way is delivered in the end: the second *)
(* half that waits for a place it does not need never waits for itself.    *)
Delivered == []<>(UnderWay = <<>> \/ edges # None)

=============================================================================

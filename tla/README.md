# Verification of cnSoftFinal

`cnSoftFinal` answers one question about a parts table and a table of orders
(TPC-H style): for the parts of a given brand and container, how much money was
made, per week, with the orders whose quantity is below 30 % of the average
quantity ordered of that part. The data is split over `n = 4` instances of one
program on one machine, connected in a ring by TCP. This directory holds TLA+
models of that program, TLC configurations and TLAPS proofs.

Line numbers refer to `src/`.

## 1. Inventory

### 1.1 The parts of the system

An instance `p` has three threads: the **main** thread (`main.cpp`), the
**interaction** thread that reads lines from the terminal (`main.cpp:75`) and
the **server** thread that reads messages (`cpp/server.cpp:12`). Its *client*
(`cpp/client.cpp`) is a connection to the server of instance `p - 1`, that of
instance 1 to the server of `n`; every server accepts one connection. Messages
therefore travel `n -> ... -> 2 -> 1 -> n`, and a link is a FIFO stream. Both
main and server thread write to the client, and the interaction thread does.
The threads share, without locks unless stated, the flags and maps of
`Calculator` and `dataReader` and one condition variable. The program holds the
mutex of that condition variable in the main thread only; nobody else takes it,
and no `cv.wait` has a predicate.

| component | state | operations | talks to | what is hard | what makes it correct |
|---|---|---|---|---|---|
| Barrier: `Calculator::doAsync`, `sendFinish`, `checkFinish`, the `finish` case of the server | `finish_index`, `is_finished`, `is_notify` (main), `has_notify` (server) | enter, send a token, wait, leave; drop, stamp and pass, or complete a token | all servers, by finish tokens; main and server thread share the maps | two threads per instance, lost and unexpected wake-ups, tokens of several barriers on one link | nobody leaves before all have arrived; a wake-up is for the current barrier; tokens die; it hangs only where a notification is lost |
| Final query: `FinalCompetitionCalculator`, `FinalCompetitionData`, `PartSaleData`; cases `partKey`, `finalPart`, `finalAns` | `partKeyMap`, `orders`, `partData`, `receivePartData`, `underSales` | preprocess, communicatePartSale, getLocalUnderSale, mergeQueryAns; three server cases | the streams it shares with the tokens; the barrier separates its phases | a barrier must also flush what travels several links, and what the other thread of the same instance forwards; the missing `break` of `finalPart` | what a phase reads is complete; sums agree everywhere; the answer is that of one instance; no message circulates for ever |
| Launch: `main.cpp`, cases `load` and `start`, `Utils::dealInputParm` | `load_flag`, `select_flag`, `select_idx`, target, `sendMessager` | connect, wait for load, load, wait for start; lines `load`, `select ...`, `q` | the ring under construction; three threads share the flags and the pointer to the client | one condition variable for three waits and a terminal, and no predicate; a flag that is set before what it announces; connections refused or not served; two threads that create the client of instance 1 | nobody calculates before a start has arrived; all calculate the same query; the ring is complete; a line has its effect unless a notification was missed |
| Client: `client` over asio | the buffer `msgToServer`; in asio, the scheduler's queue and count of work, the reactor's queue of the socket | `send` (three threads), `runIos`, `resetIos` | the kernel's socket buffers and epoll | one buffer for all outstanding asynchronous writes; the io service runs only inside `doAsync`; edge-triggered events that come once; a count of work changed by two threads | what is written is what was sent, in order; no write is forgotten; `runIos` returns, and only when the writes are done |
| Order routing calculator: `Calculator::doCalculate`, `solveOrder`; cases `order`, `totalData`, `underSale` | `TotalData`, `BrandData`, `PartData` | forward an order until its part is found; sum the totals; announce undersold parts | as above | an order nobody has the part of; totals read before they are complete | every order is counted once; every instance lists the same undersold parts |
| Part table calculator: `AdvancedCalculator`; cases `part`, `partData` | `dataReader::parts`, `partIdHash` | broadcast the parts, count orders, collect the data along the ring | as above | main iterates over a vector to which the server appends | the part tables agree; the data arrives at `select_idx` complete |
| Data reader: `dataReader` | `parts`, `orders`, `load_flag` | `loadParts`, `loadOrders`, `insertPart` | files | which line belongs to whom | the lines are a partition |
| Message format and codecs: `message`, `Utils` | none | 30 conversions | all of the above | fixed capacities, number widths, the `select` parser | decoding inverts encoding for what is sent |
| Query responder: `QueryResponser` | none of its own | prints finished statistics | terminal | sequential | - |

`main.cpp` instantiates `FinalCompetitionCalculator`. The order routing and the
part table calculators are earlier versions: no instance of them is created,
but the server still has the cases of their messages. `doCalculate` is not
virtual, so `calculator.doCalculate` in `main` is the one of the final query.

### 1.2 What is hard here

The list with lines is in `PROJECT.json`, `hazards`. The main ones: a
notification that finds nobody waiting is lost; a notification that was meant
for something else ends a wait; the barrier is the only thing that orders
messages and the reads they feed, and both threads of an instance feed one
stream; the fall-through adds part keys to the answer and is harmless only
because a later phase resets it; a message that its origin does not recognise
circulates for ever; the terminal, the server and main all act on flags that
another one changes.

## 2. Plan

Modules, in the order they are written. All exist.

1. `Barrier`: what the code expects of `doAsync`, a reusable barrier.
2. `RingBarrier`: `doAsync` and the `finish` case; implements `Barrier`.
3. `RingBarrierProofs`: type correctness, barrier safety, implementation; every
   token dies.
4. `FinalQuery`: the calculation, composed with the actions of `RingBarrier`;
   implements `RingBarrier` when the data messages are taken off the streams.
5. `Launch`: start-up and agreement on the query.
6. `OrderRouting`: `Calculator::doCalculate` with the cases `order`,
   `totalData`, `underSale`; composed with `RingBarrier` in the same way.
7. `PartTable`: `AdvancedCalculator` with the cases `part`, `partData`.
8. `Codec`, `DataReader` and `Transfer`: from the lines of the files, over the
   records, bodies and frames, to what the next server reads. `DataReader`
   extends `Codec`, `Transfer` extends `DataReader` and sends the records.
9. `AsyncSend`: the client over asio: the shared buffer, writes cut by a full
   socket, who runs the io service. What it promises, a FIFO stream, is what the
   other modules assume.
10. `AsyncSendProofs`: type correctness, that no event is lost, that the stream is
   FIFO, asio's count of work, and that `runIos` is a flush, for every size of the
   socket.
11. `LaunchProofs`: type correctness and the five safety properties of `Launch`.
12. `FinalQueryProofs` and `PartTableProofs`: a barrier is a flush, and with it
   that the matching parts, and the part tables, reach everybody; that
   `FinalQuery` without its data implements `RingBarrier`; and that the sums both
   exchange, and the answers they come to, are those of all orders.
13. `Totals`, `Turns` and `TotalsProofs`: the sum the references of the calculators
   are made of, the loop by which two of them pass something down the ring, and
   their laws.
14. `OrderRoutingProofs`: type correctness, that every order is counted once,
   before anybody adds up, and that all instances take the same average and list
   the same undersold parts.
15. `DataReaderProofs`: the instances have loaded each line of the files once.

Nothing that is planned is left. What no theorem states is listed at the end of
section 5.

## 3. The models

### 3.1 Barrier and RingBarrier

`Barrier` has two counters per instance, barriers entered and barriers left; the
guard of `Leave` is the promise: everybody has entered.

`RingBarrier` has one action per step of `doAsync` and of the `finish` case.

| code | model |
|---|---|
| `is_finished[finish_index] = 1` (`Calculator.cpp:196`) | `EnterBarrier` |
| `sendFinish()` (197) | `SendFinish` |
| `cv.wait(lck)` (198): from here on a notification is seen | `Wait` |
| `is_notify[finish_index++] = 1` (201) | `LeaveBarrier` |
| the tests of the case `finish`, with `continue` (`server.cpp:82-94`) | `DropToken` |
| forwarding an incomplete token (103-107) | `PassToken` |
| forwarding a complete one (90-97) | `CompleteToken` |
| `cv.notify_one(); has_notify[idx] = 1` (98-102) | `Notify` |
| a spurious wake-up, or `q` typed during the calculation (`main.cpp:112-123`) | `Disturb`, for the instances in `Disturbed` only |

`wire[p]` is the stream the server of `p` reads; a token carries its barrier and
one number per instance, the character of the source minus `'0'`. `notifying[p]`
separates the server's tests from its `notify_one`, so that the other threads
can run in between. `disturbed` and `lost` are histories. The reads of the
shared maps within one handler are one step: a main thread that is waiting does
not change them, and one that is not is what `Current` tests.

### 3.2 FinalQuery

The module instantiates `RingBarrier` with `N + 4` barriers, the number of
`doAsync` calls of `doCalculate`, and no disturbed wait, and uses its actions as
they are; the number
of the barrier a main thread is at, `finish_index`, is the phase it is in.
Tokens and data are on the same streams. `step` is the position in the loop of
the phase; `Work(p)` is its length and `EnterBarrier` waits for it.

| code | model |
|---|---|
| `preprocess`, loop over the parts | `AddPartKey`, `SendPartKey`, one iteration each |
| `preprocess`, loop over the orders | `CollectOrder`, one iteration each |
| `communicatePartSale` | `SendPartSaleData`, one iteration each |
| `mergeData` | `MergeData`, one iteration each |
| `getLocalUnderSale` | `GetLocalUnderSale`, one step: the loop reads `orders` and `partData` only, which no other thread touches then (`PhaseFlush`) |
| `mergeQueryAns` | `SendFinalAns` in the phase in which `Now` names the instance, which is the loop's variable in that round (`Turns`) |
| case `partKey` | `ReceivePartKey`, then `Forward` |
| case `finalPart` | `ReceiveFinalPart`, `Forward`, then `FallThrough` into `finalAns` |
| case `finalAns` | `ReceiveFinalAns` |

`handling[p]` is what the server thread has left to do of a handler; between its
steps the main thread may run. Sums are kept as in the source, in a sequence in
which `Insert` merges or appends. `Turns` is the loop of `mergeQueryAns` and of
`partDataCommunicate`: its variable as a recursive function of the round, with the
wrap in the body (`Wrap`) and the one in the step (`Below`). Prices are integers, and
`lQuantity < 0.3 * average` is compared without a division; rounding is not
modelled. The query and the parts that match it are constants. What an instance
that has read everything would compute (`SumOf`, `Share`, `Gathered`) is written with
`Total`, as in `OrderRouting`.

### 3.3 Launch

One action per step of `main`, of the interaction thread and of the cases `load`
and `start`.

| code | model |
|---|---|
| `cv.wait(lck)` (`main.cpp:135`, `144`, `164`, `183`) | `Wait` begins it; it ends by `Notify`, or by `Disturb` |
| `sendMessager == nullptr`, `new client` (147-148) | `TestClient`, `ConnectLate` |
| `sendStart(select_idx, ...)` (166) | `SendStart` |
| a line is read and the flags are tested (77-117) | `TypeLoad`, `TypeSelect`, `TypeQuit` |
| what it makes the thread do (87-110) | `InteractConnect`, `InteractLoad`, `InteractSet`, `InteractStart` |
| `load_flag = true` (`server.cpp:34`) | `ReceiveLoad` |
| `select_flag = true` (41) | `ReceiveStart` |
| `select_idx = idx` (46), after the body has been parsed | `StoreIdx` |
| `targetBrand`, `targetContainer` (47-48) | `StoreTarget`: a query is one value |
| `cv.notify_one()` (35, 49) | `NotifyMain` |

The steps of the server are separate because the interaction thread tests
`load_flag` and `select_flag` without a lock, and a `q` typed as soon as
`select_flag` is set notifies main before the query is there. `server[p]` says where
the server is in a handler; the message stays at the front of the stream until the
handler is done, and nobody else looks at it.

No wait has a predicate. `Notify` ends whatever wait main is in and is otherwise
lost (`missed`). `Disturb` is a wait that ends by itself, at the instances in
`Disturbed` (`disturbed`). A main thread that comes out of the wait for start without
one sends `select_idx`, which `head/Calculator.h:32` does not initialise: `SendStart`
then takes any number of an instance or `Stray`, which is none.

`doCalculate` is one step, `Calculated`, which its barriers allow when everybody
calculates; after it the instance where the query was typed waits for `q`, whose
notification ends it, and the others pause until they are closed. `NewClient`
makes a client whose connection may be refused (the other instance is not up) or
never be served (its server has accepted another one); the source reports the
first and cannot see the second, and goes on either way. A line is a name, a query
a member of `Targets`; `typed`, `hasty`, `disturbed`, `missed` and `refused` are
histories. `hasty` has the lines that came before main's prompt for them, for `q`
before main calculates.

A send through a null client, undefined in C++, is a step the model does not take.
The program can be about to: instance 1 prompts for a select as soon as `load_flag`
is set (`main.cpp:98`), its client is made at `main.cpp:148`. `ClientBeforeSend` says
that the window closes there: once main has tested for the client, there is one. `q`
ends the interaction thread whether main waits for it or not; `QuitIsHeard` shows
that an instance is left waiting for a `q` it has had only where a notification was
missed.

### 3.4 OrderRouting

Composed with `RingBarrier` as `FinalQuery` is; three calls of `doAsync`, so that
`finish_index` is 0 to 3. `saleCount[p]` is the table by part that `TotalData`
and `BrandData` keep by brand and part: the brand is a function of the part.

| code | model |
|---|---|
| loop over `reader.orders`, `solveOrder` (`Calculator.cpp:61-76`) | `SolveOrder`, one iteration each |
| `localPartCount`, `addPartCount`, `addTotalSales` (80-85) | `AddLocalTotals` |
| `sendTotalData` (87-89) | `SendTotalData` |
| `avg` and the test of each part (94-106) | `ReadAverage`, one step |
| sending an undersold part (108) | `SendUnderSale`, one each, in any order |
| `sendMessager->close()` (116) | `Close`; a later `Send` goes nowhere |
| case `order`: `solveOrder` on the server thread | `ReceiveOrder`, then `Forward` |
| case `totalData` | `ReceiveTotalData`, then `Forward` |
| case `underSale` | `ReceiveUnderSale`, then `Forward` |

`ReadAverage` is one step although the source reads `parts` part by part;
`OrdersRouted` says that the table does not change there. Only quantities are
kept, the sales in money are summed in the same places and decide nothing. What an
instance that has read everything would compute is written with `Total` of the
module `Totals`, the sum of a sequence.

### 3.5 PartTable

`N + 2` calls of `doAsync`. `parts[p]` and `partIdHash[p]` are the vector and the
hash of `dataReader`; `partIdHash` counts from 1. A part has a brand of its own,
so that an order filed under the wrong brand is told apart.

| code | model |
|---|---|
| `int sz = reader.parts.size()` (`AdvancedCalculator.cpp:110`) | `ReadSize` |
| loop over the parts (112-125) | `SendPart`, one iteration each |
| `setPartCount(reader.parts.size())` (133) | `SetPartCount` |
| `solveOrder` with `partIdHash[...]`, which makes an entry (73-80) | `SolveOrder` |
| `partDataCommunicate` (158-195) | `SendPartData` in the phase in which `Now` names the instance (`Turns`) |
| `getTotalDatas`, `calculateUnderSale` (55-56) | `CalculateUnderSale` |
| case `part`, `insertPart`, `sendPart` | `ReceivePart`, then `Forward` |
| case `partData`, `mergePartData` | `ReceivePartData` |

### 3.6 Codec, DataReader, Transfer

`Codec` defines the conversions as operators over sequences of characters, one
for each function of `Utils` and `message`, with the names of the source. An
`int` wraps at `IntBits` bits; a `double` is a number of millionths, what
`to_string` keeps of it. `DataReader` has one step per line read, as the loops
of `loadOrders` and `loadParts`; a file of an instance's own (`div_part_p`,
`div_lineitem_p`) is there or not. So is the common file (`there`): a failed `open`
sets `failbit`, the test of `dataReader.cpp:57` asks for `badbit`, nothing is thrown,
and no line is read (section 4). `Transfer` sends records that were loaded, in any order, and queries made of typed lines, through the client's buffer:
`Strcpy` leaves the bytes of earlier messages behind the zero, the whole buffer
is a frame, and `Receive` parses it with `Parsed`. The kinds `connect` and
`unknown` are never sent.

### 3.7 AsyncSend

One instance's client, its two threads that send during a calculation, and what
they run through in asio on Linux: `async_write`, the scheduler, and the send
path of the epoll reactor. The buffer and the stream are made of halves of
messages, numbered in the order they are sent, so that a write can be cut once.

| code | model |
|---|---|
| `client::send`, `m_mtx`, `strcpy` (`client.cpp:56-57`) | `Begin` (in `SendData`, `SendFinish`), `Copy`: half by half |
| `async_write` as far as `epoll_reactor::start_op` (`epoll_reactor.ipp:251-319`) | `Start`: `StartPerformed` or `StartQueued` |
| `post_immediate_completion` (`scheduler.ipp:344`) | `Post`; for a continuation, part of `CompletePartly` |
| `send()` on a socket with some room (`reactive_socket_send_op.hpp:51`) | `Perform` |
| `epoll_ctl(EPOLL_CTL_MOD)` | `Rearm`: reports the room there is |
| `run`, `do_run_one` (`scheduler.ipp:193`, `447`) | `RunIos`, `RunReturns`, `TakeTask`, `TakeDescriptor`, `TakeOperation` |
| `epoll_wait` and what it puts into the queue | `EpollReturns` |
| `perform_io` and its cleanup (`epoll_reactor.ipp:717-793`) | `PerformIo`, one operation each, and `EndIo` |
| `write_op`: all written, or the rest is to be | `CompleteWritten`, `CompletePartly` |
| `ios.reset()`, `finish_index++` (`Calculator.cpp:194`, `200-201`) | `ResetIos` |
| the server of the next instance reads | `Read` |
| the token has gone round, `cv.wait` returns | `Wake` |

`ready` is an event epoll will report, `nospace` the kernel's flag that makes it
report room again after a refusal. `overlapped` is a history: a message was
copied while an earlier write had bytes left. How much room makes the kernel
report is abstracted to any; returns of `epoll_wait` without an event
(the interrupter, timers) change nothing here and are stutters. A descriptor's
mutex is held through `perform_io`, which is why nobody starts a write while
`main = "io"`. The next instance always reads: its server thread is never
blocked in a send, as sends are asynchronous.

## 4. What is checked

Deadlock is not checked in any run: the models end when the calculation is over
or, as findings show, when everybody waits.

| run | instance | shows |
|---|---|---|
| `ring_disturbed` | 3 instances, 2 barriers, the wait of 2 may end by itself, fair | `TypeOK`, `BarrierSafety`, `WakeIsCurrent`, `AtMostTwoLaps`, `HangsOnlyIfNotifyLost`, `ImplementsBarrier` |
| `ring_lost` | 2 instances, 1 barrier, fair | **violated**: `EveryBarrierPassed` |
| `query_ring` | 3 instances, a part and its orders at 3 | `PhaseFlush`, `EverybodyKnows`, `AnswerIsRight` |
| `query_pair` | 2 instances, two parts, five orders, fair | `TypeOK`, `SumsAgree`, `AnswerIsRight`, `ImplementsRing`, `DataDies` |
| `launch_any` | 3 instances, 2 queries, 3 lines on terminal 2, no wait ends by itself | `CalculatesSelected`, `AgreeOnQuery`, `QuitIsHeard` |
| `launch_fair` | 3 instances, 1 query, 2 lines on terminal 1, the waits of instance 1 may end by themselves, fair | `TypeOK`, `CalculatesSelected`, `RingComplete`, `ClientBeforeSend`, `StuckOnlyIfMissed` |
| `launch_select` | 2 instances, 2 lines on terminal 1, fair | **violated**: `SelectStartsCalculation` |
| `routing_ring` | 3 instances, two parts sold at one instance each and one never | `TypeOK`, `OrdersRouted`, `SameAverage`, `SameList` |
| `table_pair` | 2 instances, three parts, four orders | `TypeOK`, `TablesComplete`, `ChainComplete`, `AnswerIsRight` |
| `transfer` | 2 instances, 3 + 2 lines, own, common and missing files, 3 typed lines, 2 messages | `TypeOK`, `LinesPartitioned`, `Delivered` |
| `async_full` | room for 3 halves, 2 barriers, 4 messages of data, fair | `TypeOK`, `WorkIsPending`, `NoLostEvent`, `RunIosFlushes`, `FifoUnlessOverlapped`, `WaitEnds`, `RunIosReturns` |
| `async_overlap` | room for 3 halves, 1 barrier, 2 messages of data | **violated**: `OneWriteAtATime` |

**Bounds.** Three instances are the least for which a message passes through an
instance that is neither its origin nor its destination, which is where tokens
are stamped for others and keys are forwarded; two barriers in a row are the
least for which a token of one can meet the next. What the bounds leave open for
the barrier, the proofs close. In `query_ring` the key, the sum and the share
start at instance 3 and each has two links to go, which is what three instances
add; with one part the states of seven barriers stay within reach. `query_pair`
trades the third instance for keys, sums and answers that cross on both links. In
`PairOrders` the averages are 14 and 16, so that the order of 1 and one of 2
pieces are undersold at different instances and every step of the computation
changes the answer, and `query_ring` has `SelectIdx = 1`, where the loop of `Turns`
starts at 0. In `launch_any` three lines are enough for load and two selects, or load,
select and a `q`, which is the shortest way to a `q` that comes between `select_flag`
and the query. Its terminal is that of instance 2, whose lines pass both others.
`launch_fair` adds the waits that end by themselves at instance 1, and has its
terminal there, as its two threads may both make its client; one query and two
lines are what its properties are about. Users at several terminals at once are
left to the theorems, which are about any set of `Typists`.
`StuckOnlyIfMissed` promises nothing once a wait has ended by itself, as an instance
that goes on alone is past the waits the others are led through.
`MaxLines` and, in `transfer`, `MaxSent` are the only bounds in guards
besides `Rounds`, which is the number of calls.

In `routing_ring` the order of part 1 starts two links from the instance that
has the part, and the totals and the undersold part go all the way round.
`table_pair` has two instances because three, with five barriers and part tables
on the streams, exceed 5 million states; the parts cross on the two links, and
may arrive before or after the other instance has read its size. In
`transfer`, `IntBits = 8` makes the total of two orders pass the range of an
`int`, which 32 bits would not do in reach; `BufferSize = 29` is the least that
holds the longest message made of these lines, as 84 does in the program; two
messages are what it takes to leave bytes behind a shorter one. Each kind of
message, and each pair of kinds, is sent.

In `async_full` an odd number of halves is what cuts a write: one message fits,
the second is cut, the third finds no room and is queued, and a fourth is queued
behind it. The second barrier starts with a scheduler that was stopped and reset
by the first, and with what a wait has left behind. Data is sent while fewer than
`MaxSent` messages have been; tokens are always sent.

**Fairness.** Weak fairness of each thread of each instance: the operating
system runs threads that can run, and TCP delivers. None for lines typed and for
`Disturb`: no user has to type, no wait has to wake up spuriously. `Launch`
assumes that all instances are started, and nothing of `Calculated`, as a barrier
may hang.

In `async_full`: main, a send of the server thread that has begun, the reader at
the other end, and `Wake`, which stands for the other instances. Nobody has to
send data.

**Findings** (details in `PROJECT.json`). (1) `ring_lost`: the server notifies
without the mutex and the wait has no predicate; a token that completes between
`sendFinish` and `cv.wait` leaves the instance waiting for ever.
`HangsOnlyIfNotifyLost` shows that, undisturbed, nothing else makes the barrier
hang. (2) `launch_select`: a select may be missed by an instance that is still
loading. (3) `async_overlap`: asio requires one write at a time and an unchanged
buffer until its handler is called; `send` waits for neither. When the socket is
full, the bytes of a message are replaced by those of a later one. The pauses of
`Calculator.cpp:67` make that less likely; `FifoUnlessOverlapped` shows that it is
the only way the stream goes wrong.

Three more disagreements have no run of their own; the properties name them as
cases in which they promise nothing. TLC finds (4) and (6) when that excuse is
dropped; (5) is what the steps of `DataReader` do. (4) A `q` between the server's `select_flag` and its query (`server.cpp:41`, 46-48)
sends main on to calculate a query nobody asked for: without `"q" \notin hasty`,
`CalculatesSelected` and `AgreeOnQuery` fail after a load, a select and a `q`.
(5) An instance that finds neither its own file nor the common one loads nothing
and goes on, although the comment and the `throw` of `dataReader.cpp:56-60` and
134-138 mean it to end: the test is `bad()`, and a failed `open` sets `failbit`.
`LinesPartitioned` asks for files that are `there`; `transfer` also has the layout
without. (6) Nobody runs the io service during `cv.wait`, so that a token of
which the socket took a part only never arrives (`Unwritten` in `WaitEnds`);
`WaitEnds` shows that this and (3) are the only ways it fails to.

The case `finalPart` has no `break` and falls through into `finalAns`, so that
part keys are added to `underSales`. `AnswerIsRight` shows that the reset in
`getLocalUnderSale` always comes after it.

Three limits of what passes. Any other notification, such as that of `q`, ends the
wait of the barrier; `BarrierSafety` shows that only the instance it hits leaves
early, and the calculations assume that none does. `Delivered` holds as long as
a total of sales fits an `int`: it is a `long long` where it is sent. `StuckOnlyIfMissed` names what may leave the
launch stuck: a missed notification, a refused connection, and a second `load`,
after which the two threads of instance 1 may each have connected.

## 5. What is proved

`RingBarrierProofs`, for every `N >= 2`, every number of barriers and every set
of disturbed instances, from the three assumptions on the constants in
`RingBarrier`:

* `TypeCorrect`: `Spec => []TypeOK`.
* `BarrierIsSafe`: `Spec => []BarrierSafety`.
* `WakesAreCurrent`: `Spec => []WakeIsCurrent`.
* `RingImplementsBarrier`: `Spec => ImplementsBarrier`, by step simulation. The
  abstract barrier is that of the instances outside `Disturbed`; what a
  disturbed instance does maps to a stutter.

None of these is inductive. `BarrierSafety` speaks of barriers left; that
leaving was right depends on the wake-up, the wake-up on the completed token, and
the token on what every server that stamped it knew. The inductive invariant
`IInv` goes back along that path: a digit of a token on a stream (`Honest` in
the module) is positive only if that instance has reached the token's barrier;
what a server is about to notify has been reached by everybody; so has the
barrier of a main thread that was woken and not disturbed; `is_finished` and
`is_notify` are the initial segments that `finish_index` and `pc` say, and a
server that is about to notify was not ahead of its own main thread. `IInv` only
ever grows `is_finished`, which is why no step of another instance can falsify
it. There is one lemma per action, and `NextIInv` collects them.

* `TokensDie`: `Spec => []AtMostTwoLaps`. A bound on the digits is not inductive: a
  server adds one to its digit whatever it is. `LapInv` says of every token that
  it has an origin and a lap (`OnLap`): its digits are higher by one for the
  instances it has passed since the origin, and on its second lap the server of
  the origin has announced the barrier, or is about to, so that `DropToken` is
  the only thing that can happen to it there. Tokens carry no sender; the origin
  exists in the proof only.

`AsyncSendProofs`, for every size of the socket, every number of barriers and of
messages, from the three assumptions in `AsyncSend`:

* `TypeCorrect`: `Spec => []TypeOK`. `TypeInv` adds what the types rest on:
  `Locked`, the mutex of `send` in terms of positions (one thread is in `send`,
  and then there is a message), and `Positions`, what `current` holds where.
* `NoEventIsLost`: `Spec => []NoLostEvent`. That a queued write has an event to
  come follows only if the socket's state is right while nothing is queued:
  `EventInv` says that a registered socket that is not tried any more
  (`try_speculative` is false) owes an event, that `perform_io` leaves it so, and
  that a write is only queued on a registered socket.
* `Fifo`: `Spec => []FifoUnlessOverlapped`. `OrderInv` says what the stream is at
  any time: all messages but the last are out, the last one's bytes are `Half`
  minus `left`, and the buffer holds that message, up to what `Copy` has done.
  `QueuesStarted` is needed beside it: an operation in any queue is of a message
  whose copy is complete, so that nobody sends from a buffer half filled.

* `WorkIsCounted`: `Spec => []WorkIsPending`. Operations go from the reactor's
  queue into the hands of `perform_io`, from there into the scheduler's, and a
  continuation is put back by the thread that completes it. The count is
  corrected once per event for all but the first of them. Lemmas say how the
  number of writes in a queue changes when a prefix is taken off or a queue is put
  behind another.
* `RunIosIsFlush`: `Spec => []RunIosFlushes`. `StartedIsPending`: a write with
  bytes left is in some queue or about to be posted. `RunInv`: while main runs the
  scheduler only the server sends. The scheduler stops only at a count of zero,
  which `WorkIsPending` turns into: no write is anywhere.

`LaunchProofs`, for every number of instances, set of queries, set of terminals
and number of lines, from the assumptions of `Launch` (`TargetsAssumption` keeps
the names of queries apart from the program counters that stand beside them):

* `TypeCorrect`, `CalculatesAreSelected`, `QuitsAreHeard`, `ClientsBeforeSends`,
  `RingIsComplete`, `QueriesAgree`: `Spec => []` the
  invariants of `launch_any` and `launch_fair`.
  `Disturbed` is any set of instances: `CalculatesSelected` excepts those whose wait
  has ended by itself, `RingComplete` counts such a wait like a `load`, `AgreeOnQuery`
  is about histories without one, the others hold whatever happens.

  The invariant has a part for each of the things that threads share.
  `HandlerInv`: the message the server works on is still at the front of its stream.
  Notifications (`FlagsAt`): there is one for each flag that the server sets and one
  for `q` (`Signals`), and the server may still have to give its own (`Pending`). A main
  thread that has missed none has left as many waits (`Stage`) as there were, which is
  `QuitIsHeard`; an undisturbed one has left no more, so that it is past the wait for
  start only with `select_flag`, though it may be the `q` that led it on. The last
  conjunct of `FlagsAt` and `Orderly` say when it is not: then the notification was the
  server's, which comes after the query is stored. Clients (`ClientInv`): who must have one,
  whichever thread made it; before a first `load` has been sent nothing else
  happens (`BeforeLoad`), and with one `load`, or one wait that ended by itself,
  nobody makes two, so that no server sees two connections (`OneClientEach`). The
  query (`QueryInv`): with one select there is one terminal it came from, and every
  start on the ring, every number and every target that has been stored is of that
  one; by `Orderly` nobody sends one on before.

`FinalQueryProofs`, for every `N >= 2`, all orders and every division of the
matching parts, from the assumptions of `FinalQuery`:

* `BarrierFlushes`: `Spec => []PhaseFlush`. The barrier counts instances, not
  messages, and a message may be anywhere on the ring, or in the hands of a server
  thread, when its sender reaches the barrier. `DataInv` follows each one from its
  origin `q`. `Clear`: a token of the phase that carries the digit of `q` was
  stamped after the message was sent, so it is further back, counted in hops
  from `q` and then in places of the stream, and has passed `q` once only.
  `Passed`: a server that has announced the barrier did so for a token with all
  digits, which was behind the message, so the message has passed that server.
  An instance that left the barrier has announced it, and nothing comes to it any
  more. Keys carry no sender: the origin is some owner of the part that knows
  it. For an answer the origin is the stop above the one it goes to, and the phase is
  that stop's turn. `Streams` says `\E S` with `wire[p]` a sequence over `S`: the
  flush does not depend on what the messages carry.
* `EverybodyLearns`: `Spec => []EverybodyKnows`. An instance that knows a key drops
  it when it comes. `KeysGoOn`: whoever knows a key has yet to send it, or holds it,
  or it is on its way to the next instance, or that one knows it. After the
  barrier the first three are excluded, by the flush; the nearest instance
  upstream that knows the key then has a successor that does.
* `QueryImplementsRing`: `Spec => ImplementsRing`. The refinement mapping keeps the
  finish tokens of each stream (`TokensOf`, a fold, whose laws for a send and a
  read are proved by induction as in `TotalsProofs`: the installed prover knows no
  law of `SelectSeq`). A calculation and a handler of data are stutters
  (`CalculateTokens`, `ServeTokens`): what the server thread forwards outside the
  case `finish` is never a token (`Streams`). `doAsync` and the case `finish` are
  the ring's own actions (`SynchroniseTokens`, `ReceiveTokens`): a token in front
  of a stream is in front of its tokens. So what `RingBarrierProofs` shows of the
  barrier holds between the phases of the query, with `Rounds = N + 4` and no
  disturbed wait.
* `TypeCorrect`: `Spec => []TypeOK`. Sums are filed by `Insert`, which merges an
  entry or appends one; `TypesInv` says that every sequence of sums has natural
  numbers and one entry for a part. That no phase is left before its loop is over
  (`StepsDone`) is used for the sums.
* `SumsAreRight`: `Spec => []SumsAgree`. A law of conservation, stated not of one sum
  but of every additive weight of sums (`Weights`): one weight gives the pieces of a
  part, another the number of its orders, and every lemma is proved once for both.
  `CollectInv`: the entries of `partData` weigh what the scanned orders of matching
  parts and the merged entries weigh. This needs `EverybodyKnows`: an order is
  dropped where its part is not in the map, and then it is of no matching part.
  `FlowInv`: what `p` has received, and what is still due at it, in a stream or in a
  server's hands, weigh what the others have sent. A sum is due at `p` where it has
  not come past `p` on its round (`Due`, by hops from its origin); past `p` it weighs
  nothing, and back at its origin it is dropped. Behind the barrier of
  `communicatePartSale` the flush says that nothing is due (`NothingOnWay`), and
  everybody has sent everything (`AllSumsSent`). What was received then weighs the
  orders of all others, and merged with the own ones, the orders of all.
* `AnswersAreRight`: `Spec => []AnswerIsRight`. `StopInv`: what a stop has, and the
  answers in its stream, come to its own share and, once the stop above has sent,
  what that one has gathered; before that there is no answer in its stream. The
  share is taken behind the merge, so that the average is that of `SumsAreRight`;
  what `finalPart` adds to `underSales` by falling through `finalAns` comes before
  it, by the flush of phase 2, and is erased by `setUnderSales`. A stop sends in its turn, and
  what it sends is complete, because the barrier of the turn above has flushed the
  one answer that comes to it (`DataInv` for the phases 4 to `N + 2`).

`PartTableProofs`, for every `N >= 2`, all orders and every division of the part
table without repetition (`PartsAssumption`: part keys are the primary key of the
table, the reader takes each line once), from the assumptions of `PartTable`:

* `TablesAreComplete`: `Spec => []TablesComplete`. `PartsPlaced` and `PartsGoOn` are
  the flush and the spreading of `FinalQueryProofs`, for a part that is sent by its owner and
  again by whoever received it before he read the size of his vector. Here the
  two cannot be proved one after the other. `SolveOrder` makes an entry in the
  hash for a part that is not there, which would break the table: it is there,
  because the table is complete after the barrier (`Complete`), which is
  what is being proved. A server whose connection is closed drops what it should
  forward: it has nothing to forward then, again by the flush. So one invariant,
  `Inv`, has all parts. `Table` says what vector and hash are to each other: the
  vector is injective and the hash its inverse.
* `TypeCorrect`: `Spec => []TypeOK`. The vector is no longer than the table
  because it is injective; `AllParts` is finite because it is the union of `N`
  ranges of sequences.
* `ChainsAreComplete`: `Spec => []ChainComplete`. Counts are handed down the ring, from
  the instance below `select_idx` on, each instance in its turn, and a server
  adds what comes to what is there. `CountsAdd` says what is there at any time: the
  orders counted so far, and for every key that has come from the neighbour, what the
  neighbour has. The neighbour does not change what it has sent: its own turn is
  over, and nothing comes to it any more. `CountsPlaced`: a count on the way is still
  that of the neighbour, is the only one of its key, and is behind no token of the
  neighbour's turn (`Clear`), so the barrier of the turn flushes it. `SentInTurn`: who
  has left his turn has sent every entry. When it is an instance's turn, those
  before it are complete, by induction along the ring (`AddsUp`).
* `AnswersAreRight`: `Spec => []AnswerIsRight`. `Ends`: the last phase has no barrier, so
  that `select_idx` stays in it. `PartsCounted`: the number of parts that the average
  is divided by is that of the whole table, by `TablesAreComplete`. The counts of
  `select_idx` are those of all instances, by the chain; the total of the entries and
  that of the orders are the same sum in two orders (`WithinAll`). So the average is
  that of all orders, and the entries below three tenths of it are the parts to be
  found.

`TotalsProofs` has the laws of `Total`: what it is of a sequence with an element
appended, taken off or replaced, and of two that differ by what has moved from one
place to another. `Total` is a fold of the community modules, whose value the
prover only knows through a function that has to be shown to exist, by induction
over the length. The library's induction theorems have an operator as a parameter;
`InductiveSet` states induction about a set instead, from the well-foundedness of
`<`. With it, the total is the last of the partial sums (`TotalIsPartialSum`), a
function that the other laws give explicitly. The last theorem is about the loop of
`Turns`:

* `LoopIsRing`: for every `n` and every instance `idx`, the loop gives each of the
  others one turn, down the ring from below `idx`, and its test `now != select_idx`
  ends it after `n - 1` rounds, which is the number of phases `FinalQuery` and
  `PartTable` have for it. The recursion has a solution, `Countdown`, and by
  induction no other (`TestedIs`).

`OrderRoutingProofs`, for every `N >= 2`, every division of the parts and all
orders of these parts, from the assumptions of `OrderRouting`: part tables are
disjoint, and the part of every order is in one of them (`OrdersAssumption`; an
order of a part that no instance has goes round for ever, and is in section 6).

* `TypeCorrect`: `Spec => []TypeOK`, by the invariant `FlowInv` below.
* `OrdersAreRouted`: `Spec => []OrdersRouted`, by two arguments. The first is the
  flush of `FinalQueryProofs` for messages that do not make a full turn: an order
  on the ring has an origin and has not got past the instance of its part
  (`Coming`), is not overtaken by tokens of the first barrier that its origin has
  stamped (`Clear`), and no server that it has still to come to has announced that
  barrier (`OnTrack`). Hence no order of its parts is on its way to an instance
  that has left the barrier, and nothing is in a loop any more. The second is a law
  of conservation: the quantities counted, in the loops, on the streams and in the
  hands of servers add up to those of all orders (`Conserved`), for every step
  takes an order from one place and puts it in one other. It is stated of each
  part, and of all parts together (`All`), as the code keeps both sums. `Found` says
  the same of the part itself, as an order may be of nothing: the entries have to
  be the right ones too. What is in one place only is all there is.

  What the steps do to the messages is said once, for all kinds of them
  (`NextPlaces`): a message that is there after a step has just been sent
  (`Fresh`), or `Goes` there from a place it was in before, on its track; and one
  that was there goes to a place, or is `Gone`, read and not kept.

The second half of the module, from the same assumptions, is about the messages
that make the round, the totals of an instance and the entry of an undersold part:

* `AveragesAgree`: `Spec => []SameAverage`. The sums of an instance `p` are at all
  times those of the instances it has `Heard`: itself, once it has added its own,
  and any other that has sent its totals, unless these have still to come to `p`
  (`TotalsInv`). That takes more than that messages arrive: there is one message
  with the totals of `q` at most (`Lone`), it says what `q` still has, because
  nothing is counted after the first barrier (`SumsFixed`), and it is not on a
  second turn, because the server of `q` drops it. In the third phase everybody
  has been heard, and what was heard is everything, by `Conserved`; the parts are
  counted one table after the other, and the tables are disjoint (`TotalUnion`).
* `ListsAgree`: `Spec => []SameList`. The entry of a part is on the lists of the
  instances it has passed and on no others, or, on its second turn, on all
  (`Followed`): so it is dropped by the first server that reads it again, and never
  at one that still lacks it. Nobody tells an entry twice, and the entries told are
  the undersold parts of all orders, since all compare with the average of
  `AveragesAgree` (`AnnounceStep`). An entry on its second turn may still be on a
  stream when the connections are closed; it is not in anybody's hands.

`DataReaderProofs`, for every `N >= 2`, any files, and whatever a line is parsed to,
from the assumption that a file is a finite sequence of lines and that an own file
is that of an instance (`FilesAssumption`). The property is about files that are there
and of one layout (`Consistent`):

* `LinesArePartitioned`: `Spec => []LinesPartitioned`. The records are loaded in
  another order than that of the lines, and two lines may be parsed to the same
  record, so sequences are compared by weight: `Weight(s, G)` is what a function `G`
  of the elements adds up to. `ReadInv`: at all times what an instance has loaded
  weighs, for every `G`, what the lines weigh that it has read and keeps (`Taken`, with
  `Rows`: a line that is not kept weighs nothing). When all have loaded, the files of
  the instances are added up. If all have own files, their weights are those of the
  files put one behind the other (`WeightFlatten`). If nobody has, the first `m`
  instances have the lines with `(n % N) + 1 <= m`, by induction over `m`, and the
  first `N` have all lines (`KeptOnce`). Sequences that weigh the same for every `G` have the same elements,
  each as often: `G` is taken to be 1 for one record and 0 for the others
  (`SameMultiplicity`).

**What stays with TLC.**

* Liveness (`HangsOnlyIfNotifyLost`, `DataDies`, `StuckOnlyIfMissed`, `WaitEnds`,
  `RunIosReturns`, and the violated ones): TLAPS 1.4 proves nothing about fairness or `ENABLED`.
* `TypeOK` and `Delivered` of `Transfer`. They hold of lines whose messages fit the
  buffer, as those of TPC-H do, and not of every line. What they promise rests on
  conversions that are recursive over the characters, and on what `Parsed` makes of
  what another conversion has written, for every input: induction over data with an
  operator as parameter. Where it can be stated about a set instead, as for the sum
  in `TotalsProofs` and the concatenation in `DataReaderProofs`, it has been done; for
  a dozen conversions it has not. `LinesPartitioned` is proved because it does not
  depend on what a line is parsed to.

## 6. What is not modelled

* The level below a handler's statements: `std::unordered_map` is used by two
  threads without a lock, which is undefined; each access is atomic here.
* asio beyond what a send runs through. `src/include` is the vendored library,
  over 174000 of the repository's 178000 lines of implementation: sockets of other
  kinds, timers, signals, files, TLS, executors, coroutines, and the back ends of
  other systems. The program instantiates a few templates of it. `AsyncSend` models
  the path of a write on Linux; the map therefore covers most of the program and
  a small share of the repository.
* Errors of the socket: a write that fails completes at once and its handler
  ignores the error. The composition of `AsyncSend` with the calculations: these
  append to the stream at once, which is what `FifoUnlessOverlapped` promises.
* The interaction thread's sends in `AsyncSend`: it sends before the calculation.
* Disturbed waits outside `RingBarrier` and `Launch`.
* The races inside a call: `updateData` and `mergePartData` of `BrandData` are one step
  each, as are the two assignments of a query and the copy of one into a message.
* Orders of parts no instance has: the models of the calculations start from data
  that fits together.
* The storage of `std::vector`: `loadParts` reserves 500050 slots, an append
  beyond them would move the parts the main thread is sending.
* `judgeInput` and the output, which only `QueryResponser` uses; the random
  query an instance starts with is any query in `Launch`.
* `QueryResponser` and all output: sequential, no state of its own.
* Processes that die. The source has no restart and nothing is persisted; a
  server whose connection is closed ends its thread.

## 7. Running

    tlc -workers 2 -config ring_disturbed.cfg MCRingBarrier
    tlc -workers 2 -config query_ring.cfg MCFinalQuery
    tlc -workers 2 -config launch_any.cfg MCLaunch
    tlc -workers 2 -config launch_fair.cfg MCLaunch
    tlc -workers 2 -config routing_ring.cfg MCOrderRouting
    tlc -workers 2 -config table_pair.cfg MCPartTable
    tlc -workers 2 -config transfer.cfg MCTransfer
    tlc -workers 2 -config async_full.cfg MCAsyncSend
    tlc -workers 2 -config launch_select.cfg MCLaunch      # violated, as ring_lost, async_overlap
    tlapm RingBarrierProofs.tla
    tlapm AsyncSendProofs.tla
    tlapm LaunchProofs.tla
    tlapm FinalQueryProofs.tla
    tlapm PartTableProofs.tla
    tlapm TotalsProofs.tla
    tlapm OrderRoutingProofs.tla
    tlapm DataReaderProofs.tla

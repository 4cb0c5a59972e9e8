# TLA+ models of giapi-glue

This directory holds TLA+ models of the stateful parts of giapi-glue, the TLC
configurations that check them, and `PROJECT.json`. That file gives:
- which part of the system each definition translates, with its source lines;
- every run, with its expected result;
- the mutants that show each checked property can fail;
- the findings and the hazards of the code.

## The system

| Part | Source | What it does |
|---|---|---|
| **PVImageAgent** | `src/src/data/PVImageAgent.{h,cpp}` | Streams one detector frame at a time to pvAccess subscribers. `startImageTransfer`, `transferWCS`, `transferImageData` and `transferImageDone` each hold `pvMutex`. `setCompressionPrefs` does not. |
| **PVImageRecord** | same | The published record. Each put calls `beginGroupPut` and then increments `countIn` (`putHeader` sets it to 1 instead). The put then selects a member of the payload union, copies `countIn` into `countOut`, and calls `process()` and `endGroupPut()`, which publish a snapshot. |
| **PVImageBuffer** | same | The frame buffer. `newBuffer` resizes a `std::vector<char>` and clears the chunk directory. `updateBuf` copies a chunk row by row at `get_addr(x, y, xo, yo)` and records `PVImageChunk(c, 0, 0, x, y, w, h)` under the number `c` that `putImageData` returned. |
| **Retrieval** | `PVImageAgent::request` | Runs under `pvMutex`. It looks the count up in the directory and reads the rectangle back at `get_addr(x, y, 0, 0)`. |
| **Shared pvAccess server** | `PVImageAgent::handle_server` | A static `started` flag and a static `pvCtx`. Every `PVImageHandlerImpl` constructor starts it through `startPVAserver` and every destructor stops it through `stopPVAserver` (`src/src/data/PVImageHandler.cpp`). No lock is taken. |
| **GenericHandler example** | `src/src/examples/GenericHandler.h` | A sequence-command handler. It answers odd action ids COMPLETED. For an even id it joins the previous worker `Thread`, starts a new one around a single shared `WorkerThread` whose id it overwrites, and answers STARTED. |
| **TCS offset client** | `JmsApplyOffset::sendOffset` | Sends a request that names a fresh temporary reply queue, waits with or without a timeout, tears the queue down and reads the answer. A `CMSException` anywhere in this is caught at the end of the function. |

How they interact: an instrument program calls the PVImageHandler facade from its
producing pipeline. Any other thread may call `setImageCompressionPrefs`, and the
pvAccess RPC transport calls `request`. All of these reach one PVImageAgent,
which shares one process-wide pvAccess server with every other handler. The TCS
offset client is independent of the image path.

## Modules

| Module | Models | State ↔ code |
|---|---|---|
| `PVImageAgent.tla` | The agent, its record, its buffer and retrieval | See below |
| `PVServer.tla` | `handle_server` under concurrent handler construction and destruction | See below |
| `JmsApplyOffset.tla` | `sendOffset` and a TCS that answers late or never | See below |
| `FrameSession.tla` | What the agent promises, with each operation one atomic step | See below |
| `GenericHandler.tla` | `GenericHandler::handle`, its constructor and destructor, and the worker threads | See below |
| `MC_*.tla` | Model values, constant sets and symmetry for TLC | — |

### PVImageAgent

Agent members:
- `bitpix`, `width`, `height`, `started`;
- `buf` and `bufLen` for the vector and its byte size;
- `imageChunks` for the directory.

Record fields:
- `countIn` and `countOut`;
- `dtype` and `image`, the selected union member;
- `recBitpix`, the record's own `bitpix` field.

The published snapshots go in `events`.

Each caller thread's place inside a put is in `pc`, `op`, `arg` and `tmp`. `tmp` is the `getCountIn()` value read before the increment. The put steps are:

| Action | Code |
|---|---|
| `BeginPut` | Reading the count |
| `Incr` | Writing the incremented count |
| `CountOut` | `countOut->put(getCountIn())` |
| `Publish` | `process(); endGroupPut()` and the caller's tail |
| `UpdateBufStep` | `return getCountIn()` followed by `updateBuf` |

These are separate steps so that the unlocked `SetCompressionPrefs` thread can run between them. Under the lock no other agent step can interleave, so the split costs nothing there.

A buffer cell records the (frame, chunk number, position) that wrote it and the sample value written. This lets a property tell which chunk a cell came from, whether it landed at the right place and whether it holds the right value. A cell is `ZERO` until written.

Sample values and the `bzero` bias:
- Each caller array is one model value of `Chunks` carrying one sample `pix`. `callerPix` is the array's current contents.
- `updateBuf` adds `bzero` to the caller's array in place (`isrc[j] += bzero`, `PVImageAgent.cpp:902`) and copies the result, so `UpdateBuf` updates `callerPix` and writes the biased value into the cells. The `const PVImageData&` is shallow: `pix` is a plain `char*`, so the write through it is legal.
- The source pointer advances by the chunk width (`isrc += imageData.width`, line 914) and the destination by the frame width (line 915). Each source row is biased once, as it is copied.
- For 16-bit pixels the sum is a `double` stored into an `int16`. An out-of-range store is undefined; the build wraps it modulo 2^16, modelled as `Int16`.
- `BufferHoldsBiasedSamples` compares the cells with `SpecBias`, written from spec 4.2 and the §8 scenario (bzero added once per sample), independently of `Int16` and `AddBias`. Its mutant is a loop that never advances the source pointer, so every destination row re-biases the first source row.

An unwritten cell keeps whatever the previous frame left in it (`buf.resize`). A read outside the vector returns `GARBAGE` and sets `overrun`.

`Init` is built from the constructors: `BufferInit` (`PVImageBuffer()`), `RecordInit` (`PVImageRecord::create` and `init`) and `started = false` (`PVImageAgent()`). `Headers` and `Chunks` are checked against `PVImageHeader` and `PVImageData`, the argument structs of `giapi/PVImageHandler.h` reduced to the fields the agent reads.

### FrameSession and the refinement

`FrameSession` is the abstract specification of the agent. Its state:
- `active`, the session state;
- `seq`, the last published sequence number;
- `log`, the published events as (count, out, kind);
- `directory`, chunk number to placement;
- `answer`, the last retrieval answer.

Its operations are atomic. `Start` publishes the count `FirstCount` and clears the directory; a chunk is then numbered from `FirstCount + 1`. `Data` and `Done` need an open session. `Data` records its chunk under the number it publishes. `Retrieve(n)` finds exactly the chunks of the current session. WCS and compression preferences are accepted in either state, because the code accepts them.

`PVImageAgent` defines two instances with the same mapping (`SessionActive`, `SessionLog`, `SessionDirectory`):
- `Session`, with `FirstCount <- 1`, the numbering of spec 4.1 (count "reset to 1 at start") and of the §8 scenario (the first chunk "returns sequence 2");
- `DocumentedSession`, with `FirstCount <- 0`, the numbering documented at `PVImageHandler.h:177` ("0=start, 1=first chunk").

The mapping treats the producer's operation in flight as already done:
- its event is appended with the count it will carry (`PendingCount`);
- a start opens the session and a done closes it;
- a DATA chunk that `updateBuf` has not yet recorded is already in the directory.

`RefinesFrameSession == Session!Spec` is a property of `agent_core`; `RefinesDocumentedNumbering == DocumentedSession!Spec` is the one property of `agent_docnumbering`. Every step of the detailed model is then either one atomic `FrameSession` step or a stutter. Had the lock been taken or released in the wrong place, the mapping would change in the middle of an operation and the check would fail. The mapping completes only the producer's operations, so it is not checked with `PrefsThreads`, where `agent_prefsrace` shows the agent is not atomic.

### PVServer

`hstate[h]` is where handler `h`'s constructor or destructor is. Each unlocked access in `handle_server` is its own step:
- the test of `started`;
- the start of the server (`Launch`, line 232);
- the setting of `started` (`SetStarted`, line 233);
- the read of the port;
- the reset of the context;
- the clear of `started`.

`pvCtx` is a context number, where 0 stands for an empty `shared_ptr`.

### JmsApplyOffset

| Variable | Meaning |
|---|---|
| `cpc` | Where the client is |
| `rMsg`, `deletes` | The request message and how often it was deleted |
| `live`, `inbox` | The broker's temporary queues and their contents |
| `pending` | The requests the TCS has not yet answered |
| `failed` | The calls that ended in a `CMSException`, a history kept for `QueuesLeakOnlyOnCMSException` |

Each temporary queue is named by the call that made it, because the broker gives each queue a fresh name.

The TCS side is not code of this repository. `TcsAnswer` is modelled from the JMS request/reply contract the client relies on: a TCS may answer any request at any time or never, an answer sent to a queue that has been destroyed is lost, and an answer may be a message of another type. For such an answer `Return` (through `ReturnKind`) models the `dynamic_cast` failure and `return status::ERROR` of lines 78-80.

### GenericHandler

| Variable | Meaning |
|---|---|
| `hpc` | The dispatcher thread: idle, in `handle`, in the destructor, or gone |
| `cur` | The action being handled |
| `thread` | The handler's `Thread*`, named by the action it was made for, with 0 for NULL |
| `threads` | The state of every `Thread` made: running or done |
| `workerId`, `workerAlive` | The shared `WorkerThread`'s id, and whether it has been deleted |
| `responses`, `posted` | What `handle` answered, and the completions the workers posted |

`Dispatch` gives the handler a larger action id of either parity, as one counter numbers the actions of all handlers. `HandleEven` waits for `Joined`, the `thread->join()` of line 48. The destructor is two steps: `Destroy` (`delete worker`) and `DestroyJoin`. `WorkerThread::run` comes from `ApplyHandler.h`, which is not in this repository. It is modelled from the GIAPI contract for STARTED actions: read the id and post one completion.

## Runs

Each run's properties are listed in `PROJECT.json`. Each property has a comment in its module that states it.

| Run | Expect | Shows |
|---|---|---|
| `agent_core` | pass | Two frames with 16-bit and float headers (2×2) and three in-frame chunks, with chunk numbers 2 and 3. The producer is alone. The published sequence is gap-free, every published DATA chunk is in the directory under its number, retrieval returns exactly that chunk's pixels, each buffer cell holds the pixel for its position, and nothing overruns. Each written cell holds the sample published with its chunk plus `bzero`, wrapped to int16 for 16-bit frames. The agent refines `FrameSession`. 1,395,013 states, about 45 s. |
| `agent_badbitpix` | pass | The same, with bitpix 8 and 0 headers mixed in. Through the rejection and throw paths, retrieval never returns a wrong tile and no read leaves the vector. 880,064 states. |
| `agent_zerobitpix` | violation | `DataEventsRetrievable` fails. A bitpix 0 start mid-frame throws but leaves the session started. A DATA event is then published and `updateBuf` throws before recording it. |
| `agent_prefsrace` | violation | `DataEventsRetrievable` fails. An unlocked `setCompressionPrefs` between `endGroupPut` and `return getCountIn()` makes the chunk be stored under 3 when it was published as 2. |
| `agent_docnumbering` | violation | `RefinesDocumentedNumbering` fails on the first step: `startImageTransfer` publishes count 1 (`PVImageAgent.cpp:388`), where `PVImageHandler.h:177` documents 0 for the start and 1 for the first chunk. |
| `server_single` | pass | One handler at a time, up to 20 creations. The port is never read from an empty context. 161 states. |
| `server_sharedstop` | violation | `ServerRunsWhileHandlerAlive` fails. Two handlers are alive on one server; destroying one resets the process-wide `pvCtx` (`PVImageHandler.cpp:103`, `PVImageAgent.h:236`) while the other still publishes through it. |
| `server_null_ctx` | violation | `NoNullServer` fails. Handler h1's destructor resets `pvCtx` before it clears `started`; in between, h2's constructor sees `started` still true, skips the start and calls `getServerPort()` on the empty context. |
| `offset_client` | pass | Three calls, with and without a timeout, with late and lost answers, answers that are not a `BytesMessage`, and CMS exceptions. A call reports only the answer to its own request. A temporary queue outlives its call only when the call ended in a `CMSException`: the answer, `status::ERROR` and timeout paths destroy theirs. Every call with a timeout returns. |
| `generic_handler` | pass | Eight actions of both parities against one handler. Workers post completions only for actions answered STARTED, once each, though they share one `WorkerThread`. Every STARTED action is eventually completed. 761 states. |
| `generic_uaf` | violation | `NoWorkerUseAfterFree` fails. The destructor deletes the `WorkerThread` while the worker of the last even action still runs it (`GenericHandler.h:67`). |
| `offset_double_delete` | violation | `NoDoubleDelete` fails. A CMS exception after the send deletes `rMsg` a second time. |

More divergences were seen while modelling. The project keeps at most twelve runs, so these are not given runs of their own:
- A tile wider than the space to the right edge wraps into the next row; `updateBuf` has no bounds check (`PVImageAgent.cpp:899`). With `Chunks <- ChunksPastEdge` and `MaxEvents = 4`, `BufferInPlace` fails after 424 states.
- `transferWCS` has no `started` check (`PVImageAgent.cpp:709`). The spec says a WCS transfer while idle is a SequencingError. `FrameSession` follows the code here; a version that refused WCS while idle fails on the first `transferWCS`.
- The `CMSException` handler leaves the temporary queue and its consumer behind (`JmsApplyOffset.cpp:88`).
- A chunk with a sub-offset is written at (x+xo, y+yo) but read back at (x, y) (`PVImageAgent.cpp:931`, 986). With `Chunks <- ChunksSubOffset` in `MC_PVImageAgent`, `RetrieveReturnsChunk` fails. Spec 4.3 accepts this, so the passing runs use chunks without a sub-offset.
- `newBuffer` rejects only bitpix 0, so a bitpix 8 start is accepted although the spec allows only INT16 and FLOAT32 (`PVImageAgent.cpp:802`). The next DATA put then publishes `countIn` without `countOut`. With `Headers <- HeadersByteImg`, `Counts <- CountsOne` and `MaxEvents = 4`, `EventSequence` fails.
- `ApplyOffset.h` documents that `sendOffset` returns `status::OK` or `status::ERROR`. The code returns the TCS's applied flag (0 or 1) or `status::ERROR` for an answer that is not a `BytesMessage`. The values of `status` are in `giapi.h`, which is not in this repository, so whether a caller can tell them apart is not checked.
- `StartOnlyWhenStopped` (the server is started only when none runs) holds for one handler but fails with two: two constructors both see `started` false and both start a server. With `MC_PVServer_sharedstop.cfg`'s constants and `INVARIANT StartOnlyWhenStopped`, TLC finds it after 28 states. The failure is the same unlocked test-then-set as `server_null_ctx`, so it has no run of its own.

`NoNullServer` holds only when no second handler runs concurrently, as `server_null_ctx` shows; `StartOnlyWhenStopped` likewise (see the list above).

## Bounds

| Bound | Value | Why it is enough |
|---|---|---|
| Frames | 2×2 | A 2-wide frame lets a chunk be a row, a column, or spill past the edge. |
| Frames per run (`MaxFrames`) | 2 | The second `start` shows what `resize` and `clear` keep from the first. |
| Events (`MaxEvents`) | 6 in `agent_core`, 5 in `agent_badbitpix`, 4 in the violation runs | Six events allow a header, three chunks, a done and a new header; one more takes TLC over four minutes. |
| Samples | 0, 32767, -5 with `bzero` 32768 (16-bit) or 1 (float) | The first two overflow int16 and wrap; -5 stays in range. |
| Chunk numbers (`Counts`) | {2, 3} | Retrieval asks for the first two DATA numbers and for one that was never issued. |
| PVServer handlers | 1 or 2 | Two handlers are enough for every pairwise race. |
| PVServer creations | 20 in the pass run | One handler is recreated many times. |
| GenericHandler action ids | 1..8 (1..3 for the use-after-free run) | Ids go up by one or two, so even ids follow both even and odd ones, and up to four workers run in turn. |
| JmsApplyOffset calls | 3 | A late answer to call 1 can meet calls 2 and 3. Timeouts are {0, 1}. |

## Fairness

JmsApplyOffset and GenericHandler have fairness.

GenericHandler:
- **Dispatcher:** weak fairness on `HandleOdd`, `HandleEven` and `DestroyJoin`. A call of `handle` or of the destructor that has begun runs on.
- **Workers:** weak fairness on each started worker thread. The OS schedules every running thread.
- **No fairness on `Dispatch` or `Destroy`:** the program need not send another action or destroy the handler.

JmsApplyOffset:
- **Client:** weak fairness on each step of the normal path of `sendOffset`. A running thread keeps executing.
- **CMS exceptions:** no fairness. They may happen but need not.
- **TCS:** no fairness, since it may never answer.

`CallWithTimeoutReturns` is therefore a property of `receive(timeout)` alone.

The image and server runs check only safety, plus the refinement in `agent_core`. PVServer, JmsApplyOffset and GenericHandler runs set `CHECK_DEADLOCK FALSE`, because the process stops creating handlers, making calls or sending actions once its bound is reached.

## Mutants

Each property of a passing run has a mutant in `PROJECT.json`. The mutant is an operator defined just before the definition it replaces, marked `Mutant:` in its comment, and it breaks the property under the run's own configuration. Examples:
- a `countOut` taken from the count read before the increment;
- a reply queue shared by all calls;
- a consumer closed without destroying its temporary queue;
- a directory that is not cleared by `newBuffer`;
- a row stride of the chunk width instead of the frame width;
- a `transferImageDone` without its `started` check, which breaks the refinement;
- an `updateBuf` loop that never advances the source pointer;
- a `handle` that does not join the previous worker before it overwrites the shared id.

## Not modelled

- **FITS mirror** (`newMemFits`, the `useFits` branches): `useFits` is never set, so this is dead code.
- **Pixel arrays element by element**: each caller array carries one sample, since `updateBuf` treats every element of a row alike.
- **Byte layout of `buf`**: a cell is one pixel, so `newBuffer`'s `resize` keeps old content per cell, not per byte. A float frame after a 16-bit frame would see reinterpreted bytes where the model shows the old pixel. The properties judge only cells written in the current frame, so they do not tell the two apart.
- **Zero-area chunks**: `Chunks` has no chunk with width or height 0. Such a chunk writes nothing but is recorded in the directory; retrieval of it copies nothing.
- **Payload field values**: timestamps, header and WCS numbers, and the byte-truncating "compress" branch. Only which union member is selected matters to the properties.
- **RPC server creation and GIAPI status items** in `PVImageHandlerImpl`: these are I/O.
- **The unused `PVServer` class and the other example programs** (`ScorpioSeqCmdHandle.h`, `InstCmdHandler.h`, `InstDummyTest.cpp`, `ScorpioTest.cpp`, the status and EPICS test programs): these handlers answer from a switch over the command enum of `giapi.h`, which is not in this repository, and keep no state. In the Scorpio test, completions are typed in by the operator. A model would restate the switch table.
- **The `reply` message leak** in `sendOffset`: message ownership is not modelled.

## Plan for later work

- Reply-message ownership in `sendOffset`, to state the leak of line 77 as a property.
- A composition of `PVServer` with the agents of several handlers.

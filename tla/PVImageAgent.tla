---------------------------- MODULE PVImageAgent ----------------------------
(***************************************************************************)
(* The image transfer agent of src/data/PVImageAgent.{h,cpp}: the session *)
(* controller (startImageTransfer, transferWCS, transferImageData,         *)
(* transferImageDone, setCompressionPrefs), the published pvImageRecord    *)
(* (countIn, dtype, image union, countOut), the in-memory frame buffer     *)
(* with its chunk directory (PVImageBuffer::newBuffer, updateBuf,          *)
(* get_addr), and the RPC retrieval service (PVImageAgent::request).       *)
(*                                                                         *)
(* Every operation but setCompressionPrefs runs under pvMutex.  The        *)
(* record updates inside putHeader/putWCSHeader/putImageData/putDone/      *)
(* putCompressionPrefs are split into the steps another thread can         *)
(* interleave with: the read and the write of countIn, the copy of countIn *)
(* into countOut, the endGroupPut that publishes a snapshot to monitors,   *)
(* and the getCountIn() that transferImageData uses as chunk number.       *)
(*                                                                         *)
(* Pixel data is abstracted to its provenance: a buffer cell holds which   *)
(* transfer <<frame, count>> wrote it, the frame position the caller       *)
(* meant the pixel for, and the sample value stored.  Every sample of one *)
(* caller array has the same value, so a chunk's data is one number.      *)
(***************************************************************************)
EXTENDS Integers, Sequences, FiniteSets, SequencesExt

CONSTANTS
  Producer,      \* the thread driving the transfer lifecycle
  PrefsThreads,  \* further threads calling setCompressionPrefs
  Headers,       \* PVImageHeader arguments: [width, height, bitpix]
  Chunks,        \* PVImageData arguments: [xo, yo, x, y, width, height]
  Counts,        \* 'count' arguments of RPC requests
  MaxFrames,     \* bound on successful startImageTransfer calls
  MaxEvents,     \* bound on published monitor updates
  NONE

\* The caller's argument structs of giapi/PVImageHandler.h, with the name,
\* bscale, observing fields, WCS and cuts left out; 'pix' is the sample value
\* the caller's array holds when the program first passes it.
PVImageHeader == [width : Nat, height : Nat, bitpix : Int, bzero : Int]
PVImageData == [xo : Nat, yo : Nat, x : Nat, y : Nat, width : Nat, height : Nat,
                pix : Int]

ASSUME Producer \notin PrefsThreads
ASSUME MaxFrames \in Nat /\ MaxEvents \in Nat
ASSUME Headers \subseteq PVImageHeader /\ Chunks \subseteq PVImageData

Threads == {Producer} \cup PrefsThreads

\* CFITSIO bitpix codes and BYTEPIX of PVImageAgent.h
SHORT_IMG == 16
FLOAT_IMG == -32
Supported == {SHORT_IMG, FLOAT_IMG}
BYTEPIX(bp) == IF bp < 0 THEN (-bp) \div 8 ELSE bp \div 8

\* PV_Record_Type
PV_IMAGE_HEADER == 0
PV_IMAGE_DATA == 1
PV_IMAGE_DONE == 2
PV_COMPRESSION_DATA == 3
PV_WCS_DATA == 4

MaxCells == LET sizes == {h.width * h.height : h \in Headers}
            IN CHOOSE m \in sizes : \A s \in sizes : s <= m
CellRange == 0 .. (MaxCells - 1)
ZERO == [kind |-> "zero"]        \* a value-initialised element of std::vector<char>
GARBAGE == [kind |-> "garbage"]  \* bytes read from outside the vector

\* Members of the 'image' union; setFields leaves an empty subImage selected.
Member(name) == [member |-> name]
\* putImageData copies the caller's current samples (s) into the record.
SubImage(d, s) == [member |-> "subImage", sub |-> d, sample |-> s]
EmptySubImage == SubImage([xo |-> 0, yo |-> 0, x |-> 0, y |-> 0, width |-> 0,
                           height |-> 0, pix |-> 0], 0)

VARIABLES
  bitpix, bzero, width, height, started, \* PVImageBuffer / PVImageAgent members
  callerPix,                             \* callerPix[d]: samples now in d's caller array
  buf, bufLen, imageChunks,              \* frame buffer (bufLen in bytes) and directory
  overrun,                               \* an access outside buf has happened
  countIn, countOut, dtype, image,       \* pvImageRecord fields
  recBitpix,                             \* pvImageRecord header.bitpix
  lock, pc, op, arg, tmp,                \* pvMutex and the calling threads
  events,                                \* updates published to monitors
  frame,                                 \* number of buffers created so far
  reply                                  \* outcome of the last RPC request

agentVars == <<bitpix, bzero, width, height, started, buf, bufLen, imageChunks,
               overrun, callerPix>>
recordVars == <<countIn, countOut, dtype, image, recBitpix>>
threadVars == <<lock, pc, op, arg, tmp>>
vars == <<agentVars, recordVars, threadVars, events, frame, reply>>

Pixel == [kind : {"pixel"}, t : (0 .. MaxFrames) \X (0 .. MaxEvents + 1),
          pos : Nat \X Nat, val : Int]
IsPixel(v) == v.kind = "pixel"

\* Rectangle of (row, column) offsets covered by a chunk or directory entry.
Rect(d) == (0 .. d.height - 1) \X (0 .. d.width - 1)

\* The pixel at byte offset (k+1)*BYTEPIX lies inside buf.
InBuf(k) == (k + 1) * BYTEPIX(bitpix) <= bufLen

-----------------------------------------------------------------------------
(* PVImageBuffer                                                           *)

\* The store of 'isrc[j] += bzero' into an int16_t: the double sum is
\* converted to int16_t.  Out of range this is undefined in C++; the build
\* (cvttsd2si to a 32-bit register, low half stored) keeps the low 16 bits.
Int16(x) == ((x + 2^15) % 2^16) - 2^15

\* 'isrc[j] += bzero' (SHORT_IMG) or 'fsrc[j] += bzero' (FLOAT_IMG, exact
\* for the small integral samples of the model).
AddBias(v) == IF bitpix = SHORT_IMG THEN Int16(v + bzero) ELSE v + bzero

\* Mutant: rows advanced by the chunk's width instead of the frame's.
Addr_chunkStride(d, p) == (d.y + d.yo + p[1]) * d.width + d.x + d.xo + p[2]

\* get_addr(x, y, xo, yo) advanced by i rows of 'width' and j columns.
Addr(d, p) == (d.y + d.yo + p[1]) * width + d.x + d.xo + p[2]

\* Mutant: the directory is not cleared.
NewBuffer_keepChunks(h) ==
  LET len == h.width * h.height * BYTEPIX(h.bitpix)
  IN /\ bufLen' = len
     /\ buf' = [k \in CellRange |->
                  IF (k + 1) * BYTEPIX(h.bitpix) <= len THEN buf[k] ELSE ZERO]
     /\ UNCHANGED imageChunks

\* Mutant: the buffer is sized in pixels, not bytes.
NewBuffer_noBytePix(h) ==
  LET len == h.width * h.height
  IN /\ bufLen' = len
     /\ buf' = [k \in CellRange |->
                  IF (k + 1) * BYTEPIX(h.bitpix) <= len THEN buf[k] ELSE ZERO]
     /\ imageChunks' = [n \in {} |-> NONE]

\* newBuffer for a header with non-zero bitpix: buf.resize keeps the
\* elements below the new size and value-initialises the rest; the
\* directory is cleared.  useFits is never set, so no FITS file is made.
NewBuffer(h) ==
  LET len == h.width * h.height * BYTEPIX(h.bitpix)
  IN /\ bufLen' = len
     /\ buf' = [k \in CellRange |->
                  IF (k + 1) * BYTEPIX(h.bitpix) <= len THEN buf[k] ELSE ZERO]
     /\ imageChunks' = [n \in {} |-> NONE]

\* Mutant: the directory keeps the caller's whole PVImageData.
DirEntry_whole(d) == d

\* new PVImageChunk(c, 0, 0, x, y, width, height): the placement is kept
\* without the sub-frame offset.
DirEntry(d) == [x |-> d.x, y |-> d.y, width |-> d.width, height |-> d.height]

\* Mutant: 'isrc += imageData.width' is dropped, so every row re-reads the
\* chunk's first row, already biased by the rows before: row i holds the
\* sample biased i+1 times.
UpdateBuf_noSrcAdvance(d, c) ==
  LET RECURSIVE Biased(_, _)
      Biased(v, n) == IF n = 0 THEN v ELSE Biased(AddBias(v), n - 1)
      targets == {Addr(d, p) : p \in Rect(d)}
      last(k) == CHOOSE p \in Rect(d) :
                   /\ Addr(d, p) = k
                   /\ \A q \in Rect(d) : Addr(d, q) = k =>
                        q[1] < p[1] \/ (q[1] = p[1] /\ q[2] <= p[2])
  IN IF bitpix \notin Supported
     THEN UNCHANGED <<buf, imageChunks, overrun, callerPix>>
     ELSE /\ buf' = [k \in CellRange |->
                       IF k \in targets /\ InBuf(k)
                       THEN [kind |-> "pixel", t |-> <<frame, c>>,
                             pos |-> <<d.x + d.xo + last(k)[2], d.y + d.yo + last(k)[1]>>,
                             val |-> Biased(callerPix[d], last(k)[1] + 1)]
                       ELSE buf[k]]
          /\ callerPix' = [callerPix EXCEPT ![d] = Biased(@, d.height)]
          /\ overrun' = (overrun \/ \E k \in targets : ~InBuf(k))
          /\ imageChunks' = [n \in DOMAIN imageChunks \cup {c} |->
                               IF n = c
                               THEN DirEntry(d)
                               ELSE imageChunks[n]]

\* updateBuf(imageData, c): add bzero to each sample in the caller's array
\* and copy it row by row into buf at get_addr(x, y, xo, yo) with stride
\* 'width' (the last write to an element wins), then record directory
\* entry c with xo = yo = 0.  With an unsupported bitpix the switch throws
\* before the first element.
UpdateBuf(d, c) ==
  LET targets == {Addr(d, p) : p \in Rect(d)}
      last(k) == CHOOSE p \in Rect(d) :
                   /\ Addr(d, p) = k
                   /\ \A q \in Rect(d) : Addr(d, q) = k =>
                        q[1] < p[1] \/ (q[1] = p[1] /\ q[2] <= p[2])
  IN IF bitpix \notin Supported
     THEN UNCHANGED <<buf, imageChunks, overrun, callerPix>>
     ELSE /\ buf' = [k \in CellRange |->
                       IF k \in targets /\ InBuf(k)
                       THEN [kind |-> "pixel", t |-> <<frame, c>>,
                             pos |-> <<d.x + d.xo + last(k)[2], d.y + d.yo + last(k)[1]>>,
                             val |-> AddBias(callerPix[d])]
                       ELSE buf[k]]
          /\ callerPix' = [callerPix EXCEPT ![d] = AddBias(@)]
          /\ overrun' = (overrun \/ \E k \in targets : ~InBuf(k))
          /\ imageChunks' = [n \in DOMAIN imageChunks \cup {c} |->
                               IF n = c
                               THEN DirEntry(d)
                               ELSE imageChunks[n]]

-----------------------------------------------------------------------------
(* Thread steps                                                            *)

Release(t) == /\ lock' = NONE
              /\ pc' = [pc EXCEPT ![t] = "idle"]

\* Lock acquisition, beginGroupPut and the getCountIn() read of
\* 'countIn->put(getCountIn() + 1)'.
BeginPut(t, kind, a) ==
  /\ pc' = [pc EXCEPT ![t] = "incr"]
  /\ op' = [op EXCEPT ![t] = kind]
  /\ arg' = [arg EXCEPT ![t] = a]
  /\ tmp' = [tmp EXCEPT ![t] = countIn]

Idle(t) == pc[t] = "idle" /\ Len(events) < MaxEvents

\* startImageTransfer with bitpix 0: the agent members are assigned, then
\* newBuffer throws; no header is published and 'started' is unchanged.
StartImageTransferRejected(h) ==
  /\ Idle(Producer) /\ lock = NONE
  /\ h.bitpix = 0
  /\ bitpix' = h.bitpix /\ bzero' = h.bzero
  /\ width' = h.width /\ height' = h.height
  /\ UNCHANGED <<started, buf, bufLen, imageChunks, overrun, callerPix, recordVars,
                 threadVars, events, frame, reply>>

\* putHeader up to imageU->set(header): countIn is set to 1 (not
\* incremented) and header.bitpix is copied into the record.
PutHeader(h) ==
  /\ countIn' = 1 /\ dtype' = PV_IMAGE_HEADER /\ image' = Member("header")
  /\ recBitpix' = h.bitpix

\* startImageTransfer: assign the members, newBuffer, then putHeader.
StartImageTransfer(h) ==
  /\ Idle(Producer) /\ lock = NONE /\ frame < MaxFrames
  /\ h.bitpix # 0
  /\ bitpix' = h.bitpix /\ bzero' = h.bzero
  /\ width' = h.width /\ height' = h.height
  /\ NewBuffer(h)
  /\ frame' = frame + 1
  /\ PutHeader(h)
  /\ lock' = Producer
  /\ pc' = [pc EXCEPT ![Producer] = "out"]
  /\ op' = [op EXCEPT ![Producer] = PV_IMAGE_HEADER]
  /\ UNCHANGED <<started, overrun, callerPix, countOut, arg, tmp, events, reply>>

\* transferWCS: takes the lock; there is no 'started' check.
TransferWCS ==
  /\ Idle(Producer) /\ lock = NONE
  /\ lock' = Producer
  /\ BeginPut(Producer, PV_WCS_DATA, NONE)
  /\ UNCHANGED <<agentVars, recordVars, events, frame, reply>>

\* transferImageData: takes the lock; throws unless started.
TransferImageData(d) ==
  /\ Idle(Producer) /\ lock = NONE /\ started
  /\ lock' = Producer
  /\ BeginPut(Producer, PV_IMAGE_DATA, d)
  /\ UNCHANGED <<agentVars, recordVars, events, frame, reply>>

\* Mutant: transferImageDone without its 'if (!started) throw'.
TransferImageDone_noStarted ==
  /\ Idle(Producer) /\ lock = NONE
  /\ lock' = Producer
  /\ BeginPut(Producer, PV_IMAGE_DONE, NONE)
  /\ UNCHANGED <<agentVars, recordVars, events, frame, reply>>

\* transferImageDone: takes the lock; throws unless started.
TransferImageDone ==
  /\ Idle(Producer) /\ lock = NONE /\ started
  /\ lock' = Producer
  /\ BeginPut(Producer, PV_IMAGE_DONE, NONE)
  /\ UNCHANGED <<agentVars, recordVars, events, frame, reply>>

\* setCompressionPrefs: calls putCompressionPrefs without taking pvMutex.
SetCompressionPrefs(t) ==
  /\ Idle(t)
  /\ BeginPut(t, PV_COMPRESSION_DATA, NONE)
  /\ UNCHANGED <<lock, agentVars, recordVars, events, frame, reply>>

\* 'countIn->put(getCountIn() + 1)', the dtype put and the union member
\* selection.  putCompressionPrefs only writes header.scale, leaving the
\* union as it was.  putImageData with a bitpix other than SHORT_IMG or
\* FLOAT_IMG goes to endGroupPut without setting countOut.
Incr(t) ==
  /\ pc[t] = "incr"
  /\ countIn' = tmp[t] + 1
  /\ dtype' = op[t]
  /\ image' = CASE op[t] = PV_WCS_DATA -> Member("wcsHeader")
                [] op[t] = PV_IMAGE_DATA -> SubImage(arg[t], callerPix[arg[t]])
                [] op[t] = PV_IMAGE_DONE -> Member("close")
                [] op[t] = PV_COMPRESSION_DATA -> image
  /\ pc' = [pc EXCEPT ![t] =
              IF op[t] = PV_IMAGE_DATA /\ recBitpix \notin Supported
              THEN "pub" ELSE "out"]
  /\ UNCHANGED <<agentVars, countOut, recBitpix, lock, op, arg, tmp,
                 events, frame, reply>>

\* Mutant: countOut takes the count read before the increment.
CountOut_fromTmp(t) ==
  /\ pc[t] = "out"
  /\ countOut' = tmp[t]
  /\ pc' = [pc EXCEPT ![t] = "pub"]
  /\ UNCHANGED <<agentVars, countIn, dtype, image, recBitpix, lock, op, arg,
                 tmp, events, frame, reply>>

\* 'countOut->put(getCountIn())'
CountOut(t) ==
  /\ pc[t] = "out"
  /\ countOut' = countIn
  /\ pc' = [pc EXCEPT ![t] = "pub"]
  /\ UNCHANGED <<agentVars, countIn, dtype, image, recBitpix, lock, op, arg,
                 tmp, events, frame, reply>>

\* process(); endGroupPut(): monitors receive a snapshot of the record.
\* Then the caller finishes: startImageTransfer sets started,
\* transferImageDone clears it, putImageData goes on to getCountIn() or,
\* with an unsupported bitpix, throws.
Publish(t) ==
  /\ pc[t] = "pub"
  /\ events' = Append(events, [frame |-> frame, countIn |-> countIn,
                               countOut |-> countOut, dtype |-> dtype,
                               image |-> image])
  /\ \/ op[t] = PV_IMAGE_HEADER /\ started' = TRUE /\ Release(t)
     \/ op[t] = PV_IMAGE_DONE /\ started' = FALSE /\ Release(t)
     \/ op[t] = PV_WCS_DATA /\ Release(t) /\ UNCHANGED started
     \/ op[t] = PV_IMAGE_DATA /\ recBitpix \notin Supported
        /\ Release(t) /\ UNCHANGED started
     \/ op[t] = PV_IMAGE_DATA /\ recBitpix \in Supported
        /\ pc' = [pc EXCEPT ![t] = "ret"] /\ UNCHANGED <<started, lock>>
     \/ op[t] = PV_COMPRESSION_DATA
        /\ pc' = [pc EXCEPT ![t] = "idle"] /\ UNCHANGED <<started, lock>>
  /\ UNCHANGED <<width, height, bitpix, bzero, buf, bufLen, imageChunks, overrun,
                 callerPix, recordVars, op, arg, tmp, frame, reply>>

\* Mutant: the chunk is numbered with the count read before the increment.
UpdateBufStep_preIncrement(t) ==
  /\ pc[t] = "ret"
  /\ UpdateBuf(arg[t], tmp[t])
  /\ Release(t)
  /\ UNCHANGED <<bitpix, bzero, width, height, started, bufLen, recordVars, op,
                 arg, tmp, events, frame, reply>>

\* 'return getCountIn()' in putImageData, then updateBuf(imageData, c)
\* in transferImageData, and the lock is released.
UpdateBufStep(t) ==
  /\ pc[t] = "ret"
  /\ UpdateBuf(arg[t], countIn)
  /\ Release(t)
  /\ UNCHANGED <<bitpix, bzero, width, height, started, bufLen, recordVars, op,
                 arg, tmp, events, frame, reply>>

-----------------------------------------------------------------------------
(* PVImageAgent::request, the RPC service, runs under pvMutex.             *)

\* The chunk's rectangle read back at get_addr(x, y, 0, 0) with stride
\* 'width'.
ReadRect(e) ==
  [p \in Rect(e) |->
     LET k == (e.y + p[1]) * width + e.x + p[2]
     IN IF InBuf(k) THEN buf[k] ELSE GARBAGE]

RequestFound(n) ==
  /\ lock = NONE
  /\ n \in DOMAIN imageChunks /\ bitpix \in Supported
  /\ reply' = [count |-> n, status |-> "ok", frame |-> frame,
               tile |-> ReadRect(imageChunks[n])]
  /\ overrun' = (overrun \/ \E p \in Rect(imageChunks[n]) :
                   ~InBuf((imageChunks[n].y + p[1]) * width + imageChunks[n].x + p[2]))
  /\ UNCHANGED <<bitpix, bzero, width, height, started, buf, bufLen, imageChunks,
                 callerPix, recordVars, threadVars, events, frame>>

\* 'Failed to find image chunk', or 'Unsupported bitpix'.
RequestFailed(n) ==
  /\ lock = NONE
  /\ n \notin DOMAIN imageChunks \/ bitpix \notin Supported
  /\ reply' = [count |-> n,
               status |-> IF n \notin DOMAIN imageChunks THEN "notFound" ELSE "badBitpix",
               frame |-> frame, tile |-> <<>>]
  /\ UNCHANGED <<agentVars, recordVars, threadVars, events, frame>>

-----------------------------------------------------------------------------

\* PVImageBuffer(): bitpix, bzero, width and height 0, an empty vector
\* and directory.
BufferInit ==
  /\ bitpix = 0 /\ bzero = 0 /\ width = 0 /\ height = 0
  /\ buf = [k \in CellRange |-> ZERO] /\ bufLen = 0
  /\ imageChunks = [n \in {} |-> NONE]
  /\ overrun = FALSE

\* PVImageRecord::create and init(): every field of the new pvImage
\* structure is zero, and setFields leaves the subImage member selected.
RecordInit ==
  /\ countIn = 0 /\ countOut = 0 /\ dtype = 0 /\ image = EmptySubImage
  /\ recBitpix = 0

\* PVImageAgent(): 'started = false' and the record is created; pvMutex
\* is free and no caller is inside the agent.
Init ==
  /\ BufferInit /\ RecordInit
  /\ started = FALSE
  /\ callerPix = [d \in Chunks |-> d.pix]
  /\ lock = NONE
  /\ pc = [t \in Threads |-> "idle"]
  /\ op = [t \in Threads |-> NONE]
  /\ arg = [t \in Threads |-> NONE]
  /\ tmp = [t \in Threads |-> 0]
  /\ events = <<>>
  /\ frame = 0
  /\ reply = [count |-> 0, status |-> "none", frame |-> 0, tile |-> <<>>]

Next ==
  \/ \E h \in Headers : StartImageTransferRejected(h) \/ StartImageTransfer(h)
  \/ TransferWCS
  \/ \E d \in Chunks : TransferImageData(d)
  \/ TransferImageDone
  \/ \E t \in Threads : \/ SetCompressionPrefs(t)
                        \/ Incr(t) \/ CountOut(t) \/ Publish(t)
                        \/ UpdateBufStep(t)
  \/ \E n \in Counts : RequestFound(n) \/ RequestFailed(n)

Spec == Init /\ [][Next]_vars

-----------------------------------------------------------------------------
(* Properties                                                              *)

TypeOK ==
  /\ bitpix \in {h.bitpix : h \in Headers} \cup {0}
  /\ started \in BOOLEAN /\ overrun \in BOOLEAN
  /\ buf \in [CellRange -> Pixel \cup {ZERO}]
  /\ \A n \in DOMAIN imageChunks :
       n \in Nat /\ imageChunks[n] \in [x : Nat, y : Nat, width : Nat, height : Nat]
  /\ countIn \in Nat /\ countOut \in Nat
  /\ lock \in Threads \cup {NONE}
  /\ pc \in [Threads -> {"idle", "incr", "out", "pub", "ret"}]
  /\ frame \in 0 .. MaxFrames
  /\ reply.status \in {"none", "ok", "notFound", "badBitpix"}

\* Every update a monitor receives carries countOut = countIn; a HEADER
\* (putHeader) restarts the count at 1 and every other update carries the
\* previous update's count plus one, as subscribers rely on to detect
\* dropped or reordered updates (PVImageRecord::put* in PVImageAgent.cpp).
EventSequence ==
  \A i \in 1 .. Len(events) :
    /\ events[i].countOut = events[i].countIn
    /\ events[i].countIn =
         IF events[i].dtype = PV_IMAGE_HEADER THEN 1
         ELSE IF i = 1 THEN 1 ELSE events[i - 1].countIn + 1

\* Whenever pvMutex is free (so an RPC request could run), every DATA
\* update published in the current frame can be re-fetched: the chunk
\* directory filled by updateBuf has an entry under the update's countIn
\* with the update's position and size (transferImageData / request).
DataEventsRetrievable ==
  lock = NONE =>
    \A e \in ToSet(events) :
      e.frame = frame /\ e.dtype = PV_IMAGE_DATA =>
        /\ e.countIn \in DOMAIN imageChunks
        /\ imageChunks[e.countIn] = DirEntry(e.image.sub)

\* A successful RPC request for count n returns, for every pixel of the
\* DATA update n of that frame, this frame's pixel at the same frame
\* position as the pixel the update delivered (PVImageAgent::request
\* reading what updateBuf wrote).
RetrieveReturnsChunk ==
  reply.status = "ok" =>
    \E e \in ToSet(events) :
      /\ e.frame = reply.frame /\ e.dtype = PV_IMAGE_DATA /\ e.countIn = reply.count
      /\ DOMAIN reply.tile = Rect(e.image.sub)
      /\ \A p \in Rect(e.image.sub) :
           /\ IsPixel(reply.tile[p])
           /\ reply.tile[p].t[1] = reply.frame
           /\ reply.tile[p].pos = <<e.image.sub.x + e.image.sub.xo + p[2],
                                    e.image.sub.y + e.image.sub.yo + p[1]>>

\* While the agent holds a supported bitpix (so its width is that of the
\* buffer newBuffer made), every buffer element written in the current
\* frame holds the pixel that belongs at that element's (column, row) of
\* the width-wide raster: the tiles updateBuf copies land where the frame
\* assembles them.
BufferInPlace ==
  bitpix \in Supported =>
  \A k \in CellRange :
    IsPixel(buf[k]) /\ buf[k].t[1] = frame =>
      buf[k].pos = <<k % width, k \div width>>

\* The design's bias rule (spec 4.2): the sample plus bzero "computed in the
\* sample's native numeric type", 16-bit integer arithmetic for INT16 (a sum
\* past the int16 range wraps once: samples are int16 and |bzero| <= 2^16).
\* Written from the spec, independently of Int16 and AddBias.
SpecBias(v) ==
  LET sum == v + bzero
  IN IF bitpix # SHORT_IMG THEN sum
     ELSE CASE sum > 2^15 - 1 -> sum - 2^16
            [] sum < -(2^15)  -> sum + 2^16
            [] OTHER          -> sum

\* The DATA update of the current frame published under chunk number c.
DataEvent(c) ==
  {events[i] : i \in {j \in 1 .. Len(events) :
     events[j].frame = frame /\ events[j].dtype = PV_IMAGE_DATA /\
     events[j].countIn = c}}

\* Every buffer element written in the current frame holds the sample the
\* DATA update that wrote it published, with bzero added exactly once
\* (spec 4.2 and section 8: request reads back the chunk data "with bzero
\* added once per sample").  updateBuf biases the caller's rows in place
\* while it walks them with two strides, the chunk's width for the source
\* and the frame's for the buffer; a source row read twice, or a row of
\* another chunk, shows up as a wrong value.
BufferHoldsBiasedSamples ==
  bitpix \in Supported =>
  \A k \in CellRange :
    IsPixel(buf[k]) /\ buf[k].t[1] = frame =>
      \E e \in DataEvent(buf[k].t[2]) : buf[k].val = SpecBias(e.image.sample)

\* No write of updateBuf and no read of request touches memory outside
\* the buffer newBuffer sized (get_addr does no bounds check).
NoOverrun == ~overrun

-----------------------------------------------------------------------------
(* Refinement of FrameSession.  The producer's operation in flight is     *)
(* taken as already done: its event is published with the count it will  *)
(* carry, the session opens or closes, and a DATA chunk is in the         *)
(* directory.  Only the producer's operations are completed this way, so  *)
(* the mapping is meant for instances without PrefsThreads.               *)

InFlight == pc[Producer] \in {"incr", "out", "pub"}

\* The count the operation in flight publishes: putHeader has set it to 1,
\* the other puts write the count they read plus one.
PendingCount == IF pc[Producer] = "incr" THEN tmp[Producer] + 1 ELSE countIn

Logged(e) == [count |-> e.countIn, out |-> e.countOut, kind |-> e.dtype]

\* A DATA chunk not yet recorded by updateBuf, that updateBuf will record.
PendingChunk ==
  /\ op[Producer] = PV_IMAGE_DATA
  /\ pc[Producer] \in {"incr", "out", "pub", "ret"}
  /\ bitpix \in Supported /\ recBitpix \in Supported

\* The FrameSession variables, as the agent's state shows them.
SessionActive ==
  IF InFlight /\ op[Producer] = PV_IMAGE_HEADER THEN TRUE
  ELSE IF InFlight /\ op[Producer] = PV_IMAGE_DONE THEN FALSE
  ELSE started

SessionLog ==
  [i \in 1 .. Len(events) |-> Logged(events[i])]
  \o (IF InFlight
      THEN << [count |-> PendingCount, out |-> PendingCount,
               kind |-> op[Producer]] >>
      ELSE << >>)

SessionDirectory ==
  IF PendingChunk
  THEN [n \in DOMAIN imageChunks \cup {PendingCount} |->
          IF n = PendingCount THEN DirEntry(arg[Producer]) ELSE imageChunks[n]]
  ELSE imageChunks

Session == INSTANCE FrameSession WITH
  FirstCount <- 1, active <- SessionActive,
  seq <- IF InFlight THEN PendingCount ELSE countIn, log <- SessionLog,
  directory <- SessionDirectory,
  answer <- [count |-> reply.count, status |-> reply.status]

DocumentedSession == INSTANCE FrameSession WITH
  FirstCount <- 0, active <- SessionActive,
  seq <- IF InFlight THEN PendingCount ELSE countIn, log <- SessionLog,
  directory <- SessionDirectory,
  answer <- [count |-> reply.count, status |-> reply.status]

\* With the producer as the only caller, the agent implements the atomic
\* frame session numbered as the design numbers it (header 1, spec 4.1 and
\* the scenario of section 8): every pvMutex-protected operation
\* (startImageTransfer, transferWCS, transferImageData with updateBuf,
\* transferImageDone, setCompressionPrefs, request) is one FrameSession
\* step, DATA and DONE come only inside a session, counts follow the
\* sequence rule, and retrieval finds exactly the chunks of the current
\* session.
RefinesFrameSession == Session!Spec

\* PVImageHandler.h documents the count transferImageData returns as
\* '0=start, 1=first chunk': the same frame session, with the header
\* numbered 0 and the chunks from 1.
RefinesDocumentedNumbering == DocumentedSession!Spec

=============================================================================

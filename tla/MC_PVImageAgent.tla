-------------------------- MODULE MC_PVImageAgent --------------------------
(***************************************************************************)
(* Model-checking instances of PVImageAgent: a 2x2 frame delivered as      *)
(* rows and columns, in 16-bit and float pixels.                           *)
(***************************************************************************)
EXTENDS PVImageAgent

\* Frames a caller can announce with startImageTransfer.
HeadersSupported ==
  {[width |-> 2, height |-> 2, bitpix |-> SHORT_IMG, bzero |-> 32768],
   [width |-> 2, height |-> 2, bitpix |-> FLOAT_IMG, bzero |-> 1]}

\* Tiles of the 2x2 frame, none with a sub-frame offset; their samples are
\* 0, the int16 maximum and a negative value; with bzero 32768 the first two
\* overflow int16.
ChunksInFrame ==
  {[xo |-> 0, yo |-> 0, x |-> 0, y |-> 0, width |-> 2, height |-> 1, pix |-> 0],
   [xo |-> 0, yo |-> 0, x |-> 0, y |-> 1, width |-> 2, height |-> 1, pix |-> 32767],
   [xo |-> 0, yo |-> 0, x |-> 1, y |-> 0, width |-> 1, height |-> 2, pix |-> -5]}

CountsSmall == {2, 3}

\* A 16-bit frame and a frame with a bitpix newBuffer does not reject.
HeadersByteImg ==
  {[width |-> 2, height |-> 2, bitpix |-> SHORT_IMG, bzero |-> 32768],
   [width |-> 2, height |-> 2, bitpix |-> 8, bzero |-> 0]}

\* A 16-bit frame and a header whose bitpix 0 newBuffer rejects.
HeadersZeroBitpix ==
  {[width |-> 2, height |-> 2, bitpix |-> SHORT_IMG, bzero |-> 32768],
   [width |-> 1, height |-> 2, bitpix |-> 0, bzero |-> 0]}

\* Every kind of header: supported, accepted unsupported, rejected.
HeadersAll == HeadersSupported \cup HeadersByteImg \cup HeadersZeroBitpix

\* A row tile and a tile placed with a sub-frame offset xo = 1.
ChunksSubOffset ==
  {[xo |-> 0, yo |-> 0, x |-> 0, y |-> 0, width |-> 2, height |-> 1, pix |-> 0],
   [xo |-> 1, yo |-> 0, x |-> 0, y |-> 1, width |-> 1, height |-> 1, pix |-> 0]}

\* A row tile and a tile running past the right edge of row 0.
ChunksPastEdge ==
  {[xo |-> 0, yo |-> 0, x |-> 0, y |-> 1, width |-> 2, height |-> 1, pix |-> 0],
   [xo |-> 0, yo |-> 0, x |-> 1, y |-> 0, width |-> 2, height |-> 1, pix |-> 0]}

CountsOne == {2}
=============================================================================

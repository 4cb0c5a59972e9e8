---------------------------- MODULE FrameSession ----------------------------
(***************************************************************************)
(* What a PVImageAgent promises its callers, with every operation one      *)
(* atomic step: the frame session (IDLE/ACTIVE), the published sequence    *)
(* of events numbered by one counter that start resets to FirstCount and   *)
(* every other publish increments, the chunk directory of the current      *)
(* session and the answer of the retrieval service.  The design (spec 4.1  *)
(* and the scenario of section 8) numbers the header 1 and the first chunk *)
(* 2; PVImageHandler.h documents 0 and 1.                                  *)
(*                                                                         *)
(* Pixels, the frame buffer and the payload fields are left out.  As the   *)
(* code does (and unlike section 4.1 of the design), WCS and compression   *)
(* preferences are accepted in either session state.                       *)
(***************************************************************************)
EXTENDS Naturals, Sequences

CONSTANTS
  Chunks,     \* PVImageData values delivered (placement records)
  Counts,     \* chunk numbers asked of the retrieval service
  FirstCount  \* the number a session's header carries

VARIABLES
  active,     \* a frame session is open
  seq,        \* the last sequence number published
  log,        \* published events: [count, out, kind], in order
  directory,  \* chunk number -> placement, for the current session
  answer      \* last retrieval answer: [count, status]

vars == <<active, seq, log, directory, answer>>

HEADER == 0
DATA == 1
DONE == 2
COMPRESSION == 3
WCS == 4

\* The directory keeps where a chunk was placed, not its sub-offset.
Placement(d) == [x |-> d.x, y |-> d.y, width |-> d.width, height |-> d.height]

\* Publish one event carrying number n as both its in and its out count.
Emit(n, kind) ==
  /\ seq' = n
  /\ log' = Append(log, [count |-> n, out |-> n, kind |-> kind])

-----------------------------------------------------------------------------

\* start: a new session numbered from FirstCount, with an empty directory.
Start ==
  /\ Emit(FirstCount, HEADER)
  /\ active' = TRUE
  /\ directory' = [n \in {} |-> Placement(CHOOSE d \in Chunks : TRUE)]
  /\ UNCHANGED answer

\* transferWCS and setCompressionPrefs: one more event.
Annotate(kind) ==
  /\ Emit(seq + 1, kind)
  /\ UNCHANGED <<active, directory, answer>>

\* transferData: only in a session; the chunk is published and recorded
\* under the number it was published with.
Data(d) ==
  /\ active
  /\ Emit(seq + 1, DATA)
  /\ directory' = [n \in DOMAIN directory \cup {seq + 1} |->
                     IF n = seq + 1 THEN Placement(d) ELSE directory[n]]
  /\ UNCHANGED <<active, answer>>

\* done: only in a session, which it closes.
Done ==
  /\ active
  /\ Emit(seq + 1, DONE)
  /\ active' = FALSE
  /\ UNCHANGED <<directory, answer>>

\* retrieve(n): found exactly when n is in the current directory.
Retrieve(n) ==
  /\ answer' = [count |-> n,
                status |-> IF n \in DOMAIN directory THEN "ok" ELSE "notFound"]
  /\ UNCHANGED <<active, seq, log, directory>>

Init ==
  /\ active = FALSE
  /\ seq = 0
  /\ log = << >>
  /\ directory = [n \in {} |-> Placement(CHOOSE d \in Chunks : TRUE)]
  /\ answer = [count |-> 0, status |-> "none"]

Next ==
  \/ Start \/ Annotate(WCS) \/ Annotate(COMPRESSION) \/ Done
  \/ \E d \in Chunks : Data(d)
  \/ \E n \in Counts : Retrieve(n)

Spec == Init /\ [][Next]_vars

=============================================================================

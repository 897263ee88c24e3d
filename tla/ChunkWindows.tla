---------------------------- MODULE ChunkWindows ----------------------------
(***************************************************************************)
(* chunk_text: the tokens of a text are cut into overlapping windows, one  *)
(* per turn of the loop.  A window is the set of the positions of its      *)
(* tokens; what a window becomes as a text (offsets, strip) is left out.   *)
(***************************************************************************)
EXTENDS Integers

CONSTANTS
  TextLengths,  \* numbers of tokens to consider
  MinSize,      \* MIN_CHUNK_SIZE_TOKENS
  MaxSize       \* MAX_CHUNK_SIZE_TOKENS

ASSUME ChunkAssumption ==
  /\ TextLengths \subseteq Nat
  /\ MinSize \in Nat \ {0} /\ MaxSize \in Nat

VARIABLES
  len,       \* the number of tokens of the text
  size,      \* chunk_size_tokens
  overlap,   \* chunk_overlap_tokens
  start,     \* the first token of the next window
  last,      \* the bounds of the window appended last; <<0, 0>> before the first
  covered,   \* the tokens that are in a window
  pc         \* "check", "loop", "done" or "refused"

chunkVars == <<len, size, overlap, start, last, covered, pc>>

\* options.chunk_size_tokens and options.chunk_overlap_tokens are any numbers
ChunkInit ==
  /\ len \in TextLengths
  /\ size \in 0..(MaxSize + 1) /\ overlap \in (-1)..(MaxSize + 1)
  /\ start = 0 /\ last = <<0, 0>> /\ covered = {}
  /\ pc = "check"

ChunkTypeOK ==
  /\ len \in TextLengths
  /\ size \in 0..(MaxSize + 1) /\ overlap \in (-1)..(MaxSize + 1)
  /\ start \in Nat
  /\ last \in Nat \X Nat
  /\ covered \subseteq 0..(len - 1)
  /\ pc \in {"check", "loop", "done", "refused"}

-----------------------------------------------------------------------------
\* validate_chunk_options; a slip lets the overlap be the whole window
ValidSlack == size \in MinSize..MaxSize /\ overlap \in 0..size
Valid      == size \in MinSize..MaxSize /\ overlap \in 0..(size - 1)

Validate ==
  /\ pc = "check"
  /\ pc' = IF Valid THEN "loop" ELSE "refused"
  /\ UNCHANGED <<len, size, overlap, start, last, covered>>

\* min(start + size, len)
End == IF start + size <= len THEN start + size ELSE len

\* a slip: the next window begins one token after the step
StepWide == size - overlap + 1
Step     == size - overlap

\* a slip: the loop goes on while a window begins inside the text
LastWindowLate == start + Step >= len
LastWindow     == End >= len

Window ==
  /\ pc = "loop" /\ start < len
  /\ last' = <<start, End>>
  /\ covered' = covered \cup start..(End - 1)
  /\ IF LastWindow THEN pc' = "done" /\ UNCHANGED start
     ELSE start' = start + Step /\ UNCHANGED pc
  /\ UNCHANGED <<len, size, overlap>>

\* the text has no token: the loop is not entered
NoText ==
  /\ pc = "loop" /\ start >= len
  /\ pc' = "done"
  /\ UNCHANGED <<len, size, overlap, start, last, covered>>

ChunkStep == Validate \/ Window \/ NoText

ChunkNext == ChunkStep

ChunkSpec == ChunkInit /\ [][ChunkNext]_chunkVars /\ WF_chunkVars(ChunkStep)

-----------------------------------------------------------------------------
(***************************************************************************)
(* Properties.                                                             *)
(***************************************************************************)
\* When the loop ends every token of the text is in a window: nothing of a
\* document is lost between two windows or at its end.  Code: chunk.py 133-146.
EveryTokenInAWindow == pc = "done" => covered = 0..(len - 1)

\* No window lies inside the one before it: each brings a token that is new,
\* begins after the one before it, and overlaps it by chunk_overlap_tokens.  In
\* particular the last window is not a tail of the last but one.
\* Code: chunk.py 133-146.
EveryWindowIsNew ==
  [][last' # last /\ last # <<0, 0>> =>
       /\ last'[1] > last[1] /\ last'[2] > last[2]
       /\ last[2] - last'[1] = overlap]_chunkVars
=============================================================================

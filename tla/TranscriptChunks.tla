-------------------------- MODULE TranscriptChunks --------------------------
(***************************************************************************)
(* chunkTranscript: the overlapping windows an extraction reads a          *)
(* transcript through.  Each is cut at the last line break it holds when   *)
(* that leaves it half full; the next starts overlapChars before its end,  *)
(* and at least one character on.  One step is one turn of the loop.  A    *)
(* text is its length and the positions of its line breaks, from 0.        *)
(***************************************************************************)
EXTENDS Integers, Sequences, FiniteSets, FiniteSetsExt

CONSTANTS MaxText, MaxWindow

ASSUME ChunksAssumption == MaxText \in Nat /\ MaxWindow \in Nat

VARIABLES text,     \* [length, breaks]
          window,   \* [maxChars, overlapChars]
          chunks,   \* [offset, end] each, end exclusive
          cutFrom   \* where the next chunk starts; the length when all is cut

chunkVars == <<text, window, chunks, cutFrom>>

Texts   == UNION {[length : {n}, breaks : SUBSET (0..(n - 1))] : n \in 0..MaxText}
Windows == UNION {[maxChars : {m}, overlapChars : 0..(m - 1)] : m \in 1..MaxWindow}

(* A text that fits is one chunk, an empty one none. *)
ChunksInit ==
  /\ text \in Texts /\ window \in Windows
  /\ chunks = IF text.length \in 1..window.maxChars
              THEN <<[offset |-> 0, end |-> text.length]>> ELSE <<>>
  /\ cutFrom = IF text.length <= window.maxChars THEN text.length ELSE 0

Sooner(m, n) == IF m < n THEN m ELSE n
Later(m, n)  == IF m > n THEN m ELSE n

(* lastIndexOf looks at the position behind the window too. *)
CutAt(start) ==
  LET end == Sooner(start + window.maxChars, text.length)
      nl  == Max({-1} \cup {b \in text.breaks : b <= end})
  IN IF end < text.length /\ nl > start /\ 2 * (nl - start) >= window.maxChars
     THEN nl + 1 ELSE end

MutNextStart(start, end) == Later(end - window.overlapChars, start + window.maxChars)
NextStart(start, end) == Later(end - window.overlapChars, start + 1)

Cuts ==
  /\ cutFrom < text.length
  /\ LET end == CutAt(cutFrom)
     IN /\ chunks' = Append(chunks, [offset |-> cutFrom, end |-> end])
        /\ cutFrom' = IF end >= text.length THEN text.length ELSE NextStart(cutFrom, end)
  /\ UNCHANGED <<text, window>>

ChunksSpec == ChunksInit /\ [][Cuts]_chunkVars

---------------------------------------------------------------------------
(* Wherever the line breaks fall and however far the windows overlap, what has
   been cut leaves no character out and repeats none beyond the overlap: each
   chunk starts past the start of the one before it, at or before its end, and
   never ends sooner; once all is cut the last one ends the transcript.  None is
   more than one character over the window. *)
ChunksCover ==
  /\ \A i \in DOMAIN chunks :
       /\ chunks[i].offset < chunks[i].end
       /\ chunks[i].end <= chunks[i].offset + window.maxChars + 1
  /\ \A i \in 1..(Len(chunks) - 1) :
       /\ chunks[i].offset < chunks[i + 1].offset
       /\ chunks[i + 1].offset \in (chunks[i].end - window.overlapChars)..chunks[i].end
       /\ chunks[i].end <= chunks[i + 1].end
  /\ chunks # <<>> => chunks[1].offset = 0
  /\ cutFrom = text.length /\ text.length > 0 =>
       chunks # <<>> /\ chunks[Len(chunks)].end = text.length

(* What chunk-transcript.ts:9 says of maxChars: a hard ceiling on the length of a
   chunk.  Broken: a line break right behind the window is taken into it. *)
CeilingKept ==
  \A i \in DOMAIN chunks : chunks[i].end - chunks[i].offset <= window.maxChars
=============================================================================

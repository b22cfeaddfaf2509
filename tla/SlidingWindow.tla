---------------------------- MODULE SlidingWindow ----------------------------
(***************************************************************************)
(* lib/Lintian/SlidingWindow.pm, readwindow(): a file is searched for      *)
(* texts without ever holding more of it than two blocks.                  *)
(*                                                                         *)
(* A piece of text is the pair of the positions where it begins and ends,  *)
(* counted in the text that blocksub makes of the file.  That may be       *)
(* longer or shorter than what was read (lc of a wide character).          *)
(*                                                                         *)
(* The names differ from those of PipedTar: StreamProofs extends both.     *)
(***************************************************************************)
EXTENDS Integers, FiniteSets

CONSTANTS
    BlockSize,  \* the sizes of blocks considered
    Size,       \* the sizes of files considered
    Change      \* and by how much blocksub may change the length of a block

ASSUME WindowAssumption ==
    BlockSize \subseteq Nat \ {0} /\ Size \subseteq Nat /\ Change \subseteq Nat

VARIABLES
    blocksize, size, change,    \* (input)
    offset,             \* how far the file is read
    made,               \* how much text came of it
    blocknumber,
    queue,              \* the two blocks
    windows,            \* history: the windows returned
    ended               \* no window is left: "no", "eof", or "died"

inputs == <<blocksize, size, change>>
windowVars == <<inputs, offset, made, blocknumber, queue, windows, ended>>

Piece == {p \in Nat \X Nat : p[1] <= p[2]}
Length(p) == p[2] - p[1]
Smaller(a, b) == IF a < b THEN a ELSE b

WindowTypeOK ==
    /\ blocksize \in BlockSize /\ size \in Size /\ change \in Change
    /\ offset \in 0 .. size /\ made \in Nat
    /\ blocknumber \in Nat \cup {-1} /\ queue \in Piece \X Piece
    /\ windows \subseteq Piece /\ ended \in {"no", "eof", "died"}

WindowInit ==
    /\ blocksize \in BlockSize /\ size \in Size /\ change \in Change /\ offset = 0 /\ made = 0
    /\ blocknumber = -1 /\ queue = <<<<0, 0>>, <<0, 0>>>>
    /\ windows = {} /\ ended = "no"

First == blocknumber < 0

\* How many bytes a call reads: at first twice as many.
Wanted == Smaller(IF First THEN 2 * blocksize ELSE blocksize, size - offset)

\* Mutant: the second half of the first text is not kept.
QueuedHalf(p) ==
    IF First /\ blocksize < Length(p)
    THEN <<<<0, blocksize>>, <<p[2], p[2]>>>> ELSE <<queue[2], p>>

\* The queue after the text p has come in.
Queued(p) ==
    IF First /\ blocksize < Length(p)
    THEN <<<<0, blocksize>>, <<blocksize, p[2]>>>> ELSE <<queue[2], p>>

ReadWindow ==
    /\ ended = "no" /\ Wanted > 0
    /\ \E length \in (Wanted - change) .. (Wanted + change) :
          /\ length > 0 /\ made' = made + length
          /\ queue' = Queued(<<made, made'>>)
    /\ offset' = offset + Wanted /\ blocknumber' = blocknumber + 1
    /\ windows' = windows \cup {<<queue'[1][1], queue'[2][2]>>}
    /\ UNCHANGED <<inputs, ended>>

EndOfFile ==
    /\ ended = "no" /\ Wanted = 0 /\ ended' = "eof"
    /\ UNCHANGED <<inputs, offset, made, blocknumber, queue, windows>>

ReadFails ==
    /\ ended = "no" /\ ended' = "died"
    /\ UNCHANGED <<inputs, offset, made, blocknumber, queue, windows>>

WindowTerminated == ended # "no" /\ UNCHANGED windowVars

WindowNext == ReadWindow \/ EndOfFile \/ ReadFails \/ WindowTerminated

WindowSpec == WindowInit /\ [][WindowNext]_windowVars

-----------------------------------------------------------------------------
\* "Each window consists of up to two blocks": it is one piece of text, the
\* older block and the newer, and longer than two blocks only by what blocksub
\* adds to them.
WindowsAreTwoBlocks ==
    /\ queue[1][2] = queue[2][1] /\ queue[2][2] = made
    /\ \A w \in windows : Length(w) <= 2 * (blocksize + change)

\* A pattern that matches a text of up to a block, wherever it lies and over
\* whatever boundaries, finds it in some window; less what blocksub may take
\* from a block, which its callers take care is nothing.
NothingEscapes ==
    \A a \in 0 .. made, b \in 0 .. made :
        a < b /\ b - a <= blocksize - change => \E w \in windows : w[1] <= a /\ b <= w[2]
=============================================================================

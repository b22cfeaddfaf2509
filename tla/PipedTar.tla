------------------------------- MODULE PipedTar -------------------------------
(***************************************************************************)
(* lib/Lintian/IO/Select.pm, unpack_and_index_piped_tar: a producer        *)
(* (dpkg-deb or a decompressor) writes an archive to a pipe; the parent    *)
(* copies what it reads to three tar processes, one that extracts and two  *)
(* that list, and collects most of what they print.  Everything goes       *)
(* through pipes of bounded size; the parent's reads come from select, its *)
(* writes block.                                                           *)
(*                                                                         *)
(* Pipes hold chunks: what one sysread of the parent returns.  The         *)
(* children are external; that they print, and when, is chosen freely.     *)
(***************************************************************************)
EXTENDS Integers, Sequences, FiniteSets

CONSTANTS
    ReaderOrder,    \* the readers in the order in which they are given the buffer:
                    \* in the code <<"extract", "named", "numeric">>
    Archive,        \* chunks in the archive
    PipeSize,       \* chunks that fit into a pipe
    FileNo,         \* file numbers of the handles: can_read returns them in order
    Yields,         \* what a chunk of archive may make each reader print:
                    \* chunks of <<standard output, standard error>>
    Mortal          \* readers that may die at any time

Reader == {ReaderOrder[i] : i \in DOMAIN ReaderOrder}
Process == {"produce"} \cup Reader

\* The handles the parent reads from.
Out(p) == <<p, "stdout">>
Err(p) == <<p, "stderr">>
Handle == Process \X {"stdout", "stderr"}

\* The handles that the loop reads but has no branch for: what comes from them
\* goes nowhere.
Dropped == {Out("extract"), Err("numeric")}

ASSUME TarAssumption ==
    /\ ReaderOrder \in Seq(Reader) \ {<<>>} /\ "produce" \notin Reader
    /\ \A i, j \in DOMAIN ReaderOrder : ReaderOrder[i] = ReaderOrder[j] => i = j
    /\ Archive \in Nat /\ PipeSize \in Nat \ {0, 1}
    /\ FileNo \in [Handle -> Nat] /\ \A h, g \in Handle : FileNo[h] = FileNo[g] => h = g
    /\ Yields \in [Reader -> SUBSET (Nat \X Nat)] /\ Mortal \subseteq Reader

VARIABLES
    pipe,           \* chunks in the pipe behind each handle
    stdin,          \* chunks in the pipe to each reader
    stdin_open,     \* readers whose standard input the parent has not closed
    running,        \* processes that have not exited
    left,           \* chunks the producer has not written yet
    pending,        \* chunks still to print to each handle before reading on
    pc, select,     \* the parent: where it is, and its $select
    ready,          \* @ready, what is left of it
    to_write,       \* readers still to be given the buffer
    collected,      \* chunks appended to a string, or passed on to the readers
    died,           \* history: readers that died
    verbose,        \* history: a chunk made a reader print more than a chunk
    consumed,       \* history: chunks of archive each reader has read
    printed         \* history: chunks each process has written to each handle

children == <<running, left, pending, died, verbose, consumed, printed>>
parent == <<pc, select, ready, to_write, collected>>
vars == <<pipe, stdin, stdin_open, children, parent>>

TypeOK ==
    /\ pipe \in [Handle -> 0..PipeSize] /\ stdin \in [Reader -> 0..PipeSize]
    /\ stdin_open \subseteq Reader /\ running \subseteq Process
    /\ left \in 0..Archive /\ pending \in [Handle -> Nat]
    /\ died \subseteq Mortal \ running /\ verbose \in BOOLEAN
    /\ pc \in {"select", "handle", "write", "wait", "done"}
    /\ ready \subseteq select /\ select \subseteq Handle /\ to_write \in Seq(Reader)
    /\ collected \in [Handle -> Nat]
    /\ consumed \in [Reader -> Nat] /\ printed \in [Handle -> Nat]

Init ==
    /\ pipe = [h \in Handle |-> 0] /\ stdin = [r \in Reader |-> 0] /\ stdin_open = Reader
    /\ running = Process /\ left = Archive /\ pending = [h \in Handle |-> 0]
    /\ died = {} /\ verbose = FALSE
    /\ pc = "select" /\ select = Handle /\ ready = {} /\ to_write = <<>>
    /\ collected = [h \in Handle |-> 0]
    /\ consumed = [r \in Reader |-> 0] /\ printed = [h \in Handle |-> 0]

Put(h) == pipe[h] < PipeSize /\ pipe' = [pipe EXCEPT ![h] = @ + 1]
          /\ printed' = [printed EXCEPT ![h] = @ + 1]

-----------------------------------------------------------------------------
\* The children: the producer writes the archive, a reader takes a chunk and
\* prints what it makes of it before it takes the next, and each exits when
\* there is nothing more to do.

Produce ==
    /\ "produce" \in running /\ left > 0 /\ Put(Out("produce")) /\ left' = left - 1
    /\ UNCHANGED <<stdin, stdin_open, running, pending, died, verbose, consumed, parent>>

Idle(r) == pending[Out(r)] = 0 /\ pending[Err(r)] = 0

Take(r) ==
    /\ r \in running /\ stdin[r] > 0 /\ Idle(r)
    /\ stdin' = [stdin EXCEPT ![r] = @ - 1] /\ consumed' = [consumed EXCEPT ![r] = @ + 1]
    /\ \E y \in Yields[r] :
          /\ pending' = [pending EXCEPT ![Out(r)] = y[1], ![Err(r)] = y[2]]
          /\ verbose' = (verbose \/ y[1] > 1 \/ y[2] > 1)
    /\ UNCHANGED <<pipe, stdin_open, running, left, died, printed, parent>>

PrintLine(h) ==
    /\ h[1] \in running /\ pending[h] > 0 /\ Put(h) /\ pending' = [pending EXCEPT ![h] = @ - 1]
    /\ UNCHANGED <<stdin, stdin_open, running, left, died, verbose, consumed, parent>>

\* The producer may give up before the end; a reader exits when its input ends.
Exit(p) ==
    /\ p \in running
    /\ p \in Reader => stdin[p] = 0 /\ p \notin stdin_open /\ Idle(p)
    /\ running' = running \ {p}
    /\ UNCHANGED <<pipe, stdin, stdin_open, left, pending, died, verbose, consumed, printed, parent>>

Die(r) ==
    /\ r \in running \cap Mortal /\ running' = running \ {r} /\ died' = died \cup {r}
    /\ UNCHANGED <<pipe, stdin, stdin_open, left, pending, verbose, consumed, printed, parent>>

-----------------------------------------------------------------------------
\* The parent.

\* can_read: data, or the end of the file.
Readable(h) == pipe[h] > 0 \/ h[1] \notin running

\* Mutant: what a reader complains is left for when the archive is through.
SelectComplaintsLast ==
    /\ pc = "select" /\ select # {}
    /\ ready' = {h \in select : Readable(h) /\ (h[2] = "stderr" => Out("produce") \notin select)}
    /\ ready' # {} /\ pc' = "handle"
    /\ UNCHANGED <<pipe, stdin, stdin_open, children, select, to_write, collected>>

Select ==
    /\ pc = "select" /\ select # {}
    /\ ready' = {h \in select : Readable(h)} /\ ready' # {}
    /\ pc' = "handle"
    /\ UNCHANGED <<pipe, stdin, stdin_open, children, select, to_write, collected>>

Turn(h) ==
    /\ pc = "handle" /\ h \in ready /\ \A g \in ready : FileNo[h] <= FileNo[g]
    /\ ready' = ready \ {h}
Resume == IF ready' = {} THEN "select" ELSE "handle"

\* Mutant: the standard input of the last reader stays open.
AtEndForgetsLast(h) ==
    /\ Turn(h) /\ pipe[h] = 0
    /\ stdin_open' = IF h = Out("produce") THEN {ReaderOrder[Len(ReaderOrder)]} ELSE stdin_open
    /\ select' = select \ {h} /\ pc' = Resume
    /\ UNCHANGED <<pipe, stdin, children, to_write, collected>>

\* sysread returns 0.
AtEnd(h) ==
    /\ Turn(h) /\ pipe[h] = 0
    /\ stdin_open' = IF h = Out("produce") THEN {} ELSE stdin_open
    /\ select' = select \ {h} /\ pc' = Resume
    /\ UNCHANGED <<pipe, stdin, children, to_write, collected>>

Read(h) ==
    /\ Turn(h) /\ pipe[h] > 0
    /\ pipe' = [pipe EXCEPT ![h] = @ - 1]
    /\ IF h = Out("produce")
       THEN pc' = "write" /\ to_write' = ReaderOrder
       ELSE pc' = Resume /\ UNCHANGED to_write
    /\ collected' = IF h \in Dropped THEN collected ELSE [collected EXCEPT ![h] = @ + 1]
    /\ UNCHANGED <<stdin, stdin_open, children, select>>

\* print blocks while the pipe is full; to a reader that is gone it fails, and
\* nobody looks (SIGPIPE is ignored in bin/lintian).
CanPrint(r) == r \notin running \/ stdin[r] < PipeSize
NextInLine == IF to_write' # <<>> THEN "write" ELSE IF ready = {} THEN "select" ELSE "handle"

\* Mutant: the pipe takes more than it holds.
PrintAnyway ==
    /\ pc = "write" /\ to_write # <<>>
    /\ stdin' = [stdin EXCEPT ![Head(to_write)] = @ + 1]
    /\ to_write' = Tail(to_write) /\ pc' = NextInLine
    /\ UNCHANGED <<pipe, stdin_open, children, select, ready, collected>>

PrintBuffer ==
    /\ pc = "write" /\ to_write # <<>> /\ CanPrint(Head(to_write))
    /\ LET r == Head(to_write) IN
          stdin' = IF r \in running THEN [stdin EXCEPT ![r] = @ + 1] ELSE stdin
    /\ to_write' = Tail(to_write) /\ pc' = NextInLine
    /\ UNCHANGED <<pipe, stdin_open, children, select, ready, collected>>

\* Mutant: the loop is left when there is nothing more to unpack.
EndLoopWithProducer ==
    /\ pc = "select" /\ Out("produce") \notin select /\ pc' = "wait"
    /\ UNCHANGED <<pipe, stdin, stdin_open, children, select, ready, to_write, collected>>

EndLoop ==
    /\ pc = "select" /\ select = {} /\ pc' = "wait"
    /\ UNCHANGED <<pipe, stdin, stdin_open, children, select, ready, to_write, collected>>

\* waitpid for all of them.
Reap ==
    /\ pc = "wait" /\ running = {} /\ pc' = "done"
    /\ UNCHANGED <<pipe, stdin, stdin_open, children, select, ready, to_write, collected>>

Parent == Select \/ (\E h \in Handle : AtEnd(h) \/ Read(h)) \/ PrintBuffer \/ EndLoop \/ Reap
Child(p) == (p = "produce" /\ Produce) \/ (p \in Reader /\ Take(p))
            \/ PrintLine(Out(p)) \/ PrintLine(Err(p)) \/ Exit(p)

Terminated == pc = "done" /\ UNCHANGED vars
Next == Parent \/ (\E p \in Process : Child(p)) \/ (\E r \in Reader : Die(r)) \/ Terminated

\* The operating system runs every process that can go on.
Spec == Init /\ [][Next]_vars /\ WF_vars(Parent) /\ \A p \in Process : WF_vars(Child(p))

-----------------------------------------------------------------------------
\* What r has of the archive, and whether the buffer is still to come.
Given(r) == consumed[r] + stdin[r]
Waiting(r) == \E i \in DOMAIN to_write : to_write[i] = r

\* Every reader that lives is given all of what was read of the archive, in
\* step with the others, and has read all of it in the end; one that dies
\* takes nothing away from them.  Every handle is read to its end, and nothing
\* is lost of what a child printed, before or after the producer ended, to
\* those that are collected.
EverythingArrives ==
    /\ \A r \in Reader \ died :
          Given(r) = collected[Out("produce")] - (IF Waiting(r) THEN 1 ELSE 0)
    /\ pc = "done" => \A r \in Reader \ died : consumed[r] = printed[Out("produce")]
    /\ pc \in {"wait", "done"} =>
          /\ running = {}
          /\ \A h \in Handle : pipe[h] = 0 /\ (h \notin Dropped => collected[h] = printed[h])

\* The parent writes to a reader that waits for the parent to read.
Stuck == pc = "write" /\ ~CanPrint(Head(to_write))
         /\ \E h \in {Out(Head(to_write)), Err(Head(to_write))} :
               pending[h] > 0 /\ pipe[h] = PipeSize

\* The parent and a reader wait for each other only when some chunk made the
\* reader print more than it read.
StuckOnlyOnLongListings == Stuck => verbose

\* Unpacking ends, whoever dies, unless that happens.
UnpackingEnds == <>(pc = "done" \/ verbose)
=============================================================================

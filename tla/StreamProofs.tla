----------------------------- MODULE StreamProofs -----------------------------
(***************************************************************************)
(* Proofs about the two parts that handle a stream piece by piece:         *)
(* PipedTar, for archives and pipes of every size, any number of readers,  *)
(* whatever they print and whichever of them die; and SlidingWindow, for   *)
(* blocks and files of every size.                                         *)
(***************************************************************************)
EXTENDS PipedTar, SlidingWindow, TLAPS

-----------------------------------------------------------------------------
\* Where the parent is, and what it still has in hand there.
ControlInv ==
    /\ pc = "write" <=> to_write # <<>>
    /\ pc \in {"select", "wait", "done"} => ready = {}
    /\ pc \in {"wait", "done"} => select = {}
    /\ pc = "done" => running = {}
    /\ \A i, j \in DOMAIN to_write : to_write[i] = to_write[j] => i = j
    /\ to_write # <<>> => Out("produce") \in select \ ready

\* The parent lets go of a handle only when nothing can come from it any more.
HandleInv ==
    /\ stdin_open = IF Out("produce") \in select THEN Reader ELSE {}
    /\ \A h \in ready : Readable(h)
    /\ \A h \in Handle \ select : pipe[h] = 0 /\ h[1] \notin running

\* What was written is in a pipe or was read; a reader that ended in peace had
\* read everything, and the end.
CountInv ==
    /\ \A h \in Handle \ Dropped : printed[h] = collected[h] + pipe[h]
    /\ \A r \in Reader \ died :
          Given(r) = collected[Out("produce")] - (IF Waiting(r) THEN 1 ELSE 0)
    /\ \A r \in Reader \ (died \cup running) : stdin[r] = 0 /\ Out("produce") \notin select

\* While nothing verbose was read: what is on the way from the parent through a
\* reader and back, a chunk of listing for each chunk of archive.  Of what is
\* readable when a round begins the parent reads a chunk before the next one, and
\* it writes at most one: so the way fills up to a little more than one pipe.
OnTheWay(r, h) == stdin[r] + pending[h] + pipe[h]
ToCome(r) == Out("produce") \in ready \/ Waiting(r)
Slack(r, h) == (IF h \in ready THEN 1 ELSE 0) + (IF ToCome(r) THEN 0 ELSE 1)
LagInv ==
    ~verbose => \A r \in Reader \cap running : \A h \in {Out(r), Err(r)} :
        pending[h] <= 1 /\ OnTheWay(r, h) <= PipeSize + 1 + Slack(r, h)

IInv == TypeOK /\ ControlInv /\ HandleInv /\ CountInv /\ LagInv

LEMMA Handles ==
    /\ \A p \in Process : /\ Out(p) \in Handle /\ Err(p) \in Handle
                          /\ Out(p)[1] = p /\ Err(p)[1] = p /\ Out(p) # Err(p)
    /\ \A p, q \in Process : p # q => Out(p) # Out(q) /\ Err(p) # Err(q) /\ Out(p) # Err(q)
    /\ \A h \in Handle : h[1] \in Process /\ h \in {Out(h[1]), Err(h[1])}
    /\ Reader \subseteq Process /\ "produce" \in Process /\ "produce" \notin Reader
    /\ Out("produce") \notin Dropped
  BY TarAssumption DEF Out, Err, Handle, Process, Dropped

LEMMA Sizes == Archive \in Nat /\ PipeSize \in Nat /\ PipeSize > 1
  BY TarAssumption

LEMMA Order ==
    /\ ReaderOrder \in Seq(Reader) /\ ReaderOrder # <<>>
    /\ \A i, j \in DOMAIN ReaderOrder : ReaderOrder[i] = ReaderOrder[j] => i = j
    /\ \A r \in Reader : \E i \in DOMAIN ReaderOrder : ReaderOrder[i] = r
  BY TarAssumption DEF Reader

\* The readers still to be given the buffer, after one of them was.
LEMMA NextReader ==
    ASSUME NEW s \in Seq(Reader), s # <<>>, \A i, j \in DOMAIN s : s[i] = s[j] => i = j
    PROVE  /\ Head(s) \in Reader /\ Tail(s) \in Seq(Reader)
           /\ \A i, j \in DOMAIN Tail(s) : Tail(s)[i] = Tail(s)[j] => i = j
           /\ \E i \in DOMAIN s : s[i] = Head(s)
           /\ \A r : (\E i \in DOMAIN Tail(s) : Tail(s)[i] = r)
                     <=> r # Head(s) /\ \E i \in DOMAIN s : s[i] = r
  <1>1. Len(s) \in Nat /\ Len(s) > 0 /\ DOMAIN s = 1 .. Len(s) /\ Head(s) = s[1] /\ s[1] \in Reader
    OBVIOUS
  <1>2. /\ Tail(s) \in Seq(Reader) /\ DOMAIN Tail(s) = 1 .. Len(s) - 1
        /\ \A i \in 1 .. Len(s) - 1 : Tail(s)[i] = s[i + 1]
    BY <1>1
  <1>3. ASSUME NEW r, NEW i \in DOMAIN Tail(s), Tail(s)[i] = r
        PROVE  r # Head(s) /\ \E k \in DOMAIN s : s[k] = r
    BY <1>1, <1>2, <1>3
  <1>4. ASSUME NEW r, NEW i \in DOMAIN s, s[i] = r, r # Head(s)
        PROVE  \E k \in DOMAIN Tail(s) : Tail(s)[k] = r
    <2>1. i - 1 \in DOMAIN Tail(s) /\ Tail(s)[i - 1] = s[i]
      BY <1>1, <1>2, <1>4
    <2>2. QED BY <1>4, <2>1
  <1>5. QED BY <1>1, <1>2, <1>3, <1>4, SMTT(30)

LEMMA InitInv == Init => IInv
  <1> SUFFICES ASSUME Init PROVE IInv OBVIOUS
  <1>1. TypeOK
    <2>1. /\ pipe \in [Handle -> 0 .. PipeSize] /\ stdin \in [Reader -> 0 .. PipeSize]
          /\ left \in 0 .. Archive /\ pending \in [Handle -> Nat] /\ collected \in [Handle -> Nat]
          /\ consumed \in [Reader -> Nat] /\ printed \in [Handle -> Nat]
      BY Sizes DEF Init
    <2>2. to_write \in Seq(Reader)
      BY DEF Init
    <2>3. QED BY <2>1, <2>2 DEF Init, TypeOK, Process
  <1>2. ControlInv
    BY DEF Init, ControlInv
  <1>3. HandleInv
    BY Handles DEF Init, HandleInv
  <1>4. CountInv
    BY Handles DEF Init, CountInv, Given, Waiting
  <1>5. LagInv
    BY Handles, Sizes DEF Init, LagInv, OnTheWay, Slack, ToCome
  <1>6. QED BY <1>1, <1>2, <1>3, <1>4, <1>5 DEF IInv

-----------------------------------------------------------------------------
\* The steps of the children leave the parent alone.

LEMMA ProduceKeeps == ASSUME IInv, Produce PROVE IInv'
  <1> DEFINE o == Out("produce")
  <1>1. /\ left' = left - 1 /\ left > 0 /\ pipe[o] < PipeSize /\ "produce" \in running /\ o \in Handle
        /\ pipe' = [pipe EXCEPT ![o] = @ + 1] /\ printed' = [printed EXCEPT ![o] = @ + 1]
        /\ UNCHANGED <<stdin, stdin_open, running, pending, died, verbose, consumed>>
        /\ UNCHANGED <<pc, select, ready, to_write, collected>>
    BY Handles DEF Produce, Put, parent
  <1>2. TypeOK'
    BY <1>1, Sizes, SMTT(30) DEF IInv, TypeOK
  <1>3. ControlInv'
    BY <1>1 DEF IInv, ControlInv
  <1>4. HandleInv'
    <2>1. /\ o[1] = "produce" /\ o \in select
          /\ \A h \in Handle \ {o} : pipe'[h] = pipe[h]
          /\ pipe'[o] = pipe[o] + 1 /\ pipe[o] \in Nat
      BY <1>1, Handles DEF IInv, TypeOK, HandleInv
    <2>2. \A h \in Handle : pipe[h] > 0 => pipe'[h] > 0
      BY <2>1
    <2>3. QED BY <1>1, <2>1, <2>2 DEF IInv, TypeOK, HandleInv, Readable
  <1>5. CountInv'
    BY <1>1 DEF IInv, TypeOK, CountInv, Given, Waiting
  <1>6. \A r \in Reader : o # Out(r) /\ o # Err(r)
    BY Handles
  <1>7. LagInv'
    <2>1. \A r \in Reader : \A h \in {Out(r), Err(r)} : pipe'[h] = pipe[h]
      BY <1>1, <1>6, Handles DEF IInv, TypeOK
    <2>2. QED BY <1>1, <2>1 DEF IInv, LagInv, OnTheWay, Slack, ToCome, Waiting
  <1>8. QED BY <1>2, <1>3, <1>4, <1>5, <1>7 DEF IInv

LEMMA TakeKeeps == ASSUME IInv, NEW r \in Reader, Take(r) PROVE IInv'
  <1>1. PICK y \in Yields[r] :
          /\ pending' = [pending EXCEPT ![Out(r)] = y[1], ![Err(r)] = y[2]]
          /\ verbose' = (verbose \/ y[1] > 1 \/ y[2] > 1)
    BY DEF Take
  <1>2. /\ r \in running /\ stdin[r] > 0 /\ pending[Out(r)] = 0 /\ pending[Err(r)] = 0
        /\ stdin' = [stdin EXCEPT ![r] = @ - 1] /\ consumed' = [consumed EXCEPT ![r] = @ + 1]
        /\ UNCHANGED <<pipe, stdin_open, running, left, died, printed>>
        /\ UNCHANGED <<pc, select, ready, to_write, collected>>
    BY DEF Take, Idle, parent
  <1>3. /\ y[1] \in Nat /\ y[2] \in Nat
        /\ Out(r) \in Handle /\ Err(r) \in Handle /\ Out(r) # Err(r)
        /\ \A q \in Reader : q # r => Out(q) \notin {Out(r), Err(r)} /\ Err(q) \notin {Out(r), Err(r)}
    BY <1>1, Handles, TarAssumption
  <1>4. TypeOK'
    <2>1. pending' \in [Handle -> Nat]
      BY <1>1, <1>3 DEF IInv, TypeOK
    <2>2. consumed' \in [Reader -> Nat]
      BY <1>2 DEF IInv, TypeOK
    <2>3. stdin' \in [Reader -> 0 .. PipeSize]
      <3>1. stdin \in [Reader -> 0 .. PipeSize] /\ stdin[r] - 1 \in 0 .. PipeSize
        BY <1>2, Sizes, SMTT(30) DEF IInv, TypeOK
      <3>2. QED BY <1>2, <3>1
    <2>4. verbose' \in BOOLEAN
      BY <1>1
    <2>5. QED BY <1>2, <2>1, <2>2, <2>3, <2>4 DEF IInv, TypeOK
  <1>5. ControlInv'
    BY <1>2 DEF IInv, ControlInv
  <1>6. HandleInv'
    BY <1>2 DEF IInv, HandleInv, Readable
  <1>7. CountInv'
    <2>1. \A q \in Reader : Given(q)' = Given(q)
      BY <1>2 DEF IInv, TypeOK, Given
    <2>2. \A q \in Reader \ (died \cup running) : stdin'[q] = stdin[q]
      BY <1>2 DEF IInv, TypeOK
    <2>3. QED BY <1>2, <2>1, <2>2 DEF IInv, CountInv, Waiting
  <1>8. LagInv'
    <2> SUFFICES ASSUME ~verbose', NEW q \in Reader \cap running, NEW h \in {Out(q), Err(q)}
                 PROVE  (pending[h] <= 1 /\ OnTheWay(q, h) <= PipeSize + 1 + Slack(q, h))'
      BY <1>2 DEF LagInv
    <2>1. ~verbose /\ y[1] <= 1 /\ y[2] <= 1
      <3>1. ~verbose /\ ~(y[1] > 1) /\ ~(y[2] > 1)
        BY <1>1, Zenon
      <3>2. QED BY <1>3, <3>1
    <2>2. /\ pending[h] <= 1 /\ OnTheWay(q, h) <= PipeSize + 1 + Slack(q, h) /\ h \in Handle
          /\ Slack(q, h)' = Slack(q, h) /\ Slack(q, h) \in {0, 1, 2}
      BY <1>2, <2>1, Handles DEF IInv, LagInv, Slack, ToCome, Waiting
    <2>3. CASE q = r
      <3>1. pending'[h] <= 1 /\ pending'[h] \in Nat /\ pending[h] = 0 /\ stdin'[r] = stdin[r] - 1
        BY <1>1, <1>2, <1>3, <2>1, <2>3, SMTT(30) DEF IInv, TypeOK
      <3>2. QED BY <1>2, <2>2, <2>3, <3>1, Sizes, SMTT(30) DEF IInv, TypeOK, OnTheWay
    <2>4. CASE q # r
      BY <1>1, <1>2, <1>3, <2>2, <2>4 DEF IInv, TypeOK, OnTheWay
    <2>5. QED BY <2>3, <2>4
  <1>9. QED BY <1>4, <1>5, <1>6, <1>7, <1>8 DEF IInv

LEMMA PrintKeeps == ASSUME IInv, NEW g \in Handle, PrintLine(g) PROVE IInv'
  <1>1. /\ g[1] \in running /\ pending[g] > 0 /\ pipe[g] < PipeSize
        /\ pipe' = [pipe EXCEPT ![g] = @ + 1] /\ printed' = [printed EXCEPT ![g] = @ + 1]
        /\ pending' = [pending EXCEPT ![g] = @ - 1]
        /\ UNCHANGED <<stdin, stdin_open, running, left, died, verbose, consumed>>
        /\ UNCHANGED <<pc, select, ready, to_write, collected>>
    BY DEF PrintLine, Put, parent
  <1>2. TypeOK'
    <2>1. pending' \in [Handle -> Nat] /\ pipe' \in [Handle -> 0 .. PipeSize] /\ printed' \in [Handle -> Nat]
      BY <1>1, Sizes DEF IInv, TypeOK
    <2>2. QED BY <1>1, <2>1 DEF IInv, TypeOK
  <1>3. ControlInv'
    BY <1>1 DEF IInv, ControlInv
  <1>4. HandleInv'
    BY <1>1, SMTT(30) DEF IInv, TypeOK, HandleInv, Readable
  <1>5. CountInv'
    BY <1>1 DEF IInv, TypeOK, CountInv, Given, Waiting
  <1>6. LagInv'
    <2> SUFFICES ASSUME ~verbose', NEW q \in Reader \cap running, NEW h \in {Out(q), Err(q)}
                 PROVE  (pending[h] <= 1 /\ OnTheWay(q, h) <= PipeSize + 1 + Slack(q, h))'
      BY <1>1 DEF LagInv
    <2>1. /\ pending[h] <= 1 /\ OnTheWay(q, h) <= PipeSize + 1 + Slack(q, h) /\ h \in Handle
          /\ Slack(q, h)' = Slack(q, h)
      BY <1>1, Handles DEF IInv, LagInv, Slack, ToCome, Waiting
    <2>2. pending'[h] <= 1 /\ OnTheWay(q, h)' = OnTheWay(q, h)
      <3>1. /\ pending[h] \in Nat /\ pipe[h] \in Nat /\ stdin[q] \in Nat
            /\ pipe'[h] = (IF h = g THEN pipe[h] + 1 ELSE pipe[h])
            /\ pending'[h] = IF h = g THEN pending[h] - 1 ELSE pending[h]
        BY <1>1, <2>1, SMTT(30) DEF IInv, TypeOK
      <3>2. QED BY <1>1, <2>1, <3>1 DEF OnTheWay
    <2>3. QED BY <2>1, <2>2
  <1>7. QED BY <1>2, <1>3, <1>4, <1>5, <1>6 DEF IInv

\* A process that is no longer running has nothing on the way.
LEMMA ExitKeeps == ASSUME IInv, NEW p \in Process, Exit(p) PROVE IInv'
  <1>1. /\ running' = running \ {p}
        /\ p \in Reader => stdin[p] = 0 /\ p \notin stdin_open
        /\ UNCHANGED <<pipe, stdin, stdin_open, left, pending, died, verbose, consumed, printed>>
        /\ UNCHANGED <<pc, select, ready, to_write, collected>>
    BY DEF Exit, parent
  <1>2. TypeOK'
    BY <1>1 DEF IInv, TypeOK
  <1>3. ControlInv'
    BY <1>1 DEF IInv, ControlInv
  <1>4. HandleInv'
    BY <1>1 DEF IInv, HandleInv, Readable
  <1>5. CountInv'
    BY <1>1 DEF IInv, CountInv, HandleInv, Given, Waiting
  <1>6. LagInv'
    BY <1>1 DEF IInv, LagInv, OnTheWay, Slack, ToCome, Waiting
  <1>7. QED BY <1>2, <1>3, <1>4, <1>5, <1>6 DEF IInv

LEMMA DieKeeps == ASSUME IInv, NEW r \in Reader, Die(r) PROVE IInv'
  <1>1. /\ r \in Mortal /\ running' = running \ {r} /\ died' = died \cup {r}
        /\ UNCHANGED <<pipe, stdin, stdin_open, left, pending, verbose, consumed, printed>>
        /\ UNCHANGED <<pc, select, ready, to_write, collected>>
    BY DEF Die, parent
  <1>2. TypeOK'
    BY <1>1 DEF IInv, TypeOK
  <1>3. ControlInv'
    BY <1>1 DEF IInv, ControlInv
  <1>4. HandleInv'
    BY <1>1 DEF IInv, HandleInv, Readable
  <1>5. CountInv'
    BY <1>1 DEF IInv, CountInv, Given, Waiting
  <1>6. LagInv'
    BY <1>1 DEF IInv, LagInv, OnTheWay, Slack, ToCome, Waiting
  <1>7. QED BY <1>2, <1>3, <1>4, <1>5, <1>6 DEF IInv

-----------------------------------------------------------------------------
\* The steps of the parent.

LEMMA SelectKeeps == ASSUME IInv, Select PROVE IInv'
  <1>1. /\ pc = "select" /\ ready' = {h \in select : Readable(h)} /\ pc' = "handle"
        /\ UNCHANGED <<pipe, stdin, stdin_open, select, to_write, collected>>
        /\ UNCHANGED <<running, left, pending, died, verbose, consumed, printed>>
    BY DEF Select, children
  <1>2. TypeOK'
    BY <1>1 DEF IInv, TypeOK
  <1>3. ControlInv'
    BY <1>1 DEF IInv, ControlInv
  <1>4. HandleInv'
    BY <1>1 DEF IInv, HandleInv, Readable
  <1>5. CountInv'
    BY <1>1 DEF IInv, CountInv, Given, Waiting
  <1>6. LagInv'
    <2> SUFFICES ASSUME ~verbose, NEW r \in Reader \cap running, NEW h \in {Out(r), Err(r)}
                 PROVE  (pending[h] <= 1 /\ OnTheWay(r, h) <= PipeSize + 1 + Slack(r, h))'
      BY <1>1 DEF LagInv
    <2>1. /\ pending[h] <= 1 /\ OnTheWay(r, h) <= PipeSize + 1 + Slack(r, h)
          /\ h \in Handle /\ h[1] = r /\ h \notin ready
      BY <1>1, Handles DEF IInv, ControlInv, LagInv
    <2>2. h \in select
      BY <2>1 DEF IInv, HandleInv
    <2>3. stdin[r] \in 0 .. PipeSize /\ pending[h] \in Nat /\ pipe[h] \in 0 .. PipeSize /\ PipeSize \in Nat
      BY <2>1, Sizes DEF IInv, TypeOK
    <2>4. /\ OnTheWay(r, h)' = OnTheWay(r, h) /\ pending' = pending
          /\ Slack(r, h)' \in {0, 1, 2} /\ Slack(r, h) <= 1 /\ Slack(r, h) \in Nat
      BY <1>1, <2>1 DEF OnTheWay, Slack
    <2>5. CASE pipe[h] > 0
      <3>1. h \in ready'
        BY <1>1, <2>2, <2>5 DEF Readable
      <3>2. Slack(r, h)' >= 1
        BY <3>1 DEF Slack
      <3>3. QED BY <2>1, <2>3, <2>4, <3>2 DEF OnTheWay
    <2>6. CASE pipe[h] = 0
      BY <2>1, <2>3, <2>4, <2>6 DEF OnTheWay
    <2>7. QED BY <2>3, <2>5, <2>6
  <1>7. QED BY <1>2, <1>3, <1>4, <1>5, <1>6 DEF IInv

\* What is at its end is readable, and empty: so nobody writes there any more.
LEMMA AtEndKeeps == ASSUME IInv, NEW g \in Handle, AtEnd(g) PROVE IInv'
  <1>1. /\ pc = "handle" /\ g \in ready /\ ready' = ready \ {g} /\ pipe[g] = 0
        /\ stdin_open' = IF g = Out("produce") THEN {} ELSE stdin_open
        /\ select' = select \ {g} /\ pc' = IF ready' = {} THEN "select" ELSE "handle"
        /\ UNCHANGED <<pipe, stdin, to_write, collected>>
        /\ UNCHANGED <<running, left, pending, died, verbose, consumed, printed>>
    BY DEF AtEnd, Turn, Resume, children
  <1>2. g[1] \notin running
    BY <1>1 DEF IInv, TypeOK, HandleInv, Readable
  <1>3. TypeOK'
    BY <1>1 DEF IInv, TypeOK
  <1>4. ControlInv'
    BY <1>1 DEF IInv, ControlInv
  <1>5. HandleInv'
    BY <1>1, <1>2 DEF IInv, TypeOK, HandleInv, Readable
  <1>6. CountInv'
    BY <1>1 DEF IInv, CountInv, Given, Waiting
  <1>7. LagInv'
    <2> SUFFICES ASSUME ~verbose, NEW r \in Reader \cap running, NEW h \in {Out(r), Err(r)}
                 PROVE  (pending[h] <= 1 /\ OnTheWay(r, h) <= PipeSize + 1 + Slack(r, h))'
      BY <1>1 DEF LagInv
    <2>1. /\ pending[h] <= 1 /\ OnTheWay(r, h) <= PipeSize + 1 + Slack(r, h)
          /\ h \in Handle /\ h # g
      BY <1>2, Handles DEF IInv, LagInv
    <2>2. OnTheWay(r, h)' = OnTheWay(r, h) /\ pending' = pending /\ OnTheWay(r, h) \in Nat /\ PipeSize \in Nat
      BY <1>1, <2>1, Sizes, SMTT(30) DEF IInv, TypeOK, OnTheWay
    <2>3. Slack(r, h) <= Slack(r, h)' /\ Slack(r, h) \in Nat /\ Slack(r, h)' \in Nat
      BY <1>1, <2>1 DEF Slack, ToCome, Waiting
    <2>4. QED BY <2>1, <2>2, <2>3
  <1>8. QED BY <1>3, <1>4, <1>5, <1>6, <1>7 DEF IInv

LEMMA ReadKeeps == ASSUME IInv, NEW g \in Handle, Read(g) PROVE IInv'
  <1>1. /\ pc = "handle" /\ g \in ready /\ ready' = ready \ {g} /\ pipe[g] > 0
        /\ pipe' = [pipe EXCEPT ![g] = @ - 1]
        /\ collected' = IF g \in Dropped THEN collected ELSE [collected EXCEPT ![g] = @ + 1]
        /\ UNCHANGED <<stdin, stdin_open, select>>
        /\ UNCHANGED <<running, left, pending, died, verbose, consumed, printed>>
    BY DEF Read, Turn, children
  <1>2. IF g = Out("produce")
        THEN pc' = "write" /\ to_write' = ReaderOrder
        ELSE pc' = (IF ready' = {} THEN "select" ELSE "handle") /\ to_write' = to_write
    BY DEF Read, Resume
  <1>3. to_write = <<>>
    BY <1>1 DEF IInv, ControlInv
  <1>4. TypeOK'
    <2>1. pipe' \in [Handle -> 0 .. PipeSize] /\ collected' \in [Handle -> Nat]
      BY <1>1, Sizes DEF IInv, TypeOK
    <2>2. to_write' \in Seq(Reader) /\ pc' \in {"select", "handle", "write", "wait", "done"}
      BY <1>2, Order DEF IInv, TypeOK
    <2>3. QED BY <1>1, <2>1, <2>2 DEF IInv, TypeOK
  <1>5. ControlInv'
    <2>1. CASE g = Out("produce")
      BY <1>1, <1>2, <2>1, Order DEF IInv, TypeOK, ControlInv
    <2>2. CASE g # Out("produce")
      BY <1>1, <1>2, <1>3, <2>2 DEF IInv, TypeOK, ControlInv
    <2>3. QED BY <2>1, <2>2
  <1>6. HandleInv'
    BY <1>1 DEF IInv, TypeOK, HandleInv, Readable
  <1>7. /\ \A r : ~Waiting(r)
        /\ \A r \in Reader : Waiting(r)' <=> g = Out("produce")
    BY <1>2, <1>3, Order DEF Waiting
  <1>8. CountInv'
    <2>1. \A h \in Handle \ Dropped : printed'[h] = collected'[h] + pipe'[h]
      BY <1>1 DEF IInv, TypeOK, CountInv
    <2>2. ASSUME NEW r \in Reader \ died
          PROVE  (Given(r) = collected[Out("produce")] - (IF Waiting(r) THEN 1 ELSE 0))'
      <3>1. Given(r)' = Given(r) /\ Given(r) = collected[Out("produce")] - 0
        BY <1>1, <1>7 DEF IInv, CountInv, Given
      <3>2. Out("produce") \in Handle /\ collected[Out("produce")] \in Nat
        BY Handles DEF IInv, TypeOK
      <3>3. collected'[Out("produce")]
              = collected[Out("produce")] + (IF g = Out("produce") THEN 1 ELSE 0)
        <4>1. CASE g = Out("produce")
          <5>1. collected' = [collected EXCEPT ![g] = @ + 1] /\ collected \in [Handle -> Nat]
            BY <1>1, <4>1, Handles DEF IInv, TypeOK
          <5>2. QED BY <3>2, <4>1, <5>1
        <4>2. CASE g # Out("produce")
          <5>1. collected'[Out("produce")] = collected[Out("produce")]
            BY <1>1, <3>2, <4>2 DEF IInv, TypeOK
          <5>2. QED BY <3>2, <4>2, <5>1
        <4>3. QED BY <4>1, <4>2
      <3>4. QED BY <1>7, <3>1, <3>2, <3>3
    <2>3. QED BY <1>1, <2>1, <2>2 DEF IInv, CountInv
  <1>9. LagInv'
    <2> SUFFICES ASSUME ~verbose, NEW r \in Reader \cap running, NEW h \in {Out(r), Err(r)}
                 PROVE  (pending[h] <= 1 /\ OnTheWay(r, h) <= PipeSize + 1 + Slack(r, h))'
      BY <1>1 DEF LagInv
    <2>1. /\ pending[h] <= 1 /\ OnTheWay(r, h) <= PipeSize + 1 + Slack(r, h)
          /\ h \in Handle /\ h # Out("produce")
      BY Handles DEF IInv, LagInv
    <2>2. ToCome(r)' <=> ToCome(r)
      BY <1>1, <1>7, Handles DEF ToCome
    <2>3. stdin[r] \in Nat /\ pending[h] \in Nat /\ pipe[h] \in Nat /\ PipeSize \in Nat /\ pending' = pending
      BY <1>1, <2>1, Sizes DEF IInv, TypeOK
    <2>4. CASE h = g
      BY <1>1, <2>1, <2>2, <2>3, <2>4, SMTT(30) DEF IInv, TypeOK, OnTheWay, Slack
    <2>5. CASE h # g
      BY <1>1, <2>1, <2>2, <2>3, <2>5 DEF IInv, TypeOK, OnTheWay, Slack
    <2>6. QED BY <2>4, <2>5
  <1>10. QED BY <1>4, <1>5, <1>6, <1>8, <1>9 DEF IInv

\* A reader that waits for the buffer and is neither running nor dead has read
\* the end: then the producer would be through, and there were no buffer.
LEMMA PrintBufferKeeps == ASSUME IInv, PrintBuffer PROVE IInv'
  <1>0. PICK r \in Reader : to_write # <<>> /\ r = Head(to_write)
    BY NextReader DEF PrintBuffer, IInv, TypeOK, ControlInv
  <1>1. /\ pc = "write" /\ to_write # <<>> /\ CanPrint(r)
        /\ stdin' = IF r \in running THEN [stdin EXCEPT ![r] = @ + 1] ELSE stdin
        /\ to_write' = Tail(to_write) /\ pc' = NextInLine
        /\ UNCHANGED <<pipe, stdin_open, select, ready, collected>>
        /\ UNCHANGED <<running, left, pending, died, verbose, consumed, printed>>
    BY <1>0 DEF PrintBuffer, children
  <1>2. /\ Waiting(r) /\ ~Waiting(r)'
        /\ \A q \in Reader : q # r => (Waiting(q)' <=> Waiting(q))
        /\ to_write' \in Seq(Reader)
        /\ \A i, j \in DOMAIN to_write' : to_write'[i] = to_write'[j] => i = j
    <2>1. /\ to_write \in Seq(Reader) /\ to_write # <<>>
          /\ \A i, j \in DOMAIN to_write : to_write[i] = to_write[j] => i = j
      BY <1>1 DEF IInv, TypeOK, ControlInv
    <2>2. /\ Tail(to_write) \in Seq(Reader)
          /\ \A i, j \in DOMAIN Tail(to_write) : Tail(to_write)[i] = Tail(to_write)[j] => i = j
          /\ \E i \in DOMAIN to_write : to_write[i] = Head(to_write)
          /\ \A q : (\E i \in DOMAIN Tail(to_write) : Tail(to_write)[i] = q)
                    <=> q # Head(to_write) /\ \E i \in DOMAIN to_write : to_write[i] = q
      BY <2>1, NextReader
    <2>3. \A q : Waiting(q)' <=> \E i \in DOMAIN Tail(to_write) : Tail(to_write)[i] = q
      BY <1>1 DEF Waiting
    <2>4. QED BY <1>0, <1>1, <2>2, <2>3 DEF Waiting
  <1>3. /\ stdin[r] \in 0 .. PipeSize /\ consumed[r] \in Nat
        /\ Out("produce") \in Handle /\ collected[Out("produce")] \in Nat
    BY <1>2, Handles DEF IInv, TypeOK
  <1>4. TypeOK'
    <2>1. stdin' \in [Reader -> 0 .. PipeSize]
      <3>1. r \in running => stdin[r] + 1 \in 0 .. PipeSize
        BY <1>1, <1>3, Sizes DEF CanPrint
      <3>2. stdin \in [Reader -> 0 .. PipeSize]
        BY DEF IInv, TypeOK
      <3>3. QED BY <1>1, <3>1, <3>2
    <2>2. pc' \in {"select", "handle", "write", "wait", "done"}
      BY <1>1 DEF NextInLine
    <2>3. QED BY <1>1, <1>2, <2>1, <2>2 DEF IInv, TypeOK
  <1>5. ControlInv'
    BY <1>1, <1>2 DEF IInv, ControlInv, NextInLine
  <1>6. HandleInv'
    BY <1>1 DEF IInv, HandleInv, Readable
  <1>7. \A q \in Reader : q # r => stdin'[q] = stdin[q]
    BY <1>1 DEF IInv, TypeOK
  <1>8. r \in running => stdin'[r] = stdin[r] + 1
    BY <1>1, <1>2 DEF IInv, TypeOK
  <1>9. Out("produce") \in select /\ Out("produce") \notin ready
    BY <1>1 DEF IInv, ControlInv
  <1>10. r \in running \cup died
    BY <1>2, <1>9 DEF IInv, CountInv
  <1>11. CountInv'
    <2>1. ASSUME NEW q \in Reader \ died
          PROVE  (Given(q) = collected[Out("produce")] - (IF Waiting(q) THEN 1 ELSE 0))'
      <3>1. Given(q) = collected[Out("produce")] - (IF Waiting(q) THEN 1 ELSE 0)
        BY DEF IInv, CountInv
      <3>2. CASE q = r
        <4>1. r \in running
          BY <1>10, <3>2
        <4>2. consumed[r] + stdin[r] = collected[Out("produce")] - 1
          BY <1>2, <3>1, <3>2 DEF Given
        <4>3. consumed[r] + (stdin[r] + 1) = collected[Out("produce")] - 0
          BY <1>3, <4>2
        <4>4. QED BY <1>1, <1>2, <1>8, <3>2, <4>1, <4>3 DEF Given
      <3>3. CASE q # r
        BY <1>1, <1>2, <1>7, <3>1, <3>3 DEF Given
      <3>4. QED BY <3>2, <3>3
    <2>2. \A q \in Reader \ (died \cup running) : stdin'[q] = 0
      BY <1>7, <1>10 DEF IInv, CountInv
    <2>3. QED BY <1>1, <2>1, <2>2 DEF IInv, CountInv
  <1>12. LagInv'
    <2> SUFFICES ASSUME ~verbose, NEW q \in Reader \cap running, NEW h \in {Out(q), Err(q)}
                 PROVE  (pending[h] <= 1 /\ OnTheWay(q, h) <= PipeSize + 1 + Slack(q, h))'
      BY <1>1 DEF LagInv
    <2>1. /\ pending[h] <= 1 /\ OnTheWay(q, h) <= PipeSize + 1 + Slack(q, h) /\ h \in Handle
      BY Handles DEF IInv, LagInv
    <2>2. pending[h] \in Nat /\ pipe[h] \in Nat /\ stdin[q] \in Nat /\ PipeSize \in Nat
      BY <2>1, Sizes DEF IInv, TypeOK
    <2>3. CASE q = r
      <3>1. Slack(q, h)' = Slack(q, h) + 1 /\ Slack(q, h) \in Nat
        BY <1>1, <1>2, <1>9, <2>3 DEF Slack, ToCome
      <3>2. OnTheWay(q, h)' = OnTheWay(q, h) + 1 /\ OnTheWay(q, h) \in Nat
        BY <1>1, <1>8, <2>2, <2>3, SMTT(30) DEF OnTheWay
      <3>3. QED BY <1>1, <2>1, <2>2, <3>1, <3>2
    <2>4. CASE q # r
      <3>1. Slack(q, h)' = Slack(q, h) /\ OnTheWay(q, h)' = OnTheWay(q, h)
        BY <1>1, <1>2, <1>7, <2>4 DEF Slack, ToCome, OnTheWay
      <3>2. QED BY <1>1, <2>1, <3>1
    <2>5. QED BY <2>3, <2>4
  <1>13. QED BY <1>4, <1>5, <1>6, <1>11, <1>12 DEF IInv

\* The loop is left when nothing can come from anywhere.
LEMMA LeaveKeeps == ASSUME IInv, EndLoop \/ Reap PROVE IInv'
  <1>1. /\ pc' \in {"wait", "done"} /\ ready = {} /\ select = {} /\ pc # "write"
        /\ pc' = "done" => running = {}
        /\ UNCHANGED <<pipe, stdin, stdin_open, select, ready, to_write, collected>>
        /\ UNCHANGED <<running, left, pending, died, verbose, consumed, printed>>
    BY DEF EndLoop, Reap, children, IInv, TypeOK, ControlInv
  <1>2. TypeOK'
    BY <1>1 DEF IInv, TypeOK
  <1>3. ControlInv'
    BY <1>1 DEF IInv, ControlInv
  <1>4. HandleInv' /\ CountInv' /\ LagInv'
    BY <1>1 DEF IInv, HandleInv, Readable, CountInv, Given, Waiting, LagInv, OnTheWay, Slack, ToCome
  <1>5. QED BY <1>2, <1>3, <1>4 DEF IInv

LEMMA StutterKeeps == ASSUME IInv, UNCHANGED vars PROVE IInv'
  <1>1. /\ UNCHANGED <<pipe, stdin, stdin_open, pc, select, ready, to_write, collected>>
        /\ UNCHANGED <<running, left, pending, died, verbose, consumed, printed>>
    BY DEF vars, children, parent
  <1>2. QED
    BY <1>1, SMTT(30) DEF IInv, TypeOK, ControlInv, HandleInv, Readable, CountInv, Given, Waiting, LagInv,
                OnTheWay, Slack, ToCome

LEMMA NextKeeps == ASSUME IInv, [Next]_vars PROVE IInv'
  <1>1. CASE Parent
    BY <1>1, SelectKeeps, AtEndKeeps, ReadKeeps, PrintBufferKeeps, LeaveKeeps DEF Parent
  <1>2. ASSUME NEW p \in Process, Child(p) PROVE IInv'
    BY <1>2, Handles, ProduceKeeps, TakeKeeps, PrintKeeps, ExitKeeps DEF Child
  <1>3. ASSUME NEW r \in Reader, Die(r) PROVE IInv'
    BY <1>3, DieKeeps
  <1>4. CASE Terminated \/ UNCHANGED vars
    BY <1>4, StutterKeeps DEF Terminated
  <1>5. QED BY <1>1, <1>2, <1>3, <1>4 DEF Next

LEMMA IInvHolds == Spec => []IInv
  <1>1. Init => IInv
    BY InitInv
  <1>2. IInv /\ [Next]_vars => IInv'
    BY NextKeeps
  <1>3. QED BY <1>1, <1>2, PTL DEF Spec

-----------------------------------------------------------------------------
\* Unpacking is type correct: in particular no pipe ever holds more than fits
\* into it, and the parent writes to none that is full.
THEOREM TypesHold == Spec => []TypeOK
  <1>1. IInv => TypeOK
    BY DEF IInv
  <1>2. QED BY <1>1, IInvHolds, PTL

\* Every reader that lives is given what was read of the archive, in step with
\* the others, and in the end has read it all; all handles are read to their
\* end, and nothing is lost of what goes to a handle that is collected.
THEOREM EverythingArrivesHolds == Spec => []EverythingArrives
  <1>1. ASSUME IInv PROVE EverythingArrives
    <2>1. \A r \in Reader \ died :
             Given(r) = collected[Out("produce")] - (IF Waiting(r) THEN 1 ELSE 0)
      BY <1>1 DEF IInv, CountInv
    <2>2. ASSUME pc \in {"wait", "done"}
          PROVE  /\ running = {} /\ \A h \in Handle : pipe[h] = 0
                 /\ \A h \in Handle \ Dropped : collected[h] = printed[h]
      <3>1. \A h \in Handle : pipe[h] = 0 /\ h[1] \notin running
        BY <1>1, <2>2 DEF IInv, ControlInv, HandleInv
      <3>2. ASSUME NEW p \in running PROVE FALSE
        <4>1. p \in Process /\ Out(p) \in Handle /\ Out(p)[1] = p
          BY <1>1, Handles DEF IInv, TypeOK
        <4>2. QED BY <3>1, <4>1
      <3>3. \A h \in Handle \ Dropped : collected[h] = printed[h]
        BY <1>1, <3>1 DEF IInv, TypeOK, CountInv
      <3>4. QED BY <3>1, <3>2, <3>3
    <2>3. ASSUME pc = "done", NEW r \in Reader \ died PROVE consumed[r] = printed[Out("produce")]
      <3>1. running = {} /\ collected[Out("produce")] = printed[Out("produce")]
        BY <2>2, <2>3, Handles
      <3>2. stdin[r] = 0 /\ consumed[r] \in Nat /\ collected[Out("produce")] \in Nat
        BY <1>1, <3>1, Handles DEF IInv, TypeOK, CountInv
      <3>3. ~Waiting(r)
        BY <1>1, <2>3 DEF IInv, ControlInv, Waiting
      <3>4. QED BY <2>1, <3>1, <3>2, <3>3 DEF Given
    <2>4. QED BY <2>1, <2>2, <2>3 DEF EverythingArrives
  <1>2. QED BY <1>1, IInvHolds, PTL

\* The parent and a reader wait for each other only when some chunk of archive
\* made the reader print more than a chunk: for archives and pipes of every size.
THEOREM StuckOnlyOnLongListingsHolds == Spec => []StuckOnlyOnLongListings
  <1>1. ASSUME IInv, Stuck, ~verbose PROVE FALSE
    <2> DEFINE r == Head(to_write)
    <2>1. /\ pc = "write" /\ r \in running /\ ~(stdin[r] < PipeSize)
      BY <1>1 DEF Stuck, CanPrint
    <2>2. r \in Reader /\ Waiting(r)
      BY <1>1, <2>1, NextReader DEF IInv, TypeOK, ControlInv, Waiting
    <2>3. PICK h \in {Out(r), Err(r)} : pending[h] > 0 /\ pipe[h] = PipeSize
      BY <1>1 DEF Stuck
    <2> HIDE DEF r
    <2>4. OnTheWay(r, h) <= PipeSize + 1 + Slack(r, h)
      BY <1>1, <2>1, <2>2 DEF IInv, LagInv
    <2>5. stdin[r] \in Nat /\ pending[h] \in Nat /\ stdin[r] >= PipeSize
      BY <1>1, <2>1, <2>2, Handles, Sizes, SMTT(30) DEF IInv, TypeOK
    <2>6. Slack(r, h) \in {0, 1}
      BY <2>2 DEF Slack, ToCome
    <2>7. QED BY <2>3, <2>4, <2>5, <2>6, Sizes DEF OnTheWay
  <1>2. IInv => StuckOnlyOnLongListings
    BY <1>1 DEF StuckOnlyOnLongListings
  <1>3. QED BY <1>2, IInvHolds, PTL

-----------------------------------------------------------------------------
\* The window that slides over a file.

\* What the queue holds: two blocks in a row, of which the newer one is long
\* enough to hold any text that the next window does not begin before.
QueueInv ==
    /\ queue[1][2] = queue[2][1] /\ queue[2][2] = made
    /\ Length(queue[1]) <= blocksize + change /\ Length(queue[2]) <= blocksize + change
    /\ First => made = 0 /\ offset = 0 /\ windows = {} /\ queue = <<<<0, 0>>, <<0, 0>>>>
    /\ ~First /\ offset < size => Length(queue[2]) >= blocksize - change

LengthInv == \A w \in windows : Length(w) <= 2 * (blocksize + change)

WindowInv == WindowTypeOK /\ QueueInv /\ LengthInv /\ NothingEscapes

LEMMA WindowBegins == WindowInit => WindowInv
  BY WindowAssumption
  DEF WindowInit, WindowInv, WindowTypeOK, QueueInv, LengthInv, NothingEscapes, First, Length, Piece

LEMMA ReadWindowKeeps == ASSUME WindowInv, ReadWindow PROVE WindowInv'
  <1>1. PICK length \in (Wanted - change) .. (Wanted + change) :
          /\ length > 0 /\ made' = made + length
          /\ queue' = Queued(<<made, made'>>)
    BY DEF ReadWindow
  <1>2. /\ blocksize \in Nat /\ blocksize > 0 /\ size \in Nat /\ change \in Nat /\ made \in Nat
        /\ offset \in Nat /\ offset <= size /\ blocknumber \in Int /\ blocknumber >= -1
    BY WindowAssumption DEF WindowInv, WindowTypeOK
  <1>3. /\ Wanted \in Nat /\ Wanted > 0 /\ Wanted <= size - offset /\ offset < size
        /\ First => (Wanted = 2 * blocksize \/ offset + Wanted = size)
        /\ Wanted <= 2 * blocksize
        /\ ~First => (Wanted = blocksize \/ offset + Wanted = size) /\ Wanted <= blocksize
    BY <1>2 DEF ReadWindow, Wanted, Smaller
  <1>4. /\ length \in Nat /\ length >= Wanted - change /\ length <= Wanted + change
    BY <1>1, <1>2, <1>3
  <1>5. PICK l \in Nat, m \in Nat : queue = <<<<l, m>>, <<m, made>>>> /\ l <= m /\ m <= made
    BY DEF WindowInv, WindowTypeOK, QueueInv, Piece
  <1>6. /\ offset' = offset + Wanted /\ blocknumber' = blocknumber + 1 /\ ~First'
        /\ windows' = windows \cup {<<queue'[1][1], queue'[2][2]>>}
        /\ UNCHANGED <<inputs, ended>>
    BY <1>2 DEF ReadWindow, First
  <1>7. CASE First /\ blocksize < length
    <2>1. made = 0 /\ windows = {} /\ made' = length
      BY <1>1, <1>4, <1>7 DEF WindowInv, QueueInv
    <2>2. queue' = <<<<0, blocksize>>, <<blocksize, length>>>>
      BY <1>1, <1>7, <2>1 DEF Queued, Length
    <2>3. windows' = {<<0, length>>}
      BY <1>6, <2>1, <2>2
    <2>4. WindowTypeOK'
      BY <1>2, <1>3, <1>4, <1>6, <1>7, <2>1, <2>2, <2>3
        DEF WindowInv, WindowTypeOK, inputs, Piece
    <2>5. QueueInv'
      BY <1>2, <1>3, <1>4, <1>6, <1>7, <2>1, <2>2, <2>3 DEF QueueInv, inputs, Length
    <2>6. LengthInv' /\ NothingEscapes'
      BY <1>2, <1>3, <1>4, <1>6, <1>7, <2>1, <2>2, <2>3
        DEF LengthInv, NothingEscapes, inputs, Length
    <2>7. QED BY <2>4, <2>5, <2>6 DEF WindowInv
  <1>8. CASE ~(First /\ blocksize < length)
    <2>1. queue' = <<<<m, made>>, <<made, made'>>>> /\ windows' = windows \cup {<<m, made'>>}
      BY <1>1, <1>4, <1>2, <1>5, <1>6, <1>8 DEF Queued, Length
    <2>2. WindowTypeOK'
      BY <1>1, <1>2, <1>3, <1>4, <1>5, <1>6, <2>1 DEF WindowInv, WindowTypeOK, inputs, Piece
    <2>3. made - m <= blocksize + change /\ length <= blocksize + change
          /\ (First => made = 0 /\ m = 0)
          /\ (~First => made - m >= blocksize - change)
      BY <1>1, <1>2, <1>3, <1>4, <1>5, <1>8 DEF WindowInv, QueueInv, Length
    <2>4. QueueInv'
      <3>1. UNCHANGED <<blocksize, size, change>> /\ made' = made + length /\ ~First'
        BY <1>1, <1>6 DEF inputs
      <3>2. queue'[1] = <<m, made>> /\ queue'[2] = <<made, made'>>
        BY <2>1
      <3>3. (made + length) - made = length
        BY <1>2, <1>4
      <3>4. Length(queue'[1]) = made - m /\ Length(queue'[2]) = length
        BY <3>1, <3>2, <3>3 DEF Length
      <3>5. offset' < size => length >= blocksize - change
        BY <1>2, <1>3, <1>4, <1>6
      <3>6. QED BY <2>3, <3>1, <3>2, <3>4, <3>5 DEF QueueInv, Length
    <2>5. LengthInv'
      BY <1>1, <1>2, <1>4, <1>5, <1>6, <2>1, <2>3 DEF WindowInv, LengthInv, inputs, Length
    <2>6. NothingEscapes'
      <3> SUFFICES ASSUME NEW a \in 0 .. made', NEW b \in 0 .. made', a < b, b - a <= blocksize - change
                   PROVE  \E w \in windows' : w[1] <= a /\ b <= w[2]
        BY <1>6 DEF NothingEscapes, inputs
      <3>1. CASE b <= made
        <4>1. a \in 0 .. made /\ b \in 0 .. made
          BY <1>1, <1>2, <1>4, <3>1
        <4>2. QED BY <2>1, <4>1 DEF WindowInv, NothingEscapes
      <3>2. CASE b > made
        <4>1. m <= a
          BY <1>2, <1>5, <2>3, <3>2
        <4>2. a \in Nat /\ b <= made'
          OBVIOUS
        <4>3. <<m, made'>> \in windows'
          BY <2>1
        <4>4. <<m, made'>>[1] <= a /\ b <= <<m, made'>>[2]
          BY <4>1, <4>2
        <4>5. QED BY <4>3, <4>4
      <3>3. QED BY <1>1, <1>2, <1>4, <3>1, <3>2
    <2>7. QED BY <2>2, <2>4, <2>5, <2>6 DEF WindowInv
  <1>9. QED BY <1>7, <1>8

LEMMA WindowKept ==
    ASSUME WindowInv, [WindowNext]_windowVars
    PROVE  WindowInv'
  <1>1. CASE ReadWindow
    BY <1>1, ReadWindowKeeps
  <1>2. CASE EndOfFile \/ ReadFails \/ WindowTerminated \/ UNCHANGED windowVars
    BY <1>2
    DEF EndOfFile, ReadFails, WindowTerminated, windowVars, inputs,
        WindowInv, WindowTypeOK, QueueInv, LengthInv, NothingEscapes, First
  <1>3. QED BY <1>1, <1>2 DEF WindowNext

LEMMA WindowInvariance == WindowSpec => []WindowInv
  <1>1. WindowInit => WindowInv
    BY WindowBegins
  <1>2. WindowInv /\ [WindowNext]_windowVars => WindowInv'
    BY WindowKept
  <1>3. QED BY <1>1, <1>2, PTL DEF WindowSpec

\* Blocks and windows are pieces of text, and readwindow never reads beyond the
\* file: for blocks and files of every size.
THEOREM WindowTypesHold == WindowSpec => []WindowTypeOK
  <1>1. WindowInv => WindowTypeOK
    BY DEF WindowInv
  <1>2. QED BY <1>1, WindowInvariance, PTL

\* A window is one piece of text, of two blocks at most: for blocks and files of
\* every size.
THEOREM WindowsHold == WindowSpec => []WindowsAreTwoBlocks
  <1>1. WindowInv => WindowsAreTwoBlocks
    BY DEF WindowInv, QueueInv, LengthInv, WindowsAreTwoBlocks
  <1>2. QED BY <1>1, WindowInvariance, PTL

\* Every text of up to a block is in some window, wherever it lies and over
\* whatever boundaries: for blocks and files of every size.
THEOREM NothingEscapesHolds == WindowSpec => []NothingEscapes
  <1>1. WindowInv => NothingEscapes
    BY DEF WindowInv
  <1>2. QED BY <1>1, WindowInvariance, PTL
=============================================================================

------------------------------ MODULE HinPipe ------------------------------
(***************************************************************************)
(* The pipe of netcode/pipe.c: the copy engine behind every response body, *)
(* upload, cache fill and proxied stream.  A pipe owns at most one         *)
(* outstanding read and one outstanding write on the ring, and a list of   *)
(* buffers waiting to be written.  Completions arrive in any order, with   *)
(* short counts and errors.                                                *)
(*                                                                         *)
(* Bytes are named by the offset they must have in the output: first the   *)
(* response header, then the body.  A buffer is the range of names it      *)
(* holds, [start, start + count), with the file offset `pos` its operation *)
(* was given.  Every operation of the code on a buffer (ptr += ret,        *)
(* count -= ret, the memcpy of the next bytes behind its own) keeps it a   *)
(* range as long as the queue is gap-free, which is the invariant          *)
(* IntakeExact.                                                            *)
(***************************************************************************)
EXTENDS Integers, Sequences

CONSTANTS ReadSz,   \* READ_SZ, the size of a pipe's buffers
          Setups    \* the pipes the callers create (see SetupType)

ASSUME ReadSzAssumption == ReadSz \in Nat \ {0}

InFlag  == {"DONE", "INACTIVE", "COUNT", "OFFSETS"}
OutFlag == {"DONE", "INACTIVE", "OFFSETS"}

(***************************************************************************)
(* What a caller decides before hin_pipe_start: the flags of both ends,    *)
(* CONDENSE, the length of the response header it appends, the bytes that  *)
(* came with the request headers and are handed over first, the `left` of  *)
(* a counted pipe, the first file offset and what the source really holds. *)
(***************************************************************************)
SetupType == [inFlags : SUBSET {"INACTIVE", "COUNT", "OFFSETS"},
              outFlags : SUBSET {"OFFSETS"},
              condense : BOOLEAN,
              header : 0 .. ReadSz,
              prefed : Nat,
              left : Nat,
              inStart : Nat,
              srcLen : Nat]

(***************************************************************************)
(* Only pipes that read a file are condensed or start at an offset, and    *)
(* nothing is handed over before them; a pipe fed by FastCGI records is    *)
(* neither counted nor read; a pipe writes to a file or behind a header.   *)
(***************************************************************************)
ASSUME SetupsAssumption ==
  /\ Setups \subseteq SetupType
  /\ \A s \in Setups :
       /\ s.condense => s.inFlags = {"COUNT", "OFFSETS"}
       /\ "OFFSETS" \in s.inFlags => s.prefed = 0
       /\ "INACTIVE" \in s.inFlags => s.inFlags = {"INACTIVE"}
       /\ "OFFSETS" \in s.outFlags => s.header = 0
       /\ s.prefed <= s.srcLen

VARIABLES setup,    \* the caller's choice, fixed
          pipe,     \* hin_pipe_t
          started,  \* hin_pipe_start was called
          ended,    \* the feeder sent its end record
          src,      \* body bytes the source has given up so far
          sink      \* <<offset, byte>> pairs the kernel has written

vars == <<setup, pipe, started, ended, src, sink>>

Buffer == [start : Nat, count : Nat, pos : Nat]

End(b) == b.start + b.count

MinOf(a, b) == IF a <= b THEN a ELSE b

PipeType == [inFlags : SUBSET InFlag, outFlags : SUBSET OutFlag,
             condense : BOOLEAN, left : Int, count : Nat,
             inPos : Nat, outPos : Nat,
             writeQue : Seq(Buffer), writing : Seq(Buffer),
             reading : Seq(Buffer), callbacks : SUBSET {"finish", "error"},
             finished : Nat, errors : SUBSET {"in", "out"}, freed : BOOLEAN]

(* Bytes waiting in write_que: the sum of the buffers' counts, which hold  *)
(* consecutive bytes (IntakeExact). *)
Queued(que) == IF que = <<>> THEN 0 ELSE End(que[Len(que)]) - que[1].start

----------------------------------------------------------------------------
(* The operations of pipe.c, as functions from a pipe to a pipe.  A Mut    *)
(* operator is the definition that follows it with a plausible slip.      *)

MutCloseFrees(p) ==
  [p EXCEPT !.inFlags = @ \cup {"DONE", "INACTIVE"},
            !.outFlags = @ \cup {"DONE", "INACTIVE"},
            !.finished = @ + IF "finish" \in p.callbacks THEN 1 ELSE 0,
            !.callbacks = {},
            !.writeQue = <<>>,
            !.freed = TRUE]

MutCloseKeepsErrorCallback(p) ==
  [p EXCEPT !.inFlags = @ \cup {"DONE", "INACTIVE"},
            !.outFlags = @ \cup {"DONE", "INACTIVE"},
            !.finished = @ + IF "finish" \in p.callbacks THEN 1 ELSE 0,
            !.callbacks = @ \ {"finish"},
            !.writeQue = <<>>,
            !.freed = p.reading = <<>> /\ p.writing = <<>>]

(* hin_pipe_close: tell the owner once, drop what is queued, and free the *)
(* pipe unless an operation still points at it. *)
hin_pipe_close(p) ==
  [p EXCEPT !.inFlags = @ \cup {"DONE", "INACTIVE"},
            !.outFlags = @ \cup {"DONE", "INACTIVE"},
            !.finished = @ + IF "finish" \in p.callbacks THEN 1 ELSE 0,
            !.callbacks = {},
            !.writeQue = <<>>,
            !.freed = p.reading = <<>> /\ p.writing = <<>>]

(* hin_pipe_append_raw *)
hin_pipe_append_raw(p, b) == [p EXCEPT !.writeQue = Append(@, b)]

(* hin_pipe_copy_raw, the default read_callback: empty buffers are freed. *)
hin_pipe_copy_raw(p, b) == IF b.count <= 0 THEN p ELSE hin_pipe_append_raw(p, b)

(* hin_pipe_process_buffer, with no filter installed. *)
hin_pipe_process_buffer(p, b) ==
  LET left == IF "COUNT" \in p.inFlags THEN p.left - b.count ELSE p.left
      done == "COUNT" \in p.inFlags /\ left <= 0
  IN IF "INACTIVE" \in p.outFlags THEN p
     ELSE hin_pipe_copy_raw(
            [p EXCEPT !.inPos = IF "OFFSETS" \in p.inFlags THEN @ + b.count ELSE @,
                      !.left = left,
                      !.inFlags = IF done THEN @ \cup {"DONE"} ELSE @], b)

(* hin_pipe_read_next on a fresh buffer: ask for what fits behind the      *)
(* queued bytes of a condensed pipe, never for more than is left. *)
hin_pipe_read_next(p) ==
  LET queued == Queued(p.writeQue)
      room == IF p.condense /\ queued > 0 /\ queued < ReadSz
              THEN ReadSz - queued ELSE ReadSz
      ask == IF "COUNT" \in p.inFlags /\ p.left < ReadSz THEN p.left ELSE room
  IN [p EXCEPT !.reading = Append(@, [start |-> 0, count |-> ask, pos |-> p.inPos])]

(* The loop of hin_pipe_write_next that copies the following buffers into  *)
(* the free space of the first one: the new first buffer ends at `to`, the *)
(* first `used` buffers are consumed and the next one is trimmed. *)
CondenseEnd(que) == MinOf(que[1].start + ReadSz, End(que[Len(que)]))

CondenseUsed(que) ==
  CHOOSE k \in 1 .. Len(que) :
    /\ End(que[k]) <= CondenseEnd(que)
    /\ k < Len(que) => End(que[k + 1]) > CondenseEnd(que)

Condensed(que) == [que[1] EXCEPT !.count = CondenseEnd(que) - que[1].start]

CondenseRest(que) ==
  LET used == CondenseUsed(que)
      to == CondenseEnd(que)
  IN [i \in 1 .. Len(que) - used |->
        IF que[used + i].start >= to THEN que[used + i]
        ELSE [que[used + i] EXCEPT !.start = to,
                                   !.count = End(que[used + i]) - to]]

(* Submit buffer b as the write of pipe p, whose queue is then `rest`. *)
Submit(p, b, rest) ==
  [p EXCEPT !.writeQue = rest,
            !.writing = Append(@, [b EXCEPT !.pos = p.outPos]),
            !.outPos = IF "OFFSETS" \in p.outFlags THEN @ + b.count ELSE @,
            !.outFlags = @ \ {"DONE"}]

MutHeldBackAtEnd(p) == /\ p.condense
                       /\ p.writeQue[1].count < ReadSz
                       /\ Len(p.writeQue) = 1

(* A condensed pipe holds a lone partial buffer back while the source goes on. *)
HeldBack(p) == /\ p.condense
               /\ p.writeQue[1].count < ReadSz
               /\ Len(p.writeQue) = 1
               /\ "DONE" \notin p.inFlags

(* hin_pipe_write_next on the first queued buffer. *)
hin_pipe_write_next(p) ==
  IF HeldBack(p) THEN p
  ELSE IF p.condense /\ p.writeQue[1].count < ReadSz
  THEN Submit(p, Condensed(p.writeQue), CondenseRest(p.writeQue))
  ELSE Submit(p, p.writeQue[1], Tail(p.writeQue))

(* The write half of hin_pipe_advance. *)
AdvanceWrite(p) ==
  IF p.writeQue # <<>> /\ p.writing = <<>> THEN hin_pipe_write_next(p) ELSE p

MutReadNoLimit(p) ==
  IF p.inFlags \cap {"DONE", "INACTIVE"} = {} /\ p.reading = <<>>
  THEN hin_pipe_read_next(p) ELSE p

(* The read half: back-pressure stops reading while two buffers are queued. *)
AdvanceRead(p) ==
  IF /\ p.inFlags \cap {"DONE", "INACTIVE"} = {}
     /\ p.reading = <<>>
     /\ Queued(p.writeQue) < 2 * ReadSz
  THEN hin_pipe_read_next(p) ELSE p

MutNotCountedOut(p) == p

(* hin_pipe_advance, its three parts in order. *)
CountedOut(p) ==
  IF "COUNT" \in p.inFlags /\ p.left <= 0
  THEN [p EXCEPT !.inFlags = @ \cup {"DONE"}] ELSE p

MutMayCloseQueued(p) == p.writing = <<>> /\ "DONE" \in p.inFlags \cap p.outFlags

MayClose(p) == /\ p.writeQue = <<>>
               /\ p.writing = <<>>
               /\ "DONE" \in p.inFlags \cap p.outFlags

hin_pipe_advance(p) ==
  LET q == CountedOut(p)
  IN IF MayClose(q) THEN hin_pipe_close(q) ELSE AdvanceWrite(AdvanceRead(q))

MutPartialKeepsPtr(b, ret, offsets) ==
  [b EXCEPT !.count = @ - ret, !.pos = IF offsets THEN @ + ret ELSE @]

(* A short write: the same buffer goes out again with the bytes not taken. *)
PartialWrite(b, ret, offsets) ==
  [b EXCEPT !.start = @ + ret,
            !.count = @ - ret,
            !.pos = IF offsets THEN @ + ret ELSE @]

(* hin_pipe_write_callback for the write at the head of `writing`. *)
WriteFailed(p) ==
  hin_pipe_close([p EXCEPT !.outFlags = @ \cup {"DONE"},
                           !.writing = Tail(@),
                           !.errors = IF "error" \in p.callbacks
                                      THEN @ \cup {"out"} ELSE @])

WriteShort(p, ret) ==
  [p EXCEPT !.outFlags = @ \cup {"DONE"},
            !.count = @ + ret,
            !.writing = <<PartialWrite(Head(@), ret, "OFFSETS" \in p.outFlags)>>
                          \o Tail(@)]

WriteFull(p, ret) ==
  LET q == [p EXCEPT !.outFlags = @ \cup {"DONE"},
                     !.count = @ + ret,
                     !.writing = Tail(@)]
  IN hin_pipe_advance(IF q.writeQue # <<>> THEN hin_pipe_write_next(q) ELSE q)

hin_pipe_write_callback(p, ret) ==
  IF ret < 0 THEN WriteFailed(p)
  ELSE IF ret < Head(p.writing).count THEN WriteShort(p, ret)
  ELSE WriteFull(p, ret)

(* hin_pipe_read_callback; `first` names the first byte read. An error is  *)
(* reported and then treated like the end of the source. *)
ReadEnded(p, ret) ==
  [p EXCEPT !.reading = Tail(@),
            !.inFlags = IF ret <= 0 THEN @ \cup {"DONE"} ELSE @,
            !.errors = IF ret < 0 /\ "error" \in p.callbacks
                       THEN @ \cup {"in"} ELSE @]

OutIdle(p) ==
  IF p.writeQue = <<>> THEN [p EXCEPT !.outFlags = @ \cup {"DONE"}] ELSE p

hin_pipe_read_callback(p, first, ret) ==
  LET b == [Head(p.reading) EXCEPT !.start = first,
                                   !.count = IF ret <= 0 THEN 0 ELSE ret]
  IN hin_pipe_advance(OutIdle(hin_pipe_process_buffer(ReadEnded(p, ret), b)))

(* hin_pipe_start *)
hin_pipe_start(p) == hin_pipe_advance([p EXCEPT !.outFlags = @ \cup {"DONE"}])

(* hin_pipe_finish: flush with an empty buffer (the raw copy drops it). *)
hin_pipe_finish(p) ==
  LET q == hin_pipe_process_buffer([p EXCEPT !.inFlags = @ \cup {"DONE"}],
                                   [start |-> 0, count |-> 0, pos |-> 0])
  IN hin_pipe_advance(
       IF q.writing = <<>> THEN [q EXCEPT !.outFlags = @ \cup {"DONE"}] ELSE q)

----------------------------------------------------------------------------
(* The pipe a caller builds before starting it: the zeroed structure of    *)
(* hin_pipe_init, the header, and the bytes that came with the request. *)
hin_pipe_init(s) ==
  [inFlags |-> s.inFlags, outFlags |-> s.outFlags, condense |-> s.condense,
   left |-> IF "COUNT" \in s.inFlags THEN s.left ELSE 0, count |-> 0,
   inPos |-> s.inStart, outPos |-> 0,
   writeQue |-> <<>>, writing |-> <<>>, reading |-> <<>>,
   callbacks |-> {"finish", "error"}, finished |-> 0, errors |-> {},
   freed |-> FALSE]

WithHeader(p, s) ==
  IF s.header = 0 THEN p
  ELSE hin_pipe_append_raw(p, [start |-> 0, count |-> s.header, pos |-> 0])

WithPrefed(p, s) ==
  IF s.prefed = 0 THEN p
  ELSE hin_pipe_process_buffer(p, [start |-> s.header, count |-> s.prefed, pos |-> 0])

Init == /\ setup \in Setups
        /\ pipe = WithPrefed(WithHeader(hin_pipe_init(setup), setup), setup)
        /\ started = FALSE
        /\ ended = FALSE
        /\ src = setup.prefed
        /\ sink = {}

Start == /\ ~started
         /\ started' = TRUE
         /\ pipe' = hin_pipe_start(pipe)
         /\ UNCHANGED <<setup, ended, src, sink>>

(* The offset in the body of the next byte a read of buffer b returns. *)
ReadFrom(b) == IF "OFFSETS" \in setup.inFlags THEN b.pos - setup.inStart ELSE src

(* The kernel completes the outstanding read: with bytes of the source, at *)
(* its end, or with an error. *)
ReadData == /\ pipe.reading # <<>>
            /\ \E ret \in 1 .. MinOf(Head(pipe.reading).count,
                                     setup.srcLen - ReadFrom(Head(pipe.reading))) :
                 /\ pipe' = hin_pipe_read_callback(pipe,
                              setup.header + ReadFrom(Head(pipe.reading)), ret)
                 /\ src' = src + ret
            /\ UNCHANGED <<setup, started, ended, sink>>

ReadEnd == /\ pipe.reading # <<>>
           /\ \E ret \in {0, -1} :
                /\ ret = 0 => ReadFrom(Head(pipe.reading)) >= setup.srcLen
                /\ pipe' = hin_pipe_read_callback(pipe, 0, ret)
           /\ UNCHANGED <<setup, started, ended, src, sink>>

(* The kernel completes the outstanding write, fully or in part. *)
WriteData ==
  /\ pipe.writing # <<>>
  /\ LET b == Head(pipe.writing)
         at == IF "OFFSETS" \in setup.outFlags THEN b.pos ELSE pipe.count
     IN \E ret \in 1 .. b.count :
          /\ pipe' = hin_pipe_write_callback(pipe, ret)
          /\ sink' = sink \cup {<<at + j, b.start + j>> : j \in 0 .. ret - 1}
  /\ UNCHANGED <<setup, started, ended, src>>

WriteError == /\ pipe.writing # <<>>
              /\ pipe' = hin_pipe_write_callback(pipe, -1)
              /\ UNCHANGED <<setup, started, ended, src, sink>>

(* A FastCGI STDOUT record: hin_pipe_write_process and hin_pipe_advance. *)
Feed == /\ started /\ ~ended /\ ~pipe.freed
        /\ "INACTIVE" \in setup.inFlags
        /\ \E n \in 1 .. setup.srcLen - src :
             /\ pipe' = hin_pipe_advance(hin_pipe_process_buffer(pipe,
                          [start |-> setup.header + src, count |-> n, pos |-> 0]))
             /\ src' = src + n
        /\ UNCHANGED <<setup, started, ended, sink>>

(* A FastCGI END_REQUEST record. *)
Finish == /\ started /\ ~ended /\ ~pipe.freed
          /\ "INACTIVE" \in setup.inFlags
          /\ ended' = TRUE
          /\ pipe' = hin_pipe_finish(pipe)
          /\ UNCHANGED <<setup, started, src, sink>>

Next == \/ Start \/ ReadData \/ ReadEnd \/ WriteData \/ WriteError
        \/ Feed \/ Finish

(* The ring completes every operation it was given, and a FastCGI worker   *)
(* ends its request. *)
Fairness == /\ WF_vars(Start)
            /\ WF_vars(ReadData \/ ReadEnd)
            /\ WF_vars(WriteData \/ WriteError)
            /\ WF_vars(Finish)

Spec == Init /\ [][Next]_vars

FairSpec == Spec /\ Fairness
----------------------------------------------------------------------------
(* Type invariant of the pipe.  A read asks for at least one byte, since a *)
(* zero-length read looks like the end of the source to                    *)
(* hin_pipe_read_callback, and for no more than the buffer holds. *)
TypeOK ==
  /\ setup \in Setups
  /\ pipe \in PipeType
  /\ started \in BOOLEAN
  /\ ended \in BOOLEAN
  /\ src \in Nat
  /\ sink \subseteq Nat \X Nat
  /\ \A i \in 1 .. Len(pipe.reading) : pipe.reading[i].count \in 1 .. ReadSz

(* Whatever the interleaving of short reads, short writes and merges, a    *)
(* byte lands at the output offset it was meant for: ptr, count, pos and   *)
(* write_que agree in pipe.c. *)
FaithfulCopy == \A w \in sink : w[1] = w[2]

(* A counted pipe never takes from its source what lies beyond `left`, so  *)
(* the bytes of the next request on a kept-alive connection stay in the    *)
(* socket (only what the caller handed over itself can exceed it). *)
CountRespected ==
  "COUNT" \in setup.inFlags => src <= setup.left \/ src = setup.prefed

(* When finish_callback runs and no write failed, every byte taken was     *)
(* written; if no read failed either, the source was exhausted. *)
FinishedComplete ==
  pipe.finished > 0 =>
    /\ "out" \notin pipe.errors =>
         {w[1] : w \in sink} = 0 .. setup.header + src - 1
    /\ pipe.errors = {} =>
         \/ src >= setup.srcLen
         \/ "COUNT" \in setup.inFlags /\ src >= setup.left
         \/ ended

(* hin_pipe_close frees the pipe only when no completion can still reach   *)
(* it, and never before its owner was told. *)
SafeFree ==
  pipe.freed => /\ pipe.reading = <<>>
                /\ pipe.writing = <<>>
                /\ pipe.finished = 1

(* finish_callback runs once, and after it (the owner may be gone) neither *)
(* it nor an error callback runs again, late completions included. *)
OwnerNotifiedOnce ==
  [][pipe.finished > 0 =>
       pipe'.finished = pipe.finished /\ pipe'.errors = pipe.errors]_vars

(* The back-pressure of hin_pipe_advance bounds what a pipe that reads for *)
(* itself can queue, whatever the speed of its sink. *)
QueueBounded ==
  "INACTIVE" \notin setup.inFlags =>
    Queued(pipe.writeQue) < 3 * ReadSz

(* What a pipe takes in is bounded twice: by `left`, so that a counted     *)
(* pipe leaves the next request in the socket, and by the back-pressure of *)
(* hin_pipe_advance, which measures a queue without gaps: the buffers of   *)
(* write_que hold consecutive bytes. *)
IntakeExact ==
  /\ CountRespected
  /\ QueueBounded
  /\ \A i \in 1 .. Len(pipe.writeQue) - 1 :
       End(pipe.writeQue[i]) = pipe.writeQue[i + 1].start

(* Every pipe ends and is freed, under the fairness above: the hold-back   *)
(* of CONDENSE, the back-pressure limit and the DONE flags never leave a   *)
(* pipe with nothing to wake it. *)
Completes == <>(pipe.freed)

(* The pipe implements the abstract copy. *)
Copy == INSTANCE ByteCopy WITH
          taken <- setup.header + src,
          delivered <- pipe.count,
          status <- IF pipe.finished = 0 THEN "open"
                    ELSE IF "out" \in pipe.errors THEN "failed" ELSE "done"

ImplementsCopy == Copy!Spec
=============================================================================

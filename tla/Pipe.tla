-------------------------------- MODULE Pipe --------------------------------
(***************************************************************************)
(* One pipe (kernel/pipe.c): the ring buffer, and threads inside           *)
(* pipe_read_impl and pipe_write_impl.  Between two calls of sched_yield a *)
(* call runs with the pipe's lock held and interrupts off, so it is one    *)
(* step; a turn of the loop that only yields changes nothing.              *)
(*                                                                         *)
(* Readers use the read end, writers the write end.  An end is closed when *)
(* its last descriptor goes, so not while a thread is in a call on it (the *)
(* module Handles checks that).                                            *)
(***************************************************************************)
EXTENDS Integers, Sequences

CONSTANTS
  Size,      \* PIPE_SIZE (4096)
  MaxLen,    \* bound: the longest read or write
  Byte,      \* the byte values
  Readers, Writers

Thread == Readers \cup Writers

ASSUME PipeAssumption ==
  /\ Size \in Nat \ {0} /\ MaxLen \in Nat \ {0}
  /\ Byte # {} /\ Readers \cap Writers = {}

VARIABLES
  buffer, read_pos, write_pos, used, readers, writers,
  call,     \* a thread's call: "none", "read" or "write"
  len,      \* how much a reader asked for
  todo,     \* what a writer has still to put in
  eof       \* history: some read has returned 0

ring == <<buffer, read_pos, write_pos, used>>
vars == <<buffer, read_pos, write_pos, used, readers, writers, call, len, todo,
          eof>>

MinOf(a, b) == IF a <= b THEN a ELSE b

\* The first n bytes of s are stored from write_pos on.
Store(s, n) ==
  /\ buffer' = [i \in 0..Size - 1 |->
       LET j == (i - write_pos) % Size IN IF j < n THEN s[j + 1] ELSE buffer[i]]
  /\ write_pos' = (write_pos + n) % Size
  /\ used' = used + n

Return(t) == call' = [call EXCEPT ![t] = "none"]

-----------------------------------------------------------------------------
ReadCall(t, n) ==
  /\ readers > 0 /\ call[t] = "none"
  /\ call' = [call EXCEPT ![t] = "read"]
  /\ len' = [len EXCEPT ![t] = n]
  /\ UNCHANGED <<ring, readers, writers, todo, eof>>

\* Mutant: a closed write end is end of file, whatever is left to read.
ReadEofEarly(t) ==
  /\ call[t] = "read" /\ writers = 0
  /\ Return(t) /\ eof' = TRUE
  /\ len' = [len EXCEPT ![t] = 0]
  /\ UNCHANGED <<ring, readers, writers, todo>>

\* Mutant: the wrong count is tested.
ReadEofSwapped(t) ==
  /\ call[t] = "read" /\ used = 0 /\ readers = 0
  /\ Return(t) /\ eof' = TRUE
  /\ len' = [len EXCEPT ![t] = 0]
  /\ UNCHANGED <<ring, readers, writers, todo>>

\* The buffer is empty and nobody can fill it.
ReadEof(t) ==
  /\ call[t] = "read" /\ used = 0 /\ writers = 0
  /\ Return(t) /\ eof' = TRUE
  /\ len' = [len EXCEPT ![t] = 0]
  /\ UNCHANGED <<ring, readers, writers, todo>>

\* What there is, up to what was asked for.
ReadSome(t) ==
  /\ call[t] = "read" /\ used > 0
  /\ LET n == MinOf(len[t], used)
     IN  /\ read_pos' = (read_pos + n) % Size
         /\ used' = used - n
         /\ Return(t)
  /\ len' = [len EXCEPT ![t] = 0]
  /\ UNCHANGED <<buffer, write_pos, readers, writers, todo, eof>>

\* A write that finds no reader fails at once.
WriteCall(t, s) ==
  /\ writers > 0 /\ call[t] = "none"
  /\ IF readers = 0
     THEN UNCHANGED <<call, todo>>
     ELSE /\ call' = [call EXCEPT ![t] = "write"]
          /\ todo' = [todo EXCEPT ![t] = s]
  /\ UNCHANGED <<ring, readers, writers, len, eof>>

\* The inner loop of pipe_write_impl: as much as fits.
WriteSome(t) ==
  /\ call[t] = "write" /\ used < Size
  /\ LET n == MinOf(Len(todo[t]), Size - used)
     IN  /\ Store(todo[t], n)
         /\ IF n = Len(todo[t]) THEN Return(t) ELSE UNCHANGED call
         /\ todo' = [todo EXCEPT ![t] = SubSeq(@, n + 1, Len(@))]
  /\ UNCHANGED <<read_pos, readers, writers, len, eof>>

\* The buffer is full and nobody can empty it.
WriteBroken(t) ==
  /\ call[t] = "write" /\ used = Size /\ readers = 0
  /\ Return(t)
  /\ todo' = [todo EXCEPT ![t] = <<>>]
  /\ UNCHANGED <<ring, readers, writers, len, eof>>

\* pipe_close_impl for either end.
CloseReader ==
  /\ readers > 0 /\ \A t \in Readers : call[t] = "none"
  /\ readers' = readers - 1
  /\ UNCHANGED <<ring, writers, call, len, todo, eof>>

CloseWriter ==
  /\ writers > 0 /\ \A t \in Writers : call[t] = "none"
  /\ writers' = writers - 1
  /\ UNCHANGED <<ring, readers, call, len, todo, eof>>

\* pipe_alloc_struct: zeroed memory, one reader, one writer.
Init ==
  /\ \E b \in Byte : buffer = [i \in 0..Size - 1 |-> b]
  /\ read_pos = 0 /\ write_pos = 0 /\ used = 0
  /\ readers = 1 /\ writers = 1
  /\ call = [t \in Thread |-> "none"]
  /\ len = [t \in Readers |-> 0]
  /\ todo = [t \in Writers |-> <<>>]
  /\ eof = FALSE

Data == UNION {[1..n -> Byte] : n \in 1..MaxLen}

ReadStep(t) == ReadEof(t) \/ ReadSome(t)
WriteStep(t) == WriteSome(t) \/ WriteBroken(t)

Next ==
  \/ \E t \in Readers : ReadStep(t) \/ \E n \in 1..MaxLen : ReadCall(t, n)
  \/ \E t \in Writers : WriteStep(t) \/ \E s \in Data : WriteCall(t, s)
  \/ CloseReader \/ CloseWriter

Spec == Init /\ [][Next]_vars

\* A yielding thread runs again: the ready list is served in turn.
FairSpec ==
  /\ Spec
  /\ \A t \in Readers : WF_vars(ReadStep(t))
  /\ \A t \in Writers : WF_vars(WriteStep(t))

-----------------------------------------------------------------------------
(* Properties. *)

\* Types, and the ring's own redundancy: used is what lies between the two
\* positions, and only a thread in a call has anything left to do.
TypeOK ==
  /\ buffer \in [0..Size - 1 -> Byte]
  /\ read_pos \in 0..Size - 1 /\ write_pos \in 0..Size - 1
  /\ used \in 0..Size /\ write_pos = (read_pos + used) % Size
  /\ readers \in 0..1 /\ writers \in 0..1
  /\ call \in [Thread -> {"none", "read", "write"}]
  /\ len \in [Readers -> 0..MaxLen] /\ eof \in BOOLEAN
  /\ todo \in [Writers -> Data \cup {<<>>}]
  /\ \A t \in Writers : todo[t] = <<>> <=> call[t] = "none"

\* The bytes in transit, oldest first.
Contents == [i \in 1..used |-> buffer[(read_pos + i - 1) % Size]]

Stream == INSTANCE ByteStream WITH
  Capacity <- Size, queue <- Contents, pending <- todo,
  canWrite <- writers > 0, canRead <- readers > 0, eofSeen <- eof

\* The ring buffer is a byte stream: bytes come out as the writers gave them,
\* across the wrap-around and with several threads taking turns, a write is
\* cut short only when nobody can read, and a read returns 0 only when the
\* last writer has gone and the last byte was read.
ImplementsStream == Stream!StreamSpec

\* No call yields for ever in the loops of pipe_read and pipe_write: a read
\* ends once the write end is closed, a write once the read end is.
CallsReturn ==
  /\ \A t \in Readers : (call[t] = "read" /\ writers = 0) ~> (call[t] = "none")
  /\ \A t \in Writers : (call[t] = "write" /\ readers = 0) ~> (call[t] = "none")
=============================================================================

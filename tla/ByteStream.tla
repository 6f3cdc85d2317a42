----------------------------- MODULE ByteStream -----------------------------
(***************************************************************************)
(* What a pipe promises: bytes come out in the order in which they went    *)
(* in, none lost, none twice; a writer's bytes go in as it gave them, all  *)
(* of them unless the last reader goes first; end of file is seen only     *)
(* after the last writer has gone and the last byte has been read.         *)
(***************************************************************************)
EXTENDS Integers, Sequences

CONSTANTS Byte, Capacity, MaxLen, Writers

VARIABLES
  queue,    \* the bytes in transit, oldest first
  pending,  \* what each writer has still to send
  canWrite, \* the write end is open
  canRead,  \* the read end is open
  eofSeen   \* a reader was told end of file

streamVars == <<queue, pending, canWrite, canRead, eofSeen>>

StreamInit ==
  /\ queue = <<>> /\ pending = [w \in Writers |-> <<>>]
  /\ canWrite = TRUE /\ canRead = TRUE /\ eofSeen = FALSE

Offer(w) ==
  /\ canWrite /\ canRead /\ pending[w] = <<>>
  /\ \E n \in 1..MaxLen : \E s \in [1..n -> Byte] :
       pending' = [pending EXCEPT ![w] = s]
  /\ UNCHANGED <<queue, canWrite, canRead, eofSeen>>

Send(w) ==
  /\ canWrite
  /\ \E n \in 1..Len(pending[w]) :
       /\ Len(queue) + n <= Capacity
       /\ queue' = queue \o SubSeq(pending[w], 1, n)
       /\ pending' = [pending EXCEPT ![w] = SubSeq(@, n + 1, Len(@))]
  /\ UNCHANGED <<canWrite, canRead, eofSeen>>

GiveUp(w) ==
  /\ ~canRead /\ Len(queue) = Capacity
  /\ pending' = [pending EXCEPT ![w] = <<>>]
  /\ UNCHANGED <<queue, canWrite, canRead, eofSeen>>

Receive ==
  /\ canRead
  /\ \E n \in 1..Len(queue) : queue' = SubSeq(queue, n + 1, Len(queue))
  /\ UNCHANGED <<pending, canWrite, canRead, eofSeen>>

Eof ==
  /\ canRead /\ ~canWrite /\ queue = <<>>
  /\ eofSeen' = TRUE
  /\ UNCHANGED <<queue, pending, canWrite, canRead>>

CloseWrite ==
  /\ canWrite /\ canWrite' = FALSE
  /\ \A w \in Writers : pending[w] = <<>>
  /\ UNCHANGED <<queue, pending, canRead, eofSeen>>

CloseRead ==
  /\ canRead /\ canRead' = FALSE
  /\ UNCHANGED <<queue, pending, canWrite, eofSeen>>

StreamNext ==
  \/ \E w \in Writers : Offer(w) \/ Send(w) \/ GiveUp(w)
  \/ Receive \/ Eof \/ CloseWrite \/ CloseRead

StreamSpec == StreamInit /\ [][StreamNext]_streamVars
=============================================================================

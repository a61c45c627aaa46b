------------------------------ MODULE TtpStream ------------------------------
(***************************************************************************)
(* The call by which the adjust rank of semi2k gets the corrections of its *)
(* beaver triples from the trusted third party (BeaverTtp, beaver_server). *)
(* The server replays the parties' randomness, a chunk of elements at a    *)
(* time, and streams what it computes; the stream arrives in parts of any  *)
(* size, which a thread of the rpc library hands to a ProgressiveReader;   *)
(* the caller sleeps until the reader has been told of the end.            *)
(*                                                                         *)
(* A byte of a correction is the correction it belongs to and the position *)
(* of the randomness it corrects, counted from where the parties started.  *)
(***************************************************************************)
EXTENDS Integers, Sequences, FiniteSets

CONSTANTS
  Requests,   \* requests the caller may make: [kind, len], len in bytes
  FieldSize,  \* bytes of a ring element
  BlockSize,  \* bytes of a block of the prg
  ChunkSize,  \* kReplayChunkSize
  FlagSize,   \* bytes before every chunk: a code and the size of the chunk
  ErrSize,    \* bytes of an error message
  MayFail,    \* the server's computation may throw
  MayBreak,   \* the connection may be lost
  None        \* no value

ASSUME SizesAssumption ==
  /\ {FieldSize, BlockSize, ChunkSize, FlagSize, ErrSize} \subseteq Nat \ {0}
  /\ ChunkSize % FieldSize = 0 /\ ChunkSize % BlockSize = 0

(* Mul stands for all requests that are computed element by element and    *)
(* have one correction, dot for those that are computed at once (perm).    *)
Kinds == {"mul", "dot", "truncpr"}

ASSUME RequestsAssumption ==
  /\ Requests \subseteq [kind : Kinds, len : Nat \ {0}]
  /\ \A r \in Requests : r.len % FieldSize = 0

ASSUME NoneAssumption == None \notin {"ok", "error"}

VARIABLES
  request,   \* what the caller has asked for
  server,    \* what the server has still to do
  stream,    \* bytes on their way
  link,      \* "open", "closed" by the server, or "broken"
  reader,    \* the ProgressiveReader; overrun (not in the code) tells that
             \* more was copied than had arrived
  buffers,   \* receive_buffers_
  part,      \* what is left of the part OnReadOnePart was called with
  status,    \* read_status_
  caller     \* the thread in RpcCall

vars == <<request, server, stream, link, reader, buffers, part, status, caller>>
-----------------------------------------------------------------------------
Min(a, b) == IF a < b THEN a ELSE b

CeilDiv(a, b) == (a + b - 1) \div b

(* TruncPr has two corrections, the others one.                            *)
NumBuf(r) == IF r.kind = "truncpr" THEN 2 ELSE 1

Bufs(r) == 0 .. NumBuf(r) - 1

Elements(r) == r.len \div FieldSize

(* The elements the server corrects at a time.                             *)
ChunkElements(r) ==
  IF r.kind = "dot" THEN Elements(r) ELSE ChunkSize \div FieldSize

Flags(code, size) == [i \in 1 .. FlagSize |-> [flag |-> code, size |-> size]]

Error == [i \in 1 .. ErrSize |-> "error"]

(* Mutant: one correction is expected.                                     *)
BufferSizeOfOne(r) == r.len

BufferSize(r) == NumBuf(r) * r.len

Init ==
  /\ request \in Requests
  /\ server = [step |-> "Adjust", left |-> Elements(request), counter |-> 0,
               out |-> <<>>, failed |-> FALSE]
  /\ stream = <<>>
  /\ link = "open"
  /\ reader = [state |-> "ReadFlags", flags_pos |-> 0, chunk_remain |-> 0,
               buffer_remain |-> BufferSize(request),
               idx |-> 0, pos |-> 0, length |-> 0, data_pos |-> 0,
               error |-> FALSE, call |-> "None", overrun |-> FALSE]
  /\ buffers = [b \in Bufs(request) |-> [i \in 0 .. request.len - 1 |-> None]]
  /\ part = <<>>
  /\ status = None
  /\ caller = "Wait"
-----------------------------------------------------------------------------
(* AdjustImpl of the next chunk: the randomness is replayed from the       *)
(* counters of the operands, which the replay advances.                    *)
(* Mutant: it does not.                                                    *)
ReplayedImmutable(counter, size) == counter

Replayed(counter, size) == counter + CeilDiv(size, BlockSize)

Adjust ==
  LET cur == Min(server.left, ChunkElements(request))
      left == server.left - cur
      size == cur * FieldSize
  IN  /\ server.step = "Adjust" /\ server.left > 0
      /\ server' = [server EXCEPT
           !.step = "Send", !.left = left,
           !.counter = Replayed(@, size),
           !.out = [k \in 1 .. NumBuf(request) |->
                     [buf |-> k - 1, size |-> size, pos |-> 0,
                      from |-> server.counter * BlockSize]]]
      /\ UNCHANGED <<request, stream, link, reader, buffers, part, status, caller>>

(* AdjustImpl, or BuildOperand before it, throws: the error is sent.       *)
AdjustError ==
  /\ MayFail
  /\ server.step = "Adjust" /\ server.left > 0
  /\ server' = [server EXCEPT !.step = "Done", !.failed = TRUE]
  /\ stream' = IF link = "broken" THEN stream
               ELSE stream \o Flags(1, ErrSize) \o Error
  /\ link' = IF link = "open" THEN "closed" ELSE link
  /\ UNCHANGED <<request, reader, buffers, part, status, caller>>

(* SendStreamData, a chunk of a correction at a time; a write to a broken  *)
(* connection fails, and the server gives up.                              *)
SendChunk ==
  LET a == Head(server.out)
      n == Min(a.size - a.pos, ChunkSize)
      sent == a.pos + n = a.size
      out == IF sent THEN Tail(server.out)
             ELSE <<[a EXCEPT !.pos = a.pos + n]>> \o Tail(server.out)
  IN  /\ server.step = "Send" /\ server.out # <<>>
      /\ IF link = "broken"
         THEN /\ server' = [server EXCEPT !.step = "Done", !.failed = TRUE]
              /\ UNCHANGED stream
         ELSE /\ server' = [server EXCEPT !.out = out,
                              !.step = IF out = <<>> THEN "Adjust" ELSE "Send"]
              /\ stream' = stream \o Flags(0, n) \o
                   [i \in 1 .. n |-> [buf |-> a.buf, at |-> a.from + a.pos + i - 1]]
      /\ UNCHANGED <<request, link, reader, buffers, part, status, caller>>

(* The server has sent everything and drops the attachment.                *)
Close ==
  /\ server.step = "Adjust" /\ server.left = 0
  /\ server' = [server EXCEPT !.step = "Done"]
  /\ link' = IF link = "open" THEN "closed" ELSE link
  /\ UNCHANGED <<request, stream, reader, buffers, part, status, caller>>

(* The connection is lost, with what has not arrived.                      *)
Break ==
  /\ MayBreak
  /\ link # "broken" /\ status = None
  /\ link' = "broken"
  /\ stream' = <<>>
  /\ UNCHANGED <<request, server, reader, buffers, part, status, caller>>
-----------------------------------------------------------------------------
(* OnReadOnePart is called with the first n bytes that have arrived;       *)
OnReadOnePart(n) ==
  /\ reader.call = "None" /\ status = None
  /\ part' = SubSeq(stream, 1, n)
  /\ stream' = SubSeq(stream, n + 1, Len(stream))
  /\ reader' = [reader EXCEPT !.call = "Part"]
  /\ UNCHANGED <<request, server, link, buffers, status, caller>>

Reading(state) ==
  reader.call = "Part" /\ part # <<>> /\ reader.state = state

Consume(n) == part' = SubSeq(part, n + 1, Len(part))

(* its loop: flags, which may come in pieces,                              *)
CopyToFlags ==
  LET n == Min(FlagSize - reader.flags_pos, Len(part))
      flags == part[n]
  IN  /\ Reading("ReadFlags")
      /\ Consume(n)
      /\ reader' =
           IF reader.flags_pos + n < FlagSize
           THEN [reader EXCEPT !.flags_pos = @ + n]
           ELSE [reader EXCEPT !.flags_pos = 0, !.chunk_remain = flags.size,
                               !.state = IF flags.flag = 0 THEN "ReadChunk"
                                         ELSE "ReadError"]
      /\ UNCHANGED <<request, server, stream, link, buffers, status, caller>>

(* a chunk, as far as it has come,                                         *)
CopyToBuffer ==
  LET n == Min(Len(part), reader.chunk_remain)
  IN  /\ Reading("ReadChunk") /\ reader.length = 0
      /\ reader' =
           IF n > reader.buffer_remain
           THEN [reader EXCEPT !.call = "Failed"]
           ELSE [reader EXCEPT
                  !.length = n, !.data_pos = 0,
                  !.chunk_remain = @ - n,
                  !.buffer_remain = @ - n]
      /\ UNCHANGED <<request, server, stream, link, buffers, part, status, caller>>

(* of which what fits is copied to the current buffer, then to the next.   *)
(* Nothing says that no more than the rest of the chunk is copied.         *)
CopySize == Min(reader.length, request.len - reader.pos)

NextPos(n) == IF reader.pos + n = request.len THEN 0 ELSE reader.pos + n

CopyOnce ==
  LET n == CopySize
      full == reader.pos + n = request.len
      data_pos == reader.data_pos + n
      copied(i) == IF reader.data_pos + i \in DOMAIN part
                   THEN part[reader.data_pos + i] ELSE None
      done == data_pos >= reader.length
  IN  /\ Reading("ReadChunk") /\ reader.length > 0
      /\ IF reader.idx >= NumBuf(request)
         THEN /\ reader' = [reader EXCEPT !.call = "Failed"]
              /\ UNCHANGED <<buffers, part>>
         ELSE /\ buffers' = [buffers EXCEPT ![reader.idx] =
                   [i \in DOMAIN @ |->
                     IF i \in reader.pos .. reader.pos + n - 1
                     THEN copied(i - reader.pos + 1) ELSE @[i]]]
              /\ reader' = [reader EXCEPT
                   !.pos = NextPos(n),
                   !.idx = IF full THEN @ + 1 ELSE @,
                   !.data_pos = IF done THEN 0 ELSE data_pos,
                   !.length = IF done THEN 0 ELSE @,
                   !.overrun = @ \/ data_pos > reader.length,
                   !.state = IF ~done THEN @
                             ELSE IF reader.buffer_remain = 0 THEN "End"
                             ELSE IF reader.chunk_remain = 0 THEN "ReadFlags"
                             ELSE @]
              /\ IF done THEN Consume(reader.length) ELSE UNCHANGED part
      /\ UNCHANGED <<request, server, stream, link, status, caller>>

(* an error,                                                               *)
CopyToError ==
  LET n == Min(Len(part), reader.chunk_remain)
  IN  /\ Reading("ReadError")
      /\ Consume(n)
      /\ reader' = [reader EXCEPT !.error = TRUE, !.chunk_remain = @ - n,
                      !.state = IF reader.chunk_remain = n THEN "End" ELSE @]
      /\ UNCHANGED <<request, server, stream, link, buffers, status, caller>>

(* until the part is read, or is longer than the response. An error of the *)
(* server fails the call that has read the end of it.                      *)
PartDone ==
  /\ reader.call = "Part"
  /\ part = <<>> \/ reader.state = "End"
  /\ reader' = [reader EXCEPT !.call =
       IF part # <<>> \/ (reader.state = "End" /\ reader.error)
       THEN "Failed" ELSE "None"]
  /\ UNCHANGED <<request, server, stream, link, buffers, part, status, caller>>

(* OnEndOfMessage: the stream is over, or the rpc library has given it up  *)
(* after a part that failed. The status is set under the lock,             *)
EndStatus(ok) == IF reader.state = "End" /\ ok THEN "ok" ELSE "error"

OnEndOfMessage ==
  /\ status = None
  /\ \/ reader.call = "Failed" /\ status' = EndStatus(FALSE)
     \/ reader.call = "None" /\ stream = <<>> /\ link = "closed"
        /\ status' = EndStatus(TRUE)
     \/ reader.call = "None" /\ link = "broken" /\ status' = EndStatus(FALSE)
  /\ reader' = [reader EXCEPT !.call = "Ended"]
  /\ UNCHANGED <<request, server, stream, link, buffers, part, caller>>

(* Mutant: the caller is only notified of a whole response.                *)
NotifyOk ==
  /\ reader.call = "Ended"
  /\ reader' = [reader EXCEPT !.call = "Over"]
  /\ caller' = IF caller = "Asleep" /\ status = "ok" THEN "Wait" ELSE caller
  /\ UNCHANGED <<request, server, stream, link, buffers, part, status>>

(* and the caller notified after it.                                       *)
NotifyAll ==
  /\ reader.call = "Ended"
  /\ reader' = [reader EXCEPT !.call = "Over"]
  /\ caller' = IF caller = "Asleep" THEN "Wait" ELSE caller
  /\ UNCHANGED <<request, server, stream, link, buffers, part, status>>
-----------------------------------------------------------------------------
(* Wait tests the status and sleeps, or returns or throws.                 *)
Wait ==
  /\ caller = "Wait"
  /\ caller' = CASE status = None -> "Asleep"
                 [] status = "ok" -> "Returned"
                 [] status = "error" -> "Thrown"
  /\ UNCHANGED <<request, server, stream, link, reader, buffers, part, status>>

(* Nothing is left to be done for the call.                                *)
Terminated ==
  /\ caller # "Wait" /\ server.step = "Done" /\ reader.call = "Over"
  /\ UNCHANGED vars

ServerStep == Adjust \/ AdjustError \/ SendChunk \/ Close

ReaderStep ==
  \/ \E n \in 1 .. Len(stream) : OnReadOnePart(n)
  \/ CopyToFlags \/ CopyToBuffer \/ CopyOnce \/ CopyToError
  \/ PartDone \/ OnEndOfMessage \/ NotifyAll

Next == ServerStep \/ Break \/ ReaderStep \/ Wait

Spec == Init /\ [][Next]_vars

(* The server computes, the connection delivers or fails, and threads run. *)
Fairness == WF_vars(ServerStep) /\ WF_vars(ReaderStep) /\ WF_vars(Wait)
-----------------------------------------------------------------------------
States == {"ReadFlags", "ReadChunk", "ReadError", "End"}

Byte == [buf : 0 .. 1, at : Nat] \cup [flag : 0 .. 1, size : Nat] \cup {"error"}

(* No more is copied than has come of the chunk.                           *)
CopiesWithin == ~reader.overrun

(* The state is well typed, positions stay within their buffers, and so    *)
(* does what is copied.                                                    *)
TypeOK ==
  /\ request \in Requests
  /\ server.step \in {"Adjust", "Send", "Done"}
  /\ server.left \in 0 .. Elements(request) /\ server.counter \in Nat
  /\ server.failed \in BOOLEAN
  /\ \A k \in DOMAIN server.out :
       server.out[k] \in [buf : Bufs(request), size : Nat \ {0}, pos : Nat, from : Nat]
  /\ link \in {"open", "closed", "broken"}
  /\ reader.state \in States
  /\ reader.flags_pos \in 0 .. FlagSize - 1
  /\ {reader.chunk_remain, reader.buffer_remain, reader.idx} \subseteq Nat
  /\ reader.pos \in 0 .. request.len - 1
  /\ reader.call \in {"None", "Part", "Failed", "Ended", "Over"}
  /\ status \in {None, "ok", "error"}
  /\ caller \in {"Wait", "Asleep", "Returned", "Thrown"}
  /\ CopiesWithin

(* When the call returns, every byte of every buffer is the correction of  *)
(* the randomness the parties have drawn there: adjust[b] is for descs[b], *)
(* whatever parts and chunks it came in.                                   *)
AdjustsInPlace ==
  caller = "Returned" =>
    \A b \in Bufs(request), i \in 0 .. request.len - 1 :
      buffers[b][i] = [buf |-> b, at |-> i]

(* A response is only refused if the server could not compute it or the    *)
(* connection was lost.                                                    *)
ResponseAccepted ==
  caller = "Thrown" => server.failed \/ link = "broken"

(* The call ends: the caller is not left asleep.                           *)
CallEnds == <>(caller \in {"Returned", "Thrown"})
=============================================================================

-------------------------- MODULE TtpStream_proofs --------------------------
(***************************************************************************)
(* Proofs about the corrections of a trusted third party, for requests of  *)
(* any length and all sizes of elements, blocks, chunks and flags: a call  *)
(* that returns has every byte of every correction in its place, whatever  *)
(* parts the response came in, and a call that throws has met an error of  *)
(* the server or of the connection.                                        *)
(*                                                                         *)
(* A response is one sequence of bytes, which the request determines.  The *)
(* invariant says how much of it the server has sent and the reader read,  *)
(* and that what is on its way is what lies between the two.               *)
(***************************************************************************)
EXTENDS TtpStream, SequenceTheorems, TLAPS

LEMMA Constants ==
  /\ FieldSize \in Nat \ {0} /\ BlockSize \in Nat \ {0}
  /\ ChunkSize \in Nat \ {0} /\ FlagSize \in Nat \ {0}
  /\ ErrSize \in Nat \ {0}
BY SizesAssumption

USE Constants

(* If there are two corrections, each fits into a chunk.  Otherwise their  *)
(* chunks take turns, and the reader, which fills one buffer after the     *)
(* other, mixes them.                                                      *)
OneChunkEach == \A r \in Requests : r.kind = "truncpr" => r.len <= ChunkSize

-----------------------------------------------------------------------------
(* What a whole response looks like.  It is cut into chunks, all but the   *)
(* last one of the same number of bytes, each with flags in front.         *)
Stride(r) == IF r.kind = "truncpr" THEN r.len ELSE ChunkSize

(* The bytes of corrections before chunk k, and in it.                     *)
Start(r, k) == k * Stride(r)

SizeOf(r, k) == Min(Stride(r), BufferSize(r) - Start(r, k))

(* Byte g of the corrections of a response, counted from 0.                *)
Content(r, g) == [buf |-> IF g < r.len THEN 0 ELSE 1,
                  at |-> IF g < r.len THEN g ELSE g - r.len]

(* Where chunk k begins in the response, with the flags of all before it;  *)
(* and where the response ends, of which K chunks have been sent.          *)
ChunkAt(r, k) == k * FlagSize + Start(r, k)

SentTo(r, K) == K * FlagSize + Min(Start(r, K), BufferSize(r))

(* Byte j of chunk k, of which the flags are the first.                    *)
ByteAt(r, k, j) ==
  IF j < FlagSize THEN [flag |-> 0, size |-> SizeOf(r, k)]
  ELSE Content(r, Start(r, k) + j - FlagSize)

(* The byte at place o of a response of which K chunks have been sent, and *)
(* after which the server may have failed.                                 *)
Carries(r, failed, K, o, byte) ==
  /\ o < SentTo(r, K) =>
       \A k \in Nat, j \in 0 .. FlagSize + Stride(r) - 1 :
         o = ChunkAt(r, k) + j => byte = ByteAt(r, k, j)
  /\ o >= SentTo(r, K) =>
       /\ failed
       /\ o < SentTo(r, K) + FlagSize => byte = [flag |-> 1, size |-> ErrSize]

-----------------------------------------------------------------------------
(* What TypeOK leaves open.                                                *)
ReaderType ==
  [state : States, flags_pos : Nat, chunk_remain : Nat, buffer_remain : Nat,
   idx : Nat, pos : Nat, length : Nat, data_pos : Nat, error : BOOLEAN,
   call : {"None", "Part", "Failed", "Ended", "Over"}, overrun : BOOLEAN]

OutType == [buf : 0 .. 1, size : Nat, pos : Nat, from : Nat]

ServerType ==
  [step : {"Adjust", "Send", "Done"}, left : Nat, counter : Nat,
   out : Seq(OutType), failed : BOOLEAN]

ShapeInv ==
  /\ server \in ServerType
  /\ reader \in ReaderType
  /\ part \in Seq(Byte) /\ stream \in Seq(Byte)
  /\ DOMAIN buffers = Bufs(request)
  /\ \A b \in Bufs(request) : DOMAIN buffers[b] = 0 .. request.len - 1

(* The server has sent K chunks, and has more to send or compute up to the *)
(* end of the corrections.                                                 *)
ServerInv(K) ==
  /\ K > 0 => Start(request, K - 1) < BufferSize(request)
  /\ server.step \in {"Adjust", "Send"} => ~server.failed /\ link # "closed"
  /\ server.failed =>
       link # "open" /\ Start(request, K) < BufferSize(request)
  /\ server.step = "Adjust" /\ server.left = 0 =>
       Start(request, K) >= BufferSize(request)
  /\ server.step = "Adjust" /\ server.left > 0 =>
       /\ server.left * FieldSize + Start(request, K) = request.len
       /\ server.counter * BlockSize = Start(request, K)
       /\ request.kind # "mul" => K = 0
  /\ server.step = "Send" => Start(request, K) < BufferSize(request)
  /\ server.step = "Done" /\ ~server.failed =>
       Start(request, K) >= BufferSize(request)

(* What it has computed and not sent.                                      *)
OutInv(K) ==
  server.step = "Send" =>
    /\ request.kind = "mul" =>
         /\ server.out = <<[buf |-> 0, size |-> SizeOf(request, K), pos |-> 0,
                            from |-> Start(request, K)]>>
         /\ server.left * FieldSize + Start(request, K) + SizeOf(request, K)
              = request.len
         /\ server.left > 0 =>
              server.counter * BlockSize = Start(request, K + 1)
    /\ request.kind = "dot" =>
         /\ server.out = <<[buf |-> 0, size |-> request.len,
                            pos |-> Start(request, K), from |-> 0]>>
         /\ server.left = 0
    /\ request.kind = "truncpr" =>
         /\ K = 0 => server.out =
              <<[buf |-> 0, size |-> request.len, pos |-> 0, from |-> 0],
                [buf |-> 1, size |-> request.len, pos |-> 0, from |-> 0]>>
         /\ K = 1 => server.out =
              <<[buf |-> 1, size |-> request.len, pos |-> 0, from |-> 0]>>
         /\ server.left = 0

(* The bytes of corrections that are in their places.                      *)
Got == reader.idx * request.len + reader.pos

(* The reader is in chunk k of the K that have been sent.                  *)
ReaderInv(K, k) ==
  /\ reader.data_pos = 0 /\ ~reader.overrun
  /\ reader.buffer_remain + reader.length + Got = BufferSize(request)
  /\ reader.error => reader.state \in {"ReadError", "End"}
  /\ reader.state # "ReadChunk" => reader.length = 0
  /\ reader.state = "ReadFlags" =>
       k <= K /\ Got = Start(request, k) /\ Got < BufferSize(request)
  /\ reader.state = "ReadChunk" =>
       /\ k < K
       /\ reader.flags_pos = 0
       /\ Got + reader.length + reader.chunk_remain
            = Start(request, k) + SizeOf(request, k)
       /\ Got >= Start(request, k)
       /\ reader.length + reader.chunk_remain > 0
       /\ reader.length <= Len(part)
  /\ reader.state = "ReadError" => server.failed
  /\ reader.state = "End" /\ reader.error => server.failed
  /\ reader.state = "End" /\ ~reader.error =>
       /\ Got = BufferSize(request) /\ Start(request, K) >= BufferSize(request)
       /\ ~server.failed /\ part = <<>> /\ stream = <<>>

(* The place in the response of the next byte for the reader.              *)
Place(k) ==
  IF reader.state = "ReadFlags" THEN ChunkAt(request, k) + reader.flags_pos
  ELSE (k + 1) * FlagSize + Got

(* What has been sent and not been read is what comes next, and all that   *)
(* comes next unless it is lost.                                           *)
WireInv(K, k) ==
  reader.state \in {"ReadFlags", "ReadChunk"} =>
    LET wire == part \o stream
    IN  /\ \A i \in 1 .. Len(wire) :
             Carries(request, server.failed, K, Place(k) + i - 1, wire[i])
        /\ link # "broken" /\ ~server.failed =>
             Place(k) + Len(wire) = SentTo(request, K)

(* The buffers are filled as far as the reader has come.                   *)
BuffersInv ==
  \A b \in Bufs(request), i \in 0 .. request.len - 1 :
    b * request.len + i < Got => buffers[b][i] = [buf |-> b, at |-> i]

(* A call ends once, with an error only if there was one, and whoever      *)
(* sleeps has yet to be notified.                                          *)
CallInv ==
  /\ reader.call # "Part" => reader.length = 0
  /\ reader.call = "None" =>
       part = <<>> /\ ~(reader.state = "End" /\ reader.error)
  /\ reader.call = "Failed" => server.failed
  /\ reader.call \in {"Ended", "Over"} <=> status # None
  /\ status = "ok" => reader.state = "End" /\ ~reader.error
  /\ status = "error" => server.failed \/ link = "broken"
  /\ caller = "Returned" => status = "ok"
  /\ caller = "Thrown" => status = "error"
  /\ caller = "Asleep" => reader.call # "Over"

(* K chunks have been sent, the reader is in chunk k.                      *)
ResponseInv(K, k) ==
  ServerInv(K) /\ OutInv(K) /\ ReaderInv(K, k) /\ WireInv(K, k)

IInv ==
  /\ TypeOK /\ ShapeInv
  /\ \E K, k \in Nat : ResponseInv(K, k)
  /\ BuffersInv
  /\ CallInv

-----------------------------------------------------------------------------
(* Quotients, products and places.                                         *)

LEMMA Quotient ==
  ASSUME NEW m \in Nat, NEW d \in Nat \ {0}, m % d = 0
  PROVE  m \div d \in Nat /\ (m \div d) * d = m
<1>1. m = d * (m \div d) + (m % d) /\ m \div d \in Int
  OBVIOUS
<1> DEFINE q == m \div d
<1>2. q \in Int /\ m = d * q
  BY <1>1
<1> HIDE DEF q
<1>3. q \in Nat
  <2> SUFFICES ASSUME q + 1 <= 0 PROVE FALSE
    BY <1>2
  <2>1. d * (q + 1) <= 0
    BY <1>2
  <2>2. d * (q + 1) = d * q + d
    BY <1>2
  <2> QED BY <1>2, <2>1, <2>2
<1> QED BY <1>2, <1>3 DEF q

LEMMA SmallQuotient ==
  ASSUME NEW m \in Nat, NEW d \in Nat \ {0}
  PROVE  /\ m \div d \in Nat
         /\ \E e \in 0 .. d - 1 : m = (m \div d) * d + e
<1>1. m = d * (m \div d) + (m % d) /\ m \div d \in Int /\ m % d \in 0 .. d - 1
  OBVIOUS
<1>2. PICK q \in Int : q = m \div d
  BY <1>1
<1>3. PICK e \in 0 .. d - 1 : e = m % d
  BY <1>1
<1>4. m = d * q + e
  BY <1>1, <1>2, <1>3
<1>5. q \in Nat
  <2> SUFFICES ASSUME q + 1 <= 0 PROVE FALSE
    BY <1>2
  <2>1. d * (q + 1) <= 0
    BY <1>2
  <2>2. d * (q + 1) = d * q + d
    BY <1>2
  <2> QED BY <1>3, <1>4, <2>1, <2>2
<1>6. d * q = q * d
  BY <1>2
<1>7. m = q * d + e
  BY <1>4, <1>6
<1> QED BY <1>2, <1>3, <1>5, <1>7

(* More of a product is more by at least a factor.                         *)
LEMMA ProductGrows ==
  ASSUME NEW i \in Nat, NEW j \in Nat, NEW d \in Nat
  PROVE  /\ i * d \in Nat
         /\ (i + 1) * d = i * d + d
         /\ i < j => i * d + d <= j * d
<1>1. i * d \in Nat /\ (i + 1) * d = i * d + d
  OBVIOUS
<1>2. ASSUME i < j PROVE i * d + d <= j * d
  <2>1. PICK e \in Nat : j = i + 1 + e
    BY <1>2
  <2>2. e * d \in Nat
    OBVIOUS
  <2>3. (i + 1 + e) * d = i * d + d + e * d
    OBVIOUS
  <2> QED BY <1>1, <2>1, <2>2, <2>3
<1> QED BY <1>1, <1>2

(* A whole number of blocks is rounded up to itself.                       *)
LEMMA WholeBlocks ==
  ASSUME NEW m \in Nat, NEW d \in Nat \ {0}, m % d = 0
  PROVE  CeilDiv(m, d) * d = m
<1>1. PICK q \in Nat : q = m \div d /\ q * d = m
  BY Quotient
<1>2. PICK w \in Nat : w = m + d - 1
  OBVIOUS
<1>3. PICK c \in Nat : c = w \div d
  BY SmallQuotient
<1>4. PICK e \in 0 .. d - 1 : w = c * d + e
  BY <1>3, SmallQuotient
<1>5. c = q
  <2>1. ~(c < q)
    <3> SUFFICES ASSUME c < q PROVE FALSE
      OBVIOUS
    <3>1. c * d + d <= q * d
      BY ProductGrows
    <3> QED BY <1>1, <1>2, <1>4, <3>1
  <2>2. ~(q < c)
    <3> SUFFICES ASSUME q < c PROVE FALSE
      OBVIOUS
    <3>1. q * d + d <= c * d
      BY ProductGrows
    <3> QED BY <1>1, <1>2, <1>4, <3>1
  <2> QED BY <2>1, <2>2
<1>6. CeilDiv(m, d) = q
  BY <1>2, <1>3, <1>5 DEF CeilDiv
<1> QED BY <1>1, <1>6

LEMMA RequestFacts ==
  ASSUME NEW r \in Requests
  PROVE  /\ r.kind \in Kinds /\ r.len \in Nat \ {0}
         /\ NumBuf(r) \in 1 .. 2 /\ Stride(r) \in Nat \ {0}
         /\ Bufs(r) = IF r.kind = "truncpr" THEN 0 .. 1 ELSE {0}
         /\ BufferSize(r) = IF r.kind = "truncpr" THEN r.len + r.len ELSE r.len
         /\ BufferSize(r) \in Nat \ {0}
         /\ Elements(r) \in Nat \ {0} /\ Elements(r) * FieldSize = r.len
<1>1. r.kind \in Kinds /\ r.len \in Nat \ {0} /\ r.len % FieldSize = 0
  BY RequestsAssumption
<1>2. Elements(r) \in Nat /\ Elements(r) * FieldSize = r.len
  BY <1>1, Quotient DEF Elements
<1>3. Elements(r) # 0
  <2> SUFFICES ASSUME Elements(r) = 0 PROVE FALSE
    OBVIOUS
  <2>1. 0 * FieldSize = 0
    OBVIOUS
  <2> QED BY <1>1, <1>2, <2>1
<1>4. NumBuf(r) = IF r.kind = "truncpr" THEN 2 ELSE 1
  BY DEF NumBuf
<1>5. Bufs(r) = IF r.kind = "truncpr" THEN 0 .. 1 ELSE {0}
  <2>1. 0 .. 0 = {0} OBVIOUS
  <2>2. 2 - 1 = 1 /\ 1 - 1 = 0 OBVIOUS
  <2> QED BY <1>4, <2>1, <2>2 DEF Bufs
<1>6. BufferSize(r) = IF r.kind = "truncpr" THEN r.len + r.len ELSE r.len
  BY <1>1, <1>4 DEF BufferSize
<1> QED BY <1>1, <1>2, <1>3, <1>4, <1>5, <1>6 DEF Stride

(* Chunks follow one another.                                              *)
LEMMA Starts ==
  ASSUME NEW r \in Requests, NEW k \in Nat
  PROVE  /\ Start(r, k) \in Nat /\ k * FlagSize \in Nat
         /\ ChunkAt(r, k) = k * FlagSize + Start(r, k)
         /\ Start(r, 0) = 0 /\ ChunkAt(r, 0) = 0
         /\ Start(r, k + 1) = Start(r, k) + Stride(r)
         /\ (k + 1) * FlagSize = k * FlagSize + FlagSize
         /\ \A K \in Nat : k < K =>
              /\ Start(r, k) + Stride(r) <= Start(r, K)
              /\ k * FlagSize + FlagSize <= K * FlagSize
              /\ ChunkAt(r, k) + FlagSize + Stride(r) <= ChunkAt(r, K)
<1>1. Stride(r) \in Nat \ {0}
  BY RequestFacts
<1>2. /\ k * FlagSize \in Nat /\ (k + 1) * FlagSize = k * FlagSize + FlagSize
      /\ \A K \in Nat : k < K => k * FlagSize + FlagSize <= K * FlagSize
  BY ProductGrows
<1>3. /\ Start(r, k) \in Nat /\ Start(r, k + 1) = Start(r, k) + Stride(r)
      /\ \A K \in Nat : k < K => Start(r, k) + Stride(r) <= Start(r, K)
  BY <1>1, ProductGrows DEF Start
<1>4. Start(r, 0) = 0
  BY <1>1 DEF Start
<1>5. \A K \in Nat : K * FlagSize \in Nat /\ Start(r, K) \in Nat
  BY <1>1, ProductGrows DEF Start
<1>6. ChunkAt(r, 0) = 0
  BY <1>4 DEF ChunkAt
<1>7. \A K \in Nat : k < K => ChunkAt(r, k) + FlagSize + Stride(r) <= ChunkAt(r, K)
  <2> SUFFICES ASSUME NEW K \in Nat, k < K
               PROVE  ChunkAt(r, k) + FlagSize + Stride(r) <= ChunkAt(r, K)
    OBVIOUS
  <2>1. /\ Start(r, k) + Stride(r) <= Start(r, K)
        /\ k * FlagSize + FlagSize <= K * FlagSize
    BY <1>2, <1>3
  <2> QED BY <1>1, <1>2, <1>3, <1>5, <2>1 DEF ChunkAt
<1>8. ChunkAt(r, k) = k * FlagSize + Start(r, k)
  BY DEF ChunkAt
<1> QED BY <1>2, <1>3, <1>4, <1>6, <1>7, <1>8

LEMMA ChunkNat ==
  ASSUME NEW r \in Requests, NEW k \in Nat
  PROVE  ChunkAt(r, k) \in Nat /\ SentTo(r, k) \in Nat
<1>1. k * FlagSize \in Nat /\ Start(r, k) \in Nat /\ BufferSize(r) \in Nat
  BY RequestFacts, Starts
<1> QED BY <1>1 DEF ChunkAt, SentTo, Min

(* A chunk ends where the next one starts, or the response ends.           *)
LEMMA Sizes ==
  ASSUME NEW r \in Requests, NEW k \in Nat, Start(r, k) < BufferSize(r)
  PROVE  /\ SizeOf(r, k) \in 1 .. Stride(r)
         /\ Start(r, k) + SizeOf(r, k) <= BufferSize(r)
         /\ \/ Start(r, k) + SizeOf(r, k) = Start(r, k + 1)
            \/ Start(r, k) + SizeOf(r, k) = BufferSize(r)
         /\ SentTo(r, k) = ChunkAt(r, k)
         /\ SentTo(r, k + 1) = (k + 1) * FlagSize + Start(r, k) + SizeOf(r, k)
<1>1. BufferSize(r) \in Nat /\ Stride(r) \in Nat \ {0}
  BY RequestFacts
<1>2. /\ Start(r, k) \in Nat /\ Start(r, k + 1) = Start(r, k) + Stride(r)
      /\ (k + 1) * FlagSize \in Nat /\ k * FlagSize \in Nat
      /\ ChunkAt(r, k) = k * FlagSize + Start(r, k)
  BY Starts
<1> QED BY <1>1, <1>2 DEF SizeOf, SentTo, Min

(* A place is in one chunk, once.                                          *)
LEMMA OnePlace ==
  ASSUME NEW r \in Requests, NEW k \in Nat, NEW l \in Nat,
         NEW i \in 0 .. FlagSize + Stride(r) - 1,
         NEW j \in 0 .. FlagSize + Stride(r) - 1,
         ChunkAt(r, k) + i = ChunkAt(r, l) + j
  PROVE  k = l /\ i = j
<1>1. Stride(r) \in Nat /\ ChunkAt(r, k) \in Nat /\ ChunkAt(r, l) \in Nat
  BY RequestFacts, ChunkNat
<1>2. ~(k < l)
  <2> SUFFICES ASSUME k < l PROVE FALSE
    OBVIOUS
  <2>1. ChunkAt(r, k) + FlagSize + Stride(r) <= ChunkAt(r, l)
    BY Starts
  <2> QED BY <1>1, <2>1
<1>3. ~(l < k)
  <2> SUFFICES ASSUME l < k PROVE FALSE
    OBVIOUS
  <2>1. ChunkAt(r, l) + FlagSize + Stride(r) <= ChunkAt(r, k)
    BY Starts
  <2> QED BY <1>1, <2>1
<1> QED BY <1>1, <1>2, <1>3

(* All of the chunks before the last one sent have been sent.              *)
LEMMA SentChunk ==
  ASSUME NEW r \in Requests, NEW K \in Nat, NEW k \in Nat, k < K,
         Start(r, K - 1) < BufferSize(r)
  PROVE  /\ Start(r, k) < BufferSize(r)
         /\ ChunkAt(r, k) + FlagSize + SizeOf(r, k) <= SentTo(r, K)
<1>1. K - 1 \in Nat
  OBVIOUS
<1>2. BufferSize(r) \in Nat /\ Stride(r) \in Nat \ {0}
  BY RequestFacts
<1>3. Start(r, k) \in Nat /\ Start(r, K - 1) \in Nat /\ Start(r, K) \in Nat
  BY <1>1, Starts
<1>4. k < K - 1 => Start(r, k) + Stride(r) <= Start(r, K - 1)
  BY <1>1, Starts
<1>5. Start(r, k) < BufferSize(r)
  BY <1>2, <1>3, <1>4
<1>6. /\ SizeOf(r, k) <= Stride(r) /\ SizeOf(r, k) \in Nat
      /\ Start(r, k) + SizeOf(r, k) <= BufferSize(r)
  BY <1>2, <1>5, Sizes
<1>7. /\ Start(r, k) + Stride(r) <= Start(r, K)
      /\ k * FlagSize + FlagSize <= K * FlagSize
      /\ ChunkAt(r, k) = k * FlagSize + Start(r, k)
      /\ k * FlagSize \in Nat /\ K * FlagSize \in Nat
  BY Starts
<1> QED BY <1>2, <1>3, <1>5, <1>6, <1>7 DEF SentTo, Min

(* What a place carries that has been sent, and one that has not.          *)
LEMMA CarriesSent ==
  ASSUME NEW r \in Requests, NEW failed, NEW K \in Nat, NEW byte,
         NEW k \in Nat, NEW j \in 0 .. FlagSize + Stride(r) - 1,
         ChunkAt(r, k) + j < SentTo(r, K)
  PROVE  Carries(r, failed, K, ChunkAt(r, k) + j, byte)
           <=> byte = ByteAt(r, k, j)
<1>1. Stride(r) \in Nat /\ ChunkAt(r, k) \in Nat /\ SentTo(r, K) \in Nat
  BY RequestFacts, ChunkNat
<1>2. ~(ChunkAt(r, k) + j >= SentTo(r, K))
  BY <1>1
<1>3. \A l \in Nat, i \in 0 .. FlagSize + Stride(r) - 1 :
        ChunkAt(r, k) + j = ChunkAt(r, l) + i => k = l /\ j = i
  BY OnePlace
<1> QED BY <1>2, <1>3 DEF Carries

-----------------------------------------------------------------------------
(* The server.                                                             *)

(* The records of the state, field by field.                               *)
LEMMA Fields ==
  ASSUME ShapeInv
  PROVE  /\ reader.flags_pos \in Nat /\ reader.chunk_remain \in Nat
         /\ reader.buffer_remain \in Nat /\ reader.idx \in Nat
         /\ reader.pos \in Nat /\ reader.length \in Nat
         /\ reader.data_pos \in Nat /\ reader.error \in BOOLEAN
         /\ reader.overrun \in BOOLEAN /\ reader.state \in States
         /\ server.left \in Nat /\ server.counter \in Nat
         /\ server.failed \in BOOLEAN
         /\ part \in Seq(Byte) /\ stream \in Seq(Byte)
         /\ Len(part) \in Nat /\ Len(stream) \in Nat
BY DEF ShapeInv, ReaderType, ServerType

LEMMA GotNat ==
  ASSUME TypeOK, ShapeInv
  PROVE  /\ Got \in Nat /\ reader.idx * request.len \in Nat
         /\ reader.pos < request.len /\ reader.pos \in Nat
<1>1. request.len \in Nat \ {0}
  BY RequestFacts DEF TypeOK
<1>2. reader.idx \in Nat /\ reader.pos \in 0 .. request.len - 1
  BY Fields DEF TypeOK
<1>3. reader.idx * request.len \in Nat
  BY <1>1, <1>2, ProductGrows
<1> QED BY <1>1, <1>2, <1>3 DEF Got

LEMMA PlaceNat ==
  ASSUME TypeOK, ShapeInv, NEW k \in Nat
  PROVE  Place(k) \in Nat
<1>1. ChunkAt(request, k) \in Nat /\ (k + 1) * FlagSize \in Nat
  <2>1. request \in Requests
    BY DEF TypeOK
  <2>2. ChunkAt(request, k) \in Nat
    BY <2>1, ChunkNat
  <2>3. /\ k * FlagSize \in Nat
        /\ (k + 1) * FlagSize = k * FlagSize + FlagSize
    BY <2>1, Starts
  <2> QED BY <2>2, <2>3
<1>2. reader.flags_pos \in Nat /\ Got \in Nat
  BY Fields, GotNat
<1> QED BY <1>1, <1>2 DEF Place

(* Nothing has been sent, nothing read.                                    *)
LEMMA Initial == Init => IInv
<1> SUFFICES ASSUME Init PROVE IInv
  OBVIOUS
<1>1. /\ request.len \in Nat \ {0} /\ BufferSize(request) \in Nat \ {0}
      /\ Elements(request) \in Nat \ {0}
      /\ Elements(request) * FieldSize = request.len
      /\ BufferSize(request) = IF request.kind = "truncpr"
                               THEN request.len + request.len ELSE request.len
      /\ request \in Requests
  BY RequestFacts DEF Init
<1>2. /\ Start(request, 0) = 0 /\ ChunkAt(request, 0) = 0
      /\ SentTo(request, 0) = 0
  <2>1. Start(request, 0) = 0 /\ ChunkAt(request, 0) = 0
    BY <1>1, Starts
  <2>2. SentTo(request, 0) = ChunkAt(request, 0)
    BY <1>1, <2>1, Sizes
  <2> QED BY <2>1, <2>2
<1>3. TypeOK
  BY <1>1 DEF Init, TypeOK, CopiesWithin, States
<1>4. ShapeInv
  BY <1>1 DEF Init, ShapeInv, ReaderType, ServerType, States
<1>5. Got = 0
  BY <1>1 DEF Init, Got
<1>6. ServerInv(0)
  <2>1. server.step = "Adjust" /\ server.left = Elements(request)
    BY DEF Init
  <2>2. server.counter = 0 /\ ~server.failed /\ link = "open"
    BY DEF Init
  <2>3. server.left * FieldSize = request.len /\ server.counter * BlockSize = 0
    BY <1>1, <2>1, <2>2
  <2> QED BY <1>1, <1>2, <2>1, <2>2, <2>3 DEF ServerInv
<1>7. OutInv(0)
  BY DEF Init, OutInv
<1>8. ReaderInv(0, 0)
  BY <1>1, <1>2, <1>5 DEF Init, ReaderInv
<1>9. WireInv(0, 0)
  <2>1. part \o stream = <<>> /\ Len(part \o stream) = 0
    BY DEF Init
  <2>2. Place(0) = 0
    BY <1>2 DEF Place, Init
  <2> QED BY <1>2, <2>1, <2>2 DEF WireInv
<1>10. BuffersInv
  BY <1>1, <1>5, ProductGrows DEF BuffersInv, Bufs, NumBuf
<1>11. CallInv
  BY NoneAssumption DEF Init, CallInv
<1>12. ResponseInv(0, 0)
  BY <1>6, <1>7, <1>8, <1>9 DEF ResponseInv
<1> QED BY <1>3, <1>4, <1>10, <1>11, <1>12 DEF IInv

(* What the server does leaves the reader alone.                           *)
LEMMA ReaderAlone ==
  ASSUME CallInv, BuffersInv,
         UNCHANGED <<request, reader, buffers, part, status, caller>>,
         server.failed => server'.failed, link = "broken" => link' = "broken"
  PROVE  CallInv' /\ BuffersInv'
<1>1. CallInv'
  BY DEF CallInv
<1>2. Got' = Got
  BY DEF Got
<1>3. BuffersInv'
  BY <1>2 DEF BuffersInv
<1> QED BY <1>1, <1>3

(* What it has sent stays as it is.                                        *)
LEMMA WireAlone ==
  ASSUME NEW K \in Nat, NEW k \in Nat, WireInv(K, k), ReaderInv(K, k),
         UNCHANGED <<request, reader, part, stream>>,
         server.failed => server'.failed,
         link' # "broken" /\ ~server'.failed =>
           link # "broken" /\ ~server.failed
  PROVE  WireInv(K, k)'
<1>1. Place(k)' = Place(k)
  BY DEF Place, Got
<1>2. \A o, b : Carries(request, server.failed, K, o, b) =>
                Carries(request', server'.failed, K, o, b)
  BY DEF Carries
<1> QED BY <1>1, <1>2 DEF WireInv

(* The elements that are computed next are a chunk.                         *)
LEMMA NextSize ==
  ASSUME OneChunkEach, TypeOK, ShapeInv, NEW K \in Nat, ServerInv(K),
         server.step = "Adjust", server.left > 0,
         NEW cur, cur = Min(server.left, ChunkElements(request)),
         NEW rest, rest = server.left - cur
  PROVE  /\ cur \in 1 .. server.left /\ rest \in Nat
         /\ Start(request, K) < BufferSize(request)
         /\ rest * FieldSize + Start(request, K) + cur * FieldSize
              = request.len
         /\ rest * FieldSize \in Nat
         /\ cur * FieldSize \in Nat \ {0}
         /\ request.kind = "mul" =>
              /\ cur * FieldSize = SizeOf(request, K)
              /\ rest > 0 => cur * FieldSize = ChunkSize
         /\ request.kind # "mul" =>
              K = 0 /\ rest = 0 /\ cur * FieldSize = request.len
<1>1. /\ request \in Requests /\ request.len \in Nat \ {0}
      /\ request.kind \in Kinds
      /\ BufferSize(request) = IF request.kind = "truncpr"
                               THEN request.len + request.len ELSE request.len
      /\ Elements(request) \in Nat \ {0}
      /\ Elements(request) * FieldSize = request.len
  BY RequestFacts DEF TypeOK
<1>2. /\ server.left \in Nat \ {0} /\ server.left <= Elements(request)
      /\ server.left * FieldSize + Start(request, K) = request.len
      /\ request.kind # "mul" => K = 0
      /\ Start(request, K) \in Nat /\ Start(request, 0) = 0
  <2>1. server.left \in Nat /\ server.left <= Elements(request)
    BY <1>1, Fields DEF TypeOK
  <2>2. Start(request, K) \in Nat /\ Start(request, 0) = 0
    BY <1>1, Starts
  <2>3. /\ server.left * FieldSize + Start(request, K) = request.len
        /\ request.kind # "mul" => K = 0
    BY DEF ServerInv
  <2> QED BY <2>1, <2>2, <2>3
<1>3. ChunkSize \div FieldSize \in Nat \ {0} /\ (ChunkSize \div FieldSize) * FieldSize = ChunkSize
  BY SizesAssumption, Quotient
<1>4. ChunkElements(request) \in Nat \ {0}
  BY <1>1, <1>3 DEF ChunkElements
<1>5. cur \in 1 .. server.left /\ cur \in Nat
  BY <1>2, <1>4 DEF Min
<1>6. /\ cur * FieldSize \in Nat \ {0} /\ server.left * FieldSize \in Nat
      /\ rest * FieldSize + cur * FieldSize = server.left * FieldSize
      /\ rest * FieldSize \in Nat /\ rest \in Nat
  <2>1. rest \in Nat /\ server.left = rest + cur
    BY <1>2, <1>5
  <2>2. /\ rest * FieldSize \in Nat /\ cur * FieldSize \in Nat \ {0}
        /\ (rest + cur) * FieldSize = rest * FieldSize + cur * FieldSize
    BY <1>5, <2>1
  <2> QED BY <2>1, <2>2
<1>7. Start(request, K) < BufferSize(request)
  BY <1>1, <1>2, <1>6
<1>8. /\ cur \in 1 .. server.left /\ rest \in Nat
       /\ rest * FieldSize + Start(request, K) + cur * FieldSize = request.len
       /\ rest * FieldSize \in Nat /\ cur * FieldSize \in Nat \ {0}
       /\ Start(request, K) < BufferSize(request)
  BY <1>2, <1>5, <1>6, <1>7
<1>9. CASE request.kind = "mul"
  <2>1. ChunkElements(request) = ChunkSize \div FieldSize
    BY <1>9 DEF ChunkElements
  <2>2. CASE server.left < ChunkElements(request)
    <3>1. cur = server.left /\ rest = 0
      BY <1>2, <2>2 DEF Min
    <3>2. server.left * FieldSize + FieldSize <= ChunkSize
      BY <1>2, <1>3, <2>1, <2>2, ProductGrows
    <3>3. cur * FieldSize = SizeOf(request, K)
      BY <1>1, <1>2, <1>6, <1>9, <3>1, <3>2 DEF SizeOf, Stride, Min
    <3> QED BY <1>9, <1>8, <3>1, <3>3
  <2>3. CASE ~(server.left < ChunkElements(request))
    <3>1. cur = ChunkSize \div FieldSize /\ cur * FieldSize = ChunkSize
      BY <1>3, <2>1, <2>3 DEF Min
    <3>2. cur * FieldSize = SizeOf(request, K)
      <4>1. ChunkSize <= request.len - Start(request, K)
        BY <1>1, <1>2, <1>8, <3>1
      <4>2. BufferSize(request) = request.len /\ Stride(request) = ChunkSize
        BY <1>1, <1>9 DEF Stride
      <4>3. Start(request, K) \in Nat /\ request.len \in Nat
        BY <1>1, <1>2
      <4>4. SizeOf(request, K) = ChunkSize
        BY <4>1, <4>2, <4>3 DEF SizeOf, Min
      <4> QED BY <3>1, <4>4
    <3> QED BY <1>9, <1>8, <3>1, <3>2
  <2> QED BY <2>2, <2>3
<1>10. CASE request.kind # "mul"
  <2>1. K = 0 /\ server.left * FieldSize = request.len
    BY <1>2, <1>6, <1>10
  <2>2. server.left <= ChunkElements(request)
    <3>1. CASE request.kind = "dot"
      BY <1>2, <3>1 DEF ChunkElements
    <3>2. CASE request.kind = "truncpr"
      <4>1. server.left * FieldSize <= (ChunkSize \div FieldSize) * FieldSize
        BY <1>1, <1>3, <2>1, <3>2 DEF OneChunkEach
      <4>2. server.left <= ChunkSize \div FieldSize
        <5> SUFFICES ASSUME ChunkSize \div FieldSize < server.left PROVE FALSE
          BY <1>2, <1>3
        <5>1. (ChunkSize \div FieldSize) * FieldSize + FieldSize <= server.left * FieldSize
          BY <1>2, <1>3, ProductGrows
        <5> QED BY <4>1, <5>1, <1>3, <1>6
      <4> QED BY <3>2, <4>2 DEF ChunkElements
    <3> QED BY <1>1, <1>10, <3>1, <3>2 DEF Kinds
  <2>3. cur = server.left /\ rest = 0
    BY <1>2, <1>4, <2>2 DEF Min
  <2> QED BY <1>10, <1>8, <2>1, <2>3
<1> QED BY <1>9, <1>10

LEMMA AdjustStep ==
  ASSUME OneChunkEach, IInv, Adjust
  PROVE  IInv'
<1>1. TypeOK /\ ShapeInv /\ BuffersInv /\ CallInv
  BY DEF IInv
<1>2. PICK K \in Nat, k \in Nat : ResponseInv(K, k)
  BY DEF IInv
<1>3. ServerInv(K) /\ OutInv(K) /\ ReaderInv(K, k) /\ WireInv(K, k)
  BY <1>2 DEF ResponseInv
<1> DEFINE Cur == Min(server.left, ChunkElements(request))
<1>4. PICK cur : cur = Cur
  OBVIOUS
<1>5. PICK rest : rest = server.left - cur
  OBVIOUS
<1>6. PICK size : size = cur * FieldSize
  OBVIOUS
<1>7. PICK from : from = server.counter * BlockSize
  OBVIOUS
<1>8. PICK out : out = [i \in 1 .. NumBuf(request) |->
                         [buf |-> i - 1, size |-> size, pos |-> 0, from |-> from]]
  OBVIOUS
<1>9. /\ server.step = "Adjust" /\ server.left > 0
      /\ server' = [server EXCEPT !.step = "Send", !.left = rest,
                      !.counter = Replayed(server.counter, size), !.out = out]
      /\ UNCHANGED <<request, stream, link, reader, buffers, part, status,
                     caller>>
  BY <1>4, <1>5, <1>6, <1>7, <1>8 DEF Adjust
<1>10. /\ cur \in 1 .. server.left /\ rest \in Nat
       /\ Start(request, K) < BufferSize(request)
       /\ rest * FieldSize + Start(request, K) + size = request.len
       /\ rest * FieldSize \in Nat /\ size \in Nat \ {0}
       /\ request.kind = "mul" =>
            /\ size = SizeOf(request, K)
            /\ rest > 0 => size = ChunkSize
       /\ request.kind # "mul" => K = 0 /\ rest = 0 /\ size = request.len
  BY <1>1, <1>3, <1>4, <1>5, <1>6, <1>9, NextSize
<1>11. /\ request \in Requests /\ request.kind \in Kinds
       /\ request.len \in Nat \ {0} /\ NumBuf(request) \in 1 .. 2
       /\ Start(request, K) \in Nat /\ Start(request, 0) = 0
       /\ Start(request, K + 1) = Start(request, K) + Stride(request)
       /\ Bufs(request) = IF request.kind = "truncpr" THEN 0 .. 1 ELSE {0}
  <2>1. request \in Requests
    BY <1>1 DEF TypeOK
  <2> QED BY <2>1, RequestFacts, Starts
<1>12. server \in ServerType /\ server.counter \in Nat
  BY <1>1, Fields DEF ShapeInv
<1>13. from = Start(request, K)
  BY <1>3, <1>7, <1>9 DEF ServerInv
<1>14. PICK n : n = Replayed(server.counter, size)
  OBVIOUS
<1>15. /\ n \in Nat
       /\ request.kind = "mul" /\ rest > 0 =>
            n * BlockSize = Start(request, K + 1)
  <2>1. CeilDiv(size, BlockSize) \in Nat
    <3>1. size + BlockSize - 1 \in Nat
      BY <1>10
    <3> QED BY <3>1, SmallQuotient DEF CeilDiv
  <2>2. n = server.counter + CeilDiv(size, BlockSize) /\ n \in Nat
    BY <1>12, <1>14, <2>1 DEF Replayed
  <2>3. ASSUME request.kind = "mul", rest > 0
        PROVE  n * BlockSize = Start(request, K + 1)
    <3>1. size = ChunkSize /\ Stride(request) = ChunkSize
      BY <1>10, <2>3 DEF Stride
    <3>2. CeilDiv(ChunkSize, BlockSize) * BlockSize = ChunkSize
      BY SizesAssumption, WholeBlocks
    <3>3. PICK c \in Nat : c = CeilDiv(ChunkSize, BlockSize)
      BY <2>1, <3>1
    <3>4. (server.counter + c) * BlockSize
            = server.counter * BlockSize + c * BlockSize
      BY <1>12
    <3>5. server.counter * BlockSize = Start(request, K)
      BY <1>7, <1>13
    <3>6. c * BlockSize = ChunkSize /\ n = server.counter + c
      BY <2>2, <3>1, <3>2, <3>3
    <3> QED BY <1>11, <3>1, <3>4, <3>5, <3>6
  <2> QED BY <2>2, <2>3
<1>16. /\ out \in Seq(OutType)
       /\ request.kind = "truncpr" => out =
            <<[buf |-> 0, size |-> size, pos |-> 0, from |-> from],
              [buf |-> 1, size |-> size, pos |-> 0, from |-> from]>>
       /\ request.kind # "truncpr" => out =
            <<[buf |-> 0, size |-> size, pos |-> 0, from |-> from]>>
       /\ \A i \in DOMAIN out :
            out[i] \in [buf : Bufs(request), size : Nat \ {0}, pos : Nat,
                        from : Nat]
  <2>1. from \in Nat
    BY <1>11, <1>13
  <2>2. CASE request.kind = "truncpr"
    <3>1. NumBuf(request) = 2
      BY <2>2 DEF NumBuf
    <3>2. out = <<[buf |-> 0, size |-> size, pos |-> 0, from |-> from],
                  [buf |-> 1, size |-> size, pos |-> 0, from |-> from]>>
      BY <1>8, <3>1
    <3> QED BY <1>10, <1>11, <2>1, <2>2, <3>2 DEF OutType
  <2>3. CASE request.kind # "truncpr"
    <3>1. NumBuf(request) = 1
      BY <2>3 DEF NumBuf
    <3>2. out = <<[buf |-> 0, size |-> size, pos |-> 0, from |-> from]>>
      BY <1>8, <3>1
    <3> QED BY <1>10, <1>11, <2>1, <2>3, <3>2 DEF OutType
  <2> QED BY <2>2, <2>3
<1>17. /\ server'.step = "Send" /\ server'.left = rest /\ server'.counter = n
       /\ server'.out = out /\ server'.failed = server.failed
       /\ server' \in ServerType
  BY <1>9, <1>10, <1>12, <1>14, <1>15, <1>16 DEF ServerType
<1>18. TypeOK'
  <2>1. rest \in 0 .. Elements(request)
    <3>1. server.left \in 0 .. Elements(request) /\ Elements(request) \in Nat
      BY <1>1, <1>11, RequestFacts DEF TypeOK
    <3> QED BY <1>5, <1>10, <3>1
  <2> QED BY <1>1, <1>9, <1>15, <1>16, <1>17, <2>1 DEF TypeOK, CopiesWithin
<1>19. ShapeInv'
  BY <1>1, <1>9, <1>17 DEF ShapeInv
<1>20. ServerInv(K)'
  BY <1>3, <1>9, <1>10, <1>17 DEF ServerInv
<1>21. OutInv(K)'
  <2>1. from = Start(request, K) /\ (K = 0 => from = 0)
    BY <1>11, <1>13
  <2>2. request' = request
    BY <1>9
  <2>3. request.kind = "mul" =>
          rest * FieldSize + Start(request, K) + SizeOf(request, K) = request.len
    BY <1>10
  <2>4. CASE request.kind = "mul"
    <3>1. server'.left * FieldSize + Start(request', K) + SizeOf(request', K)
            = request'.len
      BY <1>17, <2>2, <2>3, <2>4
    <3>2. server'.left > 0 =>
            server'.counter * BlockSize = Start(request', K + 1)
      BY <1>15, <1>17, <2>2, <2>4
    <3>3. server'.out = <<[buf |-> 0, size |-> SizeOf(request', K), pos |-> 0,
                           from |-> Start(request', K)]>>
      BY <1>10, <1>16, <1>17, <2>1, <2>2, <2>4
    <3> QED BY <2>2, <2>4, <3>1, <3>2, <3>3 DEF OutInv
  <2>5. CASE request.kind = "dot"
    BY <1>10, <1>11, <1>16, <1>17, <2>1, <2>2, <2>5 DEF OutInv
  <2>6. CASE request.kind = "truncpr"
    <3>1. K = 0 /\ from = 0 /\ size = request.len /\ rest = 0
      BY <1>10, <2>1, <2>6
    <3>2. server'.out =
            <<[buf |-> 0, size |-> request.len, pos |-> 0, from |-> 0],
              [buf |-> 1, size |-> request.len, pos |-> 0, from |-> 0]>>
      BY <1>16, <1>17, <2>6, <3>1
    <3> QED BY <1>17, <2>2, <2>6, <3>1, <3>2 DEF OutInv
  <2> QED BY <1>11, <2>4, <2>5, <2>6 DEF Kinds
<1>22. ReaderInv(K, k)'
  <2>1. Got' = Got
    BY <1>9 DEF Got
  <2> QED BY <1>3, <1>9, <1>17, <2>1 DEF ReaderInv, ServerInv
<1>23. WireInv(K, k)'
  BY <1>3, <1>9, <1>17, WireAlone
<1>24. CallInv' /\ BuffersInv'
  BY <1>1, <1>9, <1>17, ReaderAlone
<1> QED BY <1>18, <1>19, <1>20, <1>21, <1>22, <1>23, <1>24 DEF IInv, ResponseInv

(* Sequences, element by element.                                          *)
LEMMA Appended ==
  ASSUME NEW s \in Seq(Byte), NEW t \in Seq(Byte)
  PROVE  /\ s \o t \in Seq(Byte) /\ Len(s \o t) = Len(s) + Len(t)
         /\ \A i \in 1 .. Len(s) : (s \o t)[i] = s[i]
         /\ \A i \in 1 .. Len(t) : (s \o t)[Len(s) + i] = t[i]
         /\ \A i \in 1 .. Len(s \o t) :
              \/ i \in 1 .. Len(s)
              \/ \E j \in 1 .. Len(t) : i = Len(s) + j
<1>1. s \o t \in Seq(Byte) /\ Len(s \o t) = Len(s) + Len(t)
  OBVIOUS
<1>2. \A i \in 1 .. Len(s) : (s \o t)[i] = s[i]
  OBVIOUS
<1>3. ASSUME NEW i \in 1 .. Len(t) PROVE (s \o t)[Len(s) + i] = t[i]
  OBVIOUS
<1>4. ASSUME NEW i \in 1 .. Len(s \o t), i \notin 1 .. Len(s)
      PROVE  \E j \in 1 .. Len(t) : i = Len(s) + j
  <2>1. i - Len(s) \in 1 .. Len(t) /\ i = Len(s) + (i - Len(s))
    BY <1>1, <1>4
  <2> QED BY <2>1
<1> QED BY <1>1, <1>2, <1>3, <1>4

(* Concatenation, with a name that keeps the provers from looking inside.  *)
Cat(s, t) == s \o t

LEMMA Associative ==
  \A a, b, c \in Seq(Byte) : Cat(Cat(a, b), c) = Cat(a, Cat(b, c))
BY ConcatAssociative DEF Cat

(* What is appended to the second of two parts follows both.               *)
Follow(p, s, f, d) ==
  /\ (s \o f) \o d \in Seq(Byte)
  /\ p \o ((s \o f) \o d) \in Seq(Byte)
  /\ Len(p \o ((s \o f) \o d)) = Len(p \o s) + Len(f) + Len(d)
  /\ \A i \in 1 .. Len(p \o s) :
       (p \o ((s \o f) \o d))[i] = (p \o s)[i]
  /\ \A i \in 1 .. Len(f) :
       (p \o ((s \o f) \o d))[Len(p \o s) + i] = f[i]
  /\ \A i \in 1 .. Len(d) :
       (p \o ((s \o f) \o d))[Len(p \o s) + Len(f) + i] = d[i]

LEMMA Follows ==
  ASSUME NEW p \in Seq(Byte), NEW s \in Seq(Byte), NEW f \in Seq(Byte),
         NEW d \in Seq(Byte)
  PROVE  Follow(p, s, f, d)
<1>1. PICK w \in Seq(Byte) : w = p \o s
  BY Appended
<1>2. PICK u \in Seq(Byte) : u = w \o f
  BY Appended
<1>3. PICK v \in Seq(Byte) : v = u \o d
  BY Appended
<1>4. p \o ((s \o f) \o d) = v /\ (s \o f) \o d \in Seq(Byte)
  <2>1. s \o f \in Seq(Byte)
    BY Appended
  <2>2. (s \o f) \o d \in Seq(Byte)
    BY <2>1, Appended
  <2>3. Cat(Cat(p, s), f) = Cat(p, Cat(s, f))
    BY Associative
  <2>4. Cat(Cat(p, Cat(s, f)), d) = Cat(p, Cat(Cat(s, f), d))
    <3>1. Cat(s, f) \in Seq(Byte)
      BY <2>1 DEF Cat
    <3> QED BY <3>1, Associative
  <2>5. w = Cat(p, s) /\ u = Cat(w, f) /\ v = Cat(u, d)
    BY <1>1, <1>2, <1>3 DEF Cat
  <2>6. v = Cat(p, Cat(Cat(s, f), d))
    BY <2>3, <2>4, <2>5
  <2>7. v = p \o ((s \o f) \o d)
    BY <2>6 DEF Cat
  <2> QED BY <2>2, <2>7
<1>5. Len(u) = Len(w) + Len(f) /\ Len(v) = Len(u) + Len(d)
  BY <1>2, <1>3, Appended
<1>6. /\ \A i \in 1 .. Len(w) : u[i] = w[i]
      /\ \A i \in 1 .. Len(f) : u[Len(w) + i] = f[i]
  BY <1>2, Appended
<1>7. /\ \A i \in 1 .. Len(u) : v[i] = u[i]
      /\ \A i \in 1 .. Len(d) : v[Len(u) + i] = d[i]
  <2>1. /\ \A i \in 1 .. Len(u) : (u \o d)[i] = u[i]
        /\ \A i \in 1 .. Len(d) : (u \o d)[Len(u) + i] = d[i]
    BY Appended
  <2> QED BY <1>3, <2>1
<1>8. Len(w) \in Nat /\ Len(f) \in Nat /\ Len(d) \in Nat
  OBVIOUS
<1>9. \A i \in 1 .. Len(w) : v[i] = w[i]
  BY <1>5, <1>6, <1>7, <1>8
<1>10. ASSUME NEW i \in 1 .. Len(f) PROVE v[Len(w) + i] = f[i]
  <2>1. Len(w) + i \in 1 .. Len(u)
    BY <1>5, <1>8
  <2> QED BY <1>6, <1>7, <2>1
<1>11. \A i \in 1 .. Len(d) : v[Len(w) + Len(f) + i] = d[i]
  BY <1>5, <1>7, <1>8
<1> QED BY <1>1, <1>4, <1>5, <1>8, <1>9, <1>10, <1>11 DEF Follow

LEMMA FlagsAre ==
  ASSUME NEW code \in 0 .. 1, NEW size \in Nat
  PROVE  /\ Flags(code, size) \in Seq(Byte) /\ Len(Flags(code, size)) = FlagSize
         /\ \A i \in 1 .. FlagSize :
              Flags(code, size)[i] = [flag |-> code, size |-> size]
<1>1. [flag |-> code, size |-> size] \in Byte
  BY DEF Byte
<1> QED BY <1>1 DEF Flags

LEMMA ContentIsByte ==
  ASSUME NEW r \in Requests, NEW g \in Nat
  PROVE  Content(r, g) \in Byte
BY RequestFacts DEF Content, Byte

(* Another chunk is what comes after the K chunks of the response.         *)
LEMMA ChunkFollows ==
  ASSUME TypeOK, ShapeInv, NEW K \in Nat, NEW k \in Nat,
         ServerInv(K), WireInv(K, k),
         Start(request, K) < BufferSize(request),
         ~server.failed, link # "broken",
         NEW data, data \in [1 .. SizeOf(request, K) -> Byte],
         \A i \in 1 .. SizeOf(request, K) :
           data[i] = Content(request, Start(request, K) + i - 1),
         server'.failed = FALSE,
         UNCHANGED <<request, reader, part>>,
         stream' = (stream \o Flags(0, SizeOf(request, K))) \o data
  PROVE  stream' \in Seq(Byte) /\ WireInv(K + 1, k)'
<1>1. PICK n \in Nat : n = SizeOf(request, K)
  BY RequestFacts, Sizes DEF TypeOK
<1>2. /\ request \in Requests /\ n >= 1 /\ n <= Stride(request)
      /\ Stride(request) \in Nat
      /\ SentTo(request, K) = ChunkAt(request, K)
      /\ SentTo(request, K + 1) = ChunkAt(request, K) + FlagSize + n
      /\ ChunkAt(request, K) \in Nat
  <2>1. request \in Requests
    BY DEF TypeOK
  <2>2. /\ n \in 1 .. Stride(request) /\ Stride(request) \in Nat
        /\ SentTo(request, K) = ChunkAt(request, K)
        /\ SentTo(request, K + 1)
             = (K + 1) * FlagSize + Start(request, K) + n
    BY <1>1, <2>1, Sizes, RequestFacts
  <2>3. /\ (K + 1) * FlagSize = K * FlagSize + FlagSize
        /\ K * FlagSize \in Nat /\ Start(request, K) \in Nat
        /\ ChunkAt(request, K) = K * FlagSize + Start(request, K)
        /\ ChunkAt(request, K) \in Nat
    BY <2>1, Starts, ChunkNat
  <2> QED BY <2>1, <2>2, <2>3
<1>3. PICK flags \in Seq(Byte) :
        /\ flags = Flags(0, n) /\ Len(flags) = FlagSize
        /\ \A i \in 1 .. FlagSize : flags[i] = [flag |-> 0, size |-> n]
  BY FlagsAre
<1>4. data \in Seq(Byte) /\ Len(data) = n
  <2> SUFFICES data \in [1 .. n -> Byte]
    OBVIOUS
  <2> QED BY <1>1
<1>5. PICK wire : wire = part \o stream
  OBVIOUS
<1>6. stream' = (stream \o flags) \o data
  BY <1>1, <1>3
<1>7. PICK wire2 : wire2 = part \o stream'
  OBVIOUS
<1>8. wire \in Seq(Byte) /\ Len(wire) \in Nat
  BY <1>5, Fields
<1>9. /\ stream' \in Seq(Byte) /\ wire2 \in Seq(Byte)
      /\ Len(wire2) = Len(wire) + FlagSize + n
      /\ \A i \in 1 .. Len(wire) : wire2[i] = wire[i]
      /\ \A i \in 1 .. FlagSize : wire2[Len(wire) + i] = flags[i]
      /\ \A i \in 1 .. n : wire2[Len(wire) + FlagSize + i] = data[i]
  <2>1. part \in Seq(Byte) /\ stream \in Seq(Byte)
    BY Fields
  <2>2. wire2 = part \o ((stream \o flags) \o data)
    BY <1>6, <1>7
  <2> DEFINE v == part \o ((stream \o flags) \o data)
             w == part \o stream
  <2>3. /\ (stream \o flags) \o data \in Seq(Byte) /\ v \in Seq(Byte)
        /\ Len(v) = Len(w) + Len(flags) + Len(data)
        /\ \A i \in 1 .. Len(w) : v[i] = w[i]
        /\ \A i \in 1 .. Len(flags) : v[Len(w) + i] = flags[i]
        /\ \A i \in 1 .. Len(data) : v[Len(w) + Len(flags) + i] = data[i]
    <3>1. Follow(part, stream, flags, data)
      BY <1>4, <2>1, Follows
    <3> QED BY <3>1 DEF Follow
  <2>4. v = wire2 /\ w = wire
    BY <1>5, <2>2
  <2> HIDE DEF v, w
  <2> QED BY <1>3, <1>4, <1>6, <2>3, <2>4
<1>10. ASSUME reader.state \in {"ReadFlags", "ReadChunk"}
       PROVE  /\ \A i \in 1 .. Len(wire2) :
                   Carries(request, server'.failed, K + 1, Place(k) + i - 1, wire2[i])
              /\ Place(k) + Len(wire2) = SentTo(request, K + 1)
  <2>1. /\ \A i \in 1 .. Len(wire) :
             Carries(request, server.failed, K, Place(k) + i - 1, wire[i])
        /\ Place(k) + Len(wire) = SentTo(request, K)
    BY <1>5, <1>10 DEF WireInv
  <2>2. Place(k) \in Nat
    BY PlaceNat
  <2>3. ASSUME NEW i \in 1 .. Len(wire)
        PROVE  Carries(request, server'.failed, K + 1, Place(k) + i - 1, wire2[i])
    <3>1. Carries(request, server.failed, K, Place(k) + i - 1, wire[i])
      BY <2>1
    <3>2. Place(k) + i - 1 < SentTo(request, K)
      BY <1>2, <1>8, <2>1, <2>2
    <3>3. /\ Place(k) + i - 1 < SentTo(request, K + 1)
          /\ ~(Place(k) + i - 1 >= SentTo(request, K + 1))
      BY <1>2, <2>2, <3>2
    <3> QED BY <1>9, <3>1, <3>2, <3>3 DEF Carries
  <2>4. ASSUME NEW j \in 0 .. FlagSize + n - 1
        PROVE  Carries(request, server'.failed, K + 1, ChunkAt(request, K) + j,
                       wire2[Len(wire) + j + 1])
    <3>1. wire2[Len(wire) + j + 1] = ByteAt(request, K, j)
      <4>1. CASE j < FlagSize
        <5>1. j + 1 \in 1 .. FlagSize /\ Len(wire) + j + 1 = Len(wire) + (j + 1)
          BY <1>8, <4>1
        <5>2. wire2[Len(wire) + j + 1] = flags[j + 1]
          BY <1>9, <5>1
        <5> QED BY <1>1, <1>3, <4>1, <5>1, <5>2 DEF ByteAt
      <4>2. CASE j >= FlagSize
        <5>1. PICK i \in 1 .. n : j = FlagSize + i - 1
          <6>1. j - FlagSize + 1 \in 1 .. n
            BY <4>2
          <6> QED BY <6>1
        <5>2. Len(wire) + j + 1 = Len(wire) + FlagSize + i
          BY <1>8, <5>1
        <5>3. wire2[Len(wire) + j + 1] = data[i]
          BY <1>9, <5>2
        <5>4. data[i] = Content(request, Start(request, K) + i - 1)
          BY <1>1
        <5>5. Start(request, K) + j - FlagSize = Start(request, K) + i - 1
          BY <1>2, <5>1, Starts
        <5>6. ~(j < FlagSize)
          BY <4>2
        <5> QED BY <5>3, <5>4, <5>5, <5>6 DEF ByteAt
      <4> QED BY <4>1, <4>2
    <3>2. /\ j \in 0 .. FlagSize + Stride(request) - 1
          /\ ChunkAt(request, K) + j < SentTo(request, K + 1)
      BY <1>2
    <3>3. K + 1 \in Nat
      OBVIOUS
    <3> QED BY <1>2, <3>1, <3>2, <3>3, CarriesSent
  <2>5. ASSUME NEW i \in 1 .. Len(wire2), i \notin 1 .. Len(wire)
        PROVE  Carries(request, server'.failed, K + 1, Place(k) + i - 1, wire2[i])
    <3>1. PICK j \in 0 .. FlagSize + n - 1 : i = Len(wire) + j + 1
      <4>1. /\ i - Len(wire) - 1 \in 0 .. FlagSize + n - 1
            /\ i = Len(wire) + (i - Len(wire) - 1) + 1
        BY <1>8, <1>9, <2>5
      <4> QED BY <1>8, <4>1
    <3>2. Place(k) + i - 1 = ChunkAt(request, K) + j
      <4>1. Place(k) + Len(wire) = ChunkAt(request, K)
        BY <1>2, <2>1
      <4>2. PICK o \in Nat, l \in Nat : o = Place(k) /\ l = Len(wire)
        BY <1>8, <2>2
      <4>3. o + l = ChunkAt(request, K) /\ i = l + j + 1
        BY <3>1, <4>1, <4>2
      <4>4. o + i - 1 = o + l + j
        BY <4>2, <4>3
      <4> QED BY <4>2, <4>3, <4>4
    <3> QED BY <2>4, <3>1, <3>2
  <2>6. Place(k) + Len(wire2) = SentTo(request, K + 1)
    <3>1. Len(wire2) = Len(wire) + FlagSize + n
      BY <1>9
    <3>2. Place(k) + Len(wire) = ChunkAt(request, K)
      BY <1>2, <2>1
    <3> QED BY <1>2, <1>8, <2>2, <3>1, <3>2
  <2> QED BY <2>3, <2>5, <2>6
<1>11. Place(k)' = Place(k)
  BY DEF Place, Got
<1>12. WireInv(K + 1, k)'
  <2> SUFFICES ASSUME reader.state \in {"ReadFlags", "ReadChunk"}
               PROVE  /\ \A i \in 1 .. Len(part' \o stream') :
                           Carries(request', server'.failed, K + 1,
                                   Place(k)' + i - 1, (part' \o stream')[i])
                      /\ Place(k)' + Len(part' \o stream')
                           = SentTo(request', K + 1)
    BY DEF WireInv
  <2> QED BY <1>7, <1>10, <1>11
<1> QED BY <1>9, <1>12

(* SendChunk sends n bytes of a, and out is left.                          *)
Sending(a, n, out) ==
  /\ server.step = "Send" /\ server.out # <<>>
  /\ a = Head(server.out)
  /\ n = Min(a.size - a.pos, ChunkSize)
  /\ out = IF a.pos + n = a.size THEN Tail(server.out)
           ELSE <<[a EXCEPT !.pos = a.pos + n]>> \o Tail(server.out)

LEMMA ShortSequences ==
  ASSUME NEW x, NEW y
  PROVE  /\ Head(<<x>>) = x /\ Tail(<<x>>) = <<>> /\ <<x>> \o <<>> = <<x>>
         /\ Head(<<x, y>>) = x /\ Tail(<<x, y>>) = <<y>> /\ <<x>> # <<>>
OBVIOUS

(* What is sent next is the next chunk of the response, and then there is  *)
(* another to send, another to compute, or none.                           *)
LEMMA NextChunk ==
  ASSUME OneChunkEach, TypeOK, ShapeInv, NEW K \in Nat, ServerInv(K), OutInv(K),
         NEW a, NEW n, NEW out, Sending(a, n, out)
  PROVE  /\ n = SizeOf(request, K) /\ n \in Nat \ {0}
         /\ \A i \in 1 .. n : [buf |-> a.buf, at |-> a.from + a.pos + i - 1]
              = Content(request, Start(request, K) + i - 1)
         /\ out \in Seq(OutType)
         /\ \A i \in DOMAIN out :
              out[i] \in [buf : Bufs(request), size : Nat \ {0}, pos : Nat,
                          from : Nat]
         /\ out = <<>> =>
              /\ server.left = 0 => Start(request, K + 1) >= BufferSize(request)
              /\ server.left > 0 =>
                   /\ server.left * FieldSize + Start(request, K + 1)
                        = request.len
                   /\ server.counter * BlockSize = Start(request, K + 1)
                   /\ request.kind = "mul"
         /\ out # <<>> =>
              /\ Start(request, K + 1) < BufferSize(request)
              /\ server.left = 0
              /\ request.kind # "mul"
              /\ request.kind = "dot" => out =
                   <<[buf |-> 0, size |-> request.len,
                      pos |-> Start(request, K + 1), from |-> 0]>>
              /\ request.kind = "truncpr" => K + 1 = 1 /\ out =
                   <<[buf |-> 1, size |-> request.len, pos |-> 0, from |-> 0]>>
<1>1. /\ request \in Requests /\ request.kind \in Kinds
      /\ request.len \in Nat \ {0}
      /\ Bufs(request) = IF request.kind = "truncpr" THEN 0 .. 1 ELSE {0}
      /\ BufferSize(request) = IF request.kind = "truncpr"
                               THEN request.len + request.len ELSE request.len
  BY RequestFacts DEF TypeOK
<1>2. PICK s \in Nat : s = Start(request, K)
  BY <1>1, Starts
<1>3. /\ Start(request, K + 1) = s + Stride(request)
      /\ s < BufferSize(request) /\ server.left \in Nat
  BY <1>1, <1>2, Starts, Fields DEF ServerInv, Sending
<1>4. PICK size \in 1 .. Stride(request) : size = SizeOf(request, K)
  BY <1>1, <1>2, <1>3, Sizes
<1>5. /\ size = Min(Stride(request), BufferSize(request) - s)
      /\ s + size <= BufferSize(request)
      /\ size = Stride(request) \/ s + size = BufferSize(request)
  BY <1>1, <1>2, <1>3, <1>4 DEF SizeOf, Min
<1>6. CASE request.kind = "mul"
  <2>1. Stride(request) = ChunkSize /\ BufferSize(request) = request.len
    BY <1>1, <1>6 DEF Stride
  <2>2. /\ server.out = <<[buf |-> 0, size |-> size, pos |-> 0, from |-> s]>>
        /\ server.left * FieldSize + s + size = request.len
        /\ server.left > 0 => server.counter * BlockSize = Start(request, K + 1)
    BY <1>2, <1>4, <1>6 DEF OutInv, Sending
  <2>3. a = [buf |-> 0, size |-> size, pos |-> 0, from |-> s]
        /\ Tail(server.out) = <<>>
    BY <2>2, ShortSequences DEF Sending
  <2>4. n = size
    BY <1>4, <2>1, <2>3 DEF Min, Sending
  <2>5. out = <<>>
    BY <1>4, <2>3, <2>4 DEF Sending
  <2>6. \A i \in 1 .. n : [buf |-> a.buf, at |-> a.from + a.pos + i - 1]
          = Content(request, s + i - 1)
    BY <1>1, <1>2, <1>4, <1>5, <2>1, <2>3, <2>4 DEF Content
  <2>7. server.left = 0 => s + size = request.len
    <3>1. server.left = 0 => server.left * FieldSize = 0
      OBVIOUS
    <3> QED BY <1>1, <1>2, <1>4, <2>2, <3>1
  <2>8. server.left > 0 => size = ChunkSize
    <3>1. server.left > 0 => server.left * FieldSize > 0
      BY <1>3
    <3>2. PICK m : m = server.left * FieldSize
      OBVIOUS
    <3>3. server.left > 0 => m > 0 /\ m \in Nat
      BY <1>3, <3>1, <3>2
    <3>4. m + s + size = request.len
      BY <2>2, <3>2
    <3> QED BY <1>1, <1>2, <1>4, <1>5, <2>1, <3>3, <3>4
  <2>9. server.left > 0 =>
          server.left * FieldSize + Start(request, K + 1) = request.len
    BY <1>2, <1>3, <2>1, <2>2, <2>8
  <2>10. server.left = 0 => Start(request, K + 1) >= BufferSize(request)
    BY <1>2, <1>3, <1>4, <2>1, <2>7
  <2> QED BY <1>2, <1>4, <1>6, <2>2, <2>4, <2>5, <2>6, <2>9, <2>10
<1>7. CASE request.kind = "dot"
  <2>1. Stride(request) = ChunkSize /\ BufferSize(request) = request.len
    BY <1>1, <1>7 DEF Stride
  <2>2. /\ server.out = <<[buf |-> 0, size |-> request.len, pos |-> s,
                           from |-> 0]>>
        /\ server.left = 0
    BY <1>2, <1>7 DEF OutInv, Sending
  <2>3. /\ a = [buf |-> 0, size |-> request.len, pos |-> s, from |-> 0]
        /\ Tail(server.out) = <<>>
    BY <2>2, ShortSequences DEF Sending
  <2>4. n = size
    <3>1. n = Min(request.len - s, ChunkSize)
      BY <2>3 DEF Sending
    <3>2. size = Min(ChunkSize, request.len - s)
      BY <1>5, <2>1
    <3>3. request.len - s \in Int
      BY <1>1, <1>2
    <3> QED BY <3>1, <3>2, <3>3 DEF Min
  <2>5. \A i \in 1 .. n : [buf |-> a.buf, at |-> a.from + a.pos + i - 1]
          = Content(request, s + i - 1)
    BY <1>1, <1>2, <1>4, <1>5, <2>1, <2>3, <2>4 DEF Content
  <2>6. CASE s + size = request.len
    <3>1. out = <<>>
      BY <1>4, <2>3, <2>4, <2>6 DEF Sending
    <3>2. Start(request, K + 1) >= BufferSize(request)
      BY <1>1, <1>2, <1>3, <1>4, <2>1, <2>6
    <3> QED BY <1>2, <1>4, <2>2, <2>4, <2>5, <3>1, <3>2
  <2>7. CASE s + size # request.len
    <3>1. size = ChunkSize /\ s + size = Start(request, K + 1)
      BY <1>2, <1>3, <1>5, <2>1, <2>7
    <3>2. out = <<[a EXCEPT !.pos = s + size]>>
      <4>1. a.pos + n = s + size /\ a.size = request.len
        BY <2>3, <2>4
      <4>2. out = <<[a EXCEPT !.pos = a.pos + n]>> \o Tail(server.out)
        BY <2>7, <4>1 DEF Sending
      <4>3. PICK x : x = [a EXCEPT !.pos = a.pos + n]
        OBVIOUS
      <4>4. out = <<x>> \o <<>>
        BY <2>3, <4>2, <4>3
      <4>5. out = <<x>>
        BY <4>4, ShortSequences
      <4> QED BY <4>1, <4>3, <4>5
    <3>3. out = <<[buf |-> 0, size |-> request.len,
                   pos |-> Start(request, K + 1), from |-> 0]>>
      BY <2>3, <3>1, <3>2
    <3>4. Start(request, K + 1) < BufferSize(request)
      BY <1>1, <1>2, <1>4, <1>5, <2>1, <2>7, <3>1
    <3>5. Start(request, K + 1) \in Nat
      BY <1>2, <1>4, <3>1
    <3> QED BY <1>1, <1>2, <1>4, <1>7, <2>2, <2>4, <2>5, <3>3, <3>4, <3>5
            DEF OutType
  <2> QED BY <2>6, <2>7
<1>8. CASE request.kind = "truncpr"
  <2>1. /\ Stride(request) = request.len /\ request.len <= ChunkSize
        /\ BufferSize(request) = request.len + request.len
    BY <1>1, <1>8 DEF Stride, OneChunkEach
  <2>2. (K = 0 /\ s = 0) \/ (K = 1 /\ s = request.len)
    <3>1. Start(request, 0) = 0 /\ Start(request, 1) = request.len
      BY <1>1, <2>1 DEF Start
    <3>2. Start(request, 2) = request.len + request.len
      BY <1>1, <2>1 DEF Start
    <3>3. K > 2 => Start(request, 2) + Stride(request) <= Start(request, K)
      BY <1>1, Starts
    <3>4. K \in {0, 1}
      BY <1>1, <1>2, <1>3, <2>1, <3>2, <3>3
    <3> QED BY <1>2, <3>1, <3>4
  <2>3. /\ K = 0 => server.out =
             <<[buf |-> 0, size |-> request.len, pos |-> 0, from |-> 0],
               [buf |-> 1, size |-> request.len, pos |-> 0, from |-> 0]>>
        /\ K = 1 => server.out =
             <<[buf |-> 1, size |-> request.len, pos |-> 0, from |-> 0]>>
        /\ server.left = 0
    BY <1>8 DEF OutInv, Sending
  <2>4. size = request.len
    BY <1>1, <1>5, <2>1, <2>2 DEF Min
  <2>5. a = [buf |-> K, size |-> request.len, pos |-> 0, from |-> 0]
    BY <2>2, <2>3, ShortSequences DEF Sending
  <2>6. n = size
    BY <1>1, <2>1, <2>4, <2>5 DEF Min, Sending
  <2>7. \A i \in 1 .. n : [buf |-> a.buf, at |-> a.from + a.pos + i - 1]
          = Content(request, s + i - 1)
    BY <1>1, <2>2, <2>4, <2>5, <2>6 DEF Content
  <2>8. out = Tail(server.out)
    BY <1>1, <2>4, <2>5, <2>6 DEF Sending
  <2>9. CASE K = 0
    <3>1. out = <<[buf |-> 1, size |-> request.len, pos |-> 0, from |-> 0]>>
      <4>1. PICK x, y : server.out = <<x, y>> /\
              y = [buf |-> 1, size |-> request.len, pos |-> 0, from |-> 0]
        BY <2>3, <2>9
      <4>2. Tail(server.out) = <<y>>
        BY <4>1, ShortSequences
      <4> QED BY <2>8, <4>1, <4>2
    <3>2. Start(request, K + 1) < BufferSize(request)
      BY <1>1, <1>3, <2>1, <2>2, <2>9
    <3> QED BY <1>1, <1>2, <1>4, <1>8, <2>3, <2>6, <2>7, <2>9, <3>1, <3>2
            DEF OutType
  <2>10. CASE K = 1
    <3>1. out = <<>>
      BY <2>3, <2>8, <2>10, ShortSequences
    <3>2. Start(request, K + 1) >= BufferSize(request)
      BY <1>1, <1>3, <2>1, <2>2, <2>10
    <3> QED BY <1>2, <1>4, <2>3, <2>6, <2>7, <3>1, <3>2
  <2> QED BY <2>2, <2>9, <2>10
<1> QED BY <1>1, <1>6, <1>7, <1>8 DEF Kinds

LEMMA SendChunkStep ==
  ASSUME OneChunkEach, IInv, SendChunk
  PROVE  IInv'
<1>1. TypeOK /\ ShapeInv /\ BuffersInv /\ CallInv
  BY DEF IInv
<1>2. PICK K \in Nat, k \in Nat : ResponseInv(K, k)
  BY DEF IInv
<1>3. ServerInv(K) /\ OutInv(K) /\ ReaderInv(K, k) /\ WireInv(K, k)
  BY <1>2 DEF ResponseInv
<1>4. /\ server.step = "Send" /\ server.out # <<>> /\ ~server.failed
      /\ UNCHANGED <<request, link, reader, buffers, part, status, caller>>
  BY <1>3 DEF SendChunk, ServerInv
<1>5. /\ Start(request, K) < BufferSize(request)
      /\ server \in ServerType /\ request \in Requests
      /\ Got' = Got
      /\ Start(request, K) \in Nat /\ BufferSize(request) \in Nat
  <2>1. /\ Start(request, K) < BufferSize(request)
        /\ server \in ServerType /\ request \in Requests
        /\ Got' = Got
    BY <1>1, <1>3, <1>4 DEF ServerInv, ShapeInv, TypeOK, Got
  <2> QED BY <2>1, RequestFacts, Starts
<1>6. CASE link = "broken"
  <2>1. /\ server' = [server EXCEPT !.step = "Done", !.failed = TRUE]
        /\ stream' = stream
    BY <1>6 DEF SendChunk
  <2>2. /\ server' \in ServerType /\ server'.step = "Done" /\ server'.failed
        /\ server'.left = server.left /\ server'.counter = server.counter
        /\ server'.out = server.out
    BY <1>5, <2>1 DEF ServerType
  <2>3. TypeOK'
    BY <1>1, <1>4, <2>2 DEF TypeOK, CopiesWithin
  <2>4. ShapeInv'
    BY <1>1, <1>4, <2>1, <2>2 DEF ShapeInv
  <2>5. ServerInv(K)'
    BY <1>3, <1>4, <1>5, <1>6, <2>2 DEF ServerInv
  <2>6. OutInv(K)'
    BY <2>2 DEF OutInv
  <2>7. ReaderInv(K, k)'
    <3>1. ~(reader.state = "End" /\ ~reader.error)
      BY <1>3, <1>5 DEF ReaderInv
    <3> QED BY <1>3, <1>4, <1>5, <2>2, <3>1 DEF ReaderInv
  <2>8. WireInv(K, k)'
    BY <1>3, <1>4, <2>1, <2>2, WireAlone
  <2>9. CallInv' /\ BuffersInv'
    BY <1>1, <1>4, <2>2, ReaderAlone
  <2> QED BY <2>3, <2>4, <2>5, <2>6, <2>7, <2>8, <2>9 DEF IInv, ResponseInv
<1>7. CASE link # "broken"
  <2> DEFINE Next_a == Head(server.out)
             Next_n == Min(Next_a.size - Next_a.pos, ChunkSize)
             Next_out ==
               IF Next_a.pos + Next_n = Next_a.size THEN Tail(server.out)
               ELSE <<[Next_a EXCEPT !.pos = Next_a.pos + Next_n]>>
                      \o Tail(server.out)
  <2>1. PICK a : a = Next_a
    OBVIOUS
  <2>2. PICK n : n = Next_n
    OBVIOUS
  <2>3. PICK out : out = Next_out
    OBVIOUS
  <2>4. Sending(a, n, out)
    BY <1>4, <2>1, <2>2, <2>3 DEF Sending
  <2>5. PICK data : data = [i \in 1 .. n |->
                             [buf |-> a.buf, at |-> a.from + a.pos + i - 1]]
    OBVIOUS
  <2>6. /\ server' = [server EXCEPT !.out = out,
                        !.step = IF out = <<>> THEN "Adjust" ELSE "Send"]
        /\ stream' = stream \o Flags(0, n) \o data
    BY <1>7, <2>1, <2>2, <2>3, <2>5 DEF SendChunk
  <2> HIDE DEF Next_a, Next_n, Next_out
  <2>7. /\ n = SizeOf(request, K) /\ n \in Nat \ {0}
        /\ \A i \in 1 .. n : [buf |-> a.buf, at |-> a.from + a.pos + i - 1]
             = Content(request, Start(request, K) + i - 1)
        /\ out \in Seq(OutType)
        /\ \A i \in DOMAIN out :
             out[i] \in [buf : Bufs(request), size : Nat \ {0}, pos : Nat,
                         from : Nat]
        /\ out = <<>> =>
             /\ server.left = 0 => Start(request, K + 1) >= BufferSize(request)
             /\ server.left > 0 =>
                  /\ server.left * FieldSize + Start(request, K + 1)
                       = request.len
                  /\ server.counter * BlockSize = Start(request, K + 1)
                  /\ request.kind = "mul"
        /\ out # <<>> =>
             /\ Start(request, K + 1) < BufferSize(request)
             /\ server.left = 0
             /\ request.kind # "mul"
             /\ request.kind = "dot" => out =
                  <<[buf |-> 0, size |-> request.len,
                     pos |-> Start(request, K + 1), from |-> 0]>>
             /\ request.kind = "truncpr" => K + 1 = 1 /\ out =
                  <<[buf |-> 1, size |-> request.len, pos |-> 0, from |-> 0]>>
    BY <1>1, <1>3, <2>4, NextChunk
  <2>8. /\ data \in [1 .. n -> Byte]
        /\ \A i \in 1 .. n :
             data[i] = Content(request, Start(request, K) + i - 1)
    <3>1. \A i \in 1 .. n :
            data[i] = Content(request, Start(request, K) + i - 1)
      BY <2>5, <2>7
    <3>2. \A i \in 1 .. n : data[i] \in Byte
      <4> SUFFICES ASSUME NEW i \in 1 .. n PROVE data[i] \in Byte
        OBVIOUS
      <4>1. Start(request, K) + i - 1 \in Nat
        BY <1>5, <2>7
      <4> QED BY <1>5, <3>1, <4>1, ContentIsByte
    <3> QED BY <2>5, <3>1, <3>2
  <2>9. /\ server' \in ServerType /\ ~server'.failed
        /\ server'.failed = server.failed
        /\ server'.left = server.left /\ server'.counter = server.counter
        /\ server'.out = out
        /\ server'.step = IF out = <<>> THEN "Adjust" ELSE "Send"
    BY <1>4, <1>5, <2>6, <2>7 DEF ServerType
  <2>10. stream' \in Seq(Byte) /\ WireInv(K + 1, k)'
    <3>1. server'.failed = FALSE
      BY <2>9
    <3> QED BY <1>1, <1>3, <1>4, <1>5, <1>7, <2>6, <2>7, <2>8, <3>1,
               ChunkFollows
  <2>11. TypeOK'
    BY <1>1, <1>4, <2>7, <2>9 DEF TypeOK, CopiesWithin
  <2>12. ShapeInv'
    BY <1>1, <1>4, <2>9, <2>10 DEF ShapeInv
  <2>13. ServerInv(K + 1)'
    <3>1. K + 1 - 1 = K /\ request' = request /\ link' = link
      BY <1>4
    <3>2. server.left \in Nat
      BY <1>1, Fields
    <3>3. link # "closed"
      BY <1>3, <1>4 DEF ServerInv
    <3>4. CASE out = <<>>
      BY <1>5, <2>7, <2>9, <3>1, <3>2, <3>3, <3>4 DEF ServerInv
    <3>5. CASE out # <<>>
      BY <1>5, <2>7, <2>9, <3>1, <3>2, <3>3, <3>5 DEF ServerInv
    <3> QED BY <3>4, <3>5
  <2>14. OutInv(K + 1)'
    BY <1>4, <2>7, <2>9 DEF OutInv
  <2>15. ReaderInv(K + 1, k)'
    <3>1. ~(reader.state = "End" /\ ~reader.error)
      BY <1>3, <1>5 DEF ReaderInv
    <3> QED BY <1>3, <1>4, <1>5, <2>9, <3>1 DEF ReaderInv
  <2>16. CallInv' /\ BuffersInv'
    BY <1>1, <1>4, <2>9, ReaderAlone
  <2>17. ResponseInv(K + 1, k)' /\ K + 1 \in Nat
    BY <2>10, <2>13, <2>14, <2>15 DEF ResponseInv
  <2> QED BY <2>11, <2>12, <2>16, <2>17 DEF IInv
<1> QED BY <1>6, <1>7

LEMMA CloseStep ==
  ASSUME IInv, Close
  PROVE  IInv'
<1>1. TypeOK /\ ShapeInv /\ BuffersInv /\ CallInv
  BY DEF IInv
<1>2. PICK K \in Nat, k \in Nat : ResponseInv(K, k)
  BY DEF IInv
<1>3. ServerInv(K) /\ OutInv(K) /\ ReaderInv(K, k) /\ WireInv(K, k)
  BY <1>2 DEF ResponseInv
<1>4. /\ server.step = "Adjust" /\ server.left = 0
      /\ server' = [server EXCEPT !.step = "Done"]
      /\ link' = IF link = "open" THEN "closed" ELSE link
      /\ UNCHANGED <<request, stream, reader, buffers, part, status, caller>>
  BY DEF Close
<1>5. /\ server' \in ServerType /\ server'.step = "Done"
      /\ server'.failed = server.failed
      /\ server'.left = server.left /\ server'.counter = server.counter
      /\ server'.out = server.out
  BY <1>1, <1>4 DEF ServerType, ShapeInv
<1>6. TypeOK'
  BY <1>1, <1>4, <1>5 DEF TypeOK, CopiesWithin
<1>7. ShapeInv'
  BY <1>1, <1>4, <1>5 DEF ShapeInv
<1>8. ServerInv(K)'
  BY <1>3, <1>4, <1>5 DEF ServerInv
<1>9. OutInv(K)'
  BY <1>5 DEF OutInv
<1>10. Got' = Got
  BY <1>4 DEF Got
<1>11. ReaderInv(K, k)'
  BY <1>3, <1>4, <1>5, <1>10 DEF ReaderInv
<1>12. WireInv(K, k)'
  <2>1. link' # "broken" /\ ~server'.failed => link # "broken" /\ ~server.failed
    BY <1>4, <1>5
  <2> QED BY <1>3, <1>4, <1>5, <2>1, WireAlone
<1>13. CallInv' /\ BuffersInv'
  BY <1>1, <1>4, <1>5, ReaderAlone
<1> QED BY <1>6, <1>7, <1>8, <1>9, <1>11, <1>12, <1>13 DEF IInv, ResponseInv

LEMMA ErrorIs == Error \in Seq(Byte) /\ Len(Error) = ErrSize
<1>1. "error" \in Byte
  BY DEF Byte
<1> QED BY <1>1 DEF Error

(* The error is what comes after the K chunks that have been sent.         *)
LEMMA ErrorFollows ==
  ASSUME TypeOK, ShapeInv, NEW K \in Nat, NEW k \in Nat, WireInv(K, k),
         ~server.failed, link # "broken", server'.failed,
         UNCHANGED <<request, reader, part>>,
         stream' = (stream \o Flags(1, ErrSize)) \o Error
  PROVE  stream' \in Seq(Byte) /\ WireInv(K, k)'
<1>1. PICK flags \in Seq(Byte) :
        /\ flags = Flags(1, ErrSize) /\ Len(flags) = FlagSize
        /\ \A i \in 1 .. FlagSize : flags[i] = [flag |-> 1, size |-> ErrSize]
  BY FlagsAre
<1>2. PICK wire : wire = part \o stream
  OBVIOUS
<1>3. PICK wire2 : wire2 = part \o stream'
  OBVIOUS
<1>4. /\ wire \in Seq(Byte) /\ Len(wire) \in Nat
      /\ request \in Requests /\ SentTo(request, K) \in Nat
  BY <1>2, Fields, ChunkNat DEF TypeOK
<1>5. /\ stream' \in Seq(Byte) /\ wire2 \in Seq(Byte)
      /\ Len(wire2) = Len(wire) + FlagSize + ErrSize
      /\ \A i \in 1 .. Len(wire) : wire2[i] = wire[i]
      /\ \A i \in 1 .. FlagSize : wire2[Len(wire) + i] = flags[i]
  <2>1. part \in Seq(Byte) /\ stream \in Seq(Byte)
    BY Fields
  <2>2. wire2 = part \o ((stream \o flags) \o Error)
    BY <1>1, <1>3
  <2> DEFINE v == part \o ((stream \o flags) \o Error)
             w == part \o stream
  <2>3. /\ (stream \o flags) \o Error \in Seq(Byte) /\ v \in Seq(Byte)
        /\ Len(v) = Len(w) + Len(flags) + Len(Error)
        /\ \A i \in 1 .. Len(w) : v[i] = w[i]
        /\ \A i \in 1 .. Len(flags) : v[Len(w) + i] = flags[i]
    <3>1. Follow(part, stream, flags, Error)
      BY <2>1, ErrorIs, Follows
    <3> QED BY <3>1 DEF Follow
  <2>4. v = wire2 /\ w = wire
    BY <1>2, <2>2
  <2> HIDE DEF v, w
  <2>5. stream' = (stream \o flags) \o Error /\ Len(Error) = ErrSize
    BY <1>1, ErrorIs
  <2> QED BY <1>1, <2>3, <2>4, <2>5
<1>6. ASSUME reader.state \in {"ReadFlags", "ReadChunk"},
             NEW i \in 1 .. Len(wire2)
      PROVE  Carries(request, server'.failed, K, Place(k) + i - 1, wire2[i])
  <2>1. /\ \A j \in 1 .. Len(wire) :
             Carries(request, server.failed, K, Place(k) + j - 1, wire[j])
        /\ Place(k) + Len(wire) = SentTo(request, K)
    BY <1>2, <1>6 DEF WireInv
  <2>2. PICK place \in Nat : place = Place(k)
    BY PlaceNat
  <2>3. CASE i \in 1 .. Len(wire)
    <3>1. Carries(request, server.failed, K, place + i - 1, wire[i])
      BY <2>1, <2>2, <2>3
    <3>2. ~(place + i - 1 >= SentTo(request, K))
      BY <1>4, <2>1, <2>2, <2>3
    <3>3. wire2[i] = wire[i]
      BY <1>5, <2>3
    <3> QED BY <2>2, <3>1, <3>2, <3>3 DEF Carries
  <2>4. CASE i \notin 1 .. Len(wire)
    <3>1. PICK j \in Nat : i = Len(wire) + j + 1
      <4>1. i - Len(wire) - 1 \in Nat /\ i = Len(wire) + (i - Len(wire) - 1) + 1
        BY <1>4, <2>4
      <4> QED BY <4>1
    <3>2. place + i - 1 = SentTo(request, K) + j
      BY <1>4, <2>1, <2>2, <3>1
    <3>3. j < FlagSize => wire2[i] = [flag |-> 1, size |-> ErrSize]
      <4> SUFFICES ASSUME j < FlagSize
                   PROVE  wire2[i] = [flag |-> 1, size |-> ErrSize]
        OBVIOUS
      <4>1. j + 1 \in 1 .. FlagSize /\ i = Len(wire) + (j + 1)
        BY <1>4, <3>1
      <4> QED BY <1>1, <1>5, <4>1
    <3>4. /\ ~(SentTo(request, K) + j < SentTo(request, K))
          /\ SentTo(request, K) + j < SentTo(request, K) + FlagSize => j < FlagSize
      BY <1>4, <3>1
    <3> QED BY <2>2, <3>2, <3>3, <3>4 DEF Carries
  <2> QED BY <2>3, <2>4
<1>7. Place(k)' = Place(k)
  BY DEF Place, Got
<1>8. WireInv(K, k)'
  BY <1>3, <1>6, <1>7 DEF WireInv
<1> QED BY <1>5, <1>8

LEMMA AdjustErrorStep ==
  ASSUME IInv, AdjustError
  PROVE  IInv'
<1>1. TypeOK /\ ShapeInv /\ BuffersInv /\ CallInv
  BY DEF IInv
<1>2. PICK K \in Nat, k \in Nat : ResponseInv(K, k)
  BY DEF IInv
<1>3. ServerInv(K) /\ OutInv(K) /\ ReaderInv(K, k) /\ WireInv(K, k)
  BY <1>2 DEF ResponseInv
<1>4. /\ server.step = "Adjust" /\ server.left > 0 /\ ~server.failed
      /\ server' = [server EXCEPT !.step = "Done", !.failed = TRUE]
      /\ link' = IF link = "open" THEN "closed" ELSE link
      /\ UNCHANGED <<request, reader, buffers, part, status, caller>>
  BY <1>3 DEF AdjustError, ServerInv
<1>5. /\ server' \in ServerType /\ server'.step = "Done" /\ server'.failed
      /\ server'.left = server.left /\ server'.counter = server.counter
      /\ server'.out = server.out
  BY <1>1, <1>4 DEF ServerType, ShapeInv
<1>6. /\ Start(request, K) < BufferSize(request) /\ link # "closed"
      /\ Start(request, K) \in Nat /\ BufferSize(request) \in Nat
  <2>1. /\ request \in Requests /\ request.len \in Nat
        /\ BufferSize(request) \in Nat /\ Start(request, K) \in Nat
        /\ BufferSize(request) >= request.len
    <3>1. request \in Requests
      BY <1>1 DEF TypeOK
    <3>2. BufferSize(request) >= request.len
      BY <3>1, RequestFacts
    <3> QED BY <3>1, <3>2, RequestFacts, Starts
  <2>2. PICK m \in Nat : m = server.left * FieldSize /\ m > 0
    <3>1. server.left \in Nat
      BY <1>1, Fields
    <3> QED BY <1>4, <3>1
  <2>3. m + Start(request, K) = request.len /\ link # "closed"
    BY <1>3, <1>4, <2>2 DEF ServerInv
  <2> QED BY <2>1, <2>2, <2>3
<1>7. stream' \in Seq(Byte) /\ WireInv(K, k)'
  <2>1. CASE link = "broken"
    <3>1. stream' = stream
      BY <2>1 DEF AdjustError
    <3> QED BY <1>1, <1>3, <1>4, <1>5, <3>1, WireAlone, Fields
  <2>2. CASE link # "broken"
    <3>1. stream' = (stream \o Flags(1, ErrSize)) \o Error
      BY <2>2 DEF AdjustError
    <3> QED BY <1>1, <1>3, <1>4, <1>5, <2>2, <3>1, ErrorFollows
  <2> QED BY <2>1, <2>2
<1>8. TypeOK'
  BY <1>1, <1>4, <1>5 DEF TypeOK, CopiesWithin
<1>9. ShapeInv'
  BY <1>1, <1>4, <1>5, <1>7 DEF ShapeInv
<1>10. ServerInv(K)'
  BY <1>3, <1>4, <1>5, <1>6 DEF ServerInv
<1>11. OutInv(K)'
  BY <1>5 DEF OutInv
<1>12. Got' = Got
  BY <1>4 DEF Got
<1>13. ReaderInv(K, k)'
  <2>1. ~(reader.state = "End" /\ ~reader.error)
    BY <1>3, <1>6 DEF ReaderInv
  <2> QED BY <1>3, <1>4, <1>5, <1>12, <2>1 DEF ReaderInv
<1>14. CallInv' /\ BuffersInv'
  BY <1>1, <1>4, <1>5, ReaderAlone
<1> QED BY <1>7, <1>8, <1>9, <1>10, <1>11, <1>13, <1>14 DEF IInv, ResponseInv

(* What is lost with the connection is the end of what is on its way.      *)
LEMMA BreakStep ==
  ASSUME IInv, Break
  PROVE  IInv'
<1>1. TypeOK /\ ShapeInv /\ BuffersInv /\ CallInv
  BY DEF IInv
<1>2. PICK K \in Nat, k \in Nat : ResponseInv(K, k)
  BY DEF IInv
<1>3. ServerInv(K) /\ OutInv(K) /\ ReaderInv(K, k) /\ WireInv(K, k)
  BY <1>2 DEF ResponseInv
<1>4. /\ status = None /\ link' = "broken" /\ stream' = <<>>
      /\ UNCHANGED <<request, server, reader, buffers, part, status, caller>>
  BY DEF Break
<1>5. TypeOK'
  BY <1>1, <1>4 DEF TypeOK, CopiesWithin
<1>6. ShapeInv'
  BY <1>1, <1>4 DEF ShapeInv
<1>7. ServerInv(K)'
  BY <1>3, <1>4 DEF ServerInv
<1>8. OutInv(K)'
  BY <1>3, <1>4 DEF OutInv
<1>9. Got' = Got /\ Place(k)' = Place(k)
  BY <1>4 DEF Got, Place
<1>10. ReaderInv(K, k)'
  BY <1>3, <1>4, <1>9 DEF ReaderInv
<1>11. WireInv(K, k)'
  <2>1. part \in Seq(Byte) /\ stream \in Seq(Byte)
    BY <1>1, Fields
  <2>2. /\ part' \o stream' = part
        /\ Len(part) <= Len(part \o stream)
        /\ \A i \in 1 .. Len(part) : (part \o stream)[i] = part[i]
        /\ \A i \in 1 .. Len(part) : i \in 1 .. Len(part \o stream)
    BY <1>4, <2>1
  <2> SUFFICES ASSUME reader.state \in {"ReadFlags", "ReadChunk"},
                      NEW i \in 1 .. Len(part)
               PROVE  Carries(request, server.failed, K, Place(k) + i - 1, part[i])
    BY <1>4, <1>9, <2>2 DEF WireInv
  <2>3. Carries(request, server.failed, K, Place(k) + i - 1, (part \o stream)[i])
    BY <1>3, <2>2 DEF WireInv
  <2> QED BY <2>2, <2>3
<1>12. CallInv' /\ BuffersInv'
  BY <1>1, <1>4, ReaderAlone
<1> QED BY <1>5, <1>6, <1>7, <1>8, <1>10, <1>11, <1>12 DEF IInv, ResponseInv

-----------------------------------------------------------------------------
(* The reader.                                                             *)

(* What the reader does leaves the server alone.                           *)
LEMMA ServerAlone ==
  ASSUME NEW K \in Nat, ServerInv(K), OutInv(K),
         UNCHANGED <<request, server, link>>
  PROVE  ServerInv(K)' /\ OutInv(K)'
BY DEF ServerInv, OutInv

(* The types of the reader's fields, in one place.                         *)
LEMMA ReaderTypes ==
  ASSUME TypeOK, ShapeInv, UNCHANGED <<request, server, link>>,
         reader' \in ReaderType, ~reader'.overrun,
         reader'.flags_pos < FlagSize, reader'.pos < request.len,
         part' \in Seq(Byte), stream' \in Seq(Byte),
         status' \in {None, "ok", "error"},
         caller' \in {"Wait", "Asleep", "Returned", "Thrown"},
         DOMAIN buffers' = DOMAIN buffers,
         \A b \in Bufs(request) : DOMAIN buffers'[b] = DOMAIN buffers[b]
  PROVE  TypeOK' /\ ShapeInv'
<1>1. /\ reader'.state \in States /\ reader'.flags_pos \in Nat
      /\ reader'.chunk_remain \in Nat /\ reader'.buffer_remain \in Nat
      /\ reader'.idx \in Nat /\ reader'.pos \in Nat
      /\ reader'.call \in {"None", "Part", "Failed", "Ended", "Over"}
  BY DEF ReaderType
<1>2. request.len \in Nat \ {0}
  BY RequestFacts DEF TypeOK
<1>3. reader'.flags_pos \in 0 .. FlagSize - 1 /\ reader'.pos \in 0 .. request.len - 1
  BY <1>1, <1>2
<1>4. TypeOK'
  BY <1>1, <1>3 DEF TypeOK, CopiesWithin
<1>5. ShapeInv'
  BY DEF ShapeInv
<1> QED BY <1>4, <1>5

(* Steps of the rpc library's thread after the last part, and of the       *)
(* caller, which leave the response alone.                                 *)
LEMMA ResponseAlone ==
  ASSUME TypeOK, ShapeInv, BuffersInv,
         NEW K \in Nat, NEW k \in Nat, ResponseInv(K, k),
         NEW call \in {"None", "Part", "Failed", "Ended", "Over"},
         reader' = [reader EXCEPT !.call = call],
         UNCHANGED <<request, server, stream, link, buffers, part>>,
         status' \in {None, "ok", "error"},
         caller' \in {"Wait", "Asleep", "Returned", "Thrown"}
  PROVE  /\ TypeOK' /\ ShapeInv' /\ BuffersInv' /\ ResponseInv(K, k)'
         /\ reader'.call = call
         /\ reader'.state = reader.state /\ reader'.error = reader.error
         /\ reader'.length = reader.length
<1>1. reader \in ReaderType
  BY DEF ShapeInv
<1>2. /\ reader' \in ReaderType /\ reader'.call = call
      /\ reader'.state = reader.state /\ reader'.flags_pos = reader.flags_pos
      /\ reader'.chunk_remain = reader.chunk_remain
      /\ reader'.buffer_remain = reader.buffer_remain
      /\ reader'.idx = reader.idx /\ reader'.pos = reader.pos
      /\ reader'.length = reader.length /\ reader'.data_pos = reader.data_pos
      /\ reader'.error = reader.error /\ reader'.overrun = reader.overrun
  BY <1>1 DEF ReaderType
<1>3. ServerInv(K) /\ OutInv(K) /\ ReaderInv(K, k) /\ WireInv(K, k)
  BY DEF ResponseInv
<1>4. TypeOK' /\ ShapeInv'
  <2>1. reader.flags_pos < FlagSize /\ reader.pos < request.len
    BY GotNat DEF TypeOK
  <2>2. part' \in Seq(Byte) /\ stream' \in Seq(Byte)
    BY Fields
  <2>3. ~reader'.overrun
    BY <1>2, <1>3 DEF ReaderInv
  <2> QED BY <1>2, <2>1, <2>2, <2>3, ReaderTypes
<1>5. Got' = Got /\ Place(k)' = Place(k)
  BY <1>2 DEF Got, Place
<1>6. BuffersInv'
  BY <1>5 DEF BuffersInv
<1>7. ReaderInv(K, k)'
  BY <1>2, <1>3, <1>5 DEF ReaderInv
<1>8. WireInv(K, k)'
  BY <1>2, <1>3, <1>5 DEF WireInv
<1>9. ServerInv(K)' /\ OutInv(K)'
  BY <1>3, ServerAlone
<1> QED BY <1>2, <1>4, <1>6, <1>7, <1>8, <1>9 DEF ResponseInv

LEMMA PartDoneStep ==
  ASSUME IInv, PartDone
  PROVE  IInv'
<1>1. TypeOK /\ ShapeInv /\ BuffersInv /\ CallInv
  BY DEF IInv
<1>2. PICK K \in Nat, k \in Nat : ResponseInv(K, k)
  BY DEF IInv
<1>3. ReaderInv(K, k)
  BY <1>2 DEF ResponseInv
<1>4. PICK call \in {"None", "Failed"} :
        /\ reader' = [reader EXCEPT !.call = call]
        /\ call = "Failed" <=>
             part # <<>> \/ (reader.state = "End" /\ reader.error)
  BY DEF PartDone
<1>5. /\ reader.call = "Part"
      /\ part = <<>> \/ reader.state = "End"
      /\ UNCHANGED <<request, server, stream, link, buffers, part, status, caller>>
  BY DEF PartDone
<1>6. /\ TypeOK' /\ ShapeInv' /\ BuffersInv' /\ ResponseInv(K, k)'
      /\ reader'.call = call
      /\ reader'.state = reader.state /\ reader'.error = reader.error
      /\ reader'.length = reader.length
  <2>1. /\ status' \in {None, "ok", "error"}
        /\ caller' \in {"Wait", "Asleep", "Returned", "Thrown"}
    BY <1>1, <1>5 DEF TypeOK
  <2> QED BY <1>1, <1>2, <1>4, <1>5, <2>1, ResponseAlone
<1>7. CallInv'
  <2>1. call = "Failed" => server.failed
    BY <1>3, <1>4, <1>5 DEF ReaderInv
  <2>2. reader.length = 0
    <3>1. CASE part = <<>>
      BY <1>1, <1>3, <3>1, Fields DEF ReaderInv
    <3>2. CASE reader.state = "End"
      BY <1>3, <3>2 DEF ReaderInv
    <3> QED BY <1>5, <3>1, <3>2
  <2>3. status = None
    BY <1>1, <1>5 DEF CallInv
  <2> QED BY <1>1, <1>4, <1>5, <1>6, <2>1, <2>2, <2>3, NoneAssumption DEF CallInv
<1> QED BY <1>6, <1>7 DEF IInv

LEMMA NotifyAllStep ==
  ASSUME IInv, NotifyAll
  PROVE  IInv'
<1>1. TypeOK /\ ShapeInv /\ BuffersInv /\ CallInv
  BY DEF IInv
<1>2. PICK K \in Nat, k \in Nat : ResponseInv(K, k)
  BY DEF IInv
<1>3. /\ reader.call = "Ended" /\ reader' = [reader EXCEPT !.call = "Over"]
      /\ caller' = IF caller = "Asleep" THEN "Wait" ELSE caller
      /\ UNCHANGED <<request, server, stream, link, buffers, part, status>>
  BY DEF NotifyAll
<1>4. /\ TypeOK' /\ ShapeInv' /\ BuffersInv' /\ ResponseInv(K, k)'
      /\ reader'.call = "Over"
      /\ reader'.state = reader.state /\ reader'.error = reader.error
      /\ reader'.length = reader.length
  <2>1. /\ status' \in {None, "ok", "error"}
        /\ caller' \in {"Wait", "Asleep", "Returned", "Thrown"}
    BY <1>1, <1>3 DEF TypeOK
  <2> QED BY <1>1, <1>2, <1>3, <2>1, ResponseAlone
<1>5. CallInv'
  BY <1>1, <1>3, <1>4 DEF CallInv
<1> QED BY <1>4, <1>5 DEF IInv

LEMMA WaitStep ==
  ASSUME IInv, Wait
  PROVE  IInv'
<1>1. TypeOK /\ ShapeInv /\ BuffersInv /\ CallInv
  BY DEF IInv
<1>2. PICK K \in Nat, k \in Nat : ResponseInv(K, k)
  BY DEF IInv
<1>3. /\ caller = "Wait" /\ status \in {None, "ok", "error"}
      /\ UNCHANGED <<request, server, stream, link, reader, buffers, part, status>>
  BY <1>1 DEF Wait, TypeOK
<1>4. /\ status = None => caller' = "Asleep"
      /\ status = "ok" => caller' = "Returned"
      /\ status = "error" => caller' = "Thrown"
  BY <1>3, NoneAssumption DEF Wait
<1>5. TypeOK' /\ ShapeInv'
  BY <1>1, <1>3, <1>4 DEF TypeOK, ShapeInv, CopiesWithin
<1>6. BuffersInv' /\ ResponseInv(K, k)'
  BY <1>1, <1>2, <1>3 DEF BuffersInv, ResponseInv, ServerInv, OutInv, ReaderInv,
                          WireInv, Got, Place
<1>7. CallInv'
  BY <1>1, <1>3, <1>4, NoneAssumption DEF CallInv
<1> QED BY <1>5, <1>6, <1>7 DEF IInv

(* A response that has come to its end without an error is read to its end.*)
LEMMA WholeResponse ==
  ASSUME TypeOK, ShapeInv, CallInv,
         NEW K \in Nat, NEW k \in Nat, ResponseInv(K, k),
         reader.call = "None", stream = <<>>, link = "closed", ~server.failed
  PROVE  reader.state = "End"
<1>1. ServerInv(K) /\ ReaderInv(K, k) /\ WireInv(K, k)
  BY DEF ResponseInv
<1>2. part \o stream = <<>> /\ Len(part \o stream) = 0
  BY DEF CallInv
<1>3. request \in Requests /\ server.step = "Done"
  BY <1>1 DEF TypeOK, ServerInv
<1>4. /\ BufferSize(request) \in Nat
      /\ Start(request, k) \in Nat /\ Start(request, K) \in Nat
      /\ Got \in Nat /\ Place(k) \in Nat
      /\ ChunkAt(request, k) = k * FlagSize + Start(request, k)
      /\ (k + 1) * FlagSize = k * FlagSize + FlagSize /\ k * FlagSize \in Nat
      /\ SentTo(request, K) \in Nat
  BY <1>3, RequestFacts, Starts, GotNat, PlaceNat, ChunkNat
<1>5. Start(request, K) >= BufferSize(request)
  BY <1>1, <1>3 DEF ServerInv
<1>6. reader.state \in {"ReadFlags", "ReadChunk"} =>
        Place(k) = SentTo(request, K)
  BY <1>1, <1>2, <1>4 DEF WireInv
<1>7. reader.state # "ReadError"
  BY <1>1 DEF ReaderInv
<1>8. k < K => /\ ChunkAt(request, k) + FlagSize + SizeOf(request, k)
                    <= SentTo(request, K)
               /\ SizeOf(request, k) \in Nat \ {0}
  <2> SUFFICES ASSUME k < K
               PROVE  /\ ChunkAt(request, k) + FlagSize + SizeOf(request, k)
                           <= SentTo(request, K)
                      /\ SizeOf(request, k) \in Nat \ {0}
    OBVIOUS
  <2>1. Start(request, K - 1) < BufferSize(request)
    BY <1>1 DEF ServerInv
  <2>2. /\ Start(request, k) < BufferSize(request)
        /\ ChunkAt(request, k) + FlagSize + SizeOf(request, k) <= SentTo(request, K)
    BY <1>3, <2>1, SentChunk
  <2>3. SizeOf(request, k) \in 1 .. Stride(request)
    BY <1>3, <2>2, Sizes
  <2> QED BY <1>3, <2>2, <2>3, RequestFacts
<1>9. reader.state # "ReadFlags"
  <2> SUFFICES ASSUME reader.state = "ReadFlags" PROVE FALSE
    OBVIOUS
  <2>1. k <= K /\ Got = Start(request, k) /\ Got < BufferSize(request)
    BY <1>1 DEF ReaderInv
  <2>2. k < K
    BY <1>4, <1>5, <2>1
  <2>3. Place(k) = ChunkAt(request, k) + reader.flags_pos
    BY DEF Place
  <2>4. reader.flags_pos < FlagSize /\ reader.flags_pos \in Nat
    BY Fields DEF TypeOK
  <2> QED BY <1>4, <1>6, <1>8, <2>2, <2>3, <2>4
<1>10. reader.state # "ReadChunk"
  <2> SUFFICES ASSUME reader.state = "ReadChunk" PROVE FALSE
    OBVIOUS
  <2>1. /\ k < K /\ reader.length = 0
        /\ Got + reader.length + reader.chunk_remain
             = Start(request, k) + SizeOf(request, k)
        /\ reader.length + reader.chunk_remain > 0
    BY <1>1 DEF ReaderInv, CallInv
  <2>2. reader.chunk_remain \in Nat
    BY Fields
  <2>3. Place(k) = (k + 1) * FlagSize + Got
    BY DEF Place
  <2>4. PICK f \in Nat, start \in Nat, g \in Nat, size \in Nat, c \in Nat :
          /\ f = (k + 1) * FlagSize /\ start = Start(request, k) /\ g = Got
          /\ size = SizeOf(request, k) /\ c = reader.chunk_remain
    <3>1. SizeOf(request, k) \in Nat
      BY <1>8, <2>1
    <3>2. (k + 1) * FlagSize \in Nat
      BY <1>4
    <3>3. Start(request, k) \in Nat /\ Got \in Nat
      BY <1>4
    <3> QED BY <2>2, <3>1, <3>2, <3>3
  <2>5. g + 0 + c = start + size /\ 0 + c > 0
    BY <2>1, <2>4
  <2>6. f + g = SentTo(request, K)
    BY <1>6, <2>3, <2>4
  <2>7. f + start + size <= SentTo(request, K)
    <3>1. ChunkAt(request, k) + FlagSize + size <= SentTo(request, K)
      BY <1>8, <2>1, <2>4
    <3>2. PICK e \in Nat : e = k * FlagSize
      BY <1>4
    <3>3. ChunkAt(request, k) = e + start /\ f = e + FlagSize
      BY <1>4, <2>4, <3>2
    <3>4. PICK sent \in Nat : sent = SentTo(request, K)
      BY <1>4
    <3>5. e + start + FlagSize + size <= sent
      BY <3>1, <3>3, <3>4
    <3>6. f + start + size <= sent
      BY <2>4, <3>2, <3>3, <3>4, <3>5
    <3> QED BY <3>4, <3>6
  <2>8. PICK sent \in Nat : sent = SentTo(request, K)
    BY <1>4
  <2>9. f + g = sent /\ f + start + size <= sent
    BY <2>6, <2>7, <2>8
  <2>10. g + c = start + size /\ c > 0
    BY <2>4, <2>5
  <2>11. f + start + size = f + g + c
    BY <2>10
  <2> QED BY <2>9, <2>10, <2>11
<1> QED BY <1>7, <1>9, <1>10, Fields DEF States

LEMMA OnEndOfMessageStep ==
  ASSUME IInv, OnEndOfMessage
  PROVE  IInv'
<1>1. TypeOK /\ ShapeInv /\ BuffersInv /\ CallInv
  BY DEF IInv
<1>2. PICK K \in Nat, k \in Nat : ResponseInv(K, k)
  BY DEF IInv
<1>3. /\ status = None /\ reader' = [reader EXCEPT !.call = "Ended"]
      /\ UNCHANGED <<request, server, stream, link, buffers, part, caller>>
  BY DEF OnEndOfMessage
<1>4. /\ status' \in {"ok", "error"}
      /\ reader.call # "Part"
      /\ status' = "ok" => reader.state = "End" /\ ~reader.error
      /\ status' = "error" => server.failed \/ link = "broken"
  <2>1. CASE reader.call = "Failed" /\ status' = EndStatus(FALSE)
    <3>1. status' = "error" /\ server.failed
      BY <1>1, <2>1 DEF EndStatus, CallInv
    <3> QED BY <2>1, <3>1
  <2>2. CASE /\ reader.call = "None" /\ stream = <<>> /\ link = "closed"
             /\ status' = EndStatus(TRUE)
    <3>1. ~server.failed => reader.state = "End"
      BY <1>1, <1>2, <2>2, WholeResponse
    <3> QED BY <1>1, <2>2, <3>1 DEF EndStatus, CallInv
  <2>3. CASE reader.call = "None" /\ link = "broken" /\ status' = EndStatus(FALSE)
    BY <2>3 DEF EndStatus
  <2> QED BY <2>1, <2>2, <2>3 DEF OnEndOfMessage
<1>5. /\ TypeOK' /\ ShapeInv' /\ BuffersInv' /\ ResponseInv(K, k)'
      /\ reader'.call = "Ended"
      /\ reader'.state = reader.state /\ reader'.error = reader.error
      /\ reader'.length = reader.length
  <2>1. /\ status' \in {None, "ok", "error"}
        /\ caller' \in {"Wait", "Asleep", "Returned", "Thrown"}
    BY <1>1, <1>3, <1>4 DEF TypeOK
  <2> QED BY <1>1, <1>2, <1>3, <2>1, ResponseAlone
<1>6. CallInv'
  BY <1>1, <1>3, <1>4, <1>5, NoneAssumption DEF CallInv
<1> QED BY <1>5, <1>6 DEF IInv

(* A sequence and its parts.                                               *)
LEMMA Split ==
  ASSUME NEW s \in Seq(Byte), NEW n \in 0 .. Len(s)
  PROVE  /\ SubSeq(s, 1, n) \in Seq(Byte) /\ Len(SubSeq(s, 1, n)) = n
         /\ \A i \in 1 .. n : SubSeq(s, 1, n)[i] = s[i]
         /\ SubSeq(s, n + 1, Len(s)) \in Seq(Byte)
         /\ Len(SubSeq(s, n + 1, Len(s))) = Len(s) - n
         /\ \A i \in 1 .. Len(s) - n : SubSeq(s, n + 1, Len(s))[i] = s[n + i]
<1>1. Len(s) \in Nat /\ n \in Nat /\ n <= Len(s) /\ \A i \in 1 .. Len(s) : s[i] \in Byte
  OBVIOUS
<1>2. /\ SubSeq(s, 1, n) \in Seq(Byte) /\ Len(SubSeq(s, 1, n)) = n
      /\ \A i \in 1 .. n : SubSeq(s, 1, n)[i] = s[i]
  BY <1>1
<1>3. /\ SubSeq(s, n + 1, Len(s)) \in Seq(Byte)
      /\ Len(SubSeq(s, n + 1, Len(s))) = Len(s) - n
  BY <1>1
<1>4. \A i \in 1 .. Len(s) - n : SubSeq(s, n + 1, Len(s))[i] = s[n + i]
  <2> SUFFICES ASSUME NEW i \in 1 .. Len(s) - n
               PROVE  SubSeq(s, n + 1, Len(s))[i] = s[n + i]
    OBVIOUS
  <2>1. SubSeq(s, n + 1, Len(s))[i] = s[n + 1 + i - 1]
    BY <1>1
  <2>2. n + 1 + i - 1 = n + i
    BY <1>1
  <2> QED BY <2>1, <2>2
<1> QED BY <1>2, <1>3, <1>4

(* What is on its way, byte by byte.                                       *)
LEMMA OnTheWire ==
  ASSUME ShapeInv, NEW K \in Nat, NEW k \in Nat, WireInv(K, k),
         reader.state \in {"ReadFlags", "ReadChunk"}
  PROVE  /\ \A i \in 1 .. Len(part) :
              Carries(request, server.failed, K, Place(k) + i - 1, part[i])
         /\ \A i \in 1 .. Len(stream) :
              Carries(request, server.failed, K,
                      Place(k) + (Len(part) + i) - 1, stream[i])
         /\ link # "broken" /\ ~server.failed =>
              Place(k) + (Len(part) + Len(stream)) = SentTo(request, K)
<1>1. part \in Seq(Byte) /\ stream \in Seq(Byte)
  BY Fields
<1>2. PICK wire \in Seq(Byte) : wire = part \o stream
  BY <1>1, Appended
<1>3. /\ Len(wire) = Len(part) + Len(stream)
      /\ Len(part) \in Nat /\ Len(stream) \in Nat
      /\ \A i \in 1 .. Len(part) : wire[i] = part[i]
      /\ \A i \in 1 .. Len(stream) : wire[Len(part) + i] = stream[i]
  BY <1>1, <1>2, Appended
<1>4. /\ \A i \in 1 .. Len(wire) :
           Carries(request, server.failed, K, Place(k) + i - 1, wire[i])
      /\ link # "broken" /\ ~server.failed =>
           Place(k) + Len(wire) = SentTo(request, K)
  BY <1>2 DEF WireInv
<1>5. \A i \in 1 .. Len(part) :
        Carries(request, server.failed, K, Place(k) + i - 1, part[i])
  <2> SUFFICES ASSUME NEW i \in 1 .. Len(part)
               PROVE  Carries(request, server.failed, K, Place(k) + i - 1, part[i])
    OBVIOUS
  <2>1. i \in 1 .. Len(wire) /\ wire[i] = part[i]
    BY <1>3
  <2> QED BY <1>4, <2>1
<1>6. \A i \in 1 .. Len(stream) :
        Carries(request, server.failed, K, Place(k) + (Len(part) + i) - 1, stream[i])
  <2> SUFFICES ASSUME NEW i \in 1 .. Len(stream)
               PROVE  Carries(request, server.failed, K,
                              Place(k) + (Len(part) + i) - 1, stream[i])
    OBVIOUS
  <2>1. Len(part) + i \in 1 .. Len(wire) /\ wire[Len(part) + i] = stream[i]
    BY <1>3
  <2> QED BY <1>4, <2>1
<1> QED BY <1>3, <1>4, <1>5, <1>6

(* The reader has read the first n bytes of the part: what is left follows.*)
LEMMA WireShift ==
  ASSUME ShapeInv, NEW K \in Nat, NEW k \in Nat, WireInv(K, k),
         reader.state \in {"ReadFlags", "ReadChunk"}, Place(k) \in Nat,
         NEW n \in 0 .. Len(part), part' = SubSeq(part, n + 1, Len(part)),
         UNCHANGED <<request, server, stream, link>>,
         NEW l \in Nat, Place(l)' = Place(k) + n
  PROVE  part' \in Seq(Byte) /\ WireInv(K, l)'
<1>1. /\ \A i \in 1 .. Len(part) :
           Carries(request, server.failed, K, Place(k) + i - 1, part[i])
      /\ \A i \in 1 .. Len(stream) :
           Carries(request, server.failed, K,
                   Place(k) + (Len(part) + i) - 1, stream[i])
      /\ link # "broken" /\ ~server.failed =>
           Place(k) + (Len(part) + Len(stream)) = SentTo(request, K)
  BY OnTheWire
<1>2. /\ part \in Seq(Byte) /\ stream \in Seq(Byte)
      /\ Len(part) \in Nat /\ Len(stream) \in Nat /\ n \in Nat /\ n <= Len(part)
  BY Fields
<1>3. /\ part' \in Seq(Byte) /\ Len(part') = Len(part) - n
      /\ \A i \in 1 .. Len(part) - n : part'[i] = part[n + i]
  BY <1>2, Split
<1>4. PICK wire \in Seq(Byte) : wire = part' \o stream
  BY <1>2, <1>3, Appended
<1>5. /\ Len(wire) = Len(part') + Len(stream)
      /\ \A i \in 1 .. Len(part') : wire[i] = part'[i]
      /\ \A i \in 1 .. Len(stream) : wire[Len(part') + i] = stream[i]
      /\ \A i \in 1 .. Len(wire) :
           i \in 1 .. Len(part') \/ \E j \in 1 .. Len(stream) : i = Len(part') + j
  <2>1. PICK a \in Seq(Byte) : a = part'
    BY <1>3
  <2>2. wire = a \o stream
    BY <1>4, <2>1
  <2>3. /\ Len(wire) = Len(a) + Len(stream)
        /\ \A i \in 1 .. Len(a) : wire[i] = a[i]
        /\ \A i \in 1 .. Len(stream) : wire[Len(a) + i] = stream[i]
        /\ \A i \in 1 .. Len(wire) :
             i \in 1 .. Len(a) \/ \E j \in 1 .. Len(stream) : i = Len(a) + j
    <3>1. stream \in Seq(Byte)
      BY <1>2
    <3>2. PICK t \in Seq(Byte) : t = stream
      BY <3>1
    <3>3. wire = a \o t
      BY <2>2, <3>2
    <3>4. /\ Len(wire) = Len(a) + Len(t)
          /\ \A i \in 1 .. Len(a) : wire[i] = a[i]
          /\ \A i \in 1 .. Len(t) : wire[Len(a) + i] = t[i]
          /\ \A i \in 1 .. Len(wire) :
               i \in 1 .. Len(a) \/ \E j \in 1 .. Len(t) : i = Len(a) + j
      BY <3>3, Appended
    <3> QED BY <3>2, <3>4
  <2> QED BY <2>1, <2>3
<1>6. PICK p \in Nat : p = Place(k)
  OBVIOUS
<1>7. ASSUME NEW i \in 1 .. Len(wire)
      PROVE  Carries(request, server.failed, K, (p + n) + i - 1, wire[i])
  <2>1. CASE i \in 1 .. Len(part')
    <3>1. n + i \in 1 .. Len(part) /\ wire[i] = part[n + i]
      BY <1>2, <1>3, <1>5, <2>1
    <3>2. p + (n + i) - 1 = (p + n) + i - 1
      BY <1>2, <2>1, <1>3
    <3>3. Carries(request, server.failed, K, p + (n + i) - 1, part[n + i])
      BY <1>1, <1>6, <3>1
    <3> QED BY <3>1, <3>2, <3>3
  <2>2. ASSUME NEW j \in 1 .. Len(stream), i = Len(part') + j
        PROVE  Carries(request, server.failed, K, (p + n) + i - 1, wire[i])
    <3>1. wire[i] = stream[j]
      BY <1>5, <2>2
    <3>2. p + (Len(part) + j) - 1 = (p + n) + i - 1
      BY <1>2, <1>3, <2>2
    <3>3. Carries(request, server.failed, K, p + (Len(part) + j) - 1, stream[j])
      BY <1>1, <1>6
    <3> QED BY <3>1, <3>2, <3>3
  <2> QED BY <1>5, <2>1, <2>2
<1>8. (p + n) + Len(wire) = p + (Len(part) + Len(stream))
  <2>1. PICK a \in Nat, b \in Nat : a = Len(part) /\ b = Len(stream)
    BY <1>2
  <2>2. Len(wire) = (a - n) + b
    BY <1>3, <1>5, <2>1
  <2>3. (p + n) + ((a - n) + b) = p + (a + b)
    BY <1>2
  <2> QED BY <2>1, <2>2, <2>3
<1>9. stream' = stream /\ request' = request /\ server' = server /\ link' = link
  OBVIOUS
<1>10. Place(l)' = p + n /\ part' \o stream' = wire
  BY <1>4, <1>6, <1>9
<1> QED BY <1>1, <1>3, <1>6, <1>7, <1>8, <1>9, <1>10 DEF WireInv

(* While a part is read, nobody is told of an end.                         *)
LEMMA CallGoesOn ==
  ASSUME CallInv, reader.call \in {"None", "Part"}, status = None, reader'.call = "Part",
         UNCHANGED <<server, link, status, caller>>
  PROVE  CallInv'
BY NoneAssumption DEF CallInv

LEMMA CallHasNoStatus ==
  ASSUME CallInv, reader.call = "Part"
  PROVE  status = None
BY DEF CallInv

LEMMA OnReadOnePartStep ==
  ASSUME IInv, NEW n \in 1 .. Len(stream), OnReadOnePart(n)
  PROVE  IInv'
<1>1. TypeOK /\ ShapeInv /\ BuffersInv /\ CallInv
  BY DEF IInv
<1>2. PICK K \in Nat, k \in Nat : ResponseInv(K, k)
  BY DEF IInv
<1>3. ServerInv(K) /\ OutInv(K) /\ ReaderInv(K, k) /\ WireInv(K, k)
  BY <1>2 DEF ResponseInv
<1>4. /\ reader.call = "None" /\ status = None
      /\ part' = SubSeq(stream, 1, n)
      /\ stream' = SubSeq(stream, n + 1, Len(stream))
      /\ reader' = [reader EXCEPT !.call = "Part"]
      /\ UNCHANGED <<request, server, link, buffers, status, caller>>
  BY DEF OnReadOnePart
<1>5. /\ stream \in Seq(Byte) /\ Len(stream) \in Nat \ {0}
      /\ n \in 0 .. Len(stream) /\ n \in Nat
  BY <1>1, Fields
<1>6. /\ part' \in Seq(Byte) /\ Len(part') = n
      /\ \A i \in 1 .. n : part'[i] = stream[i]
      /\ stream' \in Seq(Byte) /\ Len(stream') = Len(stream) - n
      /\ \A i \in 1 .. Len(stream) - n : stream'[i] = stream[n + i]
  BY <1>4, <1>5, Split
<1>7. reader \in ReaderType
  BY <1>1 DEF ShapeInv
<1>8. /\ reader' \in ReaderType /\ reader'.call = "Part"
      /\ reader'.state = reader.state /\ reader'.flags_pos = reader.flags_pos
      /\ reader'.chunk_remain = reader.chunk_remain
      /\ reader'.buffer_remain = reader.buffer_remain
      /\ reader'.idx = reader.idx /\ reader'.pos = reader.pos
      /\ reader'.length = reader.length /\ reader'.data_pos = reader.data_pos
      /\ reader'.error = reader.error /\ reader'.overrun = reader.overrun
  BY <1>4, <1>7 DEF ReaderType
<1>9. TypeOK' /\ ShapeInv'
  <2>1. reader'.flags_pos < FlagSize /\ reader'.pos < request.len
    BY <1>1, <1>8, GotNat DEF TypeOK
  <2>2. ~reader'.overrun
    BY <1>3, <1>8 DEF ReaderInv
  <2>3. /\ status' \in {None, "ok", "error"}
        /\ caller' \in {"Wait", "Asleep", "Returned", "Thrown"}
    BY <1>1, <1>4 DEF TypeOK
  <2> QED BY <1>1, <1>4, <1>6, <1>8, <2>1, <2>2, <2>3, ReaderTypes
<1>10. Got' = Got /\ Place(k)' = Place(k)
  BY <1>4, <1>8 DEF Got, Place
<1>11. BuffersInv'
  BY <1>1, <1>4, <1>10 DEF BuffersInv
<1>12. part = <<>> /\ reader.length = 0 /\ ~(reader.state = "End" /\ reader.error)
  BY <1>1, <1>4 DEF CallInv
<1>13. reader.state # "End"
  <2>1. stream # <<>>
    BY <1>5
  <2> QED BY <1>3, <1>12, <2>1 DEF ReaderInv
<1>14. ReaderInv(K, k)'
  <2>1. reader'.length <= Len(part')
    BY <1>5, <1>6, <1>8, <1>12
  <2>2. reader'.length = 0 /\ request' = request /\ server' = server
    BY <1>4, <1>8, <1>12
  <2> QED BY <1>3, <1>8, <1>10, <1>13, <2>1, <2>2 DEF ReaderInv
<1>15. WireInv(K, k)'
  <2>1. part \o stream = stream
    BY <1>5, <1>12
  <2>2. PICK wire \in Seq(Byte) : wire = part' \o stream'
    BY <1>6, Appended
  <2>3. Len(wire) = Len(stream)
    <3>1. Len(wire) = Len(part') + Len(stream')
      BY <1>6, <2>2, Appended
    <3> QED BY <1>5, <1>6, <3>1
  <2>4. \A i \in 1 .. Len(stream) : wire[i] = stream[i]
    <3> SUFFICES ASSUME NEW i \in 1 .. Len(stream) PROVE wire[i] = stream[i]
      OBVIOUS
    <3>1. CASE i <= n
      <4>1. wire[i] = part'[i]
        BY <1>5, <1>6, <2>2, <3>1, Appended
      <4> QED BY <1>5, <1>6, <3>1, <4>1
    <3>2. CASE ~(i <= n)
      <4>1. i - n \in 1 .. Len(stream') /\ i = n + (i - n)
        BY <1>5, <1>6, <3>2
      <4>2. wire[Len(part') + (i - n)] = stream'[i - n]
        <5>1. PICK a \in Seq(Byte), b \in Seq(Byte) : a = part' /\ b = stream'
          BY <1>6
        <5>2. wire = a \o b
          BY <2>2, <5>1
        <5>3. wire[Len(a) + (i - n)] = b[i - n]
          BY <4>1, <5>1, <5>2, Appended
        <5> QED BY <5>1, <5>3
      <4> QED BY <1>5, <1>6, <4>1, <4>2
    <3> QED BY <3>1, <3>2
  <2>5. /\ request' = request /\ server' = server /\ link' = link
        /\ reader'.state = reader.state /\ Place(k)' = Place(k)
    BY <1>4, <1>8, <1>10
  <2> QED BY <1>3, <2>1, <2>2, <2>3, <2>4, <2>5 DEF WireInv
<1>16. ServerInv(K)' /\ OutInv(K)'
  BY <1>3, <1>4, ServerAlone
<1>17. CallInv'
  BY <1>1, <1>4, <1>8, CallGoesOn
<1>18. ResponseInv(K, k)'
  BY <1>14, <1>15, <1>16 DEF ResponseInv
<1> QED BY <1>9, <1>11, <1>17, <1>18 DEF IInv

LEMMA CopyToFlagsStep ==
  ASSUME IInv, CopyToFlags
  PROVE  IInv'
<1>1. TypeOK /\ ShapeInv /\ BuffersInv /\ CallInv
  BY DEF IInv
<1>2. PICK K \in Nat, k \in Nat : ResponseInv(K, k)
  BY DEF IInv
<1>3. ServerInv(K) /\ OutInv(K) /\ ReaderInv(K, k) /\ WireInv(K, k)
  BY <1>2 DEF ResponseInv
<1>4. PICK n : n = Min(FlagSize - reader.flags_pos, Len(part))
  OBVIOUS
<1>5. PICK flags : flags = part[n]
  OBVIOUS
<1>6. /\ reader.call = "Part" /\ part # <<>> /\ reader.state = "ReadFlags"
      /\ part' = SubSeq(part, n + 1, Len(part))
      /\ reader' =
           IF reader.flags_pos + n < FlagSize
           THEN [reader EXCEPT !.flags_pos = reader.flags_pos + n]
           ELSE [reader EXCEPT !.flags_pos = 0, !.chunk_remain = flags.size,
                               !.state = IF flags.flag = 0 THEN "ReadChunk"
                                         ELSE "ReadError"]
      /\ UNCHANGED <<request, server, stream, link, buffers, status, caller>>
  BY <1>4, <1>5 DEF CopyToFlags, Reading, Consume
<1>7. /\ reader.flags_pos \in Nat /\ reader.flags_pos < FlagSize
      /\ part \in Seq(Byte) /\ Len(part) \in Nat /\ request \in Requests
      /\ stream \in Seq(Byte)
  BY <1>1, Fields DEF TypeOK
<1>8. /\ n \in 1 .. Len(part) /\ n \in 0 .. Len(part) /\ n \in Nat \ {0}
      /\ reader.flags_pos + n <= FlagSize
  <2>1. Len(part) # 0
    BY <1>6, <1>7
  <2> QED BY <1>4, <1>7, <2>1 DEF Min
<1>9. reader \in ReaderType
  BY <1>1 DEF ShapeInv
<1>10. /\ k <= K /\ Got = Start(request, k) /\ Got < BufferSize(request)
       /\ reader.length = 0 /\ reader.data_pos = 0 /\ ~reader.overrun
       /\ reader.buffer_remain + reader.length + Got = BufferSize(request)
       /\ ~reader.error
  BY <1>3, <1>6, <1>9 DEF ReaderInv
<1>11. /\ Place(k) = ChunkAt(request, k) + reader.flags_pos
       /\ Place(k) \in Nat /\ ChunkAt(request, k) \in Nat
       /\ Got \in Nat /\ BufferSize(request) \in Nat /\ SentTo(request, K) \in Nat
       /\ Stride(request) \in Nat \ {0}
       /\ ChunkAt(request, k) = k * FlagSize + Start(request, k)
       /\ (k + 1) * FlagSize = k * FlagSize + FlagSize /\ k * FlagSize \in Nat
  BY <1>1, <1>6, <1>7, PlaceNat, ChunkNat, GotNat, RequestFacts, Starts DEF Place
<1>12. /\ status' \in {None, "ok", "error"}
       /\ caller' \in {"Wait", "Asleep", "Returned", "Thrown"}
  BY <1>1, <1>6 DEF TypeOK
<1>13. part' \in Seq(Byte)
  BY <1>6, <1>7, <1>8, Split
<1>14. ServerInv(K)' /\ OutInv(K)'
  BY <1>3, <1>6, ServerAlone
<1>15. /\ request' = request /\ server' = server /\ link' = link
       /\ stream' = stream /\ buffers' = buffers /\ status = None
  BY <1>1, <1>6, CallHasNoStatus
<1>16. reader.pos < request.len
  BY <1>1, GotNat
<1>17. CASE reader.flags_pos + n < FlagSize
  <2>1. reader' = [reader EXCEPT !.flags_pos = reader.flags_pos + n]
    BY <1>6, <1>17
  <2>2. /\ reader' \in ReaderType /\ reader'.call = "Part"
        /\ reader'.state = "ReadFlags" /\ reader'.flags_pos = reader.flags_pos + n
        /\ reader'.chunk_remain = reader.chunk_remain
        /\ reader'.buffer_remain = reader.buffer_remain
        /\ reader'.idx = reader.idx /\ reader'.pos = reader.pos
        /\ reader'.length = reader.length /\ reader'.data_pos = reader.data_pos
        /\ reader'.error = reader.error /\ reader'.overrun = reader.overrun
    <3>1. reader.flags_pos + n \in Nat
      BY <1>7, <1>8
    <3>2. reader.call = "Part" /\ reader.state = "ReadFlags"
      BY <1>6
    <3> QED BY <1>9, <2>1, <3>1, <3>2 DEF ReaderType
  <2>3. TypeOK' /\ ShapeInv'
    BY <1>1, <1>6, <1>7, <1>10, <1>12, <1>13, <1>15, <1>16, <1>17, <2>2, ReaderTypes
  <2>4. Got' = Got
    BY <1>15, <2>2 DEF Got
  <2>5. BuffersInv'
    BY <1>1, <1>15, <2>4 DEF BuffersInv
  <2>6. ReaderInv(K, k)'
    BY <1>10, <1>15, <2>2, <2>4 DEF ReaderInv
  <2>7. Place(k)' = Place(k) + n
    <3>1. Place(k)' = ChunkAt(request, k) + (reader.flags_pos + n)
      BY <1>15, <2>2 DEF Place
    <3> QED BY <1>7, <1>8, <1>11, <3>1
  <2>8. WireInv(K, k)'
    BY <1>1, <1>3, <1>6, <1>8, <1>11, <2>7, WireShift
  <2>9. CallInv'
    BY <1>1, <1>6, <1>15, <2>2, CallGoesOn
  <2>10. ResponseInv(K, k)'
    BY <1>14, <2>6, <2>8 DEF ResponseInv
  <2> QED BY <2>3, <2>5, <2>9, <2>10 DEF IInv
<1>18. CASE ~(reader.flags_pos + n < FlagSize)
  <2>1. /\ reader.flags_pos + n = FlagSize
        /\ Place(k) + n - 1 = ChunkAt(request, k) + (FlagSize - 1)
        /\ Place(k) + n = ChunkAt(request, k) + FlagSize
    <3>1. PICK p \in Nat : p = ChunkAt(request, k)
      BY <1>11
    <3>2. Place(k) = p + reader.flags_pos
      BY <1>11, <3>1
    <3>3. reader.flags_pos + n = FlagSize
      BY <1>7, <1>8, <1>18
    <3>4. /\ Place(k) + n - 1 = p + (FlagSize - 1)
          /\ Place(k) + n = p + FlagSize
      <4>1. PICK f \in Nat : f = reader.flags_pos
        BY <1>7
      <4>2. n \in Nat /\ f + n = FlagSize /\ Place(k) = p + f
        BY <1>8, <3>2, <3>3, <4>1
      <4>3. (p + f) + n - 1 = p + (FlagSize - 1) /\ (p + f) + n = p + FlagSize
        BY <4>2
      <4> QED BY <4>2, <4>3
    <3> QED BY <3>1, <3>3, <3>4
  <2>2. Carries(request, server.failed, K, ChunkAt(request, k) + (FlagSize - 1), flags)
    <3>1. Carries(request, server.failed, K, Place(k) + n - 1, part[n])
      BY <1>1, <1>3, <1>6, <1>8, OnTheWire
    <3> QED BY <1>5, <2>1, <3>1
  <2>3. k < K => /\ ChunkAt(request, k) + FlagSize + SizeOf(request, k)
                      <= SentTo(request, K)
                 /\ SizeOf(request, k) \in Nat \ {0}
    <3> SUFFICES ASSUME k < K
                 PROVE  /\ ChunkAt(request, k) + FlagSize + SizeOf(request, k)
                             <= SentTo(request, K)
                        /\ SizeOf(request, k) \in Nat \ {0}
      OBVIOUS
    <3>1. Start(request, K - 1) < BufferSize(request)
      BY <1>3 DEF ServerInv
    <3>2. ChunkAt(request, k) + FlagSize + SizeOf(request, k) <= SentTo(request, K)
      BY <1>7, <3>1, SentChunk
    <3>3. SizeOf(request, k) \in 1 .. Stride(request)
      BY <1>7, <1>10, Sizes
    <3> QED BY <1>11, <3>2, <3>3
  <2>4. SentTo(request, k) = ChunkAt(request, k)
    BY <1>7, <1>10, Sizes
  <2>5. CASE k < K
    <3>1. FlagSize - 1 \in 0 .. FlagSize + Stride(request) - 1
      BY <1>11
    <3>2. ChunkAt(request, k) + (FlagSize - 1) < SentTo(request, K)
      BY <1>11, <2>3, <2>5
    <3>3. flags = ByteAt(request, k, FlagSize - 1)
      BY <1>7, <2>2, <3>1, <3>2, CarriesSent
    <3>4. flags = [flag |-> 0, size |-> SizeOf(request, k)]
      BY <3>3 DEF ByteAt
    <3>5. reader' = [reader EXCEPT !.flags_pos = 0, !.state = "ReadChunk",
                                   !.chunk_remain = SizeOf(request, k)]
      BY <1>6, <1>9, <1>18, <3>4 DEF ReaderType
    <3>6. /\ reader' \in ReaderType /\ reader'.call = "Part"
          /\ reader'.state = "ReadChunk" /\ reader'.flags_pos = 0
          /\ reader'.chunk_remain = SizeOf(request, k)
          /\ reader'.buffer_remain = reader.buffer_remain
          /\ reader'.idx = reader.idx /\ reader'.pos = reader.pos
          /\ reader'.length = 0 /\ reader'.data_pos = 0
          /\ reader'.error = reader.error /\ reader'.overrun = reader.overrun
      BY <1>6, <1>9, <1>10, <2>3, <2>5, <3>5 DEF ReaderType, States
    <3>7. TypeOK' /\ ShapeInv'
      <4>1. /\ reader'.flags_pos < FlagSize /\ reader'.pos < request.len
            /\ ~reader'.overrun
        BY <1>10, <1>16, <3>6
      <4>2. stream' \in Seq(Byte)
        BY <1>7, <1>15
      <4> QED BY <1>1, <1>12, <1>13, <1>15, <3>6, <4>1, <4>2, ReaderTypes
    <3>8. Got' = Got
      BY <1>15, <3>6 DEF Got
    <3>9. BuffersInv'
      BY <1>1, <1>15, <3>8 DEF BuffersInv
    <3>10. ReaderInv(K, k)'
      <4>1. Len(part') \in Nat
        BY <1>13
      <4>2. PICK size \in Nat \ {0} : size = SizeOf(request, k)
        BY <2>3, <2>5
      <4>3. /\ Got' + reader'.length + reader'.chunk_remain
                 = Start(request, k) + SizeOf(request, k)
            /\ Got' >= Start(request, k)
            /\ reader'.length + reader'.chunk_remain > 0
            /\ reader'.length <= Len(part')
        <5>1. Got' = Got /\ reader'.length = 0 /\ reader'.chunk_remain = size
          BY <3>6, <3>8, <4>2
        <5>2. Got \in Nat /\ Got = Start(request, k)
          BY <1>10, <1>11
        <5> QED BY <4>1, <4>2, <5>1, <5>2
      <4>4. reader'.buffer_remain + reader'.length + Got' = BufferSize(request)
        BY <1>10, <3>6, <3>8
      <4>5. ~reader'.error /\ ~reader'.overrun
        BY <1>10, <3>6
      <4> QED BY <1>15, <2>5, <3>6, <4>3, <4>4, <4>5 DEF ReaderInv
    <3>11. Place(k)' = Place(k) + n
      <4>1. Place(k)' = (k + 1) * FlagSize + Got
        BY <3>6, <3>8 DEF Place
      <4> QED BY <1>10, <1>11, <2>1, <4>1
    <3>12. WireInv(K, k)'
      BY <1>1, <1>3, <1>6, <1>8, <1>11, <3>11, WireShift
    <3>13. CallInv'
      BY <1>1, <1>6, <1>15, <3>6, CallGoesOn
    <3>14. ResponseInv(K, k)'
      BY <1>14, <3>10, <3>12 DEF ResponseInv
    <3> QED BY <3>7, <3>9, <3>13, <3>14 DEF IInv
  <2>6. CASE ~(k < K)
    <3>1. k = K /\ SentTo(request, K) = ChunkAt(request, k)
      BY <1>10, <2>4, <2>6
    <3>2. /\ ChunkAt(request, k) + (FlagSize - 1) >= SentTo(request, K)
          /\ ChunkAt(request, k) + (FlagSize - 1) < SentTo(request, K) + FlagSize
      BY <1>11, <3>1
    <3>3. server.failed /\ flags = [flag |-> 1, size |-> ErrSize]
      BY <2>2, <3>2 DEF Carries
    <3>4. reader' = [reader EXCEPT !.flags_pos = 0, !.state = "ReadError",
                                   !.chunk_remain = ErrSize]
      <4>1. reader' = [reader EXCEPT !.flags_pos = 0, !.chunk_remain = flags.size,
                                     !.state = IF flags.flag = 0 THEN "ReadChunk"
                                               ELSE "ReadError"]
        BY <1>6, <1>18
      <4>2. flags.flag = 1 /\ flags.size = ErrSize
        BY <3>3
      <4>3. (IF flags.flag = 0 THEN "ReadChunk" ELSE "ReadError") = "ReadError"
        BY <4>2
      <4> QED BY <4>1, <4>2, <4>3
    <3>5. /\ reader' \in ReaderType /\ reader'.call = "Part"
          /\ reader'.state = "ReadError" /\ reader'.flags_pos = 0
          /\ reader'.chunk_remain = ErrSize
          /\ reader'.buffer_remain = reader.buffer_remain
          /\ reader'.idx = reader.idx /\ reader'.pos = reader.pos
          /\ reader'.length = 0 /\ reader'.data_pos = 0
          /\ reader'.error = reader.error /\ reader'.overrun = reader.overrun
      BY <1>6, <1>9, <1>10, <3>4 DEF ReaderType, States
    <3>6. TypeOK' /\ ShapeInv'
      <4>1. /\ reader'.flags_pos < FlagSize /\ reader'.pos < request.len
            /\ ~reader'.overrun
        BY <1>10, <1>16, <3>5
      <4>2. stream' \in Seq(Byte)
        BY <1>7, <1>15
      <4> QED BY <1>1, <1>12, <1>13, <1>15, <3>5, <4>1, <4>2, ReaderTypes
    <3>7. Got' = Got
      BY <1>15, <3>5 DEF Got
    <3>8. BuffersInv'
      BY <1>1, <1>15, <3>7 DEF BuffersInv
    <3>9. ReaderInv(K, k)'
      BY <1>10, <1>15, <3>3, <3>5, <3>7 DEF ReaderInv
    <3>10. WireInv(K, k)'
      BY <3>5 DEF WireInv
    <3>11. CallInv'
      BY <1>1, <1>6, <1>15, <3>5, CallGoesOn
    <3>12. ResponseInv(K, k)'
      BY <1>14, <3>9, <3>10 DEF ResponseInv
    <3> QED BY <3>6, <3>8, <3>11, <3>12 DEF IInv
  <2> QED BY <2>5, <2>6
<1> QED BY <1>17, <1>18

LEMMA CopyToBufferStep ==
  ASSUME IInv, CopyToBuffer
  PROVE  IInv'
<1>1. TypeOK /\ ShapeInv /\ BuffersInv /\ CallInv
  BY DEF IInv
<1>2. PICK K \in Nat, k \in Nat : ResponseInv(K, k)
  BY DEF IInv
<1>3. ServerInv(K) /\ OutInv(K) /\ ReaderInv(K, k) /\ WireInv(K, k)
  BY <1>2 DEF ResponseInv
<1>4. PICK n : n = Min(Len(part), reader.chunk_remain)
  OBVIOUS
<1>5. /\ reader.call = "Part" /\ part # <<>> /\ reader.state = "ReadChunk"
      /\ reader.length = 0
      /\ reader' = IF n > reader.buffer_remain
                   THEN [reader EXCEPT !.call = "Failed"]
                   ELSE [reader EXCEPT
                          !.length = n, !.data_pos = 0,
                          !.chunk_remain = reader.chunk_remain - n,
                          !.buffer_remain = reader.buffer_remain - n]
      /\ UNCHANGED <<request, server, stream, link, buffers, part, status, caller>>
  BY <1>4 DEF CopyToBuffer, Reading
<1>6. /\ part \in Seq(Byte) /\ stream \in Seq(Byte) /\ Len(part) \in Nat
      /\ reader.chunk_remain \in Nat /\ reader.buffer_remain \in Nat
      /\ request \in Requests /\ Got \in Nat /\ BufferSize(request) \in Nat
      /\ Start(request, k) \in Nat
  BY <1>1, Fields, GotNat, RequestFacts, Starts DEF TypeOK
<1>7. PICK cr \in Nat, br \in Nat : cr = reader.chunk_remain /\ br = reader.buffer_remain
  BY <1>6
<1>8. /\ k < K /\ reader.flags_pos = 0 /\ reader.data_pos = 0
      /\ Got + cr = Start(request, k) + SizeOf(request, k)
      /\ Got >= Start(request, k) /\ cr > 0
      /\ br + Got = BufferSize(request)
      /\ ~reader.error /\ ~reader.overrun
  <2>1. /\ k < K /\ reader.flags_pos = 0 /\ reader.data_pos = 0
        /\ Got + 0 + cr = Start(request, k) + SizeOf(request, k)
        /\ Got >= Start(request, k) /\ 0 + cr > 0
        /\ br + 0 + Got = BufferSize(request)
        /\ ~reader.overrun
    BY <1>3, <1>5, <1>7 DEF ReaderInv
  <2>2. ~reader.error
    BY <1>3, <1>5 DEF ReaderInv
  <2> QED BY <1>6, <2>1, <2>2
<1>9. /\ n \in Nat \ {0} /\ n <= Len(part) /\ n <= cr
  <2>1. Len(part) # 0
    BY <1>5, <1>6
  <2> QED BY <1>4, <1>6, <1>7, <1>8, <2>1 DEF Min
<1>10. /\ Start(request, k) + SizeOf(request, k) <= BufferSize(request)
       /\ SizeOf(request, k) \in Nat
  <2>1. Start(request, K - 1) < BufferSize(request)
    BY <1>3, <1>8 DEF ServerInv
  <2>2. Start(request, k) < BufferSize(request)
    BY <1>6, <1>8, <2>1, SentChunk
  <2>3. Stride(request) \in Nat
    BY <1>6, RequestFacts
  <2> QED BY <1>6, <2>2, <2>3, Sizes
<1>11. n <= br
  BY <1>6, <1>8, <1>9, <1>10
<1>12. reader' = [reader EXCEPT !.length = n, !.data_pos = 0,
                               !.chunk_remain = cr - n, !.buffer_remain = br - n]
  BY <1>5, <1>7, <1>9, <1>11
<1>13. cr - n \in Nat /\ br - n \in Nat
  BY <1>9, <1>11
<1>14. reader \in ReaderType
  BY <1>1 DEF ShapeInv
<1>15. /\ reader' \in ReaderType /\ reader'.call = reader.call
       /\ reader'.state = reader.state /\ reader'.flags_pos = reader.flags_pos
       /\ reader'.chunk_remain = cr - n /\ reader'.buffer_remain = br - n
       /\ reader'.idx = reader.idx /\ reader'.pos = reader.pos
       /\ reader'.length = n /\ reader'.data_pos = 0
       /\ reader'.error = reader.error /\ reader'.overrun = reader.overrun
  BY <1>9, <1>12, <1>13, <1>14 DEF ReaderType
<1>16. /\ request' = request /\ server' = server /\ link' = link /\ part' = part
       /\ stream' = stream /\ buffers' = buffers /\ status = None
  BY <1>1, <1>5, CallHasNoStatus
<1>17. TypeOK' /\ ShapeInv'
  <2>1. /\ status' \in {None, "ok", "error"}
        /\ caller' \in {"Wait", "Asleep", "Returned", "Thrown"}
    BY <1>1, <1>5 DEF TypeOK
  <2>2. /\ reader'.flags_pos < FlagSize /\ reader'.pos < request.len
        /\ ~reader'.overrun
    BY <1>1, <1>8, <1>15, GotNat
  <2>3. part' \in Seq(Byte) /\ stream' \in Seq(Byte)
    BY <1>6, <1>16
  <2> QED BY <1>1, <1>15, <1>16, <2>1, <2>2, <2>3, ReaderTypes
<1>18. Got' = Got /\ Place(k)' = Place(k)
  BY <1>15, <1>16 DEF Got, Place
<1>19. BuffersInv'
  BY <1>1, <1>16, <1>18 DEF BuffersInv
<1>20. ReaderInv(K, k)'
  <2>1. Got + n + (cr - n) = Start(request, k) + SizeOf(request, k)
    BY <1>6, <1>8, <1>9, <1>10
  <2>2. n + (cr - n) > 0
    BY <1>8, <1>9
  <2>3. (br - n) + n + Got = BufferSize(request)
    BY <1>6, <1>8, <1>9
  <2> QED BY <1>5, <1>8, <1>9, <1>15, <1>16, <1>18, <2>1, <2>2, <2>3 DEF ReaderInv
<1>21. WireInv(K, k)'
  BY <1>3, <1>15, <1>16, <1>18 DEF WireInv
<1>22. CallInv'
  BY <1>1, <1>5, <1>15, <1>16, CallGoesOn
<1>23. ServerInv(K)' /\ OutInv(K)'
  BY <1>3, <1>16, ServerAlone
<1>24. ResponseInv(K, k)'
  BY <1>20, <1>21, <1>23 DEF ResponseInv
<1> QED BY <1>17, <1>19, <1>22, <1>24 DEF IInv

LEMMA CopyToErrorStep ==
  ASSUME IInv, CopyToError
  PROVE  IInv'
<1>1. TypeOK /\ ShapeInv /\ BuffersInv /\ CallInv
  BY DEF IInv
<1>2. PICK K \in Nat, k \in Nat : ResponseInv(K, k)
  BY DEF IInv
<1>3. ServerInv(K) /\ OutInv(K) /\ ReaderInv(K, k) /\ WireInv(K, k)
  BY <1>2 DEF ResponseInv
<1>4. PICK n : n = Min(Len(part), reader.chunk_remain)
  OBVIOUS
<1>5. PICK state : state = IF reader.chunk_remain = n THEN "End" ELSE "ReadError"
  OBVIOUS
<1>6. /\ reader.call = "Part" /\ reader.state = "ReadError"
      /\ part' = SubSeq(part, n + 1, Len(part))
      /\ reader' = [reader EXCEPT !.error = TRUE,
                      !.chunk_remain = reader.chunk_remain - n, !.state = state]
      /\ UNCHANGED <<request, server, stream, link, buffers, status, caller>>
  BY <1>4, <1>5 DEF CopyToError, Reading, Consume
<1>7. /\ part \in Seq(Byte) /\ stream \in Seq(Byte) /\ Len(part) \in Nat
      /\ reader.chunk_remain \in Nat
  BY <1>1, Fields
<1>8. n \in 0 .. Len(part) /\ reader.chunk_remain - n \in Nat
  BY <1>4, <1>7 DEF Min
<1>9. reader \in ReaderType /\ state \in {"End", "ReadError"}
  BY <1>1, <1>5 DEF ShapeInv
<1>10. /\ reader' \in ReaderType /\ reader'.call = "Part"
       /\ reader'.state = state /\ reader'.flags_pos = reader.flags_pos
       /\ reader'.buffer_remain = reader.buffer_remain
       /\ reader'.idx = reader.idx /\ reader'.pos = reader.pos
       /\ reader'.length = reader.length /\ reader'.data_pos = reader.data_pos
       /\ reader'.error /\ reader'.overrun = reader.overrun
  BY <1>6, <1>8, <1>9 DEF ReaderType, States
<1>11. /\ request' = request /\ server' = server /\ link' = link
       /\ stream' = stream /\ buffers' = buffers /\ status = None
  BY <1>1, <1>6, CallHasNoStatus
<1>12. /\ reader.length = 0 /\ reader.data_pos = 0 /\ ~reader.overrun
       /\ reader.buffer_remain + reader.length + Got = BufferSize(request)
       /\ server.failed
  BY <1>3, <1>6 DEF ReaderInv
<1>13. part' \in Seq(Byte)
  BY <1>6, <1>7, <1>8, Split
<1>14. TypeOK' /\ ShapeInv'
  <2>1. /\ status' \in {None, "ok", "error"}
        /\ caller' \in {"Wait", "Asleep", "Returned", "Thrown"}
    BY <1>1, <1>6 DEF TypeOK
  <2>2. /\ reader'.flags_pos < FlagSize /\ reader'.pos < request.len
        /\ ~reader'.overrun
    BY <1>1, <1>10, <1>12, GotNat DEF TypeOK
  <2>3. stream' \in Seq(Byte)
    BY <1>7, <1>11
  <2> QED BY <1>1, <1>10, <1>11, <1>13, <2>1, <2>2, <2>3, ReaderTypes
<1>15. Got' = Got
  BY <1>10, <1>11 DEF Got
<1>16. BuffersInv'
  BY <1>1, <1>11, <1>15 DEF BuffersInv
<1>17. ReaderInv(K, k)'
  BY <1>9, <1>10, <1>11, <1>12, <1>15 DEF ReaderInv
<1>18. WireInv(K, k)'
  BY <1>9, <1>10 DEF WireInv
<1>19. CallInv'
  BY <1>1, <1>6, <1>10, <1>11, CallGoesOn
<1>20. ServerInv(K)' /\ OutInv(K)'
  BY <1>3, <1>11, ServerAlone
<1>21. ResponseInv(K, k)'
  BY <1>17, <1>18, <1>20 DEF ResponseInv
<1> QED BY <1>14, <1>16, <1>19, <1>21 DEF IInv

(* What has come of a chunk fits into the current buffer.                  *)
LEMMA FitsIntoBuffer ==
  ASSUME OneChunkEach, TypeOK, ShapeInv, NEW K \in Nat, NEW k \in Nat,
         ServerInv(K), ReaderInv(K, k),
         reader.state = "ReadChunk", reader.length > 0
  PROVE  /\ Start(request, k) < BufferSize(request)
         /\ reader.idx < NumBuf(request)
         /\ reader.pos + reader.length <= request.len
<1>1. /\ request \in Requests /\ request.len \in Nat \ {0}
      /\ Got \in Nat /\ reader.pos \in Nat /\ reader.idx \in Nat
      /\ reader.length \in Nat \ {0} /\ reader.chunk_remain \in Nat
      /\ reader.pos < request.len /\ NumBuf(request) \in 1 .. 2
      /\ BufferSize(request) = IF request.kind = "truncpr"
                               THEN request.len + request.len ELSE request.len
  <2>1. request \in Requests
    BY DEF TypeOK
  <2>2. /\ request.len \in Nat \ {0} /\ NumBuf(request) \in 1 .. 2
        /\ BufferSize(request) = IF request.kind = "truncpr"
                                 THEN request.len + request.len ELSE request.len
    BY <2>1, RequestFacts
  <2>3. Got \in Nat /\ reader.pos \in Nat /\ reader.pos < request.len
    BY GotNat
  <2>4. /\ reader.idx \in Nat /\ reader.length \in Nat
        /\ reader.chunk_remain \in Nat
    BY Fields
  <2> QED BY <2>1, <2>2, <2>3, <2>4
<1>2. /\ k < K /\ Got >= Start(request, k)
      /\ Got + reader.length + reader.chunk_remain
           = Start(request, k) + SizeOf(request, k)
  BY DEF ReaderInv
<1>3. Start(request, k) < BufferSize(request)
  <2>1. Start(request, K - 1) < BufferSize(request)
    BY <1>2 DEF ServerInv
  <2> QED BY <1>1, <1>2, <2>1, SentChunk
<1>4. /\ SizeOf(request, k) \in Nat /\ SizeOf(request, k) <= Stride(request)
      /\ Start(request, k) + SizeOf(request, k) <= BufferSize(request)
      /\ Start(request, k) \in Nat /\ Stride(request) \in Nat
  <2>1. Stride(request) \in Nat
    BY <1>1, RequestFacts
  <2>2. Start(request, k) \in Nat
    BY <1>1, Starts
  <2> QED BY <1>1, <1>3, <2>1, <2>2, Sizes
<1>5. PICK len \in Nat \ {0} : len = request.len
  BY <1>1
<1>6. PICK idx \in Nat, pos \in Nat, l \in Nat \ {0} :
        idx = reader.idx /\ pos = reader.pos /\ l = reader.length
  BY <1>1
<1>7. Got = idx * len + pos /\ pos < len
  BY <1>1, <1>5, <1>6 DEF Got
<1>8. idx * len + pos + l <= Start(request, k) + SizeOf(request, k)
  <2>1. PICK g \in Nat : g = Got
    BY <1>1
  <2>2. g + l <= Start(request, k) + SizeOf(request, k)
    BY <1>1, <1>2, <1>4, <1>6, <2>1
  <2> QED BY <1>7, <2>1, <2>2
<1>9. idx * len \in Nat
  BY ProductGrows
<1>10. CASE request.kind # "truncpr"
  <2>1. BufferSize(request) = len /\ NumBuf(request) = 1
    BY <1>1, <1>5, <1>10 DEF NumBuf
  <2>2. idx * len + pos + l <= len
    BY <1>4, <1>5, <1>8, <1>9, <2>1
  <2>3. idx = 0
    <3> SUFFICES ASSUME 0 < idx PROVE FALSE
      OBVIOUS
    <3>1. 0 * len + len <= idx * len
      BY ProductGrows
    <3> QED BY <1>9, <2>2, <3>1
  <2>4. pos + l <= len
    BY <2>2, <2>3
  <2> QED BY <1>3, <1>5, <1>6, <2>1, <2>3, <2>4
<1>11. CASE request.kind = "truncpr"
  <2>1. /\ BufferSize(request) = len + len /\ NumBuf(request) = 2
        /\ Stride(request) = len
    BY <1>1, <1>5, <1>11 DEF NumBuf, Stride
  <2>2. Start(request, k) = k * len /\ k * len \in Nat
    BY <2>1, ProductGrows DEF Start
  <2>3. /\ idx * len + pos + l <= k * len + len
        /\ k * len <= idx * len + pos
    <3>1. SizeOf(request, k) <= len
      BY <1>4, <2>1
    <3>2. k * len <= Got
      BY <1>1, <1>2, <2>2
    <3>3. idx * len + pos + l <= k * len + SizeOf(request, k)
      BY <1>8, <2>2
    <3> QED BY <1>4, <1>7, <1>9, <2>2, <3>1, <3>2, <3>3
  <2>4. ~(k < idx)
    <3> SUFFICES ASSUME k < idx PROVE FALSE
      OBVIOUS
    <3>1. k * len + len <= idx * len
      BY ProductGrows
    <3> QED BY <1>9, <2>2, <2>3, <3>1
  <2>5. ~(idx < k)
    <3> SUFFICES ASSUME idx < k PROVE FALSE
      OBVIOUS
    <3>1. idx * len + len <= k * len
      BY ProductGrows
    <3> QED BY <1>7, <1>9, <2>2, <2>3, <3>1
  <2>6. idx = k
    BY <2>4, <2>5
  <2>7. pos + l <= len
    BY <1>9, <2>3, <2>6
  <2>8. idx < 2
    <3> SUFFICES ASSUME 1 < idx PROVE FALSE
      OBVIOUS
    <3>1. 1 * len + len <= idx * len
      BY ProductGrows
    <3>2. k * len < len + len
      BY <1>3, <2>1, <2>2
    <3> QED BY <1>9, <2>6, <3>1, <3>2
  <2> QED BY <1>3, <1>5, <1>6, <2>1, <2>7, <2>8
<1> QED BY <1>10, <1>11

(* The bytes that have come of a chunk are the corrections that come next. *)
LEMMA PartCarries ==
  ASSUME TypeOK, ShapeInv, NEW K \in Nat, NEW k \in Nat,
         ServerInv(K), ReaderInv(K, k), WireInv(K, k),
         reader.state = "ReadChunk", NEW j \in 1 .. reader.length
  PROVE  part[j] = Content(request, Got + j - 1)
<1>1. /\ request \in Requests /\ Got \in Nat
      /\ reader.length \in Nat /\ reader.chunk_remain \in Nat
      /\ Start(request, k) \in Nat /\ (k + 1) * FlagSize = k * FlagSize + FlagSize
      /\ k * FlagSize \in Nat /\ ChunkAt(request, k) = k * FlagSize + Start(request, k)
      /\ ChunkAt(request, k) \in Nat /\ SentTo(request, K) \in Nat
      /\ Stride(request) \in Nat /\ Len(part) \in Nat
  BY RequestFacts, GotNat, Fields, Starts, ChunkNat DEF TypeOK
<1>2. /\ k < K /\ Got >= Start(request, k)
      /\ Got + reader.length + reader.chunk_remain
           = Start(request, k) + SizeOf(request, k)
      /\ reader.length <= Len(part)
  BY DEF ReaderInv
<1>3. /\ ChunkAt(request, k) + FlagSize + SizeOf(request, k) <= SentTo(request, K)
      /\ SizeOf(request, k) \in Nat /\ SizeOf(request, k) <= Stride(request)
  <2>1. Start(request, K - 1) < BufferSize(request)
    BY <1>2 DEF ServerInv
  <2>2. /\ Start(request, k) < BufferSize(request)
        /\ ChunkAt(request, k) + FlagSize + SizeOf(request, k) <= SentTo(request, K)
    BY <1>1, <1>2, <2>1, SentChunk
  <2>3. SizeOf(request, k) \in 1 .. Stride(request)
    BY <1>1, <2>2, Sizes
  <2> QED BY <1>1, <2>2, <2>3
<1>4. PICK at \in Nat, sent \in Nat, start \in Nat, size \in Nat, g \in Nat :
        /\ at = ChunkAt(request, k) /\ sent = SentTo(request, K)
        /\ start = Start(request, k) /\ size = SizeOf(request, k) /\ g = Got
  BY <1>1, <1>3
<1>5. PICK i \in Int : i = FlagSize + (g - start) + j - 1
  BY <1>4
<1>6. /\ g >= start /\ g + j <= start + size /\ j \in Nat \ {0} /\ j <= Len(part)
      /\ at + FlagSize + size <= sent /\ size <= Stride(request)
  <2>1. PICK l \in Nat, c \in Nat : l = reader.length /\ c = reader.chunk_remain
    BY <1>1
  <2>2. j \in Nat \ {0} /\ j <= l /\ g + l + c = start + size /\ l <= Len(part)
    BY <1>2, <1>4, <2>1
  <2>3. g >= start /\ at + FlagSize + size <= sent /\ size <= Stride(request)
    BY <1>2, <1>3, <1>4
  <2>4. PICK n \in Nat : n = Len(part)
    BY <1>1
  <2>5. j <= n
    BY <2>1, <2>2, <2>4
  <2>6. g + j <= start + size
    BY <2>1, <2>2
  <2> QED BY <2>2, <2>3, <2>4, <2>5, <2>6
<1>7. /\ i \in 0 .. FlagSize + Stride(request) - 1 /\ ~(i < FlagSize)
      /\ at + i < sent
  <2>1. PICK stride \in Nat : stride = Stride(request)
    BY <1>1
  <2>2. /\ g >= start /\ g + j <= start + size /\ j \in Nat \ {0}
        /\ at + FlagSize + size <= sent /\ size <= stride
    BY <1>6, <2>1
  <2>3. i >= FlagSize /\ i <= FlagSize + size - 1
    BY <1>4, <1>5, <2>2
  <2>4. i <= FlagSize + stride - 1 /\ at + i < sent
    BY <1>4, <1>5, <2>2, <2>3
  <2> QED BY <1>5, <2>1, <2>3, <2>4
<1>8. Place(k) + j - 1 = at + i
  <2>1. Place(k) = (k + 1) * FlagSize + g
    BY <1>4 DEF Place
  <2>2. at = k * FlagSize + start /\ (k + 1) * FlagSize = k * FlagSize + FlagSize
    BY <1>1, <1>4
  <2>3. PICK f \in Nat : f = k * FlagSize
    BY <1>1
  <2>4. Place(k) = f + FlagSize + g /\ at = f + start
    BY <2>1, <2>2, <2>3
  <2> QED BY <1>5, <1>6, <2>4
<1>9. Carries(request, server.failed, K, at + i, part[j])
  <2>1. j \in 1 .. Len(part)
    BY <1>1, <1>6
  <2>2. Carries(request, server.failed, K, Place(k) + j - 1, part[j])
    BY <2>1, OnTheWire
  <2> QED BY <1>8, <2>2
<1>10. part[j] = ByteAt(request, k, i)
  <2>1. ChunkAt(request, k) + i < SentTo(request, K)
    BY <1>4, <1>7
  <2>2. Carries(request, server.failed, K, ChunkAt(request, k) + i, part[j])
    BY <1>4, <1>9
  <2>3. request \in Requests /\ i \in 0 .. FlagSize + Stride(request) - 1
    BY <1>1, <1>7
  <2> QED BY <2>1, <2>2, <2>3, CarriesSent
<1>11. part[j] = Content(request, start + i - FlagSize)
  BY <1>4, <1>7, <1>10 DEF ByteAt
<1>12. start + i - FlagSize = g + j - 1
  BY <1>5, <1>6
<1> QED BY <1>4, <1>11, <1>12

(* The reader has copied what has come of a chunk to the current buffer.   *)
LEMMA CopyFills ==
  ASSUME OneChunkEach, TypeOK, ShapeInv, BuffersInv, NEW K \in Nat, NEW k \in Nat,
         ServerInv(K), ReaderInv(K, k), WireInv(K, k),
         reader.state = "ReadChunk", reader.length > 0,
         request' = request, reader.data_pos = 0,
         Got' = Got + reader.length,
         buffers' = [buffers EXCEPT ![reader.idx] =
           [i \in DOMAIN buffers[reader.idx] |->
             IF i \in reader.pos .. reader.pos + reader.length - 1
             THEN IF reader.data_pos + (i - reader.pos + 1) \in DOMAIN part
                  THEN part[reader.data_pos + (i - reader.pos + 1)] ELSE None
             ELSE buffers[reader.idx][i]]]
  PROVE  /\ DOMAIN buffers' = DOMAIN buffers
         /\ \A b \in Bufs(request) : DOMAIN buffers'[b] = DOMAIN buffers[b]
         /\ BuffersInv'
<1>1. request \in Requests
  BY DEF TypeOK
<1>2. /\ request.len \in Nat \ {0} /\ NumBuf(request) \in 1 .. 2
      /\ Bufs(request) = IF request.kind = "truncpr" THEN 0 .. 1 ELSE {0}
  BY <1>1, RequestFacts
<1>3. PICK len \in Nat \ {0} : len = request.len
  BY <1>2
<1>4. PICK idx \in Nat, pos \in Nat, l \in Nat \ {0} :
        idx = reader.idx /\ pos = reader.pos /\ l = reader.length
  <2>1. reader.idx \in Nat /\ reader.pos \in Nat /\ reader.length \in Nat
    BY Fields
  <2> QED BY <2>1
<1>5. /\ idx < NumBuf(request) /\ pos + l <= len
  BY <1>3, <1>4, FitsIntoBuffer
<1>6. idx \in Bufs(request)
  BY <1>2, <1>4, <1>5 DEF Bufs
<1>7. /\ DOMAIN buffers = Bufs(request)
      /\ \A b \in Bufs(request) : DOMAIN buffers[b] = 0 .. len - 1
      /\ part \in Seq(Byte) /\ l <= Len(part) /\ Len(part) \in Nat
  <2>1. /\ DOMAIN buffers = Bufs(request)
        /\ \A b \in Bufs(request) : DOMAIN buffers[b] = 0 .. len - 1
    BY <1>3 DEF ShapeInv
  <2>2. part \in Seq(Byte) /\ Len(part) \in Nat
    BY Fields
  <2>3. l <= Len(part)
    BY <1>4 DEF ReaderInv
  <2> QED BY <2>1, <2>2, <2>3
<1>8. buffers' = [buffers EXCEPT ![idx] =
        [i \in 0 .. len - 1 |->
          IF i \in pos .. pos + l - 1
          THEN IF 0 + (i - pos + 1) \in DOMAIN part
               THEN part[0 + (i - pos + 1)] ELSE None
          ELSE buffers[idx][i]]]
  BY <1>4, <1>6, <1>7
<1>9. /\ DOMAIN buffers' = DOMAIN buffers
      /\ \A b \in Bufs(request) : b # idx => buffers'[b] = buffers[b]
      /\ buffers'[idx] = [i \in 0 .. len - 1 |->
           IF i \in pos .. pos + l - 1
           THEN IF 0 + (i - pos + 1) \in DOMAIN part
                THEN part[0 + (i - pos + 1)] ELSE None
           ELSE buffers[idx][i]]
  BY <1>6, <1>7, <1>8
<1>10. /\ \A b \in Bufs(request) : DOMAIN buffers'[b] = DOMAIN buffers[b]
       /\ \A i \in 0 .. len - 1 :
            /\ i \notin pos .. pos + l - 1 => buffers'[idx][i] = buffers[idx][i]
            /\ i \in pos .. pos + l - 1 /\ 0 + (i - pos + 1) \in DOMAIN part =>
                 buffers'[idx][i] = part[0 + (i - pos + 1)]
  <2>1. \A b \in Bufs(request) : DOMAIN buffers'[b] = DOMAIN buffers[b]
    <3>1. DOMAIN buffers'[idx] = 0 .. len - 1
      BY <1>9
    <3> QED BY <1>6, <1>7, <1>9, <3>1
  <2>2. \A i \in 0 .. len - 1 :
          buffers'[idx][i] = IF i \in pos .. pos + l - 1
                             THEN IF 0 + (i - pos + 1) \in DOMAIN part
                                  THEN part[0 + (i - pos + 1)] ELSE None
                             ELSE buffers[idx][i]
    BY <1>9
  <2> QED BY <2>1, <2>2
<1>11. PICK g \in Nat : g = Got
  BY GotNat
<1>12. g = idx * len + pos /\ idx * len \in Nat
  BY <1>3, <1>4, <1>11, ProductGrows DEF Got
<1>13. ASSUME NEW b \in Bufs(request), NEW i \in 0 .. len - 1, b * len + i < g + l
       PROVE  buffers'[b][i] = [buf |-> b, at |-> i]
  <2>1. b \in Nat /\ b * len \in Nat /\ i \in Nat
    BY <1>2, ProductGrows
  <2>2. b * len + i < g => buffers[b][i] = [buf |-> b, at |-> i]
    BY <1>3, <1>11 DEF BuffersInv
  <2>3. ~(idx < b)
    <3> SUFFICES ASSUME idx < b PROVE FALSE
      OBVIOUS
    <3>1. idx * len + len <= b * len
      BY <2>1, ProductGrows
    <3> QED BY <1>5, <1>12, <1>13, <2>1, <3>1
  <2>4. CASE b < idx
    <3>1. b * len + len <= idx * len
      BY <2>1, <2>4, ProductGrows
    <3>2. b * len + i < g
      <4>1. PICK u \in Nat, w \in Nat : u = b * len /\ w = idx * len
        BY <1>12, <2>1
      <4>2. u + len <= w /\ g = w + pos
        BY <1>12, <3>1, <4>1
      <4> QED BY <2>1, <4>1, <4>2
    <3>3. b # idx
      BY <2>1, <2>4
    <3> QED BY <1>9, <2>2, <3>2, <3>3
  <2>5. CASE b = idx
    <3>1. i < pos + l
      BY <1>12, <1>13, <2>1, <2>5
    <3>2. CASE i < pos
      <4>1. buffers'[b][i] = buffers[b][i]
        <5>1. i \notin pos .. pos + l - 1
          BY <2>1, <3>2
        <5> QED BY <1>10, <2>5, <5>1
      <4>2. b * len + i < g
        BY <1>12, <2>1, <2>5, <3>2
      <4> QED BY <2>2, <4>1, <4>2
    <3>3. CASE ~(i < pos)
      <4>1. PICK j \in 1 .. l : j = i - pos + 1
        BY <2>1, <3>1, <3>3
      <4>2. j \in DOMAIN part /\ 0 + j = j
        <5>1. PICK m \in Nat : m = Len(part)
          BY <1>7
        <5>2. l <= m /\ DOMAIN part = 1 .. m
          BY <1>7, <5>1
        <5>3. j \in 1 .. m
          <6>1. j \in Nat /\ 1 <= j /\ j <= l
            BY <4>1
          <6> QED BY <5>1, <5>2, <6>1
        <5>4. 0 + j = j
          OBVIOUS
        <5> QED BY <5>2, <5>3, <5>4
      <4>3. i \in pos .. pos + l - 1
        BY <2>1, <3>1, <3>3
      <4>4. buffers'[b][i] = part[j]
        <5>1. 0 + (i - pos + 1) = j
          BY <4>1, <4>2
        <5>2. buffers'[idx][i] = part[j]
          BY <1>10, <4>2, <4>3, <5>1
        <5> QED BY <2>5, <5>2
      <4>5. part[j] = Content(request, g + j - 1)
        <5>1. j \in 1 .. reader.length
          BY <1>4
        <5>2. part[j] = Content(request, Got + j - 1)
          BY <5>1, PartCarries
        <5> QED BY <1>11, <5>2
      <4>6. g + j - 1 = idx * len + i
        BY <1>12, <2>1, <4>1
      <4>7. idx \in {0, 1}
        BY <1>2, <1>5
      <4>8. CASE idx = 0
        <5>1. g + j - 1 = i /\ i < len
          BY <2>1, <4>6, <4>8
        <5> QED BY <1>3, <2>5, <4>4, <4>5, <4>8, <5>1 DEF Content
      <4>9. CASE idx = 1
        <5>1. g + j - 1 = len + i /\ ~(len + i < len) /\ len + i - len = i
          BY <2>1, <4>6, <4>9
        <5> QED BY <1>3, <2>5, <4>4, <4>5, <4>9, <5>1 DEF Content
      <4> QED BY <4>7, <4>8, <4>9
    <3> QED BY <3>2, <3>3
  <2> QED BY <2>1, <2>3, <2>4, <2>5
<1>14. BuffersInv'
  <2>1. Got' = g + l /\ request'.len = len /\ Bufs(request)' = Bufs(request)
    BY <1>3, <1>4, <1>11
  <2>2. SUFFICES ASSUME NEW b \in Bufs(request'), NEW i \in 0 .. request'.len - 1,
                        b * request'.len + i < Got'
                 PROVE  buffers'[b][i] = [buf |-> b, at |-> i]
    BY DEF BuffersInv
  <2>3. /\ b \in Bufs(request) /\ i \in 0 .. len - 1
        /\ b * len + i < g + l
    BY <1>3, <2>1, <2>2
  <2> QED BY <1>13, <2>3
<1> QED BY <1>9, <1>10, <1>14

(* The corrections are complete with the last chunk sent, and nothing is   *)
(* left on its way.                                                        *)
LEMMA NothingLeft ==
  ASSUME TypeOK, ShapeInv, NEW K \in Nat, NEW k \in Nat,
         ServerInv(K), ReaderInv(K, k), WireInv(K, k),
         reader.state = "ReadChunk", reader.length > 0,
         reader.buffer_remain = 0
  PROVE  /\ Got + reader.length = BufferSize(request)
         /\ Start(request, K) >= BufferSize(request)
         /\ ~server.failed
         /\ Len(part) = reader.length /\ stream = <<>>
<1>1. /\ request \in Requests /\ BufferSize(request) \in Nat
      /\ Got \in Nat /\ Start(request, k) \in Nat
      /\ ChunkAt(request, k) \in Nat /\ SentTo(request, K) \in Nat
      /\ Stride(request) \in Nat /\ (k + 1) * FlagSize \in Nat
  <2>1. request \in Requests
    BY DEF TypeOK
  <2> QED BY <2>1, RequestFacts, GotNat, Starts, ChunkNat
<1>2. PICK len \in Nat, stream_len \in Nat : len = Len(part) /\ stream_len = Len(stream)
  BY Fields
<1>3. PICK total \in Nat, start \in Nat, g \in Nat, l \in Nat \ {0}, c \in Nat :
        /\ total = BufferSize(request) /\ start = Start(request, k)
        /\ g = Got /\ l = reader.length /\ c = reader.chunk_remain
  <2>1. reader.length \in Nat \ {0} /\ reader.chunk_remain \in Nat
    BY Fields
  <2> QED BY <1>1, <2>1
<1>4. /\ k < K /\ g >= start /\ g + l + c = start + SizeOf(request, k)
      /\ g + l = total /\ l <= len
  <2>1. /\ k < K /\ Got >= Start(request, k) /\ reader.length <= Len(part)
        /\ Got + reader.length + reader.chunk_remain
             = Start(request, k) + SizeOf(request, k)
        /\ reader.buffer_remain + reader.length + Got = BufferSize(request)
    BY DEF ReaderInv
  <2>2. 0 + l + g = total
    BY <1>3, <2>1
  <2> QED BY <1>2, <1>3, <2>1, <2>2
<1>5. K - 1 \in Nat /\ Start(request, K - 1) < total
  BY <1>3, <1>4 DEF ServerInv
<1>6. start < total
  BY <1>1, <1>3, <1>4, <1>5, SentChunk
<1>7. PICK size \in Nat : size = SizeOf(request, k)
  BY <1>1, <1>3, <1>6, Sizes
<1>8. /\ size <= Stride(request) /\ start + size <= total
      /\ SentTo(request, k + 1) = (k + 1) * FlagSize + start + size
  BY <1>1, <1>3, <1>6, <1>7, Sizes
<1>9. c = 0 /\ start + size = total
  BY <1>3, <1>4, <1>7, <1>8
<1>10. k + 1 = K
  <2> SUFFICES ASSUME k < K - 1 PROVE FALSE
    BY <1>4
  <2>1. start + Stride(request) <= Start(request, K - 1)
    BY <1>1, <1>3, <1>5, Starts
  <2>2. Start(request, K - 1) \in Nat
    BY <1>1, <1>5, Starts
  <2> QED BY <1>1, <1>5, <1>8, <1>9, <2>1, <2>2
<1>11. Start(request, K) >= total
  <2>1. Start(request, K) = start + Stride(request)
    BY <1>1, <1>3, <1>10, Starts
  <2> QED BY <1>1, <1>8, <1>9, <2>1
<1>12. ~server.failed
  <2>1. Start(request, K) \in Nat
    BY <1>1, Starts
  <2> QED BY <1>3, <1>11, <2>1 DEF ServerInv
<1>13. PICK f \in Nat : f = (k + 1) * FlagSize
  BY <1>1
<1>14. SentTo(request, K) = f + total /\ Place(k) = f + g
  <2>1. Place(k) = (k + 1) * FlagSize + g
    BY <1>3 DEF Place
  <2>2. SentTo(request, K) = f + start + size
    BY <1>8, <1>10, <1>13
  <2> QED BY <1>9, <1>13, <2>1, <2>2
<1>15. \A o, b : o >= SentTo(request, K) => ~Carries(request, server.failed, K, o, b)
  BY <1>12 DEF Carries
<1>16. len = l
  <2> SUFFICES ASSUME l < len PROVE FALSE
    BY <1>4
  <2>1. l + 1 \in 1 .. Len(part)
    BY <1>2
  <2>2. Carries(request, server.failed, K, Place(k) + (l + 1) - 1, part[l + 1])
    BY <2>1, OnTheWire
  <2>3. Place(k) + (l + 1) - 1 >= SentTo(request, K)
    BY <1>4, <1>14
  <2> QED BY <1>15, <2>2, <2>3
<1>17. stream_len = 0
  <2> SUFFICES ASSUME 0 < stream_len PROVE FALSE
    OBVIOUS
  <2>1. 1 \in 1 .. Len(stream)
    BY <1>2
  <2>2. Carries(request, server.failed, K, Place(k) + (len + 1) - 1, stream[1])
    BY <1>2, <2>1, OnTheWire
  <2>3. Place(k) + (len + 1) - 1 >= SentTo(request, K)
    BY <1>4, <1>14, <1>16
  <2> QED BY <1>15, <2>2, <2>3
<1>18. stream = <<>>
  <2>1. stream \in Seq(Byte) /\ Len(stream) = 0
    BY <1>2, <1>17, Fields
  <2> QED BY <2>1
<1> QED BY <1>2, <1>3, <1>4, <1>11, <1>12, <1>16, <1>18

LEMMA CopyOnceStep ==
  ASSUME OneChunkEach, IInv, CopyOnce
  PROVE  IInv'
<1>1. TypeOK /\ ShapeInv /\ BuffersInv /\ CallInv
  BY DEF IInv
<1>2. PICK K \in Nat, k \in Nat : ResponseInv(K, k)
  BY DEF IInv
<1>3. ServerInv(K) /\ OutInv(K) /\ ReaderInv(K, k) /\ WireInv(K, k)
  BY <1>2 DEF ResponseInv
<1>4. /\ reader.call = "Part" /\ reader.state = "ReadChunk" /\ reader.length > 0
      /\ UNCHANGED <<request, server, stream, link, status, caller>>
  BY DEF CopyOnce, Reading
<1>5. /\ request \in Requests /\ request.len \in Nat \ {0}
      /\ Got \in Nat /\ Start(request, k) \in Nat /\ BufferSize(request) \in Nat
  <2>1. request \in Requests
    BY <1>1 DEF TypeOK
  <2> QED BY <1>1, <2>1, RequestFacts, GotNat, Starts
<1>6. PICK len \in Nat \ {0} : len = request.len
  BY <1>5
<1>7. PICK idx \in Nat, pos \in Nat, l \in Nat \ {0}, c \in Nat, br \in Nat :
        /\ idx = reader.idx /\ pos = reader.pos /\ l = reader.length
        /\ c = reader.chunk_remain /\ br = reader.buffer_remain
  <2>1. /\ reader.idx \in Nat /\ reader.pos \in Nat
        /\ reader.length \in Nat \ {0}
        /\ reader.chunk_remain \in Nat /\ reader.buffer_remain \in Nat
    BY <1>1, <1>4, Fields
  <2> QED BY <2>1
<1>8. /\ Start(request, k) < BufferSize(request)
      /\ idx < NumBuf(request) /\ pos + l <= len
  BY <1>1, <1>3, <1>4, <1>6, <1>7, FitsIntoBuffer
<1>9. /\ k < K /\ reader.flags_pos = 0 /\ reader.data_pos = 0
      /\ ~reader.overrun /\ ~reader.error
      /\ Got + l + c = Start(request, k) + SizeOf(request, k)
      /\ Got >= Start(request, k)
      /\ br + l + Got = BufferSize(request)
      /\ l <= Len(part)
  <2>1. /\ k < K /\ reader.flags_pos = 0 /\ reader.data_pos = 0 /\ ~reader.overrun
        /\ Got + l + c = Start(request, k) + SizeOf(request, k)
        /\ Got >= Start(request, k)
        /\ br + l + Got = BufferSize(request)
        /\ l <= Len(part)
    BY <1>3, <1>4, <1>7 DEF ReaderInv
  <2>2. ~reader.error
    BY <1>3, <1>4 DEF ReaderInv
  <2> QED BY <2>1, <2>2
<1>10. CopySize = l
  BY <1>6, <1>7, <1>8 DEF CopySize, Min
<1>11. PICK pos1 : pos1 = NextPos(l)
  OBVIOUS
<1>12. PICK idx1 : idx1 = IF pos + l = len THEN idx + 1 ELSE idx
  OBVIOUS
<1>13. PICK state : state = IF br = 0 THEN "End"
                            ELSE IF c = 0 THEN "ReadFlags" ELSE "ReadChunk"
  OBVIOUS
<1>14. /\ reader' = [reader EXCEPT !.pos = pos1, !.idx = idx1, !.data_pos = 0,
                       !.length = 0, !.overrun = FALSE, !.state = state]
       /\ part' = SubSeq(part, l + 1, Len(part))
       /\ buffers' = [buffers EXCEPT ![reader.idx] =
            [i \in DOMAIN buffers[reader.idx] |->
              IF i \in reader.pos .. reader.pos + reader.length - 1
              THEN IF reader.data_pos + (i - reader.pos + 1) \in DOMAIN part
                   THEN part[reader.data_pos + (i - reader.pos + 1)] ELSE None
              ELSE buffers[reader.idx][i]]]
  <2>1. ~(reader.idx >= NumBuf(request))
    <3>1. NumBuf(request) \in Nat
      BY <1>5, RequestFacts
    <3> QED BY <1>7, <1>8, <3>1
  <2>2. /\ reader.data_pos + CopySize >= reader.length
        /\ ~(reader.data_pos + CopySize > reader.length)
    BY <1>7, <1>9, <1>10
  <2>3. /\ buffers' = [buffers EXCEPT ![reader.idx] =
             [i \in DOMAIN buffers[reader.idx] |->
               IF i \in reader.pos .. reader.pos + CopySize - 1
               THEN IF reader.data_pos + (i - reader.pos + 1) \in DOMAIN part
                    THEN part[reader.data_pos + (i - reader.pos + 1)] ELSE None
               ELSE buffers[reader.idx][i]]]
        /\ part' = SubSeq(part, reader.length + 1, Len(part))
    BY <2>1, <2>2 DEF CopyOnce, Consume
  <2>4. reader' = [reader EXCEPT
             !.pos = NextPos(CopySize),
             !.idx = IF reader.pos + CopySize = request.len
                     THEN reader.idx + 1 ELSE reader.idx,
             !.data_pos = 0, !.length = 0,
             !.overrun = reader.overrun \/ FALSE,
             !.state = IF reader.buffer_remain = 0 THEN "End"
                       ELSE IF reader.chunk_remain = 0 THEN "ReadFlags"
                       ELSE reader.state]
    BY <2>1, <2>2 DEF CopyOnce
  <2>5. reader.overrun \/ FALSE <=> FALSE
    BY <1>9
  <2> QED BY <1>4, <1>6, <1>7, <1>10, <1>11, <1>12, <1>13, <2>3, <2>4, <2>5
<1>15. PICK g \in Nat : g = Got
  BY <1>5
<1>16. /\ g = idx * len + pos /\ idx * len \in Nat
       /\ pos1 \in Nat /\ idx1 \in Nat /\ pos1 < len
       /\ idx1 * len + pos1 = g + l
  <2>1. g = idx * len + pos /\ idx * len \in Nat /\ (idx + 1) * len = idx * len + len
    BY <1>6, <1>7, <1>15, ProductGrows DEF Got
  <2>2. pos1 = IF pos + l = len THEN 0 ELSE pos + l
    BY <1>6, <1>7, <1>11 DEF NextPos
  <2>3. CASE pos + l = len
    <3>1. pos1 = 0 /\ idx1 = idx + 1
      BY <1>12, <2>2, <2>3
    <3>2. (idx + 1) * len + 0 = g + l
      BY <2>1, <2>3
    <3> QED BY <2>1, <3>1, <3>2
  <2>4. CASE pos + l # len
    <3>1. pos1 = pos + l /\ idx1 = idx
      BY <1>12, <2>2, <2>4
    <3>2. pos + l < len
      BY <1>8, <2>4
    <3>3. idx * len + (pos + l) = g + l
      BY <2>1
    <3> QED BY <2>1, <3>1, <3>2, <3>3
  <2> QED BY <2>3, <2>4
<1>17. reader \in ReaderType /\ state \in States
  BY <1>1, <1>13 DEF ShapeInv, States
<1>18. /\ reader' \in ReaderType /\ reader'.call = reader.call
       /\ reader'.state = state /\ reader'.flags_pos = reader.flags_pos
       /\ reader'.chunk_remain = reader.chunk_remain
       /\ reader'.buffer_remain = reader.buffer_remain
       /\ reader'.idx = idx1 /\ reader'.pos = pos1
       /\ reader'.length = 0 /\ reader'.data_pos = 0
       /\ reader'.error = reader.error /\ reader'.overrun = FALSE
  <2>1. pos1 \in Nat /\ idx1 \in Nat
    BY <1>16
  <2>2. reader' = [reader EXCEPT !.pos = pos1, !.idx = idx1, !.data_pos = 0,
                     !.length = 0, !.overrun = FALSE, !.state = state]
    BY <1>14
  <2> QED BY <1>17, <2>1, <2>2 DEF ReaderType
<1>19. /\ request' = request /\ server' = server /\ link' = link
       /\ stream' = stream /\ status = None
  BY <1>1, <1>4, CallHasNoStatus
<1>20. Got' = g + l
  <2>1. Got' = idx1 * len + pos1
    BY <1>6, <1>18, <1>19 DEF Got
  <2> QED BY <1>16, <2>1
<1>21. /\ part \in Seq(Byte) /\ stream \in Seq(Byte) /\ Len(part) \in Nat
       /\ l \in 0 .. Len(part) /\ part' \in Seq(Byte) /\ Len(part') = Len(part) - l
  <2>1. part \in Seq(Byte) /\ stream \in Seq(Byte) /\ Len(part) \in Nat
    BY <1>1, Fields
  <2>2. l \in 0 .. Len(part)
    BY <1>9, <2>1
  <2> QED BY <1>14, <2>1, <2>2, Split
<1>22. /\ DOMAIN buffers' = DOMAIN buffers
       /\ \A b \in Bufs(request) : DOMAIN buffers'[b] = DOMAIN buffers[b]
       /\ BuffersInv'
  <2>1. Got' = Got + reader.length
    BY <1>7, <1>15, <1>20
  <2> QED BY <1>1, <1>3, <1>4, <1>9, <1>14, <1>19, <2>1, CopyFills
<1>23. TypeOK' /\ ShapeInv'
  <2>1. /\ status' \in {None, "ok", "error"}
        /\ caller' \in {"Wait", "Asleep", "Returned", "Thrown"}
    BY <1>1, <1>4 DEF TypeOK
  <2>2. /\ reader'.flags_pos < FlagSize /\ reader'.pos < request.len
        /\ ~reader'.overrun
    BY <1>6, <1>9, <1>16, <1>18
  <2>3. stream' \in Seq(Byte)
    BY <1>19, <1>21
  <2> QED BY <1>1, <1>18, <1>19, <1>21, <1>22, <2>1, <2>2, <2>3, ReaderTypes
<1>24. CallInv'
  BY <1>1, <1>4, <1>18, <1>19, CallGoesOn
<1>25. ServerInv(K)' /\ OutInv(K)'
  BY <1>3, <1>19, ServerAlone
<1>26. PICK total \in Nat, start \in Nat, size \in Nat :
         /\ total = BufferSize(request) /\ start = Start(request, k)
         /\ size = SizeOf(request, k)
  <2>1. Stride(request) \in Nat /\ SizeOf(request, k) \in 1 .. Stride(request)
    BY <1>5, <1>8, RequestFacts, Sizes
  <2> QED BY <1>5, <2>1
<1>27. /\ g + l + c = start + size /\ g >= start /\ br + l + g = total
  BY <1>9, <1>15, <1>26
<1>28. br + 0 + Got' = total
  BY <1>20, <1>27
<1>29. \E m \in Nat : ReaderInv(K, m)' /\ WireInv(K, m)'
  <2>1. CASE br = 0
    <3>1. /\ Got + reader.length = BufferSize(request)
          /\ Start(request, K) >= BufferSize(request)
          /\ ~server.failed /\ Len(part) = reader.length /\ stream = <<>>
      BY <1>1, <1>3, <1>4, <1>7, <2>1, NothingLeft
    <3>2. state = "End"
      BY <1>13, <2>1
    <3>3. part' = <<>>
      BY <1>7, <1>21, <3>1
    <3>4. Got' = BufferSize(request)
      BY <1>20, <1>27, <1>26, <2>1
    <3>5. reader'.buffer_remain + reader'.length + Got' = BufferSize(request)
      BY <1>7, <1>18, <1>26, <1>28
    <3>6. ReaderInv(K, k)'
      BY <1>9, <1>18, <1>19, <3>1, <3>2, <3>3, <3>4, <3>5 DEF ReaderInv
    <3>7. WireInv(K, k)'
      BY <1>18, <3>2 DEF WireInv
    <3> QED BY <3>6, <3>7
  <2>2. CASE br # 0 /\ c = 0
    <3>1. state = "ReadFlags"
      BY <1>13, <2>2
    <3>2. g + l = start + size /\ g + l < total
      BY <1>27, <2>2
    <3>3. g + l = Start(request, k + 1)
      BY <1>5, <1>8, <1>26, <3>2, Sizes
    <3>4. k + 1 \in Nat /\ k + 1 <= K
      BY <1>9
    <3>5. /\ reader'.buffer_remain + reader'.length + Got' = BufferSize(request)
          /\ Got' = Start(request, k + 1) /\ Got' < BufferSize(request)
      BY <1>7, <1>18, <1>20, <1>26, <1>28, <3>2, <3>3
    <3>6. ReaderInv(K, k + 1)'
      BY <1>9, <1>18, <1>19, <3>1, <3>4, <3>5 DEF ReaderInv
    <3>7. Place(k + 1)' = Place(k) + l
      <4>1. Place(k + 1)' = ChunkAt(request, k + 1) + 0
        BY <1>9, <1>18, <1>19, <3>1 DEF Place
      <4>2. PICK f \in Nat : f = (k + 1) * FlagSize
        BY <1>5, <3>4, Starts
      <4>3. ChunkAt(request, k + 1) = f + (g + l)
        BY <1>5, <3>3, <3>4, <4>2, Starts
      <4>4. Place(k) = f + g
        BY <1>4, <1>15, <4>2 DEF Place
      <4> QED BY <4>1, <4>3, <4>4
    <3>8. WireInv(K, k + 1)'
      <4>1. Place(k) \in Nat
        BY <1>1, PlaceNat
      <4> QED BY <1>1, <1>3, <1>4, <1>14, <1>21, <3>4, <3>7, <4>1, WireShift
    <3> QED BY <3>4, <3>6, <3>8
  <2>3. CASE br # 0 /\ c # 0
    <3>1. state = "ReadChunk"
      BY <1>13, <2>3
    <3>2. /\ reader'.buffer_remain + reader'.length + Got' = BufferSize(request)
          /\ Got' + reader'.length + reader'.chunk_remain
               = Start(request, k) + SizeOf(request, k)
          /\ Got' >= Start(request, k)
          /\ reader'.length + reader'.chunk_remain > 0
          /\ reader'.length <= Len(part')
      <4>1. reader'.length = 0 /\ reader'.chunk_remain = c /\ reader'.buffer_remain = br
        BY <1>7, <1>18
      <4>2. (g + l) + 0 + c = start + size /\ g + l >= start /\ 0 + c > 0
        BY <1>27, <2>3
      <4>3. 0 <= Len(part')
        BY <1>21
      <4> QED BY <1>20, <1>26, <1>28, <4>1, <4>2, <4>3
    <3>3. ReaderInv(K, k)'
      BY <1>9, <1>18, <1>19, <3>1, <3>2 DEF ReaderInv
    <3>4. Place(k)' = Place(k) + l
      <4>1. PICK f \in Nat : f = (k + 1) * FlagSize
        BY <1>5, Starts, ProductGrows
      <4>2. Place(k) = f + g
        BY <1>4, <1>15, <4>1 DEF Place
      <4>3. Place(k)' = f + (g + l)
        BY <1>18, <1>20, <3>1, <4>1 DEF Place
      <4> QED BY <4>2, <4>3
    <3>5. WireInv(K, k)'
      <4>1. Place(k) \in Nat
        BY <1>1, PlaceNat
      <4> QED BY <1>1, <1>3, <1>4, <1>14, <1>21, <3>4, <4>1, WireShift
    <3> QED BY <3>3, <3>5
  <2> QED BY <2>1, <2>2, <2>3
<1>30. \E m \in Nat : ResponseInv(K, m)'
  BY <1>25, <1>29 DEF ResponseInv
<1> QED BY <1>22, <1>23, <1>24, <1>30 DEF IInv

LEMMA StutterStep ==
  ASSUME IInv, UNCHANGED vars
  PROVE  IInv'
<1>1. TypeOK /\ ShapeInv /\ BuffersInv /\ CallInv
  BY DEF IInv
<1>2. PICK K \in Nat, k \in Nat : ResponseInv(K, k)
  BY DEF IInv
<1>3. TypeOK' /\ ShapeInv' /\ CallInv'
  BY <1>1 DEF vars, TypeOK, CopiesWithin, ShapeInv, CallInv
<1>4. Got' = Got /\ Place(k)' = Place(k)
  BY DEF vars, Got, Place
<1>5. BuffersInv'
  BY <1>1, <1>4 DEF vars, BuffersInv
<1>6. ServerInv(K) /\ OutInv(K) /\ ReaderInv(K, k) /\ WireInv(K, k)
  BY <1>2 DEF ResponseInv
<1>7. ServerInv(K)' /\ OutInv(K)'
  BY <1>6, ServerAlone DEF vars
<1>8. ReaderInv(K, k)' /\ WireInv(K, k)'
  BY <1>4, <1>6 DEF vars, ReaderInv, WireInv
<1> QED BY <1>3, <1>5, <1>7, <1>8 DEF IInv, ResponseInv

-----------------------------------------------------------------------------
(* The invariant is inductive: whatever the server, the connection, the    *)
(* reader and the caller do, in any order and in parts of any size, what   *)
(* has been sent, what is on its way and what has been copied are pieces   *)
(* of the one response that the request determines, which fit together.    *)
THEOREM Invariance ==
  ASSUME OneChunkEach
  PROVE  Spec => []IInv
<1>1. Init => IInv
  BY Initial
<1>2. IInv /\ [Next]_vars => IInv'
  <2> SUFFICES ASSUME IInv, [Next]_vars PROVE IInv'
    OBVIOUS
  <2>1. CASE Adjust
    BY <2>1, AdjustStep
  <2>2. CASE AdjustError
    BY <2>2, AdjustErrorStep
  <2>3. CASE SendChunk
    BY <2>3, SendChunkStep
  <2>4. CASE Close
    BY <2>4, CloseStep
  <2>5. CASE Break
    BY <2>5, BreakStep
  <2>6. ASSUME NEW n \in 1 .. Len(stream), OnReadOnePart(n) PROVE IInv'
    BY <2>6, OnReadOnePartStep
  <2>7. CASE CopyToFlags
    BY <2>7, CopyToFlagsStep
  <2>8. CASE CopyToBuffer
    BY <2>8, CopyToBufferStep
  <2>9. CASE CopyOnce
    BY <2>9, CopyOnceStep
  <2>10. CASE CopyToError
    BY <2>10, CopyToErrorStep
  <2>11. CASE PartDone
    BY <2>11, PartDoneStep
  <2>12. CASE OnEndOfMessage
    BY <2>12, OnEndOfMessageStep
  <2>13. CASE NotifyAll
    BY <2>13, NotifyAllStep
  <2>14. CASE Wait
    BY <2>14, WaitStep
  <2>15. CASE UNCHANGED vars
    BY <2>15, StutterStep
  <2> QED
    BY <2>1, <2>2, <2>3, <2>4, <2>5, <2>6, <2>7, <2>8, <2>9, <2>10, <2>11, <2>12,
       <2>13, <2>14, <2>15 DEF Next, ServerStep, ReaderStep
<1> QED BY <1>1, <1>2, PTL DEF Spec

(* The state is well typed, positions stay within their buffers, and the   *)
(* reader never copies more than has come (ProgressiveReader::CopyToBuffer *)
(* and CopyOnce in OnReadOnePart).                                         *)
THEOREM StaysWithin ==
  ASSUME OneChunkEach
  PROVE  Spec => []TypeOK
<1>1. IInv => TypeOK
  BY DEF IInv
<1> QED BY <1>1, Invariance, PTL

(* A call that returns has every byte of every correction in its place,    *)
(* whatever parts and chunks it came in: adjust[b] is for descs[b] (the    *)
(* order of the buffers in SendStreamData and in receive_buffers_).        *)
THEOREM CorrectionsInPlace ==
  ASSUME OneChunkEach
  PROVE  Spec => []AdjustsInPlace
<1>1. ASSUME IInv PROVE AdjustsInPlace
  <2> SUFFICES ASSUME caller = "Returned",
                      NEW b \in Bufs(request), NEW i \in 0 .. request.len - 1
               PROVE  buffers[b][i] = [buf |-> b, at |-> i]
    BY DEF AdjustsInPlace
  <2>1. TypeOK /\ ShapeInv /\ BuffersInv /\ CallInv
    BY <1>1 DEF IInv
  <2>2. PICK K \in Nat, k \in Nat : ReaderInv(K, k)
    BY <1>1 DEF IInv, ResponseInv
  <2>3. reader.state = "End" /\ ~reader.error
    BY <2>1 DEF CallInv
  <2>4. Got = BufferSize(request)
    BY <2>2, <2>3 DEF ReaderInv
  <2>5. request \in Requests
    BY <2>1 DEF TypeOK
  <2>6. PICK len \in Nat \ {0} : len = request.len
    BY <2>5, RequestFacts
  <2>7. b * len + i < Got
    <3>1. CASE request.kind = "truncpr"
      <4>1. b \in {0, 1} /\ BufferSize(request) = len + len
        BY <2>5, <2>6, <3>1, RequestFacts
      <4>2. 0 * len = 0 /\ 1 * len = len
        OBVIOUS
      <4> QED BY <2>4, <2>6, <4>1, <4>2
    <3>2. CASE request.kind # "truncpr"
      <4>1. b = 0 /\ BufferSize(request) = len
        BY <2>5, <2>6, <3>2, RequestFacts
      <4>2. 0 * len = 0
        OBVIOUS
      <4> QED BY <2>4, <2>6, <4>1, <4>2
    <3> QED BY <3>1, <3>2
  <2> QED BY <2>1, <2>6, <2>7 DEF BuffersInv
<1> QED BY <1>1, Invariance, PTL

(* A call only throws if the server has failed or the connection was lost: *)
(* the reader takes every whole response, however it is cut, for one       *)
(* (OnEndOfMessage and the checks of CopyToBuffer).                        *)
THEOREM WholeResponseAccepted ==
  ASSUME OneChunkEach
  PROVE  Spec => []ResponseAccepted
<1>1. IInv => ResponseAccepted
  BY DEF IInv, CallInv, ResponseAccepted
<1> QED BY <1>1, Invariance, PTL

(* Whoever sleeps has something to be woken by: the end of the response    *)
(* has not been reached, or has been and is about to be told (the test of  *)
(* read_status_ in Wait, under the lock in which OnEndOfMessage sets it).  *)
THEOREM NobodyIsForgotten ==
  ASSUME OneChunkEach
  PROVE  Spec => [](caller = "Asleep" => status = None \/ reader.call = "Ended")
<1>1. IInv => (caller = "Asleep" => status = None \/ reader.call = "Ended")
  BY DEF IInv, CallInv
<1> QED BY <1>1, Invariance, PTL
=============================================================================

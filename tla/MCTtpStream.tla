----------------------------- MODULE MCTtpStream -----------------------------
(***************************************************************************)
(* Chunks and prg blocks of four bytes, elements of two: a response has up *)
(* to three chunks, handed to the reader in every division into parts.     *)
(***************************************************************************)
EXTENDS TtpStream

Request(kind, len) == [kind |-> kind, len |-> len]

(* One correction over several chunks, the last one whole or not, one that *)
(* is computed at once, and two corrections of a chunk each.               *)
MCRequests ==
  {Request("mul", 10), Request("mul", 8), Request("dot", 6),
   Request("truncpr", 4), Request("truncpr", 2)}

(* Two corrections of two chunks each.                                     *)
MCChunkedPairs == {Request("truncpr", 6)}

MCSpec == Init /\ [][Next \/ Terminated]_vars /\ Fairness
=============================================================================

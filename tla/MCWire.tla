------------------------------- MODULE MCWire -------------------------------
(***************************************************************************)
(* Wire with 8-valued bytes, integers of two bytes and hashes, nonces and  *)
(* keys of one or two.  The contents are made of bytes that are sentinels  *)
(* too, lengths of zero and lengths that need both bytes of an integer.    *)
(***************************************************************************)
EXTENDS Wire

Repeat(n, b) == [i \in 1 .. n |-> b]

Request(path) == Message("WhatToDo", <<1, path>>)

Meta(name) == Message("Header", <<10, <<3, 6>>, name, 17>>)

Response(i, ciphertext) == Message("ChunkResponse", <<i, ciphertext, <<5>>, <<6, 7>>>>)

Reveal(i) == Message("KeyReveal", <<i, <<5, 3>>>>)

Root == Message("Root", << <<6, 1>> >>)

Ask(i) == Message("ChunkRequest", <<i>>)

Ticket(i) == Message("LotteryTicket", <<i>>)

Ack == Message("FinalAck", <<>>)

\* A POST as the receiver reads it, with and without a chunk; a GET's download;
\* a GET and a download as the sender reads them.
MCScripts ==
  { <<Request(p), Meta(n), Response(0, c), Reveal(0), Root>> :
      p \in {<<>>, <<1>>}, n \in {<<1>>, Repeat(10, 2)}, c \in {Repeat(2, 5)} }
    \cup { <<Request(<<1>>), Meta(<<>>)>>,
           <<Meta(<<3>>), Response(9, Repeat(9, 3)), Reveal(9), Root>>,
           <<Request(Repeat(9, 1)), Ask(0), Ticket(0), Ask(9), Ticket(9), Ack>>,
           <<Ask(1), Ticket(1), Ack>> }
=============================================================================

------------------------------ MODULE Framing ------------------------------
(***************************************************************************)
(* WebSocket frames: the header in bytes; of the payload only the length    *)
(* matters, and that its bytes are letters.  Lengths are joined and added   *)
(* in a size_t.                                                             *)
(***************************************************************************)
EXTENDS Integers, Sequences

CONSTANTS
  SizeLimit  \* 2^w for the width w of size_t

ASSUME SizeAssumption == SizeLimit \in Nat /\ SizeLimit >= 256

NoNumber == -(2^30)        \* no number: std::nullopt, or false

Letter == 97

(* The last bytes of a length, from the low end, and what is above the last two. *)
Low(n) == n % 256
High(n) == (n \div 256) % 256
Above(n) == n \div 65536

(* WebSocketClient::sendMessage() *)
ClientHeader(n) ==
  LET a == Above(n)
      b == Above(a)
      c == Above(b)
  IN IF n <= 125 THEN <<129, n>>
     ELSE IF n <= 65535 THEN <<129, 126, High(n), Low(n)>>
     ELSE <<129, 127, High(c), Low(c), High(b), Low(b), High(a), Low(a), High(n), Low(n)>>

(* The header another client, which masks, writes for n bytes. *)
MaskedHeader(n) == [ClientHeader(n) EXCEPT ![2] = @ + 128] \o <<11, 22, 33, 44>>

(* WebSocket::send() *)
ServerHeader(n) ==
  IF n < 126 THEN <<129, n>>
  ELSE IF n <= 65535 THEN <<129, 126, High(n), Low(n)>> ELSE <<129, 127>>

(* The two or eight bytes after the second, as a number; what follows a header
   is its payload. *)
Join(n, byte) == (n * 256 + byte) % SizeLimit

ExtendedLength(header, extended) ==
  LET byte(i) == IF i <= Len(header) THEN header[i] ELSE Letter
      two == Join(byte(3), byte(4))
      four == Join(Join(two, byte(5)), byte(6))
      six == Join(Join(four, byte(7)), byte(8))
  IN IF extended = 2 THEN two ELSE Join(Join(six, byte(9)), byte(10))

MaskSize(header) == IF header[2] >= 128 THEN 4 ELSE 0

(* WebSocket::readFrame() on the first size bytes of a frame, or more: the
   length of the payload, or NoNumber.  (After a sum that wraps resize() throws.) *)
readFrame(header, size) ==
  LET short == header[2] % 128
      extended == CASE short = 126 -> 2 [] short = 127 -> 8 [] OTHER -> 0
      start == 2 + extended + MaskSize(header)
      length == IF extended = 0 THEN short ELSE ExtendedLength(header, extended)
  IN IF size < 2 \/ header[1] % 16 = 8 THEN NoNumber
     ELSE IF size < start \/ size < (start + length) % SizeLimit THEN NoNumber ELSE length

=============================================================================

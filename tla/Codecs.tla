------------------------------- MODULE Codecs -------------------------------
(***************************************************************************)
(* The encodings and formats that the server, its clients and its users    *)
(* exchange, as operators on sequences of characters: chunk sizes and       *)
(* chunked bodies, Base64, URLs and query strings, log formats, settings    *)
(* and the responses a handler builds; with the frames of Framing.          *)
(***************************************************************************)
EXTENDS Framing, SequencesExt

Nothing == <<"nothing">>   \* no text: std::unexpected

(* std::string::find(): the first place of pattern at or after from, or 0. *)
Find(s, pattern, from) ==
  LET places == {i \in from..Len(s) - Len(pattern) + 1 :
                   SubSeq(s, i, i + Len(pattern) - 1) = pattern}
  IN IF places = {} THEN 0 ELSE CHOOSE i \in places : \A j \in places : i <= j

From(s, i) == SubSeq(s, i, Len(s))
Upto(s, i) == SubSeq(s, 1, i)

-----------------------------------------------------------------------------
(* utils::parseHexSize() and utils::fromIntToHex(). *)

HexDigits == <<"0", "1", "2", "3", "4", "5", "6", "7", "8", "9", "a", "b", "c", "d", "e", "f">>
Capitals == <<"A", "B", "C", "D", "E", "F">>

IsHex(c) == c \in ToSet(HexDigits) \cup ToSet(Capitals)

Digit(c) ==
  IF c \in ToSet(Capitals)
  THEN 9 + CHOOSE i \in DOMAIN Capitals : Capitals[i] = c
  ELSE (CHOOSE i \in DOMAIN HexDigits : HexDigits[i] = c) - 1

(* The size, or NoNumber; no digit at all is a size of 0, and a long number
   loses its first digits. *)
parseHexSize(s) ==
  IF \A i \in DOMAIN s : IsHex(s[i])
  THEN FoldLeft(LAMBDA out, c : (out * 16 + Digit(c)) % SizeLimit, 0, s)
  ELSE NoNumber

RECURSIVE fromIntToHex(_)
fromIntToHex(n) ==
  (IF n >= 16 THEN fromIntToHex(n \div 16) ELSE <<>>) \o <<HexDigits[(n % 16) + 1]>>

-----------------------------------------------------------------------------
(* BaseClient::parseChunkedBody(): result is what has been decoded before
   position pos of body.  (Where the end of a chunk wraps, pos may go back and the
   recursion need not end.) *)

CrLf == <<"CR", "LF">>

ChunkFits(body, start, size) == (start - 1 + size) % SizeLimit <= Len(body)

RECURSIVE parseChunks(_, _, _)
parseChunks(body, pos, result) ==
  LET end == Find(body, CrLf, pos)
      size == parseHexSize(SubSeq(body, pos, end - 1))
      start == end + 2
  IN IF pos > Len(body) THEN result
     ELSE IF end = 0 \/ size = NoNumber THEN Nothing
     ELSE IF size = 0 THEN result
     ELSE IF ~ChunkFits(body, start, size) THEN Nothing
     ELSE parseChunks(body, ((start + size + 1) % SizeLimit) + 1,
                      result \o SubSeq(body, start, start + size - 1))

parseChunkedBody(body) == parseChunks(body, 1, <<>>)

-----------------------------------------------------------------------------
(* utils::base64_encode(): 64 stands for the padding. *)

Base64Byte(acc, c) ==
  LET val == (acc.val * 256 + c) % 65536
      bits == acc.valb + 8
      count == bits \div 6 + 1
  IN [val |-> val,
      valb |-> bits - 6 * count,
      out |-> acc.out \o [j \in 1..count |-> (val \div 2^(bits - 6 * (j - 1))) % 64]]

base64_encode(input) ==
  LET acc == FoldLeft(Base64Byte, [val |-> 0, valb |-> -6, out |-> <<>>], input)
      out == IF acc.valb > -6
             THEN Append(acc.out, ((acc.val * 256) \div 2^(acc.valb + 8)) % 64) ELSE acc.out
  IN out \o [i \in 1..(4 - (Len(out) % 4)) % 4 |-> 64]

-----------------------------------------------------------------------------
(* utils::urlDecode() and Request::parseQueryString().  A byte that is no
   letter of the models is its code. *)

Char(code) ==
  CASE code = 32 -> " " [] code = 37 -> "%" [] code = 38 -> "&" [] code = 61 -> "="
    [] OTHER -> code

(* strtol(): the digits up to the first character that is none. *)
Strtol(hex) ==
  IF ~IsHex(hex[1]) THEN 0
  ELSE IF ~IsHex(hex[2]) THEN Digit(hex[1]) ELSE 16 * Digit(hex[1]) + Digit(hex[2])

RECURSIVE urlDecode(_)
urlDecode(s) ==
  IF s = <<>> THEN <<>>
  ELSE IF s[1] = "%" /\ Len(s) > 2 THEN <<Char(Strtol(SubSeq(s, 2, 3)))>> \o urlDecode(From(s, 4))
  ELSE <<IF s[1] = "+" THEN " " ELSE s[1]>> \o urlDecode(Tail(s))

(* Mutant: the first = counts, even of a later pair. *)
SplitAnywhere(pair, rest) == Find(pair \o rest, <<"=">>, 1)

(* Where the pair that rest follows is split, or 0. *)
SplitAt(pair, rest) ==
  LET equals == Find(pair \o rest, <<"=">>, 1) IN IF equals <= Len(pair) THEN equals ELSE 0

(* The pairs in the order in which they are stored. *)
RECURSIVE parseQueryString(_)
parseQueryString(s) ==
  IF s = <<>> THEN <<>>
  ELSE LET found == Find(s, <<"&">>, 1)
           end == IF found = 0 THEN Len(s) + 1 ELSE found
           pair == Upto(s, end - 1)
           equals == SplitAt(pair, From(s, end))
           key == IF equals = 0 THEN pair ELSE Upto(s, equals - 1)
           value == IF equals = 0 THEN <<>> ELSE SubSeq(s, equals + 1, end - 1)
       IN << <<urlDecode(key), urlDecode(value)>> >> \o parseQueryString(From(s, end + 1))

-----------------------------------------------------------------------------
(* utils::getEnv<int>(): the value of a setting, or the default. *)

Decimal(c) == c \in ToSet(Upto(HexDigits, 10))
DecimalValue(s) == FoldLeft(LAMBDA n, c : n * 10 + Digit(c), 0, s)

getEnv(s, default) ==
  LET negative == s # <<>> /\ s[1] = "-"
      digits == IF negative THEN Tail(s) ELSE s
  IN IF s = <<>> \/ \E i \in DOMAIN digits : ~Decimal(digits[i]) THEN default
     ELSE IF negative THEN -DecimalValue(digits) ELSE DecimalValue(digits)

-----------------------------------------------------------------------------
(* ClientFactory::createClient(): the client, the host and the port of a URL.  The
   protocol chooses the default port only. *)

(* std::from_chars() on the whole of s. *)
parsePort(s) ==
  LET digits == IF s # <<>> /\ s[1] = "-" THEN Tail(s) ELSE s
  IN IF digits = <<>> \/ \E i \in DOMAIN digits : ~Decimal(digits[i])
     THEN NoNumber ELSE getEnv(s, 0)

Scheme == <<":", "/", "/">>
Https == <<"h", "t", "t", "p", "s">>

(* Without a scheme, npos + 3 is 2. *)
Remaining(url) ==
  LET end == Find(url, Scheme, 1) IN IF end = 0 THEN From(url, 3) ELSE From(url, end + 3)

(* Mutant: the port goes on to the end of the URL. *)
PortEndNone(rest, colon) == Len(rest) + 1

PortEnd(rest, colon) ==
  LET slash == Find(rest, <<"/">>, colon + 1) IN IF slash = 0 THEN Len(rest) + 1 ELSE slash

createClient(url) ==
  LET rest == Remaining(url)
      ends == {i \in DOMAIN rest : rest[i] \in {":", "/"}}
      end == IF ends = {} THEN Len(rest) + 1 ELSE CHOOSE i \in ends : \A j \in ends : i <= j
      port == IF end <= Len(rest) /\ rest[end] = ":"
              THEN SubSeq(rest, end + 1, PortEnd(rest, end) - 1) ELSE <<>>
      https == Upto(url, Find(url, Scheme, 1) - 1) = Https
  IN [client |-> "HttpClient",
      host |-> Upto(rest, end - 1),
      port |-> IF port = <<>> THEN IF https THEN 443 ELSE 80
               ELSE IF parsePort(port) = NoNumber THEN 80 ELSE parsePort(port)]

-----------------------------------------------------------------------------
(* Logger::Format(): "{}" is one character here. *)

ReplaceFirst(text, arg) ==
  LET place == Find(text, <<"{}">>, 1)
  IN IF place = 0 THEN text ELSE Upto(text, place - 1) \o arg \o From(text, place + 1)

Format(fmt, args) == FoldLeft(ReplaceFirst, fmt, args)

-----------------------------------------------------------------------------
(* A Response: what its headers say of the length, the length of its content,
   and the messages that were built of it. *)

NewResponse == [length |-> NoNumber, content |-> 0, built |-> <<>>]

(* Response::build(); "Content-Length" stays in the headers. *)
build(res, chunked) ==
  LET length == IF chunked \/ res.length # NoNumber THEN res.length ELSE res.content
  IN IF res.content = 0 THEN res
     ELSE [res EXCEPT !.length = length,
                      !.built = Append(@, [length |-> length, body |-> res.content])]

setContent(res, n) == [res EXCEPT !.content = n]

(* What a handler, and the server after it, do with a Response. *)
Perform(res, op) ==
  CASE op = "write"  -> [res EXCEPT !.content = @ + 1]
    [] op = "set"    -> setContent(res, 2)
    [] op = "clear"  -> setContent(res, 0)
    [] op = "length" -> [res EXCEPT !.length = 2]
    [] op = "stream" -> build(setContent(res, 1), TRUE)
    [] op = "build"  -> build(res, FALSE)

=============================================================================

------------------------------ MODULE MCCodecs ------------------------------
(***************************************************************************)
(* Bounded inputs for the operators of Codecs, one subject at a time: the   *)
(* input grows symbol by symbol, and the properties compare what the code's *)
(* operators make of it with what it stands for.                           *)
(***************************************************************************)
EXTENDS Codecs

CONSTANT MaxLength  \* bound: symbols of an input

VARIABLES subject, input

(* Chunks of data; lengths of messages; bytes; characters with a meaning of
   their own; characters of a URL, a setting, a format; calls of a Response. *)
Symbols ==
  [chunks   |-> {<<"x">>, <<"0">> \o CrLf, CrLf, [i \in 1..16 |-> "x"]},
   frame    |-> {0, 1, 125, 126, 127, 65535, 65536},
   base64   |-> {0, 77, 255},
   hex      |-> {"0", "1", "f", "F", "g"},
   query    |-> {<<"a">>, <<"+">>, <<"%", "2", "5">>, <<"%", "3", "D">>, <<"&">>, <<"=">>},
   url      |-> {Https, <<"h", "t", "t", "p">>, Scheme, <<"h">>, <<":">>, <<"8">>, <<"/">>},
   setting  |-> {"-", "0", "7", "x"},
   format   |-> {"a", "{}"},
   response |-> {"write", "set", "clear", "length", "stream", "build"}]

Init == subject \in DOMAIN Symbols /\ input = <<>>

(* The lengths of two messages are enough. *)
Grow ==
  /\ Len(input) < IF subject = "frame" THEN 1 ELSE MaxLength
  /\ \E s \in Symbols[subject] : input' = Append(input, s)
  /\ UNCHANGED subject

Spec == Init /\ [][Grow]_<<subject, input>>

-----------------------------------------------------------------------------
(* What the inputs stand for. *)

Chunk(data) == fromIntToHex(Len(data)) \o CrLf \o data \o CrLf
Chunked == FlattenSeq([i \in DOMAIN input |-> Chunk(input[i])]) \o <<"0">> \o CrLf \o CrLf

(* The same with the sizes written beyond the width of size_t. *)
WrappedChunk(data) == fromIntToHex(SizeLimit + Len(data)) \o CrLf \o data \o CrLf
Wrapped == FlattenSeq([i \in DOMAIN input |-> WrappedChunk(input[i])]) \o <<"0">> \o CrLf \o CrLf

(* A body cut anywhere is refused, or decoded to a number of whole chunks; a
   whole one is decoded.  Of a size beyond the width only the last digits count. *)
ChunksHonest ==
  /\ parseChunkedBody(Chunked) = FlattenSeq(input)
  /\ parseChunkedBody(Wrapped) = FlattenSeq(input)
  /\ \A n \in 0..Len(Chunked) - 1 :
       parseChunkedBody(Upto(Chunked, n))
         \in {Nothing} \cup {FlattenSeq(Upto(input, k)) : k \in 0..Len(input)}

(* A number that fits is read; of a longer one the last digits count. *)
HexRead ==
  LET value == FoldLeft(LAMBDA n, c : n * 16 + Digit(c), 0, input) IN
  IF \E i \in DOMAIN input : ~IsHex(input[i]) THEN parseHexSize(input) = NoNumber
  ELSE /\ parseHexSize(input) = value % SizeLimit
       /\ value < SizeLimit => parseHexSize(fromIntToHex(value)) = value

(* A frame is read if it is there to its end, whatever follows it, and refused
   if it is cut.  The frames of WebSocket::send() up to 65535 bytes are read. *)
FramesRead ==
  \A n \in ToSet(input) :
    /\ \A header \in {ClientHeader(n), MaskedHeader(n)} :
         LET whole == Len(header) + n IN
         /\ \A size \in {whole, whole + 5} : readFrame(header, size) = n
         /\ \A size \in 0..14 \cup {whole - 1} : size < whole => readFrame(header, size) = NoNumber
    /\ n <= 65535 <=> readFrame(ServerHeader(n), Len(ServerHeader(n)) + n) = n

(* Every four characters stand for three bytes, less one for each padding. *)
Base64Meaning(code) ==
  LET value(i) == IF code[i] = 64 THEN 0 ELSE code[i]
      group(g) == ((value(4*g-3) * 64 + value(4*g-2)) * 64 + value(4*g-1)) * 64 + value(4*g)
      bytes == FlattenSeq([g \in 1..Len(code) \div 4 |->
                 <<group(g) \div 65536, (group(g) \div 256) % 256, group(g) % 256>>])
  IN Upto(bytes, Len(bytes) - Len(SelectSeq(code, LAMBDA c : c = 64)))

Base64Back ==
  /\ Len(base64_encode(input)) % 4 = 0
  /\ Base64Meaning(base64_encode(input)) = input

(* A query is pairs between & symbols, of a key and a value around the first =
   symbol; an empty last pair is none. *)
Meaning(symbols) ==
  [i \in DOMAIN symbols |->
     CASE symbols[i] = <<"+">> -> " " [] symbols[i] = <<"%", "2", "5">> -> "%"
       [] symbols[i] = <<"%", "3", "D">> -> "=" [] OTHER -> symbols[i][1]]

Pair(symbols) ==
  LET equals == Find(symbols, <<(<<"=">>)>>, 1)
  IN IF equals = 0 THEN <<Meaning(symbols), <<>>>>
     ELSE <<Meaning(Upto(symbols, equals - 1)), Meaning(From(symbols, equals + 1))>>

Ampersands == {i \in DOMAIN input : input[i] = <<"&">>}
Pairs ==
  LET starts == SetToSortSeq({0} \cup Ampersands, LAMBDA i, j : i < j)
      ends == [i \in DOMAIN starts |->
                 IF i < Len(starts) THEN starts[i + 1] ELSE Len(input) + 1]
      all == [i \in DOMAIN starts |-> Pair(SubSeq(input, starts[i] + 1, ends[i] - 1))]
  IN IF starts[Len(starts)] = Len(input) THEN Upto(all, Len(all) - 1) ELSE all

QueryRead == parseQueryString(FlattenSeq(input)) = Pairs

(* A URL of a scheme, a host, perhaps a port, perhaps a path.  (Its host
   and port only: the client that is made of it is an HttpClient whatever the scheme,
   client.h:565, where client.h:505-506 says that it depends on it.) *)
IsUrl(host, port, path) ==
  /\ host # <<>> /\ ToSet(host) \subseteq {<<"h">>}
  /\ port # <<>> => port[1] = <<":">> /\ Len(port) > 1 /\ ToSet(Tail(port)) \subseteq {<<"8">>}
  /\ path # <<>> => path[1] = <<"/">>

UrlRead ==
  Len(input) > 2 /\ input[1] \in {Https, <<"h", "t", "t", "p">>} /\ input[2] = Scheme =>
    \A i \in 3..Len(input) : \A j \in i..Len(input) :
      LET host == SubSeq(input, 3, i)
          port == SubSeq(input, i + 1, j)
          path == From(input, j + 1)
          made == createClient(FlattenSeq(input))
      IN IsUrl(host, port, path) =>
           /\ made.host = FlattenSeq(host)
           /\ made.port = IF port = <<>> THEN IF input[1] = Https THEN 443 ELSE 80
                          ELSE DecimalValue(FlattenSeq(Tail(port)))

(* A whole number is the setting's value, all else is the default, but a lone minus
   sign, which is 0 where utils.h:77-78 promises the default. *)
SettingRead ==
  LET digits == IF input # <<>> /\ input[1] = "-" THEN Tail(input) ELSE input
      number == digits # <<>> /\ \A i \in DOMAIN digits : Decimal(digits[i])
      value == DecimalValue(digits)
  IN input # <<"-">> =>
       getEnv(input, 5) = IF ~number THEN 5 ELSE IF digits = input THEN value ELSE -value

(* The k-th placeholder is replaced by the k-th argument, as long as no argument
   contains a placeholder itself. *)
FormatFilled ==
  LET holes(i) == Len(SelectSeq(Upto(input, i), LAMBDA c : c = "{}")) IN
  \A args \in BoundedSeq({<<"x">>, <<"y", "y">>}, 2) :
    Format(input, args) =
      FlattenSeq([i \in DOMAIN input |->
        IF input[i] = "{}" /\ holes(i) <= Len(args) THEN args[holes(i)] ELSE <<input[i]>>])

(* Unless the handler has set the header itself, every message declares the length of
   the body of the first message that was built with a length, which is its own if
   the Response is built once; events built before it declare none. *)
LengthTrue ==
  LET after(i) == FoldLeft(Perform, NewResponse, Upto(input, i)).built
      built == after(Len(input))
      call(k) == CHOOSE i \in DOMAIN input : Len(after(i)) = k /\ Len(after(i - 1)) = k - 1
      counted == {k \in DOMAIN built : input[call(k)] = "build"}
      own == \E i \in DOMAIN input : input[i] = "length"
  IN ~own => \A k \in DOMAIN built :
       LET before == {j \in counted : j <= k} IN
       built[k].length = IF before = {} THEN NoNumber
                         ELSE built[CHOOSE j \in before : \A l \in before : j <= l].body

-----------------------------------------------------------------------------
(* What one side encodes is what the other decodes, or it is refused: chunked
   bodies, chunk sizes, frames, Base64 and query strings (utils.cc, client.cc:138,
   websocket.cc:7, request.cc:73). *)
EncodedComesBack ==
  CASE subject = "chunks" -> ChunksHonest
    [] subject = "hex"    -> HexRead
    [] subject = "frame"  -> FramesRead
    [] subject = "base64" -> Base64Back
    [] subject = "query"  -> QueryRead
    [] OTHER -> TRUE

(* What a program says is what is done: the host and port of its URL, its
   settings, the arguments of a log line and the lengths of the messages built of a
   response, however often it is changed and built again (client.h:515,
   utils.h:93, logger.h:247, response.cc:48). *)
SaidIsDone ==
  CASE subject = "url"      -> UrlRead
    [] subject = "setting"  -> SettingRead
    [] subject = "format"   -> FormatFilled
    [] subject = "response" -> LengthTrue
    [] OTHER -> TRUE

=============================================================================

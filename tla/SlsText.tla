------------------------------- MODULE SlsText -------------------------------
(***************************************************************************)
(* The text conversions of the client: urlEncode and base64Encode          *)
(* (sls_crypto.cpp), jsonEscape and extractJsonString (sls_client.cpp). A  *)
(* string is a sequence of bytes, 0 .. 255. Each conversion is compared,   *)
(* on every short string over Byte, with a reader written from the format. *)
(***************************************************************************)
EXTENDS Integers, SequencesExt

CONSTANTS
  Byte,   \* the bytes strings are made of
  MaxLen  \* bound: the length of a string

ASSUME TextAssumption == Byte \subseteq 0 .. 255 /\ MaxLen \in Nat

VARIABLES input

StringInit == input = <<>>

AddByte ==
  /\ Len(input) < MaxLen
  /\ \E b \in Byte : input' = Append(input, b)

StringSpec == StringInit /\ [][AddByte]_input

\* A reader goes through a string from its first byte on. reading[i] is what it finds at
\* position i: a byte and over how many positions it was written, or width 0 where it
\* stops; running off the end gives rest.
Read(reading, rest) ==
  LET from[i \in 1 .. Len(reading) + 1] ==
        IF i > Len(reading) THEN rest
        ELSE IF reading[i].width = 0 THEN <<>>
        ELSE <<reading[i].byte>> \o from[i + reading[i].width]
  IN  from[1]

Stop == [byte |-> 256, width |-> 0]
Malformed == [byte |-> 256, width |-> 1]

Quote == 34
Backslash == 92
Colon == 58

-----------------------------------------------------------------------------
(* Percent encoding.                                                       *)

Digit(d, letters) == IF d < 10 THEN 48 + d ELSE letters + d - 10
Upper == 65
Lower == 97

Unreserved == (48 .. 57) \cup (65 .. 90) \cup (97 .. 122) \cup {45, 95, 46, 126}

UrlByte(b) ==
  IF b \in Unreserved THEN <<b>> ELSE <<37, Digit(b \div 16, Upper), Digit(b % 16, Upper)>>

UrlEncode(s) == FlattenSeq([i \in DOMAIN s |-> UrlByte(s[i])])

HexValue(digit) ==
  CASE digit \in 48 .. 57 -> digit - 48
    [] digit \in 65 .. 70 -> digit - 55
    [] digit \in 97 .. 102 -> digit - 87
    [] OTHER -> 256

UrlDecode(s) ==
  Read([i \in DOMAIN s |->
          CASE s[i] # 37 -> [byte |-> s[i], width |-> 1]
            [] s[i] = 37 /\ i + 2 <= Len(s) ->
                 [byte |-> 16 * HexValue(s[i + 1]) + HexValue(s[i + 2]), width |-> 3]
            [] OTHER -> Malformed],
       <<>>)

-----------------------------------------------------------------------------
(* Base64; a digit of the alphabet is its number, 64 is "=".               *)

\* Mutant of Padding: never two.
PaddingOne(i, len) == IF i + 1 > len THEN 1 ELSE 0

\* How many of a group's three octets are missing, the first being octet i.
Padding(i, len) == IF i + 1 > len THEN 2 ELSE IF i + 2 > len THEN 1 ELSE 0

Octet(s, i) == IF i <= Len(s) THEN s[i] ELSE 0

\* The digits of the group that starts with octet i.
Group(s, i) ==
  LET triple == 65536 * Octet(s, i) + 256 * Octet(s, i + 1) + Octet(s, i + 2)
      digits == <<triple \div 262144, (triple \div 4096) % 64, (triple \div 64) % 64, triple % 64>>
  IN  [k \in 1 .. 4 |-> IF k > 4 - Padding(i, Len(s)) THEN 64 ELSE digits[k]]

\* Four digits for every three octets begun.
Base64Encode(s) ==
  [n \in 1 .. 4 * ((Len(s) + 2) \div 3) |-> Group(s, 1 + 3 * ((n - 1) \div 4))[((n - 1) % 4) + 1]]

\* The octets of the digits d[i] .. d[i + 3]: how many there are, and the bits that are
\* over have to be 0.
Octets(d, i) ==
  LET first  == 4 * d[i] + (d[i + 1] \div 16)
      second == 16 * (d[i + 1] % 16) + (d[i + 2] \div 4)
      third  == 64 * (d[i + 2] % 4) + d[i + 3]
  IN  IF d[i + 2] = 64 THEN (IF d[i + 1] % 16 = 0 /\ d[i + 3] = 64 THEN <<first>> ELSE <<256>>)
      ELSE IF d[i + 3] = 64 THEN (IF d[i + 2] % 4 = 0 THEN <<first, second>> ELSE <<256>>)
      ELSE <<first, second, third>>

Base64Decode(d) == FlattenSeq([g \in 1 .. Len(d) \div 4 |-> Octets(d, 4 * g - 3)])

-----------------------------------------------------------------------------
(* JSON.                                                                   *)

\* \b, \t, \n, \f and \r
Short ==
  [b \in {8, 9, 10, 12, 13} |->
     CASE b = 8 -> 98 [] b = 9 -> 116 [] b = 10 -> 110 [] b = 12 -> 102 [] b = 13 -> 114]

JsonByte(b) ==
  CASE b \in {Quote, Backslash} -> <<Backslash, b>>
    [] b \in DOMAIN Short -> <<Backslash, Short[b]>>
    [] b < 32 /\ b \notin DOMAIN Short ->
         <<Backslash, 117, 48, 48, Digit(b \div 16, Lower), Digit(b % 16, Lower)>>
    [] OTHER -> <<b>>

JsonEscape(s) == FlattenSeq([i \in DOMAIN s |-> JsonByte(s[i])])

\* The contents of the JSON string that starts s, up to its closing quote.
JsonRead(s) ==
  Read([i \in DOMAIN s |->
          CASE s[i] = Quote -> Stop
            [] s[i] \notin {Quote, Backslash} -> [byte |-> s[i], width |-> 1]
            [] s[i] = Backslash /\ i < Len(s) /\ s[i + 1] \in {Quote, Backslash} ->
                 [byte |-> s[i + 1], width |-> 2]
            [] s[i] = Backslash /\ i < Len(s) /\ \E b \in DOMAIN Short : Short[b] = s[i + 1] ->
                 [byte |-> CHOOSE b \in DOMAIN Short : Short[b] = s[i + 1], width |-> 2]
            [] s[i] = Backslash /\ i + 5 <= Len(s) /\ s[i + 1] = 117 ->
                 [byte |-> 4096 * HexValue(s[i + 2]) + 256 * HexValue(s[i + 3])
                           + 16 * HexValue(s[i + 4]) + HexValue(s[i + 5]), width |-> 6]
            [] OTHER -> Malformed],
       <<256>>)

Quoted(s) == <<Quote>> \o s \o <<Quote>>

\* The position after the first occurrence of pattern in body from a position on,
\* 0 without one.
After(body, pattern, from) ==
  IF from = 0 THEN 0
  ELSE LET at == {i \in from .. Len(body) - Len(pattern) + 1 :
                    SubSeq(body, i, i + Len(pattern) - 1) = pattern}
       IN  IF at = {} THEN 0 ELSE Len(pattern) + CHOOSE i \in at : \A j \in at : i <= j

\* Mutant of Copied: every quote ends the value.
CopiedToQuote(s) ==
  Read([i \in DOMAIN s |-> IF s[i] = Quote THEN Stop ELSE [byte |-> s[i], width |-> 1]], <<>>)

\* The value up to its end: a backslash only stands for the byte after it.
Copied(s) ==
  Read([i \in DOMAIN s |->
          CASE s[i] = Quote \/ (s[i] = Backslash /\ i = Len(s)) -> Stop
            [] s[i] = Backslash /\ i < Len(s) -> [byte |-> s[i + 1], width |-> 2]
            [] OTHER -> [byte |-> s[i], width |-> 1]],
       <<>>)

\* extractJsonString
ExtractJsonString(body, key) ==
  LET begin == After(body, <<Quote>>, After(body, <<Colon>>, After(body, Quoted(key), 1)))
  IN  IF begin = 0 THEN <<>> ELSE Copied(SubSeq(body, begin, Len(body)))

-----------------------------------------------------------------------------

\* A project, logstore or hash key goes into a path or a query as one component:
\* nothing in it ends the component, and the service reads it back.
UrlReadsBack ==
  /\ Range(UrlEncode(input)) \subseteq Unreserved \cup {37}
  /\ UrlDecode(UrlEncode(input)) = input

\* The signature's digits are padded to a multiple of four, and are read back as the
\* digest they stand for.
Base64ReadsBack ==
  /\ Len(Base64Encode(input)) % 4 = 0
  /\ Base64Decode(Base64Encode(input)) = input

\* A project's name and description arrive as they were configured.
JsonReadsBack == JsonRead(JsonEscape(input) \o <<Quote>>) = input

\* What each encoder writes is read back as what it was given.
EncodersReadBack == UrlReadsBack /\ Base64ReadsBack /\ JsonReadsBack

\* An error answer, with the keys "m" and "c".
Error(message, code) ==
  <<123>> \o Quoted(<<109>>) \o <<Colon>> \o Quoted(message) \o <<44>>
          \o Quoted(<<99>>) \o <<Colon>> \o Quoted(code) \o <<125>>

\* Whatever the message of an error says, quotes and the other key's name
\* included, the search for the code finds the code, and the message is read
\* back if it has no control characters.
ExtractReadsBack ==
  LET body == Error(JsonEscape(input), <<88>>)
  IN  /\ ExtractJsonString(body, <<99>>) = <<88>>
      /\ (\A i \in DOMAIN input : input[i] >= 32) => ExtractJsonString(body, <<109>>) = input

=============================================================================

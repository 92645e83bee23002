-------------------------------- MODULE Convert --------------------------------
(***************************************************************************)
(* The codecs of src/convert.cpp: hexadecimal, Base64 and its URL form.    *)
(* The functions are pure; the state is a caller's: it encodes bytes in a  *)
(* buffer with some room, tries again with the size it is told if the room *)
(* is too small, and decodes the text, or another one, the same way.       *)
(* Characters are their codes.                                             *)
(***************************************************************************)
EXTENDS Integers, Sequences, FiniteSets

CONSTANTS
  Octets,     \* the values of a byte to encode
  MaxOctets,  \* bound: bytes to encode
  Strange     \* the characters that get into a text

ASSUME ConvertConstants ==
  Octets \subseteq 0 .. 255 /\ MaxOctets \in Nat /\ Strange \subseteq 0 .. 255

VARIABLE
  job         \* what the caller has and has been told, see NewJob

Forms == {"hex", "b64", "url"}
Pad == 61
IsBlank(c) == c \in {32, 9, 13, 10}

NewJob(form, data) ==
  [form |-> form, data |-> data, text |-> <<>>, out |-> <<>>,
   room |-> 0,          \* *destLen on entry of the last call
   size |-> 0,          \* and on its return
   written |-> 0,       \* how much of the buffer it has written, if it succeeded
   changed |-> FALSE,   \* whether the text is another than was encoded
   phase |-> "data"]

ConvertInit ==
  \E form \in Forms, data \in UNION {[1 .. n -> Octets] : n \in 0 .. MaxOctets} :
    job = NewJob(form, data)

-----------------------------------------------------------------------------
(* Defective variants of definitions below, for the sensitivity checks. *)

TrailingNul_Always(room, len) == 1      \* lines 38 and 143 without the test

-----------------------------------------------------------------------------
(* Hexadecimal *)

hexaChars(v) == IF v < 10 THEN 48 + v ELSE 55 + v

ToHex(s) ==
  [i \in 1 .. 2 * Len(s) |->
     hexaChars(IF i % 2 = 1 THEN s[(i + 1) \div 2] \div 16 ELSE s[i \div 2] % 16)]

HexDigit(c) ==
  CASE c \in 48 .. 57  -> c - 48
    [] c \in 65 .. 70  -> c - 55
    [] c \in 97 .. 102 -> c - 87
    [] OTHER           -> -1

FromHex(t) == [i \in 1 .. Len(t) \div 2 |-> 16 * HexDigit(t[2 * i - 1]) + HexDigit(t[2 * i])]

-----------------------------------------------------------------------------
(* Base64 *)

b64EncodeChar(v, isUrl) ==
  CASE v < 26  -> 65 + v
    [] v \in 26 .. 51 -> 97 + (v - 26)
    [] v \in 52 .. 61 -> 48 + (v - 52)
    [] v = 62  -> IF isUrl THEN 45 ELSE 43
    [] OTHER   -> IF isUrl THEN 95 ELSE 47

b64DecodeChar(c, isUrl) ==
  CASE c \in 65 .. 90  -> c - 65
    [] c \in 97 .. 122 -> 26 + (c - 97)
    [] c \in 48 .. 57  -> 52 + (c - 48)
    [] c = (IF isUrl THEN 45 ELSE 43) -> 62
    [] c = (IF isUrl THEN 95 ELSE 47) -> 63
    [] OTHER -> -1

\* What toB64 asks for: with padding a whole number of quartets.
RequiredLen(n, isUrl) ==
  IF isUrl THEN 4 * (n \div 3) + (IF n % 3 = 0 THEN 0 ELSE (n % 3) + 1) ELSE 4 * ((n + 2) \div 3)

\* The 24 bits of a triple, the missing bytes zero.
Triple(s, g) ==
  LET byte(i) == IF i <= Len(s) THEN s[i] ELSE 0
  IN  65536 * byte(3 * g + 1) + 256 * byte(3 * g + 2) + byte(3 * g + 3)

\* The j-th group of six of 24 bits.
Sextet(v, j) == (v \div <<262144, 4096, 64, 1>>[j]) % 64

ToB64(s, isUrl) ==
  [i \in 1 .. RequiredLen(Len(s), isUrl) |->
     IF i <= RequiredLen(Len(s), TRUE)
     THEN b64EncodeChar(Sextet(Triple(s, (i - 1) \div 4), ((i - 1) % 4) + 1), isUrl)
     ELSE Pad]

\* What is left of t at the positions of S, in their order.
Selected(t, S) ==
  [k \in 1 .. Cardinality(S) |-> t[CHOOSE i \in S : Cardinality({j \in S : j <= i}) = k]]

\* The loop of fromB64 passes over the blanks, wherever they are.
Dense(t) == Selected(t, {i \in DOMAIN t : ~IsBlank(t[i])})

\* How many characters come before the first '=', of a text without blanks.
SymbolsOf(t) ==
  LET ends == {i \in 0 .. Len(t) : i = Len(t) \/ t[i + 1] = Pad}
  IN  CHOOSE i \in ends : \A j \in ends : i <= j

PadsOf(t) == Len(t) - SymbolsOf(t)

\* From the first '=' on there is nothing else, and the last quartet is full.
PadsAtEnd(t) ==
  PadsOf(t) > 0 =>
    /\ \A i \in SymbolsOf(t) + 1 .. Len(t) : t[i] = Pad
    /\ PadsOf(t) <= 3
    /\ PadsOf(t) + (SymbolsOf(t) % 4) = 4

\* Defective: line 212 does not ask for the padding that is due.
FromB64Refuses_NoPadTest(t, isUrl) == ~PadsAtEnd(t) \/ SymbolsOf(t) % 4 = 1

\* Whether the text is refused for the number of its characters: there is padding
\* when none is due, or none when it is due.
FromB64Refuses(t, isUrl) ==
  \/ ~PadsAtEnd(t)
  \/ SymbolsOf(t) % 4 = 1
  \/ (PadsOf(t) > 0) = (SymbolsOf(t) % 4 = 0 \/ isUrl)

\* Three bytes of every quartet, one or two of the last one; the bits that are
\* left over are not looked at.
FromB64(t, isUrl) ==
  LET v(i) == b64DecodeChar(t[i], isUrl)
      byte(k) ==
        LET r == k % 3
            i == 4 * (k \div 3) + r + 1
        IN  ((v(i) * <<4, 16, 64>>[r + 1]) % 256) + (v(i + 1) \div <<16, 4, 1>>[r + 1])
  IN  [k \in 1 .. (3 * SymbolsOf(t)) \div 4 |-> byte(k - 1)]

-----------------------------------------------------------------------------
(* What the functions return *)

Encoded(form, s) == IF form = "hex" THEN ToHex(s) ELSE ToB64(s, form = "url")

EncodedLen(form, n) == IF form = "hex" THEN 2 * n ELSE RequiredLen(n, form = "url")

\* A NUL follows the text if there is room for it.
TrailingNul(room, len) == IF room > len THEN 1 ELSE 0

InAlphabet(form, t) ==
  IF form = "hex" THEN \A i \in DOMAIN t : HexDigit(t[i]) >= 0
  ELSE \A i \in 1 .. SymbolsOf(t) : b64DecodeChar(t[i], form = "url") >= 0

\* Whether the text is refused whatever the room.
Malformed(form, t) ==
  IF form = "hex" THEN Len(t) % 2 = 1 \/ ~InAlphabet(form, t)
  ELSE ~InAlphabet(form, Dense(t)) \/ FromB64Refuses(Dense(t), form = "url")

Decoded(form, t) == IF form = "hex" THEN FromHex(t) ELSE FromB64(Dense(t), form = "url")

\* The length a decoder reports when it refuses: fromHex half the text's, or zero
\* for a character that is no digit; fromB64 a guess.
RefusedLen(form, t, room) ==
  IF form # "hex" THEN (Len(t) \div 4) * 3
  ELSE IF Len(t) % 2 = 0 /\ room >= Len(t) \div 2 THEN 0
  ELSE Len(t) \div 2

-----------------------------------------------------------------------------
(* The caller *)

Rooms(n) == {n - 1, n, n + 1} \cap Nat

Encode(room, next) ==
  LET n == EncodedLen(job.form, Len(job.data))
  IN  job' = IF room < n
             THEN [job EXCEPT !.room = room, !.size = n, !.written = 0, !.phase = next]
             ELSE [job EXCEPT !.room = room, !.size = n, !.written = n + TrailingNul(room, n),
                              !.text = Encoded(job.form, job.data), !.phase = "text"]

FirstEncode ==
  /\ job.phase = "data"
  /\ \E room \in Rooms(EncodedLen(job.form, Len(job.data))) : Encode(room, "short")

EncodeAgain == job.phase = "short" /\ Encode(job.size, "stuck")

\* The text that is decoded has one character more, less, or another one.
ChangeText ==
  /\ job.phase = "text" /\ ~job.changed
  /\ \E i \in 0 .. Len(job.text), skip \in {0, 1}, new \in {<<>>} \cup {<<c>> : c \in Strange} :
       job' = [job EXCEPT !.text = SubSeq(@, 1, i) \o new \o SubSeq(@, i + 1 + skip, Len(@)),
                          !.changed = TRUE]

Decode(room, next) ==
  LET out == Decoded(job.form, job.text)
  IN  job' = IF Malformed(job.form, job.text) \/ room < Len(out)
             THEN [job EXCEPT !.room = room, !.size = RefusedLen(job.form, job.text, room),
                              !.written = 0, !.phase = next]
             ELSE [job EXCEPT !.room = room, !.size = Len(out), !.written = Len(out),
                              !.out = out, !.phase = "decoded"]

FirstDecode == job.phase = "text" /\ \E room \in Rooms(Len(job.data)) : Decode(room, "rejected")

\* A caller that takes a larger size for what was missing.
DecodeAgain == job.phase = "rejected" /\ job.size > job.room /\ Decode(job.size, "stuck")

ConvertNext == FirstEncode \/ EncodeAgain \/ ChangeText \/ FirstDecode \/ DecodeAgain

ConvertSpec == ConvertInit /\ [][ConvertNext]_job

-----------------------------------------------------------------------------
(* Properties *)

\* The reference: RFC 4648, on bits.
CodesFrom(a, b) == [i \in 1 .. b - a + 1 |-> a + i - 1]
Alphabet(form) ==
  IF form = "hex" THEN CodesFrom(48, 57) \o CodesFrom(65, 70)
  ELSE CodesFrom(65, 90) \o CodesFrom(97, 122) \o CodesFrom(48, 57)
         \o (IF form = "url" THEN <<45, 95>> ELSE <<43, 47>>)

\* Blanks do not matter in Base64, nor the case in hexadecimal.
Canonical(form, t) ==
  IF form = "hex" THEN [i \in DOMAIN t |-> IF t[i] \in 97 .. 102 THEN t[i] - 32 ELSE t[i]]
  ELSE Selected(t, {i \in DOMAIN t : t[i] \notin {9, 10, 13, 32}})

PowerOfTwo(k) == <<1, 2, 4, 8, 16, 32, 64, 128>>[k + 1]
Bit(s, width, i) ==
  (s[(i - 1) \div width + 1] \div PowerOfTwo(width - 1 - ((i - 1) % width))) % 2

ValueIn(abc, c) == CHOOSE v \in 0 .. Len(abc) - 1 : abc[v + 1] = c

\* The symbols have the bits of the bytes and fewer than one symbol's more; if
\* they are padded, then to quartets.
Spells(text, abc, width, padded, bytes) ==
  LET n     == (8 * Len(bytes) + width - 1) \div width
      value == [i \in 1 .. n |-> ValueIn(abc, text[i])]
  IN  /\ Len(text) = IF padded THEN 4 * ((n + 3) \div 4) ELSE n
      /\ \A i \in 1 .. n : \E v \in DOMAIN abc : abc[v] = text[i]
      /\ \A i \in n + 1 .. Len(text) : text[i] = 61
      /\ \A i \in 1 .. 8 * Len(bytes) : Bit(bytes, 8, i) = Bit(value, width, i)

IsTextOf(form, t, bytes) ==
  Spells(Canonical(form, t), Alphabet(form), IF form = "hex" THEN 4 ELSE 6, form = "b64", bytes)

\* What is encoded is a text of the bytes by the reference, and a decoder accepts
\* it and gives the bytes back, unless it lacks the room.  Any other text that a
\* decoder accepts is a text of the bytes it returns: no padding missing, left over
\* or misplaced, no character of another alphabet, no bit lost.
AcceptsExactlyEncodings ==
  /\ job.phase = "text" /\ ~job.changed => IsTextOf(job.form, job.text, job.data)
  /\ job.phase = "rejected" /\ ~job.changed => job.room < Len(job.data)
  /\ job.phase = "decoded" /\ ~job.changed => job.out = job.data
  /\ job.phase = "decoded" => IsTextOf(job.form, job.text, job.out)

\* No call writes beyond the room, NUL included, and the size that a refused call
\* reports is enough when it is tried again; from fromB64 it is a guess that falls
\* short of the URL form.
SizesAreRight ==
  /\ job.written <= job.room
  /\ job.phase = "stuck" => job.changed \/ (job.form = "url" /\ job.text # <<>>)

=============================================================================

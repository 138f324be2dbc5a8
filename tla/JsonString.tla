------------------------------ MODULE JsonString ------------------------------
(***************************************************************************)
(* The strings of Json: the two passes of parse_string over what is        *)
(* between two quotes, and the \u literals.  Each pass is a loop; it is    *)
(* the function of the number of its iterations.                           *)
(***************************************************************************)
EXTENDS Integers, Sequences

Quote == 34
Backslash == 92
LowerU == 117
Digits == 48..57

-----------------------------------------------------------------------------
(* Literals.                                                               *)

HexDigit(c) == IF c \in Digits THEN c - 48
               ELSE IF c \in 65..70 THEN c - 55
               ELSE IF c \in 97..102 THEN c - 87
               ELSE 16

\* Four hexadecimal digits; 0 if one of them is none.
ParseHex4(s, o) ==
    LET h(i) == HexDigit(s[o + i])
    IN  IF \E i \in 0..3 : h(i) = 16 THEN 0
        ELSE 16 * (16 * (16 * h(0) + h(1)) + h(2)) + h(3)

\* One step of the loop: six bits go to a byte, the rest is shifted.
Continuation(code) == 128 + (code % 64)

\* The bytes of UTF-8: the last ones hold six bits each, the first the rest.
Encode(code) ==
    LET rest == code \div 64
        rest2 == rest \div 64
        rest3 == rest2 \div 64
    IN  IF code < 128 THEN <<code>>
        ELSE IF code < 2048 THEN <<192 + rest, Continuation(code)>>
        ELSE IF code < 65536 THEN <<224 + rest2, Continuation(rest), Continuation(code)>>
        ELSE <<240 + rest3, Continuation(rest2), Continuation(rest), Continuation(code)>>

NoLiteral == [length |-> 0, out |-> <<>>]
Literal(length, code) == [length |-> length, out |-> Encode(code)]

\* Mutant: the second half of a pair is not looked at.
Utf16Literal_Half(s, o, end) ==
    LET first == ParseHex4(s, o + 2)
    IN  IF end - o < 6 THEN NoLiteral ELSE Literal(6, first)

\* utf16_literal_to_utf8: one sequence, or a pair of surrogates.
Utf16Literal(s, o, end) ==
    LET first == ParseHex4(s, o + 2)
        second == ParseHex4(s, o + 8)
    IN  IF end - o < 6 \/ first \in 56320..57343 THEN NoLiteral
        ELSE IF first \notin 55296..56319 THEN Literal(6, first)
        ELSE IF end - (o + 6) < 6 \/ s[o + 6] # Backslash \/ s[o + 7] # LowerU
                 \/ second \notin 56320..57343
        THEN NoLiteral
        ELSE Literal(12, 65536 + 1024 * (first % 1024) + (second % 1024))

\* \b \f \n \r \t \" \\ \/ and what they stand for.
Escapes == {98, 102, 110, 114, 116, Quote, Backslash, 47}
Escaped(c) == IF c = 98 THEN 8 ELSE IF c = 102 THEN 12 ELSE IF c = 110 THEN 10
              ELSE IF c = 114 THEN 13 ELSE IF c = 116 THEN 9 ELSE c

-----------------------------------------------------------------------------
(* The first pass, from the quote at o: where the string ends, and how much *)
(* memory its text may need.  Scan(s, o)[n] is the state after n iterations. *)

Scanned(s, x) == x.input_end > Len(s) \/ s[x.input_end] = Quote
ScanOne(s, x) ==
    IF Scanned(s, x) THEN x
    ELSE IF s[x.input_end] # Backslash THEN [x EXCEPT !.input_end = @ + 1]
    ELSE [input_end |-> x.input_end + 2, skipped_bytes |-> x.skipped_bytes + 1]
Scan(s, o) ==
    LET scan[n \in Nat] == IF n = 0 THEN [input_end |-> o + 1, skipped_bytes |-> 0]
                           ELSE ScanOne(s, scan[n - 1])
    IN  scan
ScanDone(s, scan) == scan[CHOOSE n \in 0..Len(s) : Scanned(s, scan[n])]
AfterScan(s, o) == ScanDone(s, Scan(s, o))

\* The offset of the closing quote, beyond the buffer if there is none, and
\* the bytes allocated for the text with its final 0.
StringEnd(s, o) == AfterScan(s, o).input_end
Allocated(s, o) == StringEnd(s, o) - o - AfterScan(s, o).skipped_bytes + 1

(* The second pass: the characters with the escapes resolved.              *)

Copied(x, n, bytes) == [at |-> x.at + n, out |-> x.out \o bytes, ok |-> TRUE]
CopyOne(s, end, x) ==
    LET literal == IF s[x.at + 1] = LowerU THEN Utf16Literal(s, x.at, end) ELSE NoLiteral
    IN  IF x.at >= end \/ ~x.ok THEN x
        ELSE IF s[x.at] # Backslash THEN Copied(x, 1, <<s[x.at]>>)
        ELSE IF s[x.at + 1] \in Escapes THEN Copied(x, 2, <<Escaped(s[x.at + 1])>>)
        ELSE IF literal.length = 0 THEN [x EXCEPT !.ok = FALSE]
        ELSE Copied(x, literal.length, literal.out)
Copy(s, o) ==
    LET end == StringEnd(s, o)
        copy[n \in Nat] == IF n = 0 THEN [at |-> o + 1, out |-> <<>>, ok |-> TRUE]
                           ELSE CopyOne(s, end, copy[n - 1])
    IN  copy
CopyDone(copy, end, len) == copy[CHOOSE n \in 0..len : copy[n].at >= end \/ ~copy[n].ok]
Unescape(s, o) == CopyDone(Copy(s, o), StringEnd(s, o), Len(s))

-----------------------------------------------------------------------------
(* The reference: a code point in UTF-8, from its bits, and the surrogates. *)

Utf8(code) ==
    LET bits(unit, range) == (code \div unit) % range
        next(unit) == 128 + bits(unit, 64)
    IN  IF code <= 127 THEN <<code>>
        ELSE IF code <= 2047 THEN <<192 + bits(64, 32), next(1)>>
        ELSE IF code <= 65535 THEN <<224 + bits(4096, 16), next(64), next(1)>>
        ELSE <<240 + bits(262144, 8), next(4096), next(64), next(1)>>

High == 55296..56319
Low == 56320..57343
Pair(u, v) == 65536 + 1024 * (u - 55296) + (v - 56320)

(* The reference: how a text may be written.                               *)

\* A hexadecimal digit, and \u with the four of u at offset a.
Numeral(d) == IF d < 10 THEN {48 + d} ELSE {55 + d, 87 + d}
UnitAt(s, a, u) ==
    /\ s[a] = Backslash /\ s[a + 1] = LowerU
    /\ \E b, c, d, e \in 0..15 :
           /\ s[a + 2] \in Numeral(b) /\ s[a + 3] \in Numeral(c)
           /\ s[a + 4] \in Numeral(d) /\ s[a + 5] \in Numeral(e)
           /\ u = 4096 * b + 256 * c + 16 * d + e

\* What is at the offsets a to b - 1 stands for these bytes.
Piece(s, a, b, bytes) ==
    \/ /\ b = a + 1 /\ s[a] \notin {Quote, Backslash} /\ bytes = <<s[a]>>
    \/ /\ b = a + 2 /\ s[a] = Backslash /\ s[a + 1] \in Escapes
       /\ bytes = <<Escaped(s[a + 1])>>
    \/ \E u \in Nat : /\ b = a + 6 /\ UnitAt(s, a, u) /\ u \notin High \cup Low
                      /\ bytes = Utf8(u)
    \/ \E u \in High, v \in Low :
           /\ b = a + 12 /\ UnitAt(s, a, u) /\ UnitAt(s, a + 6, v)
           /\ bytes = Utf8(Pair(u, v))

\* What is between the quote at o and that at end writes the text, piece by
\* piece: at[i] is the offset behind i pieces, said[i] what they stand for.
Writes(s, o, end, text, k, at, said) ==
    /\ at[0] = o + 1 /\ said[0] = <<>>
    /\ \A i \in 1..k : \E bytes : /\ Piece(s, at[i - 1], at[i], bytes)
                                 /\ said[i] = said[i - 1] \o bytes
    /\ at[k] = end /\ said[k] = text /\ end <= Len(s) /\ s[end] = Quote
===============================================================================

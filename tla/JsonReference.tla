----------------------------- MODULE JsonReference -----------------------------
(***************************************************************************)
(* What a text denotes, defined by the form of the whole text and not by a *)
(* way through it; TLC compares Json with it.                              *)
(***************************************************************************)
EXTENDS Json

(* The reference: what a text as a whole denotes, as a set of at most one   *)
(* item.  It is JSON with what cJSON allows beyond it.                      *)

Blank(t) == \A i \in DOMAIN t : t[i] <= Space
Trim(t) == LET seen == {i \in DOMAIN t : t[i] > Space}
           IN  IF seen = {} THEN <<>> ELSE SubSeq(t, Least(seen), Greatest(seen))

\* The code units that begin a text, in UTF-16.
Unit(t) == IF Len(t) >= 6 /\ t[1] = Backslash /\ t[2] = LowerU THEN {ParseHex4(t, 3)} ELSE {}

\* What the inside of a string denotes.
RECURSIVE Inside(_)
Inside(t) ==
    IF t = <<>> THEN {<<>>}
    ELSE IF t[1] # Backslash THEN {<<t[1]>> \o r : r \in Inside(Tail(t))}
    ELSE IF t = <<Backslash>> THEN {<<Quote>>}
    ELSE {<<Escaped(t[2])>> \o r : r \in IF t[2] \in Escapes THEN Inside(After(t, 2)) ELSE {}}
         \cup UNION {{Utf8(u) \o r : r \in Inside(After(t, 6))} : u \in Unit(t) \ (High \cup Low)}
         \cup UNION {{Utf8(Pair(u, v)) \o r : r \in Inside(After(t, 12))}
                       : u \in Unit(t) \cap High, v \in Unit(After(t, 6)) \cap Low}

\* A quote that ends a string: an even number of backslashes is before it.
Closes(t, i) == /\ t[i] = Quote
                /\ LET run == {k \in 0..(i - 2) : \A j \in (i - k)..(i - 1) : t[j] = Backslash}
                   IN  Greatest(run) % 2 = 0
Strings(t) == IF Len(t) >= 2 /\ t[1] = Quote /\ Closes(t, Len(t))
                  /\ \A i \in 2..(Len(t) - 1) : ~Closes(t, i)
              THEN {CString(x) : x \in Inside(SubSeq(t, 2, Len(t) - 1))}
              ELSE {}

RECURSIVE Denotes(_), Elements(_), Members(_)
Elements(t) == {<<Child(<<>>, x)>> : x \in Denotes(Trim(t))}
    \cup UNION {{<<Child(<<>>, x)>> \o r : x \in Denotes(Trim(Before(t, i))), r \in Elements(After(t, i))}
                  : i \in Positions(t, Comma)}
Member(t) == UNION {{Child(n, x) : n \in Strings(Trim(Before(t, i))), x \in Denotes(Trim(After(t, i)))}
                      : i \in Positions(t, Colon)}
Members(t) == {<<m>> : m \in Member(t)}
    \cup UNION {{<<m>> \o r : m \in Member(Before(t, i)), r \in Members(After(t, i))}
                  : i \in Positions(t, Comma)}

Parents(t, open, close, type, children) ==
    IF Len(t) >= 2 /\ t[1] = open /\ t[Len(t)] = close
    THEN {Parent(type, c) : c \in children} ELSE {}

Denotes(t) ==
    LET inner == SubSeq(t, 2, Len(t) - 1)
        all(f) == IF Blank(inner) THEN {<<>>} ELSE f
    IN  IF t = <<>> THEN {}
        ELSE CASE t[1] = LBracket -> Parents(t, LBracket, RBracket, "array", all(Elements(inner)))
               [] t[1] = LBrace -> Parents(t, LBrace, RBrace, "object", all(Members(inner)))
               [] t[1] = Quote -> {Leaf("string", x) : x \in Strings(t)}
               [] t[1] \in Digits \cup {Minus} ->
                      IF Len(t) <= NumberSize /\ IsDecimal(t) THEN {Leaf("number", t)} ELSE {}
               [] t = <<Null>> -> {Leaf("null", <<>>)}
               [] t = <<False>> -> {Leaf("false", <<>>)}
               [] t = <<True>> -> {Leaf("true", <<>>)}
               [] OTHER -> {}

RECURSIVE Depth(_)
Depth(x) == IF x.type \in {"array", "object"}
            THEN 1 + Greatest({0} \cup {Depth(x.child[i].item) : i \in DOMAIN x.child})
            ELSE 0

\* The longest text at the start of the buffer that denotes an item is the
\* one that is parsed; without one, the parse fails.
Prefixes(s) == LET first == {i \in SkipBom(s)..Len(s) : s[i] > Space}
               IN  IF first = {} THEN {} ELSE {SubSeq(s, Least(first), n) : n \in Least(first)..Len(s)}
Expected(s) == LET shallow(t) == {x \in Denotes(t) : Depth(x) <= NestingLimit}
                   good == {t \in Prefixes(s) : shallow(t) # {}}
               IN  IF good = {} THEN {}
                   ELSE shallow(CHOOSE t \in good : \A u \in good : Len(u) <= Len(t))
===============================================================================

------------------------------ MODULE MCMessage -------------------------------
(* Buffers for Message: messages with at most two fields changed, and texts *)
(* of a few pieces each.                                                    *)
EXTENDS Message, FiniteSets

\* t, u and t', k and l.
T == <<116>>
V == <<117>>
Prime == <<116, 39>>
K == <<107>>
L == <<108>>
MCTexts == {NoText, T, V, Prime}
MCKeys == {K, L}

Attribute(k, item) == [key |-> k, item |-> item]

Numbers == {Number(h) : h \in {-9, -3, -1, 5, 14, 33}}
Strings == {Text(T), Text(V), Text(Prime)}
Objects == {Object(c) : c \in
              { <<>>, <<Attribute(K, Text(T))>>,
                <<Attribute(K, Text(T)), Attribute(L, Text(V)), Attribute(K, Text(V))>>,
                <<Attribute(L, Text(Prime))>>,
                <<Attribute(K, Text(T)), Attribute(L, Number(5))>>,
                <<Attribute(K, Number(5)), Attribute(K, Text(T))>> }}

GoodItem(f) == IF f \in NumberFields THEN Number(5)
               ELSE IF f \in ObjectFields THEN Object(<<Attribute(K, Text(T))>>)
               ELSE IF f = "SpanId" THEN Text(V) ELSE Text(T)
GoodMessage == [f \in Fields |-> <<GoodItem(f)>>]

\* What may be found under a name: nothing, one item, or two.
Odd(f) == LET right == IF f \in NumberFields THEN Numbers
                       ELSE IF f \in ObjectFields THEN Objects ELSE Strings
              wrong == IF f \in StringFields THEN Number(5) ELSE Text(T)
          IN  {<<>>, <<wrong>>, <<wrong, GoodItem(f)>>, <<GoodItem(f), wrong>>}
                  \cup {<<i>> : i \in right}

MCMessages ==
    UNION {UNION {{[GoodMessage EXCEPT ![f] = x, ![g] = y] : x \in Odd(f), y \in Odd(g)}
                    : g \in Fields} : f \in Fields}

MCName == [f \in Fields |-> 300 + (CHOOSE i \in DOMAIN Order : Order[i] = f)]
MCRenderings == {[style |-> "plain", behind |-> <<>>],
                 [style |-> "spaced", behind |-> <<0, 0>>],
                 [style |-> "escaped", behind |-> <<J!RBrace, J!Quote>>]}

RECURSIVE Concatenations(_, _)
Concatenations(pieces, n) ==
    IF n = 0 THEN {<<>>}
    ELSE LET shorter == Concatenations(pieces, n - 1)
         IN  shorter \cup {p \o s : p \in pieces, s \in shorter}
Between(a, S, b) == {a \o s \o b : s \in S}

A == <<J!Quote, 97, J!Quote>>   \* a name
ArrayTexts == Concatenations({<<J!LBracket>>, <<J!RBracket>>, <<J!Comma>>, <<49>>, <<J!Space>>}, 5)
ObjectTexts == Between(<<J!LBrace>>, Concatenations({<<J!LBrace>>, <<J!RBrace>>, <<J!Comma>>, A, <<J!Colon>>,
                 A \o <<J!Colon, 49>>, <<J!Space>>}, 4), <<>>)
NestedTexts == Concatenations({<<J!LBracket>>, <<J!RBracket>>, <<J!LBrace>>, <<J!RBrace>>,
                          A \o <<J!Colon>>, <<J!Comma>>, <<J!Null>>}, 5)
NumberTexts == Between(<<J!LBracket>>, Concatenations({<<J!Minus>>, <<49>>, <<J!Point>>,
                                       <<J!LowerE>>, <<J!Plus>>, <<J!RBracket>>}, 5), <<>>)

\* \u and four characters.
U(a, b, c, d) == <<J!Backslash, J!LowerU, a, b, c, d>>
Pieces == {<<97>>, <<J!Quote>>, <<J!Backslash>>, <<J!Backslash, 110>>, <<J!Backslash, J!Quote>>,
           <<J!Backslash, 120>>, <<J!Backslash, J!LowerU, 48>>,
           U(48, 48, 52, 49), U(48, 48, 48, 48), U(48, 48, 122, 122), U(48, 48, 101, 57),
           U(50, 48, 65, 67), U(68, 56, 51, 68), U(68, 67, 48, 48)}
StringTexts == Between(<<J!Quote>>, Concatenations(Pieces, 3), <<J!Quote>>)
                   \cup Between(<<J!Quote>>, Concatenations(Pieces, 2), <<>>)

MCOddSources == (ArrayTexts \cup ObjectTexts \cup NestedTexts \cup NumberTexts \cup StringTexts
                    \cup Between(J!Bom, Concatenations({<<J!LBracket>>, <<J!RBracket>>, <<49>>}, 3), <<>>)
                    \cup {<<J!True>>, <<J!False>>, <<J!Space, J!Null, 97>>}
                    \cup Between(<<>>, Concatenations({<<97>>, <<Percent>>, A}, 2), <<0, Percent>>))
                \ {<<>>}
=============================================================================

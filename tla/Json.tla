--------------------------------- MODULE Json ----------------------------------
(***************************************************************************)
(* cJSON_ParseWithLength: what the parser makes of a buffer of bytes.      *)
(*                                                                         *)
(* A character is its code, 0..255; codes above stand for a run of         *)
(* characters that the parser never looks into: a literal, or a name.      *)
(* Offsets begin with 1, and at offset Len(s) + 1 nothing can be read: an  *)
(* evaluation that read there would be an error of TLC.                    *)
(***************************************************************************)
EXTENDS Integers, Sequences, FiniteSets, JsonString

CONSTANTS NestingLimit,   \* CJSON_NESTING_LIMIT
          NumberSize      \* characters of a number that are looked at

Space == 32
Plus == 43
Comma == 44
Minus == 45
Point == 46
Colon == 58
LBracket == 91
RBracket == 93
LBrace == 123
RBrace == 125
LowerE == 101
UpperE == 69
Bom == <<239, 187, 191>>
Null == 256
False == 257
True == 258

\* An item: its type, the text of a string or number, and the children with
\* their names, which are empty in an array.
Leaf(type, text) == [type |-> type, text |-> text, child |-> <<>>]
Parent(type, child) == [type |-> type, text |-> <<>>, child |-> child]
Child(name, item) == [name |-> name, item |-> item]

\* What a parser returns: FALSE, or TRUE with the item and the new offset.
Failure == [ok |-> FALSE]
Success(at, item) == [ok |-> TRUE, at |-> at, item |-> item]

Least(S) == CHOOSE i \in S : \A j \in S : i <= j
Greatest(S) == CHOOSE i \in S : \A j \in S : i >= j
Before(t, i) == SubSeq(t, 1, i - 1)
After(t, i) == SubSeq(t, i + 1, Len(t))
Positions(t, c) == {i \in DOMAIN t : t[i] = c}
Has(s, o, c) == o <= Len(s) /\ s[o] = c

\* Blanks, 0 among them, are skipped, but for one at the end of the buffer:
\* the code goes beyond that and steps back.
SkipWhitespace(s, o) ==
    IF o >= Len(s) THEN o ELSE Least({p \in o..Len(s) : p = Len(s) \/ s[p] > Space})

-----------------------------------------------------------------------------
(* Numbers.                                                                *)

NumberChars == Digits \cup {Plus, Minus, Point, LowerE, UpperE}

\* What strtod takes for a number: a mantissa with a digit and at most one
\* point, and perhaps an exponent.
Magnitude(t) == IF t # <<>> /\ t[1] \in {Plus, Minus} THEN Tail(t) ELSE t
IsMantissa(t) == /\ \A i \in DOMAIN t : t[i] \in Digits \cup {Point}
                 /\ \A i, j \in DOMAIN t : t[i] = Point /\ t[j] = Point => i = j
                 /\ \E i \in DOMAIN t : t[i] \in Digits
IsDecimal(t) == \E k \in 1..Len(t) :
    /\ IsMantissa(Magnitude(SubSeq(t, 1, k)))
    /\ \/ k = Len(t)
       \/ /\ t[k + 1] \in {LowerE, UpperE}
          /\ LET x == Magnitude(SubSeq(t, k + 2, Len(t)))
             IN  x # <<>> /\ \A i \in DOMAIN x : x[i] \in Digits

\* The characters that may belong to a number are copied to a buffer of fixed
\* size, and strtod says how many of them do.
ParseNumber(s, o) ==
    LET run == {n \in 0..NumberSize :
                   o + n - 1 <= Len(s) /\ \A i \in o..(o + n - 1) : s[i] \in NumberChars}
        taken == {n \in run : IsDecimal(SubSeq(s, o, o + n - 1))}
    IN  IF taken = {} THEN Failure
        ELSE LET n == Greatest(taken) IN Success(o + n, Leaf("number", SubSeq(s, o, o + n - 1)))

-----------------------------------------------------------------------------
(* Strings.                                                                *)

\* All who use the text take it as a C string: it ends before the first 0.
CString(t) == IF Positions(t, 0) = {} THEN t ELSE Before(t, Least(Positions(t, 0)))

ParseString(s, o) ==
    LET end == StringEnd(s, o)
        text == Unescape(s, o)
    IN  IF s[o] # Quote \/ end > Len(s) \/ ~text.ok THEN Failure
        ELSE Success(end + 1, Leaf("string", CString(text.out)))

-----------------------------------------------------------------------------
(* Values.  A parser of values is the function of the offset of a value;   *)
(* below is the one for the values inside an array or an object.           *)

Named(name, value) == IF value.ok THEN Success(value.at, Child(name, value.item)) ELSE Failure
ValueAt(s, below, o) == IF o > Len(s) THEN Failure ELSE below[o]

ParseElement(s, below, o) == Named(<<>>, ValueAt(s, below, SkipWhitespace(s, o + 1)))

\* The name of a member, the colon and the value.
ParseMemberOf(s, below, name) ==
    LET colon == SkipWhitespace(s, name.at)
    IN  IF ~name.ok \/ ~Has(s, colon, Colon) THEN Failure
        ELSE Named(name.item.text, ValueAt(s, below, SkipWhitespace(s, colon + 1)))
ParseMember(s, below, o) ==
    IF o + 1 > Len(s) THEN Failure
    ELSE ParseMemberOf(s, below, ParseString(s, SkipWhitespace(s, o + 1)))

\* One turn of the loop of parse_array and parse_object; x.at is the offset in
\* front of the first child, or that of a comma, and then that behind the child
\* that is attached.
Attach(s, x, child) ==
    LET next == SkipWhitespace(s, child.at)
    IN  IF ~child.ok THEN [x EXCEPT !.more = FALSE, !.ok = FALSE]
        ELSE [at |-> next, children |-> Append(x.children, child.item),
              more |-> Has(s, next, Comma), ok |-> TRUE]
Turn(s, below, type, x) ==
    IF ~x.more THEN x
    ELSE Attach(s, x, IF type = "array" THEN ParseElement(s, below, x.at)
                      ELSE ParseMember(s, below, x.at))

\* The loop, as the function of the number of its turns, of which there are
\* no more than one for each comma and one for the first child.
Turns(s, below, type, o) ==
    LET turns[n \in Nat] == IF n = 0 THEN [at |-> o, children |-> <<>>, more |-> TRUE, ok |-> TRUE]
                            ELSE Turn(s, below, type, turns[n - 1])
    IN  turns

Open(type) == IF type = "array" THEN LBracket ELSE LBrace
Close(type) == IF type = "array" THEN RBracket ELSE RBrace

Finish(s, type, end) ==
    IF end.ok /\ Has(s, end.at, Close(type))
    THEN Success(end.at + 1, Parent(type, end.children)) ELSE Failure
ParseChildren(s, below, type, o) ==
    Finish(s, type, Turns(s, below, type, o)[Cardinality(Positions(s, Comma)) + 1])

\* parse_array and parse_object up to their loop.
ParseParent(s, below, type, o) ==
    LET first == SkipWhitespace(s, o + 1)
    IN  IF first > Len(s) THEN Failure
        ELSE IF Has(s, first, Close(type)) THEN Success(first + 1, Parent(type, <<>>))
        ELSE ParseChildren(s, below, type, first - 1)

ParseLeaf(s, o) ==
    CASE s[o] = Null -> Success(o + 1, Leaf("null", <<>>))
      [] s[o] = False -> Success(o + 1, Leaf("false", <<>>))
      [] s[o] = True -> Success(o + 1, Leaf("true", <<>>))
      [] s[o] = Quote -> ParseString(s, o)
      [] s[o] \in Digits \cup {Minus} -> ParseNumber(s, o)
      [] OTHER -> Failure

\* The parser of values with as much nesting as is left.
Leaves(s) == [o \in 1..Len(s) |-> ParseLeaf(s, o)]
Nested(s, below) ==
    [o \in 1..Len(s) |-> IF s[o] = LBracket THEN ParseParent(s, below, "array", o)
                         ELSE IF s[o] = LBrace THEN ParseParent(s, below, "object", o)
                         ELSE ParseLeaf(s, o)]
ParseValue(s) ==
    LET value[left \in Nat] == IF left = 0 THEN Leaves(s) ELSE Nested(s, value[left - 1])
    IN  value

SkipBom(s) == IF Len(s) > 4 /\ SubSeq(s, 1, 3) = Bom THEN 4 ELSE 1
ParseFirst(s) == ValueAt(s, ParseValue(s)[NestingLimit], SkipWhitespace(s, SkipBom(s)))

\* Mutant: nothing may follow the value, as if require_null_terminated.
Parse_Strict(s) == LET r == ParseFirst(s) IN IF r.ok /\ r.at <= Len(s) THEN Failure ELSE r

\* What follows the value is not looked at.
Parse(s) == ParseFirst(s)

-----------------------------------------------------------------------------
(* The reference: how items may be written.  A claim v says that the       *)
(* offsets v.from to v.to - 1 write v.item, with no more than v.height of  *)
(* nesting; claims about what is inside it bear it out.                    *)

Blanks(s, a, b) == \A i \in a..(b - 1) : s[i] <= Space

StringAt(s, a, b, text) ==
    /\ b \in (a + 2)..(Len(s) + 1) /\ s[a] = Quote
    /\ \E k \in Nat : \E at \in [0..k -> Nat], said \in [0..k -> Seq(Nat)] :
           \E t : Writes(s, a, b - 1, t, k, at, said) /\ text = CString(t)

\* The longest run of the characters of numbers, which is a number.
NumberAt(s, a, b) ==
    /\ b \in (a + 1)..(Len(s) + 1) /\ b - a <= NumberSize
    /\ s[a] \in Digits \cup {Minus}
    /\ \A i \in a..(b - 1) : s[i] \in NumberChars
    /\ b <= Len(s) => s[b] \notin NumberChars
    /\ IsDecimal(SubSeq(s, a, b - 1))

LeafAt(s, v) ==
    \/ s[v.from] = Null /\ v.to = v.from + 1 /\ v.item = Leaf("null", <<>>)
    \/ s[v.from] = False /\ v.to = v.from + 1 /\ v.item = Leaf("false", <<>>)
    \/ s[v.from] = True /\ v.to = v.from + 1 /\ v.item = Leaf("true", <<>>)
    \/ \E text : StringAt(s, v.from, v.to, text) /\ v.item = Leaf("string", text)
    \/ NumberAt(s, v.from, v.to) /\ v.item = Leaf("number", SubSeq(s, v.from, v.to - 1))

\* A child and blanks fill what is between two offsets; in an object, the
\* name and a colon are before it.
ElementAt(s, a, c, b) == /\ a < c.from /\ Blanks(s, a + 1, c.from)
                         /\ c.to <= b /\ Blanks(s, c.to, b)
MemberAt(s, a, name, c, b) ==
    \E q, e, colon \in Nat :
        /\ a < q /\ Blanks(s, a + 1, q) /\ StringAt(s, q, e, name)
        /\ e <= colon /\ Blanks(s, e, colon) /\ s[colon] = Colon
        /\ ElementAt(s, colon, c, b)
ChildAt(s, type, a, name, c, b) ==
    IF type = "array" THEN name = <<>> /\ ElementAt(s, a, c, b) ELSE MemberAt(s, a, name, c, b)

\* The brackets, and the commas between the children.
ParentAt(s, V, v, type, k, mark, name, child) ==
    /\ v.item = Parent(type, [i \in 1..k |-> Child(name[i], child[i].item)])
    /\ s[v.from] = Open(type) /\ s[v.to - 1] = Close(type)
    /\ v.from < v.to - 1 /\ v.to - 1 <= Len(s) /\ v.height > 0
    /\ k = 0 => Blanks(s, v.from + 1, v.to - 1)
    /\ k > 0 => mark[0] = v.from /\ mark[k] = v.to - 1
    /\ \A i \in 1..k : /\ child[i] \in V /\ child[i].height < v.height
                       /\ ChildAt(s, type, mark[i - 1], name[i], child[i], mark[i])
                       /\ i < k => s[mark[i]] = Comma
Borne(s, V, v) ==
    \/ LeafAt(s, v)
    \/ \E type \in {"array", "object"}, k \in Nat :
           \E mark \in [0..k -> 1..Len(s)] : \E name, child :
               ParentAt(s, V, v, type, k, mark, name, child)

\* Claims that bear each other out.
Sound(s, V) == \A v \in V : /\ v.from \in 1..Len(s) /\ v.to \in (v.from + 1)..(Len(s) + 1)
                            /\ v.height \in Nat /\ Borne(s, V, v)
===============================================================================

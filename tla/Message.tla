-------------------------------- MODULE Message --------------------------------
(***************************************************************************)
(* From the bytes of a buffer to the columns of a row: Json parses what is *)
(* in the buffer, and Serializer goes through the items.  A buffer holds   *)
(* what a client has written for a message, and behind that whatever was   *)
(* there before; or it holds something else.                               *)
(***************************************************************************)
EXTENDS Serializer

CONSTANTS NestingLimit, NumberSize,
          Name,        \* the character that stands for the name of each member
          Messages,    \* what clients mean: items, as cJSON should make them
          Renderings,  \* how a client writes, and what is behind that
          OddSources,  \* buffers that hold something else
          None

J == INSTANCE JsonReference
Seqs == INSTANCE SequencesExt

Percent == 37

VARIABLES source,   \* the buffer
          message   \* history: the message it was written for, or None

-----------------------------------------------------------------------------
(* From the items of the parser to those of the serializer.                *)

\* The value of a decimal text without exponent, in halves.
RECURSIVE Whole(_)
Whole(t) == IF t = <<>> THEN 0 ELSE 10 * Whole(J!Before(t, Len(t))) + t[Len(t)] - 48
Strtod(t) == LET sign == IF J!Has(t, 1, J!Minus) THEN -1 ELSE 1
                 digits == J!Magnitude(t)
                 point == J!Positions(digits, J!Point)
             IN  sign * (IF point = {} THEN 2 * Whole(digits)
                         ELSE 2 * Whole(J!Before(digits, J!Least(point)))
                              + (Whole(J!After(digits, J!Least(point))) \div 5))

RECURSIVE ItemOf(_, _)
ItemOf(x, nested) ==
    CASE x.type = "number" -> Number(Strtod(x.text))
      [] x.type = "string" -> Text(x.text)
      [] x.type = "object" -> Object(IF nested THEN <<>> ELSE
             [i \in DOMAIN x.child |-> [key |-> x.child[i].name,
                                        item |-> ItemOf(x.child[i].item, TRUE)]])
      [] OTHER -> Item("other", 0, NULL, <<>>)

\* The items under a name, in their order; an array has none, as its children
\* have no names.
Under(children, name) ==
    LET named(c) == c.name = name
        found == SelectSeq(children, named)
    IN  [i \in DOMAIN found |-> ItemOf(found[i].item, FALSE)]
Parsed(r) == IF ~r.ok THEN Malformed
             ELSE [f \in Fields |-> Under(r.item.child, <<Name[f]>>)]

-----------------------------------------------------------------------------
(* What a client writes.                                                   *)

Hex(n) == IF n < 10 THEN 48 + n ELSE 87 + n
Escaped(c) == <<J!Backslash, J!LowerU, 48, 48, Hex(c \div 16), Hex(c % 16)>>
Quoted(style, s) ==
    <<J!Quote>> \o (IF style = "escaped"
                    THEN Seqs!FlattenSeq([i \in DOMAIN s |-> Escaped(s[i])])
                    ELSE s) \o <<J!Quote>>

RECURSIVE Decimal(_)
Decimal(n) == (IF n < 10 THEN <<>> ELSE Decimal(n \div 10)) \o <<48 + (n % 10)>>
Written(h) == LET n == IF h < 0 THEN -h ELSE h
              IN  (IF h < 0 THEN <<J!Minus>> ELSE <<>>) \o Decimal(n \div 2)
                      \o (IF n % 2 = 1 THEN <<J!Point, 53>> ELSE <<>>)

Gap(style) == IF style = "spaced" THEN <<J!Space>> ELSE <<>>
Member(style, name, value) == Gap(style) \o name \o Gap(style) \o <<J!Colon>>
                                  \o Gap(style) \o value \o Gap(style)

RECURSIVE Joined(_)
Joined(parts) == IF Len(parts) <= 1 THEN IF parts = <<>> THEN <<>> ELSE parts[1]
                 ELSE parts[1] \o <<J!Comma>> \o Joined(Tail(parts))
Braces(style, parts) == Gap(style) \o <<J!LBrace>> \o Joined(parts) \o <<J!RBrace>>

RECURSIVE Rendered(_, _)
Rendered(style, item) ==
    CASE item.type = "number" -> Written(item.valuedouble)
      [] item.type = "string" -> Quoted(style, item.valuestring)
      [] OTHER -> Braces(style, [i \in DOMAIN item.child |->
                      Member(style, Quoted(style, item.child[i].key),
                                    Rendered(style, item.child[i].item))])

RECURSIVE AllItems(_, _)
AllItems(m, i) == IF i > Len(Order) THEN <<>>
                  ELSE [k \in DOMAIN m[Order[i]] |-> <<Order[i], m[Order[i]][k]>>]
                           \o AllItems(m, i + 1)
Render(style, m) ==
    LET all == AllItems(m, 1)
    IN  Braces(style, [i \in DOMAIN all |->
            Member(style, <<J!Quote, Name[all[i][1]], J!Quote>>, Rendered(style, all[i][2]))])

-----------------------------------------------------------------------------
MessageInit ==
    /\ \/ /\ message \in Messages
          /\ \E r \in Renderings : source = Render(r.style, message) \o r.behind
       \/ message = None /\ source \in OddSources
    /\ \E r \in {J!Parse(source)} : json = Parsed(r)
    /\ printable = \E i \in DOMAIN source :
                       source[i] = 0 /\ \A j \in 1..(i - 1) : source[j] # Percent
    /\ Started

MessageSpec == MessageInit /\ [][Next /\ UNCHANGED <<source, message>>]_<<vars, source, message>>

-----------------------------------------------------------------------------
\* The parser takes from the start of any buffer the longest text that is
\* JSON (with what cJSON allows beyond it), makes of it the item it denotes,
\* and refuses a buffer that begins with none; whatever it meets, it reads
\* nothing outside the buffer.
ParserCorrect == message = None /\ next = 1 /\ ~done =>
    LET r == J!Parse(source)
    IN  (IF r.ok THEN {r.item} ELSE {}) = J!Expected(source)

\* What a client writes is what the serializer goes through, however it is
\* spaced or escaped, and whatever older messages have left behind it.
Understood == message # None => json = message
===============================================================================

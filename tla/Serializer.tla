------------------------------ MODULE Serializer ------------------------------
(***************************************************************************)
(* What a read worker makes of one message: Serializer::serialize fills a  *)
(* Log member by member from the parsed JSON and returns early at the      *)
(* first member it cannot fill; a valid Log becomes the columns of a row   *)
(* in create_subquery.                                                     *)
(*                                                                         *)
(* A step is one block of serialize.  A text is the sequence of its        *)
(* characters' codes; a number of JSON is given in halves, so that 3 is    *)
(* 1.5.                                                                    *)
(***************************************************************************)
EXTENDS Integers, Sequences

CONSTANTS UINT32_MAX,  \* the largest Timestamp and TraceFlags
          INT32_MAX,   \* the largest SeverityNumber
          Texts,       \* the texts of JSON strings
          Keys,        \* the keys of attributes
          NULL         \* a null pointer

NoText == <<>>  \* an empty std::string

ASSUME SerializerAssumption ==
    /\ UINT32_MAX \in Nat /\ INT32_MAX \in Nat
    /\ Texts \subseteq Seq(Nat) /\ Keys \subseteq Seq(Nat)
    /\ NoText \in Texts
    /\ NULL \notin Texts

\* The members of Log, in the order of serialize and of getValues.
Order == << "Timestamp", "TraceId", "SpanId", "TraceFlags", "SeverityText",
            "SeverityNumber", "ServiceName", "Body",
            "ResourceAttributes", "LogAttributes" >>
Fields == {Order[i] : i \in DOMAIN Order}
NumberFields == {"Timestamp", "TraceFlags", "SeverityNumber"}
ObjectFields == {"ResourceAttributes", "LogAttributes"}
StringFields == Fields \ (NumberFields \cup ObjectFields)

\* An item of cJSON: its type, and its number, text or members.  Only a
\* string has a text.  A member has a key of its own.
Item(type, n, s, c) == [type |-> type, valuedouble |-> n, valuestring |-> s, child |-> c]
Number(n) == Item("number", n, NULL, <<>>)
Text(s) == Item("string", 0, s, <<>>)
Object(members) == Item("object", 0, NULL, members)
Missing == Item("missing", 0, NULL, <<>>)

\* A parsed message: the items it has under each key, in their order.
Malformed == [f \in Fields |-> <<Missing>>]

\* What cJSON can make of a message.  An item inside an attribute only has a
\* type that is not the right one.
Types == {"number", "string", "object", "other", "missing"}
Items(child) ==
    {x \in [type : Types, valuedouble : Int, valuestring : Texts \cup {NULL}, child : child] :
         x.type = "string" <=> x.valuestring # NULL}
Members == Seq([key : Keys, item : Items({<<>>})])
Inputs == [Fields -> Seq(Items(Members))]

VARIABLES json,      \* the message
          printable, \* its buffer holds a 0, and no % before that
          next,      \* the member that is filled next
          num,       \* Log: the number members
          text,      \* Log: the std::string members, empty at first
          attrs,     \* Log: the maps, each a set of <<key, text>>
          is_vaild,  \* Log: the flag
          done,      \* serialize has returned
          ended,     \* the process has ended in a warning
          row        \* the columns of the row, if there is one

input == <<json, printable>>
log == <<num, text, attrs>>
vars == <<input, next, log, is_vaild, done, ended, row>>

Unsigned == 0..UINT32_MAX
Signed == (-INT32_MAX - 1)..INT32_MAX
Representable(f) == IF f = "SeverityNumber" THEN Signed ELSE Unsigned

\* Log has no constructor: its numbers start as anything, and serialize
\* reads none before it has set it.  Any value will do here.
Started == /\ next = 1
           /\ num = [f \in NumberFields |-> 0]
           /\ text = [f \in StringFields |-> NoText]
           /\ attrs = [f \in ObjectFields |-> {}]
           /\ is_vaild = TRUE
           /\ done = FALSE
           /\ ended = FALSE
           /\ row = <<>>

Init == json \in Inputs /\ printable \in BOOLEAN /\ Started

\* cJSON_GetObjectItemCaseSensitive: the first item with that key.
First(f) == IF json[f] = <<>> THEN Missing ELSE json[f][1]

Is(f, type) == /\ json # Malformed
               /\ next \in DOMAIN Order
               /\ Order[next] = f
               /\ First(f).type = type

Filled == next' = next + 1 /\ UNCHANGED <<input, is_vaild, done, ended, row>>

Invalid == /\ is_vaild' = FALSE
           /\ done' = TRUE
           /\ UNCHANGED <<input, next, ended, row>>

\* double to uint32_t or int32_t: the fraction is dropped.  For a number the
\* type cannot hold the result is undefined.
Truncated(h) == IF h >= 0 THEN h \div 2 ELSE -((-h) \div 2)
\* Mutant: no conversion.
Converted_Raw(h, R) == {h}
Converted(h, R) == IF Truncated(h) \in R THEN {Truncated(h)} ELSE R

-----------------------------------------------------------------------------
\* cJSON_ParseWithLength returned no object, and warn has printed the buffer.
ParseFails == /\ json = Malformed
              /\ ~done /\ ~ended
              /\ Invalid
              /\ UNCHANGED log

\* The buffer is made a std::string up to its first 0, wherever that is, and
\* is warn's format: what is read behind the buffer, or for a conversion
\* that has no argument, may end the process.  (%% needs none; it is not
\* told apart from the others.)
WarnEnds == /\ json = Malformed
            /\ ~done /\ ~ended
            /\ ~printable
            /\ ended' = TRUE
            /\ UNCHANGED <<input, next, log, is_vaild, done, row>>

FillNumber(f) == /\ Is(f, "number")
                 /\ \E v \in Converted(First(f).valuedouble, Representable(f)) :
                        num' = [num EXCEPT ![f] = v]
                 /\ Filled
                 /\ UNCHANGED <<text, attrs>>

\* The text of SpanId goes to log.TraceId; nothing sets log.SpanId.
Target(f) == IF f = "SpanId" THEN "TraceId" ELSE f

\* The item whose valuestring a block tests: four blocks have kept TraceId's.
\* Mutant: the item of the block above.
Tested_Above(f) == IF f = "TraceId" THEN f ELSE Order[next - 1]
Tested(f) == IF f \in {"SpanId", "SeverityText", "ServiceName", "Body"} THEN "TraceId" ELSE f

FillText(f) == /\ Is(f, "string")
               /\ First(Tested(f)).valuestring # NULL
               /\ text' = [text EXCEPT ![Target(f)] = First(f).valuestring]
               /\ Filled
               /\ UNCHANGED <<num, attrs>>

\* The loop over the members of an object: operator[] of the map, so that
\* the last of several members with one key stays.
Kept_First(c) == {<<c[i].key, c[i].item.valuestring>> :
                      i \in {j \in DOMAIN c : \A k \in 1..(j - 1) : c[k].key # c[j].key}}
Kept(c) == {<<c[i].key, c[i].item.valuestring>> :
                i \in {j \in DOMAIN c : \A k \in (j + 1)..Len(c) : c[k].key # c[j].key}}
IsText(item) == item.type = "string" /\ item.valuestring # NULL
AllTexts(c) == \A i \in DOMAIN c : IsText(c[i].item)

FillObject(f) == /\ Is(f, "object")
                 /\ AllTexts(First(f).child)
                 /\ attrs' = [attrs EXCEPT ![f] = Kept(First(f).child)]
                 /\ Filled
                 /\ UNCHANGED <<num, text>>

\* A member that is not a string: the ones before it are in the map.
BadMember(f) == /\ ~done
                /\ Is(f, "object")
                /\ LET c == First(f).child
                       bad == {i \in DOMAIN c : ~IsText(c[i].item)}
                   IN  /\ bad # {}
                       /\ \E i \in bad :
                              /\ \A j \in bad : i <= j
                              /\ attrs' = [attrs EXCEPT ![f] = Kept(SubSeq(c, 1, i - 1))]
                /\ Invalid
                /\ UNCHANGED <<num, text>>

TypeOf(f) == IF f \in NumberFields THEN "number"
             ELSE IF f \in ObjectFields THEN "object" ELSE "string"

\* The field is missing or has another type: a warning, and no Log.
Passes(f) == /\ Is(f, TypeOf(f))
             /\ f \in StringFields => First(Tested(f)).valuestring # NULL

WrongType == /\ json # Malformed
             /\ ~done
             /\ next \in DOMAIN Order
             /\ ~Passes(Order[next])
             /\ Invalid
             /\ UNCHANGED log

Return == /\ next = Len(Order) + 1
          /\ ~done
          /\ done' = TRUE
          /\ UNCHANGED <<input, next, log, is_vaild, ended, row>>

-----------------------------------------------------------------------------
\* Quotes, by their codes.
Single == 39
Double == 34

\* What is wrapped is put between quotes as it is: nothing is escaped.
wrap(str, quote) == <<quote>> \o str \o <<quote>>

\* getValues: one column for each member, in their order.  Of a map, each
\* pair; of a number, its value.
Column(f) == [number |-> IF f \in NumberFields THEN num[f] ELSE 0,
              string |-> IF f \in StringFields THEN wrap(text[f], Single) ELSE NoText,
              map |-> IF f \in ObjectFields
                      THEN {<<wrap(p[1], Double), wrap(p[2], Double)>> : p \in attrs[f]}
                      ELSE {}]

\* read_worker makes a row of a valid Log only.
CreateSubquery == /\ done /\ is_vaild
                  /\ row = <<>>
                  /\ row' = [i \in DOMAIN Order |-> Column(Order[i])]
                  /\ UNCHANGED <<input, next, log, is_vaild, done, ended>>

Next == \/ ParseFails \/ WarnEnds
        \/ \E f \in NumberFields : FillNumber(f)
        \/ \E f \in StringFields : FillText(f)
        \/ \E f \in ObjectFields : FillObject(f) \/ BadMember(f)
        \/ WrongType
        \/ Return
        \/ CreateSubquery

Spec == Init /\ [][Next]_vars

-----------------------------------------------------------------------------
\* The members of Log have the types of the struct, whatever numbers JSON
\* brings; the row has a column for each.
TypeOK == /\ json \in Inputs
          /\ printable \in BOOLEAN
          /\ next \in 1..(Len(Order) + 1)
          /\ num \in [NumberFields -> Int]
          /\ \A f \in NumberFields : num[f] \in Representable(f)
          /\ text \in [StringFields -> Texts]
          /\ attrs \in [ObjectFields -> SUBSET (Keys \X Texts)]
          /\ is_vaild \in BOOLEAN /\ done \in BOOLEAN /\ ended \in BOOLEAN
          /\ row = <<>> \/ Len(row) = Len(Order)

\* The reference: a message is well formed when the first item under each
\* name of Log has the type of that member, attributes being texts.
WellFormed == \A f \in Fields :
    /\ json[f] # <<>>
    /\ json[f][1].type = TypeOf(f)
    /\ f \in ObjectFields =>
           \A i \in DOMAIN json[f][1].child : json[f][1].child[i].item.type = "string"

\* The early returns together accept exactly the well-formed messages,
\* although four of the blocks test the text of another item than the one
\* they take: that item has passed its own block by then.  Whatever ends the
\* process is no well-formed message either.
ValidIffWellFormed == /\ done => (is_vaild <=> WellFormed)
                      /\ ended => ~WellFormed

\* How the server reads a literal: the text up to the next quote.
Says(literal, quote, s) ==
    /\ Len(literal) = Len(s) + 2
    /\ literal[1] = quote /\ literal[Len(literal)] = quote
    /\ \A i \in DOMAIN s : literal[i + 1] = s[i] /\ s[i] # quote

\* A map's value under a key is what the last member with that key says.
LastSays(c, key, s) == \E i \in DOMAIN c :
    /\ c[i].key = key /\ c[i].item.valuestring = s
    /\ \A j \in DOMAIN c : c[j].key = key => j <= i

\* Texts that need no escape: in SQL, and in the JSON inside SQL.
Plain(s) == \A i \in DOMAIN s : s[i] # Single
PlainInMap(s) == \A i \in DOMAIN s : s[i] \notin {Single, Double, 92} /\ s[i] >= 32
PlainMessage ==
    /\ \A f \in StringFields : Plain(json[f][1].valuestring)
    /\ \A f \in ObjectFields : \A i \in DOMAIN json[f][1].child :
           LET member == json[f][1].child[i]
           IN  PlainInMap(member.key) /\ PlainInMap(member.item.valuestring)

\* Each column of a row is read by the server as what the message says under
\* its own name: numbers that fit lose their fraction only, and no key of an
\* attribute is lost.  Two things are left out.  TraceId and SpanId: Target
\* mixes them up.  A message with a text that needs an escape: it gets none,
\* and a quote ends its literal too early, whatever columns follow it.
RowFaithful == row # <<>> /\ PlainMessage => \A i \in DOMAIN Order :
    LET f == Order[i]
        item == json[f][1]
    IN  /\ f \in NumberFields /\ Truncated(item.valuedouble) \in Representable(f)
               => row[i].number = Truncated(item.valuedouble)
        /\ f \in StringFields \ {"TraceId", "SpanId"} =>
               Says(row[i].string, Single, item.valuestring)
        /\ f \in ObjectFields =>
               \A key \in Keys, s \in Texts :
                   LastSays(item.child, key, s) <=>
                       \E p \in row[i].map : Says(p[1], Double, key) /\ Says(p[2], Double, s)
===============================================================================

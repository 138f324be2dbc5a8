----------------------------- MODULE MessageProofs -----------------------------
(***************************************************************************)
(* Theorems about the two stages of a message.  Of Serializer, for every   *)
(* message, any texts and keys, and any range of the numbers: which        *)
(* messages are accepted, and what their rows say.  Of JsonString, for     *)
(* every sequence of bytes: a text is understood however it is written, and*)
(* fits the memory that is allocated for it.  Of Json, for every sequence  *)
(* of bytes: so is every item.                                             *)
(***************************************************************************)
EXTENDS Serializer, Json, FiniteSetTheorems, WellFoundedInduction, TLAPS

\* What a block tests of its own member.
Good(f) == /\ json[f] # <<>>
           /\ json[f][1].type = TypeOf(f)
           /\ f \in ObjectFields => AllTexts(json[f][1].child)

\* What it leaves in the Log.
Set(f) ==
    /\ f \in NumberFields /\ Truncated(json[f][1].valuedouble) \in Representable(f)
           => num[f] = Truncated(json[f][1].valuedouble)
    /\ f \in StringFields \ {"TraceId", "SpanId"} => text[f] = json[f][1].valuestring
    /\ f \in ObjectFields => attrs[f] = Kept(json[f][1].child)

\* As long as the Log is valid, every block gone through has found its member
\* good and has set it, and no later block has undone that.
Filling == is_vaild => \A i \in 1..(next - 1) : Good(Order[i]) /\ Set(Order[i])

\* A return at the end is a valid Log, an early one a message that is not
\* well formed.
Returned == /\ ~done => is_vaild
            /\ done /\ is_vaild => next = 11
            /\ ~is_vaild \/ ended => ~WellFormed

\* A row is made of a Log that does not change any more.
RowMade == row # <<>> => /\ done /\ is_vaild
                         /\ row = [i \in DOMAIN Order |-> Column(Order[i])]

IInv == TypeOK /\ Filling /\ Returned /\ RowMade

-----------------------------------------------------------------------------
(* The order of the members, and the items of a message.                   *)

LEMMA OrderFacts ==
    /\ Len(Order) = 10 /\ DOMAIN Order = 1..10
    /\ \A i \in 1..10 : Order[i] \in Fields
    /\ \A f \in Fields : \E i \in 1..10 : f = Order[i]
    /\ \A i, j \in 1..10 : Order[i] = Order[j] => i = j
<1>1. Len(Order) = 10 /\ DOMAIN Order = 1..10
  BY DEF Order
<1>2. (\A i \in 1..10 : Order[i] \in Fields) /\ (\A f \in Fields : \E i \in 1..10 : f = Order[i])
  BY <1>1 DEF Fields
<1>3. \A i, j \in 1..10 : Order[i] = Order[j] => i = j
  BY DEF Order
<1>. QED
  BY <1>1, <1>2, <1>3

LEMMA FieldKinds ==
    /\ NumberFields \subseteq Fields /\ ObjectFields \subseteq Fields /\ StringFields \subseteq Fields
    /\ NumberFields \cap ObjectFields = {}
    /\ NumberFields \cap StringFields = {} /\ ObjectFields \cap StringFields = {}
    /\ Fields = NumberFields \cup ObjectFields \cup StringFields
    /\ "TraceId" \in StringFields /\ "SpanId" \in StringFields /\ "Timestamp" \in Fields
<1>1. /\ Order[1] = "Timestamp" /\ Order[2] = "TraceId" /\ Order[3] = "SpanId"
      /\ Order[4] = "TraceFlags" /\ Order[6] = "SeverityNumber"
      /\ Order[9] = "ResourceAttributes" /\ Order[10] = "LogAttributes"
  BY DEF Order
<1>2. {"Timestamp", "TraceId", "SpanId", "TraceFlags", "SeverityNumber",
       "ResourceAttributes", "LogAttributes"} \subseteq Fields
  BY <1>1, OrderFacts
<1>. QED
  BY <1>2 DEF NumberFields, ObjectFields, StringFields

LEMMA ItemTypes ==
    ASSUME NEW x \in Items(Members)
    PROVE  /\ x.valuedouble \in Int /\ x.child \in Members
           /\ x.type = "string" <=> x.valuestring # NULL
           /\ x.valuestring # NULL => x.valuestring \in Texts
BY DEF Items

\* The members of an object, one by one.
LEMMA MembersFacts ==
    ASSUME NEW c \in Members
    PROVE  /\ DOMAIN c = 1..Len(c) /\ Len(c) \in Nat
           /\ \A i \in DOMAIN c :
                  /\ c[i] \in [key : Keys, item : Items({<<>>})]
                  /\ c[i].key \in Keys
                  /\ c[i].item.type = "string" <=> IsText(c[i].item)
                  /\ IsText(c[i].item) => c[i].item.valuestring \in Texts
<1> DEFINE I == Items({<<>>})
           M == [key : Keys, item : I]
<1>1. c \in Seq(M)
  BY DEF Members
<1>2. \A x \in I : (x.type = "string" <=> IsText(x)) /\ (IsText(x) => x.valuestring \in Texts)
  BY DEF Items, IsText
<1> HIDE DEF I
<1>3. \A x \in M : x.key \in Keys /\ x.item \in I
  OBVIOUS
<1> HIDE DEF M
<1>4. DOMAIN c = 1..Len(c) /\ Len(c) \in Nat /\ \A i \in DOMAIN c : c[i] \in M
  BY <1>1
<1>. QED
  BY <1>2, <1>3, <1>4 DEF M, I

LEMMA FirstType ==
    ASSUME json \in Inputs, NEW f \in Fields
    PROVE  First(f) \in Items(Members)
<1>1. Missing \in Items(Members)
  BY DEF Missing, Item, Items, Types, Members
<1>2. json[f] \in Seq(Items(Members))
  BY DEF Inputs
<1>. QED
  BY <1>1, <1>2 DEF First

LEMMA TruncatedType == ASSUME NEW h \in Int PROVE Truncated(h) \in Int
<1>1. \A n \in Int : n \div 2 \in Int
  OBVIOUS
<1>. QED  BY <1>1 DEF Truncated

LEMMA ConvertedFacts ==
    ASSUME NEW h \in Int, NEW f \in NumberFields, NEW v \in Converted(h, Representable(f))
    PROVE  /\ v \in Representable(f) /\ v \in Int
           /\ Truncated(h) \in Representable(f) => v = Truncated(h)
<1>1. Representable(f) \subseteq Int
  BY SerializerAssumption DEF Representable, Unsigned, Signed
<1>. QED
  BY <1>1, TruncatedType DEF Converted

\* A map has a value of the right type under keys of the right type, and says
\* what the last member with the key says.
LEMMA KeptFacts ==
    ASSUME NEW c \in Members, AllTexts(c)
    PROVE  /\ Kept(c) \in SUBSET (Keys \X Texts)
           /\ \A k \in Keys, s \in Texts : <<k, s>> \in Kept(c) <=> LastSays(c, k, s)
<1>1. \A i \in DOMAIN c : c[i].key \in Keys /\ c[i].item.valuestring \in Texts
  BY MembersFacts DEF AllTexts
<1>2. DOMAIN c = 1..Len(c) /\ Len(c) \in Nat
  BY MembersFacts
<1>3. Kept(c) \in SUBSET (Keys \X Texts)
  BY <1>1 DEF Kept
<1>4. ASSUME NEW k \in Keys, NEW s \in Texts
      PROVE  <<k, s>> \in Kept(c) <=> LastSays(c, k, s)
  <2>1. <<k, s>> \in Kept(c) <=>
            \E i \in DOMAIN c : /\ \A j \in (i + 1)..Len(c) : c[j].key # c[i].key
                                /\ c[i].key = k /\ c[i].item.valuestring = s
    BY DEF Kept
  <2>2. ASSUME NEW i \in DOMAIN c, c[i].key = k
        PROVE  (\A j \in (i + 1)..Len(c) : c[j].key # c[i].key)
                   <=> (\A j \in DOMAIN c : c[j].key = k => j <= i)
    BY <1>2, <2>2
  <2>. QED  BY <2>1, <2>2 DEF LastSays
<1>. QED
  BY <1>3, <1>4

-----------------------------------------------------------------------------
(* The invariant.                                                          *)

LEMMA InitInv == Init => IInv
<1> SUFFICES ASSUME Init PROVE IInv
  OBVIOUS
<1>1. TypeOK
  <2>1. \A f \in NumberFields : 0 \in Representable(f)
    BY SerializerAssumption DEF Representable, Unsigned, Signed
  <2>2. num \in [NumberFields -> Int] /\ \A f \in NumberFields : num[f] \in Representable(f)
    BY <2>1 DEF Init, Started
  <2>3. text \in [StringFields -> Texts]
    BY SerializerAssumption DEF Init, Started
  <2>4. attrs \in [ObjectFields -> SUBSET (Keys \X Texts)]
    BY DEF Init, Started
  <2>5. next \in 1..(Len(Order) + 1)
    BY OrderFacts DEF Init, Started
  <2>6. /\ json \in Inputs /\ printable \in BOOLEAN /\ row = <<>>
        /\ is_vaild \in BOOLEAN /\ done \in BOOLEAN /\ ended \in BOOLEAN
    BY DEF Init, Started
  <2>. QED  BY <2>2, <2>3, <2>4, <2>5, <2>6 DEF TypeOK
<1>2. Filling /\ Returned /\ RowMade
  BY DEF Init, Started, Filling, Returned, RowMade
<1>. QED
  BY <1>1, <1>2 DEF IInv

\* A block that is gone through, in general: it finds its member good, sets
\* it, and leaves what earlier blocks have set.
LEMMA FilledInv ==
    ASSUME IInv, NEW f \in Fields, next \in DOMAIN Order, Order[next] = f, Filled,
           Good(f), Set(f)', TypeOK',
           \A g \in Fields \ {f} : Set(g) => Set(g)'
    PROVE  IInv'
<1>1. /\ next' = next + 1 /\ UNCHANGED <<json, is_vaild, done, ended, row>>
      /\ next \in 1..10
  BY OrderFacts DEF Filled, input
<1>2. Filling'
  <2> SUFFICES ASSUME is_vaild', NEW i \in 1..(next' - 1)
               PROVE  (Good(Order[i]) /\ Set(Order[i]))'
    BY DEF Filling
  <2>1. \A g : Good(g)' <=> Good(g)
    BY <1>1 DEF Good
  <2>2. CASE i = next
    BY <2>1, <2>2
  <2>3. CASE i # next
    <3>1. i \in 1..(next - 1) /\ i \in 1..10 /\ is_vaild
      BY <1>1, <2>3
    <3>2. Order[i] \in Fields \ {f}
      BY <1>1, <2>3, <3>1, OrderFacts
    <3>3. Good(Order[i]) /\ Set(Order[i])
      BY <3>1 DEF IInv, Filling
    <3>. QED  BY <2>1, <3>2, <3>3
  <2>. QED  BY <2>2, <2>3
<1>3. row = <<>> /\ ~(done /\ is_vaild)
  BY <1>1 DEF IInv, Returned, RowMade
<1>4. Returned'
  BY <1>1, <1>3 DEF IInv, Returned, WellFormed
<1>5. RowMade'
  BY <1>1, <1>3 DEF RowMade
<1>. QED
  BY <1>2, <1>4, <1>5 DEF IInv

LEMMA FillNumberInv ==
    ASSUME IInv, NEW f \in NumberFields, FillNumber(f)
    PROVE  IInv'
<1>1. /\ f \in Fields /\ next \in DOMAIN Order /\ Order[next] = f /\ Filled
      /\ First(f).type = "number" /\ UNCHANGED <<text, attrs>>
  BY FieldKinds DEF FillNumber, Is
<1>2. json[f] # <<>> /\ First(f) = json[f][1]
  BY <1>1 DEF First, Missing, Item
<1>3. First(f).valuedouble \in Int
  BY <1>1, FirstType, ItemTypes DEF IInv, TypeOK
<1>4. PICK v \in Converted(First(f).valuedouble, Representable(f)) : num' = [num EXCEPT ![f] = v]
  BY DEF FillNumber
<1>5. /\ v \in Representable(f) /\ v \in Int
      /\ Truncated(First(f).valuedouble) \in Representable(f) => v = Truncated(First(f).valuedouble)
  BY <1>3, ConvertedFacts
<1>6. Good(f)
  BY <1>1, <1>2, FieldKinds DEF Good, TypeOf
<1>7. next' = next + 1 /\ UNCHANGED <<json, printable, is_vaild, done, ended, row>>
  BY <1>1 DEF Filled, input
<1>8. Set(f)'
  BY <1>2, <1>4, <1>5, <1>7, FieldKinds DEF Set, IInv, TypeOK
<1>9. TypeOK'
  BY <1>1, <1>4, <1>5, <1>7, OrderFacts DEF IInv, TypeOK
<1>10. \A g \in Fields \ {f} : Set(g) => Set(g)'
  BY <1>1, <1>4, <1>7 DEF Set, IInv, TypeOK
<1>. QED
  BY <1>1, <1>6, <1>8, <1>9, <1>10, FilledInv

LEMMA FillTextInv ==
    ASSUME IInv, NEW f \in StringFields, FillText(f)
    PROVE  IInv'
<1>1. /\ f \in Fields /\ next \in DOMAIN Order /\ Order[next] = f /\ Filled
      /\ First(f).type = "string" /\ UNCHANGED <<num, attrs>>
      /\ text' = [text EXCEPT ![Target(f)] = First(f).valuestring]
  BY FieldKinds DEF FillText, Is
<1>2. json[f] # <<>> /\ First(f) = json[f][1]
  BY <1>1 DEF First, Missing, Item
<1>3. First(f).valuestring \in Texts
  <2>1. First(f) \in Items(Members)
    BY <1>1, FirstType DEF IInv, TypeOK
  <2>. QED  BY <1>1, <2>1, ItemTypes
<1>4. Target(f) \in StringFields /\ Target(f) \in {f, "TraceId"}
  BY FieldKinds DEF Target
<1>5. f # "SpanId" => Target(f) = f
  BY DEF Target
<1>6. Good(f)
  BY <1>1, <1>2, FieldKinds DEF Good, TypeOf
<1>7. next' = next + 1 /\ UNCHANGED <<json, printable, is_vaild, done, ended, row>>
  BY <1>1 DEF Filled, input
<1>8. Set(f)'
  BY <1>1, <1>2, <1>4, <1>5, <1>7, FieldKinds DEF Set, IInv, TypeOK
<1>9. TypeOK'
  BY <1>1, <1>3, <1>4, <1>7, OrderFacts DEF IInv, TypeOK
<1>10. \A g \in Fields \ {f} : Set(g) => Set(g)'
  BY <1>1, <1>4, <1>7 DEF Set, IInv, TypeOK
<1>. QED
  BY <1>1, <1>6, <1>8, <1>9, <1>10, FilledInv

LEMMA FillObjectInv ==
    ASSUME IInv, NEW f \in ObjectFields, FillObject(f)
    PROVE  IInv'
<1>1. /\ f \in Fields /\ next \in DOMAIN Order /\ Order[next] = f /\ Filled
      /\ First(f).type = "object" /\ UNCHANGED <<num, text>>
      /\ AllTexts(First(f).child)
      /\ attrs' = [attrs EXCEPT ![f] = Kept(First(f).child)]
  BY FieldKinds DEF FillObject, Is
<1>2. json[f] # <<>> /\ First(f) = json[f][1]
  BY <1>1 DEF First, Missing, Item
<1>3. Kept(First(f).child) \in SUBSET (Keys \X Texts)
  <2>1. First(f).child \in Members
    BY <1>1, FirstType, ItemTypes DEF IInv, TypeOK
  <2>. QED  BY <1>1, <2>1, KeptFacts
<1>4. Good(f)
  BY <1>1, <1>2, FieldKinds DEF Good, TypeOf
<1>5. next' = next + 1 /\ UNCHANGED <<json, printable, is_vaild, done, ended, row>>
  BY <1>1 DEF Filled, input
<1>6. Set(f)'
  BY <1>1, <1>2, <1>5, FieldKinds DEF Set, IInv, TypeOK
<1>7. TypeOK'
  BY <1>1, <1>3, <1>5, OrderFacts DEF IInv, TypeOK
<1>8. \A g \in Fields \ {f} : Set(g) => Set(g)'
  BY <1>1, <1>5 DEF Set, IInv, TypeOK
<1>. QED
  BY <1>1, <1>4, <1>6, <1>7, <1>8, FilledInv

\* An early return, in general.
LEMMA InvalidInv ==
    ASSUME IInv, ~done, Invalid, ~WellFormed,
           UNCHANGED <<num, text>>, attrs' \in [ObjectFields -> SUBSET (Keys \X Texts)]
    PROVE  IInv'
<1>1. is_vaild' = FALSE /\ done' = TRUE /\ UNCHANGED <<json, printable, next, ended, row>>
  BY DEF Invalid, input
<1>2. TypeOK'
  BY <1>1 DEF IInv, TypeOK
<1>3. Filling' /\ Returned'
  BY <1>1 DEF Filling, Returned, WellFormed
<1>4. RowMade'
  BY <1>1 DEF IInv, RowMade
<1>. QED
  BY <1>2, <1>3, <1>4 DEF IInv

\* A message without items is not well formed.
LEMMA MalformedFacts == ASSUME json = Malformed PROVE ~WellFormed
<1>1. json["Timestamp"][1].type = "missing" /\ TypeOf("Timestamp") = "number"
  BY FieldKinds DEF Malformed, Missing, Item, TypeOf, NumberFields
<1>. QED
  BY <1>1, FieldKinds DEF WellFormed

LEMMA ParseFailsInv == ASSUME IInv, ParseFails PROVE IInv'
<1>1. ~WellFormed
  BY MalformedFacts DEF ParseFails
<1>2. attrs' \in [ObjectFields -> SUBSET (Keys \X Texts)]
  BY DEF ParseFails, log, IInv, TypeOK
<1>. QED
  BY <1>1, <1>2, InvalidInv DEF ParseFails, log

LEMMA WarnEndsInv == ASSUME IInv, WarnEnds PROVE IInv'
<1>1. /\ ended' = TRUE
      /\ UNCHANGED <<json, printable, next, num, text, attrs, is_vaild, done, row>>
  BY DEF WarnEnds, input, log
<1>2. ~WellFormed
  BY MalformedFacts DEF WarnEnds
<1>3. TypeOK'
  BY <1>1 DEF IInv, TypeOK
<1>4. Filling'
  BY <1>1 DEF IInv, Filling, Good, Set
<1>5. Returned'
  BY <1>1, <1>2 DEF IInv, Returned, WellFormed
<1>6. RowMade'
  BY <1>1 DEF IInv, RowMade, Column
<1>. QED
  BY <1>3, <1>4, <1>5, <1>6 DEF IInv

\* The item that a block of a text tests has one: it is its own, or that of
\* TraceId, whose block has passed.
LEMMA TestedText ==
    ASSUME IInv, is_vaild, NEW f \in StringFields, next \in DOMAIN Order, Order[next] = f,
           First(f).type = "string"
    PROVE  First(Tested(f)).valuestring # NULL
<1>1. First(f) \in Items(Members) /\ First("TraceId") \in Items(Members)
  BY FieldKinds, FirstType DEF IInv, TypeOK
<1>2. CASE Tested(f) = f
  BY <1>1, <1>2, ItemTypes
<1>3. CASE Tested(f) # f
  <2>1. Tested(f) = "TraceId" /\ f # "TraceId" /\ f # "Timestamp"
    BY <1>3 DEF Tested
  <2>2. Order[1] = "Timestamp" /\ Order[2] = "TraceId"
    BY DEF Order
  <2>3. next \in 1..10 /\ 2 \in 1..(next - 1)
    BY <2>1, <2>2, OrderFacts
  <2>4. Good("TraceId")
    BY <2>2, <2>3 DEF IInv, Filling
  <2>5. First("TraceId").type = "string"
    BY <2>4, FieldKinds DEF Good, First, TypeOf
  <2>. QED  BY <1>1, <2>1, <2>5, ItemTypes
<1>. QED
  BY <1>2, <1>3

LEMMA WrongTypeInv == ASSUME IInv, WrongType PROVE IInv'
<1>1. /\ next \in DOMAIN Order /\ next \in 1..10 /\ Order[next] \in Fields
      /\ is_vaild /\ json # Malformed
  BY OrderFacts DEF WrongType, IInv, Returned
<1>2. First(Order[next]).type # TypeOf(Order[next])
  <2>1. CASE Order[next] \in StringFields
    BY <1>1, <2>1, TestedText, FieldKinds DEF WrongType, Passes, Is, TypeOf
  <2>2. CASE Order[next] \notin StringFields
    BY <1>1, <2>2 DEF WrongType, Passes, Is
  <2>. QED  BY <2>1, <2>2
<1>3. ~WellFormed
  BY <1>1, <1>2 DEF WellFormed, First
<1>4. attrs' \in [ObjectFields -> SUBSET (Keys \X Texts)]
  BY DEF WrongType, log, IInv, TypeOK
<1>. QED
  BY <1>3, <1>4, InvalidInv DEF WrongType, log

LEMMA BadMemberInv ==
    ASSUME IInv, NEW f \in ObjectFields, BadMember(f)
    PROVE  IInv'
<1> DEFINE c == First(f).child
<1>1. f \in Fields /\ First(f).type = "object" /\ ~done /\ Invalid /\ UNCHANGED <<num, text>>
  BY FieldKinds DEF BadMember, Is
<1>2. PICK i \in DOMAIN c : /\ ~IsText(c[i].item)
                            /\ \A j \in DOMAIN c : ~IsText(c[j].item) => i <= j
                            /\ attrs' = [attrs EXCEPT ![f] = Kept(SubSeq(c, 1, i - 1))]
  BY DEF BadMember
<1>3. c \in Members
  BY <1>1, FirstType, ItemTypes DEF IInv, TypeOK
<1>4. SubSeq(c, 1, i - 1) \in Members
  <2> DEFINE M == [key : Keys, item : Items({<<>>})]
  <2>1. c \in Seq(M)
    BY <1>3 DEF Members
  <2> HIDE DEF M
  <2>2. i \in 1..Len(c) /\ Len(c) \in Nat
    BY <2>1
  <2>3. SubSeq(c, 1, i - 1) \in Seq(M)
    BY <2>1, <2>2
  <2>. QED  BY <2>3 DEF M, Members
<1>5. Kept(SubSeq(c, 1, i - 1)) \in SUBSET (Keys \X Texts)
  <2>1. i \in 1..Len(c) /\ Len(c) \in Nat /\ DOMAIN c = 1..Len(c)
    BY <1>3, MembersFacts
  <2>2. DOMAIN SubSeq(c, 1, i - 1) = 1..(i - 1)
    BY <2>1, <1>4, MembersFacts
  <2>3. \A j \in 1..(i - 1) : SubSeq(c, 1, i - 1)[j] = c[j] /\ j \in DOMAIN c /\ ~(i <= j)
    BY <2>1
  <2>4. AllTexts(SubSeq(c, 1, i - 1))
    BY <1>2, <2>2, <2>3 DEF AllTexts
  <2>. QED  BY <1>4, <2>4, KeptFacts
<1>6. attrs' \in [ObjectFields -> SUBSET (Keys \X Texts)]
  BY <1>2, <1>5 DEF IInv, TypeOK
<1>7. ~WellFormed
  <2>1. json[f] # <<>> /\ First(f) = json[f][1]
    BY <1>1 DEF First, Missing, Item
  <2>2. c[i].item.type # "string"
    BY <1>2, <1>3, MembersFacts
  <2>. QED  BY <1>1, <2>1, <2>2 DEF WellFormed
<1>. QED
  BY <1>1, <1>6, <1>7, InvalidInv

LEMMA ReturnInv == ASSUME IInv, Return PROVE IInv'
<1>1. /\ next = 11 /\ ~done /\ done' = TRUE
      /\ UNCHANGED <<json, printable, next, num, text, attrs, is_vaild, ended, row>>
  BY OrderFacts DEF Return, input, log
<1>2. TypeOK' /\ Returned'
  BY <1>1 DEF IInv, TypeOK, Returned, WellFormed
<1>3. Filling'
  BY <1>1 DEF IInv, Filling, Good, Set
<1>4. RowMade'
  BY <1>1 DEF IInv, RowMade
<1>. QED
  BY <1>2, <1>3, <1>4 DEF IInv

LEMMA CreateSubqueryInv == ASSUME IInv, CreateSubquery PROVE IInv'
<1>1. /\ done /\ is_vaild
      /\ UNCHANGED <<json, printable, next, num, text, attrs, is_vaild, done, ended>>
      /\ row' = [i \in DOMAIN Order |-> Column(Order[i])]
  BY DEF CreateSubquery, input, log
<1>2. Len(row') = Len(Order)
  BY <1>1, OrderFacts
<1>3. TypeOK'
  BY <1>1, <1>2 DEF IInv, TypeOK
<1>4. Filling' /\ Returned'
  BY <1>1 DEF IInv, Filling, Good, Set, Returned, WellFormed
<1>5. RowMade'
  BY <1>1 DEF RowMade, Column
<1>. QED
  BY <1>3, <1>4, <1>5 DEF IInv

LEMMA NextInv == IInv /\ [Next]_vars => IInv'
<1> SUFFICES ASSUME IInv, [Next]_vars PROVE IInv'
  OBVIOUS
<1>1. CASE UNCHANGED vars
  BY <1>1 DEF vars, input, log, IInv, TypeOK, Filling, Good, Set, Returned, WellFormed,
              RowMade, Column
<1>2. CASE Next
  BY <1>2, ParseFailsInv, WarnEndsInv, FillNumberInv, FillTextInv, FillObjectInv, BadMemberInv,
     WrongTypeInv, ReturnInv, CreateSubqueryInv DEF Next
<1>. QED
  BY <1>1, <1>2

LEMMA Invariance == Spec => []IInv
BY InitInv, NextInv, PTL DEF Spec

-----------------------------------------------------------------------------
\* TypeOK: the members of a Log have their types, whatever numbers JSON brings.
THEOREM TypeCorrect == Spec => []TypeOK
<1>1. IInv => TypeOK
  BY DEF IInv
<1>. QED
  BY <1>1, Invariance, PTL

\* All blocks have found their members good in a Log that is returned valid.
LEMMA AllGood == ASSUME IInv, done, is_vaild, NEW f \in Fields PROVE Good(f) /\ Set(f)
<1>1. next = 11
  BY DEF IInv, Returned
<1>2. PICK i \in 1..10 : f = Order[i]
  BY OrderFacts
<1>. QED
  BY <1>1, <1>2 DEF IInv, Filling

\* ValidIffWellFormed: the ten blocks together accept the well-formed
\* messages and no others.
THEOREM ValidityExact == Spec => []ValidIffWellFormed
<1>1. IInv => ValidIffWellFormed
  <2> SUFFICES ASSUME IInv PROVE ValidIffWellFormed
    OBVIOUS
  <2>1. ASSUME done, is_vaild PROVE WellFormed
    <3>1. ASSUME NEW f \in Fields
          PROVE  /\ json[f] # <<>> /\ json[f][1].type = TypeOf(f)
                 /\ f \in ObjectFields => \A i \in DOMAIN json[f][1].child :
                                              json[f][1].child[i].item.type = "string"
      BY <2>1, AllGood DEF Good, AllTexts, IsText
    <3>. QED  BY <3>1 DEF WellFormed
  <2>2. (WellFormed => is_vaild) /\ (ended => ~WellFormed)
    BY DEF IInv, Returned, TypeOK
  <2>. QED  BY <2>1, <2>2 DEF ValidIffWellFormed
<1>. QED
  BY <1>1, Invariance, PTL

\* A text that needs no escape is read from between its quotes, and no other
\* text is.
LEMMA WrapSays ==
    ASSUME NEW s \in Seq(Nat), NEW t \in Seq(Nat), NEW quote \in Nat
    PROVE  /\ Says(wrap(s, quote), quote, t) => s = t
           /\ Says(wrap(s, quote), quote, s) <=> \A i \in DOMAIN s : s[i] # quote
<1> DEFINE w == wrap(s, quote)
<1>1. DOMAIN s = 1..Len(s) /\ DOMAIN t = 1..Len(t)
  OBVIOUS
<1>2. /\ w[1] = quote /\ w[Len(s) + 2] = quote
      /\ \A i \in 1..Len(s) : w[i + 1] = s[i]
  BY DEF wrap
<1>3. Len(w) = Len(s) + 2 /\ Len(s) \in Nat /\ Len(t) \in Nat
  BY DEF wrap
<1> HIDE DEF w
<1>4. ASSUME Says(w, quote, t) PROVE s = t
  <2>1. Len(w) = Len(t) + 2
    BY <1>4 DEF Says
  <2>2. Len(s) = Len(t)
    BY <1>3, <2>1
  <2>3. \A i \in 1..Len(t) : w[i + 1] = t[i]
    BY <1>1, <1>4, Zenon DEF Says
  <2>4. \A i \in 1..Len(t) : s[i] = t[i]
    BY <1>2, <2>2, <2>3, Zenon
  <2>5. s = [i \in 1..Len(s) |-> s[i]] /\ t = [i \in 1..Len(t) |-> t[i]]
    BY <1>1
  <2>. QED  BY <2>2, <2>4, <2>5
<1>5. Says(w, quote, s) <=> \A i \in DOMAIN s : s[i] # quote
  <2>1. Len(w) = Len(s) + 2 /\ w[1] = quote /\ w[Len(w)] = quote
    BY <1>2, <1>3
  <2>2. \A i \in DOMAIN s : w[i + 1] = s[i]
    BY <1>1, <1>2
  <2>3. ASSUME Says(w, quote, s) PROVE \A i \in DOMAIN s : s[i] # quote
    BY <2>3 DEF Says
  <2>4. ASSUME \A i \in DOMAIN s : s[i] # quote PROVE Says(w, quote, s)
    BY <2>1, <2>2, <2>4, Zenon DEF Says
  <2>. QED  BY <2>3, <2>4
<1>. QED
  BY <1>4, <1>5 DEF w

\* RowFaithful: a column is read as what the message says under its name.
THEOREM RowsFaithful == Spec => []RowFaithful
<1>1. IInv => RowFaithful
  <2> SUFFICES ASSUME IInv, row # <<>>, PlainMessage, NEW i \in DOMAIN Order
               PROVE  LET f == Order[i]
                          item == json[f][1]
                      IN  /\ f \in NumberFields /\ Truncated(item.valuedouble) \in Representable(f)
                                 => row[i].number = Truncated(item.valuedouble)
                          /\ f \in StringFields \ {"TraceId", "SpanId"}
                                 => Says(row[i].string, Single, item.valuestring)
                          /\ f \in ObjectFields =>
                                 \A key \in Keys, s \in Texts :
                                     LastSays(item.child, key, s) <=>
                                         \E p \in row[i].map : /\ Says(p[1], Double, key)
                                                              /\ Says(p[2], Double, s)
    BY DEF RowFaithful
  <2> DEFINE f == Order[i]
             item == json[f][1]
  <2>1. f \in Fields /\ done /\ is_vaild /\ row[i] = Column(f)
    BY OrderFacts DEF IInv, RowMade
  <2>2. Good(f) /\ Set(f)
    BY <2>1, AllGood
  <2>3. item = First(f) /\ item \in Items(Members)
    BY <2>1, <2>2, FirstType DEF Good, First, IInv, TypeOK
  <2>4. f \in NumberFields /\ Truncated(item.valuedouble) \in Representable(f)
            => row[i].number = Truncated(item.valuedouble)
    BY <2>1, <2>2 DEF Set, Column
  <2>5. ASSUME f \in StringFields \ {"TraceId", "SpanId"}
        PROVE  Says(row[i].string, Single, item.valuestring)
    <3>1. row[i].string = wrap(item.valuestring, Single)
      BY <2>1, <2>2, <2>5 DEF Set, Column
    <3>2. item.type = "string"
      BY <2>2, <2>5, FieldKinds DEF Good, TypeOf
    <3>3. item.valuestring \in Seq(Nat)
      BY <2>3, <3>2, ItemTypes, SerializerAssumption
    <3>4. \A j \in DOMAIN item.valuestring : item.valuestring[j] # Single
      BY <2>5 DEF PlainMessage, Plain
    <3>. QED  BY <3>1, <3>3, <3>4, WrapSays DEF Single
  <2>6. ASSUME f \in ObjectFields, NEW key \in Keys, NEW s \in Texts
        PROVE  LastSays(item.child, key, s) <=>
                   \E p \in row[i].map : Says(p[1], Double, key) /\ Says(p[2], Double, s)
    <3>1. row[i].map = {<<wrap(p[1], Double), wrap(p[2], Double)>> : p \in Kept(item.child)}
      BY <2>1, <2>2, <2>6 DEF Set, Column
    <3>2. item.child \in Members /\ AllTexts(item.child)
      BY <2>2, <2>3, <2>6, ItemTypes DEF Good
    <3>3. Keys \subseteq Seq(Nat) /\ Texts \subseteq Seq(Nat) /\ Double \in Nat
      BY SerializerAssumption DEF Double
    <3>4. ASSUME LastSays(item.child, key, s)
          PROVE  \E p \in row[i].map : Says(p[1], Double, key) /\ Says(p[2], Double, s)
      <4>1. <<key, s>> \in Kept(item.child)
        BY <3>2, <3>4, KeptFacts
      <4>2. <<wrap(key, Double), wrap(s, Double)>> \in row[i].map
        BY <3>1, <4>1
      <4>3. PICK m \in DOMAIN item.child : /\ item.child[m].key = key
                                           /\ item.child[m].item.valuestring = s
        BY <3>4 DEF LastSays
      <4>4. PlainInMap(key) /\ PlainInMap(s)
        BY <2>6, <4>3 DEF PlainMessage
      <4>5. Says(wrap(key, Double), Double, key) /\ Says(wrap(s, Double), Double, s)
        BY <3>3, <4>4, WrapSays DEF PlainInMap
      <4>. QED  BY <4>2, <4>5
    <3>5. ASSUME NEW p \in row[i].map, Says(p[1], Double, key), Says(p[2], Double, s)
          PROVE  LastSays(item.child, key, s)
      <4>1. PICK q \in Kept(item.child) : p = <<wrap(q[1], Double), wrap(q[2], Double)>>
        BY <3>1
      <4>2. q \in Keys \X Texts
        BY <3>2, KeptFacts
      <4>3. q = <<q[1], q[2]>> /\ q[1] \in Seq(Nat) /\ q[2] \in Seq(Nat)
        BY <3>3, <4>2
      <4>4. q[1] = key /\ q[2] = s
        BY <3>3, <3>5, <4>1, <4>3, WrapSays
      <4>. QED  BY <3>2, <4>3, <4>4, KeptFacts
    <3>. QED  BY <3>4, <3>5
  <2>. QED  BY <2>4, <2>5, <2>6
<1>. QED
  BY <1>1, Invariance, PTL

-----------------------------------------------------------------------------
(* What RowFaithful leaves out.                                            *)

\* The block of SpanId overwrites what the block of TraceId has set.
Ids == /\ text["SpanId"] = NoText
       /\ is_vaild /\ next > 3 => text["TraceId"] = json["SpanId"][1].valuestring

LEMMA IdsOrder == /\ Order[2] = "TraceId" /\ Order[3] = "SpanId"
                  /\ \A i \in 1..10 : i > 3 => Order[i] # "TraceId" /\ Order[i] # "SpanId"
<1>1. Order[2] = "TraceId" /\ Order[3] = "SpanId"
  BY DEF Order
<1>. QED
  BY <1>1, OrderFacts

LEMMA IdsNext == IInv /\ Ids /\ [Next]_vars => Ids'
<1> SUFFICES ASSUME IInv, Ids, [Next]_vars PROVE Ids'
  OBVIOUS
<1>0. next \in Nat /\ text \in [StringFields -> Texts]
  BY OrderFacts DEF IInv, TypeOK
<1>1. ASSUME NEW f \in StringFields, FillText(f) PROVE Ids'
  <2>1. /\ next \in 1..10 /\ Order[next] = f /\ First(f).type = "string"
        /\ next' = next + 1 /\ json' = json /\ is_vaild' = is_vaild
        /\ text' = [text EXCEPT ![Target(f)] = First(f).valuestring]
    BY <1>1, OrderFacts DEF FillText, Is, Filled, input
  <2>2. First(f) = json[f][1]
    BY <2>1 DEF First, Missing, Item
  <2>3. Target(f) # "SpanId" /\ Target(f) \in StringFields
    BY FieldKinds DEF Target
  <2>4. text'["SpanId"] = NoText
    BY <1>0, <2>1, <2>3, FieldKinds DEF Ids
  <2>5. CASE next = 3
    <3>1. f = "SpanId" /\ Target(f) = "TraceId"
      BY <2>1, <2>5, IdsOrder DEF Target
    <3>. QED  BY <1>0, <2>1, <2>2, <2>3, <2>4, <3>1 DEF Ids
  <2>6. CASE next > 3
    <3>1. Target(f) # "TraceId"
      BY <2>1, <2>6, IdsOrder DEF Target
    <3>. QED  BY <1>0, <2>1, <2>3, <2>4, <2>6, <3>1, FieldKinds DEF Ids
  <2>7. CASE next < 3
    BY <2>1, <2>4, <2>7 DEF Ids
  <2>. QED  BY <1>0, <2>5, <2>6, <2>7
<1>2. ASSUME NEW f \in Fields \ StringFields, Is(f, TypeOf(f)), Filled, text' = text
      PROVE  Ids'
  <2>1. /\ next \in 1..10 /\ Order[next] = f /\ next # 3
        /\ next' = next + 1 /\ json' = json /\ is_vaild' = is_vaild
    BY <1>2, OrderFacts, IdsOrder, FieldKinds DEF Is, Filled, input
  <2>. QED  BY <1>2, <2>1 DEF Ids
<1>3. ASSUME NEW f \in NumberFields, FillNumber(f) PROVE Ids'
  BY <1>2, <1>3, FieldKinds DEF FillNumber, TypeOf
<1>4. ASSUME NEW f \in ObjectFields, FillObject(f) PROVE Ids'
  BY <1>2, <1>4, FieldKinds DEF FillObject, TypeOf
<1>5. ASSUME Invalid, text' = text PROVE Ids'
  BY <1>5 DEF Invalid, Ids
<1>6. ParseFails \/ WrongType \/ (\E f \in ObjectFields : BadMember(f)) => Ids'
  BY <1>5 DEF ParseFails, WrongType, BadMember, log
<1>7. WarnEnds \/ Return \/ CreateSubquery \/ UNCHANGED vars => Ids'
  BY DEF WarnEnds, Return, CreateSubquery, vars, input, log, Ids
<1>. QED
  BY <1>1, <1>3, <1>4, <1>6, <1>7 DEF Next

\* Whatever trace a message names, its row has the span's id in the column
\* TraceId and an empty text in the column SpanId.
SpanForTrace == row # <<>> => /\ row[2].string = wrap(json["SpanId"][1].valuestring, Single)
                              /\ row[3].string = wrap(NoText, Single)

THEOREM IdsMixedUp == Spec => []SpanForTrace
<1>1. Init => Ids
  BY FieldKinds DEF Init, Started, Ids
<1>2. IInv /\ Ids => SpanForTrace
  <2> SUFFICES ASSUME IInv, Ids, row # <<>>
               PROVE  /\ row[2].string = wrap(json["SpanId"][1].valuestring, Single)
                      /\ row[3].string = wrap(NoText, Single)
    BY DEF SpanForTrace
  <2>1. next = 11 /\ is_vaild /\ row = [i \in DOMAIN Order |-> Column(Order[i])]
    BY DEF IInv, RowMade, Returned
  <2>2. row[2] = Column("TraceId") /\ row[3] = Column("SpanId")
    BY <2>1, OrderFacts, IdsOrder
  <2>. QED  BY <2>1, <2>2, FieldKinds DEF Column, Ids
<1>. QED
  BY <1>1, <1>2, IdsNext, Invariance, PTL DEF Spec

\* A text with a quote stays one: its literal in the query is not read as
\* the text, since nothing is escaped.
QuotesUnescaped == row # <<>> => \A i \in DOMAIN Order :
    LET f == Order[i]
    IN  f \in StringFields \ {"TraceId", "SpanId"} =>
            (Says(row[i].string, Single, json[f][1].valuestring) <=> Plain(json[f][1].valuestring))

THEOREM QuotesBreakRows == Spec => []QuotesUnescaped
<1>1. IInv => QuotesUnescaped
  <2> SUFFICES ASSUME IInv, row # <<>>, NEW i \in DOMAIN Order,
                      Order[i] \in StringFields \ {"TraceId", "SpanId"}
               PROVE  Says(row[i].string, Single, json[Order[i]][1].valuestring)
                          <=> Plain(json[Order[i]][1].valuestring)
    BY DEF QuotesUnescaped
  <2> DEFINE f == Order[i]
             s == json[f][1].valuestring
  <2>1. f \in Fields /\ done /\ is_vaild /\ row[i] = Column(f)
    BY OrderFacts DEF IInv, RowMade
  <2>2. Good(f) /\ Set(f)
    BY <2>1, AllGood
  <2>3. row[i].string = wrap(s, Single)
    BY <2>1, <2>2 DEF Set, Column
  <2>4. json[f][1] \in Items(Members)
    BY <2>1, <2>2, FirstType DEF Good, First, IInv, TypeOK
  <2>5. json[f][1].type = "string"
    BY <2>2, FieldKinds DEF Good, TypeOf
  <2>6. s \in Seq(Nat)
    BY <2>4, <2>5, ItemTypes, SerializerAssumption
  <2> HIDE DEF s
  <2>7. Says(wrap(s, Single), Single, s) <=> \A j \in DOMAIN s : s[j] # Single
    BY <2>6, WrapSays DEF Single
  <2>. QED  BY <2>3, <2>7 DEF Plain, s
<1>. QED
  BY <1>1, Invariance, PTL

-----------------------------------------------------------------------------
(* Loops.  The state after n iterations is f[n], and a theorem about all   *)
(* iterations is an induction; as no prover takes a predicate for a        *)
(* parameter, it is stated for the set of the numbers that are good.       *)

\* The first number of a set is below all others.
LEMMA FirstNumber == ASSUME NEW T, T \subseteq Nat, T # {}
                     PROVE  \E x \in T : \A y \in T : ~(y < x)
<1>1. \E x \in T : \A y \in T : <<y, x>> \notin OpToRel(<, Nat)
  BY NatLessThanWellFounded, WFMin
<1>2. \A x, y \in Nat : x < y => <<x, y>> \in OpToRel(<, Nat)
  BY Zenon DEF OpToRel
<1>. QED  BY <1>1, <1>2

\* Induction, over a set instead of a predicate.
LEMMA Induction == ASSUME NEW S, 0 \in S, \A n \in Nat : n \in S => n + 1 \in S
                   PROVE  Nat \subseteq S
<1>. DEFINE T == Nat \ S
<1>1. CASE T # {}
  <2>1. PICK x \in T : \A y \in T : ~(y < x)
    BY <1>1, FirstNumber
  <2>2. x # 0 /\ x - 1 \in Nat /\ x - 1 < x /\ (x - 1) + 1 = x
    BY <2>1
  <2>3. x - 1 \in S
    BY <2>1, <2>2
  <2>. QED  BY <2>1, <2>2, <2>3
<1>. QED  BY <1>1

\* A loop is a function: what its body makes of the first state, again and
\* again, exists.
Follows(f, n, base, step) == /\ f[0] = base
                             /\ \A i \in 1..n : f[i] = step[f[i - 1]]

LEMMA Iteration ==
  ASSUME NEW T, NEW base \in T, NEW step \in [T -> T]
  PROVE  \E f \in [Nat -> T] : /\ f[0] = base
                               /\ \A n \in Nat : n # 0 => f[n] = step[f[n - 1]]
<1>. DEFINE Part(n) == {g \in [0..n -> T] : Follows(g, n, base, step)}
            S == {n \in Nat : Part(n) # {}}
            Same == {n \in Nat : \A k, l \in Nat : n <= k /\ n <= l =>
                         \A g \in Part(k), h \in Part(l) : g[n] = h[n]}
<1>1. Nat \subseteq S
  <2>1. 0 \in S
    <3>1. [i \in 0..0 |-> base] \in Part(0)
      BY DEF Follows
    <3>. QED  BY <3>1
  <2>2. ASSUME NEW n \in Nat, n \in S PROVE n + 1 \in S
    <3>1. PICK g \in [0..n -> T] : Follows(g, n, base, step)
      BY <2>2
    <3>. DEFINE h == [i \in 0..(n + 1) |-> IF i = n + 1 THEN step[g[n]] ELSE g[i]]
    <3>2. h \in [0..(n + 1) -> T]
      OBVIOUS
    <3>3. Follows(h, n + 1, base, step)
      <4>1. h[0] = base
        BY <3>1 DEF Follows
      <4>2. ASSUME NEW i \in 1..(n + 1) PROVE h[i] = step[h[i - 1]]
        BY <3>1 DEF Follows
      <4>. QED  BY <4>1, <4>2 DEF Follows
    <3>. QED  BY <3>2, <3>3
  <2>. HIDE DEF S
  <2>. QED  BY <2>1, <2>2, Induction
<1>2. Nat \subseteq Same
  <2>1. 0 \in Same
    BY DEF Follows
  <2>2. ASSUME NEW n \in Nat, n \in Same PROVE n + 1 \in Same
    <3>1. ASSUME NEW k \in Nat, NEW l \in Nat, n + 1 <= k, n + 1 <= l,
                 NEW g \in Part(k), NEW h \in Part(l)
          PROVE  g[n + 1] = h[n + 1]
      <4>1. g[n] = h[n]
        BY <2>2, <3>1
      <4>2. g[n + 1] = step[g[(n + 1) - 1]] /\ h[n + 1] = step[h[(n + 1) - 1]]
        BY <3>1 DEF Follows
      <4>3. (n + 1) - 1 = n
        OBVIOUS
      <4>. QED  BY <4>1, <4>2, <4>3
    <3>. QED  BY <3>1
  <2>. HIDE DEF Same
  <2>. QED  BY <2>1, <2>2, Induction
<1>. DEFINE part(n) == CHOOSE g : g \in Part(n)
            f == [n \in Nat |-> part(n)[n]]
<1>3. ASSUME NEW n \in Nat PROVE part(n) \in Part(n)
  <2>1. Part(n) # {}
    BY <1>1
  <2>. HIDE DEF Part
  <2>. QED  BY <2>1
<1>4. f \in [Nat -> T]
  BY <1>3, SMTT(30)
<1>5. ASSUME NEW n \in Nat PROVE f[n] = IF n = 0 THEN base ELSE step[f[n - 1]]
  <2>1. CASE n = 0
    BY <1>3, <2>1 DEF Follows
  <2>2. CASE n # 0
    <3>1. n - 1 \in Nat /\ n \in 1..n
      BY <2>2
    <3>2. f[n] = step[part(n)[n - 1]]
      BY <1>3, <2>2, <3>1 DEF Follows
    <3>3. part(n)[n - 1] = part(n - 1)[n - 1]
      <4>1. part(n) \in Part(n) /\ part(n - 1) \in Part(n - 1)
        BY <1>3, <3>1
      <4>2. n - 1 \in Same /\ n - 1 <= n /\ n - 1 <= n - 1
        BY <1>2, <3>1
      <4>. HIDE DEF Part, part
      <4>. QED  BY <3>1, <4>1, <4>2
    <3>4. f[n - 1] = part(n - 1)[n - 1]
      BY <3>1
    <3>. HIDE DEF f, part
    <3>. QED  BY <2>2, <3>2, <3>3, <3>4
  <2>. QED  BY <2>1, <2>2
<1>. HIDE DEF f
<1>. QED  BY <1>4, <1>5

-----------------------------------------------------------------------------
(* The two loops.                                                          *)

Code == Nat   \* codes above 255 stand for literals and names, as in Json
ScanState == [input_end : Nat \ {0}, skipped_bytes : Nat]
CopyState == [at : Nat \ {0}, out : Seq(Code), ok : BOOLEAN]

LEMMA ScanOneType ==
  ASSUME NEW s \in Seq(Code), NEW x \in ScanState
  PROVE  ScanOne(s, x) \in ScanState
BY DEF ScanOne, Scanned, ScanState

LEMMA ScanIteration ==
  ASSUME NEW b \in ScanState, NEW g \in [ScanState -> ScanState]
  PROVE  \E f \in [Nat -> ScanState] : /\ f[0] = b
                                       /\ \A n \in Nat : n # 0 => f[n] = g[f[n - 1]]
BY Iteration

LEMMA ScanLoop ==
  ASSUME NEW s \in Seq(Code), NEW o \in Nat \ {0}
  PROVE  /\ Scan(s, o) \in [Nat -> ScanState]
         /\ Scan(s, o)[0] = [input_end |-> o + 1, skipped_bytes |-> 0]
         /\ \A n \in Nat : Scan(s, o)[n + 1] = ScanOne(s, Scan(s, o)[n])
<1>. DEFINE first == [input_end |-> o + 1, skipped_bytes |-> 0]
            body == [x \in ScanState |-> ScanOne(s, x)]
            Loop(f) == f = [n \in Nat |-> IF n = 0 THEN first ELSE ScanOne(s, f[n - 1])]
<1>1. first \in ScanState /\ body \in [ScanState -> ScanState]
  BY ScanOneType DEF ScanState
<1>2. \A x \in ScanState : body[x] = ScanOne(s, x)
  OBVIOUS
<1>. HIDE DEF first, body, Loop
<1>3. PICK f \in [Nat -> ScanState] : /\ f[0] = first
                                      /\ \A n \in Nat : n # 0 => f[n] = body[f[n - 1]]
  BY <1>1, ScanIteration, Zenon
<1>4. Loop(f)
  <2>1. ASSUME NEW n \in Nat
        PROVE  f[n] = IF n = 0 THEN first ELSE ScanOne(s, f[n - 1])
    <3>1. CASE n # 0
      <4>1. f[n - 1] \in ScanState
        BY <3>1
      <4>. QED  BY <1>2, <1>3, <3>1, <4>1
    <3>. QED  BY <1>3, <3>1
  <2>2. f = [n \in Nat |-> f[n]]
    OBVIOUS
  <2>. QED  BY <2>1, <2>2, Zenon DEF Loop
<1>5. Loop(Scan(s, o))
  <2>1. Scan(s, o) = CHOOSE g : Loop(g)
    BY Zenon DEF Scan, first, Loop
  <2>. QED  BY <1>4, <2>1, Zenon
<1>6. Scan(s, o)[0] = first /\ \A n \in Nat : Scan(s, o)[n + 1] = ScanOne(s, Scan(s, o)[n])
  BY <1>5 DEF Loop
<1>7. \A n \in Nat : Scan(s, o)[n] \in ScanState
  <2>. DEFINE S == {n \in Nat : Scan(s, o)[n] \in ScanState}
  <2>1. 0 \in S
    BY <1>1, <1>6
  <2>2. ASSUME NEW n \in Nat, n \in S PROVE n + 1 \in S
    <3>1. ScanOne(s, Scan(s, o)[n]) \in ScanState
      BY <2>2, ScanOneType
    <3>2. Scan(s, o)[n + 1] = ScanOne(s, Scan(s, o)[n])
      BY <1>6, Zenon
    <3>3. Scan(s, o)[n + 1] \in ScanState
      BY <3>1, <3>2, Zenon
    <3>. QED  BY <3>3
  <2>. HIDE DEF S
  <2>3. Nat \subseteq S
    BY <2>1, <2>2, Induction
  <2>. QED  BY <2>3 DEF S
<1>. QED  BY <1>5, <1>6, <1>7 DEF first, Loop

\* A literal is read from at most 12 bytes and makes at most 4.
LEMMA HexType == \A c \in Code : HexDigit(c) \in 0..16
BY DEF HexDigit, Code, Digits

LEMMA ParseHex4Type ==
  ASSUME NEW s \in Seq(Code), NEW o \in Nat \ {0}, o + 3 <= Len(s)
  PROVE  ParseHex4(s, o) \in Nat /\ ParseHex4(s, o) < 65536
<1>1. /\ HexDigit(s[o + 0]) \in 0..16 /\ HexDigit(s[o + 1]) \in 0..16
      /\ HexDigit(s[o + 2]) \in 0..16 /\ HexDigit(s[o + 3]) \in 0..16
  <2>1. \A i \in 0..3 : o + i \in 1..Len(s)
    BY SMT
  <2>2. \A i \in 0..3 : s[o + i] \in Code
    BY <2>1, SMT
  <2>3. 0 \in 0..3 /\ 1 \in 0..3 /\ 2 \in 0..3 /\ 3 \in 0..3
    BY SMT
  <2>. QED  BY <2>2, <2>3, HexType, Zenon
<1>. DEFINE a == HexDigit(s[o + 0])
            b == HexDigit(s[o + 1])
            c == HexDigit(s[o + 2])
            d == HexDigit(s[o + 3])
<1>2. ParseHex4(s, o) = IF a = 16 \/ b = 16 \/ c = 16 \/ d = 16 THEN 0
                        ELSE 16 * (16 * (16 * a + b) + c) + d
  BY DEF ParseHex4
<1>3. a \in 0..16 /\ b \in 0..16 /\ c \in 0..16 /\ d \in 0..16
  BY <1>1
<1>. HIDE DEF a, b, c, d
<1>4. CASE a = 16 \/ b = 16 \/ c = 16 \/ d = 16
  BY <1>2, <1>4, SMT
<1>5. CASE ~(a = 16 \/ b = 16 \/ c = 16 \/ d = 16)
  <2>1. ParseHex4(s, o) = 16 * (16 * (16 * a + b) + c) + d
    BY <1>2, <1>5, SMT
  <2>2. a \in 0..15 /\ b \in 0..15 /\ c \in 0..15 /\ d \in 0..15
    BY <1>3, <1>5, SMT
  <2>. QED  BY <2>1, <2>2, SMT
<1>. QED  BY <1>4, <1>5, SMT

LEMMA SixBits == \A c \in Nat : c \div 64 \in Nat /\ c % 64 \in 0..63
BY SMT

LEMMA Small == \A c \in Nat, m \in Nat : c < m => c % m = c
BY SMT

LEMMA Shifts ==
  ASSUME NEW c \in Nat
  PROVE  /\ (c \div 64) \div 64 = c \div 4096
         /\ ((c \div 64) \div 64) \div 64 = c \div 262144
BY SMT

LEMMA ShiftsBound ==
  ASSUME NEW code \in Nat, code < 1114112
  PROVE  /\ code \div 64 \in Nat /\ code \div 4096 \in Nat /\ code \div 262144 \in Nat
         /\ code < 2048 => code \div 64 < 32
         /\ code < 65536 => code \div 4096 < 16
         /\ code \div 262144 < 8
         /\ code \div 1 = code
BY SMT

\* What Unicode has numbers for.
IsCode(code) == code \in Nat /\ code < 1114112

LEMMA EncodeIsUtf8 == ASSUME NEW code, IsCode(code) PROVE Encode(code) = Utf8(code)
<1>1. code \in Nat /\ code < 1114112
  BY SMT DEF IsCode
<1>2. /\ (code \div 64) \div 64 = code \div 4096
      /\ ((code \div 64) \div 64) \div 64 = code \div 262144
  BY <1>1, Shifts, SMT
<1>3. /\ code < 2048 => (code \div 64) % 32 = code \div 64
      /\ code < 65536 => (code \div 4096) % 16 = code \div 4096
      /\ (code \div 262144) % 8 = code \div 262144
      /\ code \div 1 = code
  BY <1>1, Small, ShiftsBound, SMT
<1>4. CASE code < 128
  BY <1>1, <1>4, SMT DEF Encode, Utf8
<1>5. CASE code >= 128 /\ code < 2048
  BY <1>1, <1>3, <1>5, SMT DEF Encode, Utf8, Continuation
<1>6. CASE code >= 2048 /\ code < 65536
  BY <1>1, <1>2, <1>3, <1>6, SMT DEF Encode, Utf8, Continuation
<1>7. CASE code >= 65536
  BY <1>1, <1>2, <1>3, <1>7, SMT DEF Encode, Utf8, Continuation
<1>. QED  BY <1>1, <1>4, <1>5, <1>6, <1>7, SMT

LEMMA EncodeType ==
  ASSUME NEW code, IsCode(code)
  PROVE  /\ Encode(code) \in Seq(Code)
         /\ Len(Encode(code)) <= 4
         /\ code < 65536 => Len(Encode(code)) <= 3
<1>1. code \in Nat /\ code < 1114112
  BY SMT DEF IsCode
<1>. DEFINE r == code \div 64
            r2 == r \div 64
            r3 == r2 \div 64
<1>2. /\ r \in Nat /\ r2 \in Nat /\ r3 \in Nat
      /\ code < 2048 => r < 32
      /\ code < 65536 => r2 < 16
      /\ r3 < 8
  BY <1>1, SMT
<1>3. /\ Continuation(code) \in Code /\ Continuation(r) \in Code /\ Continuation(r2) \in Code
  BY <1>1, <1>2, SixBits, SMT DEF Continuation, Code
<1>4. Encode(code) = IF code < 128 THEN <<code>>
                     ELSE IF code < 2048 THEN <<192 + r, Continuation(code)>>
                     ELSE IF code < 65536 THEN <<224 + r2, Continuation(r), Continuation(code)>>
                     ELSE <<240 + r3, Continuation(r2), Continuation(r), Continuation(code)>>
  BY <1>1, SMT DEF Encode
<1>5. /\ code < 128 => code \in Code
      /\ code < 2048 => 192 + r \in Code
      /\ code < 65536 => 224 + r2 \in Code
      /\ 240 + r3 \in Code
  BY <1>1, <1>2, SMT DEF Code
<1>. HIDE DEF r, r2, r3
<1>. QED  BY <1>1, <1>3, <1>4, <1>5, SMT

LEMMA LiteralBounds ==
  ASSUME NEW s \in Seq(Code), NEW at \in Nat \ {0}, NEW end \in Nat, end <= Len(s)
  PROVE  /\ Utf16Literal(s, at, end).out \in Seq(Code)
         /\ \/ Utf16Literal(s, at, end).length = 0
            \/ /\ Utf16Literal(s, at, end).length = 6 /\ at + 6 <= end
               /\ Len(Utf16Literal(s, at, end).out) <= 3
            \/ /\ Utf16Literal(s, at, end).length = 12 /\ at + 12 <= end
               /\ Len(Utf16Literal(s, at, end).out) <= 4
<1>. DEFINE first == ParseHex4(s, at + 2)
            second == ParseHex4(s, at + 8)
            pair == 65536 + 1024 * (first % 1024) + (second % 1024)
            l == Utf16Literal(s, at, end)
<1>1. CASE l = NoLiteral
  BY <1>1, SMT DEF NoLiteral
<1>2. CASE l = Literal(6, first) /\ ~(end - at < 6)
  <2>1. first \in Nat /\ first < 65536
    BY <1>2, ParseHex4Type, SMT
  <2>2. Encode(first) \in Seq(Code) /\ Len(Encode(first)) <= 3
    <3>1. IsCode(first)
      <4>. HIDE DEF first
      <4>. QED  BY <2>1, SMT DEF IsCode
    <3>. HIDE DEF first, second, l
    <3>. QED  BY <2>1, <3>1, EncodeType, SMT
  <2>. HIDE DEF first, l
  <2>. QED  BY <1>2, <2>2, SMT DEF Literal, l
<1>3. CASE l = Literal(12, pair) /\ ~(end - at < 6) /\ ~(end - (at + 6) < 6)
  <2>1. first \in Nat /\ second \in Nat
    BY <1>3, ParseHex4Type, SMT
  <2>2. first % 1024 \in 0..1023 /\ second % 1024 \in 0..1023
    <3>. HIDE DEF first, second
    <3>. QED  BY <2>1, SMT
  <2>3. pair \in Nat /\ pair < 1114112
    <3>. HIDE DEF first, second
    <3>. QED  BY <2>1, <2>2, SMT
  <2>4. Encode(pair) \in Seq(Code) /\ Len(Encode(pair)) <= 4
    <3>1. IsCode(pair)
      <4>. HIDE DEF pair
      <4>. QED  BY <2>3, SMT DEF IsCode
    <3>. HIDE DEF pair, first, second, l
    <3>. QED  BY <3>1, EncodeType, SMT
  <2>. HIDE DEF pair, l
  <2>. QED  BY <1>3, <2>4, SMT DEF Literal, l
<1>4. \/ l = NoLiteral
      \/ l = Literal(6, first) /\ ~(end - at < 6)
      \/ l = Literal(12, pair) /\ ~(end - at < 6) /\ ~(end - (at + 6) < 6)
  <2>1. l = IF end - at < 6 \/ first \in 56320..57343 THEN NoLiteral
            ELSE IF first \notin 55296..56319 THEN Literal(6, first)
            ELSE IF end - (at + 6) < 6 \/ s[at + 6] # Backslash \/ s[at + 7] # LowerU
                     \/ second \notin 56320..57343
            THEN NoLiteral
            ELSE Literal(12, pair)
    BY SMT DEF Utf16Literal
  <2>. HIDE DEF first, second, pair, l
  <2>. QED  BY <2>1, SMT
<1>. HIDE DEF first, pair
<1>. QED  BY <1>1, <1>2, <1>3, <1>4, SMT

LEMMA ConcatType ==
  ASSUME NEW a \in Seq(Code), NEW b \in Seq(Code)
  PROVE  a \o b \in Seq(Code) /\ Len(a \o b) = Len(a) + Len(b)
BY SMT

\* One iteration of the second pass takes 1, 2, 6 or 12 bytes, and never more
\* than there are; a simple escape alone may take the closing quote.
Taken(s, end, x, n, b) ==
    /\ x.at < end /\ x.ok
    /\ CopyOne(s, end, x) = Copied(x, n, b)
    /\ \/ n = 1 /\ s[x.at] # Backslash /\ Len(b) = 1
       \/ n = 2 /\ s[x.at] = Backslash /\ Len(b) = 1
       \/ n = 6 /\ x.at + 6 <= end /\ Len(b) <= 3
       \/ n = 12 /\ x.at + 12 <= end /\ Len(b) <= 4

LEMMA CopySteps ==
  ASSUME NEW s \in Seq(Code), NEW end \in Nat, end <= Len(s), NEW x \in CopyState
  PROVE  \/ (x.at >= end \/ ~x.ok) /\ CopyOne(s, end, x) = x
         \/ x.at < end /\ CopyOne(s, end, x) = [x EXCEPT !.ok = FALSE]
         \/ \E n \in Nat, b \in Seq(Code) : Taken(s, end, x, n, b)
<1>. DEFINE l == Utf16Literal(s, x.at, end)
            literal == IF s[x.at + 1] = LowerU THEN l ELSE NoLiteral
<1>1. CASE x.at >= end \/ ~x.ok
  BY <1>1, SMT DEF CopyOne
<1>2. CASE x.at < end /\ x.ok
  <2>0. x.at \in 1..Len(s) /\ x.at + 1 \in 1..Len(s) /\ x.at \in Nat \ {0}
    BY <1>2, SMT DEF CopyState
  <2>1. CASE s[x.at] # Backslash
    <3>. DEFINE b == <<s[x.at]>>
    <3>1. CopyOne(s, end, x) = Copied(x, 1, b)
      BY <1>2, <2>0, <2>1, SMT DEF CopyOne
    <3>2. b \in Seq(Code) /\ Len(b) = 1
      BY <2>0, SMT
    <3>. HIDE DEF b, l
    <3>3. Taken(s, end, x, 1, b)
      BY <1>2, <2>1, <3>1, <3>2, SMT DEF Taken
    <3>. QED  BY <3>2, <3>3, Zenon
  <2>2. CASE s[x.at] = Backslash /\ s[x.at + 1] \in Escapes
    <3>. DEFINE b == <<Escaped(s[x.at + 1])>>
    <3>1. CopyOne(s, end, x) = Copied(x, 2, b)
      BY <1>2, <2>0, <2>2, SMT DEF CopyOne
    <3>2. Escaped(s[x.at + 1]) \in Code
      <4>1. s[x.at + 1] \in Code
        BY <2>0, SMT
      <4>. QED  BY <4>1, SMT DEF Escaped, Code
    <3>3. b \in Seq(Code) /\ Len(b) = 1
      BY <3>2, SMT
    <3>. HIDE DEF b, l
    <3>4. Taken(s, end, x, 2, b)
      BY <1>2, <2>2, <3>1, <3>3, SMT DEF Taken
    <3>. QED  BY <3>3, <3>4, Zenon
  <2>3. CASE s[x.at] = Backslash /\ s[x.at + 1] \notin Escapes
    <3>1. CopyOne(s, end, x) = IF literal.length = 0 THEN [x EXCEPT !.ok = FALSE]
                               ELSE Copied(x, literal.length, literal.out)
      <4>. HIDE DEF l
      <4>. QED  BY <1>2, <2>0, <2>3, SMT DEF CopyOne, l
    <3>2. literal.length = 0 \/ literal = l
      BY SMT DEF NoLiteral
    <3>3. /\ l.out \in Seq(Code)
          /\ \/ l.length = 0
             \/ l.length = 6 /\ x.at + 6 <= end /\ Len(l.out) <= 3
             \/ l.length = 12 /\ x.at + 12 <= end /\ Len(l.out) <= 4
      BY <2>0, LiteralBounds, SMT
    <3>. HIDE DEF l, literal
    <3>4. literal.length # 0 => /\ literal.length \in Nat /\ literal.out \in Seq(Code)
                                /\ Taken(s, end, x, literal.length, literal.out)
      BY <1>2, <3>1, <3>2, <3>3, SMT DEF Taken
    <3>. QED  BY <1>2, <3>1, <3>4, Zenon
  <2>. QED  BY <2>1, <2>2, <2>3
<1>. QED
  <2>1. x.at \in Nat /\ x.ok \in BOOLEAN
    BY SMT DEF CopyState
  <2>. QED  BY <1>1, <1>2, <2>1, SMT

LEMMA CopyOneType ==
  ASSUME NEW s \in Seq(Code), NEW end \in Nat, end <= Len(s), NEW x \in CopyState
  PROVE  CopyOne(s, end, x) \in CopyState
<1>1. x.at \in Nat \ {0} /\ x.out \in Seq(Code) /\ x.ok \in BOOLEAN
  BY DEF CopyState
<1>2. [x EXCEPT !.ok = FALSE] \in CopyState
  BY DEF CopyState
<1>3. ASSUME NEW n \in Nat, NEW b \in Seq(Code) PROVE Copied(x, n, b) \in CopyState
  <2>1. x.at + n \in Nat \ {0} /\ x.out \o b \in Seq(Code)
    BY <1>1, ConcatType, SMT
  <2>. QED  BY <2>1 DEF Copied, CopyState
<1>4. ASSUME NEW n \in Nat, NEW b \in Seq(Code), Taken(s, end, x, n, b)
      PROVE  CopyOne(s, end, x) \in CopyState
  BY <1>3, <1>4 DEF Taken
<1>5. \/ CopyOne(s, end, x) = x
      \/ CopyOne(s, end, x) = [x EXCEPT !.ok = FALSE]
      \/ \E n \in Nat, b \in Seq(Code) : Taken(s, end, x, n, b)
  BY CopySteps
<1>. QED  BY <1>2, <1>4, <1>5

-----------------------------------------------------------------------------
(* The first pass comes to an end, and nothing changes then.               *)

LEMMA ScanSteps ==
  ASSUME NEW s \in Seq(Code), NEW x \in ScanState
  PROVE  \/ Scanned(s, x) /\ ScanOne(s, x) = x
         \/ /\ ~Scanned(s, x) /\ s[x.input_end] # Backslash
            /\ ScanOne(s, x).input_end = x.input_end + 1
            /\ ScanOne(s, x).skipped_bytes = x.skipped_bytes
         \/ /\ ~Scanned(s, x) /\ s[x.input_end] = Backslash
            /\ ScanOne(s, x).input_end = x.input_end + 2
            /\ ScanOne(s, x).skipped_bytes = x.skipped_bytes + 1
BY DEF ScanOne, ScanState

LEMMA ScanTypes ==
  ASSUME NEW s \in Seq(Code), NEW o \in Nat \ {0}, NEW n \in Nat
  PROVE  /\ Scan(s, o)[n] \in ScanState
         /\ Scan(s, o)[n].input_end \in Nat \ {0}
         /\ Scan(s, o)[n].skipped_bytes \in Nat
         /\ Scan(s, o)[n + 1] = ScanOne(s, Scan(s, o)[n])
<1>1. Scan(s, o)[n] \in ScanState
  BY ScanLoop
<1>2. Scan(s, o)[n + 1] = ScanOne(s, Scan(s, o)[n])
  BY ScanLoop
<1>. QED  BY <1>1, <1>2 DEF ScanState

LEMMA ScanStops ==
  ASSUME NEW s \in Seq(Code), NEW o \in Nat \ {0}, NEW n \in Nat, NEW k \in Nat,
         Scanned(s, Scan(s, o)[n])
  PROVE  Scan(s, o)[n + k] = Scan(s, o)[n]
<1>. DEFINE S == {j \in Nat : Scan(s, o)[n + j] = Scan(s, o)[n]}
<1>1. 0 \in S
  OBVIOUS
<1>2. ASSUME NEW j \in Nat, j \in S PROVE j + 1 \in S
  <2>0. n + j \in Nat
    OBVIOUS
  <2>1. Scan(s, o)[(n + j) + 1] = ScanOne(s, Scan(s, o)[n + j])
    BY <2>0, ScanTypes, Zenon
  <2>2. ScanOne(s, Scan(s, o)[n]) = Scan(s, o)[n]
    BY DEF ScanOne
  <2>3. n + (j + 1) = (n + j) + 1
    OBVIOUS
  <2>. QED  BY <1>2, <2>1, <2>2, <2>3
<1>. HIDE DEF S
<1>3. Nat \subseteq S
  BY <1>1, <1>2, Induction
<1>. QED  BY <1>3 DEF S

LEMMA ScanGoesOn ==
  ASSUME NEW s \in Seq(Code), NEW o \in Nat \ {0}, NEW n \in Nat
  PROVE  Scanned(s, Scan(s, o)[n]) \/ Scan(s, o)[n].input_end >= o + 1 + n
<1>. DEFINE S == {j \in Nat : Scanned(s, Scan(s, o)[j]) \/ Scan(s, o)[j].input_end >= o + 1 + j}
<1>1. 0 \in S
  <2>0. Scan(s, o)[0] = [input_end |-> o + 1, skipped_bytes |-> 0]
    BY ScanLoop, Zenon
  <2>1. Scan(s, o)[0].input_end = o + 1
    BY <2>0
  <2>. QED  BY <2>1
<1>2. ASSUME NEW j \in Nat, j \in S PROVE j + 1 \in S
  <2>. DEFINE x == Scan(s, o)[j]
              y == Scan(s, o)[j + 1]
  <2>1. x \in ScanState /\ x.input_end \in Nat /\ y = ScanOne(s, x)
    BY ScanTypes
  <2>2. Scanned(s, x) \/ x.input_end >= o + 1 + j
    BY <1>2
  <2>. HIDE DEF x, y
  <2>3. Scanned(s, y) \/ y.input_end >= o + 1 + (j + 1)
    BY <2>1, <2>2, ScanSteps
  <2>. QED  BY <2>3 DEF y
<1>. HIDE DEF S
<1>3. Nat \subseteq S
  BY <1>1, <1>2, Induction
<1>. QED  BY <1>3 DEF S

LEMMA ScanEnds ==
  ASSUME NEW s \in Seq(Code), NEW o \in Nat \ {0}
  PROVE  \E n \in 0..Len(s) : Scanned(s, Scan(s, o)[n]) /\ Scan(s, o)[n] = AfterScan(s, o)
<1>1. Scanned(s, Scan(s, o)[Len(s)])
  <2>1. Len(s) \in Nat
    OBVIOUS
  <2>2. Scan(s, o)[Len(s)].input_end \in Nat
    BY <2>1, ScanTypes
  <2>. QED  BY <2>1, <2>2, ScanGoesOn DEF Scanned
<1>2. \E n \in 0..Len(s) : Scanned(s, Scan(s, o)[n])
  BY <1>1
<1>. QED  BY <1>2, Zenon DEF AfterScan, ScanDone

\* Whenever the scan has come to an end it is the same end.
LEMMA ScanEnd ==
  ASSUME NEW s \in Seq(Code), NEW o \in Nat \ {0}, NEW n \in Nat,
         Scanned(s, Scan(s, o)[n])
  PROVE  Scan(s, o)[n] = AfterScan(s, o)
<1>1. PICK m \in 0..Len(s) : Scanned(s, Scan(s, o)[m]) /\ Scan(s, o)[m] = AfterScan(s, o)
  BY ScanEnds
<1>2. CASE m <= n
  <2>1. n - m \in Nat /\ m \in Nat /\ m + (n - m) = n
    BY <1>2
  <2>2. Scan(s, o)[m + (n - m)] = Scan(s, o)[m]
    BY <1>1, <2>1, ScanStops
  <2>. QED  BY <1>1, <2>1, <2>2
<1>3. CASE n <= m
  <2>1. m - n \in Nat /\ n + (m - n) = m
    BY <1>3
  <2>2. Scan(s, o)[n + (m - n)] = Scan(s, o)[n]
    BY <2>1, ScanStops
  <2>. QED  BY <1>1, <2>1, <2>2
<1>. QED  BY <1>2, <1>3

\* The scan never goes beyond that end, and does not stop before it.
LEMMA ScanBelow ==
  ASSUME NEW s \in Seq(Code), NEW o \in Nat \ {0}, NEW n \in Nat
  PROVE  /\ StringEnd(s, o) \in Nat \ {0}
         /\ AfterScan(s, o).skipped_bytes \in Nat
         /\ Scan(s, o)[n].input_end <= StringEnd(s, o)
         /\ Scan(s, o)[n].input_end < StringEnd(s, o) => ~Scanned(s, Scan(s, o)[n])
         /\ StringEnd(s, o) <= Len(s) => /\ s[StringEnd(s, o)] = Quote
                                         /\ Scan(s, o)[n].input_end = StringEnd(s, o)
                                                => Scan(s, o)[n] = AfterScan(s, o)
<1>. DEFINE end == StringEnd(s, o)
<1>1. PICK m \in 0..Len(s) : Scanned(s, Scan(s, o)[m]) /\ Scan(s, o)[m] = AfterScan(s, o)
  BY ScanEnds
<1>2. m \in Nat
  OBVIOUS
<1>3. /\ end = Scan(s, o)[m].input_end
      /\ end \in Nat \ {0} /\ AfterScan(s, o).skipped_bytes \in Nat
  BY <1>1, <1>2, ScanTypes DEF StringEnd
<1>4. end <= Len(s) => s[end] = Quote
  BY <1>1, <1>3 DEF Scanned
<1>5. Scanned(s, Scan(s, o)[n]) => Scan(s, o)[n].input_end = end
  BY ScanEnd DEF StringEnd
<1>6. Scan(s, o)[n].input_end <= end
  <2>. DEFINE S == {k \in Nat : Scan(s, o)[n].input_end <= Scan(s, o)[n + k].input_end}
  <2>1. 0 \in S
    <3>1. Scan(s, o)[n].input_end \in Nat
      BY ScanTypes
    <3>2. n + 0 = n
      OBVIOUS
    <3>. QED  BY <3>1, <3>2
  <2>2. ASSUME NEW k \in Nat, k \in S PROVE k + 1 \in S
    <3>. DEFINE x == Scan(s, o)[n + k]
                y == Scan(s, o)[(n + k) + 1]
                z == Scan(s, o)[n]
    <3>1. /\ x \in ScanState /\ x.input_end \in Nat /\ y = ScanOne(s, x)
          /\ z.input_end \in Nat /\ z.input_end <= x.input_end
      <4>1. n + k \in Nat
        OBVIOUS
      <4>2. x \in ScanState /\ x.input_end \in Nat /\ y = ScanOne(s, x)
        BY <4>1, ScanTypes, Zenon
      <4>3. z.input_end \in Nat
        BY ScanTypes
      <4>. QED  BY <2>2, <4>2, <4>3
    <3>2. n + (k + 1) = (n + k) + 1
      OBVIOUS
    <3>. HIDE DEF x, y, z
    <3>3. z.input_end <= y.input_end
      BY <3>1, ScanSteps
    <3>. QED  BY <3>2, <3>3 DEF y, z
  <2>. HIDE DEF S
  <2>3. Nat \subseteq S
    BY <2>1, <2>2, Induction
  <2>4. CASE n <= m
    <3>1. m - n \in Nat /\ n + (m - n) = m
      BY <1>2, <2>4
    <3>. QED  BY <1>3, <2>3, <3>1 DEF S
  <2>5. CASE m <= n
    <3>1. n - m \in Nat /\ m + (n - m) = n
      BY <1>2, <2>5
    <3>2. Scan(s, o)[m + (n - m)] = Scan(s, o)[m]
      BY <1>1, <1>2, <3>1, ScanStops
    <3>. QED  BY <1>3, <3>1, <3>2
  <2>. QED  BY <1>2, <2>4, <2>5
<1>7. end <= Len(s) /\ Scan(s, o)[n].input_end = end => Scan(s, o)[n] = AfterScan(s, o)
  BY <1>4, ScanEnd DEF Scanned
<1>8. Scan(s, o)[n].input_end \in Nat
  BY ScanTypes
<1>. QED  BY <1>3, <1>4, <1>5, <1>6, <1>7, <1>8

-----------------------------------------------------------------------------
(* The second pass, of a string that has an end.                           *)

LEMMA CopyIteration ==
  ASSUME NEW b \in CopyState, NEW g \in [CopyState -> CopyState]
  PROVE  \E f \in [Nat -> CopyState] : /\ f[0] = b
                                       /\ \A n \in Nat : n # 0 => f[n] = g[f[n - 1]]
BY Iteration

LEMMA CopyLoop ==
  ASSUME NEW s \in Seq(Code), NEW o \in Nat \ {0}, StringEnd(s, o) <= Len(s)
  PROVE  /\ \A n \in Nat : Copy(s, o)[n] \in CopyState
         /\ Copy(s, o)[0] = [at |-> o + 1, out |-> <<>>, ok |-> TRUE]
         /\ \A n \in Nat : Copy(s, o)[n + 1] = CopyOne(s, StringEnd(s, o), Copy(s, o)[n])
<1>. DEFINE end == StringEnd(s, o)
            first == [at |-> o + 1, out |-> <<>>, ok |-> TRUE]
            body == [x \in CopyState |-> CopyOne(s, end, x)]
            Loop(f) == f = [n \in Nat |-> IF n = 0 THEN first ELSE CopyOne(s, end, f[n - 1])]
<1>0. end \in Nat
  BY ScanBelow
<1>1. first \in CopyState /\ body \in [CopyState -> CopyState]
  <2>1. first \in CopyState
    BY DEF CopyState
  <2>2. \A x \in CopyState : CopyOne(s, end, x) \in CopyState
    <3>. HIDE DEF end
    <3>. QED  BY <1>0, CopyOneType DEF end
  <2>. QED  BY <2>1, <2>2
<1>2. \A x \in CopyState : body[x] = CopyOne(s, end, x)
  OBVIOUS
<1>. HIDE DEF first, body, Loop
<1>3. PICK f \in [Nat -> CopyState] : /\ f[0] = first
                                      /\ \A n \in Nat : n # 0 => f[n] = body[f[n - 1]]
  BY <1>1, CopyIteration, Zenon
<1>4. Loop(f)
  <2>1. ASSUME NEW n \in Nat
        PROVE  f[n] = IF n = 0 THEN first ELSE CopyOne(s, end, f[n - 1])
    <3>1. CASE n # 0
      <4>1. f[n - 1] \in CopyState
        BY <3>1
      <4>. QED  BY <1>2, <1>3, <3>1, <4>1
    <3>. QED  BY <1>3, <3>1
  <2>2. f = [n \in Nat |-> f[n]]
    OBVIOUS
  <2>. QED  BY <2>1, <2>2, Zenon DEF Loop
<1>5. Loop(Copy(s, o))
  <2>1. Copy(s, o) = CHOOSE g : Loop(g)
    BY Zenon DEF Copy, first, Loop
  <2>. QED  BY <1>4, <2>1, Zenon
<1>6. /\ Copy(s, o)[0] = first
      /\ \A n \in Nat : Copy(s, o)[n + 1] = CopyOne(s, end, Copy(s, o)[n])
  BY <1>5 DEF Loop
<1>7. \A n \in Nat : Copy(s, o)[n] \in CopyState
  <2>. DEFINE S == {n \in Nat : Copy(s, o)[n] \in CopyState}
  <2>1. 0 \in S
    BY <1>1, <1>6
  <2>2. ASSUME NEW n \in Nat, n \in S PROVE n + 1 \in S
    <3>1. CopyOne(s, end, Copy(s, o)[n]) \in CopyState
      BY <1>0, <2>2, CopyOneType
    <3>2. Copy(s, o)[n + 1] = CopyOne(s, end, Copy(s, o)[n])
      BY <1>6, Zenon
    <3>3. Copy(s, o)[n + 1] \in CopyState
      BY <3>1, <3>2, Zenon
    <3>. QED  BY <3>3
  <2>. HIDE DEF S
  <2>3. Nat \subseteq S
    BY <2>1, <2>2, Induction
  <2>. QED  BY <2>3 DEF S
<1>. QED  BY <1>6, <1>7, Zenon DEF first

\* From an offset that the scan has come to, it comes to any later one of the
\* string, or goes just over it; each escape that it skips takes two bytes.
Reaches(s, o, p, skipped, q) ==
    \E m \in Nat, d \in {0, 1} :
        /\ Scan(s, o)[m].input_end = q + d
        /\ 2 * (Scan(s, o)[m].skipped_bytes - skipped) <= q + d - p

LEMMA ScanReaches ==
  ASSUME NEW s \in Seq(Code), NEW o \in Nat \ {0}, NEW n \in Nat, NEW k \in Nat,
         Scan(s, o)[n].input_end + k <= StringEnd(s, o)
  PROVE  Reaches(s, o, Scan(s, o)[n].input_end, Scan(s, o)[n].skipped_bytes,
                 Scan(s, o)[n].input_end + k)
<1>. DEFINE p == Scan(s, o)[n].input_end
            c == Scan(s, o)[n].skipped_bytes
            end == StringEnd(s, o)
            S == {j \in Nat : p + j <= end => Reaches(s, o, p, c, p + j)}
<1>1. p \in Nat /\ c \in Nat /\ end \in Nat
  BY ScanTypes, ScanBelow
<1>2. 0 \in S
  <2>. HIDE DEF p, c, end
  <2>1. /\ Scan(s, o)[n].input_end = p + 0
        /\ 2 * (Scan(s, o)[n].skipped_bytes - c) <= p + 0 - p
    BY <1>1 DEF p, c
  <2>2. Reaches(s, o, p, c, p + 0)
    BY <1>1, <2>1 DEF Reaches
  <2>. QED  BY <2>2
<1>3. ASSUME NEW j \in Nat, j \in S PROVE j + 1 \in S
  <2>. HIDE DEF p, c, end
  <2>. SUFFICES ASSUME p + (j + 1) <= end PROVE Reaches(s, o, p, c, p + (j + 1))
    OBVIOUS
  <2>1. Reaches(s, o, p, c, p + j)
    BY <1>1, <1>3
  <2>2. PICK m \in Nat, d \in {0, 1} :
            /\ Scan(s, o)[m].input_end = (p + j) + d
            /\ 2 * (Scan(s, o)[m].skipped_bytes - c) <= (p + j) + d - p
    BY <2>1 DEF Reaches
  <2>. DEFINE x == Scan(s, o)[m]
              y == Scan(s, o)[m + 1]
  <2>3. /\ x \in ScanState /\ x.skipped_bytes \in Nat /\ y = ScanOne(s, x)
        /\ x.input_end < end => ~Scanned(s, x)
    BY ScanTypes, ScanBelow DEF end
  <2>4. CASE d = 1
    <3>1. /\ x.input_end = (p + (j + 1)) + 0
          /\ 2 * (x.skipped_bytes - c) <= (p + (j + 1)) + 0 - p
      BY <1>1, <2>2, <2>3, <2>4
    <3>. QED  BY <3>1 DEF Reaches
  <2>5. CASE d = 0
    <3>1. x.input_end = p + j /\ 2 * (x.skipped_bytes - c) <= j
      BY <1>1, <2>2, <2>3, <2>5
    <3>2. x.input_end < end
      BY <1>1, <3>1
    <3>. HIDE DEF x, y
    <3>3. \/ y.input_end = x.input_end + 1 /\ y.skipped_bytes = x.skipped_bytes
          \/ y.input_end = x.input_end + 2 /\ y.skipped_bytes = x.skipped_bytes + 1
      BY <2>3, <3>2, ScanSteps
    <3>4. CASE y.input_end = x.input_end + 1 /\ y.skipped_bytes = x.skipped_bytes
      <4>1. /\ y.input_end = (p + (j + 1)) + 0
            /\ 2 * (y.skipped_bytes - c) <= (p + (j + 1)) + 0 - p
        BY <1>1, <2>3, <3>1, <3>4
      <4>2. m + 1 \in Nat
        OBVIOUS
      <4>. QED  BY <4>1, <4>2 DEF Reaches, y
    <3>5. CASE y.input_end = x.input_end + 2 /\ y.skipped_bytes = x.skipped_bytes + 1
      <4>1. /\ y.input_end = (p + (j + 1)) + 1
            /\ 2 * (y.skipped_bytes - c) <= (p + (j + 1)) + 1 - p
        BY <1>1, <2>3, <3>1, <3>5
      <4>2. m + 1 \in Nat
        OBVIOUS
      <4>. QED  BY <4>1, <4>2 DEF Reaches, y
    <3>. QED  BY <3>3, <3>4, <3>5
  <2>. QED  BY <2>4, <2>5
<1>. HIDE DEF S
<1>4. Nat \subseteq S
  BY <1>2, <1>3, Induction
<1>. QED  BY <1>4 DEF S

\* The text never gets ahead of what the scan has counted up to the same
\* offset; the passes may be a byte apart, as a \u literal may cut an escape.
BehindAt(s, o, x, y) ==
    /\ \/ y.input_end = x.at
       \/ y.input_end = x.at + 1
       \/ y.input_end = x.at - 1 /\ y.input_end = StringEnd(s, o)
    /\ Len(x.out) + o + 1 + y.skipped_bytes <= x.at
Behind(s, o, x) == \E m \in Nat : BehindAt(s, o, x, Scan(s, o)[m])

\* The arithmetic of it, with a for the offset of the copy, p and q for those
\* of the scan, w for the bytes written and c and k for those skipped.
LEMMA LongStep ==
  ASSUME NEW a \in Nat, NEW p \in Nat, NEW q \in Nat, NEW w \in Nat, NEW c \in Nat, NEW k \in Nat,
         NEW l \in Nat, NEW n \in Nat, NEW o \in Nat,
         p = a \/ p = a + 1, q = a + n \/ q = a + n + 1,
         w + o + 1 + c <= a, 2 * (k - c) <= q - p,
         \/ n = 2 /\ l = 1
         \/ n = 6 /\ l <= 3
         \/ n = 12 /\ l <= 4
  PROVE  (w + l) + o + 1 + k <= a + n
<1>1. 2 * (k - c) <= n + 1
  OBVIOUS
<1>2. l + (k - c) <= n
  BY <1>1
<1>. QED  BY <1>2

LEMMA CopyBehind ==
  ASSUME NEW s \in Seq(Code), NEW o \in Nat \ {0}, StringEnd(s, o) <= Len(s),
         NEW x \in CopyState, Behind(s, o, x),
         NEW n \in Nat, NEW b \in Seq(Code), Taken(s, StringEnd(s, o), x, n, b)
  PROVE  Behind(s, o, Copied(x, n, b))
<1>. DEFINE end == StringEnd(s, o)
            z == Copied(x, n, b)
            w == Len(x.out)
            l == Len(b)
            a == x.at
<1>1. PICK m \in Nat : BehindAt(s, o, x, Scan(s, o)[m])
  BY DEF Behind
<1>. DEFINE u == Scan(s, o)[m]
            v == Scan(s, o)[m + 1]
            p == u.input_end
            c == u.skipped_bytes
<1>2. end \in Nat /\ p \in Nat /\ c \in Nat /\ a \in Nat /\ w \in Nat /\ l \in Nat
  <2>1. end \in Nat
    BY ScanBelow
  <2>2. p \in Nat /\ c \in Nat
    BY ScanTypes
  <2>3. x.at \in Nat /\ x.out \in Seq(Code)
    BY DEF CopyState
  <2>. QED  BY <2>1, <2>2, <2>3
<1>3. z.at = a + n /\ Len(z.out) = w + l
  <2>1. z.at = x.at + n /\ z.out = x.out \o b
    BY DEF Copied
  <2>2. x.out \in Seq(Code)
    BY DEF CopyState
  <2>3. Len(x.out \o b) = Len(x.out) + Len(b)
    BY <2>2, ConcatType
  <2>. QED  BY <2>1, <2>3
<1>4. a < end /\ (p = a \/ p = a + 1) /\ w + o + 1 + c <= a
  <2>1. a < end
    BY DEF Taken
  <2>2. /\ p = a \/ p = a + 1 \/ (p = a - 1 /\ p = end)
        /\ w + o + 1 + c <= a
    BY <1>1 DEF BehindAt
  <2>. HIDE DEF a, p, end, w, c
  <2>. QED  BY <1>2, <2>1, <2>2
<1>5. /\ u \in ScanState /\ v = ScanOne(s, u) /\ m + 1 \in Nat
      /\ p < end => ~Scanned(s, u)
      /\ v.input_end <= end
  <2>1. m + 1 \in Nat
    OBVIOUS
  <2>2. v.input_end <= end
    BY <2>1, ScanBelow, Zenon
  <2>3. u \in ScanState /\ v = ScanOne(s, u)
    BY ScanTypes, Zenon
  <2>4. p < end => ~Scanned(s, u)
    BY ScanBelow, Zenon
  <2>. QED  BY <2>1, <2>2, <2>3, <2>4, Zenon
<1>6. \A i \in Nat : BehindAt(s, o, z, Scan(s, o)[i]) => Behind(s, o, z)
  BY Zenon DEF Behind
<1>7. CASE n = 1 /\ s[x.at] # Backslash /\ l = 1
  <2>1. CASE p = a
    <3>1. v.input_end = p + 1 /\ v.skipped_bytes = c
      <4>1. ~Scanned(s, u) /\ s[u.input_end] # Backslash
        BY <1>4, <1>5, <1>7, <2>1
      <4>. HIDE DEF u, v
      <4>. QED  BY <1>5, <4>1, ScanSteps DEF p, c
    <3>. HIDE DEF p, c, end, z, w, l, a, u, v
    <3>2. v.input_end = z.at /\ Len(z.out) + o + 1 + v.skipped_bytes <= z.at
      BY <1>2, <1>3, <1>4, <1>7, <2>1, <3>1
    <3>3. BehindAt(s, o, z, v)
      BY <3>2 DEF BehindAt
    <3>. QED  BY <1>5, <1>6, <3>3 DEF v, z
  <2>2. CASE p = a + 1
    <3>. HIDE DEF p, c, end, z, w, l, a, u, v
    <3>1. p = z.at /\ Len(z.out) + o + 1 + c <= z.at
      BY <1>2, <1>3, <1>4, <1>7, <2>2
    <3>2. BehindAt(s, o, z, u)
      BY <3>1 DEF BehindAt, p, c
    <3>. QED  BY <1>6, <3>2 DEF u, z
  <2>. QED  BY <1>4, <2>1, <2>2
<1>8. CASE a + n <= end /\ \/ n = 2 /\ l = 1
                           \/ n = 6 /\ l <= 3
                           \/ n = 12 /\ l <= 4
  <2>. DEFINE g == a + n - p
  <2>. HIDE DEF p, c, end, z, w, l, a, u, v
  <2>1. g \in Nat /\ p + g = a + n
    BY <1>2, <1>4, <1>8
  <2>. HIDE DEF g
  <2>2. p + g <= end
    BY <1>8, <2>1
  <2>3. Reaches(s, o, p, c, a + n)
    <3>1. Reaches(s, o, p, c, p + g)
      BY <2>1, <2>2, ScanReaches DEF p, c, end, u
    <3>. QED  BY <2>1, <3>1
  <2>4. PICK i \in Nat, e \in {0, 1} :
            /\ Scan(s, o)[i].input_end = (a + n) + e
            /\ 2 * (Scan(s, o)[i].skipped_bytes - c) <= (a + n) + e - p
    BY <2>3 DEF Reaches
  <2>. DEFINE y == Scan(s, o)[i]
              k == y.skipped_bytes
              q == y.input_end
  <2>5. k \in Nat /\ q \in Nat
    BY ScanTypes
  <2>6. (q = a + n \/ q = a + n + 1) /\ 2 * (k - c) <= q - p
    BY <1>2, <2>4, <2>5
  <2>. HIDE DEF k, q
  <2>7. (w + l) + o + 1 + k <= a + n
    BY <1>2, <1>4, <1>8, <2>5, <2>6, LongStep
  <2>. HIDE DEF y
  <2>8. BehindAt(s, o, z, y)
    BY <1>3, <2>6, <2>7 DEF BehindAt, q, k
  <2>. QED  BY <1>6, <2>8 DEF y, z
<1>9. CASE n = 2 /\ s[x.at] = Backslash /\ l = 1 /\ ~(a + n <= end)
  <2>1. a + 1 = end
    <3>. HIDE DEF a, end
    <3>. QED  BY <1>2, <1>4, <1>9
  <2>2. p = a + 1
    <3>1. CASE p = a
      <4>1. ~Scanned(s, u) /\ s[u.input_end] = Backslash
        BY <1>4, <1>5, <1>9, <3>1
      <4>2. v.input_end = p + 2
        <5>. HIDE DEF u, v
        <5>. QED  BY <1>5, <4>1, ScanSteps DEF p
      <4>. HIDE DEF p, c, end, a, u, v
      <4>. QED  BY <1>2, <1>5, <2>1, <3>1, <4>2
    <3>. QED  BY <1>4, <3>1
  <2>. HIDE DEF p, c, end, z, w, l, a, u, v
  <2>3. p = z.at - 1 /\ p = end /\ Len(z.out) + o + 1 + c <= z.at
    BY <1>2, <1>3, <1>4, <1>9, <2>1, <2>2
  <2>4. BehindAt(s, o, z, u)
    BY <2>3 DEF BehindAt, p, c, end
  <2>. QED  BY <1>6, <2>4 DEF u, z
<1>10. \/ n = 1 /\ s[x.at] # Backslash /\ l = 1
       \/ n = 2 /\ s[x.at] = Backslash /\ l = 1
       \/ n = 6 /\ a + 6 <= end /\ l <= 3
       \/ n = 12 /\ a + 12 <= end /\ l <= 4
  BY DEF Taken
<1>. HIDE DEF p, c, end, z, w, l, a, u, v
<1>. QED  BY <1>2, <1>7, <1>8, <1>9, <1>10 DEF z

LEMMA AlwaysBehind ==
  ASSUME NEW s \in Seq(Code), NEW o \in Nat \ {0}, StringEnd(s, o) <= Len(s), NEW n \in Nat
  PROVE  Behind(s, o, Copy(s, o)[n])
<1>. DEFINE S == {j \in Nat : Behind(s, o, Copy(s, o)[j])}
<1>1. 0 \in S
  <2>. DEFINE x == Copy(s, o)[0]
              y == Scan(s, o)[0]
  <2>1. x = [at |-> o + 1, out |-> <<>>, ok |-> TRUE]
    BY CopyLoop, Zenon
  <2>2. y = [input_end |-> o + 1, skipped_bytes |-> 0]
    BY ScanLoop, Zenon
  <2>3. x.at = o + 1 /\ Len(x.out) = 0
    BY <2>1
  <2>4. y.input_end = o + 1 /\ y.skipped_bytes = 0
    BY <2>2
  <2>. HIDE DEF x, y
  <2>5. BehindAt(s, o, x, y)
    BY <2>3, <2>4 DEF BehindAt
  <2>6. Behind(s, o, x)
    BY <2>5 DEF Behind, y
  <2>. QED  BY <2>6 DEF x
<1>2. ASSUME NEW j \in Nat, Behind(s, o, Copy(s, o)[j]) PROVE Behind(s, o, Copy(s, o)[j + 1])
  <2>. DEFINE end == StringEnd(s, o)
              x == Copy(s, o)[j]
              y == Copy(s, o)[j + 1]
  <2>1. x \in CopyState /\ end \in Nat /\ Behind(s, o, x)
    BY <1>2, CopyLoop, ScanBelow
  <2>2. y = CopyOne(s, end, x)
    BY CopyLoop, Zenon
  <2>. HIDE DEF x, y
  <2>3. ASSUME y = x PROVE Behind(s, o, y)
    BY <2>1, <2>3
  <2>4. ASSUME y = [x EXCEPT !.ok = FALSE] PROVE Behind(s, o, y)
    <3>1. y.at = x.at /\ y.out = x.out
      BY <2>1, <2>4 DEF CopyState
    <3>. QED  BY <2>1, <3>1 DEF Behind, BehindAt
  <2>5. ASSUME NEW k \in Nat, NEW b \in Seq(Code), Taken(s, end, x, k, b)
        PROVE  Behind(s, o, y)
    <3>1. Behind(s, o, Copied(x, k, b))
      BY <2>1, <2>5, CopyBehind
    <3>. QED  BY <2>2, <2>5, <3>1 DEF Taken
  <2>6. \/ y = x
        \/ y = [x EXCEPT !.ok = FALSE]
        \/ \E k \in Nat, b \in Seq(Code) : Taken(s, end, x, k, b)
    <3>. HIDE DEF end
    <3>. QED  BY <2>1, <2>2, CopySteps DEF end
  <2>7. Behind(s, o, y)
    BY <2>3, <2>4, <2>5, <2>6, Zenon
  <2>. QED  BY <2>7 DEF y
<1>3. ASSUME NEW j \in Nat, j \in S PROVE j + 1 \in S
  <2>1. Behind(s, o, Copy(s, o)[j + 1])
    BY <1>2, <1>3
  <2>. QED  BY <2>1
<1>. HIDE DEF S
<1>4. Nat \subseteq S
  BY <1>1, <1>3, Induction
<1>. QED  BY <1>4 DEF S

\* What has been written, with the final 0, fits the memory that the first
\* pass has counted, at each iteration of the second: for any bytes, and
\* although the two passes may see different escapes.
THEOREM TextFits ==
  ASSUME NEW s \in Seq(Code), NEW o \in Nat \ {0}, StringEnd(s, o) <= Len(s), NEW n \in Nat
  PROVE  Len(Copy(s, o)[n].out) + 1 <= Allocated(s, o)
<1>1. PICK m \in Nat : BehindAt(s, o, Copy(s, o)[n], Scan(s, o)[m])
  BY AlwaysBehind DEF Behind
<1>. DEFINE end == StringEnd(s, o)
            x == Copy(s, o)[n]
            w == Len(x.out)
            a == x.at
            k == AfterScan(s, o).skipped_bytes
            p == Scan(s, o)[m].input_end
            c == Scan(s, o)[m].skipped_bytes
            g == end - p
<1>2. end \in Nat /\ k \in Nat /\ p \in Nat /\ c \in Nat /\ p <= end
  BY ScanTypes, ScanBelow
<1>3. a \in Nat /\ w \in Nat
  <2>1. x \in CopyState
    BY CopyLoop
  <2>. HIDE DEF x
  <2>. QED  BY <2>1 DEF CopyState
<1>4. /\ p = a \/ p = a + 1 \/ (p = a - 1 /\ p = end)
      /\ w + o + 1 + c <= a
  BY <1>1 DEF BehindAt
<1>5. Allocated(s, o) = end - o - k + 1
  BY DEF Allocated
<1>6. 2 * (k - c) <= end - p
  <2>. HIDE DEF end, p, c, k
  <2>1. g \in Nat /\ p + g = end
    BY <1>2
  <2>. HIDE DEF g
  <2>2. p + g <= end
    BY <1>2, <2>1
  <2>3. Reaches(s, o, p, c, p + g)
    BY <2>1, <2>2, ScanReaches DEF p, c, end
  <2>4. Reaches(s, o, p, c, end)
    BY <2>1, <2>3
  <2>5. PICK i \in Nat, e \in {0, 1} :
            /\ Scan(s, o)[i].input_end = end + e
            /\ 2 * (Scan(s, o)[i].skipped_bytes - c) <= end + e - p
    BY <2>4 DEF Reaches
  <2>6. Scan(s, o)[i].input_end <= end
    BY ScanBelow DEF end
  <2>7. e = 0
    BY <1>2, <2>5, <2>6
  <2>8. Scan(s, o)[i].input_end = end
    BY <1>2, <2>5, <2>7
  <2>9. Scan(s, o)[i] = AfterScan(s, o)
    BY <2>8, ScanBelow DEF end
  <2>10. Scan(s, o)[i].skipped_bytes = k
    BY <2>9 DEF k
  <2>. QED  BY <1>2, <2>5, <2>7, <2>10
<1>. HIDE DEF end, x, k, p, c, a, w, g
<1>7. w + 1 <= end - o - k + 1
  BY <1>2, <1>3, <1>4, <1>6
<1>. QED  BY <1>5, <1>7 DEF w, x

-----------------------------------------------------------------------------
(* What a text is written with, piece by piece.                            *)

LEMMA NumeralHex ==
  ASSUME NEW d \in 0..15, NEW c \in Numeral(d)
  PROVE  HexDigit(c) = d /\ c # Quote /\ c # Backslash
BY SMT DEF Numeral, HexDigit, Digits, Quote, Backslash

LEMMA UnitValue ==
  ASSUME NEW s, NEW a \in Nat, NEW u, UnitAt(s, a, u)
  PROVE  /\ ParseHex4(s, a + 2) = u /\ u \in Nat /\ u < 65536
         /\ s[a] = Backslash /\ s[a + 1] = LowerU
         /\ \A i \in {2, 3, 4, 5} : s[a + i] # Quote /\ s[a + i] # Backslash
<1>1. PICK b \in 0..15, c \in 0..15, d \in 0..15, e \in 0..15 :
           /\ s[a + 2] \in Numeral(b) /\ s[a + 3] \in Numeral(c)
           /\ s[a + 4] \in Numeral(d) /\ s[a + 5] \in Numeral(e)
           /\ u = 4096 * b + 256 * c + 16 * d + e
  BY Zenon DEF UnitAt
<1>. DEFINE Reads(i, n) == HexDigit(s[a + i]) = n /\ s[a + i] # Quote /\ s[a + i] # Backslash
<1>2. /\ s[a + 2] \in Numeral(b) /\ s[a + 3] \in Numeral(c)
      /\ s[a + 4] \in Numeral(d) /\ s[a + 5] \in Numeral(e)
  BY <1>1, SMT
<1>3. Reads(2, b) /\ Reads(3, c) /\ Reads(4, d) /\ Reads(5, e)
  BY <1>2, NumeralHex, Zenon
<1>4. ParseHex4(s, a + 2) = 16 * (16 * (16 * b + c) + d) + e
  <2>. DEFINE h(i) == HexDigit(s[(a + 2) + i])
  <2>1. (a + 2) + 0 = a + 2 /\ (a + 2) + 1 = a + 3 /\ (a + 2) + 2 = a + 4 /\ (a + 2) + 3 = a + 5
    BY SMT
  <2>2. h(0) = b /\ h(1) = c /\ h(2) = d /\ h(3) = e
    BY <1>3, <2>1, Zenon
  <2>3. ParseHex4(s, a + 2) = IF \E i \in 0..3 : h(i) = 16 THEN 0
                              ELSE 16 * (16 * (16 * h(0) + h(1)) + h(2)) + h(3)
    BY Zenon DEF ParseHex4
  <2>. HIDE DEF h
  <2>4. ~\E i \in 0..3 : h(i) = 16
    BY <2>2, SMT
  <2>. QED  BY <2>2, <2>3, <2>4, Zenon
<1>5. u = 16 * (16 * (16 * b + c) + d) + e /\ u \in Nat /\ u < 65536
  BY <1>1, SMT
<1>6. s[a] = Backslash /\ s[a + 1] = LowerU
  BY SMT DEF UnitAt
<1>. QED  BY <1>3, <1>4, <1>5, <1>6, SMT

\* The first pass comes to the offset a.
Comes(s, o, a) == \E m \in Nat : Scan(s, o)[m].input_end = a

LEMMA ComesPlain ==
  ASSUME NEW s \in Seq(Code), NEW o \in Nat \ {0}, NEW a \in Nat, Comes(s, o, a),
         a <= Len(s), s[a] # Quote, s[a] # Backslash
  PROVE  Comes(s, o, a + 1)
<1>1. PICK m \in Nat : Scan(s, o)[m].input_end = a
  BY DEF Comes
<1>. DEFINE x == Scan(s, o)[m]
            y == Scan(s, o)[m + 1]
<1>2. x \in ScanState /\ y = ScanOne(s, x) /\ m + 1 \in Nat /\ x.input_end = a
  <2>1. x \in ScanState /\ y = ScanOne(s, x)
    BY ScanTypes, Zenon
  <2>. QED  BY <1>1, <2>1
<1>. HIDE DEF x, y
<1>3. ~Scanned(s, x)
  BY <1>2 DEF Scanned
<1>4. y.input_end = a + 1
  BY <1>2, <1>3, ScanSteps
<1>. QED  BY <1>2, <1>4 DEF Comes, y

LEMMA ComesEscape ==
  ASSUME NEW s \in Seq(Code), NEW o \in Nat \ {0}, NEW a \in Nat, Comes(s, o, a),
         a <= Len(s), s[a] = Backslash
  PROVE  Comes(s, o, a + 2)
<1>1. PICK m \in Nat : Scan(s, o)[m].input_end = a
  BY DEF Comes
<1>. DEFINE x == Scan(s, o)[m]
            y == Scan(s, o)[m + 1]
<1>2. x \in ScanState /\ y = ScanOne(s, x) /\ m + 1 \in Nat /\ x.input_end = a
  <2>1. x \in ScanState /\ y = ScanOne(s, x)
    BY ScanTypes, Zenon
  <2>. QED  BY <1>1, <2>1
<1>. HIDE DEF x, y
<1>3. ~Scanned(s, x)
  BY <1>2 DEF Scanned, Quote, Backslash
<1>4. y.input_end = a + 2
  BY <1>2, <1>3, ScanSteps
<1>. QED  BY <1>2, <1>4 DEF Comes, y

LEMMA ComesUnit ==
  ASSUME NEW s \in Seq(Code), NEW o \in Nat \ {0}, NEW a \in Nat, Comes(s, o, a),
         a + 5 <= Len(s), NEW u, UnitAt(s, a, u)
  PROVE  Comes(s, o, a + 6)
<1>1. /\ s[a] = Backslash
      /\ s[a + 2] # Quote /\ s[a + 2] # Backslash /\ s[a + 3] # Quote /\ s[a + 3] # Backslash
      /\ s[a + 4] # Quote /\ s[a + 4] # Backslash /\ s[a + 5] # Quote /\ s[a + 5] # Backslash
  BY UnitValue
<1>2. Comes(s, o, a + 2)
  BY <1>1, ComesEscape
<1>3. Comes(s, o, (a + 2) + 1)
  BY <1>1, <1>2, ComesPlain
<1>4. Comes(s, o, (a + 3) + 1)
  <2>1. Comes(s, o, a + 3)
    BY <1>3
  <2>. QED  BY <1>1, <2>1, ComesPlain
<1>5. Comes(s, o, (a + 4) + 1)
  <2>1. Comes(s, o, a + 4)
    BY <1>4
  <2>. QED  BY <1>1, <2>1, ComesPlain
<1>6. Comes(s, o, (a + 5) + 1)
  <2>1. Comes(s, o, a + 5)
    BY <1>5
  <2>. QED  BY <1>1, <2>1, ComesPlain
<1>. QED  BY <1>6

LEMMA ComesPiece ==
  ASSUME NEW s \in Seq(Code), NEW o \in Nat \ {0}, NEW a \in Nat, Comes(s, o, a),
         NEW b \in Nat, NEW bytes, Piece(s, a, b, bytes), b <= Len(s)
  PROVE  Comes(s, o, b)
<1>1. CASE b = a + 1 /\ s[a] \notin {Quote, Backslash}
  BY <1>1, ComesPlain
<1>2. CASE b = a + 2 /\ s[a] = Backslash
  BY <1>2, ComesEscape
<1>3. ASSUME NEW u, UnitAt(s, a, u), b = a + 6 PROVE Comes(s, o, b)
  BY <1>3, ComesUnit
<1>4. ASSUME NEW u, NEW v, UnitAt(s, a, u), UnitAt(s, a + 6, v), b = a + 12
      PROVE  Comes(s, o, b)
  <2>1. Comes(s, o, a + 6)
    BY <1>4, ComesUnit
  <2>2. Comes(s, o, (a + 6) + 6)
    BY <1>4, <2>1, ComesUnit
  <2>. QED  BY <1>4, <2>2
<1>. QED  BY <1>1, <1>2, <1>3, <1>4, Zenon DEF Piece

LEMMA SingleLiteral ==
  ASSUME NEW s, NEW a \in Nat, NEW end \in Nat, a + 6 <= end,
         ParseHex4(s, a + 2) \notin High, ParseHex4(s, a + 2) \notin Low
  PROVE  Utf16Literal(s, a, end) = Literal(6, ParseHex4(s, a + 2))
<1>1. ~(end - a < 6)
  BY SMT
<1>. QED  BY <1>1, SMT DEF Utf16Literal, High, Low

LEMMA PairLiteral ==
  ASSUME NEW s, NEW a \in Nat, NEW end \in Nat, a + 12 <= end,
         NEW u \in High, NEW v \in Low, ParseHex4(s, a + 2) = u, ParseHex4(s, a + 8) = v,
         s[a + 6] = Backslash, s[a + 7] = LowerU
  PROVE  Utf16Literal(s, a, end) = Literal(12, Pair(u, v)) /\ IsCode(Pair(u, v))
<1>1. u \in Nat /\ v \in Nat /\ 55296 <= u /\ u < 56320 /\ 56320 <= v /\ v < 57344
  BY SMT DEF High, Low
<1>2. u % 1024 = u - 55296 /\ v % 1024 = v - 56320
  BY <1>1, SMT
<1>3. IsCode(Pair(u, v))
  BY <1>1, SMT DEF IsCode, Pair
<1>4. ~(end - a < 6) /\ ~(end - (a + 6) < 6)
  BY SMT
<1>5. Utf16Literal(s, a, end) = Literal(12, 65536 + 1024 * (u % 1024) + (v % 1024))
  BY <1>1, <1>4, SMTT(30) DEF Utf16Literal
<1>. QED  BY <1>2, <1>3, <1>5, SMT DEF Pair

\* The second pass at the offset a, when it has written out.
Reading(a, out) == [at |-> a, out |-> out, ok |-> TRUE]

\* It takes a piece in one iteration.
LEMMA CopyPiece ==
  ASSUME NEW s \in Seq(Code), NEW a \in Nat \ {0}, NEW b \in Nat, NEW bytes,
         NEW end \in Nat, Piece(s, a, b, bytes), b <= end, end <= Len(s), NEW out
  PROVE  CopyOne(s, end, Reading(a, out)) = Reading(b, out \o bytes)
<1>. DEFINE x == Reading(a, out)
            y == Reading(b, out \o bytes)
            l == Utf16Literal(s, a, end)
            literal == IF s[a + 1] = LowerU THEN l ELSE NoLiteral
<1>1. x.at = a /\ x.out = out /\ x.ok = TRUE
  BY DEF Reading
<1>2. \A n : b = a + n => Copied(x, n, bytes) = y
  BY <1>1, Zenon DEF Copied, Reading
<1>. HIDE DEF x, y
<1>3. CopyOne(s, end, x) =
        IF a >= end THEN x
        ELSE IF s[a] # Backslash THEN Copied(x, 1, <<s[a]>>)
        ELSE IF s[a + 1] \in Escapes THEN Copied(x, 2, <<Escaped(s[a + 1])>>)
        ELSE IF literal.length = 0 THEN [x EXCEPT !.ok = FALSE]
        ELSE Copied(x, literal.length, literal.out)
  <2>. HIDE DEF l
  <2>. QED  BY <1>1, SMT DEF CopyOne, l
<1>4. ASSUME b = a + 1, s[a] \notin {Quote, Backslash}, bytes = <<s[a]>>
      PROVE  CopyOne(s, end, x) = y
  <2>1. ~(a >= end) /\ s[a] # Backslash
    BY <1>4, SMT
  <2>2. CopyOne(s, end, x) = Copied(x, 1, bytes)
    BY <1>3, <1>4, <2>1, Zenon
  <2>. QED  BY <1>2, <1>4, <2>2, Zenon
<1>5. ASSUME b = a + 2, s[a] = Backslash, s[a + 1] \in Escapes,
             bytes = <<Escaped(s[a + 1])>>
      PROVE  CopyOne(s, end, x) = y
  <2>1. ~(a >= end)
    BY <1>5, SMT
  <2>2. CopyOne(s, end, x) = Copied(x, 2, bytes)
    BY <1>3, <1>5, <2>1, Zenon
  <2>. QED  BY <1>2, <1>5, <2>2, Zenon
<1>6. ASSUME NEW n \in {6, 12}, b = a + n, s[a] = Backslash, s[a + 1] = LowerU,
             NEW code, IsCode(code), bytes = Utf8(code), l = Literal(n, code)
      PROVE  CopyOne(s, end, x) = y
  <2>1. literal.length = n /\ literal.out = bytes
    <3>1. literal = Literal(n, code)
      BY <1>6, Zenon
    <3>2. Encode(code) = bytes
      BY <1>6, EncodeIsUtf8, Zenon
    <3>. HIDE DEF literal
    <3>. QED  BY <3>1, <3>2, SMT DEF Literal
  <2>2. LowerU \notin Escapes
    BY SMT DEF LowerU, Escapes, Quote, Backslash
  <2>3. ~(a >= end) /\ n # 0
    BY <1>6, SMT
  <2>4. CopyOne(s, end, x) = Copied(x, n, bytes)
    <3>. HIDE DEF literal
    <3>. QED  BY <1>3, <1>6, <2>1, <2>2, <2>3, Zenon
  <2>. QED  BY <1>2, <1>6, <2>4, Zenon
<1>7. ASSUME NEW u \in Nat, b = a + 6, UnitAt(s, a, u), u \notin High \cup Low, bytes = Utf8(u)
      PROVE  CopyOne(s, end, x) = y
  <2>1. a \in Nat /\ a + 6 <= end
    BY <1>7, SMT
  <2>2. /\ ParseHex4(s, a + 2) = u /\ u \in Nat /\ u < 65536
        /\ s[a] = Backslash /\ s[a + 1] = LowerU
    BY <1>7, <2>1, UnitValue, SMT
  <2>3. IsCode(u)
    BY <2>2, SMT DEF IsCode
  <2>4. ParseHex4(s, a + 2) = u /\ s[a] = Backslash /\ s[a + 1] = LowerU
    BY <2>2, SMT
  <2>5. l = Literal(6, u)
    BY <1>7, <2>1, <2>4, SingleLiteral, Zenon
  <2>. HIDE DEF l
  <2>6. 6 \in {6, 12}
    OBVIOUS
  <2>. QED  BY <1>6, <1>7, <2>3, <2>4, <2>5, <2>6, Zenon
<1>8. ASSUME NEW u \in High, NEW v \in Low, b = a + 12, UnitAt(s, a, u), UnitAt(s, a + 6, v),
             bytes = Utf8(Pair(u, v))
      PROVE  CopyOne(s, end, x) = y
  <2>1. a \in Nat /\ a + 12 <= end /\ a + 6 \in Nat
    BY <1>8, SMT
  <2>2. ParseHex4(s, a + 2) = u /\ s[a] = Backslash /\ s[a + 1] = LowerU
    BY <1>8, <2>1, UnitValue, SMT
  <2>3. ParseHex4(s, a + 8) = v /\ s[a + 6] = Backslash /\ s[a + 7] = LowerU
    <3>1. (a + 6) + 2 = a + 8 /\ (a + 6) + 1 = a + 7
      BY SMT
    <3>2. ParseHex4(s, (a + 6) + 2) = v /\ s[a + 6] = Backslash /\ s[(a + 6) + 1] = LowerU
      BY <1>8, <2>1, UnitValue, SMT
    <3>. QED  BY <3>1, <3>2, Zenon
  <2>4. l = Literal(12, Pair(u, v)) /\ IsCode(Pair(u, v))
    BY <1>8, <2>1, <2>2, <2>3, PairLiteral, SMT
  <2>. HIDE DEF l
  <2>5. 12 \in {6, 12}
    OBVIOUS
  <2>. QED  BY <1>6, <1>8, <2>2, <2>4, <2>5, Zenon
<1>9. \/ b = a + 1 /\ s[a] \notin {Quote, Backslash} /\ bytes = <<s[a]>>
      \/ b = a + 2 /\ s[a] = Backslash /\ s[a + 1] \in Escapes /\ bytes = <<Escaped(s[a + 1])>>
      \/ \E u \in Nat : b = a + 6 /\ UnitAt(s, a, u) /\ u \notin High \cup Low /\ bytes = Utf8(u)
      \/ \E u \in High, v \in Low : /\ b = a + 12 /\ UnitAt(s, a, u) /\ UnitAt(s, a + 6, v)
                                    /\ bytes = Utf8(Pair(u, v))
  BY Zenon DEF Piece
<1>10. CopyOne(s, end, x) = y
  BY <1>4, <1>5, <1>7, <1>8, <1>9, Zenon
<1>. QED  BY <1>10 DEF x, y

-----------------------------------------------------------------------------
(* A whole string.                                                         *)

LEMMA PieceForward ==
  ASSUME NEW s, NEW a \in Nat, NEW b, NEW bytes, Piece(s, a, b, bytes)
  PROVE  b \in Nat /\ a < b
<1>1. b = a + 1 \/ b = a + 2 \/ b = a + 6 \/ b = a + 12
  BY Zenon DEF Piece
<1>. QED  BY <1>1, SMT

LEMMA CopyStops ==
  ASSUME NEW s \in Seq(Code), NEW o \in Nat \ {0}, StringEnd(s, o) <= Len(s),
         NEW n \in Nat, NEW k \in Nat, Copy(s, o)[n].at >= StringEnd(s, o)
  PROVE  Copy(s, o)[n + k] = Copy(s, o)[n]
<1>. DEFINE S == {j \in Nat : Copy(s, o)[n + j] = Copy(s, o)[n]}
<1>1. 0 \in S
  OBVIOUS
<1>2. ASSUME NEW j \in Nat, j \in S PROVE j + 1 \in S
  <2>1. n + j \in Nat /\ n + (j + 1) = (n + j) + 1
    OBVIOUS
  <2>2. Copy(s, o)[(n + j) + 1] = CopyOne(s, StringEnd(s, o), Copy(s, o)[n + j])
    BY <2>1, CopyLoop, Zenon
  <2>3. CopyOne(s, StringEnd(s, o), Copy(s, o)[n]) = Copy(s, o)[n]
    BY Zenon DEF CopyOne
  <2>4. Copy(s, o)[n + j] = Copy(s, o)[n]
    BY <1>2
  <2>5. Copy(s, o)[n + (j + 1)] = Copy(s, o)[n]
    BY <2>1, <2>2, <2>3, <2>4, Zenon
  <2>. QED  BY <2>5
<1>. HIDE DEF S
<1>3. Nat \subseteq S
  BY <1>1, <1>2, Induction
<1>. QED  BY <1>3 DEF S

\* A string that writes a text is read to its end, and as that text.
THEOREM StringsUnderstood ==
  ASSUME NEW s \in Seq(Code), NEW o \in Nat \ {0}, NEW end, NEW meant,
         NEW k \in Nat, NEW at \in [0..k -> Nat], NEW said \in [0..k -> Seq(Code)],
         Writes(s, o, end, meant, k, at, said)
  PROVE  /\ StringEnd(s, o) = end
         /\ Unescape(s, o).ok /\ Unescape(s, o).out = meant
<1>1. /\ at[0] = o + 1 /\ said[0] = <<>>
      /\ at[k] = end /\ said[k] = meant /\ end <= Len(s) /\ s[end] = Quote
      /\ \A i \in 1..k : \E bytes : /\ Piece(s, at[i - 1], at[i], bytes)
                                    /\ said[i] = said[i - 1] \o bytes
  BY Zenon DEF Writes
<1>2. ASSUME NEW n \in Nat, n + 1 <= k
      PROVE  \E bytes : Piece(s, at[n], at[n + 1], bytes) /\ said[n + 1] = said[n] \o bytes
  <2>1. n + 1 \in 1..k /\ (n + 1) - 1 = n
    BY <1>2
  <2>. QED  BY <1>1, <2>1, Zenon
<1>3. \A n \in 0..k : at[n] \in Nat
  OBVIOUS
<1>4. ASSUME NEW n \in Nat, n + 1 <= k PROVE at[n] < at[n + 1]
  <2>1. at[n] \in Nat
    BY <1>3, <1>4
  <2>. QED  BY <1>2, <1>4, <2>1, PieceForward
\* The offsets go up to the end.
<1>5. \A n \in 0..k : o + 1 + n <= at[n]
  <2>. DEFINE S == {n \in Nat : n <= k => o + 1 + n <= at[n]}
  <2>1. 0 \in S
    BY <1>1
  <2>2. ASSUME NEW n \in Nat, n \in S PROVE n + 1 \in S
    <3>. SUFFICES ASSUME n + 1 <= k PROVE o + 1 + (n + 1) <= at[n + 1]
      OBVIOUS
    <3>1. at[n] \in Nat /\ at[n + 1] \in Nat
      BY <1>3
    <3>2. o + 1 + n <= at[n]
      BY <2>2
    <3>3. at[n] < at[n + 1]
      BY <1>4
    <3>. QED  BY <3>1, <3>2, <3>3
  <2>. HIDE DEF S
  <2>3. Nat \subseteq S
    BY <2>1, <2>2, Induction
  <2>. QED  BY <2>3 DEF S
<1>6. \A n \in 0..k : at[n] + (k - n) <= end
  <2>. DEFINE S == {j \in Nat : j <= k => at[k - j] + j <= end}
  <2>1. 0 \in S
    BY <1>1, <1>3
  <2>2. ASSUME NEW j \in Nat, j \in S PROVE j + 1 \in S
    <3>. SUFFICES ASSUME j + 1 <= k PROVE at[k - (j + 1)] + (j + 1) <= end
      OBVIOUS
    <3>. DEFINE n == k - (j + 1)
    <3>1. n \in Nat /\ n + 1 = k - j /\ n + 1 <= k /\ n \in 0..k /\ n + 1 \in 0..k
      OBVIOUS
    <3>2. at[n + 1] + j <= end
      BY <2>2, <3>1
    <3>. HIDE DEF n, S
    <3>3. at[n] \in Nat /\ at[n + 1] \in Nat
      BY <1>3, <3>1, Zenon
    <3>4. end \in Nat
      BY <1>1, <1>3
    <3>5. at[n] < at[n + 1]
      BY <1>4, <3>1, Zenon
    <3>. DEFINE a == at[n]
                b == at[n + 1]
    <3>6. a + (j + 1) <= end
      <4>1. a \in Nat /\ b \in Nat /\ a < b /\ b + j <= end
        BY <3>2, <3>3, <3>5, Zenon
      <4>. HIDE DEF a, b
      <4>. QED  BY <3>4, <4>1
    <3>. QED  BY <3>6 DEF n
  <2>. HIDE DEF S
  <2>3. Nat \subseteq S
    BY <2>1, <2>2, Induction
  <2>4. ASSUME NEW n \in 0..k PROVE at[n] + (k - n) <= end
    <3>1. k - n \in S /\ k - n \in Nat /\ k - (k - n) = n /\ k - n <= k
      BY <2>3
    <3>2. at[k - (k - n)] + (k - n) <= end
      BY <3>1 DEF S
    <3>. QED  BY <3>1, <3>2
  <2>. QED  BY <2>4
<1>7. end \in Nat /\ k \in 0..Len(s)
  <2>1. end \in Nat
    BY <1>1, <1>3
  <2>2. o + 1 + k <= end
    BY <1>1, <1>5
  <2>. QED  BY <1>1, <2>1, <2>2
\* The first pass comes to each of them.
<1>8. \A n \in 0..k : Comes(s, o, at[n])
  <2>. DEFINE S == {n \in Nat : n <= k => Comes(s, o, at[n])}
  <2>1. 0 \in S
    <3>1. Scan(s, o)[0] = [input_end |-> o + 1, skipped_bytes |-> 0]
      BY ScanLoop, Zenon
    <3>2. Scan(s, o)[0].input_end = at[0]
      BY <1>1, <3>1
    <3>3. Comes(s, o, at[0])
      BY <3>2 DEF Comes
    <3>. QED  BY <3>3
  <2>2. ASSUME NEW n \in Nat, n \in S PROVE n + 1 \in S
    <3>. SUFFICES ASSUME n + 1 <= k PROVE Comes(s, o, at[n + 1])
      OBVIOUS
    <3>1. at[n] \in Nat /\ at[n + 1] \in Nat /\ n + 1 \in 0..k
      BY <1>3
    <3>2. at[n + 1] <= Len(s)
      <4>1. at[n + 1] + (k - (n + 1)) <= end
        BY <1>6, <3>1
      <4>. QED  BY <1>1, <1>7, <3>1, <4>1
    <3>3. Comes(s, o, at[n])
      BY <2>2
    <3>4. PICK bytes : Piece(s, at[n], at[n + 1], bytes)
      BY <1>2
    <3>. HIDE DEF S
    <3>. QED  BY <3>1, <3>2, <3>3, <3>4, ComesPiece
  <2>. HIDE DEF S
  <2>3. Nat \subseteq S
    BY <2>1, <2>2, Induction
  <2>. QED  BY <2>3 DEF S
<1>9. StringEnd(s, o) = end
  <2>1. PICK m \in Nat : Scan(s, o)[m].input_end = end
    <3>1. k \in 0..k
      OBVIOUS
    <3>2. Comes(s, o, at[k])
      BY <1>8, <3>1, Zenon
    <3>. QED  BY <1>1, <3>2, Zenon DEF Comes
  <2>2. Scanned(s, Scan(s, o)[m])
    BY <1>1, <2>1 DEF Scanned
  <2>3. AfterScan(s, o) = Scan(s, o)[m]
    BY <2>2, ScanEnd, Zenon
  <2>. QED  BY <2>1, <2>3, Zenon DEF StringEnd
\* The second pass takes a piece in each iteration.
<1>10. \A n \in 0..k : Copy(s, o)[n] = Reading(at[n], said[n])
  <2>. DEFINE S == {n \in Nat : n <= k => Copy(s, o)[n] = Reading(at[n], said[n])}
  <2>1. 0 \in S
    <3>1. Copy(s, o)[0] = [at |-> o + 1, out |-> <<>>, ok |-> TRUE]
      BY <1>1, <1>9, CopyLoop, Zenon
    <3>2. Copy(s, o)[0] = Reading(at[0], said[0])
      BY <1>1, <3>1, Zenon DEF Reading
    <3>. QED  BY <3>2
  <2>2. ASSUME NEW n \in Nat, n \in S PROVE n + 1 \in S
    <3>. SUFFICES ASSUME n + 1 <= k PROVE Copy(s, o)[n + 1] = Reading(at[n + 1], said[n + 1])
      OBVIOUS
    <3>1. at[n] \in Nat \ {0} /\ at[n + 1] \in Nat /\ n + 1 \in 0..k /\ n \in 0..k
      BY <1>3, <1>5
    <3>2. at[n + 1] <= end
      <4>1. at[n + 1] + (k - (n + 1)) <= end
        BY <1>6, <3>1
      <4>. QED  BY <1>7, <3>1, <4>1, SMTT(30)
    <3>3. Copy(s, o)[n] = Reading(at[n], said[n])
      BY <2>2
    <3>4. PICK bytes : Piece(s, at[n], at[n + 1], bytes) /\ said[n + 1] = said[n] \o bytes
      BY <1>2
    <3>5. Copy(s, o)[n + 1] = CopyOne(s, end, Copy(s, o)[n])
      BY <1>1, <1>9, CopyLoop, Zenon
    <3>. HIDE DEF S
    <3>6. CopyOne(s, end, Reading(at[n], said[n])) = Reading(at[n + 1], said[n] \o bytes)
      <4>. DEFINE a == at[n]
                  b == at[n + 1]
                  out == said[n]
      <4>1. /\ a \in Nat \ {0} /\ b \in Nat /\ b <= end /\ end \in Nat /\ end <= Len(s)
            /\ Piece(s, a, b, bytes)
        BY <1>1, <1>7, <3>1, <3>2, <3>4, Zenon
      <4>. HIDE DEF a, b, out
      <4>2. CopyOne(s, end, Reading(a, out)) = Reading(b, out \o bytes)
        BY <4>1, CopyPiece
      <4>. QED  BY <4>2 DEF a, b, out
    <3>. QED  BY <3>3, <3>4, <3>5, <3>6, Zenon
  <2>. HIDE DEF S
  <2>3. Nat \subseteq S
    BY <2>1, <2>2, Induction
  <2>. QED  BY <2>3 DEF S
<1>. DEFINE Stopped(n) == Copy(s, o)[n].at >= end \/ ~Copy(s, o)[n].ok
<1>11. Stopped(k) /\ Copy(s, o)[k].at >= end /\ Copy(s, o)[k].ok /\ Copy(s, o)[k].out = meant
  <2>0. k \in 0..k
    OBVIOUS
  <2>1. Copy(s, o)[k] = Reading(end, meant)
    BY <1>1, <1>10, <2>0, Zenon
  <2>. QED  BY <1>7, <2>1 DEF Reading
<1>12. ASSUME NEW n \in 0..Len(s), Stopped(n) PROVE Copy(s, o)[n] = Copy(s, o)[k]
  <2>1. CASE n < k
    <3>1. Copy(s, o)[n].at = at[n] /\ Copy(s, o)[n].ok /\ at[n] \in Nat
      <4>1. n \in 0..k
        BY <2>1
      <4>2. Copy(s, o)[n] = Reading(at[n], said[n]) /\ at[n] \in Nat
        BY <1>3, <1>10, <4>1, Zenon
      <4>. QED  BY <4>2 DEF Reading
    <3>2. at[n] + (k - n) <= end
      BY <1>6, <2>1
    <3>. QED  BY <1>7, <1>12, <2>1, <3>1, <3>2
  <2>2. CASE k <= n
    <3>1. n - k \in Nat /\ k + (n - k) = n
      BY <2>2
    <3>2. Copy(s, o)[k].at >= StringEnd(s, o) /\ StringEnd(s, o) <= Len(s)
      BY <1>1, <1>9, <1>11, Zenon
    <3>3. Copy(s, o)[k + (n - k)] = Copy(s, o)[k]
      <4>. DEFINE j == n - k
      <4>1. j \in Nat
        BY <3>1
      <4>. HIDE DEF j
      <4>2. Copy(s, o)[k + j] = Copy(s, o)[k]
        BY <3>2, <4>1, CopyStops, Zenon
      <4>. QED  BY <4>2 DEF j
    <3>. QED  BY <3>1, <3>3
  <2>. QED  BY <2>1, <2>2
<1>13. Unescape(s, o) = Copy(s, o)[k]
  <2>1. Unescape(s, o) = Copy(s, o)[CHOOSE n \in 0..Len(s) : Stopped(n)]
    BY <1>9, Zenon DEF Unescape, CopyDone
  <2>. DEFINE c == CHOOSE n \in 0..Len(s) : Stopped(n)
  <2>. HIDE DEF Stopped
  <2>2. c \in 0..Len(s) /\ Stopped(c)
    BY <1>7, <1>11, Zenon
  <2>3. Copy(s, o)[c] = Copy(s, o)[k]
    BY <1>12, <2>2, Zenon
  <2>. QED  BY <2>1, <2>3, Zenon
<1>. QED  BY <1>9, <1>11, <1>13, Zenon

-----------------------------------------------------------------------------
(* The parser: what it makes of an item depends on the form of the item,   *)
(* from the leaves up.                                                     *)

\* A number of a set that is at most each of them is its Least.
LEMMA LeastIs ==
  ASSUME NEW T, T \subseteq Nat, NEW i \in T, \A j \in T : i <= j
  PROVE  Least(T) = i
<1>. DEFINE c == CHOOSE k \in T : \A j \in T : k <= j
<1>1. c \in T /\ \A j \in T : c <= j
  OBVIOUS
<1>2. c \in Nat /\ i \in Nat /\ c <= i /\ i <= c
  BY <1>1
<1>. HIDE DEF c
<1>3. c = i
  BY <1>2
<1>. QED  BY <1>3 DEF Least, c

\* A number of a set that is at least each of them is its Greatest.
LEMMA GreatestIs ==
  ASSUME NEW T, T \subseteq Nat, NEW i \in T, \A j \in T : i >= j
  PROVE  Greatest(T) = i
<1>. DEFINE c == CHOOSE k \in T : \A j \in T : k >= j
<1>1. c \in T /\ \A j \in T : c >= j
  OBVIOUS
<1>2. c \in Nat /\ i \in Nat /\ c <= i /\ i <= c
  BY <1>1
<1>. HIDE DEF c
<1>3. c = i
  BY <1>2
<1>. QED  BY <1>3 DEF Greatest, c

\* Blanks are skipped up to the next character.
LEMMA SkipTo ==
  ASSUME NEW s \in Seq(Code), NEW a \in Nat \ {0}, NEW b \in Nat, a <= b, b <= Len(s),
         Blanks(s, a, b), s[b] > Space
  PROVE  SkipWhitespace(s, a) = b
<1>1. CASE a = Len(s)
  BY <1>1 DEF SkipWhitespace
<1>2. CASE a < Len(s)
  <2>. DEFINE T == {p \in a..Len(s) : p = Len(s) \/ s[p] > Space}
  <2>1. b \in T /\ T \subseteq Nat
    OBVIOUS
  <2>2. ASSUME NEW p \in T PROVE b <= p
    <3>1. CASE p < b
      <4>1. p \in a..(b - 1)
        BY <3>1
      <4>2. s[p] <= Space /\ s[p] \in Nat
        BY <4>1 DEF Blanks, Code
      <4>. QED  BY <3>1, <4>2 DEF Space
    <3>. QED  BY <3>1
  <2>3. Least(T) = b
    <3>. HIDE DEF T
    <3>. QED  BY <2>1, <2>2, LeastIs
  <2>. QED  BY <1>2, <2>3 DEF SkipWhitespace
<1>. QED  BY <1>1, <1>2

\* parse_string finds the end of a string and makes its text.
LEMMA StringIs ==
  ASSUME NEW s \in Seq(Code), NEW a \in Nat \ {0}, NEW b, NEW name, StringAt(s, a, b, name)
  PROVE  ParseString(s, a) = Success(b, Leaf("string", name)) /\ s[a] = Quote
<1>1. /\ b \in Nat /\ b <= Len(s) + 1 /\ s[a] = Quote
  BY DEF StringAt
<1>2. PICK k \in Nat : \E at \in [0..k -> Nat], said \in [0..k -> Seq(Nat)] :
           \E t : Writes(s, a, b - 1, t, k, at, said) /\ name = CString(t)
  BY Zenon DEF StringAt
<1>3. PICK at \in [0..k -> Nat], said \in [0..k -> Seq(Nat)] :
           \E t : Writes(s, a, b - 1, t, k, at, said) /\ name = CString(t)
  BY <1>2, Zenon
<1>4. PICK t : Writes(s, a, b - 1, t, k, at, said) /\ name = CString(t)
  BY <1>3, Zenon
<1>5. StringEnd(s, a) = b - 1 /\ Unescape(s, a).ok /\ Unescape(s, a).out = t
  <2>1. said \in [0..k -> Seq(Code)]
    BY DEF Code
  <2>. QED  BY <1>4, <2>1, StringsUnderstood, Zenon
<1>6. ~(b - 1 > Len(s)) /\ (b - 1) + 1 = b
  BY <1>1
<1>. QED  BY <1>1, <1>4, <1>5, <1>6, Zenon DEF ParseString

\* parse_number takes all of a number that is not longer than its buffer.
LEMMA NumberIs ==
  ASSUME NEW s \in Seq(Code), NEW a \in Nat \ {0}, NEW b, NumberAt(s, a, b), NumberSize \in Nat
  PROVE  ParseNumber(s, a) = Success(b, Leaf("number", SubSeq(s, a, b - 1)))
<1>1. /\ b \in Nat /\ a < b /\ b <= Len(s) + 1 /\ b - a <= NumberSize
      /\ \A i \in a..(b - 1) : s[i] \in NumberChars
      /\ b <= Len(s) => s[b] \notin NumberChars
      /\ IsDecimal(SubSeq(s, a, b - 1))
  BY DEF NumberAt
<1>. DEFINE run == {n \in 0..NumberSize :
                      a + n - 1 <= Len(s) /\ \A i \in a..(a + n - 1) : s[i] \in NumberChars}
            taken == {n \in run : IsDecimal(SubSeq(s, a, a + n - 1))}
<1>2. b - a \in Nat /\ a + (b - a) - 1 = b - 1 /\ a + (b - a) = b
  BY <1>1
<1>3. b - a \in taken
  BY <1>1, <1>2
<1>4. ASSUME NEW n \in taken PROVE b - a >= n
  <2>1. CASE n > b - a
    <3>1. n \in Nat /\ b \in a..(a + n - 1) /\ b <= Len(s)
      BY <1>1, <2>1
    <3>2. s[b] \in NumberChars
      BY <3>1
    <3>. QED  BY <1>1, <3>1, <3>2
  <2>. QED  BY <1>1, <2>1
<1>5. taken \subseteq Nat /\ taken # {}
  BY <1>3
<1>6. ParseNumber(s, a) = IF taken = {} THEN Failure
        ELSE LET n == Greatest(taken) IN Success(a + n, Leaf("number", SubSeq(s, a, a + n - 1)))
  BY Zenon DEF ParseNumber
<1>. HIDE DEF taken
<1>7. Greatest(taken) = b - a
  BY <1>3, <1>4, <1>5, GreatestIs
<1>. QED  BY <1>2, <1>5, <1>6, <1>7

\* What an item begins with.
LEMMA LeafIs ==
  ASSUME NEW s \in Seq(Code), NEW v, v.from \in 1..Len(s), v.to \in Nat, LeafAt(s, v),
         NumberSize \in Nat
  PROVE  /\ ParseLeaf(s, v.from) = Success(v.to, v.item)
         /\ s[v.from] > Space /\ s[v.from] \notin {LBracket, LBrace, RBracket}
<1>. DEFINE c == s[v.from]
<1>1. /\ Null = 256 /\ False = 257 /\ True = 258 /\ Quote = 34 /\ Minus = 45
      /\ Digits = 48..57 /\ LBracket = 91 /\ LBrace = 123 /\ RBracket = 93 /\ Space = 32
  BY DEF Null, False, True, Quote, Minus, Digits, LBracket, LBrace, RBracket, Space
<1>2. ParseLeaf(s, v.from) =
        CASE c = Null -> Success(v.from + 1, Leaf("null", <<>>))
          [] c = False -> Success(v.from + 1, Leaf("false", <<>>))
          [] c = True -> Success(v.from + 1, Leaf("true", <<>>))
          [] c = Quote -> ParseString(s, v.from)
          [] c \in Digits \cup {Minus} -> ParseNumber(s, v.from)
          [] OTHER -> Failure
  BY Zenon DEF ParseLeaf
<1>. HIDE DEF c
<1>3. CASE c = Null /\ v.to = v.from + 1 /\ v.item = Leaf("null", <<>>)
  BY <1>1, <1>2, <1>3 DEF c
<1>4. CASE c = False /\ v.to = v.from + 1 /\ v.item = Leaf("false", <<>>)
  BY <1>1, <1>2, <1>4 DEF c
<1>5. CASE c = True /\ v.to = v.from + 1 /\ v.item = Leaf("true", <<>>)
  BY <1>1, <1>2, <1>5 DEF c
<1>6. ASSUME NEW t, StringAt(s, v.from, v.to, t), v.item = Leaf("string", t)
      PROVE  ParseLeaf(s, v.from) = Success(v.to, v.item) /\ c = Quote
  <2>1. ParseString(s, v.from) = Success(v.to, v.item) /\ c = Quote
    <3>1. v.from \in Nat \ {0}
      OBVIOUS
    <3>2. /\ ParseString(s, v.from) = Success(v.to, Leaf("string", t))
          /\ s[v.from] = Quote
      BY <1>6, <3>1, StringIs, Zenon
    <3>. QED  BY <1>6, <3>2 DEF c
  <2>. QED  BY <1>1, <1>2, <2>1
<1>7. ASSUME NumberAt(s, v.from, v.to), v.item = Leaf("number", SubSeq(s, v.from, v.to - 1))
      PROVE  ParseLeaf(s, v.from) = Success(v.to, v.item) /\ c \in Digits \cup {Minus}
  <2>1. ParseNumber(s, v.from) = Success(v.to, v.item)
    <3>1. v.from \in Nat \ {0}
      OBVIOUS
    <3>. QED  BY <1>7, <3>1, NumberIs, Zenon
  <2>2. c \in Digits \cup {Minus}
    BY <1>7 DEF NumberAt, c
  <2>. QED  BY <1>1, <1>2, <2>1, <2>2
<1>8. \/ c = Null /\ v.to = v.from + 1 /\ v.item = Leaf("null", <<>>)
      \/ c = False /\ v.to = v.from + 1 /\ v.item = Leaf("false", <<>>)
      \/ c = True /\ v.to = v.from + 1 /\ v.item = Leaf("true", <<>>)
      \/ \E t : StringAt(s, v.from, v.to, t) /\ v.item = Leaf("string", t)
      \/ NumberAt(s, v.from, v.to) /\ v.item = Leaf("number", SubSeq(s, v.from, v.to - 1))
  BY Zenon DEF LeafAt, c
<1>9. CASE \E t : StringAt(s, v.from, v.to, t) /\ v.item = Leaf("string", t)
  <2>1. PICK t : StringAt(s, v.from, v.to, t) /\ v.item = Leaf("string", t)
    BY <1>9
  <2>2. ParseLeaf(s, v.from) = Success(v.to, v.item) /\ c = Quote
    BY <1>6, <2>1
  <2>. QED  BY <1>1, <2>2, SMTT(30) DEF c
<1>10. CASE NumberAt(s, v.from, v.to) /\ v.item = Leaf("number", SubSeq(s, v.from, v.to - 1))
  <2>1. ParseLeaf(s, v.from) = Success(v.to, v.item) /\ c \in Digits \cup {Minus}
    BY <1>7, <1>10, Zenon
  <2>. QED  BY <1>1, <2>1, SMTT(30) DEF c
<1>. QED  BY <1>3, <1>4, <1>5, <1>8, <1>9, <1>10

-----------------------------------------------------------------------------
(* The two recursions of the parser exist: that over the turns of a loop,  *)
(* and that over the nesting.                                              *)

Step(s, below, type, x) == IF type = "value" THEN Nested(s, x) ELSE Turn(s, below, type, x)
Runs(s, below, type, base, n, g) ==
    /\ g[0] = base
    /\ \A i \in 1..n : g[i] = Step(s, below, type, g[i - 1])

Recurs(f, s, below, type, base) ==
    f = [n \in Nat |-> IF n = 0 THEN base ELSE Step(s, below, type, f[n - 1])]

\* A function with this recursion exists: it is put together from finite ones.
LEMMA Recursion ==
  ASSUME NEW s, NEW below, NEW type, NEW base
  PROVE  \E f : Recurs(f, s, below, type, base)
<1>. DEFINE Part(n, g) == Runs(s, below, type, base, n, g)
            S == {n \in Nat : \E g : Part(n, g)}
            Same == {n \in Nat : \A k, l \in Nat : n <= k /\ n <= l =>
                         \A g, h : Part(k, g) /\ Part(l, h) => g[n] = h[n]}
<1>1. Nat \subseteq S
  <2>1. 0 \in S
    <3>1. Part(0, [i \in Nat |-> base])
      BY DEF Runs
    <3>. QED  BY <3>1
  <2>2. ASSUME NEW n \in Nat, n \in S PROVE n + 1 \in S
    <3>1. PICK g : Part(n, g)
      BY <2>2
    <3>. DEFINE h == [i \in Nat |-> IF i = n + 1 THEN Step(s, below, type, g[n]) ELSE g[i]]
    <3>2. h[0] = base
      BY <3>1 DEF Runs
    <3>3. ASSUME NEW i \in 1..(n + 1) PROVE h[i] = Step(s, below, type, h[i - 1])
      <4>1. CASE i = n + 1
        BY <4>1
      <4>2. CASE i # n + 1
        <5>1. i \in 1..n /\ h[i] = g[i] /\ h[i - 1] = g[i - 1]
          BY <4>2
        <5>2. g[i] = Step(s, below, type, g[i - 1])
          BY <3>1, <5>1, Zenon DEF Runs
        <5>. HIDE DEF h
        <5>. QED  BY <5>1, <5>2, Zenon
      <4>. QED  BY <4>1, <4>2
    <3>. HIDE DEF h
    <3>4. Part(n + 1, h)
      BY <3>2, <3>3, Zenon DEF Runs
    <3>. QED  BY <3>4
  <2>. HIDE DEF S
  <2>. QED  BY <2>1, <2>2, Induction
<1>2. Nat \subseteq Same
  <2>1. 0 \in Same
    BY DEF Runs
  <2>2. ASSUME NEW n \in Nat, n \in Same PROVE n + 1 \in Same
    <3>1. ASSUME NEW k \in Nat, NEW l \in Nat, n + 1 <= k, n + 1 <= l,
                 NEW g, NEW h, Part(k, g), Part(l, h)
          PROVE  g[n + 1] = h[n + 1]
      <4>1. g[n] = h[n]
        BY <2>2, <3>1
      <4>2. n + 1 \in 1..k /\ n + 1 \in 1..l /\ (n + 1) - 1 = n
        BY <3>1
      <4>3. g[n + 1] = Step(s, below, type, g[n]) /\ h[n + 1] = Step(s, below, type, h[n])
        BY <3>1, <4>2, Zenon DEF Runs
      <4>. QED  BY <4>1, <4>3, Zenon
    <3>. QED  BY <3>1
  <2>. HIDE DEF Same
  <2>. QED  BY <2>1, <2>2, Induction
<1>. DEFINE part(n) == CHOOSE g : Part(n, g)
            f == [n \in Nat |-> part(n)[n]]
<1>3. ASSUME NEW n \in Nat PROVE Part(n, part(n))
  <2>1. \E g : Part(n, g)
    BY <1>1
  <2>. HIDE DEF Part
  <2>. QED  BY <2>1
<1>4. ASSUME NEW n \in Nat
      PROVE  f[n] = IF n = 0 THEN base ELSE Step(s, below, type, f[n - 1])
  <2>1. CASE n = 0
    BY <1>3, <2>1 DEF Runs
  <2>2. CASE n # 0
    <3>1. n - 1 \in Nat /\ n \in 1..n
      BY <2>2
    <3>2. part(n)[n] = Step(s, below, type, part(n)[n - 1])
      <4>1. Part(n, part(n))
        BY <1>3
      <4>. HIDE DEF part
      <4>. QED  BY <3>1, <4>1, Zenon DEF Runs
    <3>3. part(n)[n - 1] = part(n - 1)[n - 1]
      <4>1. Part(n, part(n)) /\ Part(n - 1, part(n - 1))
        BY <1>3, <3>1
      <4>2. n - 1 \in Same /\ n - 1 <= n /\ n - 1 <= n - 1
        BY <1>2, <3>1
      <4>. HIDE DEF Part, part
      <4>. QED  BY <3>1, <4>1, <4>2
    <3>. HIDE DEF part
    <3>4. f[n - 1] = part(n - 1)[n - 1] /\ f[n] = part(n)[n]
      BY <3>1
    <3>. HIDE DEF f
    <3>. QED  BY <2>2, <3>2, <3>3, <3>4, Zenon
  <2>. QED  BY <2>1, <2>2
<1>5. f = [n \in Nat |-> f[n]]
  OBVIOUS
<1>6. Recurs(f, s, below, type, base)
  <2>. HIDE DEF f
  <2>. QED  BY <1>4, <1>5, Zenon DEF Recurs
<1>. HIDE DEF f
<1>. QED  BY <1>6

FirstTurn(o) == [at |-> o, children |-> <<>>, more |-> TRUE, ok |-> TRUE]

\* Turns begins as it should, and each turn makes the next state of the last.
LEMMA TurnsAre ==
  ASSUME NEW s, NEW below, NEW type \in {"array", "object"}, NEW o
  PROVE  /\ Turns(s, below, type, o)[0] = FirstTurn(o)
         /\ \A n \in Nat : Turns(s, below, type, o)[n + 1]
                               = Turn(s, below, type, Turns(s, below, type, o)[n])
<1>. DEFINE first == FirstTurn(o)
            Loop(f) == f = [n \in Nat |-> IF n = 0 THEN first ELSE Turn(s, below, type, f[n - 1])]
<1>1. \A x : Step(s, below, type, x) = Turn(s, below, type, x)
  BY DEF Step
<1>. HIDE DEF first
<1>2. \E f : Loop(f)
  <2>1. PICK f : Recurs(f, s, below, type, first)
    BY Recursion
  <2>2. Loop(f)
    BY <1>1, <2>1, Zenon DEF Recurs
  <2>. QED  BY <2>2
<1>3. Loop(Turns(s, below, type, o))
  <2>1. Turns(s, below, type, o) = CHOOSE g : Loop(g)
    BY Zenon DEF Turns, FirstTurn, first
  <2>. HIDE DEF Loop
  <2>. QED  BY <1>2, <2>1, Zenon
<1>4. ASSUME NEW n \in Nat
      PROVE  Turns(s, below, type, o)[n + 1] = Turn(s, below, type, Turns(s, below, type, o)[n])
  <2>1. n + 1 \in Nat /\ n + 1 # 0 /\ (n + 1) - 1 = n
    OBVIOUS
  <2>. QED  BY <1>3, <2>1
<1>5. Turns(s, below, type, o)[0] = first
  BY <1>3
<1>. QED  BY <1>4, <1>5 DEF first

\* ParseValue begins with the leaves, and each nesting uses the one below.
LEMMA ValuesAre ==
  ASSUME NEW s
  PROVE  /\ ParseValue(s)[0] = Leaves(s)
         /\ \A n \in Nat : ParseValue(s)[n + 1] = Nested(s, ParseValue(s)[n])
<1>. DEFINE first == Leaves(s)
            Loop(f) == f = [n \in Nat |-> IF n = 0 THEN first ELSE Nested(s, f[n - 1])]
<1>1. \A x : Step(s, first, "value", x) = Nested(s, x)
  BY DEF Step
<1>. HIDE DEF first
<1>2. \E f : Loop(f)
  <2>1. PICK f : Recurs(f, s, first, "value", first)
    BY Recursion
  <2>2. Loop(f)
    BY <1>1, <2>1, Zenon DEF Recurs
  <2>. QED  BY <2>2
<1>3. Loop(ParseValue(s))
  <2>1. ParseValue(s) = CHOOSE g : Loop(g)
    BY Zenon DEF ParseValue, first
  <2>. HIDE DEF Loop
  <2>. QED  BY <1>2, <2>1, Zenon
<1>4. ASSUME NEW n \in Nat PROVE ParseValue(s)[n + 1] = Nested(s, ParseValue(s)[n])
  <2>1. n + 1 \in Nat /\ n + 1 # 0 /\ (n + 1) - 1 = n
    OBVIOUS
  <2>. QED  BY <1>3, <2>1
<1>5. ParseValue(s)[0] = first
  BY <1>3
<1>. QED  BY <1>4, <1>5 DEF first

-----------------------------------------------------------------------------
(* One turn of a loop.                                                     *)

\* A claim about a child that the parser below bears out.
Taught(s, below, c) ==
    /\ c.from \in 1..Len(s) /\ c.to \in (c.from + 1)..(Len(s) + 1)
    /\ s[c.from] > Space /\ s[c.from] # RBracket
    /\ below[c.from] = Success(c.to, c.item)

\* A child is found behind its blanks, and comes with its name.
LEMMA NamedIs ==
  ASSUME NEW s \in Seq(Code), NEW below, NEW a \in Nat, NEW c, NEW b,
         Taught(s, below, c), ElementAt(s, a, c, b), NEW name
  PROVE  Named(name, ValueAt(s, below, SkipWhitespace(s, a + 1))) = Success(c.to, Child(name, c.item))
<1>. DEFINE o == c.from
<1>1. /\ o \in Nat /\ a + 1 <= o /\ o <= Len(s) /\ Blanks(s, a + 1, o) /\ s[o] > Space
      /\ below[o] = Success(c.to, c.item)
  BY DEF Taught, ElementAt
<1>. HIDE DEF o
<1>2. SkipWhitespace(s, a + 1) = o
  BY <1>1, SkipTo
<1>3. ValueAt(s, below, o) = Success(c.to, c.item)
  BY <1>1 DEF ValueAt
<1>. DEFINE r == Success(c.to, c.item)
<1>4. r.ok /\ r.at = c.to /\ r.item = c.item
  BY DEF Success
<1>5. ValueAt(s, below, SkipWhitespace(s, a + 1)) = r
  BY <1>2, <1>3
<1>. HIDE DEF r
<1>. QED  BY <1>4, <1>5, Zenon DEF Named

\* So is a child with its name and colon before it.
LEMMA MemberIs ==
  ASSUME NEW s \in Seq(Code), NEW below, NEW a \in Nat, NEW c, NEW b,
         Taught(s, below, c), NEW name, MemberAt(s, a, name, c, b)
  PROVE  ParseMember(s, below, a) = Success(c.to, Child(name, c.item))
<1>1. PICK q \in Nat, e \in Nat, colon \in Nat :
        /\ a < q /\ Blanks(s, a + 1, q) /\ StringAt(s, q, e, name)
        /\ e <= colon /\ Blanks(s, e, colon) /\ s[colon] = Colon
        /\ ElementAt(s, colon, c, b)
  BY Zenon DEF MemberAt
<1>2. q \in Nat \ {0} /\ q + 2 <= e /\ e <= Len(s) + 1 /\ s[q] = Quote
  BY <1>1 DEF StringAt
<1>3. colon + 1 <= Len(s)
  BY <1>1 DEF ElementAt, Taught
<1>4. Quote > Space /\ Colon > Space
  BY DEF Quote, Space, Colon
<1>5. SkipWhitespace(s, a + 1) = q
  <2>1. a + 1 \in Nat \ {0} /\ a + 1 <= q /\ q <= Len(s) /\ s[q] > Space
    BY <1>1, <1>2, <1>4
  <2>. QED  BY <1>1, <2>1, SkipTo
<1>6. ParseString(s, q) = Success(e, Leaf("string", name))
  BY <1>1, <1>2, StringIs
<1>7. SkipWhitespace(s, e) = colon
  <2>1. e \in Nat \ {0} /\ e <= colon /\ colon <= Len(s) /\ s[colon] > Space
    BY <1>1, <1>2, <1>3, <1>4
  <2>. QED  BY <1>1, <2>1, SkipTo
<1>8. Named(name, ValueAt(s, below, SkipWhitespace(s, colon + 1))) = Success(c.to, Child(name, c.item))
  BY <1>1, NamedIs
<1>. DEFINE r == Success(e, Leaf("string", name))
<1>9. r.ok /\ r.at = e /\ r.item.text = name
  BY DEF Success, Leaf
<1>10. ~(a + 1 > Len(s)) /\ Has(s, colon, Colon)
  BY <1>1, <1>2, <1>3 DEF Has
<1>11. ParseString(s, SkipWhitespace(s, a + 1)) = r
  BY <1>5, <1>6
<1>. HIDE DEF r
<1>12. ParseMember(s, below, a) = ParseMemberOf(s, below, r)
  BY <1>10, <1>11, Zenon DEF ParseMember
<1>. QED  BY <1>7, <1>8, <1>9, <1>10, <1>12, Zenon DEF ParseMemberOf

State(a, children, more) == [at |-> a, children |-> children, more |-> more, ok |-> TRUE]

\* A turn goes from the mark before a child to the one behind it.
LEMMA TurnIs ==
  ASSUME NEW s \in Seq(Code), NEW below, NEW type \in {"array", "object"},
         NEW a \in Nat, NEW c, NEW b \in 1..Len(s), NEW name, NEW children,
         Taught(s, below, c), ChildAt(s, type, a, name, c, b),
         s[b] \in {Comma, Close(type)}
  PROVE  Turn(s, below, type, State(a, children, TRUE))
            = State(b, Append(children, Child(name, c.item)), s[b] = Comma)
<1>. DEFINE x == State(a, children, TRUE)
            child == IF type = "array" THEN ParseElement(s, below, a) ELSE ParseMember(s, below, a)
            r == Success(c.to, Child(name, c.item))
<1>1. x.at = a /\ x.children = children /\ x.more
  BY DEF State
<1>2. r.ok /\ r.at = c.to /\ r.item = Child(name, c.item)
  BY DEF Success
<1>3. /\ type = "array" => name = <<>> /\ ElementAt(s, a, c, b)
      /\ type = "object" => MemberAt(s, a, name, c, b)
  BY DEF ChildAt
<1>4. child = r
  <2>1. CASE type = "array"
    BY <1>3, <2>1, NamedIs DEF ParseElement
  <2>2. CASE type = "object"
    BY <1>3, <2>2, MemberIs
  <2>. QED  BY <2>1, <2>2
<1>5. c.to <= b /\ Blanks(s, c.to, b)
  <2>1. CASE type = "array"
    BY <1>3, <2>1 DEF ElementAt
  <2>2. CASE type = "object"
    BY <1>3, <2>2 DEF MemberAt, ElementAt
  <2>. QED  BY <2>1, <2>2
<1>6. SkipWhitespace(s, c.to) = b
  <2>1. c.to \in Nat \ {0} /\ b \in Nat /\ b <= Len(s)
    BY DEF Taught
  <2>2. s[b] > Space
    BY DEF Close, Comma, RBracket, RBrace, Space
  <2>. DEFINE o == c.to
  <2>3. o \in Nat \ {0} /\ o <= b /\ Blanks(s, o, b)
    BY <1>5, <2>1
  <2>. HIDE DEF o
  <2>4. SkipWhitespace(s, o) = b
    BY <2>1, <2>2, <2>3, SkipTo
  <2>. QED  BY <2>4 DEF o
<1>7. Has(s, b, Comma) = (s[b] = Comma)
  BY DEF Has
<1>8. Turn(s, below, type, x) = Attach(s, x, child)
  <2>. HIDE DEF x, r
  <2>. QED  BY <1>1, Zenon DEF Turn
<1>. HIDE DEF x, child, r
<1>9. Turn(s, below, type, x) =
        [at |-> b, children |-> Append(children, Child(name, c.item)),
         more |-> (s[b] = Comma), ok |-> TRUE]
  BY <1>1, <1>2, <1>4, <1>6, <1>7, <1>8, Zenon DEF Attach
<1>. QED  BY <1>9, Zenon DEF State, x

\* A loop that has ended stays as it is.
LEMMA TurnsStay ==
  ASSUME NEW s, NEW below, NEW type \in {"array", "object"}, NEW o,
         NEW n \in Nat, NEW j \in Nat, ~Turns(s, below, type, o)[n].more
  PROVE  Turns(s, below, type, o)[n + j] = Turns(s, below, type, o)[n]
<1>a. \A m \in Nat : Turns(s, below, type, o)[m + 1]
                        = Turn(s, below, type, Turns(s, below, type, o)[m])
  BY TurnsAre
<1>. DEFINE f == Turns(s, below, type, o)
            S == {i \in Nat : f[n + i] = f[n]}
<1>0. \A m \in Nat : f[m + 1] = Turn(s, below, type, f[m])
  BY <1>a
<1>. HIDE DEF f
<1>1. 0 \in S
  OBVIOUS
<1>2. ASSUME NEW i \in Nat, i \in S PROVE i + 1 \in S
  <2>1. n + i \in Nat /\ n + (i + 1) = (n + i) + 1
    OBVIOUS
  <2>2. f[(n + i) + 1] = Turn(s, below, type, f[n + i])
    BY <1>0, <2>1, Zenon
  <2>3. f[n + i] = f[n]
    BY <1>2
  <2>4. Turn(s, below, type, f[n]) = f[n]
    BY Zenon DEF Turn, f
  <2>5. f[n + (i + 1)] = f[n]
    BY <2>1, <2>2, <2>3, <2>4, Zenon
  <2>. QED  BY <2>5
<1>. HIDE DEF S
<1>3. Nat \subseteq S
  BY <1>1, <1>2, Induction
<1>. QED  BY <1>3 DEF S, f

-----------------------------------------------------------------------------
(* A whole array or object.                                                *)

\* A child takes up room.
LEMMA ChildForward ==
  ASSUME NEW s, NEW below, NEW type, NEW a \in Nat, NEW name, NEW c, NEW b \in Nat,
         Taught(s, below, c), ChildAt(s, type, a, name, c, b)
  PROVE  a < b
<1>1. \E d \in Nat : a <= d /\ ElementAt(s, d, c, b)
  <2>1. CASE type = "array"
    BY <2>1 DEF ChildAt
  <2>2. CASE type # "array"
    <3>1. MemberAt(s, a, name, c, b)
      BY <2>2 DEF ChildAt
    <3>2. PICK q \in Nat, e \in Nat, colon \in Nat :
            a < q /\ StringAt(s, q, e, name) /\ e <= colon /\ ElementAt(s, colon, c, b)
      BY <3>1, Zenon DEF MemberAt
    <3>3. q + 2 <= e
      BY <3>2 DEF StringAt
    <3>. QED  BY <3>2, <3>3
  <2>. QED  BY <2>1, <2>2
<1>. QED  BY <1>1 DEF ElementAt, Taught

\* What the parsers below know of the children of an array or object.
Listed(s, below, type, k, mark, name, child) ==
    /\ \A i \in 1..k : /\ Taught(s, below, child[i])
                       /\ ChildAt(s, type, mark[i - 1], name[i], child[i], mark[i])
                       /\ i < k => s[mark[i]] = Comma
    /\ s[mark[k]] = Close(type)

Children(n, name, child) == [i \in 1..n |-> Child(name[i], child[i].item)]

\* One child after the other, from none.
LEMMA ChildrenGrow ==
  ASSUME NEW n \in Nat, NEW name, NEW child
  PROVE  /\ Append(Children(n, name, child), Child(name[n + 1], child[n + 1].item))
               = Children(n + 1, name, child)
         /\ Children(0, name, child) = <<>>
<1>. DEFINE x == Child(name[n + 1], child[n + 1].item)
            f == Children(n, name, child)
            g == Children(n + 1, name, child)
<1>1. /\ DOMAIN f = 1..n /\ Len(f) = n /\ \A i \in 1..n : f[i] = g[i]
      /\ DOMAIN g = 1..(n + 1) /\ g[n + 1] = x /\ Len(g) = n + 1
      /\ f \in Seq({f[i] : i \in 1..n}) /\ g \in Seq({g[i] : i \in 1..(n + 1)})
  BY DEF Children
<1>. DEFINE T == {g[i] : i \in 1..(n + 1)}
<1>2. f \in Seq(T) /\ g \in Seq(T) /\ x \in T
  <2>1. \A i \in 1..n : f[i] \in T
    BY <1>1
  <2>2. x \in T
    BY <1>1
  <2>3. f \in [1..n -> T] /\ g \in [1..(n + 1) -> T]
    BY <2>1 DEF Children
  <2>. HIDE DEF f, g, T
  <2>. QED  BY <2>2, <2>3
<1>. HIDE DEF f, g, x, T
<1>3. Append(f, x) = g
  <2>1. Append(f, x) \in Seq(T) /\ Len(Append(f, x)) = n + 1
    BY <1>1, <1>2
  <2>2. \A i \in 1..(n + 1) : Append(f, x)[i] = g[i]
    BY <1>1, <1>2
  <2>. QED  BY <1>1, <1>2, <2>1, <2>2
<1>4. Children(0, name, child) = <<>>
  BY DEF Children
<1>. QED  BY <1>3, <1>4 DEF f, g, x

\* The loop has ended behind the last child, with all of them.
Ended(s, below, type, k, mark, name, child) ==
    Turns(s, below, type, mark[0])[k] = State(mark[k], Children(k, name, child), FALSE)

\* After as many turns as there are children, the loop ends at the last mark.
LEMMA LoopIs ==
  ASSUME NEW s \in Seq(Code), NEW below, NEW type \in {"array", "object"},
         NEW k \in Nat \ {0}, NEW mark \in [0..k -> 1..Len(s)], NEW name, NEW child,
         Listed(s, below, type, k, mark, name, child)
  PROVE  Ended(s, below, type, k, mark, name, child)
<1>. DEFINE f == Turns(s, below, type, mark[0])
            S == {n \in Nat : n <= k => f[n] = State(mark[n], Children(n, name, child), n < k)}
<1>0. f[0] = FirstTurn(mark[0]) /\ \A n \in Nat : f[n + 1] = Turn(s, below, type, f[n])
  BY TurnsAre
<1>. HIDE DEF f
<1>1. 0 \in S
  <2>1. Children(0, name, child) = <<>> /\ (0 < k) = TRUE
    BY ChildrenGrow
  <2>2. f[0] = State(mark[0], Children(0, name, child), 0 < k)
    BY <1>0, <2>1, Zenon DEF FirstTurn, State
  <2>. QED  BY <2>2
<1>2. ASSUME NEW n \in Nat, n \in S PROVE n + 1 \in S
  <2>. SUFFICES ASSUME n + 1 <= k
                PROVE  f[n + 1] = State(mark[n + 1], Children(n + 1, name, child), n + 1 < k)
    OBVIOUS
  <2>1. (n < k) = TRUE /\ n + 1 \in 1..k /\ (n + 1) - 1 = n /\ n \in 0..k /\ n + 1 \in 0..k
    OBVIOUS
  <2>2. f[n] = State(mark[n], Children(n, name, child), TRUE)
    <3>1. f[n] = State(mark[n], Children(n, name, child), n < k)
      BY <1>2, <2>1
    <3>. HIDE DEF S
    <3>. QED  BY <2>1, <3>1, Zenon
  <2>. HIDE DEF S
  <2>. DEFINE a == mark[n]
              b == mark[n + 1]
              c == child[n + 1]
  <2>3. a \in Nat /\ b \in 1..Len(s)
    BY <2>1
  <2>4. Taught(s, below, c) /\ ChildAt(s, type, a, name[n + 1], c, b)
    BY <2>1, Zenon DEF Listed
  <2>5. s[b] \in {Comma, Close(type)} /\ (s[b] = Comma) = (n + 1 < k)
    <3>1. CASE n + 1 < k
      <4>1. s[b] = Comma
        BY <2>1, <3>1, Zenon DEF Listed
      <4>. QED  BY <3>1, <4>1
    <3>2. CASE n + 1 = k
      <4>1. s[b] = Close(type)
        BY <3>2 DEF Listed
      <4>. QED  BY <3>2, <4>1 DEF Close, Comma, RBracket, RBrace
    <3>. QED  BY <3>1, <3>2
  <2>. HIDE DEF a, b, c
  <2>6. Turn(s, below, type, State(a, Children(n, name, child), TRUE))
          = State(b, Append(Children(n, name, child), Child(name[n + 1], c.item)), s[b] = Comma)
    BY <2>3, <2>4, <2>5, TurnIs, SMTT(30)
  <2>7. f[n + 1] = Turn(s, below, type, f[n])
    BY <1>0
  <2>8. Append(Children(n, name, child), Child(name[n + 1], c.item)) = Children(n + 1, name, child)
    BY ChildrenGrow DEF c
  <2>9. f[n + 1] = State(b, Children(n + 1, name, child), n + 1 < k)
    BY <2>2, <2>5, <2>6, <2>7, <2>8 DEF a
  <2>. QED  BY <2>9 DEF b
<1>. HIDE DEF S
<1>3. Nat \subseteq S
  BY <1>1, <1>2, Induction
<1>4. k \in S
  BY <1>3
<1>5. f[k] = State(mark[k], Children(k, name, child), k < k)
  BY <1>4 DEF S
<1>6. (k < k) = FALSE
  OBVIOUS
<1>. QED  BY <1>5, <1>6, Zenon DEF Ended, f

\* Each turn but the last goes to a comma of its own.
LEMMA FewTurns ==
  ASSUME NEW s \in Seq(Code), NEW below, NEW type, NEW k \in Nat \ {0},
         NEW mark \in [0..k -> 1..Len(s)], NEW name, NEW child,
         Listed(s, below, type, k, mark, name, child)
  PROVE  /\ Cardinality(Positions(s, Comma)) \in Nat
         /\ k <= Cardinality(Positions(s, Comma)) + 1
<1>. DEFINE T == Positions(s, Comma)
<1>1. IsFiniteSet(T) /\ Cardinality(T) \in Nat
  <2>1. T \in SUBSET (1..Len(s))
    BY DEF Positions
  <2>2. IsFiniteSet(1..Len(s))
    BY FS_Interval
  <2>. QED  BY <2>1, <2>2, FS_Subset, FS_CardinalityType
<1>2. \A i \in 1..k : mark[i - 1] < mark[i]
  <2>1. ASSUME NEW i \in 1..k PROVE mark[i - 1] < mark[i]
    <3>1. i - 1 \in 0..k /\ i \in 0..k
      OBVIOUS
    <3>2. mark[i - 1] \in Nat /\ mark[i] \in Nat
      BY <3>1
    <3>3. Taught(s, below, child[i]) /\ ChildAt(s, type, mark[i - 1], name[i], child[i], mark[i])
      BY Zenon DEF Listed
    <3>. QED  BY <3>2, <3>3, ChildForward
  <2>. QED  BY <2>1
<1>3. \A j \in Nat : \A i \in Nat : i + 1 + j <= k => mark[i] < mark[i + 1 + j]
  <2>. DEFINE S == {j \in Nat : \A i \in Nat : i + 1 + j <= k => mark[i] < mark[i + 1 + j]}
  <2>1. 0 \in S
    <3>1. ASSUME NEW i \in Nat, i + 1 + 0 <= k PROVE mark[i] < mark[i + 1 + 0]
      <4>1. i + 1 \in 1..k /\ (i + 1) - 1 = i /\ i + 1 + 0 = i + 1
        BY <3>1
      <4>. QED  BY <1>2, <4>1
    <3>. QED  BY <3>1
  <2>2. ASSUME NEW j \in Nat, j \in S PROVE j + 1 \in S
    <3>1. ASSUME NEW i \in Nat, i + 1 + (j + 1) <= k PROVE mark[i] < mark[i + 1 + (j + 1)]
      <4>. DEFINE m == i + 1 + j
      <4>1. /\ m \in Nat /\ m + 1 \in 1..k /\ (m + 1) - 1 = m /\ m + 1 = i + 1 + (j + 1)
            /\ i \in 0..k /\ m \in 0..k /\ m + 1 \in 0..k /\ i + 1 + j <= k
        BY <3>1
      <4>2. mark[i] < mark[m]
        BY <2>2, <4>1
      <4>. HIDE DEF m, S
      <4>3. mark[m] < mark[m + 1]
        BY <1>2, <4>1
      <4>4. mark[i] \in Nat /\ mark[m] \in Nat /\ mark[m + 1] \in Nat
        BY <4>1
      <4>5. mark[i] < mark[m + 1]
        BY <4>2, <4>3, <4>4
      <4>. QED  BY <4>1, <4>5
    <3>. QED  BY <3>1
  <2>. HIDE DEF S
  <2>3. Nat \subseteq S
    BY <2>1, <2>2, Induction
  <2>. QED  BY <2>3 DEF S
<1>. DEFINE N == 1..(k - 1)
            f == [i \in N |-> mark[i]]
<1>4. f \in [N -> T]
  <2>1. ASSUME NEW i \in N PROVE mark[i] \in T
    <3>1. i \in 1..k /\ i < k /\ i \in 0..k
      OBVIOUS
    <3>2. s[mark[i]] = Comma /\ mark[i] \in 1..Len(s)
      BY <3>1 DEF Listed
    <3>. QED  BY <3>2 DEF Positions
  <2>. QED  BY <2>1
<1>5. ASSUME NEW i \in N, NEW j \in N, i < j PROVE f[i] # f[j]
  <2>1. j - i - 1 \in Nat /\ i \in Nat /\ i + 1 + (j - i - 1) = j /\ j <= k /\ i \in 0..k /\ j \in 0..k
    BY <1>5
  <2>2. mark[i] < mark[j]
    <3>. DEFINE d == j - i - 1
    <3>1. d \in Nat /\ i + 1 + d = j /\ i + 1 + d <= k
      BY <2>1
    <3>. HIDE DEF d
    <3>2. mark[i] < mark[i + 1 + d]
      BY <1>3, <2>1, <3>1
    <3>. QED  BY <3>1, <3>2
  <2>3. mark[i] \in Nat /\ mark[j] \in Nat
    BY <2>1
  <2>. QED  BY <2>2, <2>3
<1>6. IsFiniteSet(N) /\ Cardinality(N) = k - 1
  <2>. DEFINE m == k - 1
  <2>1. m \in Nat /\ 1 \in Int /\ m \in Int
    OBVIOUS
  <2>. HIDE DEF m
  <2>2. IsFiniteSet(1..m) /\ Cardinality(1..m) = IF 1 > m THEN 0 ELSE m - 1 + 1
    BY <2>1, FS_Interval, Zenon
  <2>3. (IF 1 > m THEN 0 ELSE m - 1 + 1) = m
    BY <2>1
  <2>4. IsFiniteSet(1..m) /\ Cardinality(1..m) = m
    <3>. DEFINE c == Cardinality(1..m)
                d == IF 1 > m THEN 0 ELSE m - 1 + 1
    <3>1. c = d /\ d = m
      BY <2>2, <2>3
    <3>. HIDE DEF d
    <3>2. c = m
      BY <3>1
    <3>. QED  BY <2>2, <3>2 DEF c
  <2>. QED  BY <2>4 DEF m
<1>. HIDE DEF T, f
<1>7. CASE Cardinality(T) < Cardinality(N)
  <2>1. \E i, j \in N : i # j /\ f[i] = f[j]
    <3>. HIDE DEF N
    <3>. QED  BY <1>1, <1>4, <1>6, <1>7, FS_PigeonHole
  <2>2. PICK i \in N, j \in N : i # j /\ f[i] = f[j]
    BY <2>1
  <2>3. i < j \/ j < i
    BY <2>2
  <2>. QED  BY <1>5, <2>2, <2>3
<1>. QED  BY <1>1, <1>6, <1>7 DEF T

\* The first child is where the parser looks for it, in front of the first
\* character that is no blank, and what it finds there does not close the list.
LEMMA FirstChild ==
  ASSUME NEW s \in Seq(Code), NEW below, NEW type \in {"array", "object"}, NEW a \in Nat,
         NEW name, NEW c, NEW b, Taught(s, below, c), ChildAt(s, type, a, name, c, b)
  PROVE  \E o \in Nat : /\ a < o /\ o <= Len(s) /\ Blanks(s, a + 1, o)
                        /\ s[o] > Space /\ s[o] # Close(type)
                        /\ ChildAt(s, type, o - 1, name, c, b)
<1>1. CASE type = "array"
  <2>. DEFINE o == c.from
  <2>1. /\ o \in Nat /\ o <= Len(s) /\ s[o] > Space /\ s[o] # RBracket
        /\ a < o /\ Blanks(s, a + 1, o) /\ c.to <= b /\ Blanks(s, c.to, b) /\ name = <<>>
    BY <1>1 DEF Taught, ChildAt, ElementAt
  <2>2. ElementAt(s, o - 1, c, b)
    BY <2>1 DEF ElementAt, Blanks
  <2>3. ChildAt(s, type, o - 1, name, c, b) /\ s[o] # Close(type)
    BY <1>1, <2>1, <2>2 DEF ChildAt, Close
  <2>. HIDE DEF o
  <2>. QED  BY <2>1, <2>3
<1>2. CASE type = "object"
  <2>1. MemberAt(s, a, name, c, b)
    BY <1>2 DEF ChildAt
  <2>2. PICK q \in Nat, e \in Nat, colon \in Nat :
          /\ a < q /\ Blanks(s, a + 1, q) /\ StringAt(s, q, e, name)
          /\ e <= colon /\ Blanks(s, e, colon) /\ s[colon] = Colon
          /\ ElementAt(s, colon, c, b)
    BY <2>1, Zenon DEF MemberAt
  <2>3. q <= Len(s) /\ s[q] = Quote /\ q - 1 < q /\ Blanks(s, (q - 1) + 1, q)
    BY <2>2 DEF StringAt, Blanks
  <2>4. MemberAt(s, q - 1, name, c, b)
    BY <2>2, <2>3, Zenon DEF MemberAt
  <2>5. ChildAt(s, type, q - 1, name, c, b)
    BY <1>2, <2>4 DEF ChildAt
  <2>6. s[q] > Space /\ s[q] # Close(type)
    BY <1>2, <2>3 DEF Quote, Space, Close, RBrace
  <2>. QED  BY <2>2, <2>3, <2>5, <2>6
<1>. QED  BY <1>1, <1>2

\* A whole array or object, when the parsers below know its children.
LEMMA ParentIs ==
  ASSUME NEW s \in Seq(Code), NEW below, NEW V, NEW v, v.from \in 1..Len(s), v.to \in Nat,
         NEW type \in {"array", "object"}, NEW k \in Nat,
         NEW mark \in [0..k -> 1..Len(s)], NEW name, NEW child,
         ParentAt(s, V, v, type, k, mark, name, child),
         \A i \in 1..k : Taught(s, below, child[i])
  PROVE  ParseParent(s, below, type, v.from) = Success(v.to, v.item)
<1>. DEFINE a == v.from
            z == v.to - 1
<1>1. /\ a \in Nat \ {0} /\ z \in Nat /\ a < z /\ z <= Len(s) /\ s[z] = Close(type)
      /\ z + 1 = v.to /\ v.item = Parent(type, Children(k, name, child))
  BY DEF ParentAt, Children
<1>2. s[z] > Space
  BY <1>1 DEF Close, RBracket, RBrace, Space
<1>3. /\ k = 0 => Blanks(s, a + 1, z)
      /\ k > 0 => mark[0] = a /\ mark[k] = z
  BY DEF ParentAt
<1>4. \A i \in 1..k : /\ ChildAt(s, type, mark[i - 1], name[i], child[i], mark[i])
                      /\ i < k => s[mark[i]] = Comma
  BY Zenon DEF ParentAt
<1>. HIDE DEF a, z
<1>5. CASE k = 0
  <2>1. SkipWhitespace(s, a + 1) = z
    BY <1>1, <1>2, <1>3, <1>5, SkipTo
  <2>2. Children(k, name, child) = <<>>
    BY <1>5, ChildrenGrow
  <2>3. Has(s, z, Close(type)) /\ ~(z > Len(s))
    BY <1>1 DEF Has
  <2>4. ParseParent(s, below, type, a) = Success(z + 1, Parent(type, <<>>))
    BY <2>1, <2>3, Zenon DEF ParseParent
  <2>. QED  BY <1>1, <2>2, <2>4 DEF a
<1>6. CASE k > 0
  <2>1. 0 \in 0..k /\ k \in 0..k /\ 1 \in 1..k /\ 1 - 1 = 0 /\ k \in Nat \ {0}
    BY <1>6
  <2>2. mark[0] = a /\ mark[k] = z
    BY <1>3, <1>6
  <2>3. ChildAt(s, type, a, name[1], child[1], mark[1]) /\ Taught(s, below, child[1])
    BY <1>4, <2>1, <2>2
  <2>4. PICK o \in Nat : /\ a < o /\ o <= Len(s) /\ Blanks(s, a + 1, o)
                         /\ s[o] > Space /\ s[o] # Close(type)
                         /\ ChildAt(s, type, o - 1, name[1], child[1], mark[1])
    BY <1>1, <2>3, FirstChild
  <2>5. SkipWhitespace(s, a + 1) = o
    BY <1>1, <2>4, SkipTo
  <2>6. ParseParent(s, below, type, a) = ParseChildren(s, below, type, o - 1)
    <3>1. ~(o > Len(s)) /\ ~Has(s, o, Close(type))
      BY <2>4 DEF Has
    <3>. QED  BY <2>5, <3>1, Zenon DEF ParseParent
  <2>. DEFINE m == [i \in 0..k |-> IF i = 0 THEN o - 1 ELSE mark[i]]
  <2>7. /\ m \in [0..k -> 1..Len(s)] /\ m[0] = o - 1 /\ m[k] = z
        /\ \A i \in 1..k : m[i] = mark[i]
    <3>1. o - 1 \in 1..Len(s)
      BY <1>1, <2>4
    <3>. QED  BY <2>1, <2>2, <3>1
  <2>8. ASSUME NEW i \in 1..k
        PROVE  ChildAt(s, type, m[i - 1], name[i], child[i], m[i])
    <3>1. CASE i = 1
      <4>1. m[i - 1] = o - 1 /\ m[i] = mark[1]
        BY <2>1, <2>7, <3>1
      <4>. HIDE DEF m
      <4>. QED  BY <2>4, <3>1, <4>1
    <3>2. CASE i # 1
      <4>1. m[i - 1] = mark[i - 1] /\ m[i] = mark[i]
        BY <2>7, <3>2
      <4>. HIDE DEF m
      <4>. QED  BY <1>4, <4>1
    <3>. QED  BY <3>1, <3>2
  <2>. HIDE DEF m
  <2>9. Listed(s, below, type, k, m, name, child)
    BY <1>1, <1>4, <2>7, <2>8 DEF Listed
  <2>10. Turns(s, below, type, o - 1)[k] = State(z, Children(k, name, child), FALSE)
    <3>1. k \in Nat \ {0} /\ m \in [0..k -> 1..Len(s)]
      BY <2>1, <2>7
    <3>2. Ended(s, below, type, k, m, name, child)
      BY <2>9, <3>1, LoopIs
    <3>. QED  BY <2>7, <3>2, Zenon DEF Ended
  <2>. DEFINE last == Cardinality(Positions(s, Comma)) + 1
  <2>11. last \in Nat /\ k <= last
    BY <2>1, <2>7, <2>9, FewTurns
  <2>. HIDE DEF last
  <2>12. Turns(s, below, type, o - 1)[last] = State(z, Children(k, name, child), FALSE)
    <3>. DEFINE j == last - k
    <3>1. j \in Nat /\ k + j = last
      BY <2>11
    <3>2. ~Turns(s, below, type, o - 1)[k].more
      BY <2>10 DEF State
    <3>. HIDE DEF j
    <3>3. Turns(s, below, type, o - 1)[k + j] = Turns(s, below, type, o - 1)[k]
      BY <3>1, <3>2, TurnsStay
    <3>. QED  BY <2>10, <3>1, <3>3
  <2>13. ParseChildren(s, below, type, o - 1) = Success(z + 1, Parent(type, Children(k, name, child)))
    <3>. DEFINE end == State(z, Children(k, name, child), FALSE)
    <3>1. end.ok /\ end.at = z /\ end.children = Children(k, name, child)
      BY DEF State
    <3>2. Has(s, z, Close(type))
      BY <1>1 DEF Has
    <3>. HIDE DEF end
    <3>3. Turns(s, below, type, o - 1)[last] = end
      BY <2>12 DEF end
    <3>4. ParseChildren(s, below, type, o - 1) = Finish(s, type, end)
      BY <3>3, Zenon DEF ParseChildren, last
    <3>. QED  BY <3>1, <3>2, <3>4, Zenon DEF Finish
  <2>. QED  BY <1>1, <2>6, <2>13 DEF a
<1>. QED  BY <1>5, <1>6

\* With as much nesting left as a claim has height, the parser bears it out.
LEMMA ValuesParsed ==
  ASSUME NEW s \in Seq(Code), NumberSize \in Nat, NEW V, Sound(s, V)
  PROVE  \A n \in Nat : \A v \in V : v.height <= n => Taught(s, ParseValue(s)[n], v)
<1>. DEFINE S == {n \in Nat : \A v \in V : v.height <= n => Taught(s, ParseValue(s)[n], v)}
<1>1. ASSUME NEW v \in V
      PROVE  /\ v.from \in 1..Len(s) /\ v.to \in (v.from + 1)..(Len(s) + 1) /\ v.to \in Nat
             /\ v.height \in Nat /\ Borne(s, V, v)
  <2>1. /\ v.from \in 1..Len(s) /\ v.to \in (v.from + 1)..(Len(s) + 1)
        /\ v.height \in Nat /\ Borne(s, V, v)
    BY Zenon DEF Sound
  <2>. QED  BY <2>1
<1>2. ASSUME NEW v \in V, LeafAt(s, v), NEW n \in Nat
      PROVE  Taught(s, ParseValue(s)[n], v)
  <2>1. /\ ParseLeaf(s, v.from) = Success(v.to, v.item)
        /\ s[v.from] > Space /\ s[v.from] \notin {LBracket, LBrace, RBracket}
    BY <1>1, <1>2, LeafIs
  <2>2. ParseValue(s)[n][v.from] = ParseLeaf(s, v.from)
    <3>1. CASE n = 0
      <4>1. ParseValue(s)[n] = Leaves(s)
        BY <3>1, ValuesAre
      <4>2. Leaves(s)[v.from] = ParseLeaf(s, v.from)
        BY <1>1 DEF Leaves
      <4>. QED  BY <4>1, <4>2
    <3>2. CASE n # 0
      <4>1. n - 1 \in Nat /\ (n - 1) + 1 = n
        BY <3>2
      <4>2. ParseValue(s)[n] = Nested(s, ParseValue(s)[n - 1])
        BY <4>1, ValuesAre
      <4>3. Nested(s, ParseValue(s)[n - 1])[v.from] = ParseLeaf(s, v.from)
        BY <1>1, <2>1 DEF Nested
      <4>. QED  BY <4>2, <4>3
    <3>. QED  BY <3>1, <3>2
  <2>. QED  BY <1>1, <2>1, <2>2 DEF Taught
<1>3. ASSUME NEW v \in V, ~LeafAt(s, v)
      PROVE  \E type \in {"array", "object"}, k \in Nat :
                \E mark \in [0..k -> 1..Len(s)] : \E name, child :
                    ParentAt(s, V, v, type, k, mark, name, child)
  BY <1>1, <1>3, Zenon DEF Borne
<1>4. 0 \in S
  <2>1. ASSUME NEW v \in V, v.height <= 0 PROVE LeafAt(s, v)
    <3>1. ~(v.height > 0)
      BY <1>1, <2>1
    <3>. QED  BY <1>3, <3>1, Zenon DEF ParentAt
  <2>. QED  BY <1>2, <2>1
<1>5. ASSUME NEW n \in Nat, n \in S PROVE n + 1 \in S
  <2>1. \A v \in V : v.height <= n => Taught(s, ParseValue(s)[n], v)
    BY <1>5
  <2>2. ASSUME NEW v \in V, v.height <= n + 1, ~LeafAt(s, v)
        PROVE  Taught(s, ParseValue(s)[n + 1], v)
    <3>. DEFINE below == ParseValue(s)[n]
    <3>1. PICK type \in {"array", "object"}, k \in Nat :
            \E mark \in [0..k -> 1..Len(s)] : \E name, child :
                ParentAt(s, V, v, type, k, mark, name, child)
      BY <1>3, <2>2
    <3>2. PICK mark \in [0..k -> 1..Len(s)] : \E name, child :
            ParentAt(s, V, v, type, k, mark, name, child)
      BY <3>1
    <3>3. PICK name, child : ParentAt(s, V, v, type, k, mark, name, child)
      BY <3>2
    <3>4. ASSUME NEW i \in 1..k PROVE Taught(s, below, child[i])
      <4>1. child[i] \in V /\ child[i].height < v.height
        BY <3>3, Zenon DEF ParentAt
      <4>2. child[i].height <= n
        BY <1>1, <2>2, <4>1
      <4>. QED  BY <2>1, <4>1, <4>2
    <3>5. s[v.from] = Open(type)
      BY <3>3 DEF ParentAt
    <3>. HIDE DEF below
    <3>6. ParseParent(s, below, type, v.from) = Success(v.to, v.item)
      BY <1>1, <3>3, <3>4, ParentIs
    <3>7. Nested(s, below)[v.from] = ParseParent(s, below, type, v.from)
      BY <1>1, <3>5 DEF Nested, Open, LBracket, LBrace
    <3>8. s[v.from] > Space /\ s[v.from] # RBracket
      BY <3>5 DEF Open, LBracket, LBrace, RBracket, Space
    <3>9. ParseValue(s)[n + 1] = Nested(s, below)
      BY ValuesAre DEF below
    <3>. QED  BY <1>1, <3>6, <3>7, <3>8, <3>9 DEF Taught
  <2>. QED  BY <1>2, <2>2
<1>. HIDE DEF S
<1>6. Nat \subseteq S
  BY <1>4, <1>5, Induction
<1>. QED  BY <1>6 DEF S

\* Of Json, for every sequence of bytes: whatever is an item written as JSON,
\* with blanks before it and anything behind, and nests no deeper than the
\* limit, cJSON_ParseWithLength makes into that item, and stops behind it.
THEOREM ItemsUnderstood ==
  ASSUME NEW s \in Seq(Code), NestingLimit \in Nat, NumberSize \in Nat,
         NEW V, Sound(s, V), NEW v \in V, v.height <= NestingLimit,
         SkipBom(s) <= v.from, Blanks(s, SkipBom(s), v.from)
  PROVE  Parse(s) = Success(v.to, v.item)
<1>. DEFINE below == ParseValue(s)[NestingLimit]
            o == v.from
<1>1. Taught(s, below, v)
  BY ValuesParsed
<1>2. o \in Nat /\ o <= Len(s) /\ s[o] > Space /\ below[o] = Success(v.to, v.item)
  BY <1>1 DEF Taught
<1>3. SkipWhitespace(s, SkipBom(s)) = o
  <2>. DEFINE a == SkipBom(s)
  <2>1. a \in Nat \ {0} /\ a <= o /\ Blanks(s, a, o)
    BY DEF SkipBom
  <2>. HIDE DEF a, o
  <2>2. SkipWhitespace(s, a) = o
    BY <1>2, <2>1, SkipTo
  <2>. QED  BY <2>2 DEF a
<1>4. ~(o > Len(s))
  BY <1>2
<1>. QED  BY <1>2, <1>3, <1>4, Zenon DEF Parse, ParseFirst, ValueAt
================================================================================

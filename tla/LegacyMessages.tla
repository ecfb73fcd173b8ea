--------------------------- MODULE LegacyMessages ---------------------------
(***************************************************************************)
(* The messages of the first server (legacy/bike.pb.cpp): how one is read   *)
(* from the wire item by item, checked for its required fields, merged,     *)
(* measured and written again.  The generated code is the same for every    *)
(* message but for its fields, so each message is its list of fields, and   *)
(* the operations take that list as their argument.                         *)
(*                                                                         *)
(* A wire is a sequence of items; an item carries a field number, a wire    *)
(* type and a value (of a string its length, of a nested message its length *)
(* and its own items).  A buffer that ends inside an item is the item       *)
(* "cut"; "end" is an end-group or zero tag.  A message is the fields whose *)
(* has-bit is set, the nested messages of its repeated field and the items  *)
(* it did not know.  The widths of integers and of a varint's bytes are     *)
(* scaled; every field number is below 16, so that a tag is one byte.       *)
(***************************************************************************)
EXTENDS Integers, FiniteSets, Sequences, SequencesExt, FiniteSetsExt, TLC

CONSTANTS
  Group,        \* values of the payload of one byte of a varint, 2^7
  Int32Range,   \* values of a 32-bit integer, 2^32: 0 .. Int32Range - 1, of
                \* which the upper half stands for the negative ones
  Int64Range,   \* values of a 64-bit integer, 2^64
  MaxItems      \* items that arrive beyond those of a complete message

ASSUME LegacyMessagesAssumption ==
  /\ Group \in Nat \ {0, 1} /\ {Int32Range, Int64Range, MaxItems} \subseteq Nat
  /\ 2 <= Int32Range /\ Int32Range < Int64Range

VARIABLES
  message,  \* the name of the message being read
  wire,     \* the items received for it
  pos,      \* the next item to read
  obj,      \* the message as read so far
  parsed    \* "building" the wire, "reading" it, then "accepted" or "refused"

lmvars == <<message, wire, pos, obj, parsed>>

Required(t) == [type |-> t, label |-> "required", of |-> <<>>]
Optional(t) == [type |-> t, label |-> "optional", of |-> <<>>]
Repeated(d) == [type |-> "message", label |-> "repeated", of |-> d]

\* Each list, with the operators that take it, stands for that message's Clear,
\* _InternalParse, _InternalSerialize, ByteSizeLong, MergeFrom and IsInitialized.
mobile_request == <<Required("string")>>
mobile_response == <<Required("int32"), Required("int32"), Optional("string")>>
login_request == <<Required("string"), Required("int32")>>
login_response == <<Required("int32"), Optional("string")>>
recharge_request == <<Required("string"), Required("int32")>>
recharge_response == <<Required("int32"), Optional("string"), Required("int32")>>
account_balance_request == <<Required("string")>>
account_balance_response == <<Required("int32"), Optional("string"), Required("int32")>>
list_account_records_request == <<Required("string")>>
account_record == <<Required("int32"), Required("int32"), Required("uint64")>>
list_account_records_response == <<Required("int32"), Optional("string"), Repeated(account_record)>>
list_travel_records_request == <<Required("string")>>
travel_record == <<Required("uint64"), Required("uint32"), Required("uint32")>>
list_travel_records_response ==
  <<Required("int32"), Optional("string"), Required("double"), Required("double"),
    Required("double"), Repeated(travel_record)>>

Messages ==
  [mobile_request |-> mobile_request, mobile_response |-> mobile_response,
   login_request |-> login_request, login_response |-> login_response,
   recharge_request |-> recharge_request, recharge_response |-> recharge_response,
   account_balance_request |-> account_balance_request,
   account_balance_response |-> account_balance_response,
   list_account_records_request |-> list_account_records_request,
   account_record |-> account_record,
   list_account_records_response |-> list_account_records_response,
   list_travel_records_request |-> list_travel_records_request,
   travel_record |-> travel_record,
   list_travel_records_response |-> list_travel_records_response]

Item(n, wt, v, sub) == [num |-> n, wt |-> wt, val |-> v, sub |-> sub]

WireType(t) == IF t \in {"int32", "uint32", "uint64"} THEN "varint"
               ELSE IF t = "double" THEN "fixed64" ELSE "len"

Narrow(t, v) == IF t \in {"int32", "uint32"} THEN v % Int32Range ELSE v

Known(d, i) == i.num \in DOMAIN d /\ i.wt = WireType(d[i.num].type)

\* The buffer ends inside the item, or the loop ends at its tag: the library
\* refuses a message not read to its end.
Breaks(i) == i.wt \in {"cut", "end"} \/ \E j \in DOMAIN i.sub : i.sub[j].wt \in {"cut", "end"}

Cleared == [set |-> <<>>, rep |-> <<>>, unknown |-> <<>>]

\* A field of the message itself: the last value wins, an item whose number or
\* wire type is not the message's own is kept as it came.
ReadLeaf(d, o, i) ==
  IF Known(d, i) THEN [o EXCEPT !.set = (i.num :> Narrow(d[i.num].type, i.val)) @@ @]
                 ELSE [o EXCEPT !.unknown = Append(@, i)]

ReadLeaves(d, items) == FoldLeft(LAMBDA o, i : ReadLeaf(d, o, i), Cleared, items)

\* One turn of the _InternalParse loop.
InternalParse(d, o, i) ==
  IF Known(d, i) /\ d[i.num].type = "message"
  THEN [o EXCEPT !.rep = Append(@, ReadLeaves(d[i.num].of, i.sub))]
  ELSE ReadLeaf(d, o, i)

Parse(d, items) == FoldLeft(LAMBDA o, i : InternalParse(d, o, i), Cleared, items)

RequiredOf(d) == {n \in DOMAIN d : d[n].label = "required"}
RepeatedOf(d) == {n \in DOMAIN d : d[n].label = "repeated"}

IsInitializedShallow(d, o) == RequiredOf(d) \subseteq DOMAIN o.set

IsInitialized(d, o) ==
  /\ RequiredOf(d) \subseteq DOMAIN o.set
  /\ \A n \in RepeatedOf(d), k \in DOMAIN o.rep : RequiredOf(d[n].of) \subseteq DOMAIN o.rep[k].set

\* A negative int32 is written as the 64-bit integer it is.
Extended(t, v) ==
  IF t = "int32" /\ 2 * v >= Int32Range THEN v + (Int64Range - Int32Range) ELSE v

\* The bytes of a varint, the least significant first, the upper bit set in all
\* but the last; and the number of them that the library computes ahead.
Varint[v \in 0..Int64Range - 1] ==
  IF v < Group THEN <<v>> ELSE <<Group + (v % Group)>> \o Varint[v \div Group]
VarintSize(v) == 1 + Cardinality({k \in 1..Int64Range : Group ^ k <= v})

\* The fields that are set, in field order, then the unknown items.
SerializeLeaves(d, o) ==
  LET nums == SetToSortSeq(DOMAIN o.set, LAMBDA a, b : a < b)
      item(n) == Item(n, WireType(d[n].type), Extended(d[n].type, o.set[n]), <<>>)
  IN  [k \in DOMAIN nums |-> item(nums[k])] \o o.unknown

\* What Int32Size, UInt32Size, UInt64Size, StringSize and the constant of a
\* double announce for a value, and the size of an item kept as it came.
ValueSize(t, v) ==
  CASE t = "int32" -> VarintSize(Extended(t, v))
    [] t \in {"uint32", "uint64"} -> VarintSize(v)
    [] t = "string" -> VarintSize(v) + v
    [] t = "double" -> 8
UnknownSize(i) ==
  1 + CASE i.wt = "varint" -> VarintSize(i.val) [] i.wt = "len" -> VarintSize(i.val) + i.val
        [] i.wt = "fixed32" -> 4 [] i.wt = "fixed64" -> 8

FieldsSize(d, o, nums) == MapThenSumSet(LAMBDA n : 1 + ValueSize(d[n].type, o.set[n]), nums)

RequiredFieldsByteSizeFallback(d, o) == FieldsSize(d, o, RequiredOf(d) \cap DOMAIN o.set)

LeafByteSize(d, o) ==
  (IF RequiredOf(d) \subseteq DOMAIN o.set THEN FieldsSize(d, o, RequiredOf(d))
                                           ELSE RequiredFieldsByteSizeFallback(d, o))
    + FieldsSize(d, o, DOMAIN o.set \ RequiredOf(d))
    + MapThenSumSet(LAMBDA k : UnknownSize(o.unknown[k]), DOMAIN o.unknown)

\* Mutant: the length written before a nested message is not counted.
MessageSizeBare(d, r) == LeafByteSize(d, r)

\* A nested message is preceded by its length.
MessageSize(d, r) == VarintSize(LeafByteSize(d, r)) + LeafByteSize(d, r)

\* One byte of tag for every nested message, and the messages.
ByteSizeLong(d, o) ==
  LeafByteSize(d, o) + Len(o.rep) +
    MapThenSumSet(LAMBDA k : MessageSize(d[CHOOSE m \in RepeatedOf(d) : TRUE].of, o.rep[k]),
                  DOMAIN o.rep)

\* The length of a nested message is the size cached by ByteSizeLong.
InternalSerialize(d, o) ==
  LET known == SerializeLeaves(d, [o EXCEPT !.unknown = <<>>])
      nested == [k \in DOMAIN o.rep |->
                   LET n == CHOOSE m \in RepeatedOf(d) : TRUE
                   IN  Item(n, "len", LeafByteSize(d[n].of, o.rep[k]),
                            SerializeLeaves(d[n].of, o.rep[k]))]
  IN  known \o nested \o o.unknown

\* The bytes of an item: its tag, then its value.
Bytes(i) ==
  <<i.num>> \o
    CASE i.wt = "varint"  -> Varint[i.val]
      [] i.wt = "fixed32" -> [b \in 1..4 |-> i.val]
      [] i.wt = "fixed64" -> [b \in 1..8 |-> i.val]
      [] i.wt = "len"     -> Varint[i.val] \o [b \in 1..i.val |-> 0]
NestedBytes(i) == FlattenSeq([k \in DOMAIN i.sub |-> Bytes(i.sub[k])])
WireBytes(items) ==
  FlattenSeq([k \in DOMAIN items |->
    IF items[k].sub = <<>> THEN Bytes(items[k])
    ELSE <<items[k].num>> \o Varint[items[k].val] \o NestedBytes(items[k])])

\* from is merged into o.
MergeFrom(o, from) ==
  [set |-> from.set @@ o.set, rep |-> o.rep \o from.rep, unknown |-> o.unknown \o from.unknown]

Fields == Messages[message]

\* Every field of the message but the repeated one, once, in order.
Whole(d) ==
  LET scalar == SelectSeq(d, LAMBDA f : f.label # "repeated")
  IN  [n \in DOMAIN scalar |-> Item(n, WireType(scalar[n].type), n % 2, <<>>)]

LegacyMessagesInit ==
  /\ message \in DOMAIN Messages
  /\ wire \in {<<>>, Whole(Fields)} /\ pos = 1 /\ obj = Cleared /\ parsed = "building"

\* The values on the wire: two that are the same 32-bit integer, and one that is
\* negative; of strings, three lengths.
Values == {1, Int32Range - 2, Int32Range + 1}

\* Nested messages: empty, complete, with an item it does not know, and cut off.
NestedWires(d) ==
  LET full == [n \in DOMAIN d |-> Item(n, WireType(d[n].type), n, <<>>)]
  IN  {<<>>, full, Append(full, Item(9, "len", 1, <<>>)), Append(full, Item(1, "cut", 0, <<>>))}

\* What may arrive: a field of the message with its own wire type or another
\* one, a field it does not have, and the two endings.
Arriving(d) ==
  UNION {IF d[n].type = "message" THEN {Item(n, "len", 0, w) : w \in NestedWires(d[n].of)}
         ELSE {Item(n, WireType(d[n].type), v, <<>>) : v \in Values} : n \in DOMAIN d}
    \cup {Item(n, "fixed32", 1, <<>>) : n \in {1, Len(d) + 1}}
    \cup {Item(1, "cut", 0, <<>>), Item(0, "end", 0, <<>>)}

Receive == \E i \in Arriving(Fields) :
  /\ parsed = "building"
  /\ Len(wire) < MaxItems + (IF IsPrefix(Whole(Fields), wire) THEN Len(Whole(Fields)) ELSE 0)
  /\ wire' = Append(wire, i) /\ UNCHANGED <<message, pos, obj, parsed>>

\* ParseFromArray clears the message first.
ParseFromArray ==
  /\ parsed = "building" /\ parsed' = "reading" /\ obj' = Cleared
  /\ UNCHANGED <<message, wire, pos>>

ReadItem ==
  /\ parsed = "reading" /\ pos <= Len(wire)
  /\ IF Breaks(wire[pos]) THEN parsed' = "refused" /\ UNCHANGED <<pos, obj>>
     ELSE obj' = InternalParse(Fields, obj, wire[pos]) /\ pos' = pos + 1 /\ UNCHANGED parsed
  /\ UNCHANGED <<message, wire>>

ReadDone ==
  /\ parsed = "reading" /\ pos > Len(wire)
  /\ parsed' = IF IsInitialized(Fields, obj) THEN "accepted" ELSE "refused"
  /\ UNCHANGED <<message, wire, pos, obj>>

LegacyMessagesNext == Receive \/ ParseFromArray \/ ReadItem \/ ReadDone

LegacyMessagesTypeOK ==
  /\ message \in DOMAIN Messages /\ pos \in 1..(Len(wire) + 1)
  /\ DOMAIN obj.set \subseteq DOMAIN Fields
  /\ parsed \in {"building", "reading", "accepted", "refused"}

-----------------------------------------------------------------------------

\* What has been read is exactly what the items so far say: each field has the
\* value of its last item, the nested messages are those of the repeated field
\* in order, and every other item is kept in order.
ReadAsWritten ==
  LET done == SubSeq(wire, 1, pos - 1)
      nested == SelectSeq(done, LAMBDA i : Known(Fields, i) /\ Fields[i.num].type = "message")
      at(n) == {k \in DOMAIN done : done[k].num = n /\ Known(Fields, done[k])}
  IN  /\ \A n \in DOMAIN Fields \ RepeatedOf(Fields) :
           IF at(n) = {} THEN n \notin DOMAIN obj.set
           ELSE n \in DOMAIN obj.set /\ obj.set[n] = Narrow(Fields[n].type, done[Max(at(n))].val)
      /\ obj.unknown = SelectSeq(done, LAMBDA i : ~Known(Fields, i))
      /\ Len(obj.rep) = Len(nested)
      /\ \A k \in DOMAIN nested :
           obj.rep[k] = ReadLeaves(Fields[nested[k].num].of, nested[k].sub)

\* ParseFromArray succeeds exactly on a wire that is whole, in which every
\* required field occurs, in the message and in every nested one.
AcceptedIffComplete ==
  LET occurs(d, items) == {items[k].num : k \in {j \in DOMAIN items : Known(d, items[j])}}
      complete ==
        /\ ~\E k \in DOMAIN wire : Breaks(wire[k])
        /\ RequiredOf(Fields) \subseteq occurs(Fields, wire)
        /\ \A k \in DOMAIN wire : LET n == wire[k].num IN
             Known(Fields, wire[k]) /\ n \in RepeatedOf(Fields) =>
               RequiredOf(Fields[n].of) \subseteq occurs(Fields[n].of, wire[k].sub)
  IN  parsed \in {"accepted", "refused"} => (parsed = "accepted" <=> complete)

\* A message that was read and is written again reads back as the same
\* message, unknown items included.
SurvivesRewriting ==
  parsed = "accepted" => Parse(Fields, InternalSerialize(Fields, obj)) = obj

\* Reading two wires one after the other is the same as merging the messages
\* read from each: MergeFrom and _InternalParse agree on which value wins.
ReadingMerges ==
  parsed = "accepted" =>
    \A k \in 0..Len(wire) :
      obj = MergeFrom(Parse(Fields, SubSeq(wire, 1, k)),
                      Parse(Fields, SubSeq(wire, k + 1, Len(wire))))

\* The generated parser, its test for required fields and its merge do what the
\* items of the wire say.
ReadsRight == ReadAsWritten /\ AcceptedIffComplete /\ ReadingMerges

\* ByteSizeLong is the number of bytes _InternalSerialize writes, and the length
\* before each nested message that of its bytes, also for negative integers,
\* strings, unknown items and a message whose required fields are not all there:
\* AssembleHB sizes its buffer with the one and fills it with the other.
SizeIsExact ==
  LET items == InternalSerialize(Fields, obj)
  IN  /\ ByteSizeLong(Fields, obj) = Len(WireBytes(items))
      /\ \A k \in DOMAIN items : items[k].sub # <<>> => items[k].val = Len(NestedBytes(items[k]))

\* The generated serialiser loses nothing and fills exactly the bytes announced.
WritesRight == SurvivesRewriting /\ SizeIsExact
=============================================================================

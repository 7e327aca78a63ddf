---------------------------- MODULE ObjectDecode ----------------------------
(***************************************************************************)
(* BLINK_Object_decodeCompact: the loop that builds an object from a       *)
(* message, through a bounded stream over the input, with every allocation *)
(* it makes and the clean-up when it gives up.                             *)
(*                                                                         *)
(* Every number of the message is encoded in one byte: a byte is a value   *)
(* below 128 or 192 for null (Compact has the other lengths). A step is    *)
(* one turn of the loop. The stack of the code has one level in use: the   *)
(* handlers of nested groups advance a local copy of self->top, never      *)
(* self->top.                                                              *)
(***************************************************************************)
EXTENDS StreamOps, ObjectSchema

CONSTANTS
    Alphabet,       \* the bytes a message is made of
    MaxInput,       \* bound on the length of the input
    Frees           \* whether the allocator has a free function

ASSUME DecodeAssumption ==
    /\ Alphabet \subseteq (0 .. 127) \union {192}
    /\ MaxInput \in Nat
    /\ Frees \subseteq BOOLEAN

VARIABLES
    phase,      \* "header", "fields", then "done", "failed" or "aborted"; "gone"
                \* once the caller has destroyed the object
    in,         \* the input, a buffer stream
    b,          \* self.bounded
    i,          \* self.top->i: fields already begun
    j,          \* self.top->j: elements begun, plus one once the size is known
    root,       \* self.stack->g
    heap,       \* the allocated blocks, [id, kind], and the next id
    hasFree     \* alloc->free # NULL

vars == <<phase, in, b, i, j, root, heap, hasFree>>

NoBlock == 0
NoRoot == [block |-> NoBlock, array |-> NoBlock, fields |-> <<>>, slots |-> <<>>]

\* A field of an object: initialised, its data (a string, a fixed or a group), the
\* size and elements of a sequence. wire is history: did the message have a value?
EmptySlot == [init |-> FALSE, data |-> NoBlock, size |-> 0, elems |-> <<>>, wire |-> FALSE]

Kinds == {"object", "array", "data", "elem", "childObject", "childArray"}

Calloc(h, kind) ==
    [live |-> h.live \union {[id |-> h.next, kind |-> kind]}, next |-> h.next + 1]

Release(h, ids) ==
    IF hasFree THEN [h EXCEPT !.live = {x \in h.live : x.id \notin ids}] ELSE h

-----------------------------------------------------------------------------
\* Decoding one number from the bounded stream.
DecodeOne(bounded, input) ==
    LET r == BoundedRead(bounded, input, 1)
        byte == input.mem[input.pos]
    IN  [ok |-> r.ok, null |-> r.ok /\ byte = 192, val |-> IF r.ok THEN byte ELSE 0,
         b |-> r.b, in |-> r.s]

\* BLINK_Object_newGroup: the outcomes of its one or two allocations.
NewGroup(h, g, object, array) ==
    LET fields == EachField(g)
        one == Calloc(h, object)
        two == Calloc(one, array)
        made == [ok |-> TRUE, heap |-> IF fields = <<>> THEN one ELSE two,
                 group |-> [block |-> h.next,
                            array |-> IF fields = <<>> THEN NoBlock ELSE one.next,
                            fields |-> fields,
                            slots |-> [k \in DOMAIN fields |-> EmptySlot]]]
        noObject == [ok |-> FALSE, heap |-> h, group |-> NoRoot]
        noArray == [ok |-> FALSE, heap |-> Release(one, {h.next}), group |-> NoRoot]
    IN  {made, noObject} \union (IF fields = <<>> THEN {} ELSE {noArray})

HoldsData(field) == field.type \in {"string", "fixed"}

SlotBlocks(field, slot) ==
    {slot.elems[n].block : n \in DOMAIN slot.elems}
        \union (IF ~HoldsData(field) THEN {}
                ELSE IF field.seq THEN {slot.elems[n].data : n \in DOMAIN slot.elems}
                ELSE {slot.data})

\* BLINK_Object_destroyGroup: the object, its strings and its sequence elements go
\* back to the allocator; the array of fields does not.
DestroyGroup(h, group) ==
    Release(h, (UNION {SlotBlocks(group.fields[k], group.slots[k]) : k \in DOMAIN group.slots})
                    \union {group.block})

-----------------------------------------------------------------------------
\* The handlers. Each takes the bounded stream, the input and the heap and gives
\* the set of its outcomes: ok, the streams and heap it leaves, the value's data,
\* whether it marks the field initialised, whether the message had a value.

Outcome(ok, r, h, data, init, wire) ==
    [ok |-> ok, b |-> r.b, in |-> r.in, heap |-> h, data |-> data, init |-> init, wire |-> wire]

\* A null is accepted by an optional field only and leaves the field as it is.
NullOutcome(field, r, h) == Outcome(field.opt, r, h, NoBlock, FALSE, FALSE)

FailOutcome(r, h) == Outcome(FALSE, r, h, NoBlock, FALSE, FALSE)

\* decodeCompact_u8, _u32, _u64, the signed ones, _f64 and the date and time types.
DecodeNumber(field, r, h) ==
    IF ~r.ok THEN {FailOutcome(r, h)}
    ELSE IF r.null THEN {NullOutcome(field, r, h)}
    ELSE {Outcome(TRUE, r, h, NoBlock, TRUE, TRUE)}

\* decodeCompact_u16 stores the value and does not mark it.
DecodeU16(field, r, h) ==
    IF ~r.ok THEN {FailOutcome(r, h)}
    ELSE IF r.null THEN {NullOutcome(field, r, h)}
    ELSE {Outcome(TRUE, r, h, NoBlock, FALSE, TRUE)}

DecodeBool(field, r, h) ==
    IF ~r.ok \/ (~r.null /\ r.val > 1) THEN {FailOutcome(r, h)}
    ELSE IF r.null THEN {NullOutcome(field, r, h)}
    ELSE {Outcome(TRUE, r, h, NoBlock, TRUE, TRUE)}

\* The exponent may be null, the mantissa may not.
DecodeDecimal(field, r, h) ==
    LET mantissa == DecodeOne(r.b, r.in) IN
    IF ~r.ok THEN {FailOutcome(r, h)}
    ELSE IF r.null THEN {NullOutcome(field, r, h)}
    ELSE IF ~mantissa.ok \/ mantissa.null THEN {FailOutcome(mantissa, h)}
    ELSE {Outcome(TRUE, mantissa, h, NoBlock, TRUE, TRUE)}

\* Mutants of ReadData: the data is not kept, or only once its bytes have come.
ReadDataDropped(r, h, size) ==
    LET bytes == BoundedRead(r.b, r.in, size)
        after == [b |-> bytes.b, in |-> bytes.s]
    IN  {FailOutcome(r, h), Outcome(bytes.ok, after, Calloc(h, "data"), NoBlock, bytes.ok, bytes.ok)}

ReadDataLate(r, h, size) ==
    LET bytes == BoundedRead(r.b, r.in, size)
        after == [b |-> bytes.b, in |-> bytes.s]
        data == IF bytes.ok THEN h.next ELSE NoBlock
    IN  {FailOutcome(r, h), Outcome(bytes.ok, after, Calloc(h, "data"), data, bytes.ok, bytes.ok)}

\* The bytes of a string or fixed, once there is memory for them. The data hangs
\* on the field even when the bytes do not come.
ReadData(r, h, size) ==
    LET bytes == BoundedRead(r.b, r.in, size)
        after == [b |-> bytes.b, in |-> bytes.s]
    IN  {FailOutcome(r, h), Outcome(bytes.ok, after, Calloc(h, "data"), h.next, bytes.ok, bytes.ok)}

\* A string of no bytes is accepted, allocates nothing and marks nothing.
DecodeString(field, r, h) ==
    IF ~r.ok THEN {FailOutcome(r, h)}
    ELSE IF r.null THEN {NullOutcome(field, r, h)}
    ELSE IF r.val = 0 THEN {Outcome(TRUE, r, h, NoBlock, FALSE, TRUE)}
    ELSE ReadData(r, h, r.val)

\* Optional fixed and static groups are preceded by a presence flag, 1 or null.
Presence(field, bounded, input) ==
    IF field.opt
    THEN LET r == DecodeOne(bounded, input)
         IN  [ok |-> r.ok /\ (r.null \/ r.val = 1), present |-> r.ok /\ ~r.null,
              b |-> r.b, in |-> r.in]
    ELSE [ok |-> TRUE, present |-> TRUE, b |-> bounded, in |-> input]

DecodeFixed(field, p, h) ==
    IF ~p.ok THEN {FailOutcome(p, h)}
    ELSE IF ~p.present THEN {Outcome(TRUE, p, h, NoBlock, FALSE, FALSE)}
    ELSE ReadData(p, h, field.size)

\* A new object is made for a nested group, and dropped.
DecodeStaticGroup(field, p, h) ==
    IF ~p.ok THEN {FailOutcome(p, h)}
    ELSE IF ~p.present THEN {Outcome(TRUE, p, h, NoBlock, FALSE, FALSE)}
    ELSE {Outcome(new.ok, p, new.heap, NoBlock, FALSE, new.ok) :
              new \in NewGroup(h, field.group, "childObject", "childArray")}

\* A size that fits the parent, then the id of a group that is of the kind the
\* field names (of any kind for an object).
DecodeDynamicGroup(field, size, h) ==
    LET bounded == SetMax(size.b, b.max).b
        id == DecodeOne(bounded, size.in)
        wanted == id.val \in Groups /\ (field.type = "object" \/ IsKindOf(id.val, field.group))
    IN  IF ~size.ok THEN {FailOutcome(size, h)}
        ELSE IF size.null THEN {NullOutcome(field, size, h)}
        ELSE IF size.val = 0 \/ size.b.max - size.b.pos < size.val THEN {FailOutcome(size, h)}
        ELSE IF ~id.ok \/ id.null \/ ~wanted THEN {FailOutcome(id, h)}
        ELSE {Outcome(new.ok, id, new.heap, NoBlock, FALSE, new.ok) :
                  new \in NewGroup(h, id.val, "childObject", "childArray")}

Handle(field, h) ==
    LET r == DecodeOne(b, in)
        p == Presence(field, b, in)
    IN  CASE field.type \in {"number", "signed", "f64"} -> DecodeNumber(field, r, h)
          [] field.type = "u16" -> DecodeU16(field, r, h)
          [] field.type = "bool" -> DecodeBool(field, r, h)
          [] field.type = "decimal" -> DecodeDecimal(field, r, h)
          [] field.type = "string" -> DecodeString(field, r, h)
          [] field.type = "fixed" -> DecodeFixed(field, p, h)
          [] field.type = "static" -> DecodeStaticGroup(field, p, h)
          [] field.type \in {"dynamic", "object"} -> DecodeDynamicGroup(field, r, h)
          [] field.type = "enum" -> DecodeNumber(field, r, h)

\* decodeCompact_enum hands the field, not its enum, to
\* BLINK_Enum_getSymbolByValue, which asserts that it is given an enum.
EnumAborts(field) ==
    LET r == DecodeOne(b, in) IN field.type = "enum" /\ r.ok /\ ~r.null

-----------------------------------------------------------------------------
Init ==
    /\ phase = "header"
    /\ \E n \in 0 .. MaxInput : \E mem \in [0 .. (n - 1) -> Alphabet] :
           in = NewBuffer(TRUE, FALSE, mem, n)
    /\ b = NewBounded(0)
    /\ i = 0 /\ j = 0
    /\ root = NoRoot
    /\ heap = [live |-> {}, next |-> 1]
    /\ hasFree \in Frees

NumberOfFields == Len(root.slots)

\* The error exit: what was built is destroyed.
Fail(h, object) ==
    /\ phase' = "failed"
    /\ heap' = DestroyGroup(h, object)
    /\ root' = NoRoot

\* Mutant of EndTurn: bytes left over are not looked for.
EndTurnUnchecked(newI, object, h) ==
    /\ phase' = IF newI < Len(object.slots) THEN "fields" ELSE "done"
    /\ heap' = h
    /\ root' = object

\* The end of a turn: after the last field the object is complete, unless bytes of
\* the message are left.
EndTurn(newI, object, h) ==
    IF newI < Len(object.slots)
    THEN /\ phase' = "fields"
         /\ heap' = h
         /\ root' = object
    ELSE IF b'.pos < b'.max
    THEN Fail(h, object)
    ELSE /\ phase' = "done"
         /\ heap' = h
         /\ root' = object

\* decodeCompact_groupHeader: the size of the message, read from the input itself,
\* then the group id, read through the bounded stream. With no fields to read the
\* first turn of the loop ends the object.
Header ==
    LET size == BufferRead(in, 1)
        limit == in.mem[in.pos]
        bounded == NewBounded(limit)
        badSize == ~size.ok \/ limit \in {0, 192}
    IN  /\ phase = "header"
        /\ IF badSize
           THEN /\ in' = size.s
                /\ Fail(heap, NoRoot)
                /\ UNCHANGED b
           ELSE \E id \in {DecodeOne(bounded, size.s)} :
                  /\ in' = id.in
                  /\ b' = id.b
                  /\ IF ~id.ok \/ id.null \/ id.val \notin Groups
                     THEN Fail(heap, NoRoot)
                     ELSE \E new \in NewGroup(heap, id.val, "object", "array") :
                              IF new.ok THEN EndTurn(0, new.group, new.heap) ELSE Fail(new.heap, NoRoot)
        /\ UNCHANGED <<i, j, hasFree>>

Current == root.fields[i + 1]
CurrentSlot == root.slots[i + 1]

WithSlot(slot) == [root EXCEPT !.slots[i + 1] = slot]

\* The number of elements of a sequence. A null ends the field.
SequenceSize ==
    LET r == DecodeOne(b, in) IN
    /\ phase = "fields"
    /\ Current.seq
    /\ j = 0
    /\ b' = r.b
    /\ in' = r.in
    /\ IF ~r.ok \/ (r.null /\ ~Current.opt)
       THEN /\ Fail(heap, root)
            /\ UNCHANGED <<i, j>>
       ELSE IF r.null
       THEN /\ i' = i + 1
            /\ j' = 0
            /\ EndTurn(i + 1, root, heap)
       ELSE /\ j' = 1
            /\ EndTurn(i, WithSlot([CurrentSlot EXCEPT !.size = r.val, !.wire = TRUE]), heap)
            /\ UNCHANGED i
    /\ UNCHANGED hasFree

\* Mutants of SequenceEnd: one element early; never for a sequence of no elements.
SequenceEndEarly ==
    /\ phase = "fields"
    /\ Current.seq
    /\ j >= CurrentSlot.size
    /\ j > 0
    /\ i' = i + 1
    /\ j' = 0
    /\ UNCHANGED <<b, in, hasFree>>
    /\ EndTurn(i + 1, root, heap)

SequenceEndNonEmpty ==
    /\ phase = "fields"
    /\ Current.seq
    /\ j > CurrentSlot.size
    /\ j > 1
    /\ i' = i + 1
    /\ j' = 0
    /\ UNCHANGED <<b, in, hasFree>>
    /\ EndTurn(i + 1, root, heap)

\* All elements are there.
SequenceEnd ==
    /\ phase = "fields"
    /\ Current.seq
    /\ j > CurrentSlot.size
    /\ j > 0
    /\ i' = i + 1
    /\ j' = 0
    /\ UNCHANGED <<b, in, hasFree>>
    /\ EndTurn(i + 1, root, heap)

\* The next element: a list node is linked before its value is decoded.
SequenceElement ==
    /\ phase = "fields"
    /\ Current.seq
    /\ j > 0
    /\ j <= CurrentSlot.size
    /\ \/ /\ Fail(heap, root)
          /\ UNCHANGED <<b, in, i, j>>
       \/ LET node == heap.next
              h == Calloc(heap, "elem")
          IN  /\ ~EnumAborts(Current)
              /\ \E r \in Handle(Current, h) :
                LET object == WithSlot([CurrentSlot EXCEPT !.elems =
                                           Append(@, [block |-> node, data |-> r.data, wire |-> r.wire])])
                IN  /\ b' = r.b
                    /\ in' = r.in
                    /\ j' = j + 1
                    /\ IF r.ok THEN EndTurn(i, object, r.heap) ELSE Fail(r.heap, object)
                    /\ UNCHANGED i
    /\ UNCHANGED hasFree

\* A field that is not a sequence.
SingleField ==
    /\ phase = "fields"
    /\ ~Current.seq
    /\ ~EnumAborts(Current)
    /\ \E r \in Handle(Current, heap) :
          LET object == WithSlot([CurrentSlot EXCEPT
                                    !.data = r.data, !.init = r.init, !.wire = r.wire])
          IN  /\ b' = r.b
              /\ in' = r.in
              /\ i' = i + 1
              /\ IF r.ok THEN EndTurn(i + 1, object, r.heap) ELSE Fail(r.heap, object)
    /\ UNCHANGED <<j, hasFree>>

\* The assertion of castEnum stops the program.
EnumAbort ==
    /\ phase = "fields"
    /\ ~Current.seq \/ (j > 0 /\ j <= CurrentSlot.size)
    /\ EnumAborts(Current)
    /\ phase' = "aborted"
    /\ UNCHANGED <<in, b, i, j, root, heap, hasFree>>

Turn == SequenceSize \/ SequenceEnd \/ SequenceElement \/ SingleField \/ EnumAbort

\* The caller destroys the object it was given.
Destroy ==
    /\ phase = "done"
    /\ phase' = "gone"
    /\ heap' = DestroyGroup(heap, root)
    /\ root' = NoRoot
    /\ UNCHANGED <<in, b, i, j, hasFree>>

Next == Header \/ Turn \/ Destroy

\* The decoder is a function call: it runs until it returns.
Spec == Init /\ [][Next]_vars /\ WF_vars(Header \/ Turn)
-----------------------------------------------------------------------------
TypeOK ==
    /\ phase \in {"header", "fields", "done", "failed", "aborted", "gone"}
    /\ in.pos \in 0 .. in.max
    /\ b.pos \in 0 .. b.max
    /\ i \in 0 .. NumberOfFields \/ root = NoRoot
    /\ heap.live \subseteq [id : 1 .. (heap.next - 1), kind : Kinds]
    /\ Len(root.fields) = NumberOfFields

\* A message that is accepted is consumed to its last byte and not beyond: the next
\* message of the stream starts where this one said it ends.
AcceptedIsConsumed ==
    phase \in {"done", "gone"} => b.pos = b.max /\ in.pos = 1 + b.max

Blocks(object) ==
    ((UNION {SlotBlocks(object.fields[k], object.slots[k]) : k \in DOMAIN object.slots})
        \union {object.block, object.array}) \ {NoBlock}

\* The blocks the object refers to are allocated, and every string, element and
\* object block is referred to: destroying the object frees nothing twice.
OwnedBlocksAreLive ==
    phase \in {"fields", "done"} =>
        Blocks(root) = {x.id : x \in {y \in heap.live : y.kind \notin {"childObject", "childArray"}}}

\* After an error, or when the caller has destroyed the object, every string, every
\* sequence element and the object itself have been freed, however far decoding
\* had come.
StringsAndElementsFreed ==
    (phase \in {"failed", "gone"} /\ hasFree) =>
        \A x \in heap.live : x.kind \in {"array", "childObject", "childArray"}

\* A value the message had for a field is in the object: the field is not null, and a
\* fixed has its bytes; a string is not null exactly if it has bytes. Three kinds of
\* value are lost by the code and not asked for here: a u16 and a string of no bytes
\* are read as null (blink_object.c:901, DecodedFieldIsNotNull below), and a nested group
\* is dropped (blink_object.c:1200, DecodedGroupIsKept).
ValueIsKept(field, slot) ==
    /\ field.type \in {"number", "signed", "f64", "bool", "decimal", "fixed"} /\ slot.wire => slot.init
    /\ field.type = "fixed" /\ slot.wire => slot.data # NoBlock
    /\ field.type = "string" => slot.init = (slot.data # NoBlock)

\* An element of a mandatory sequence had a value, and a fixed has its bytes.
ElementIsRead(field, elem) ==
    /\ ~field.opt => elem.wire
    /\ field.type = "fixed" /\ elem.wire => elem.data # NoBlock

FieldIsRead(field, slot) ==
    /\ ~field.opt => slot.wire
    /\ ~field.seq => ValueIsKept(field, slot)
    /\ field.seq => /\ Len(slot.elems) = slot.size
                    /\ \A n \in DOMAIN slot.elems : ElementIsRead(field, slot.elems[n])

\* A message is accepted only if it had a value for every mandatory field, of any type,
\* and for every sequence as many elements as it said, none of them null if the field
\* is mandatory; and its values are kept, but for those ValueIsKept names.
NoValueIsMissing ==
    phase = "done" => \A k \in DOMAIN root.fields : FieldIsRead(root.fields[k], root.slots[k])

\* Decoding ends, whatever the message says about its own size, about the sizes of
\* strings and groups or the lengths of sequences.
Terminates == <>(phase \notin {"header", "fields"})

\* "@return true if field value is NULL": a field the message had a value for is
\* not null in the object.
DecodedFieldIsNotNull ==
    phase = "done" =>
        \A k \in DOMAIN root.fields :
            (root.slots[k].wire /\ ~root.fields[k].seq
                /\ root.fields[k].type \notin {"static", "dynamic", "object"})
            => root.slots[k].init

\* "Read group from field ... @return group": a group the message had is in the
\* object.
DecodedGroupIsKept ==
    phase = "done" =>
        \A k \in DOMAIN root.fields :
            (root.slots[k].wire /\ ~root.fields[k].seq
                /\ root.fields[k].type \in {"static", "dynamic", "object"})
            => root.slots[k].data # NoBlock

\* "Destroy an existing group model": with a free function nothing of the object
\* stays allocated.
DestroyFreesAll ==
    (phase = "gone" /\ hasFree) => heap.live = {}

\* BLINK_ASSERT((self == NULL) || (self->type == BLINK_SCHEMA_ENUM)): no message
\* makes the assertion of castEnum fail.
NeverAborts == phase # "aborted"
=============================================================================

---------------------------- MODULE ObjectEncode ----------------------------
(***************************************************************************)
(* An object made by BLINK_Object_newGroup, filled by the setters and      *)
(* written out by BLINK_Object_encodeCompact: the size of the message is   *)
(* computed first and sent ahead of the fields.                            *)
(*                                                                         *)
(* The setters are called for the types they are made for. A group is      *)
(* never the value of a field: BLINK_Object_setGroup passes the object     *)
(* itself where its address is expected. self->size is left out, it is     *)
(* computed anew by every encodeCompact.                                   *)
(***************************************************************************)
EXTENDS Compact, ObjectSchema

CONSTANTS
    WithId,         \* the groups that have an id
    Words,          \* the numbers set, as words
    Texts,          \* the strings set, as sequences of bytes
    Capacity,       \* bytes of the output buffer
    MaxBlocks,      \* bound on the strings allocated
    Frees           \* whether the allocator has a free function

ASSUME EncodeAssumption ==
    /\ Groups \subseteq Nat
    /\ WithId \subseteq Groups \intersect 0 .. (Modulus - 1)
    /\ Words \subseteq 0 .. (Modulus - 1)
    /\ \A text \in Texts : text \in Seq(0 .. 255)
    /\ Capacity \in Nat /\ Capacity <= INT_MAX
    /\ MaxBlocks \in Nat
    /\ Frees \subseteq BOOLEAN

VARIABLES
    phase,      \* "use", then "gone" after destroyGroup or "crashed"
    group,      \* the definition of the object
    fields,     \* self->fields, the definitions
    slots,      \* and the data: [init, val, block]
    live,       \* the strings that are allocated
    next,       \* the next block
    hasFree,    \* alloc.free # NULL
    out,        \* the output, a buffer stream
    crash,      \* history: the call that crashed, or "none"
    msg         \* history: the last message written, or NoMessage; ok is what
                \* encodeCompact returned

vars == <<phase, group, fields, slots, live, next, hasFree, out, crash, msg>>

NoBlock == 0
NoMessage == [at |-> 0, end |-> 0, full |-> FALSE, ok |-> FALSE, slots |-> <<>>]
Garbage == -1       \* the value of a group field
NoText == <<>>

Blank(field) ==
    [init |-> FALSE, block |-> NoBlock,
     val |-> CASE field.type \in {"string", "fixed"} -> NoText
               [] field.type = "decimal" -> <<0, 0>>
               [] field.type \notin {"string", "fixed", "decimal"} -> 0]

\* lookupField finds the first field of a name: the fields eachField repeats for
\* the supergroups are out of the caller's reach.
Named == 1 .. Len(OwnFields[group])
Field(k) == fields[k]

-----------------------------------------------------------------------------
\* The writes encodeBody makes for a field. The list of a sequence is empty.
ValueChunks(field, val) ==
    CASE field.type \in {"number", "u16"} -> <<EncodeVLC(val, FALSE)>>
      [] field.type = "signed" -> <<EncodeVLC(val, TRUE)>>
      [] field.type = "f64" -> <<EncodeF64(DoubleOfBits(val))>>
      [] field.type = "decimal" -> <<EncodeVLC(val[2], TRUE), EncodeVLC(val[1], TRUE)>>
      [] field.type = "string" -> <<EncodeVLC(Len(val), FALSE), val>>
      [] field.type = "fixed" -> (IF field.opt THEN <<EncodePresent>> ELSE <<>>) \o <<val>>

Chunks(field, slot) ==
    IF ~slot.init THEN <<EncodeNull>>
    ELSE IF field.seq THEN <<EncodeVLC(0, FALSE)>>
    ELSE ValueChunks(field, slot.val)

\* Mutant of CachedSize: the length that goes before a string is forgotten.
CachedSizeOfBytes(field, slot) ==
    CASE ~slot.init \/ field.seq -> 1
      [] slot.init /\ ~field.seq /\ field.type \in {"number", "u16", "f64"} -> SizeofUnsigned(slot.val)
      [] slot.init /\ ~field.seq /\ field.type = "signed" -> SizeofSigned(AsSigned(slot.val))
      [] slot.init /\ ~field.seq /\ field.type = "decimal" ->
            SizeofSigned(AsSigned(slot.val[2])) + SizeofSigned(AsSigned(slot.val[1]))
      [] slot.init /\ ~field.seq /\ field.type \in {"string", "fixed"} -> Len(slot.val)

\* The bytes cacheSize counts for a field.
CachedSize(field, slot) ==
    CASE ~slot.init \/ field.seq -> 1
      [] slot.init /\ ~field.seq /\ field.type \in {"number", "u16", "f64"} -> SizeofUnsigned(slot.val)
      [] slot.init /\ ~field.seq /\ field.type = "signed" -> SizeofSigned(AsSigned(slot.val))
      [] slot.init /\ ~field.seq /\ field.type = "decimal" ->
            SizeofSigned(AsSigned(slot.val[2])) + SizeofSigned(AsSigned(slot.val[1]))
      [] slot.init /\ ~field.seq /\ field.type = "string" ->
            SizeofUnsigned(Len(slot.val)) + Len(slot.val)
      [] slot.init /\ ~field.seq /\ field.type = "fixed" -> Len(slot.val)

BodySize ==
    LET sum[k \in 0 .. Len(fields)] ==
            IF k = 0 THEN 0 ELSE sum[k - 1] + CachedSize(fields[k], slots[k])
    IN  sum[Len(fields)]

Body ==
    LET upTo[k \in 0 .. Len(fields)] ==
            IF k = 0 THEN <<>> ELSE upTo[k - 1] \o Chunks(fields[k], slots[k])
    IN  upTo[Len(fields)]

\* Where cacheSize stops: at a mandatory field that is not set, or at a value that
\* is not what its type says, which it follows as a pointer.
Missing(k) == ~slots[k].init /\ ~Field(k).opt
Overwritten(k) == Field(k).seq /\ slots[k].val # 0
Poisoned(k) == slots[k].init /\ (Field(k).type = "static" \/ Overwritten(k))
Stops == {k \in DOMAIN slots : Missing(k) \/ Poisoned(k)}
FirstStop == CHOOSE k \in Stops : \A l \in Stops : k <= l

-----------------------------------------------------------------------------
Init ==
    /\ phase = "use"
    /\ group \in Groups
    /\ fields = EachField(group)
    /\ slots = [k \in DOMAIN fields |-> Blank(fields[k])]
    /\ live = {}
    /\ next = 1
    /\ hasFree \in Frees
    /\ out = NewBuffer(TRUE, TRUE, [i \in 0 .. (Capacity - 1) |-> 0], Capacity)
    /\ crash = "none"
    /\ msg = NoMessage

Set(k, val) == slots' = [slots EXCEPT ![k].init = TRUE, ![k].val = val]

\* The value is not looked at: an undefined access in BLINK_Object_set.
Crash(op) ==
    /\ phase' = "crashed"
    /\ crash' = op
    /\ UNCHANGED <<group, fields, slots, live, next, hasFree, out, msg>>

\* setUint, setInt, setF64: any number goes into a field of any width, and over the
\* list of a sequence.
SetNumber(k, word) ==
    /\ phase = "use"
    /\ Field(k).type \in {"number", "u16", "signed", "f64"}
    /\ Set(k, word)
    /\ UNCHANGED <<phase, group, fields, live, next, hasFree, out, crash, msg>>

SetDecimal(k, mantissa, exponent) ==
    /\ phase = "use"
    /\ Field(k).type = "decimal"
    /\ ~Field(k).seq
    /\ AsSigned(exponent) \in -128 .. 127
    /\ Set(k, <<mantissa, exponent>>)
    /\ UNCHANGED <<phase, group, fields, live, next, hasFree, out, crash, msg>>

Fits(field, text) ==
    \/ field.type = "string" /\ Len(text) <= field.size
    \/ field.type = "fixed" /\ Len(text) = field.size

\* Mutant of SetText: the old string is freed before there is a new one.
SetTextFreeFirst(k, text) ==
    /\ phase = "use"
    /\ Field(k).type \in {"string", "fixed"} /\ ~Field(k).seq
    /\ \/ /\ Fits(Field(k), text)
          /\ next <= MaxBlocks
          /\ slots' = [slots EXCEPT ![k] = [init |-> TRUE, val |-> text, block |-> next]]
          /\ live' = (live \ {slots[k].block}) \union {next}
          /\ next' = next + 1
       \/ /\ live' = live \ {slots[k].block}
          /\ UNCHANGED <<slots, next>>
    /\ UNCHANGED <<phase, group, fields, hasFree, out, crash, msg>>

\* setString, setString2, setBinary, setFixed: a copy is made, if there is memory.
SetText(k, text) ==
    /\ phase = "use"
    /\ Field(k).type \in {"string", "fixed"} /\ ~Field(k).seq
    /\ \/ /\ Fits(Field(k), text)
          /\ next <= MaxBlocks
          /\ slots' = [slots EXCEPT ![k] = [init |-> TRUE, val |-> text, block |-> next]]
          /\ live' = live \union {next}
          /\ next' = next + 1
       \/ UNCHANGED <<slots, live, next>>
    /\ UNCHANGED <<phase, group, fields, hasFree, out, crash, msg>>

\* setBool uses the value as the address of the value.
SetBool(k) ==
    /\ phase = "use"
    /\ Field(k).type = "bool"
    /\ Crash("setBool")

\* setEnum hands the field, not its enum, to BLINK_Enum_getSymbolByName, which
\* asserts that it is given an enum.
SetEnum(k) ==
    /\ phase = "use"
    /\ Field(k).type = "enum"
    /\ Crash("setEnum")

\* setGroup takes the first word of the object for the address of an object. Only
\* a dynamic group is looked at.
SetGroup(k) ==
    /\ phase = "use"
    /\ \/ /\ Field(k).type = "dynamic"
          /\ Crash("setGroup")
       \/ /\ Field(k).type = "static"
          /\ Set(k, Garbage)
          /\ UNCHANGED <<phase, group, fields, live, next, hasFree, out, crash, msg>>

\* The value stays behind.
Clear(k) ==
    /\ phase = "use"
    /\ slots' = [slots EXCEPT ![k].init = FALSE]
    /\ UNCHANGED <<phase, group, fields, live, next, hasFree, out, crash, msg>>

\* encodeCompact: size, id, fields, up to the first write that does not fit. It
\* returns false even when everything was written.
Encode ==
    LET id == EncodeVLC(group, FALSE)
        size == BodySize + Len(id)
        r == WriteAll(out, <<EncodeVLC(size, FALSE), id>> \o Body)
    IN  /\ phase = "use"
        /\ group \in WithId
        /\ Stops = {}
        /\ out' = r.s
        /\ msg' = [at |-> out.pos, end |-> r.s.pos, full |-> r.ok, ok |-> FALSE, slots |-> slots]
        /\ UNCHANGED <<phase, group, fields, slots, live, next, hasFree, crash>>

\* cacheSize follows a value that is no pointer.
EncodeCrash ==
    /\ phase = "use"
    /\ group \in WithId
    /\ Stops # {} /\ Poisoned(FirstStop)
    /\ Crash("encode")

\* Nothing is written for a group without an id or a mandatory field that is not set.
EncodeRefused ==
    /\ phase = "use"
    /\ group \notin WithId \/ (Stops # {} /\ Missing(FirstStop))
    /\ UNCHANGED vars

Owned == {slots[k].block : k \in DOMAIN slots} \ {NoBlock}

\* destroyGroup: the strings the fields refer to, set or cleared. The list of a
\* sequence is followed even if a number was stored over it, a group even if it is
\* none: the word taken for its address may be zero, which is no group.
Destroy ==
    /\ phase = "use"
    /\ \/ /\ \E k \in DOMAIN slots : Overwritten(k) \/ (Field(k).type = "static" /\ slots[k].val = Garbage)
          /\ phase' = "crashed"
          /\ crash' = "destroy"
          /\ UNCHANGED <<slots, live>>
       \/ /\ \A k \in DOMAIN slots : ~Overwritten(k)
          /\ phase' = "gone"
          /\ live' = IF hasFree THEN live \ Owned ELSE live
          /\ slots' = <<>>
          /\ UNCHANGED crash
    /\ UNCHANGED <<group, fields, next, hasFree, out, msg>>

Next ==
    \/ \E k \in Named :
         \/ \E word \in Words : SetNumber(k, word)
         \/ \E mantissa, exponent \in Words : SetDecimal(k, mantissa, exponent)
         \/ \E text \in Texts : SetText(k, text)
         \/ SetBool(k) \/ SetEnum(k) \/ SetGroup(k) \/ Clear(k)
    \/ Encode \/ EncodeCrash \/ EncodeRefused
    \/ Destroy

Spec == Init /\ [][Next]_vars
-----------------------------------------------------------------------------
TypeOK ==
    /\ phase \in {"use", "gone", "crashed"}
    /\ phase # "gone" => DOMAIN slots = DOMAIN fields
    /\ live \subseteq 1 .. (next - 1)
    /\ next \in 1 .. (MaxBlocks + 1)
    /\ \A k \in DOMAIN slots : Field(k).type = "fixed" /\ slots[k].init
                                    => Len(slots[k].val) = Field(k).size
    /\ out.pos \in 0 .. Capacity

\* The message as the decoder sees it: what is in the buffer from its first byte.
Received == [NewBuffer(TRUE, FALSE, out.mem, msg.end) EXCEPT !.pos = msg.at]
ReceivedSize == DecodeVLC(Received, FALSE)
ReceivedId == DecodeVLC(ReceivedSize.s, FALSE)

\* "calculates encoded size": the size at the head of a message that was written
\* in full is the number of bytes that follow; a message the buffer cut short
\* announces more bytes than there are, or has no size at all.
AnnouncedSizeIsWritten ==
    msg # NoMessage =>
        IF msg.full
        THEN ReceivedSize.ok /\ ReceivedSize.val = msg.end - ReceivedSize.s.pos
        ELSE ReceivedSize.ok => ReceivedSize.val > msg.end - ReceivedSize.s.pos

ReadText(s, n) ==
    LET r == BufferRead(s, n)
    IN  IF r.ok THEN Value(BytesAt(s.mem, s.pos, n), r.s) ELSE Failed(r.s)

\* The n bytes after a length or a presence flag that was read.
ReadAfter(r, n) == IF r.ok /\ ~r.null THEN ReadText(r.s, n) ELSE r

\* What the decoder of blink_compact.c for this type of field finds, not what the
\* handlers of decodeCompact make of it, which take a u16 and an empty string for
\* null.
ReadValue(field, s) ==
    LET word == DecodeVLC(s, FALSE)
    IN  CASE field.seq -> word
          [] ~field.seq /\ field.type = "signed" -> DecodeVLC(s, TRUE)
          [] ~field.seq /\ field.type = "u16" -> DecodeUnsigned(s, 2)
          [] ~field.seq /\ field.type = "f64" -> DecodeF64(s)
          [] ~field.seq /\ field.type = "decimal" -> DecodeDecimal(s)
          [] ~field.seq /\ field.type = "string" -> ReadAfter(word, word.val)
          [] ~field.seq /\ field.type = "fixed" /\ field.opt -> ReadAfter(word, field.size)
          [] ~field.seq /\ field.type = "fixed" /\ ~field.opt -> ReadText(s, field.size)
          [] OTHER -> word

Mandatory(r) == IF r.null THEN Failed(r.s) ELSE r

ReadField(field, s) == IF field.opt THEN ReadValue(field, s) ELSE Mandatory(ReadValue(field, s))

Sent(field, slot) ==
    IF ~slot.init THEN NULL
    ELSE IF field.type = "decimal" THEN <<AsSigned(slot.val[1]), AsSigned(slot.val[2])>>
    ELSE IF field.type = "f64" /\ ~field.seq THEN DoubleOfBits(slot.val)
    ELSE slot.val

\* What is read of some fields, one after the other, after the identifier.
ReadFrom(first, fs) ==
    LET at[k \in 0 .. Len(fs)] == IF k = 0 THEN first ELSE ReadField(fs[k], at[k - 1].s)
    IN  at

\* A double other than zero: the encoder sends its bits, the decoder converts them
\* as a number.
IsConverted(field, slot) == field.type = "f64" /\ ~field.seq /\ slot.init /\ slot.val # 0

\* A message written in full is read by the decoders of blink_compact.c, field by
\* field and to its last byte, as the values that were set and null for those that
\* were not or were cleared. The one value that is not compared is a double other
\* than zero, which is read as another one: DoublesDecode.
MessageDecodes ==
    msg.full =>
        LET at == ReadFrom(ReceivedId, fields)
        IN  /\ ReceivedId.val = group
            /\ \A k \in DOMAIN fields :
                  /\ at[k].ok
                  /\ IsConverted(fields[k], msg.slots[k]) \/ at[k].val = Sent(fields[k], msg.slots[k])
            /\ at[Len(fields)].s.pos = msg.end

\* "Write f64 to field": a double that was set is read as it was set.
DoublesDecode ==
    msg.full =>
        \A k \in DOMAIN fields :
            IsConverted(fields[k], msg.slots[k])
                => ReadFrom(ReceivedId, fields)[k].val = Sent(fields[k], msg.slots[k])

\* The strings fields refer to are allocated, one block to a field, whatever was
\* set, cleared or refused before: no string is read or freed after it is gone.
OwnedStringsAreLive ==
    phase = "use" =>
        /\ Owned \subseteq live
        /\ \A k, l \in DOMAIN slots :
              k # l /\ slots[k].block = slots[l].block => slots[k].block = NoBlock

\* "Write boolean to field ... @return true if successful": the setters return.
SettersReturn ==
    crash \notin {"setBool", "setEnum", "setGroup"}

\* "determines if all mandatory fields have been initialised": when every field the
\* caller can name is set, encodeCompact finds none that is not.
EncodesWhatIsSet ==
    (phase = "use" /\ \A k \in Named : slots[k].init) => \A k \in DOMAIN slots : ~Missing(k)

\* "Destroy an existing group model": its strings are freed.
DestroyFreesStrings ==
    (phase = "gone" /\ hasFree) => live = {}
=============================================================================

# TLA+ models of ublink

ublink is a small C library for the Blink protocol. It parses a schema, makes objects of
the groups the schema defines, and turns objects into messages in the compact form and
back. It allocates through two function pointers, reads and writes through streams, and
runs in the thread of its caller. There are no threads, timers or files of its own.

This directory holds TLA+ modules translated from `src/src/*.c` and `src/include/*.h`
(paths are relative to the directory above this one), TLC configurations that check
them on small instances, and proofs that TLAPS checks.

    tlc -workers 2 -config Pool.cfg Pool          # a run
    tlapm PoolProofs.tla                          # the proofs of a module

`PROJECT.json` lists the components, the runs, the mutated definitions that show each
property can fail, the source lines of each definition, the hazards, and the theorems.

## Inventory

### Memory pool: `blink_pool.c`

*State.* A heap of the caller's, its size, the offset of the first free byte.
*Operations.* `init` clears the memory; `calloc` cuts a block off the front, rounded up to
whole `long`s; `getFreeSpace` is the size less the offset. Nothing is ever returned.
*Hard.* `size_t` arithmetic that wraps; heaps that are no whole number of words; memory used
before `init` is called again.
*Correct means* blocks inside the heap, aligned, disjoint and zeroed.

### Streams: `blink_stream.c`

*State.* A buffer stream has two pointers (the writable one may be NULL), a maximum, a
position and an end-of-file flag. A bounded stream has a stream below it and its own maximum,
position and flag. A user stream has callbacks.
*Operations.* `read`, `write`, `peek`, `seekSet`, `seekCur`, `tell`, `max`, `eof`, `setMax`, the
initialisers. A bounded stream passes reads on to the stream below.
*Hard.* The room is an unsigned difference; the bounded position moves before the stream below
delivers; both streams can be moved by the same caller.
*Correct means* a position never passes its maximum, a range is delivered once and in order,
a call that refuses does nothing, but for the bounded position of a read the stream below refuses.

### Compact form: `blink_compact.c`

*State.* None: functions over a stream.
*Operations.* An encoder and a decoder for each field type, and the sizes of numbers.
*Hard.* The limits between the lengths of a number, sign extension, values of several writes,
messages that are cut.
*Correct means* decoders undo encoders, sizes are those written, nothing is read beyond a value.

### Objects: `blink_object.c`

*State.* An object has its group, the size of its message and an array of fields, each with a
definition, a value, an initialised flag, and for a sequence a list. The decoder adds a stack of
levels (object, field index, element index) and a bounded stream.
*Operations.* `newGroup`, `destroyGroup`, `clear`, setters, getters, `iterate`, `append` (empty),
`decodeCompact`, `encodeCompact` (which calls `cacheSize`, then `encodeBody`).
*Hard.* Clean-up after a failure at any of many places; the size is computed in one walk and
written ahead of what a second walk writes; loops driven by two indices and by input.
*Correct means* an accepted message is used up and no value of it is missing, a refused one leaves
nothing allocated, a message decodes to what was set.

### Schema parser: `parseSchema` in `blink_schema.c`

*State.* Lists of namespaces, definitions, fields, symbols and annotations; about fifteen
local pointers and names that say where the parser is; the token and whether it has been shifted.
*Operations.* One loop over tokens around one loop over 55 states.
*Hard.* The same locals serve every definition in turn; tokens that are passed on from state to
state; states reached from several others; lookups that compare prefixes.
*Correct means* the parse ends, and the schema has what was written, each part once and in its
place.

### Schema resolver, constraints, iterators and lookups: the rest of `blink_schema.c`

*State.* The `resolved` pointers of references and the supergroup pointers; the two pointers and
flags of each test; a field iterator (a level for the group and each supergroup, an index).
*Operations.* `resolveDefinitions`, then `testConstraints`: `testReferenceConstraint`,
`testSuperGroupReferenceConstraint`, `testSuperGroupShadowConstraint`. For a caller `getGroupByName`,
`getGroupByID`, `GroupIterator`, `FieldIterator`, the type, group and enum of a field.
*Hard.* Cycle tests with two pointers; tests that walk what a later test has not yet looked at; name
lookups across namespaces; namespaces without definitions; iterators that peek before they move.
*Correct means* an accepted schema leads from each reference to the definition it names, supergroups
are groups and no field is hidden, a refusal names a fault the schema has, the tests end, and lists and
lookups answer from what was written.

### Lexer: `blink_lexer.c`

*State.* A stream, the row and column, and the buffer of the caller.
*Operations.* `getToken`: it skips separators and a comment, then tries seven recognisers one after
the other at the same position, each of which reads until it gives up and seeks back.
*Hard.* Characters read by one recogniser and owed to the next; keywords that are prefixes of names;
numbers that overflow; the end of the input or of the buffer inside a token.
*Correct means* the text is cut into the longest tokens, nothing of it is lost, values are those that
are written, and it is used up.

### How they interact

    schema text -> stream -> lexer -> parser -> schema <- object
    object -> encodeCompact -> compact form -> stream
    stream -> bounded stream -> compact form -> decodeCompact -> object
    parser, object -> allocator (a pool, or the caller's own)

All calls are direct; state is shared through pointers: an object points into its schema, a
bounded stream into the stream below. The caller can use the lower stream between two calls on
the bounded one, can initialise a pool over memory in use, and can call any operation in any order.
These are the interleavings of this code.

## Modules

| Module | Models | State and actions in terms of the code |
| --- | --- | --- |
| `Allocator` | what users of a `struct blink_alloc` rely on | abstract: a set of live blocks; `Grant`, `Use`, `Reset` |
| `Pool` | `blink_pool.c` | `size`, `pos` are the fields of the C structure; `dirty` stands for the contents of the heap: which bytes may be other than zero; `blocks` and `ret` are history. `PoolInit`, `CallocOk`, `CallocNull`, `UseBlock` (a write by an owner) |
| `StreamOps` | the operations of `blink_stream.c` | functions from a stream to the result and the stream it leaves, so that other modules read and write through the same definitions |
| `Stream` | a buffer stream and a bounded stream over it | `s`, `b`; an action for each operation. `origin`, `via`, `got` are history: where the bound began, what has moved the stream since, what was delivered |
| `Compact` | `blink_compact.c` | operators; a decoder returns the flag, the null flag, the value and the stream |
| `CompactWords` | every word | `EveryWord` visits every word, as a number and as input |
| `Channel` | what an encoder and a decoder are for | abstract: what is sent arrives, in order |
| `Codec` | an encoder and a decoder of a message | `out` and `in` are the streams of the two ends; `Transmit` cuts the message anywhere |
| `ObjectSchema` | a schema as objects see it | groups, fields, supergroups; `EachField`, `IsKindOf` |
| `ObjectDecode` | `decodeCompact`, `newGroup`, `destroyGroup` | a step is one turn of the decode loop; a handler is an operator giving the set of its outcomes, one for each allocation that may fail; `heap` has the blocks that are allocated |
| `ObjectEncode` | setters, `clear`, `encodeCompact`, `destroyGroup` | a step is one call; undefined behaviour of a call is the phase `crashed` |
| `SchemaParser` | `parseSchema` | a step is one turn of the inner loop; state names are those of the code without `P_`; each of the states that come twice, for fields and typedefs, is one state |
| `SchemaResolve` | `resolveDefinitions`, `testConstraints`, iterators, lookups | `at` is the function and the loop in it, `def` and `iter` the walk over the definitions, `slow`, `fast`, `dynamic`, `sequence` the locals of the test of references, `walk` a field iterator, `links` the resolved pointers; `asked` and `out` are the caller's. A step is one turn of a loop, or a lookup |
| `Lexer` | `getToken` | a step is one call; each recogniser is an operator that gives the set of its tokens, empty when it seeks back. `from` is history |

`PoolProofs`, `StreamProofs`, `CompactProofs`, `ObjectDecodeProofs`, `ObjectEncodeProofs`,
`SchemaParserProofs`, `SchemaResolveProofs` and `LexerProofs` hold theorems. `MC*` modules hold values for constants that a
configuration cannot write. A definition whose comment says *mutant* is a wrong form of the
definition that follows it; it is used by nothing and exists to show that a property notices.

`ObjectDecode` reads through `BufferRead` and `BoundedRead`, `ObjectEncode` writes with
`WriteAll` and the encoders of `Compact`: a change of a lower module is felt in the upper ones.
`ObjectDecode` does not use the decoders of `Compact`: its numbers have one byte, because the
properties are about which bytes are consumed and what is allocated, and the lengths of numbers
are checked in `CompactWords` and `Codec`.

`Lexer`, `SchemaParser` and `SchemaResolve` are checked one after another, each over every small input
it can be given: texts, sequences of tokens, parsed schemas. `SchemaResolve` looks at names by what they
are compared with: `Split` cuts a reference at its colon and `NamePrefixes` says which names begin others.

The object modules take any schema that the data structures can hold. The parser of today
cannot produce all of them: a `fixed` or a string with a size is refused at its closing
parenthesis (below). So some runs are about code that can only be reached once the parser is
repaired.

Narrow integers stand for wide ones where overflow matters: `size_t` is modulo `SIZE_MAX + 1`,
`uint32_t` modulo `2 * INT_MAX + 2`, a word has `WORD_BYTES` bytes. The limits between lengths of
one, two and counted bytes are as in the code.

## Runs

| Run | Shows | Bounds, and why they are enough |
| --- | --- | --- |
| `Pool` | blocks inside the heap, disjoint, aligned (`BlocksAreSafe`) and zeroed; the pool implements `Allocator` | heaps of 11 and 0 bytes, requests of 0, 1, 3, 4, 5 and 251 of 255 bytes: below, at and above a word, with a tail shorter than a word, refused by size and by free space |
| `Stream` | positions inside maxima; bounded reads deliver the range once and in order; a read that was lost to the bound is remembered as end of file; a refused call does nothing, but that a read refused by the stream below has moved the bounded position (`RefusedReadsOnlyLoseBound`) | buffers of 0 and 3 bytes, all contents, bounds of 0, 2 and 5: below and above what the stream has; sizes above `INT_MAX`, for the check every call begins with |
| `CompactWords` | decoding undoes encoding; sizes are minimal; decoding stays inside the input | every word of 16 bits, signed and unsigned, and every input of one and two bytes: each length and each limit occurs |
| `Codec` | the decoder stays in step with the encoder; a value is refused only when cut; what arrives is a prefix of what was sent | two values of any two types, at the ends of their ranges, in five bytes: the second may not fit, a decimal may lose its mantissa, the message is cut at every byte |
| `ObjectDecode` | accepted messages are used up; the object's blocks are allocated exactly when it refers to them; a failure or `destroyGroup` frees strings and elements; an accepted message had a value for each mandatory field and each element, and its numbers, flags, decimals, fixed and strings with characters are kept (`NoValueIsMissing`) | seven groups with a field of each kind, nesting, inheritance; every message of up to six bytes over seven byte values; each allocation may fail; with and without `free` |
| `ObjectDecodeEnds` | decoding ends | a sequence of values and one of groups that take no bytes; every message of up to four bytes |
| `ObjectEncode` | the size sent ahead is the size written; a message is read to what was set by the decoders of `Compact`, one by the type of each field, but for the value of a double other than zero; no string is freed early | six groups, three words (one byte, two bytes and the largest), texts of 0 to 3 bytes, an output of eight bytes that holds some messages and not others, two strings in memory |
| `SchemaParser` | the parse ends; names are unique; enum values ascend; accepted schemas are complete and have the names, types, literals, marks and annotations that were written, in their places | four alphabets of 9 to 18 tokens: groups, enums, sizes with typedefs and namespaces, annotations; every input of up to eight tokens and every failing allocation. `INT32_MAX` is 1, so that enum values reach both ends |

| `SchemaResolve` | an accepted schema is resolved; supergroups are groups and no field hides an inherited one; a refusal names a fault that is there, unless it is one of two false alarms (`FalseAlarms`); lists and lookups answer from what was written, and the type of a field is that of the definition its reference means; the tests end unless supergroups form a cycle | every schema of three definitions of these kinds: groups with or without a supergroup and with three lists of fields, typedefs of every reference, dynamic or a sequence, enums; and lines of supergroups through typedefs over three namespaces, one of them empty, with ids. Three definitions hold each cycle a test can meet, and two levels above a group |
| `Lexer` | tokens are the longest of the language the code takes (`Fits`); values exact; only separators and a comment are skipped; the text is used up | every text of up to four, five or six characters of four alphabets: names and keywords, literals and comments, numbers, marks. A name has three characters, one less than a text that outgrows the buffer; numbers wrap at one hexadecimal digit, so that two digits overflow |

Each of two more runs refutes what the repository says, and has a finding in `PROJECT.json`:

| Run | What the code says | What it does |
| --- | --- | --- |
| `ObjectEncodeInherited` | `blink_object.c:1512` "determines if all mandatory fields have been initialised", `blink_schema.h:364` "Call handler for each field in group" | the iterator takes the fields of the group once more for every supergroup and those of the supergroup never (`blink_schema.c:172`); the copies cannot be set, so the object cannot be encoded |
| `SchemaResolveCycle` | `blink_schema.c:2051` "group cannot be own supergroup", `blink_schema.h:170` "@return schema", "@retval NULL" | two groups, each the supergroup of the other, pass; `numberOfSuperGroup` then follows them without end (`blink_schema.c:537`) and `Schema_new` does not return |

### Other disagreements

These configurations are kept beside the runs; TLC refutes each property. A configuration with several
is run with `-continue`, which goes on after the first.

| Configuration (module) | Property | What the code says | What it does |
| --- | --- | --- | --- |
| `CodecF64` (MCCodec) | `IsChannel` | `blink_compact.h:362` "Encode `f64`", `:218` "Decode `f64`" | the encoder sends the bits of the double, the decoder converts the number (`blink_compact.c:324`) |
| `PoolWrap` (Pool) | `NullWhenInsufficient` | NULL for "insufficient free memory" | a request within a word of the largest `size_t` wraps to 0 when rounded and is granted |
| `PoolFreeSpace` (Pool) | `FreeSpaceCanBeAllocated` | `blink_pool.h` "Find out how much memory can still be allocated" | a tail shorter than a word is counted and cannot be allocated |
| `StreamSeekBack` (MCStream) | `SeekCurMovesByOffset` | `blink_stream.h:188` "Add offset to current position" | a negative offset is accepted and moves nothing |
| `StreamSeekOverflow` (MCStream) | `InBounds` | the guards take position below maximum for granted | the sum overflows, and gcc drops the test for it |
| `StreamBoundedWrite` (MCStream) | `BoundedReadsStayInRange` | `blink_stream.h:161` "allowed to read/seek within range (cur .. cur + max)" | a bounded write does not move the bounded position |
| `CompactSign` (CompactWords) | `OneCountedByteIsSigned` | "Decode `i64`" | the sign is extended by a constant that is one byte short |
| `ObjectDecodeDisagreements` (MCObjectDecode) | `DecodedFieldIsNotNull` | "true if field value is NULL" | a decoded u16, and a decoded empty string, read as null |
| | `DecodedGroupIsKept` | `blink_object.h:307` "Read group from field ... @return group" | a nested group is decoded into an object that is neither stored nor pushed on the stack (`blink_object.c:1200`) |
| | `NeverAborts` | the assertion of `castEnum` | the field is passed where an enum is expected |
| | `DestroyFreesAll` | "Destroy an existing group model" | the array of fields is not freed |
| `ObjectEncodeDisagreements` (MCObjectEncode) | `AnnouncedSizeIsWritten` | "calculates encoded size" | the presence byte of an optional fixed is not counted |
| | `SettersReturn` | "Write boolean to field" | the value is used as an address |
| | `DoublesDecode` | `blink_object.h:150` "Write f64 to field" | the bits of a double other than zero are sent and decoded as a number (`blink_compact.c:324`) |
| | `DestroyFreesStrings` | "Destroy an existing group model" | a string that is set again is not freed |
| `SchemaParserTypes` (MCSchemaParser) | `RefusesOnlyDuplicates` | `blink_schema.c:942`, `:989` "duplicate definition name" | a new name that begins an earlier name is refused (`blink_schema.c:2181`) |
| | `SizeCanBeClosed` | `blink_schema.c:1639` "expecting ')'" | the state that expects it is never entered |
| `SchemaParserTimes` (MCSchemaParser) | `AcceptedIsWhatWasWritten` | `blink_schema.c:1772`, a token and its type are at the same place in two tables | `millitime` and `nanotime` are exchanged: two tables have them in different orders |
| `SchemaParserTypeNote` (MCSchemaParser) | `FieldTypeCanBeAnnotated` | `blink_schema.c:825` "annotes before a field type" | the state is entered with the `@` still pending and refuses it |
| `SchemaParserNotesMoved` (MCSchemaParser) | `AnnotesStayWithTheirDefinition` | `blink_schema.c:1014` "`<annotes> <name> = <laAnnotes> <laName>`" | an annotation of the type overwrites the definition's of that name |
| `SchemaResolvePrefix` (MCSchemaResolve) | `AcceptedIsResolved` | "resolved" | a reference to a name that begins an earlier one leads to that one (`blink_schema.c:2181`) |
| `SchemaResolveDisagreements` (MCSchemaResolve) | `CyclesAreCycles` | `blink_schema.c:2021` "Reference cycle detected" | a line of three typedefs is called a cycle: the fast pointer is set from the slow one |
| | `DynamicTypesLeadAstray` | `blink_schema.c:2010` "a dynamic reference must resolve to a group" | `A = B*`, `B = C`, `C` a group is refused: the test looks at the last typedef (`blink_schema.c:2008`), not at what it refers to |
| | `DynamicTypesAreGroups` | the same message | `A = E*`, `E` an enum is accepted: the mark of the last typedef is not looked at |
| | `NoDoubleSequence` | `blink_schema.c:1994` "double sequence not allowed" | `A = B[]`, `B = C[]`, `C` a group is accepted. The messages for a double sequence and a double dynamic reference are never given: they need a second typedef that names another, and the first is taken for a cycle already |
| | `DynamicFieldsAreDynamic` | the type of a field that has a `*` | the `*` of the field itself is not looked at, only those of typedefs |
| | `PeekIsNext` | `blink_schema.h`, the peek of a field iterator | the peek gives nothing when the last level is used up, and `next` goes on with the one before |
| | `NeverStops` | the assertions of `castGroup`; the schemas are ones the parser accepts | a supergroup of a supergroup that is no group is followed before it is tested; a typedef of a built-in type has no reference to follow |
| | `AnswersAreRight` | `getGroupByID` | two groups may have one id; the second is never found |
| | `AcceptedIsResolved` | `resolveDefinitions` | an unqualified name is looked up in the first namespace, whatever its own |
| `LexerDisagreements` (MCLexer) | `HexTooBigIsUnknown` | `tc_blink_lexer_gettoken.c:632` `hex_number_too_big` | one digit more than fits is taken, and the number wraps; more digits still become a 0 and a name |
| | `NamesAreWhole` | "`[\\]?[A-Za-z_][A-Za-z_0-9]+`" | a keyword that begins a name is cut off it |
| | `NamesHaveTwoCharacters` | "`[\\]?[A-Za-z_][A-Za-z_0-9]+`" | one character is a name |
| | `HexHasTwoDigits` | "`[0][x][0-9a-fA-F][0-9a-fA-F]+`" | one hexadecimal digit is a number |
| | `CNamesAreNames` | "`:[A-Za-z_]`" | a digit may follow the colon |
| | `NamesHaveALength` | the value of a token | the length of a name at the end of the text is 0 |
| | `SpaceIsNoToken` | "skip whitespace" | space after a comment is not skipped, nor a second comment: it is refused |
| | `IntsAreNotZero` | "`[-][1-9][0-9]*`" | `-0` is a number |
| | `ColumnIsColumn` | the column of a token | the column is that of what was skipped last |

The passing runs hold beside these cases for one of three reasons.

  - Their constants leave them out: offsets that overflow, requests that wrap, optional fixed, the two
    times, counted negative numbers no encoder sends; in `SchemaResolve` names that begin other names, ids that
    come twice, unqualified names outside the first namespace.
  - The property names what it leaves out: the annotations of `Plain` in `SchemaParser`; in `ObjectDecode` the value of
    a u16, an empty string and a nested group (`ValueIsKept`, used by `NoValueIsMissing`); in `ObjectEncode` doubles
    other than zero (`IsConverted`, used by `MessageDecodes`); a name at the end of a text in `ValuesAreExact`; in
    `SchemaResolve` the messages of `FalseAlarms`, "Reference cycle detected" and "a dynamic reference must resolve to a
    group", which `ErrorsNameTheFault` says nothing of, and the `*` of the field itself in `TypeIsRight`; the position
    of a bounded read refused below in `RefusedReadsOnlyLoseBound`.
  - The property states what the code does: the language of the lexer, `Fits`, has the one-character names, the
    digit after a colon, the `-0` and the hexadecimal digits that the patterns of `blink_lexer.h` and the test do
    not have; `TokensAreLongest` is about that language. Keywords that begin a name, and hexadecimal numbers that
    are too long, are named in it.

Seen in the code, and stated by no property: `encodeCompact` returns false whatever it wrote; `setUint` stores any number in
a field of any width, and a decoder refuses the message with it (not seen in `ObjectEncode`, whose words of
two bytes every `u16` holds); `setGroup` takes the object itself where its address is expected.

## Fairness and termination

Safety needs none. `Ends` (of `SchemaParser`, `SchemaResolve` and `Lexer`) and `Terminates` (of
`ObjectDecode`) are checked under weak fairness of a step of the function: a call runs until it returns, and
no other process can stop it. `Ends` of `SchemaResolve` has a premise, that supergroups form no
cycle; `SchemaResolveCycle` checks it without, and the tests do not end. `Ends` of `Lexer` says that
every token uses up some text, since a caller reads tokens until the text ends. The schemas and texts
that stop the program or are refused have ended too. `ObjectDecodeEnds` is a run of its own because TLC decides whether each
step of `ObjectDecode` is enabled by enumerating outcomes; the schema it uses has the loops, the
other one has the rest.

`CHECK_DEADLOCK FALSE` is used where a call returns and nothing follows: messages, parses,
an object that was destroyed.

## Proofs

TLC checks the properties for the instances above, the theorems hold for every value of the
constants that satisfies the assumptions of the modules.

`PoolProofs`, for every word of four or eight bytes, every `size_t`, every heap and, by the hypothesis
`RequestsRoundable`, requests whose rounding up does not pass `SIZE_MAX` (`PoolWrap.cfg` shows the
hypothesis is needed):

  - `PoolInvariant`: the inductive invariant. Beside the properties it says that the position is a
    whole number of words, without which a block after an odd request would not be aligned, and
    that no block reaches past the position, without which the next might overlap one.
  - `TypeCorrect`, `PoolSafe` (`BlocksAreSafe`: `InsideHeap`, `BlocksDisjoint`, `BlocksAligned`) and `PoolZeroed`
    (`FreeIsZero`) follow from it.
  - `PoolRefinesAllocator`: every step of the pool is a step of `Allocator` or leaves its variables
    alone. The mapping takes `size` for `heapSize` and `blocks` for `live`.

  The lemma `Rounding` says what `ActualSize` returns, `WordSum` that whole words add up to whole
  words; they are proved for the two word sizes apart, because the prover has no division by a variable.

`StreamProofs`, for every width of `uint32_t`, buffers of every size and contents, payloads, sizes and
limits, and, by `OffsetsDoNotOverflow`, `seekCur` offsets whose sum with a position is an `int32_t`:

  - `StreamInvariant`: the inductive invariant, the conjunction of the types, `InBounds`,
    `BoundedReadsAreThePrefix` and that the size of the buffer is one of those it was initialised with,
    which `OffsetsDoNotOverflow` speaks of.
  - `TypeCorrect`, `StreamInBounds` and `BoundedPrefix` follow from it.
  - `LostBytesAreReported` (`LostBytesMeanEof`): bytes that a read consumed and did not hand out have raised the
    end of file; `RefusalsOnlyLoseBound`
    (`RefusedReadsOnlyLoseBound`): a call that returns false has moved, stored and delivered nothing, but for the bounded
    position of a read that the bound allows and the stream below refuses.

  The lemmas `WriteKeeps`, `ReadKeeps`, `SeekCurKeeps` and `BoundedReadKeeps` say what an operation does
  to the streams it is given, and are cited by the step of the action that calls it.

`CompactProofs`, for words of 2 to 63 bytes (`WordBytesAssumption`: the count of bytes has six bits):

  - `CompactRoundTrip`, `CompactShortest` and `CompactWithinInput`, for every number of a word. A word read from counted
    bytes is built from the last byte down; that it is the number its bytes were taken from is shown by an induction from
    the top: the word so far is the number divided by the values of the bytes still to come. The size of a number is
    the least class that holds it, and a class holds a number exactly when its bytes give it back (`Shortest`). The
    prover has no power with a variable exponent, so `ValuesIn` multiplies byte by byte.
  - `CompactWithinInput` leaves out a negative number in one counted byte, which is decoded as a number that needs more
    bytes. A word of two bytes does not show it: the constant that is one byte short (`CompactSign`) is then none. The
    proof for words of any size did.
  - `CodecInvariance`: the inductive invariant of `Codec`. The bytes of each item are in the buffer between its mark and
    the one before (`CodecLaid`), those of a value that did not fit are at most its first write, and the decoder stands
    at the end of the last item it took, with the same bytes before it (`CodecRead`). That a later write keeps the bytes of
    an earlier one, and that a decoder looks at no byte behind the item it takes, are lemmas about the streams.
  - `CodecInStep`, `CodecRefusesOnlyCut`, and `CodecIsChannel`: every step is one of `Channel` or none. Its hypothesis
    `OnlyZeroDoubles` is what `CodecF64` shows to be needed. `ValuesAssumption` says that the values are those of
    the C types the encoders take.

`ObjectDecodeProofs`, for every schema of finitely many groups (`SchemaAssumption`), every message up to any
length over any alphabet, and every order of allocation failures:

  - `Invariance`: the inductive invariant `IInv`. A property of the object at the end of a message needs, at
    each turn of the loop, where the two streams stand (neither is past its end, and the bound is not past the
    message), which fields and elements have been decoded (those before `i` and `j`, each `Whole`), and whose
    each block is (`Holds`: a slot refers to allocated blocks that are no other slot's, and whatever else is
    allocated is a nested group's, `Stray`). The last is what makes `destroyGroup` free what it should.
  - `TypeCorrect`, `AcceptedConsumed`, `OwnedAreLive`, `NothingKeptAfterFailure` follow, and `NothingIsMissing`
    (`NoValueIsMissing`): an accepted message had a value for each mandatory field of any type and each element of its
    sequences, and the values are kept that the code keeps; those it drops are named in `ValueIsKept`.

  The lemmas say what a handler may leave behind: every outcome of each of them advances the streams within
  their bounds, and allocates only blocks that its slot then refers to or that are freed on its way out.

`ObjectEncodeProofs`, for every schema, words below `Modulus` and texts of bytes (`EncodeAssumption`), and every order of calls:

  - `OwnedLive`, from an invariant that says that blocks have numbers below `next`, that a slot
    refers to none or to one that is allocated, and that no two slots share one. The last conjunct is needed for
    `clear` and for a string that is set again.
  - `AnnouncedWritten` (`AnnouncedSizeIsWritten`): what `cacheSize` counts is what `encodeBody` writes. The invariant
    `SoundInv` adds that a field that is set holds a value of its type (`FieldHolds`), because the writes of another would
    not be those that were counted, and that the output is a buffer with its position inside. `FieldTakes` says it of a
    field, `BodyTakes` of the fields one after another, and `AnnouncedIsRead` of `CompactProofs` that a size written
    ahead is read back, also when the buffer ends within what follows. `CompactProofs` is taken as the instance `C`, of a
    codec that sends nothing: only what it says of words, streams and writes is cited. The hypotheses are
    `FixedsAreCounted`, without which `cacheSize` is a byte short (`ObjectEncodeDisagreements`), and `SizesFit`, that
    the size of a message fits a word. Both hold of the instance of the run.
  - `MessageIsDecoded` (`MessageDecodes`): from the same invariant. The writes of a message are put together field by
    field (`BodyUpTo`), so the bytes of each field lie in the output between the end of those before it and its own, as
    long as nothing is cut (`IsLaid`, `BodyLaid`); a later write keeps an earlier one. `SetFieldReads` says that the decoder of the type finds
    the value at such a place and stops at its end, `NullFieldReads` that any of them finds a null, and `FieldsAreRead`
    goes from one end to the next. It rests on what `CompactProofs` says of a decoder that stands at a number. Its hypotheses are
    `SizesFit` and `NumbersFit`, that no 16 bit field is set to more: `BLINK_Object_setUint` stores any number and
    `decodeCompact_u16` refuses it. A double other than zero is read as another number and its value is not
    compared (`IsConverted`). The reader is the decoder of `blink_compact.c` for each type and not `decodeCompact`, whose handlers
    take a u16 and an empty string for null. `FixedsAreCounted` is not needed, since fields are found by their types, not by the size ahead of them.

`SchemaParserProofs`, for every text of tokens whose numbers are integers (`ParserAssumption`):

  - `Invariance`: the inductive invariant. Every definition but the last is whole, and the last as far as the
    state of the parser says (`Stage`): what `FIELD_TYPE` or `SYMBOL_VALUE` may assume of the fields and symbols
    before it. `NotesOK` is for the annotations that wait for a definition, `PlaceOK` for the parser's pointers into
    what it has made.
  - `TypeCorrect`, `UniqueNames`, `ValuesAscend` and `AcceptedComplete` follow. The last has the hypothesis
    `WordsHaveCharacters`, because the lexer gives a name at the end of the text no length
    (`NamesHaveALength` of `LexerDisagreements`).
  - `AcceptedWritten`: what was accepted is what was written. Its invariant `Written` says so of every step: the words
    of the tokens handled are those of the definitions made (`Made`: the last one as far as its `Stage`), followed by
    those the parser has noted and not yet placed (`Noted`: annotations, a name, the name seen ahead of its `=`). `Shape` says
    which parts of the last definition the next ones come after, `NotingOK` which annotations wait, `PathOK`
    which states a plain schema does not lead to. What a fold of words is of a longer list, or of one
    whose last member grew, is said by lemmas (`FieldsGrow`, `SymbolsGrow`, `SchemaGrows`, ...) that every step cites.
    Beside `WordsHaveCharacters` it has the hypothesis `NoTimes`: for a `millitime` or a `nanotime` the
    property is false (`SchemaParserTimes`).

`SchemaResolveProofs`, for every finite set of schemas whose definitions are lists, and any table of names and of
the names that begin others (`ResolveAssumption`):

  - `Invariance`: the inductive invariant, in parts. `ScanOK` says where the walk over the definitions stands,
    `LinksOK` that each reference passed is resolved as `Resolve` resolves it, `TypedefsOK` that each typedef
    passed leads somewhere (`Ending`) and where the slow and the fast pointer stand on the one at hand (`Looped`),
    `GroupsOK` that each group passed is `Tested`, `CountOK` that the count of supergroups does not pass the
    groups there are, `WalkOK` where a field iterator stands. Each loop of `Schema_new` needs what the one before
    it established: the test of fields walks supergroups through typedefs, and would not end without `Ending`.
  - `TypeCorrect`, `AcceptedResolved` and `AcceptedInheritance`; `FaultsAreThere`, with the invariant `FaultOK`,
    which says that the tests before that of supergroups report nothing but the two false alarms; and `AnswersRight`, with
    `AnswerOK`, which says what an iterator has handed out and what is before the place a lookup has come to. That the type
    of a field is right compares it with what was written: `Meant`, the least set of definitions its reference leads to by
    name, is shown to be what the pointers lead to (`MeantIs`), so the one definition there that refers to no other
    is where `getTerminal` ends.

  Their hypotheses are about the schema, not the resolver. `NamesAreTold`: no name is defined twice, none that is
  referred to begins another, and a bare name is used in the first namespace only. The first part is what
  `UniqueNames` proves of a parse; the others are needed because the code compares a name by the length of the one
  it seeks and seeks a bare name in the first namespace (`SchemaResolvePrefix` and
  `SchemaResolveDisagreements` show what happens without). `IdsAreTold` and `GroupsAreTold` say the same of the
  ids and names that a caller may ask for. All three hold of every schema of the run `SchemaResolve`, so the
  theorems state all that the run checks. What `Beyond` and `Terminal` compute by recursion is characterised
  without it (`BeyondIsLeast`: the set of the definitions on a chain of references), and the inductions are made
  by the least or greatest element of a set of numbers.

`LexerProofs`, for every set of texts, every table of words, every buffer and every width of numbers that
`LexerAssumption` allows. It asks of the table what `tokenTable` (`blink_lexer.c:41`) has: no empty word and none
across lines, a word that begins with a letter is a name, a `-` is not followed by a digit, and no
word begins a later one, since the first that fits is taken.

  - `Invariance`: the inductive invariant. `CallAt` says what the last call left: where the text was taken up, what
    was skipped (`GapAt`), and that the token is `RightAt` its place, that is, of a kind that fits and as long as any that does.
    The row counts the newlines before the token: no token contains one, so skipping is all that moves it.
  - `Longest` (`TokensAreLongest`, of the language `Fits`, which is wider than the documented patterns) and `OnlySpace` (`OnlySpaceIsSkipped`) follow from it.
  - `ValuesExact` (`ValuesAreExact`): a number that the code adds up from the first digit, cut to its width at every
    step, is the one that its digits say from the last on by their places, cut once. Both are compared with the
    numbers that the first digits say (`IsHorner`): a remainder may be taken before a digit is added as well as after
    (`RemainderGrows`), and what the digits before a place say, as often as the place says, and those after it make the whole
    (`ValueIs`). The lengths of names and literals are counted in the characters of the token, so they need `KindRight`.

  The properties speak of texts that are cut out (`Fits`), the recognisers of positions. `FitsAt` says the former by
  positions, and for each recogniser a lemma says what it gives, and what cannot stand there when it gives nothing.
  They are cited in the order in which the code tries the recognisers, because what a later one may assume is that
  all before it gave nothing.

The proofs found places where the model could not be reasoned about. `Reference` and `After` of
`SchemaResolve` were `CASE`s with arms that overlap, whose value the logic leaves open although TLC takes
the first; they are `IF`s now. `Groups` of `ObjectSchema` was not said to be finite, without which the number of supergroups is
no number. `ValueOf` and `Modulus` of `Lexer`, a fold and a power, are recursive functions now, which say the same. The words that
`AcceptedIsWhatWasWritten` of `SchemaParser` compares were written in one expression; each part of them has a name now, to be spoken of in a lemma.

What no theorem states stays with TLC: `Ends` and `Terminates`, which are liveness. Every invariant and every action
property of the passing runs is stated by a theorem. For three components a theorem says the half of termination
that is safety: some measure is lowered by every step, so that only the fairness that makes steps happen is left
to TLC.

  - `TokensTakeCharacters` of `LexerProofs`: a call that gives a token has read some of the text.
  - `TokensMoveOn` of `SchemaParserProofs`: a token is passed from state to state at most six times, never in a circle.
    `Passes` of a state is how many states may still be given the token; the actions shift it, refuse it or lower `Passes`.
  - `LoopMovesOn` of `ObjectDecodeProofs`: a turn of the loop leaves fewer fields, or as many and fewer elements of
    the sequence it is in. That fewer is never less than none needs the invariant (`Progress`).

The resolver has no such theorem: its loops follow references, and that each of them ends is a property of the paths
through the definitions, which would be proved by induction on them.

## Not modelled

  - `append` is empty. The getters copy a field and change nothing; `getEnum` passes the field's
    definition where an enum is expected, the mistake `NeverAborts` shows in the decoder. `iterate` is one loop that hands the same element
    to its handler until the handler refuses it: whether it ends is the handler's choice.
  - User streams and allocators are the caller's; what the code relies on is in `Allocator`.
  - Levels of the decoder's stack above the first: no handler ever raises the level.
  - Schema getters that return a member: names, sizes, symbols, ids. A schema is never freed by the code, so there is
    no use after free to look for.
  - In `Lexer` upper case hexadecimal digits and the spelling of the keywords, which a table holds; the position at
    which a stream fails, since a text is in memory.
  - Debug output, tests, the benchmark, and the vendored test framework.

## Plan

Written so far, in this order: pool and streams, because everything else allocates, reads and
writes through them; the compact form; the object decoder and encoder, which hold the most code and
the most ways to fail; the parser; the resolver with its iterators; the lexer. Each component that changes
state is modelled.

Nothing of the plan is left to prove that the prover can state. What would come next is that the walks of the
resolver over typedefs and supergroups end, with a measure like those of the other components, once what
`Beyond` and `Terminal` compute can be reasoned about by induction.

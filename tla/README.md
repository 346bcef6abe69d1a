# A verification of the SIMBA capture parser

The program reads a capture file (pcap) of SIMBA market data, decodes the
packets and writes them as JSON. It is single-threaded and runs once:
`main` constructs a `PCAPParser`, calls `parse()`, and the destructor closes the
output. What is hard about it is not concurrency but boundaries: the file is
handed out in chunks that cut headers and packets anywhere, unread bytes are
moved between two kinds of memory, output is batched while any step may throw,
and a decoder follows offsets that the packet's sender determines.

Source paths below are relative to the repository (`src/IO_Mapper.cpp` and so on).

## Inventory

| Component | State | Operations | Interacts with |
|---|---|---|---|
| `IOMapper` (`IO_Mapper.*`) | file size at construction, offset of the next chunk, descriptor, live mappings | constructor with `getFileSize`; `fetchNextChunk` with `mapFile` | called by `PCAPParser`; throws when stat, open or mmap fail |
| `PCAPParser` (`PCAP_Parser.*`) | window over the input (`chunkOffset`, `chunkUnprocessedSize`, `chunkDataBuffer`), global header, output stream, `jsonBuffer` | constructor, `parse`, `parseGlobalHeader`, `parsePCAPPacket`, `parseGenericHeader`, `readMoreInput`, `readPacketData`, `processPCAPPayload`, destructor | owns an `IOMapper`; builds a `SIMBADecoder` per packet; renders through `SIMBA_JSON.hpp` |
| Packet payloads (`processPCAPPayload`, `PCAP_Schema.hpp`) | the pointer into the packet and the span found | looks at the Ethernet, IPv4, TCP or UDP header in turn | throws or returns to `parsePCAPPacket`; hands the decoder a span |
| `SIMBADecoder` (`SIMBA_Decoder.*`) | an offset into the span, the packet being built | `decode`, `parseType`, `parseVectorType`, `parseOrderBookSnapshot`, `parseSecurityDefinition` | sizes come from `SIMBA_Schema.hpp` |
| `SIMBA_Schema.hpp` | none | packed structures of the messages and groups | |
| `SIMBA_JSON.hpp` | none (stream state) | an `operator<<` per structure, and for vectors, spans, flags and nullable values | follows pointers kept in the structures |
| `main.cpp` | the two file names | the loop over the arguments, the try block, the exit status | constructs and destroys the parser; `-o` may name the input file |
| `PCAP_JSON.hpp` | | included by nothing | |

What makes each component correct:

- `IOMapper`: the chunks partition the file; mappings start where mmap allows; no
  access through one kills the process while the file keeps its length.
- `PCAPParser`, input side: it walks the file once from front to back, and each
  packet it hands on is the run of bytes behind its header, whatever the chunks
  cut; no access leaves the memory it is in; input is refused only if the file
  does not have the bytes; the loop ends.
- `PCAPParser`, output side: at any moment, after any failure, the file holds a
  prefix of what was rendered; a run that ends has written all of it.
- Packet payloads: the span is the sender's payload, and lies in the packet.
- `SIMBADecoder`: it finds each message where it begins, decodes it whole with
  its own groups, and ends on any payload.
- `SIMBA_JSON.hpp`: a packet is a list of JSON values, with one for each message.
- `main`: the files are those the arguments name.

Behaviours that are hard here: packets and headers straddling chunks, the last
short chunk, a fixed buffer that must take a leftover of any size, exceptions
thrown half-way through a refill, partial writes and crashes between flushes, an
input that is truncated under its mapping, sizes that wrap, truncated payloads,
unknown messages, layouts that differ from the sender's, and text that is
assembled comma by comma. The program has one thread; the only concurrency is
with whoever else writes the input file. Nothing is persisted or timed.
`hazards` in `PROJECT.json` lists each one at its line.

## Modules

| Module | What it is |
|---|---|
| `IOMapper` | the mapper: `IONext` is one call of `fetchNextChunk` and its four outcomes |
| `PCAPParser` | the parser, extending `IOMapper`: one action per call, `pc` naming the next |
| `PcapStream` | abstract specification: what any reader of a capture file promises |
| `OutputLog` | abstract specification: what any buffered log file promises |
| `PCAPParserProperties` | the properties of the parser and its refinement mappings to `PcapStream` and `OutputLog` |
| `ChangingFile` | the parser over an input that is shortened while it is read, or is the output too |
| `Payload` | one call of `processPCAPPayload`, one action per header |
| `PayloadProperties` | the properties of the payload's place, and the refinement to the step `ProcessPayload`/`Crash` of `PCAPParser` |
| `SIMBASchema` | sizes of the structures, and messages as their sender lays them out |
| `SIMBADecoder` | one call of `decode()`, one action per call it makes |
| `SIMBADecoderProperties` | the properties of the decoder |
| `Rendering` | the text of one packet as JSON tokens, one action per part of the packet |
| `RenderingProperties` | an automaton that reads JSON, and the properties of the text |
| `Arguments` | the loop of `main` over `argv` and the decision to start |
| `ArgumentsProperties` | which files a command line names |
| `PCAPParserProofs`, `OutputProofs`, `ChangingFileProofs`, `PayloadProofs`, `SIMBADecoderProofs`, `RenderingProofs`, `ArgumentsProofs` | the inductive invariants and the theorems |
| `Recursion` | induction and recursion over `0 .. N`, proved from what the prover knows of sets |
| `MCReader`, `MCOutput`, `MCChangingFile`, `MCPayload`, `MCDecoding`, `MCRendering` | small instances for TLC |

How they compose: `PCAPParser` extends `IOMapper`, so that every fetch is an action
of the mapper; `ChangingFile` puts the file's present size beside it; `Payload` is what
happens inside one step of `PCAPParser`, shown by refinement; `SIMBADecoder` takes
the span `Payload` found, described by what is in it; `Rendering` takes the messages
the decoder built, described by what their text depends on, among which are the counts
and vector lengths the decoder leaves different.

### State and actions against the code

**Bytes are file offsets.** A cell of `chunkDataBuffer` holds the offset in the
file of the byte copied there, `ByteAt(k)` is the byte `chunkOffset[k]`, and
`packetData` records which bytes of the file a packet consists of. This makes the
effect of `memmove` and `memcpy` visible without modelling contents. The contents
of a header are chosen when it is read: every byte is consumed at most once, so the
choice is the same as fixing the file beforehand.

**Pointer.** `chunkOffset` is `[base, index]`: null (empty file), into the
first chunk, or into the buffer.

**Calls.** `GetFileSize`, `FetchFirstChunk` and `OpenOutput` are the constructor;
`ParseGlobalHeader`; `TestLoop` the condition of the loop; `ReadPacketHeader`
is `parseGenericHeader`; `ReadMoreInput`/`RefillNotNeeded` the branch in
`parsePCAPPacket`, the former with the whole of `readMoreInput`: the leftover
moves before the fetch and before the capacity check, and both ways to fail leave
it moved; `ReadPacketData`; `SkipPayload`/`ProcessPayload`/`Crash`; `FlushIfDue`;
`Destroy`. An exception in the constructor ends the run (`ThrowFromConstructor`),
one under `parse()` runs the destructor first (`Throw`).

**Output.** What is rendered is a sequence of tokens: `[`, a packet, the separator,
`]`. `Write` is `std::ofstream::operator<<`, which no caller checks: it
stores everything, or fails, after which an arbitrary prefix of what the stream was
given is in the file and further writes do nothing. `Crash` is the end of the
process when the decoder or the rendering leaves the packet (undefined
behaviour); what the ofstream still buffered is lost.

**A changing file** (`ChangingFile`). `diskSize` is the size the file has now, which
`Shrink` lowers at any moment by any amount, and opening the output sets to 0 if it
is the same file. `WindowRead` and `ChunkRead` are the bytes the next call reads through
a mapping: nothing once the window is in the buffer. If a page of them no longer holds
any byte of the file, the process dies (`FaultInWindow`, `FaultInChunk`); otherwise
the bytes beyond the end read as zeros and are recorded in `fabricated`.

**Packet payloads** (`Payload`). A packet is described by its sender's side (lengths of
its headers and data, protocol, the UDP length field) and the number of captured
bytes. A field the code reads where the sender put it has the sender's value; one it
reads elsewhere can have any; the upper half of the third byte of the destination address
is named (`addressNibble`), because the TCP branch takes it for `dataOffset`.
Sizes are unsigned (`Unsigned`, modulo `WordSize`).

**Messages.** The decoder's input is described from the sender's side: the messages
put into it (`payload.wire`) and the number of bytes the span covers
(`payload.size`, every value). A header or group size read where the sender put
one has the sender's value; read anywhere else it can look like anything in
`StrayHeaders` or `StrayCounts`; read past the end it is zeros, as `parseType`
returns them. Sizes are the real ones. Field values are left out.

**Text** (`Rendering`). Each `operator<<` is an operator that returns tokens: the JSON
punctuation, `num`, `str`, `null`, and two tokens JSON does not have: `bare` (text
without quotes) and `garbled` (bytes where JSON has no place for them). A message keeps
of its values only what the code distinguishes: flags, null values, an enumerator
without a name, an infinity, a `MarketSegmentID` that is no character, and of each character
array whether a zero byte ends it, since C strings run on until one: into another text,
which is a text still, or into a number or out of the entry, where any byte may
stand. Whether bytes nobody checked (those, characters that must be escaped, the
description, which is written without quotes, entries beyond their vector) leave the JSON
intact depends on the contents, of which a message says no more than that: `harmless`.
A zero written into the text (a `CFICode` shorter than its array) never does.

**Arguments.** `i`, `pcapDumpFile` and `outputFile` are the variables of `main`; each
action is one round of its loop.

Definitions marked as mutants are plausible bugs of the definition that
follows them. Nothing uses them; each one, put in place of that definition, makes
one property fail (`mutants` in `PROJECT.json`).

## Runs

| Run | Shows |
|---|---|
| `reader` (MCReader) | For every way chunks cut a file: the window is the file (`WindowIsFile`), stays in bounds (`WindowInBounds`), packets are refused only where the file ends (`RefusedOnlyIfTruncated`) or when they are longer than a fifth of a chunk (`TooSmallOnlyForHugePackets`); chunks partition the file (`ChunksPartitionPrefix`) and are aligned (`MappingsAligned`); the parser implements `PcapStream` (`StreamSpec`) and ends (`Termination`), which every step brings nearer (`RunsDown`). |
| `output` (MCOutput) | With flushes every two packets, failing writes, exceptions and crashes: the file is a prefix of the output (`OutputIsPrefix`), complete and closed if writes worked (`NothingLostOnExit`), batches are bounded (`PendingIsBounded`), the output is not truncated for an unreadable input (`OutputOpenedAfterInput`), and the parser implements `OutputLog` (`LogSpec`). |
| `changing_file` (MCChangingFile) | With an input cut at any moment: the process dies of it only if it was cut (`FaultOnlyIfShrunk`); a run that survives has taken zeros for the file only in the page where its reading stopped (`FabricatedInLastPage`); when the output is the input, the run never succeeds (`SameFileNeverSucceeds`) and writes nothing over it (`SameFileWritesNothing`); the program ends (`Termination`, `RunsDown`). |
| `payload` (MCPayload) | A plain UDP packet is decoded from exactly its sender's payload (`UdpPayloadIsTheSenders`); the span leaves the packet only in the listed cases (`SpanLeavesPacketOnlyIf`); the steps amount to `ProcessPayload` or `Crash` of `PCAPParser` (`ImplementsProcessPayload`). |
| `decoding` (MCDecoding) | For payloads cut at every byte, some of which make the decoder lose its place: each message that is all there, up to the first the structures do not describe, is decoded once and whole (`DecodesWhatWasSent`); an uncut payload of described messages reports the header of its last one (`ReportsLastHeader`); only the last message can be made up in part from bytes beyond the payload (`OnlyLastMessageIncomplete`); `decode()` returns (`Termination`), which every step brings nearer (`RunsDown`). |
| `rendering` (MCRendering) | The text of a packet is three or four JSON values, the last with one element per message, unless a message is one of `NotJson`, and then it is not (`JsonExactlyUnless`); a flag set lists each bit once with the commas in the right places (`FlagsAreListed`). |
| `arguments` (ArgumentsProperties) | The names are those an independent, loop-free reading of the command line finds (`NamesAreTheArguments`), and the parser starts exactly when both are there (`StartsWithBothNames`). |

Five runs end in a counterexample, each to a statement of the repository:

| Run | The code | The repository says |
|---|---|---|
| `end_of_file` | A packet ending exactly where a chunk ends ends the loop; the rest is dropped with `EXIT_SUCCESS`. A packet header cut by the end of a chunk is an error. | `PCAP_Parser.cpp:56` "until the end of the file" |
| `json_array` | A separator follows the last packet; one without a rendering leaves an empty element. | `README.md:15` "Outputs packet data in JSON format" |
| `payload_located` | The TCP header is looked for inside the IP header, and IP options are not passed over. | `README.md:19` "Decodes Ethernet, IPv4, UDP, and TCP headers" |
| `status_layout` | `SecurityStatus` counts a constant as a byte of the packet. | `SIMBA_Schema.hpp:355`, of the same field of `SecurityDefinition`: "needs to be constexpr so it's not counted" |
| `group_sizes` | Legs, InstrAttrib and Events are parsed with the count of MDFeedTypes. | `SIMBA_Schema.hpp:440` "Group size for entries" |

Other places where the program falls short are part of what the passing properties
say. A write that fails goes unnoticed and the run still succeeds: `NothingLostOnExit`
and `OutputLog` promise a complete file only if writes worked. What follows the block of an
unknown message, or a text whose length is not the one passed over, is taken for messages:
`DecodesWhatWasSent` stops at the first message that is not `Described`. A
`SecurityStatus`, an unknown update action, an infinity, a `CFICode` shorter than its array
and a `MarketSegmentID` that is no character make the text no JSON, and so do unchecked bytes
of a `SecurityDefinition` that do not happen to fit: these are `NotJson`, and
`JsonExactlyUnless` says that nothing else does. No TCP packet is ever decoded from its payload
(`TcpPayloadNotDecoded`, proved).

### Bounds

- `reader`: chunks of 10 bytes (buffer of 12), headers of 3 and 2 bytes, files of 0
  to 34 bytes: up to three full chunks and a short one, so that the window is in
  the first chunk, in the buffer, and refilled again from the buffer. Captured
  lengths 0, 1, 2 (a fifth of a chunk), 3, 10 (a chunk), 11, 13 (more than the
  buffer) are the values the code distinguishes. `EthernetHeaderSize` is above all
  of them: an Ethernet capture ends at its first packet and others run through, so
  that the output, which the `output` run is about, does not multiply the states.
- `output`: files of 0 to 14 bytes with 1-byte headers: up to thirteen empty
  packets and several refills, with `FlushEvery = 2`; lengths 0, 1, 2 are too short for
  Ethernet, too short for IPv4, and long enough.
- `changing_file`: chunks of 8 bytes in two pages, files of 0 to 17 bytes (two chunks
  and a bit) and lengths 0, 2 and 5: reads that end in the page where they began and
  in the next, from the first chunk, in a refill, and of a leftover; cuts to every size, at
  every step. Files of 1, 2 and 3 bytes are too short for one header or the other.
- `payload`: captured lengths on both sides of every comparison and of every end
  of a span; IP headers of 5, 6 and 15 words; address nibbles 0, 1, 5, 6 and 15; UDP length
  fields on both sides of 8, of the data, and beyond the packet. `WordSize` is 200, just
  larger than any sum of lengths, so that a wrapped size cannot be taken for a small one.
- `decoding`: two messages of six kinds and one payload of three; SecurityDefinitions
  (groups that differ in length, with and without text), an unknown message with
  a group, SecurityStatus and the remaining structures, each alone, before and behind another
  message; every cut. Stray bytes look like a plain message, a SecurityDefinition or
  an unknown message with an empty block; group counts 0, 1, 2.
- `rendering`: one message of every kind with every combination of the values its
  own rendering distinguishes (all sets of four flags, two of them without a name; all counts
  up to 2 of five groups, none or one of them with a text that runs on; every choice of
six text fields that fill their arrays; unchecked bytes that fit and that do not), and packets
  of 0, 2 and 3 messages of six kinds. Messages are rendered one by one, so that three
  (first, middle, last) are all there is to the list.
- `arguments`: every command line of up to five arguments out of both spellings of
  one flag, the other flag, two names and the empty one: runs of flags of every
  parity, repeated flags, flags without a value. `ArgumentsProofs` has no bound.

The input of `PCAPParser` has no bound of the model's own: a finite file bounds
every behaviour. The packet counter `i` stops with it.

### Fairness

`Termination` is checked under weak fairness of `Next`: one thread runs the program and
no call waits for another. In `changing_file` the fairness is that of `Run`, the steps
of the program; the processes that shorten the file owe nothing. A system call that
never returns is not modelled. `payload`, `rendering` and `arguments` state safety
only. Deadlock is checked in every run; a finished program stutters (`Halted`,
`Returned`, `Running` and their like).

## Proofs

Every invariant, action property and refinement the passing runs check is a theorem, for
every value of the constants the named assumptions allow. Eight modules hold proofs.

| Module | Theorems | Inductive invariant |
|---|---|---|
| `PCAPParserProofs` | `ChunksPartition`; `TypeCorrect`, `WindowIsFileAlways`, `WindowInBoundsAlways`, `RefusedOnlyIfTruncatedAlways`, `TooSmallOnlyForHugePacketsAlways`, `Refinement` (`StreamSpec`), `RunsDownAlways` | `MapperInv`; `InputInv` |
| `OutputProofs` | `OutputIsPrefixAlways`, `NothingLostOnExitAlways`, `LogRefinement` (`LogSpec`), `PendingIsBoundedAlways`, `OutputOpenedAfterInputAlways`, `UsesMapper`, `ChunksPartitionPrefixAlways`, `MappingsAlignedAlways` | `OutputInv` |
| `ChangingFileProofs` | `ChangingTypeCorrect`, `FaultOnlyIfShrunkAlways`, `SameFileNeverSucceedsAlways`, `SameFileWritesNothingAlways`, `FabricatedInLastPageAlways`, `ChangingRunsDownAlways` | `ChangingInv`, `SameFileInv`, `FrontierInv` |
| `PayloadProofs` | `TypeCorrect`, `UdpPayloadLocated`, `SpanInPacket`, `TcpPayloadNotDecoded`, `Implementation` | `IInv` |
| `SIMBADecoderProofs` | `TypeCorrect`, `OnlyLastMessageIncompleteAlways`, `DecodesWhatWasSentAlways`, `ReportsLastHeaderAlways`, `RunsDownAlways` | `DecoderInv` |
| `RenderingProofs` | `TypeCorrect`, `JsonExactlyUnlessAlways`, `FlagsAreListedAlways` | `RenderInv` |
| `ArgumentsProofs` | `ArgumentsTypeCorrect`, `NamesAreTheArgumentsAlways`, `StartsWithBothNamesAlways` | `ArgumentsInv` |
| `Recursion` | lemmas about recursive functions | |

The assumptions are those of the modules: positive sizes, sets of naturals. Five have
content. `GlobalHeaderSize <= ChunkSize` (24 bytes against 128 MiB): without it the global
header of a long file could straddle the first chunk, and the parser would take it for a
packet header. `ChunkSize % PageSize = 0`: the size of a chunk is a power of two. `WordSize > MaxLength + 80`: a `size_t` is wider than the length field of UDP.
`WiresAssumption`: the messages of a payload are laid out as the schema of the exchange
has them (`LaidOut`: the blocks, the entries of the groups, counts of one byte); how many
they are, what unknown ones look like, where the payload is cut, and what bytes that are no
header look like is open. And `PacketsAssumption`: the packets rendered are made of
messages, and a `SecurityDefinition` has five groups, as it does in the code.
`BitsAssumption` numbers the bits of a flag set from 0, as the loop over them does; how
many there are is open.

**The input side.** None of the properties is inductive. `InputInv` adds

- `Control`: what the next call relies on, by `pc`; in particular, when
  `readPacketData` is about to find the window too small for a packet of at most a
  chunk, the mapper has reached the end of the file, because the refill just made
  brought either a whole chunk or the file's last one;
- `WindowPlace`: a window in the first chunk ends where the mapper's offset is,
  and that chunk is mapped; one in the buffer ends within the buffer;
- `WindowContents`: what the cells of the buffer hold. It excepts the state after
  "buffer too small", where a chunk was fetched and dropped.

`TooSmallOnlyForHugePackets` follows from the leftover being shorter than the packet that
wants more input: leftover + chunk > 1.2 chunks needs a packet of more than 0.2
chunks. There is a lemma per action that moves the window (`FetchFirstChunkStep`,
`ParseGlobalHeaderStep`, ...), two for the halves of `readMoreInput`
(`LeftoverOnlyStep`, `RefilledStep`), and one for all other actions. `Refinement` shows
each action to be a step of `PcapStream` or a stutter under `Position`, `Phase` and
`packetData`.

**The mapper.** Chunks partition the file because each begins where the last ended, and are
aligned because only the last may be short: `OffsetAligned` says the next chunk starts
at a multiple of the chunk size unless the file is exhausted. `UsesMapper` shows every
step of `PCAPParser` to be a call of the mapper or to leave it alone, which carries
the result over.

**The output side.** `OutputInv` says where the rendered output is: as long as writes
work, the file followed by `jsonBuffer` is everything rendered, so that neither
a flush (which empties the buffer) nor the destructor (which does not) can lose or
repeat anything; after a failure the file holds a prefix and never gets longer.
`LogRefinement` maps each action to a step of `OutputLog`. `PendingIsBounded` needs a
count: the separators in `jsonBuffer` are at most the packets since the last
multiple of `FlushEvery`, plus the one being flushed (`Batched`).

**The changing file.** A parser that has not died keeps `InputInv`, because nothing it
does depends on the file's present size; what it reads through a mapping lies before the size taken first
(`WindowReadInFile`, `ChunkReadInFile`), so that a fault needs a shorter file.
`SameFileInv` follows a run over its own input from the truncation on: nothing is
consumed any more, because each header lies in a page that is gone. For
`FabricatedInLastPage`, `Frontier` is the number of bytes ever read through a mapping; every
step reads up to its new frontier or nothing (`ReadsUpToFrontier`), the page of the
last byte read was still there, and what was fabricated before lies beyond the
end of the file as it was then, since it never grows: so no later read can
reach a later page. The position is never beyond the frontier, and a dropped chunk,
which advances the mapper but is not read, is treated by itself (`DroppedChunk`).

**The payload.** `Located` says by which formula each branch has placed the span; the
theorems are the arithmetic of those formulas. `Implementation` needs `Reached`: how long a
packet is when a header has been passed.

**The arguments.** The loop looks at a flag only after an even number of flags in a row,
since every other one was taken for a value; that is the part of `ArgumentsInv` that
makes it inductive. `NextRun` and `NextValue` say what one more argument adds to
the loop-free definitions.

**The decoder.** `DecoderInv` has three parts. `Typed` is the type invariant, with the
number of groups parsed by `pc`. `Completeness` is about decoding by itself: a message that
is not intact leaves the offset at or behind the end of the payload, so that the loop
ends. For a `SecurityDefinition` this is arithmetic: a field that does not fit is
passed over and the next may fit again, but what was left then is less than 25 bytes, the
longest field, and the five group sizes and two strings behind it advance by more (the
last conjunct). `Framing` relates the decoder to the sender: after k messages it
is `InStep(k)` (the offset is where the sender put the next thing, and the
intact messages are the first k), `Cut(k)` (the payload ends within message k + 1, nothing
intact follows) or `Lost(k)` (message k + 1 is not one the structures of the code
describe: the first k are still a prefix, and nothing else is known). A step that reads
a header the sender wrote stays in step because `Boundary` grows strictly
(`HeadersAtBoundary`, `CountsAtGroup`: what is read at a boundary is what was put
there, and nothing else begins there); there is one lemma for each action in each of the
three states, and `FramingDecodes` and `FramingReports` read the two properties off them.

**The rendering.** The properties speak of an automaton run over a whole text, so the
proof is about texts. `Reads(s, tokens, t)` says that tokens lead from state s to
t; it is a function of both (`ReadsSome`, `ReadsOne`), composes (`ReadsConcat`), and
`Parsed` computes it (`ParsedReads`). A text is `Judged` to be a value (wherever one may
stand, it is read as exactly one) or to spoil whatever it is put into (an error,
which nothing mends). Lists and objects inherit this from their parts whatever their length
(`SeparatedJudged`, `ListJudged`, `ObjectJudged`): they are values if all parts are, and
spoiled if one is. Every rendering operator is judged in turn up to `RenderedJudged`: a message
is a value exactly if `NotJson` does not hold of it. `RenderInv` then follows the automaton
through the packet: which brackets are open, what is expected next and how many
values are complete behind message i, or an error if one of the messages was `NotJson`.
`FlagListLists` is the loop over the bits against the number of bits it names.

**Recursion.** The prover has no induction over data that takes a predicate. Where a
definition is a recursive function (`Total`, `Kept`, `Parsed`, the flag loop, the
folds of the community modules) the proofs use `Recursion`: a set that contains 0 and is closed
under successor contains `Nat` (`SetInduction`, from the well-foundedness of `<` in the
library), and an equation over `0 .. N` whose step keeps a type has
a solution (`Iteration`), so that the `CHOOSE` behind the recursive definition is one.

**The end.** `RunsDown` is the safety half of `Termination`: `StepsLeft` is a natural number
that each step lowers, so that no behaviour has infinitely many steps that change
anything. Of the parser it counts the bytes not consumed, six calls for each, and the calls left
in this round of the loop. A round costs the 16 bytes of a packet header even when the
packet is empty; `readMoreInput` only moves bytes from the file to the window; an
exception leaves the loop. Of the decoder it counts eight calls for each byte of the
payload not passed: a round passes 8 bytes at least, and no call goes back, though `offset`
may pass the end by far. Dying of the file lowers the parser's bound as well, and shortening
the file leaves it alone, because the program goes by the size it took first.

Only model-checked: `Termination`, in three runs: that a program which has not ended
takes its next step is fairness, which is beyond the prover, as is `ENABLED`. And the five statements of the repository that do not hold.

## Not modelled

- A file that grows while it is read: nothing in the program looks beyond the size taken
  first. What other processes write into it without shortening it: contents are
  arbitrary anyway.
- With `-o` naming the input, what the program reads of its own output: nothing, as
  `SameFileWritesNothing` shows.
- The order of `stat`, `open` and `mmap` against a file that is replaced by another between them.
- The wording and the values of the texts (names of enumerators, digits of numbers, time
  stamps), and the progress line on stdout.
- What a read outside the packet or beside the mapped memory does: it either yields some
  output or ends the process (`Crash`).
- The magic number of the capture, which the program does not look at.
- Running out of memory other than for the parser's buffer.
- The structures of `SIMBA_Schema.hpp` that `decode()` has no case for, and dead code:
  `PCAP_JSON.hpp`, `parseIPv4Header`, `MemoryMappedChunk`, the operators of `SIMBA_JSON.hpp`
  nothing reaches.
- The Windows branch of `IOMapper`, whose control flow is the same.

## Plan

Done: the input and output sides of the parser with both abstract specifications, the
mapper, the changing file, the payload, the decoder, the rendering and the arguments;
proofs for all of them.

Left: the decoder and the rendering composed, so that the counts and vector lengths
`Rendering` takes are the ones a decoded payload has.

# Reticulum vectors in TLA+

The repository is a corpus of test vectors for the Reticulum wire format and the
programs around it: `tools/gen` makes the vectors by driving the reference
implementation, `cmd/dump` decodes a vector and rebuilds it, and `cmd/check` holds any
decoder to the corpus. "prints the expect file ... byte for byte, and that is the
whole contract" (README:45). These modules say what that contract rests on: that the
two programs which describe the same bytes, written in two languages, describe them
alike; that what they print gives the bytes back exactly when the corpus says so; and
that an exit status of `gen` or `check` means what is read out of it.

Nothing here is a server. The behaviours that are hard to test are other ones: a
cursor that is copied and reused after a refused read, input that ends anywhere,
lengths at both sides of a limit, a rule that breaks after half of the fields were
printed, names replaced for the length of a block that an exception leaves, runs that
die between two files, two programs over one tree, decoders that hang, signals.

## The system

    reference --> tools/gen --describe--> expect --+
                      |                            |
                      +--raw--> cmd/dump --prints--+-- cmd/check --> 0, 1, 2
                                   ^               |
                                   +-- dump -e <---+

| Part | State it keeps | Operations | What makes it correct |
|------|----------------|------------|-----------------------|
| plaintext reader (`cmd/dump.c`, `struct mp`) | a cursor (place, bytes left, bad), `value[11]`, `twice`, the stack of calls | `mp_head`, `mp_take`, `mp_skip_head`, `mp_key`, `mp_uint`, `mp_bin`, `mp_array`, `print_resource` | never past the end; ends; prints what `gen` describes |
| packet decoders (`dump_*`) | a parsed header, the first fault | one function for each of sixteen kinds | the fields, the order and the rejections of `gen` |
| encoders (`dump -e`) | the fields of `expect` | `readexpect`, `lookup`, `encode_layout`, `encode_linkdata`, `encode_ifac` | raw comes back for the `encode` class and for no other |
| access codes (`dump_ifac`, `encode_ifac`) | the frame, the code, the mask | unmask, verify, mask | round trip of every frame, whole or damaged |
| generator, descriptions (`describe_*`) | none | one function for each kind, `determinism` | as the decoders |
| generator, msgpack | the bytes and an offset | `msgpack_read`, `msgpack_one`, `msgpack_elements` | as the reader |
| generator, `Writer` and `main` | the tree, counts, `differs` | `file`, `vector`, `index`, the exit status | a clean exit is evidence; nothing is lost without `--force` |
| generator, scenarios (`gen_*`) | the reference's own objects | one function for each kind | determinism from run to run |
| generator, pinned randomness | clock, six sources of randomness | `pinned`, `DetRandom`, `captured`, `inline_threads` | put back whatever happens |
| `cmd/check` | `pass`, `fail`, `skip`, the vector it is at | set-up, the loop, `run` with a limit, the trap | 0 only if every vector holds |
| primitives | none | SHA-256, HMAC, AES, PKCS7, HKDF, X25519, Ed25519 | the standards |
| harnesses (`conformance/`) | the lines made so far | seven programs around other projects' libraries | a field in its place for every field, and none invented |

The parts meet in files only. `gen` writes `raw`, `expect` and `meta`; `dump` reads one
of the first two and prints; `check` runs `dump` and compares. So a composition is a
chain of functions with files between, and interleaving exists in three places: a run
that dies and the next one (`Writer`), a signal at the decoder or at a diff (`Check`),
and `check` and `gen` over one tree, which nothing locks (`Repository`).

## The modules

| Module | Models | Composed of |
|--------|--------|-------------|
| `MsgPack` | the `mp_` reads, each a function from a cursor to a cursor | |
| `Plaintext` | the end of `dump_linkdata` and all of `print_resource`, step by step | `MsgPack` |
| `Umsgpack` | `msgpack_read` and the descriptions made of it: the reference definition | |
| `Readers` | the two over the same bytes, and where they agree | `Plaintext`, `Umsgpack` |
| `MCPlaintext`, `MCPlaintextTexts`, `MCPlaintextSaid` | the plaintexts TLC reads; what the comments say | `Readers` |
| `Sizes`, `Octets`, `Packet` | lengths; bytes told by where they come from; headers, faults, tokens, announces, link ids, padding | |
| `Dump`, `Describe`, `Encode` | the `dump_` functions; the `describe_` functions; `dump -e` | `Packet` |
| `Corpus` | one vector: `gen` describes, `dump` prints, `dump -e` rebuilds | all three |
| `Harness` | the harness of `conformance/microReticulum`, a third reader of the same vectors | `Corpus` |
| `Ifac` | a frame with an access code, sent, damaged, read and rebuilt, bit by bit | |
| `Hashes`, `Cipher`, `Primitives` | SHA-256, HMAC, HKDF; AES in CBC mode, padding, `token_open`; what they are asked | |
| `Verdict` | what a run of `check` promises: the abstract specification | |
| `Check` | `cmd/check` against any decoder | refines `Verdict` |
| `Writer` | a run of `tools/gen` over any tree, dying anywhere | |
| `Repository` | `check` read by read, beside runs of `gen` | `Writer` |
| `Bindings` | what a block that replaces names promises: the abstract specification | |
| `Pinned` | `pinned`, `captured`, `inline_threads` and the three blocks like them, and `DetRandom` | refines `Bindings` |
| `PlaintextProofs`, `IfacProofs`, `CheckProofs`, `WriterProofs`, `RepositoryProofs`, `PinnedProofs`, `CorpusProofs`, `RoundTripProofs` | the theorems | |

### Plaintext

`text` is the opened plaintext and `m` the cursor, a record `[p, left, bad]` as `struct
mp` is. The walk of an advertisement is one action for each thing the loop does:
`OpenMap`, `NamedKey` (`mp_key` finds one of the names and remembers `value[k]`),
`ForeignKey`, `SkipValue`, `SkipElement`, `SkipReturn` and `SkipEnd` (`mp_skip_head`,
whose recursion is `stack`: one entry for each container being stepped over, holding
the iterations left), and `PrintMap`. The other contexts read straight through and are
one action each. What is printed is `out`; a rejection is `verdict`.

`Umsgpack` reads the same bytes the way Python does, as a value: its kind, its bytes, its
elements, and `met`, the marks of what was met while it was read, at any depth (it was cut, a
map in it names a key twice, a byte in it has no type). Its recursion is the function
`Reading`, from a place and a number of values to what they are and where they end. Where
an exception would fly, a mark is set, and the properties say which marks they speak of.

`Readers` lays the two beside one another. `AdvertisementAgrees` leaves out what cannot be an
input of `gen` (`Raising`, which raises there) and what no packer writes into a packet
(`AsPacked`: a length in four bytes over a body that is there, a length of its own before one
letter; `TypedAsNamed`: a name's value of a type that only `gen` prints), and the place where
the two really differ (`ForeignNamedTwice`), which has a run of its own. `BodyAgrees` is about
every other context, and leaves out arrays that announce another number of elements, which
have a run of their own too.

### Corpus

A byte is not a number here but a place: byte 5 of line 2, the hash of these bytes, a
literal. Two fields are equal when they are made of the same bytes in the same order,
so a slice that is off by one, or taken from the other packet, differs. The three bytes
that are branched on (flags, hops, context) do have values. Cryptography is what `sees`
in a vector says: keys agree or not, the MAC holds or not, the last byte of the
plaintext is so much. `Generate`, `Decode` and `Rebuild` are the three steps, and
`class` is what `gen` writes into `meta`. `Fits` names the two limits of the encoder's arrays that the
class does not ask about.

### Harness

One harness of the seven, in the same bytes by place, so that what it prints can be laid
beside `expect` line by line. It transcribes more than the decoder does: it cuts a token
itself, derives how long a header must be, and knows for each context whether its library
has a reader. Modelled are `destination` and the six kinds with a packet; `identity`,
`keyset`, `signature` and `sign` are prints in a row. The library is external, and where
`CONFORMANCE` found it to differ from the reference (findings 3, 6, 16, 37, 38) it differs
here. `Answer` is its one step, the whole of `main`, after the vector is written and rebuilt. Its harness has
no vector with a refused padding on a link: there `tok.decrypt` throws, if the library does what finding 38 quotes, and `main` drops every line
(`dump.cpp:687`), against rule 6 of `doc/harness`. That rests on code that is not here, so
it is an observation and not a finding, and `FieldsInPlace` leaves the case out.

### Primitives

A byte is the set of its bits, and one thing at a time is put to one function. The
functions are those of `cmd/`: `sha256` with the one or two blocks behind the message,
`hmac_sha256`, `hkdf_sha256`, `expand_key` and `decrypt_block` over the tables of `aes.c`,
`pkcs7_unpad`, `token_open`. The other side is not this code: the padding of FIPS 180-4 in
bits; the cipher and the key expansion of FIPS 197 from its polynomials (`Rounded`,
`Schedule`), under which a sender puts any block; and what files of the corpus hold. Shared by
both sides are the compression function of SHA-256 and `hmac_sha256`, which `CorpusAnswers`
holds to the corpus, and the exclusive or of a round key.

### Ifac

A byte is the set of its bits that are one and an array a function from 0, so `^` is
the symmetric difference. `Init` holds the frame as the reference sends it (`Transmitted`);
`Alter` and `Cut` are what may happen to it on the way, once; `Read` and `HoldsNoPacket`
are `dump_ifac`, and `Rebuild` is `encode_ifac`. `Mask` and `Signature` are constants that are only assumed to answer with
as many bytes as they are asked for.

### Check

One action for each command of the loop whose outcome matters: `ReadMeta`, `Decode`,
`Compare` (the format check and the diff with `expect`), `Rebuild`, `CompareRaw`. The
decoder answers anything, so what it says is chosen in the step it says it. `Hang` is a
decoder nobody stops: there is no `timeout`, or it ignores being told to end. A signal
ends the running command and not `check`, whose trap does not exit; only the three diffs
(with INDEX in `Start`, with `expect`, with `raw`) and the decoder are hit, the commands that
decide a verdict. `INTERRUPTS` bounds how many.

`Verdict` leaves all of this out: vectors are judged in their order, a judgement stands,
and the status is what they come to. `KeepsPromise` is that `Check` implements it, the
judgement of a vector being what README asks of the decoder's answers and not what the
loop did with them. So a step that passes a vector for the wrong reason, counts one twice
or lets a later answer reach an earlier vector is no step of `Verdict`.

### Writer

`disk` says what each path holds, told against what `gen` composes for it: `absent`,
`wanted`, `wanted with returns` (the same lines, ended by CR LF), `torn` (opened and not
written) or `other`. A run goes through the three files of each vector and then `INDEX`;
`Identical`, `LeaveAlone`, `Open` and `Write` are the branches of `Writer.file`, `Die` may
come between any two, and `Finish` is the exit status of `main`. `before` is history: what
a path held when the run began.

### Repository

`Writer`, instantiated as it is, and beside it `check` told in its reads: `find`, INDEX,
the glob of the loop, each file where a turn needs it (`ReadMeta`, `Decode`, `Compare`,
`Rebuild`, `CompareRaw`), and for the corpus number INDEX twice, as bytes and as the list to
go through, with every raw and expect in it (`SumIndex`, `SumList`, `SumRaw`, `SumExpect`). Between any two of these a run of `gen` may
start, file, die or end. A file has a version, that of `gen` or an older one, so a vector
whose three files are of two versions is told from one that is whole. `measured` and
`numbered` are history: which path was read and what it held. Without `--force` (the
constant `Forced`) the number is that of what was measured, although nothing in either
program sees to it: `gen` changes no file that is there, `check` passes no vector with a
torn one, and INDEX comes last. With `--force` a file may change between the two reads, and
neither property holds.

### Pinned

`current` is what each of twelve names holds, the number of a block or the real thing,
and `stack` the open blocks with what each found. `Open` replaces, `Close` is a `finally`,
and `Raise` an exception, which closes all blocks on its way. `Try` is there for one of
them: the watchdog's is replaced ahead of its `try` (`tools/gen:2675`), with `link_session`
between the two, so an exception there leaves it replaced (`Abandon`), which is harmless
since the run is over. `Draw` takes from the generator of the block whose replacement
stands there; a byte is its place in the stream. `Encloses` says which block may open in
which, as the scenarios do. No two of the blocks they put in one another replace the same name,
so the run shows what is put back and in which order; that an inner block hides an outer one of
the same name is shown by the theorem `BlocksAreScopes`, which holds for any table. The watchdog
is the one name `EverythingBack` lets stay replaced, and only while the exception is on its way:
a scenario that caught it would break both properties.

## The runs

| Run | Asks | Instance |
|-----|------|----------|
| `plaintext` | does the walk stay inside, end, keep a refusal; does every context print and reject what `gen`'s dictionary and lists say | as an advertisement: every text of up to 6 bytes over 6 head bytes, and over 7 others with two-byte counts; every packed map of up to 3 pairs, cut at every byte; the 11 real keys. 8 other contexts: packed arrays of 2 and 3, cut at every byte, and texts of up to 5 bytes over 5 head bytes |
| `corpus` | do `gen` and `dump` describe every vector alike, is the class the round trip, has a link one id; does the harness print each field in its place, reject alike, and cut a token once | the real lengths; every payload at both sides of each limit, both header types, all destination types, names of up to 36 components |
| `ifac` | is every frame rebuilt, and is damage seen where it was done | packets of 3 and 4 bytes, codes of 1 and 2 bytes, each single bit altered, each cut |
| `primitives` | are messages padded as published, do the corpus's digests, keys and tokens come out, is what was sealed opened and what was damaged not | every message of 0 to 66 and 116 to 131 bytes; three derivations and four tokens of the corpus; tokens of both key lengths over 11 bodies with paddings 0 to 255, three ragged ends, six kinds of damage |
| `check` | what do 0, 1 and 2 say, does a run end, is it a run of `Verdict` | up to 2 vectors of any `meta`, any decoder |
| `writer` | is nothing replaced, is a clean exit evidence, does `INDEX` come last | any tree of 2 vectors and `INDEX` (5^7 trees), any number of runs, dying anywhere |
| `repository` | is the corpus number of what was measured, is `make verify` evidence, with `gen` running beside | 2 vectors of both classes, each in 8 conditions, 4 of INDEX, any number of runs of `gen` without `--force` |
| `pinned` | does a call find what the innermost block put there, is all put back, is a stream unbroken | 7 blocks, which is one transfer of two captures; 80 bytes drawn by each |

Four more runs are expected to fail, one for each finding below.

Why the bounds are enough. A plaintext of six bytes holds a map in a map with a key, a
length and a body cut short, which is every pair of a caller and a callee in
`mp_skip_head`; counts of 65535 over no bytes need three. The two byte sets are apart
because their union is too large, and the packed texts put them together; all of it is
683653 states. In `corpus`
nothing is scaled down: the lengths are those of the format, and the operators only
compare them, so the values at both sides of each comparison are all there are. An
access code of two bytes has a first and a last one and bytes before and behind it.
In `check` the turns of the loop share nothing but three counters that are compared with
0, so two vectors show every pair of outcomes. In `writer` each file is dealt with alone
and only `INDEX` is special, so one vector would do; with two the run can die inside
either. In `repository` a vector of each class is one turn of the loop with and one
without the round trip, and `gen` is at most one file ahead of or behind either. In
`primitives` the lengths are those at which a padding takes one block more, and 116 to 131
are the same places one block on; the cipher is compared on every byte of the tables a
dozen blocks reach, and no further, since a wrong entry elsewhere would need its own
vector. In `pinned` 80 bytes are two hashes and a half in pieces of 16 and 32, so a piece
stands across the end of a hash. `Plaintext` and its agreement with
`Umsgpack`, `Ifac`, `Check`, `Writer`, `Repository`, `Pinned`, `Corpus` and `Harness` are
besides proved for any size.

The keys of `plaintext` are shorter than the real ones (`HASHLEN` 2 and so
on), because they are only compared with lengths; `corpus` has the real ones.

### Fairness

`Plaintext` is sequential code without a loop that waits, so a step that can be taken is
taken: weak fairness of the walk and of the straight read. `Ends` then says the loops end.
`Check` has weak fairness of its next step: it is one loop over a list that does not
grow, and each command in it ends by itself but the decoder, for which `Hang` is a state
nothing leaves. So its `Ends` is claimed only where `timeout` is installed and the
decoder ends when it is told to. The others claim nothing that must happen and assume no
fairness: a run of `gen` may die anywhere, and the rest are functions of their input.

Deadlock is checked where a state without a successor would be a fault: the plaintext runs
(which stutter explicitly when done), `writer` and `repository` (where `gen` may always
run again). `corpus`, `ifac`, `primitives`, `check` and `pinned` stop when their one run
is over.

## The proofs

All of them hold for every value of the constants that meets the assumptions named in
the modules, and TLC evaluates those assumptions in the runs.

**`PlaintextProofs`** (texts of any bytes and any length). `WalkInv` is `TypeOK` and: the
cursor and what is left of the text add up to its length; there are no more calls on
the stack than bytes read; the stack is empty outside the skipping; and each remembered
value stands right behind the name of its key, at or before the cursor. `TypeOK` alone is
not inductive: that `Take` stays inside needs `left` to be what is really left, and that
`value[k]` stays behind its name needs that later steps move only the cursor. From it:
`TypeCorrect`, `NeverPastTheEnd`, `DepthBounded`, `ValueOfItsKey`, and the action property
`RefusedStaysRefused`. Each `mp_` read has a lemma of its own (it moves the cursor onward,
inside, and keeps a refusal).

`AdvertisementsReadAlike` and `BodiesReadAlike` are that the two programs print alike, for any
bytes under the hypotheses of `Readers`; no bound on depth, counts or lengths is left. The
difficulty is that one recurs and the other walks. `ReadingIs` gives the recursion a value at every place,
from the end of the bytes to their start, and `ReadingSplit` is the one fact about it the rest
uses: n values are the first and, where it ends, n - 1 others. `StepsAlike` is that
`mp_skip_head` without its loop goes from the head of a value to where the value ends, or of a
container to where its elements begin, or both readers run out. The invariant of the walk
then says where the walk is as the reading has it: `Chain` goes from the innermost open
container outwards, and reading what is owed of one ends where the next goes on; `Owing`
adds what those readings met, and `Placed` is both for the cursor and `stack` as they are. `Recalls` is
what the walk remembers: of the keys it has passed, `value[k]` is in front of the value behind
the one place that names k, `twice` that there is more than one. `Way` joins the
two, and `AdvInv` adds `Fresh`, that the walk starts at the first byte. Neither half is inductive
alone: a cursor that stands at the right place proves nothing about a map whose end was cut, so
each says what holds if the map is whole and what if it is not. `PrintMap` then needs that with
nothing owed the list is complete (`PlacedLast`), so a cut at any depth voids all
fields in both, and `NumbersAlike` and `BytesAlike` for what one field prints. In the other
contexts `Ahead` is the same idea without a stack: the cursor is in front of the elements not
yet read, or was refused and they are not there. A hashmap update is read behind its hash
by one program and cut out by the other, and `FurtherNumber` and its neighbours say that is the
same.

**`IfacProofs`** (any packets, sizes, mask and signature). Two lemmas about the functions
carry everything: masking twice with the same code is the identity, and the code is
found where it was put. `EncodeUndoesDump` needs that the frame has its flag, since the
mask may clear it and `encode_ifac` puts it back; `DumpUndoesTransmit` needs that the packet
does not. The inductive `IfacInv` is where a frame came from (`Wire`) and what was made of
it (`Made`), and `RoundTrip`, `Genuine` and `AlteredAlike` follow from it.

**`WriterProofs`** (any number of vectors, any tree). `Filed` says what is true of the paths
the run has passed and of those it has not come to: behind it a path reads as composed
or is in `differs`, ahead of it a path is as it was. It needs that the run comes to every
path once (`EachPathOnce`), which is why `INDEX` last is a fact about numbering. `LeftAlone`,
`Evidence` and `IndexLast` are conjuncts of it.

**`CheckProofs`** (any corpus, any decoder, `INTERRUPTS = 0`). `Turn` says what the step of the
loop knows about the vector it is at, `Tally` what the counters say of those behind it:
no failure means each of them holds or was given up, a pass means one of them holds,
none measured means all were given up. The theorems assume that no signal comes, and
`check_interrupted` shows they have to.

`ChecksAsPromised`, under the same assumptions, is that `Check` implements `Verdict`: the initial states
map to its own; a step inside a turn is a stutter (`Turns`), one that ends a turn is
`Judge`, `Refuse` and `Finish` are `Refuse` and `Conclude`. That a judgement stands needs
that the answers behind the loop are never written again (`JudgementsStand`), that
`Conclude` has the right status needs `Tally`, and that there is one judgement for each
vector needs `Place`: the loop is never further than one behind the last.

**`RepositoryProofs`** (any number of vectors, any tree without files of other line ends,
any number of runs of `gen`, `TRUE \notin Forced`). `RepositoryInv` is `TreeInv` (the one
file a run may change is one it tore open itself), `IndexKept` and `TurnsSound` (what was
read is still there: `Sound`), `NoneMissed` (every vector INDEX lists is ahead of the loop
or judged) and `Summed` (what the number is over so far). The invariant is carried by
splitting each step in two: `gen`'s keep `Sound`, since a path that was read whole is never
opened; `check`'s add reads to it. `NumberTold` and `VerifyTold` follow. `RepositoryTyped`
is about any runs of `gen`, forced ones among them.

**`PinnedProofs`** (any table of what opens in what, any number of blocks, any draws).
`Chain`: what each open block found is what the blocks around it put there, and what a name
holds is what all of them did, but for the watchdog on the way of an exception. From it
`BlocksAreScopes`, that `Pinned` implements `Bindings`, and `NothingStaysReplaced`.
`StreamsUnbroken` is about `DetRandom`: the buffer of every generator, open or put away,
is the bytes from the last one drawn to the end of the last hash taken. That a draw keeps
it needs the hashes it takes to be enough, which is a fact about rounding up in
`(n - len + 31) \div 32`, and to go on where the buffer ended.

**`CorpusProofs`** (any `Vectors` that meet `VectorsAssumption`: lines of any length, any
payload, names of any number of components; of lengths only what the generator cannot
make otherwise is assumed, such as keys of 64 bytes and a link request of 64 or 67).
`DecodersAgree` has a lemma for each of the fifteen kinds, that `Described` and `Dumped` say
the same, and these rest on one for each thing the two take from a packet in their own
way: a header, the part that is hashed, the link id, a token, what stands behind a
plaintext. `Agree` alone is not inductive, since it says nothing of `expect` before
`Decode`: `OneVector` does, that `expect` and `out` are what the functions make of `vector`.
The end of a name's component, which one program searches for and the other is told, is
found as the least counterexample of a sequence that falls (`EndsRise`).
`OneIdForOneLink` needs what a file says under a name to survive what stands around it:
a small theory of lines and `Lookup` (`LookupBefore`, `LookupBehind`, `Says`, `Silent`).
`HarnessRejectsAlike` and `HarnessKeepsPlaces` go by one relation of two files, `Beside`:
each is refused by a rule and its numbers, or neither is and they stand in one another's
places. There is a lemma for each of the seven kinds the harness answers, and `ThreeReaders`
is inductive. `HarnessCutsOnce` adds what `Cat` makes of bytes that go on where those before
them ended (`RunsOn`), with the existence of its prefixes by a least counterexample.

**`RoundTripProofs`** (`VectorsAssumption` still, and `Fits`: no line longer than `MAXBLOB`, and
a name of no more components than `readexpect` has room for). `ClassTellsTheRoundTrip` is both
directions of `ClassIsTheRoundTrip`. `Fits` is what `dump.c` says of its arrays and not what `gen`
asks: behind it the class and the encoder part ways, as Findings says, and the equivalence is
false; `MCCorpus` has names of thirty-five aspects, the most that fit, and assumes `Fits` of all
its vectors (`VectorsFit`), which TLC evaluates. `RoundTripped` is inductive, `OneVector` and that `back` is what
the encoder makes of `expect`; with `DecodersAgree` the statement is then one about what
`dump` prints, `RoundTrip(v, f)`, and there is a lemma for each kind. Three parts carry them.
Where a packet reads to its end, each field is told apart in the file (`Gives`, from `Lookup`)
and is bytes from one place to the next, so that putting them behind one another gives the
packet again (`LaidOut`, `HeaderPut`, `PacketPut`, and `LayoutPut` for the kinds that are a table
in the code), inside the 2048 bytes of the buffer (`PacketSize`). Where it is refused before
that, some name the encoder asks for was not printed, and it gives nothing (`UnreadPacket`,
`FaultUnread`). Where it is refused behind its plaintext all of it was printed, and it comes
back (`TailRound`): these are the rules `AFTER_PLAINTEXT` has, and the class must make the same
cut.

Only model-checked: the two `Ends` (liveness), and the four invariants of `Primitives`:
`HashesAsPublished` and `CorpusAnswers` compare constants, which a run computes and a prover
would have to as well, and `OpensWhatWasSealed` and `DamageIsSeen` come down to the tables of
`aes.c` being permutations and to a MAC that differs when its input does, which is no theorem.
What a recursive definition computes for every input needs an induction over an operator, which
the provers here cannot instantiate; where the statement is about one function or sequence,
a least counterexample does instead, and `Reading` is put together place by place from
the end of the bytes, the least place that has one being the first (`FromExists`).

## Findings

Places where a comment or document says something else than the programs do; each is a
run that fails, with the quotation in `PROJECT.json`.

- `plaintext_twice`, `cmd/dump.c:1372`: a repeated key voids a map only if it is one of the
  eleven and outermost; the comment and `tools/gen` say any key.
- `plaintext_arrays`, `tools/gen:587`: an array of another length gives its first elements,
  and `dump` dashes all of them; the comment says both print the same, and names two ways for
  `dump` to refuse an array, where it has a third, the number the array announces.
- `check_interrupted`, `cmd/check:46`: the trap does not exit, and a diff that a signal ends
  has printed nothing: a vector that differs is passed.
- `writer_returns`, `tools/gen:665`: files are compared as text, so one with CR LF line
  ends is identical, and `--force` does not repair it.

Others have no run:

- `tools/gen:3252` describes a bool as the number it is to Python, and `dump` prints a dash; the
  same holds of a number in eight bytes, such as the size of a transfer of 4 GiB, or in a signed
  type, since `mp_uint` knows the unsigned ones of up to four bytes (`cmd/dump.c:1255`).
- `mp_skip_head` has no rule for a length in four bytes and `mp_key` none for one letter behind
  `\xd9`, where `tools/gen:469` has both. Umsgpack writes neither into a packet.
- `$( )` takes newlines off the end (`cmd/check:114`), so a decoder that prints more of them
  or none passes what README:45 calls byte for byte.
- The purpose at `tools/gen:3654` says the three keys before a cut read, where a cut map is
  nothing (`cmd/dump.c:1387`).
- `dump` prints any number of aspects where `readexpect` has room for forty fields, so a name
  of more than thirty-five aspects is of the `encode` class and cannot be rebuilt; `corpus`
  goes as far as thirty-five.
- A directory that appears between `find` and the glob of the loop (`cmd/check:87`) is judged
  and counted in what passed, and is not in the corpus number, which goes by INDEX. So the
  number is over nothing that was not measured, and may be over less.
- With `gen --force` beside `check`, or an editor, a file may change between being measured and
  being summed.
- A harness that lets an exception out prints no field (`dump.cpp:687`); see Harness above.

The committed corpus passes `cmd/check`, so none of its vectors meets one of the first two.

## Not modelled

- The `gen_` scenarios: they choose inputs and drive the reference, which is not here. The
  one with a loop is `resource_transfer` (`tools/gen:2719`): whether it ends, and carries each
  part once, is decided by the reference's window and hashmap, of which this repository has
  only the calls; a model would be of guesses. That only the first of several part requests
  is answered is listed as a hazard without a property.
- `readblobs`, `unhex`, the format of a line: characters. Only their limits are in `Encode`.
- TweetNaCl, vendored unmodified: arithmetic on curves. Signatures and key agreement are
  functions of their input everywhere.
- A link request that decodes and holds fewer bytes than a key (`cmd/dump.c:1524`): `gen`
  describes it with dashes (`DescribeLinkData`), and what `dump` reads behind the payload is
  undefined, so `WellMade` leaves it out. No vector has one.
- Six of the seven harnesses, in five other languages around other libraries: to `Check` they
  are decoders. The corpus, the documents, the build.
- What `check` and `gen` print besides their verdict: counts and lists.
- Signals in `check` while it looks for directories, reads `meta` or checks the format of
  `expect`; and signals together with `gen` beside it.
- `check` beside an editor or `gen --force`: `Forced` is {FALSE} in the run and the theorems.

## Plan

Done: the reader, both descriptions of every kind, the round trip, a third reader, access
codes, primitives, `check`, `Writer`, both over one tree, the blocks of `gen`, two refinements,
the invariants of eight components proved, and that the two readers of a plaintext agree. What
is left is the other harnesses, where they branch on lengths as `Harness` does.

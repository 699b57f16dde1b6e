# Verification of mailparse

TLA+ models of the mailparse extension (`src/`): modules, TLC configurations and
TLAPS proofs. Paths and line numbers refer to the repository.

## 1. The system

mailparse is a PHP extension that parses MIME messages incrementally. Everything
runs on one thread, in calls from PHP code. What makes it hard is state that
survives between calls (a tree of parts, each with a half-read line, offsets and
flags), and that user code runs *inside* some calls: extraction writes decoded data
to user callbacks and to streams that may be implemented in PHP, and those may call
any other function of the extension on the same parts.

| # | Component | State | Operations | What must be true |
|---|---|---|---|---|
| 1 | MIME line parser and part tree (`php_mailparse_mime.c` 306-322, 380-391, 410-592, 594-806, 1007-1040) | the tree (`parent`, `children`, `lastpart`); per part the offsets `startpos endpos bodystart bodyend`, the line counts, `in_header`, `completed`, content type, boundary, version, `headerbuf`, `workbuf` | `php_mimepart_parse`, `php_mimepart_process_line`, `process_header`, `remove_from_parent`, `get_offsets` | extents of parts ordered, nested, disjoint, complete; a closed part never changes; limits hold; every line finds one part |
| 2 | Part resources and references (`php_mailparse_mime.c` 306-378; `mailparse.c` 109-117, 173-370, 1105-1211, 1650-1675) | the structure, its Zend resource and count, child tables, user references, the `extracting` flag | `mailparse_msg_create/parse/parse_file/free/get_part`, `MimeMessage` constructor, `get_child`, `get_parent`, `remove`, shutdown | freed exactly once, no dangling pointer, exact counts, nothing leaked, parts in use survive |
| 3 | Extraction (`mailparse.c` 372-450, 1255-1446; `php_mailparse_mime.c` 940-1005) | `extract_func`, `extract_filter`, `workbuf` shared with the parser | `extract_part`, `decoder_prepare/feed/finish` | output is the decoded stretch of the source, whatever the chunks |
| 4 | Transfer decoding and encoding (`mailparse_encoding.c`) | per filter `status` and `cache` | base64 and quoted-printable, per byte and per block | blocks equal bytes; decode after encode restores the data; line lengths |
| 5 | Choice of encoding, stream encoding (`mailparse.c` 941-1100) | scan counters, the filter | `determine_best_xfer_encoding`, `stream_encode` | the encoding chosen can carry the data |
| 6 | RFC 822 tokenizer and address parser (`php_mailparse_rfc822.re`) | token array filled in two passes | tokenize, recombine, parse addresses | both passes count the same tokens and addresses; every address stays inside the tokens |
| 7 | Header attributes and RFC 2231 (`php_mailparse_mime.c` 50-304) | value being assembled over numbered segments | `php_mimeheader_alloc_from_tok`, `rfc2231_to_mime` | segments joined in order, encoded once |
| 8 | Section names (`php_mailparse_mime.c` 808-938, `mailparse.c` 1214-1251) | enumerator chain on the stack | `enum_parts`, `find_by_name`, `get_structure` | every listed name finds its part, names are unique and stay with their parts |
| 9 | uuencode (`mailparse.c` 462-688, 714-900) | stream position | `extract_uue`, `enum_uue`, `uudecode_all` | reported stretches are the encoded ones |
| 10 | Header table and part data (`php_mailparse_mime.c` 446-477, `mailparse.c` 1472-1648) | `headerhash` | `process_header`, `mailparse_msg_get_part_data` | every header kept, in order; no key hides another header |

**Interactions.** 1 asks 2 for every new part and the child table of the parent owns
it. 2 owns the lifetime of everything 1 and 3 point to. 3 reads the offsets of 1,
uses the `workbuf` of 1 as its output buffer, drives 4 and calls user code, which may
re-enter 1, 2 and 3. 1 uses 6 and 7 for headers; 8 walks the tree of 1 and is how 2
finds parts.

**Hard behaviours.** Lines at any nesting level that close or reopen an outer level;
chunks that end inside a line; failures halfway through a line; user code inside an
extraction; freeing in any order, including the reverse-order shutdown; removal of a
part the parser would continue with. `PROJECT.json` lists each with its line.

## 2. Modules

| Module | Models |
|---|---|
| `PartLinks` | part numbers and the chains (`Closure`) and trees (`Tree`) their pointers form |
| `MimeParse` | component 1 |
| `MessageTree` | what component 1 promises: a growing nest of extents |
| `MimeParseTree` | the refinement mapping from `MimeParse` to `MessageTree` |
| `Sections` | component 8, as operators on the trees of `MimeParse` |
| `MCMimeParse` | the input alphabets TLC uses for the three modules above |
| `PartLifetime` | component 2 |
| `Codec` | component 4, as operators on filters |
| `StreamEncode`, `MCStreamEncode` | component 5, and the sources TLC uses for it |
| `Extraction`, `MCExtraction` | component 3, and the messages TLC uses for it |
| `Rfc822` | the tokenizer of component 6 and its inverse, as operators on headers |
| `Addresses`, `MCAddresses` | the address parser of component 6, and the headers TLC uses for it |
| `Attributes` | component 7 |
| `PartData`, `MCAttributes` | component 10 on top of `Attributes`, and the headers TLC uses for both |
| `Uuencode`, `MCUuencode` | component 9, and the bodies TLC uses for it |
| `DataProofs` | facts about the data: induction stated for sets and functions; sequences, sums and folds; what the decoders of `Codec` give for a text however it is cut; what `Recombine` keeps |
| `MimeParseProofs` | chains and trees; types and tree, limits, MIME messages only, extents, bytes and lines of `MimeParse`; it implements `MessageTree`, closed parts stay closed; section names find their parts and stay with them |
| `PartLifetimeProofs` | every part is freed once; the safety of references |
| `ExtractionProofs` | `Extraction` delivers what it should |
| `StreamEncodeProofs` | types of `StreamEncode`, lines of the output, decoding restores the source, separators are escaped |
| `AddressesProofs` | where the tokens of a header lie; types of `Addresses`, turns, slots and words; recombined text is scanned as the same tokens |
| `AttributesProofs` | the properties of `Attributes` and of `PartData` |
| `UuencodeProofs` | the properties of `Uuencode` |

### MimeParse

One step is one line (or the incomplete end of a chunk) given to
`php_mimepart_parse` on one of the `Handles`. `WorksOn` is the walk of
`php_mimepart_process_line` down the chain of last children; the actions are its ways
out, in its order: too complex, after a final boundary, final boundary, next part,
body line, ignored line, header line, and the three ends of the headers (simple part,
composite part, composite part that is too deep). `Advance` is
`php_mimepart_update_positions`; the offsets of a part allocated in the same call are
among its arguments, since one primed variable is assigned once.

A line is a record: its length and terminator, what follows a leading `--`
(`delim`), whether it is blank, a field, a continuation or text, and the one header
that steers the parser (content type with boundary, or MIME version). `Opens[b]` and
`Closes[b]` say which delimiters start or end a multipart with boundary `b`; the code
compares prefixes, so a boundary that is a prefix of another one opens on the other's
lines, which `MCMimeParse` reproduces. Charset, transfer encoding and disposition do
not steer the parser and are left to other components. Variables are functions over
all part numbers up to `MaxAlloc`; a part beyond `nparts` has its initial values.

A chunk that ends inside a line is `BufferFragment`: its bytes are appended to what
`workbuf` holds, any number of times. `Incoming` says which line may come in next, the
rest of one that has begun to or any other, and `Missing` how much of it. After a
`FAILURE` the line stays in `workbuf`, and `Glue` is what the next line becomes. `fed`
and `fedLines` are history.

### MessageTree and MimeParseTree

`MessageTree` knows nothing of boundaries and headers. The parts on one path down from
the root are open and all of them reach to the end of what has been read; every other
part is closed for good. Text makes the path shorter (`Read`, `Settle`) or longer by
one part that begins where the text ends (`Branch`). `MimeParseTree` maps the offsets
of the code to the extents, the parts out of their headers to `settled`, and the walk
from the root to the open path. Two things are said here once that no single offset
shows: the pieces of the tree agree on the position in the input, and nothing that was
left behind by an outer boundary moves or opens again.

### Sections

A name is the sequence of its numbers, not their digits. `Id` is the counter of
`enum_parts_recurse`, which starts at 0 under a multipart and leaves what has the
number 0 out. `Listed` is what the enumeration reaches and `Name` what
`get_structure_callback` prints. The lookup has operators of its own: `Matches` is
`find_part_callback`, which compares a name from user code with the chain, number by
number, and `FindByName` what it finds.

### PartLifetime

`mem` is the structure, `res` the resource, `refs` its count. References come from
user code (`held`, which stands for variables and `MimeMessage` objects alike), the
child table of a parent (`children`) and the arguments of running extractions
(`frames`, a stack). Every action but the ends of an extraction may happen between
`BeginExtract` and `EndExtract`: that is user code in a callback. `Free` is
`php_mimepart_free` with the recursion it triggers, written as the set of parts that
die (`Dying`): children only the table refers to, and so on down.

The Zend engine is external: `zend_list_close` clears pointer and type before the
destructor runs, dropping the last reference destroys the resource, and the shutdown
closes what is left from the youngest resource on. `BeginShutdown` may come at any
moment, as after a fatal error, which leaves `frames` and their references behind.
Parsing is reduced to its effect on ownership: a new part under some part of the
chain (a superset of what the parser does). User error handlers, which PHP runs
inside a warning, are not modelled; neither is a second `__construct` call.

### Codec and StreamEncode

A filter is a record of the code's `status` and `cache` with the bytes it has passed
on (`out`); the column, which the code packs into the second byte of `status`, is a
field of its own, and `TypeOK` shows that it stays in its byte. The block decoders of
the code are the byte decoders in a loop, and `DecodeBlock` is that loop.

`FeedLine` and `FeedBlock` are one round each of the two loops of
`mailparse_stream_encode`. `NextLine` is `php_stream_gets` with its full buffer,
`UpToNul` the `strlen` that follows it. `seen` is history, the bytes the filter has been
given. `NoFilter` is the call through a filter that does not exist, `ReadError` a read
whose count of -1 is taken for a size: the filter gets some `Memory`, and what follows is
undefined. `BestEncoding` gives the answer of
`mailparse_determine_best_xfer_encoding`.

### Extraction

`Begin`, `Read`, `Complete` and `ReadFails` are the beginning, a round of the loop and
the two ends of `extract_part`, the second for a seek that fails or a read that returns
nothing. `ReadError` is a read that reports a failure by a negative count, which the code
takes for a size: memory may be delivered, the process may be gone, and nothing happens
after it (`overrun`). `Prepared`, `Feed` and `Flushed` are the decoder
functions. Extractions are a stack, as user code in a callback or in a stream may
begin another one, and `Parse` may come at any moment at which the part is not being
extracted. A read returns any number of bytes up to what was asked for. The message
is reduced to what extraction needs of it: a root and its last descendant, whose
headers have been parsed, with every line that follows a body line. `last` is
history, the contents of the extraction that has just returned.

### Rfc822 and Addresses

A header is a sequence of symbols: the bytes the scanner tells apart, and words that
stand for runs of other bytes. `@` stands for all the single-byte atoms the address
parser has no branch for (`.` `/` `!` `%` `?` `[` `]`). `Tokenize` is the scanner with
its states as the cases of one recursive function; a token is the stretch of the
header it has as its value. The scanner, too, runs twice, to count and to fill, but
both runs are the same loop; that they agree is so by construction of the model.
`Recombine` is the loop of `php_rfc822_recombine_tokens` that writes, with its flags, and
`RecombineRoom` the loop before it, which finds the length with tests of its own
(`PassedOver`, `Room`).

One step of `Addresses` is one turn of `parse_address_tokens`, from the label
`mailbox` to the next `goto`, with the look for a group in front: `Mailbox`,
`GroupMailbox`, `GroupEnd`, and `EndPass`, which leads from the counting pass to the
filling one. The look-aheads (`Label`, `MailboxStart`, `Stop`, `Close`, `Resume`) are
operators of their own, as the hazards are in where they stop. A word at position `k`
is the `k`-th word, so that it can be seen which entry took it.

### Attributes and PartData

One step of `Attributes` is one attribute, up to its semicolon, in one of the ways
through the loop of `php_mimeheader_alloc_from_tok`. A word may be the name of an
attribute; `Base` and `Star` are what the code finds out with `strchr` for `*`.
Values are sequences of pieces, plain text, quoted text, the opening of an encoded word
and its end, as `rfc2231_to_mime` puts them together. `live` is history: the names that
have been allocated and not freed.

In `PartData` a value is the place it comes from: the k-th field of the part, the
content type in front of its attributes, one of those attributes, or a default.
`HeaderTable` is the insertion into `headerhash`, `Copies` what
`php_mimepart_process_header` keeps besides, `PartData` what
`mailparse_get_part_data` enters, in its order. `Labels` gives names to the attributes,
those of other headers among them. The keys for boundary and charset are taken from
the attributes of the content type and are left out; so are offsets and line counts,
which are those of `MimeParse`, and the brackets and blanks around a content id.

### Uuencode

A stream is a sequence of lines; what the decoder makes of a line is a number of
bytes. `enum_uue` (`EnumItem`), `extract_uue` (`ExtractSkip`, `ExtractFile`) and
`mailparse_uudecode_all` (`AllFile`, `AllNoTempFile`, `AllReleasedPath`, `AllOther`) are
loops around `mailparse_do_uudecode`, of which `Stop` has both halves: the one that
writes looks for the end line, the one that measures does not. Lines longer than the
128 bytes of the decoder's buffer are left out.

## 3. Runs

| Run | Shows | Bounds |
|---|---|---|
| `parse_nesting` | extents ordered, nested, disjoint, complete; closed parts frozen; `MessageTree` implemented | 8 lines, 5 parts, at most 3 children, boundaries `a` and `ab`, chunks that hold one byte of a line |
| `parse_api` | tree, walk, limits and section names with two handles and removal | 6 lines out of 13, 4 parts, `MAXLEVELS` 3, `MAXPARTS` 1 |
| `parse_failure` | *violated*: the comment that a failure does no work | 7 lines, `MAXLEVELS` 2 |
| `owners` | exact counts, no dangling pointer, freed once, no leak, shutdown frees all | 4 parts, one user reference per part |
| `stuck_flag` | *violated*: the warning "already being extracted" | 2 parts |
| `encode` | decoding restores what was encoded, which is the source but for NULs and failed reads; seven bits, lines short but for the escapes in them, `From ` hidden in sources without NUL or CR | four encodings; sources of up to 4 units out of 5 or 3 out of 8 (letters, `=`, CR, LF, NUL, 0x80, 0xFF, `From `), binary ones of up to 10 bytes; line limit 8, buffer 8; two stretches of memory |
| `extract` | every extraction that returns has delivered its decoded stretch, or a beginning of it, nothing else | a root in 7bit or quoted-printable and one part in both encodings, bodies of up to 9 bytes, buffer 3, two extractions inside one another |
| `extract_buffered` | *violated*: the comment that an incomplete line is kept for the next call | the same messages |
| `addresses` | both passes find the same entries, every turn gets on, words stay in their entries, recombined text has the same tokens and fits in what is allocated | all headers of up to 4 symbols out of 10, all of up to 5 pieces out of 8 |
| `attributes` | segments joined in order, encoded words paired, names freed once; no header hidden | all headers of up to 4 attributes out of 12; all lists of up to 3 fields out of 8 where there is at most one attribute, a few where there are two, one beyond |
| `uue` | what is extracted is what was listed; splitting a stream loses no line | bodies of up to 4 lines out of 7 kinds and of up to 5 pieces out of 7; a part alone or inside a message; `MaxIndex` 2 |
| `uue_unlisted` | *violated*: `src/README.md` 68-69, `enum_uue` tells of any attachment present in the part | the same bodies |

Eight lines are enough to open a multipart, nest another multipart or message in
it, close the inner one and continue or close the outer one, which involves every
pair of actions; five parts are a preamble, a part, and two levels below. `MAXLEVELS`
and `MAXPARTS` are only compared with counts, so small values take the same branches.
Six lines and four parts let a part that has children be removed and parsing go on
behind it, through the root or through the part.
Four parts of `owners` are a message with a subtree of depth three or two subtrees, and a second
message; with one reference per part and a stack of extractions a part still has up to
three owners of different kinds.

The line limit and the buffers of the filters are only compared with lengths; the
small values put every line break and every full buffer within reach of sources whose
bytes include each class that the filters tell apart. A read buffer smaller than a
base64 group, an escape or a soft line break cuts each of them at every place.

Five pieces of a header are a group with its label, two members and its end, or a
route, a separator and another entry with one piece too many or out of place; the four
symbols leave quotes, comments and brackets open in every way. Four attributes are two
runs of segments of one name with another name between them. Three fields are the
least with which a name comes for the third time: the entry is created, turned into an
array, and extended. Five pieces of a uuencoded body are two files with text between
or behind them, either of them without its tick, end or blank line; with an index up to
2 the second one has a file in front.

Runs stop where the input bound is reached or the request is over, so deadlock is not
checked in them. `encode` checks it: a call that has not crashed always gets on.

**Fairness.** Only `PartLifetime` has a liveness property, `ShutdownFreesAll`. It
assumes weak fairness of the shutdown walk, a loop of the engine without calls to user
code. Nothing is assumed of user code. That the loops over tokens end is not stated as
liveness: `EveryTurnAdvances` says that no turn stays where it was, with no fairness.

## 4. Proofs

TLAPS proves, for all values of the constants that satisfy the named assumptions:

**The parser** (`MimeParseProofs`)

* `TypeCorrect`, `TreeCorrect`: the tree invariant is inductive together with the
  types; the steps that link a new part (`AddChildTree`) and that remove one are the
  only ones that disturb it.
* `LimitsCorrect`: `LimitsHold` for all handles and removals. A new part lies one level
  below the one that was tested (`AddChildDepth`); and only input for the root, which is
  tested first, adds to the table of the root (`RootOnlyFromRoot`).
* `OnlyUnderstood`: `UnderstoodOnly` for all handles and removals, from an invariant that
  says for every part, not only those with children, when its content type and boundary
  may have been set.
* `OffsetsCorrect`: when all input comes through the root (`Handles \subseteq {Root}`),
  `WellNested` holds: the open chain is in step, extents are ordered, inside the body of
  the parent and disjoint between siblings. None of these parts is inductive alone. The
  strengthening `OffsetInv` adds that children are younger than parents, that parts
  which are not allocated have zero offsets, and that the ancestors of the part worked on
  are exactly the chain the walk came down (`WorkOnSpine`): every offset that `Advance`
  writes is then the same number for all parts of the chain, not before the end of
  anything closed. `MovesOffsets` proves this once for a general move, and the actions
  are instances of it.
* `BytesCorrect`, `LinesCorrect`: `BytesAccounted` and `LinesFit`, under the same
  assumption, on top of `OffsetInv`, for lines cut into any number of chunks. That the children of a part have no more lines than
  the part is a sum over a set that grows, one of whose members grows with every line.
* `ParserImplementsTree`: with all input through the root and nothing removed,
  `ImplementsMessageTree`. Each action maps to `Read`, `Settle`, `Branch` or a stutter;
  `WorkedOnIsOpen` says that the part a line belongs to is on the open path,
  `OpenAfter` what that path is after the step, `UnbornOpen` that a part still to come has
  not ended.
* `ClosedStayFrozen`: with all input through the root, and removals allowed,
  `ClosedPartsFrozen`.
* `NamesFindParts`, `NamesStayTrue`: `NamesIdentify` and `SectionNamesStable`, for all
  handles and removals. A name is that of the parent with one number behind it
  (`NameIs`); the name a part is printed with is one that the comparison finds it with
  (`NamesMatch`), and brothers have different numbers (`BrothersDiffer`), so that a name
  matches one part only (`OneMatch`); a name seen from further up continues the one of
  the part in between (`NamesContinue`). What a step keeps of parents and
  counters on the way up, it keeps of the name (`NameStays`).

The assumption `Handles \subseteq {Root}` is necessary where it is made: parsing into a
child writes its own offset into ancestors that may be further along.

**References** (`PartLifetimeProofs`)

* `PartsFreedOnce`: a part is freed when its resource still points to it, and every way
  of freeing clears that pointer. The invariant needs neither exact counts nor tree
  structure.
* `OwnersTypes`, `LinksStayLive`, `CountsExact`, `ExtractedStayLive`, `HeldStay`,
  `AllReachable`: all from one invariant, `OwnersInv`. It says by owner where the count
  of a resource comes from (user code, the table of the parent, extractions, and a root
  left behind by a failed parse), that tables are disjoint and hold only parts younger
  than their owner, and that both ends of every link agree while the request runs. The
  hard step is `Free`: parts that die with `p` have the reference of a table as their
  only one (`DyingFacts`), so that nobody else can hold or extract them (`FreeOwners`,
  `DropOwners`). `AllReachable` takes the oldest ancestor that is still live, by
  well-founded induction on part numbers.

**Extraction** (`DataProofs`, `ExtractionProofs`)

* `TwoBlocks`: for every text and both encodings, a block decoder gives the same for a
  text in two blocks as for the whole, wherever it is cut. A decoder that begins with output already there puts its own
  behind it (`LedBlock`), so that emptying the work buffer in between changes nothing.
* `ExtractionTyped`, `DeliveryCorrect`, `ContentsCorrect`, `FiltersOwned`,
  `LinesComplete`: one inductive invariant, of named parts. `Running` says for every
  extraction on the stack what it has read, what it has delivered and what is still in
  the work buffer, against the state of its filter; `Idle` that a part without one has
  no filter; `OnePerPart` that the flag lets no part in twice; `Offsets` and `LinesKnown`
  what parsing in between may do to the stretch. `Running` is where `TwoBlocks` is used:
  each read is one more block of the same text. `DeliveryCorrect` and `ContentsCorrect`
  are about extractions that go on or return: of one whose read reports a negative count
  (`ReadError`) they say nothing.

**Stream encoding** (`StreamEncodeProofs`)

* `EncoderTyped`: the strengthening `Typed` bounds the cache of an encoder by the number
  of bytes it holds.
* `EncodedFits`: a column is what has been written behind the last line break, and at
  most the limit and one group. An escaped `From ` sets the column back in the middle of a
  line. `FitForMail` is therefore about the stretches between line ends and escapes, and
  so is `Fits`; a line with escapes may be longer by the limit and seven letters for each.
* `EncodedDecodes`: the invariant `Faithful` relates the output to the bytes the filter has
  been given (`seen`), and these to the source: they are what has been read, except after
  a NUL in a line for quoted-printable or a failed read. Base64 gives the bytes back as
  they are, quoted-printable with every CR, LF and CR LF as CR LF. `MemoryAssumption` says
  that memory is bytes and nothing else. For base64 the output is a row of groups that spell the source three bytes at a
  time, with line breaks between, and what is left over is in the cache
  (`BaseUpTo`, `GroupSpells`); for quoted-printable it is built from pieces, each of
  which decodes on its own, with a CR held back (`QuotedUpTo`, `Grows`, `EscapeGrows`).
* `SeparatorsEscaped`: `FromEscaped`, for a buffer of more than five bytes; the code has
  2048, and with less a line is cut before its `From ` can be seen. `Hidden` says that a
  beginning of `From ` at the end of the output stands for the same bytes of the source,
  where a line begins that has been looked at and does not go on to the end of the word.
  An escape or a soft line break leaves no such beginning (`SoftlyHides`), a byte that
  stands for itself makes it longer by one (`ByteHides`), and only the first byte of
  what a round reads can begin a line (`RoundLooks`).

**Addresses** (`AddressesProofs`), for headers in which each word stands once, so that
it can be told where it went, and an alphabet that does not have the value of an empty
slot (`HeadersAssumption`, `NullAssumption`)

* `TokenizeFacts`: the scanner lays tokens in the header, one behind the other and
  none over another. It is an induction from the end of the header to its beginning,
  over the states of the scanner.
* `AddressesTyped`, `TurnsAdvance`: from where the look-aheads stop (`TurnFacts`).
* `SlotsAreFilled`: `Counted` says that there is a walk, a function from (token, in a
  group or not) to the number of entries still to come, which every turn follows. It is
  the same for both passes, so that the filling one finds what the counting one did,
  though only one of them stores.
* `WordsAreKept`: `Taken` says that the slots that are full have their words in order
  and from tokens before `Base`, which is where the open group begins, or else the turn;
  and that in a header without `:` everything outside comments in front of the turn is in
  one of them. A group takes its words from its label and its members, which lie between
  `Base` and the turn (`Labelled`).

* `TextsAreRestored`: the scanner runs over the header and over the text that
  `Recombine` makes, and is in step only between tokens that are kept. `Restoring` is
  where each token is in the text, a space before an atom that follows another and
  quotes around a string. `Restored` says of a place in the text and the tokens still to
  come that scanning from there says what they say, and that a word which ends in front
  of the place does not go on there, which is why `SPACE_ATOMS` is needed. It holds at
  the end, and is carried over each kind of token (`RestoresWord`, `RestoresString`,
  `RestoresMark`, `RestoresComment`), by induction from the end of the header (`ReadyStep`).
  Two marks can come next to each other that were apart, `< >` as `<>`: the scanner then
  takes another way, and finds one token more that says nothing (`SaidEmpty`). Headers in
  which a quoted string has a quote inside (`QuoteInside`) are left out, see section 6.
* `TextsFit`: the loop that finds the length goes from token to token and remembers
  whether the last one it kept was an atom; the loop that writes is modelled as a sum over
  tokens, each of which looks back. `AllocatedIsEnough` brings them together for every
  stretch of tokens: up to any place, what has been counted covers what has been written
  and the NUL. `KeptMeans` says that both keep the same tokens, `MarkFacts` and `PieceFits`
  what each is worth; a comment that becomes a string is counted with its brackets.

**Attributes and part data** (`AttributesProofs`)

* `JoinedCorrectly`, `WordsArePaired`, `NamesFreedOnce`: one invariant, `IInv`. The loop
  is either `Joining`, with `value_buf` telling the segments of the last run of
  `name_buf`, all of which begin where `name_buf` was allocated or behind it, or `Idle`,
  with no segment in the run that the next attribute may go on with. In both cases the
  table tells what has been read of all other names. `Tells` says for a row of pieces
  which segments it is, and that its encoded words open and close. A name may come back
  after another one, which begins a run of its own and makes what the table had of it
  void; that a plain value among segments is dropped, and one in front of them is
  overwritten, is in `Sources`.
* `FieldsStay`, `HeadersFound`: what the header table and the copies hold after `k`
  fields, by induction on `k`, and then which of the things entered under a key is the
  last one. Fields are any sequence, attributes may be called anything. `FieldsKept`, that
  the table has every field in order, is proved and not among the properties of a run.

`StarAssumption`, `FieldsAssumption` and `NumbersAssumption` say what the constants are;
`WordsArePaired` is, like the property, about attributes whose encoded segments have
their charset.

**uuencode** (`UuencodeProofs`)

* `LinesDecodedOnce`: `Decoding` says where each line in front of the position went.
* `ExtractedAsListed`: `Listed` and `Extracting` relate both loops, the one that measures
  and the one that decodes, to the same begin lines: the first `n` of the part, each
  behind the end of the one before. They agree on where a file begins, and disagree on
  where it stops only by an end line that measuring passed.

The library's theorems on induction take an operator, which the provers cannot
instantiate. `DataProofs` states them for sets and functions instead, and what the
decoders, the encoders, the scanner, the header table and sums do for every input is
proved from these. What `Attributes` and `PartData` promise is said in terms of sets of
positions and their order (`InOrder`), not of a second recursive function: this is
closer to what is meant, and the provers can reason about it. Two
statements turned out false on the way, with the model as faithful as before, and were
changed in what they say or in how their history is kept:

* `NothingLost` counted the bytes in the `workbuf` of the root as the parser's, also when
  the root is being decoded and they are output. The messages of `extract` had no
  encoding on the root; now they have.
* `FromEscaped` needs sources without NUL: `"Fr", NUL, LF, "om "` is written as `From `
  at the beginning of a line, because the second half is a line of its own to
  `mailparse_stream_encode` and the first has lost its end.

Only model-checked: the liveness of the shutdown, which needs `ENABLED`. Every other
property of a passing run is stated by a theorem.

## 5. Divergences found

With a run:

1. A message that nests too deeply fails after work has been done, against the comment
   in `php_mimepart_parse` (`parse_failure`). The failed line is then glued to the
   next one and its bytes are counted twice.
2. `extract_uue` and `enum_uue` leave `extracting` set when the source stream is
   missing (`stuck_flag`).
3. Extracting the part that is being parsed, between two calls of
   `mailparse_msg_parse`, discards the incomplete line that was to be kept for the
   next call (`extract_buffered`).
4. The loop of `mailparse_do_uudecode` that measures passes over the end line and goes on
   to a blank line or the end of the stream. When neither comes before the end of the part,
   a complete file is measured past the part and cancelled (`uue_unlisted`). For the same
   reason the size it reports counts text behind the end line, and `extract_uue` can
   extract files that `enum_uue` cancels.

Seen while modelling, in the models as the code has it, without a run:

5. `extract_part` takes the -1 of a read that failed (`php_stream_read`, since PHP 7.4) for
   a size, as it tests only for 0 (`mailparse.c` 1340-1350): memory may be delivered as a
   section of the message. `mailparse_stream_encode` and the constructor of `MimeMessage`
   do the same (`mailparse.c` 1087, 288); `mailparse_msg_parse_file` does not (1156-1157).
   `ReadError` in `Extraction` and in `StreamEncode` has it, the constructor is left out.
6. A `message/rfc822` part of a multipart reports a body that includes the newline
   before the boundary (`php_mailparse_mime.c` 665), against the comment at 658-660.
7. `mailparse_stream_encode` has no filter for the encodings 7bit and 8bit that
   `mailparse_determine_best_xfer_encoding` names, and does not notice
   (`mailparse.c` 1054).
8. `mailparse_uudecode_all` names its output again at the second begin line when no
   temporary file could be created for the first, from a path that has been released
   (`mailparse.c` 855, against the comment at 890-892).
9. Groups of addresses: the address of a group lacks its leading `:` when the first
   mailbox is a route address (the comment in `parse_address_tokens` and test 007 have
   it); a group that follows a comma is not recognised, a comma in front of `;`
   swallows the end of the group, an unclosed `<` loses the group, and the display names
   inside a group are dropped. A comma at the end adds an empty entry.
10. The branch for the "Netscape bug" in `php_mimeheader_alloc_from_tok` cannot be
   reached. An encoded segment without a charset loses its text and leaves `?=` without
   an opening. A comment in front of the name of an attribute drops the attribute.
11. Removing the preamble of a multipart hides the first real part from the section
    names.
12. A header whose name is a number keeps only its last value: `add_assoc_*` makes an
    index of it, where `zend_hash_find` does not look. An attribute of the content type
    such as `id` shows up under the key of a header that is missing. The `headers` array
    handed to user code is the part's own and changes when more header lines are parsed.
13. The boundary of an earlier content type stays when a later one has none.
14. A stream whose only eight-bit byte is 0x80 is called 7bit (`mailparse.c` 962).
15. A line that ends with a NUL and a newline is joined to the next one by
    `mailparse_stream_encode`; two halves of `From ` come together unescaped.

## 6. Not modelled, and the plan

Registration, settings and build files have no behaviour of their own beyond the
resource destructor, which `PartLifetime` has. The generated tokenizer is modelled from
its source, `php_mailparse_rfc822.re`. A second `__construct` on one object, user error
handlers, memory limits and failing allocations are left out. PHP's memory streams,
stream wrappers and `php_stream_read` are the environment: any short read, no bytes, or a
negative count, after which the behaviour ends, as C says nothing of it. Reads of the
parser's callers are not modelled. Extents under several handles are not stated: the code
lets a child write into ancestors that are further, and there is no promise to check.

Next would be strings whose value has a quote in it, which `RecombineRestores` leaves
out. They arise from comments that are never closed: the scanner has then counted the
escapes in the comment, and the empty string it makes gets as many bytes of the comment
for its value, from its `(` on.

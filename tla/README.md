# Verification of vgi-bgp

vgi-bgp is a DuckDB worker that serves MRT archives of BGP routing data as SQL
tables: `read_rib`, `read_updates`, `peers`, and a handful of scalars over the
columns. This directory holds TLA+ models of its logic, the TLC
configurations that check them on small instances, and TLAPS proofs of the
properties that matter most. `PROJECT.json` ties every definition to the source
lines it stands for, every property to a plausible bug it catches, and every
hazard of the code to the properties that watch it.

Paths below are relative to `src/crates/`; `reader.rs` and its siblings are in
`bgp-worker/src/`, `decode.rs` and its siblings in `bgp-core/src/`.

## 1. The system

| component | source | state it keeps | operations | what makes it correct |
|---|---|---|---|---|
| MRT decoder | `decode.rs` | RIB view name, peer index table, count of consumed bytes | `next_record`, `record_rows`, `peer_rows`, `is_recoverable` | a record's rows depend only on the records before it in the same source |
| streaming reader, `MrtProducer` | `reader.rs` | source list, source index, open reader, decoder, byte offset, skip target, done flag | `pull_batch`, `open_current`, `advance`, `encode_resume`, `restore_resume` | the client gets the rows of one uninterrupted pass, each once, in order, and the scan ends |
| `peers` | `table/peers.rs` | source list (taken by the first call), peers seen | `next_batch` | every peer of the sources is listed, with the collector that mentions it |
| source resolution | `reader.rs`, `cloud.rs`, `options.rs`, `table/*.rs` | none of its own; it looks at the file system and at bucket listings at bind time and at every rebuild | `on_bind`, `producer`, `resolve_sources`, `classify`, `list_glob` | a resume token keeps its meaning while files come and go |
| object stores | `cloud.rs`, `options.rs` | the secrets known since the bind; an ordered list of options per store | `secret_lookups`, `list_glob`, `glob_prefix`, `s3_options`, `cloud_overrides` | each object is read with its own secret, a listing misses nothing, and what the caller gave wins over the secret |
| Arrow columns | `arrow_io.rs`, `inet.rs` | builders of one batch | `rib_columns`, `updates_columns`, `peers_columns`, schemas, cell readers | one cell per row in every column, every column the one its schema names, and order-preserving INET values |
| path scalars | `scalar/path.rs`, `aspath.rs` | none | `path_length`, `origin_asn`, `as_path_prepends`, `path_contains` | they say of the list what they say of the path |
| community scalars | `scalar/community.rs`, `community.rs` | none | `community_parse`, `is_large_community` | a community reads back as it was written, and none is both |
| `block_on` | `cloud.rs` | the process-wide runtime | both `block_on`s, on a host with any kind of runtime | no call waits for a thread that waits for it |
| host guard | `cloud.rs` | none | `guard_host` | an http URL of an internal host is refused before it is opened, unless the environment allows it |
| catalog, entry points | `lib.rs`, `main.rs`, `meta.rs`, `bgp-wasm` | none | registration | constant data |

**How they interact.** DuckDB binds a call: `on_bind` checks the local paths and
asks for secrets. The SDK then builds a producer: `resolve_sources` turns the
`src` argument into sources, and the SDK calls `next_batch` until it returns
`None`. The producer opens one source at a time, feeds its records through a
decoder and gathers their rows until a batch is full; the rows become Arrow
columns. Over **stdio** one producer object lives for the whole scan. Over
**http** every response is served by a producer built afresh from the bind
parameters, so `src` is resolved again, and its position is restored from a
16-byte token, a source index and a byte offset, by reading the source
from its start and discarding rows up to the offset.

**What is hard.**

- A resume rebuilds everything from a token. Nothing but the re-read stream can
  bring back the peer table; one record too many or too few in the fast-forward
  is a duplicate or a loss.
- Errors are data: a bad record becomes a row and the scan goes on, a torn tail
  becomes a row and the source ends, a strict scan fails. Each of these can fall
  before, on or after a checkpoint, and inside a batch.
- `offset` belongs to a source, but outlives `advance()`.
- The listing a token indexes into is made anew for every response, and the files
  may have changed.
- Columns are filled side by side, and a value appended without its cell moves
  the lists of all rows behind it.
- Signed, unsigned, 32-bit and 64-bit readings of the same number meet in the
  INET encoding and in the scalars.
- A secret is asked for by the URL of a glob, and matched much later against the
  objects the glob stood for.
- `block_on` parks a thread that may be the one its request needs.

A producer is called by one thread at a time. The interleavings are those of the
worker with the world (files and objects), of responses with rebuilds, and of
calls that share the threads of their host while they wait for object stores.

## 2. Modules

```
Enumerations ──┬── MrtStream ──┬── MrtProducer ── MrtScan ──(implements)── RowStream
               │               ├── Peers             │
               │               └── MCInputs          │
               └── Resolution ──┬── Relisting ───────┘
                                └── CloudAccess ──── CloudOptions, Globs
Inet, Schemas ── Columns       Communities ── Scalars       BlockOn

EnumerationsProofs ──┬── MrtStreamProofs ──┬── MrtScanProofs ── RelistingProofs
                     │                     └── PeersProofs
                     └── CloudAccessProofs
ColumnsProofs     ScalarsProofs
```

`MrtScan`, `Peers`, `Relisting`, `Columns`, `Scalars` and `CloudAccess` each have an
`MC` module with the sets they are checked on.

| module | models | correspondence |
|---|---|---|
| `Enumerations` | `out.sort()` | A set of numbers as an ascending sequence: the entries of a RIB record, the files of a path, the objects of a glob. |
| `MrtStream` | data and decoder | A source is the sequence of outcomes `next_record` has on its bytes: records (`pit`, `rib`, `msg`, `dump`, `state`), recoverable failures (`bad`), and a last outcome, `eof` or `torn`. `end` is the `CountingReader`'s count after the outcome. `Primed` is the decoder's update, `RecordRows` is `record_rows`. A row is named by source, record and entry, with the type, peer and view that depend on the decoder. `DecoderAt` and `RowsAt` define one uninterrupted pass, by the last peer index table before a record, not by running the producer's code. |
| `MrtProducer` | `reader.rs` | One variable per field of the struct, plus the batch in progress, the token and a program counter. `Request` is a call of `next_batch` (over http: `new` and `restore_resume` first). Each turn of `pull_batch`'s loop is one of `OpenCurrent`, `OpenFails`, `Exhausted`, `ReadRecord`, `CleanEndOfSource`, `StrictError`, `RecoverableError`, `TornError`; `Emit` returns the batch, with `encode_resume`'s token over http. |
| `MrtScan` | producer and client | Adds `delivered`, the rows the client has. |
| `RowStream` | the abstract promise | The rows of the sources in scan order, delivered in non-empty batches that split no record, then an end or a failure. No producer, offset or transport. |
| `Peers` | `table/peers.rs` | The two nested loops of the eager collection, one turn per action. The order of rows is left out: a hash map decides it. |
| `Resolution` | `options::source`, `classify`, `resolve_local`, `list_glob`, `resolve_sources`, `on_bind` | Functions of the `src` argument and of the set of files and objects that exist. |
| `Relisting` | a call from bind to its last batch | Composes `Resolution` with `MrtScan`'s own actions, while files appear and vanish at any time; adds `files`, the file each delivered row came from. |
| `CloudOptions` | `s3_options`, `cloud_overrides`, `normalize_endpoint` | The list of options as it is built, and what the last option of a key leaves in force. |
| `Globs` | `glob_matches`, `glob_prefix` | A key is the sequence of its segments, a pattern a sequence of literal, wild and deep (`**`) segments. |
| `CloudAccess` | the two-phase bind, `build_store`, `list_glob`, `guard_host` | `Bind` asks for the secret of every s3 URL, globs as they stand; `ResolvePath` builds the stores of one path, the one its glob is listed through (`listers`) and those its sources are read through (`sources`, in order); `Refuse` is the guard, which looks at all the addresses of an http host and at `BGP_ALLOW_INTERNAL_HOSTS` (`allowInternal`). A store is recorded with its URL, secret and options; one for an http URL has no secret. |
| `BlockOn` | `block_on` (native and wasm), `runtime`, `fetch_object` | Calls on a host: queued, running, blocked on a request or on a back-off timer. `Way` is the branch the code takes; `Drivers` is who can wake the call in it; `Free` says whether a host thread is left. |
| `Inet`, `Columns` | `inet.rs`, the builders of `arrow_io.rs` | The struct encoding, and the list, struct, timestamp and plain boolean columns, one row per step; the code fills one column after the other, which no one can observe. |
| `Schemas` | the schemas of `arrow_io.rs` and the columns built for them | Two lists per table function, written down apart as in the code: names and types, and builders with the row field each takes its cells from. |
| `Scalars` | `scalar/path.rs`, `aspath.rs` and the cell readers | Reading a cell, the loop over neighbours, the four results. |
| `Communities` | `community.rs`, `scalar/community.rs` | A string is the sequence of its parts between colons; trimming, the `u32` parse with its sign and its range, and the two results. |

The operators named "Mutant of ..." are plausible bugs (a dropped guard, an
off-by-one, a missing reset). Each property is tried against one, put in place of
the real definition, and must be found violated.

**Abstractions.** The bytes of a record, bgpkit's parsing and decompression are
outside: a source is given as the outcomes of parsing. Peers, views, names and
ASNs are members of small sets; only the attributes that the properties tell
apart are kept. A batch size is counted in rows as in the code, with 2 or 3 for
the code's 2048. Counts are 1-based where the code's are 0-based.

## 3. Runs

Runs marked *pass* in `PROJECT.json` finish without an error; the others check
one statement of the repository's documentation that the code does not keep
(section 4).

| run | question | bounds |
|---|---|---|
| `scan` | Is the decoder right after any resume? Do checkpoints lie on boundaries and move on? Does the client get only genuine rows, in order, at most once, and all of them? Does the scan end? Does it implement `RowStream`? | `BatchRows` 2, `MaxDelivered` 20; every input of `MCInputs!LongAndShort`: single sources of up to three records over all endings, pairs of every short first source with second ones whose offsets fall before, on and after the first one's, and scans of up to four sources, empty ones among them |
| `peers` | Do `peers` and the routes agree on who the peers are? Is every row a triple of the sources, and is a peer seen under one collector listed with it? Does the collection end? | the inputs of `scan` |
| `relisting` | What does a moving listing do to a scan? Is a path of another scheme ever taken for a local one? | five files, one of them torn, ten `src` arguments (globs, lists, URLs, BLOBs, bad ones and malformed URLs), `MaxChanges` 2 changes at any moment, `MaxDelivered` 14, both transports, strict and not |
| `cloud` | Which objects does a call read, and with which secret and options? | six objects in three buckets, any subset of which exists; seven lists of paths with literals and globs of every kind, one with an internal host, read with and without the override; five sets of secrets scoped above, at and below them; and every secret with every set of arguments on one path, each setting absent, empty or given, an endpoint bare or with either scheme |
| `block_on` | Does every call come back, whatever runtime its host has? | three calls on two threads, one, none, and in wasm; two requests each, each sent again once at most |
| `columns` | Do cells stay with their rows, and columns with their names? | three rows, three paths, five prefixes, addresses of three bits (`Half` 4), two IPv4 addresses |
| `scalars` | Are the results right for every list and every community string? | lists of up to four elements of -1 .. 4 and NULL, four ASNs; strings of up to three parts of nine kinds and four of two |

*Why the bounds suffice.* A resume depends on one checkpoint, the source it names
and the source before it (whose offset it may carry); two sources, with record
widths 2 and 3 so that the offsets of one fall on and between those of the other,
show every relation between the two. With a batch of two rows a batch ends at
every place it can: in the middle of a source, on its last record, with an
oversized record, at an error row, and after the last source. Three records in a
source are enough for one before, one on and one behind the checkpoint, each of
every kind. `MaxDelivered` is above the rows any of these inputs has, so it stops
only a scan that repeats itself: an unbounded re-delivery ends in a state where
the client no longer asks. Two changes of the world are one that moves a listing
and one that moves it back; the five files include a torn one, one longer than a
batch, and one with a recoverable error, which may be served again and again
(section 4, `livelock`) until `MaxDelivered` stops it.
A listing depends on one prefix and on the keys around it: the objects lie on,
below, beside and above the prefixes of the globs. Three calls on two threads
are one more than can run at once. A misplaced list cell shows with one row
behind it, so three rows are one more than needed; three-bit addresses have
several values on either side of the sign bit; `-1` and `4` lie outside an ASN
range of four.

*Deadlock.* Scans, calls and functions end, and the modules have an action
(`Ended`, `ScanEnded`, `RelistEnded`, `Built`, `Done`) that stutters exactly
there, so TLC's deadlock check is on and finds a program that is stuck. `Columns`
has none: a batch really stops at its row bound, and its configuration says
`CHECK_DEADLOCK FALSE`.

*Fairness.* Liveness is checked under weak fairness of one action, the
disjunction of all steps of the worker and of the SDK's request. A call of
`next_batch` is a loop in one thread that nothing interrupts, so it runs to its
end; the SDK's scan loop asks again until it is told the scan is over
(`FairSpec`, and `FairScanSpec` with the client). No fairness is put on a choice:
an open may fail always, never or sometimes. `Peers` assumes the same of its one
call and the one that finds the sources taken. `BlockOn` has weak fairness for the
steps of each call: the operating system runs every thread, and a driver that has
a thread wakes what is ready. `Wake` itself is enabled only while such a thread
exists, so nothing is assumed of a runtime whose threads are all taken; that is
the hazard. A query with a LIMIT stops asking;
nothing is claimed of it.

**Conditions.** `Safe` and its parts (`strict`, stdio, no bad or torn record)
appear in `CheckpointOnBoundaryUnlessTorn`, `CheckpointAdvances`,
`TerminatesUnlessBad`, `InScanOrder`, `NothingLost`, `SteadyListingExact` and
`KeepsPromise`. They are
not convenience: they name the situations in which the code does not keep the
property, and the runs of section 4 show what happens there. The inputs of the
passing runs contain sources with and without every kind of error, so both sides
of each condition occur.

## 4. Where the code and its documentation part

| run | what it shows |
|---|---|
| `loss` | `advance()` (reader.rs:222) clears the reader and the skip target but not `offset`. When the error row of a torn source fills a batch, the token pairs the *next* source's index with the torn one's offset. The response after it drops what lies below that offset in the next source and was never emitted: its leading records (reader.rs:266), or the error row of its own torn end (reader.rs:280). |
| `livelock` | A bad record met during the fast-forward clears `skip_to` (reader.rs:289), so the records between it and the checkpoint come a second time. If they fill a batch, the next token is the one before, and the scan repeats itself for ever. |
| `whole_files` | The last token pairs an index past the end with the last source's offset; a file that appears last before the next response loses its head. |
| `peers_triples` | `peers` drops a peer it has seen whatever the collector (peers.rs:158), so of two tables of two collectors with a peer in common one triple is missing, though peers.rs:1 and 33-34 promise one row per (peer_ip, peer_asn, collector). |
| `url_style` | `cloud_overrides` pushes an option for `url_style` only when it is `'path'` (options.rs:113); `'vhost'` leaves a secret's path style in force, though the arguments are said to win (cloud.rs:265). |

The causes of the first two have one small cure each: reset `offset` in
`advance()`, and leave `skip_to` alone on a recoverable error while
`offset <= skip_to`. The passing runs state what holds of the code as it is:
`NothingLost` and `InScanOrder` leave torn and bad sources under resume out, and
`RowsAreTriples` speaks of the rows there are and of the peers seen under one
collector.

Smaller divergences have no run of their own. The definitions show them, and where
a property is named it says what does hold:

- A failed read that consumes no byte leaves `offset` at the checkpoint,
  `offset > t` is false (reader.rs:280), and its error row is never emitted over
  http. `NothingLost` leaves torn sources under resume out for this reason too.
- `while let Ok(Some(..))` (peers.rs:156) ends a source at a recoverable error too,
  where the comment above it speaks of a clean end and a torn tail; peers behind it
  are missing. `EveryTripleListed` fails for this as well; `EveryPeerListed` and
  `RowsAreTriples` ask nothing of what lies behind a bad record.
- `on_bind` (read_rib.rs:119) takes every path `is_remote` does not know for a local
  one, so a `gs://` path is refused as a missing file, though cloud.rs:9-10 promises
  a clear error. That such a path is never read as a local file does hold
  (`NoLocalFallback`).
- An error row has a NULL timestamp (arrow_io.rs:262), while the comment at
  arrow_io.rs:258-259 says that one is invalid and that such a row renders as the
  epoch. `ErrorRowsAreNull` states what the code does.
- `atomic_aggregate` is built from a plain `bool` (arrow_io.rs:204): an error row has
  FALSE there, where options.rs:131-132 promises NULL fields. `ErrorRowsAreNull` has
  it as the one such column.
- BIGINTs are cut to 32 bits and NULL elements read as 0 (arrow_io.rs:309), so
  `path_contains` finds numbers that are not in the list. `ContainsExact` bounds
  them: over lists of ASNs there are none.
- `use_ssl => true` pushes no option, like `'vhost'`, so the secret's setting stays
  (`CloudOverrides`).
- An empty string as `endpoint` or `region` argument counts as given
  (options.rs:103, 109), where an empty field of a secret does not
  (cloud.rs:298): the endpoint becomes a scheme without a host
  (`CloudOverrides`, `LocationOverrides`).
- Secrets scoped below the first wildcard of a glob are not asked for at bind time
  (cloud.rs:114), and an object under them is read with the secret of the glob;
  hence the condition `ScopesAboveGlobs` of `SecretOfItsUrl`.

## 5. Proofs

Theorems hold for every value of the constants under the named assumptions of
the modules, none of which bounds a length or a count:

- a batch has at least one row; inputs are sequences of well-formed sources
  (offsets grow with every record, only the last outcome ends a source);
- a path of a call stands for finitely many files; what a call resolves to is one
  of the inputs, and so is nothing at all, which it has before its first listing;
- the objects of the buckets are distinct, no two secrets have the same scope, and
  a URL that is neither a glob nor refused names an object;
- a NULL is neither a number nor a path, and the widths are positive.

| theorem | module | says |
|---|---|---|
| `TypeCorrect` | `MrtScanProofs` | `Spec => []TypeOK`: no index, reader or token ever points past the sources or past the end of one. |
| `DecoderSynchronised` | `MrtScanProofs` | `Spec => []DecoderInSync`: whatever was skipped, resumed or reopened, the decoder is the one an uninterrupted pass has at the record read next. |
| `Faithful` | `MrtScanProofs` | `ScanSpec => []RowsFaithful`: every row the client ever gets is a row its record has in one uninterrupted pass. Both transports, any errors, any batch size. |
| `Ordered` | `MrtScanProofs` | `ScanSpec => []InScanOrder`: in order and none twice across every batch boundary, where no bad record can be read again; torn sources are covered. |
| `CheckpointsOnBoundary` | `MrtScanProofs` | `Spec => []CheckpointOnBoundaryUnlessTorn`: a token names the start or the end of a record of its own source, unless a torn source can leave its offset behind. |
| `CheckpointsAdvance` | `MrtScanProofs` | `Spec => CheckpointAdvances`: no response over clean sources ends with the token it began with. |
| `Lossless` | `MrtScanProofs` | `ScanSpec => []NothingLost`: a scan that ends has delivered every row, except where it resumes past a torn source. |
| `PromiseKept` | `MrtScanProofs` | `ScanSpec => KeepsPromise`: `MrtScan` implements `RowStream`, action by action. |
| `PeersTypeCorrect`, `TriplesListed`, `AllPeersListed` | `PeersProofs` | The type invariant of `peers`; that every row is a triple of the sources, and a peer seen under one collector only is listed with it; and that no peer of a source without bad records is missing. |
| `RowsKeepTheirFile` | `RelistingProofs` | `RelistSpec => []RowsOfTheirFile`: whatever is listed between two responses, no row is given the peers or the view of another file. Errors of every kind included. |
| `SteadyListingsExact` | `RelistingProofs` | `RelistSpec => []SteadyListingExact`: while each listing begins with the one before, the files of the first one are read in order, no row twice and none missing, under the conditions of `Ordered` and `Lossless`. |
| `ListingsOrdered` | `RelistingProofs` | `RelistSpec => []ListedInOrder`: the files of a call follow its paths, and are sorted within each. |
| `MissingForeseen` | `RelistingProofs` | `RelistSpec => []BindForesees`: what bind time admits, the producer finds, for as long as no file has changed. |
| `OthersRefused` | `RelistingProofs` | `RelistSpec => []NoLocalFallback`: a call with a path of an unsupported scheme is never read, whatever files there are, and the scheme is what it is refused for only where bind time found the path locally. |
| `ListingsTyped` | `RelistingProofs` | `RelistSpec => []ListingTypeOK`: the sources are the files listed last, and an index restored from an older listing is never read past them. |
| `SecretsFit` | `CloudAccessProofs` | `Spec => []SecretOfItsUrl`: though secrets are asked for by glob, every object is read with the secret of its own URL, wherever the scopes lie above the wildcards; for any buckets, patterns and secrets. |
| `ListingsResolve` | `CloudAccessProofs` | `Spec => []ListingIsResolution`: what is listed under the prefixes of the globs, filtered, is what `Resolution` gives for the call, in that order. |
| `ArgumentsOverride` | `CloudAccessProofs` | `Spec => []LocationOverrides`: a region or an endpoint argument, an empty one too, beats the secret's, whose own holds otherwise; for every secret and every set of arguments. |
| `HttpIsAllowed` | `CloudAccessProofs` | `Spec => []PlainHttpIsAllowed`: an http endpoint that the builder refuses was written so, in the argument or else in the secret, and neither switched TLS off; every such endpoint is refused. |
| `AddressInRange`, `OrderPreserved`, `EncodeInjective` | `ColumnsProofs` | The stored address fits its signed field, orders as the address does within a family, and no two prefixes share a cell; for every width. |
| `PathsKept`, `ErrorRowsKept`, `InetOrderKept` | `ColumnsProofs` | The column properties for batches, paths and addresses of any size. |
| `SchemasFit` | `ColumnsProofs` | `Spec => []ColumnsFitSchema`: every column built for a table is the one its schema names, with its type and the row field it stands for. |
| `PrependsCounted`, `ContainsCorrect`, `CommunitiesReadBack` | `ScalarsProofs` | The scalar properties for lists and strings of any length and numbers of any width. |

**The arguments.**

- *Decoder.* `DecoderInSync` alone is not inductive: the step that reads a record
  needs the types of the position and well-formed inputs. `IInv` is
  `sources \in Inputs /\ TypeOK /\ DecoderInSync`. `MrtStreamProofs` has the lemmas
  on the pass: the last peer index table before a position exists and is unique,
  and `DecoderAt` moves by `Primed` (`LastPitStep`, `DecoderAtStep`). `ReadRecord`
  then keeps `IInv` because it feeds the decoder before it looks at the skip
  target, the very order a mutant swaps.
- *Faithful.* `FaithInv` adds that the rows of the batch in progress and those
  delivered are genuine. `RowsOfOutcome` is the bridge: by `IInv`, what a record
  yields here is what it yields in one pass. The entries of a RIB record that
  resolve to a peer are a listing of their places (`AscendingIs`).
- *Ordered.* That `received` (delivered and pending rows) is sorted is not inductive
  either. The strengthening (`OrderInv`) says where the rows end: while a batch is
  built, all received rows lie before the position being read or before the
  checkpoint the fast-forward runs to (`Behind`); between two responses, they lie
  before what the token will restore (`Covered`). That offsets grow with every
  record (`OffsetsGrow`) turns the comparison of byte counts in the code into one
  of records. The stale offset of section 4 does not break it: it can lose rows,
  never repeat them.
- *Checkpoints.* `CheckpointInv` joins two facts about the position. While a source is
  open, `offset` is the end of the record before the reader, and where nothing is
  torn a batch that ends with none open is the last one (`PositionInv`), so every
  token lies on a boundary. And a producer that holds a row is past the token it
  was restored from (`AdvanceInv`), so the next token cannot be the same one.
- *Lossless.* The dual of `OrderInv`. `LossInv` says that every row before the
  position, and every row the fast-forward will pass unread, has been received
  (`ArrivedBefore`, `ArrivedUpTo`), and that what a token stands for has been
  delivered. Its one weak step is `advance()` after a torn source, where the
  offset of one source comes to stand for the other: exactly the case
  `NothingLost` leaves out.
- *Promise.* `PromiseInv` is the conjunction of the invariants above with
  `ErrorFree` (a strict scan holds no error row). With it every step maps:
  `ScanEmit` to `Deliver`, by `OrderInv` (`InOrder`) and `LossInv` (`NoGap`: a batch
  ends between records, and all before it has come); the step to "finished" to
  `Finish`, by `LossInv`; a failure to `Fail`; all else to a stutter.
- *Peers.* `PeersInv`: everything mentioned before the place being read is found,
  nothing else is, and each peer found has the view of its first mention. The
  decoder's view is in step with the place, as in `DecoderInSync`.
- *Relisting.* `RelistInv` holds the producer's own `CoreInv`, which does not ask the
  token to fit the sources: a token of an earlier listing may point anywhere. A
  rebuilt producer satisfies it over whatever is listed now (`BuildStep`), and the
  producer's lemmas do the rest (`ProducerStep`). It also says of every row which
  file it came from (`OfItsFile`), since the sources that are current may not be
  those it was read from.
- *Places of a call.* `PlaceInv` says what each phase of a call has and has not: no
  token, no rows and no listing before the first build, never a skip over stdio.
  What a call resolves to is treated apart, from one path (`PathResolved`) through
  the list (`PathsResolved`, `KeptPaths`: dropping NULLs keeps the order) to the call
  (`CallResolved`).
- *Steady listings.* `SteadyInv` is the scan's own `ScanInv` and `PositionInv`, taken
  over the listing of the moment as if the sources had always been those. A producer
  that is rebuilt over a longer listing keeps them, because what they say of a
  place depends on the sources up to it (`ExtendsKeeps`, `BuildOrder`). Losslessness
  does not carry over like that: a token past the last file of an old listing
  hides the head of a file appended since (section 4, `whole_files`). `LossInv` is
  therefore claimed of the files of the first listing alone (`LossUpTo`), which a
  longer listing leaves where they were (`BuildLoss`).
- *Secrets.* Three facts meet. A key that matches a pattern begins with the pattern's
  literal head (`MatchesBeginAlike`), so a scope above the wildcards begins the URL of
  the glob exactly if it begins the object's (`ScopeOfGlobAndObject`). Of the scopes
  that begin a URL one is longest, and only one secret has it (`LongestScope`,
  `SameLengthSameSecret`). And dropping secrets changes nothing while that one stays
  (`FewerSecrets`). `AccessInv` says that a store's URL is its path's or that of an
  object the path's glob matches, for which a listing must hold members of what it
  lists (`ListingOfObjects`).
- *Listings.* `ListingInv`: the sources so far read what the paths so far resolve to
  (`Read` over `ListingsTo`), and `ListingStep` adds one path to both sides. A glob
  finds what its pattern says because a key that matches lies below the prefix that
  is listed (`GlobFinds`); a URL without wildcards finds its own object because an
  object is known by its text (`TextsTellApart`, `LiteralFinds`).
- *Options.* The value in force is that of the last option of its key
  (`EffectiveIs`), so of two lists joined it is the second's where that has one
  (`EffectiveOver`). With that each block of `s3_options` and `cloud_overrides` is
  described by what it says of region, endpoint and plain http (`SecretOptions`,
  `ArgumentOptions`), and a store by both (`StoreSays`).
- *Columns.* `ListInv` describes the builder: ends grow, the last one is the
  number of values, and every cell reads back as its row's path. Appending leaves
  earlier cells alone because they close before the new values begin.
- *Scalars.* The loop's invariant is that `prepends` is the number of repeats among
  the places looked at; the repeats and the run starts partition the path.

*Sequences.* `EnumerationsProofs` has what the others need of listings. `Ascending`
is a sequence of CHOOSEs, which exist and are unique (`Places`), so it lists its
set in order (`AscendingIs`). The community modules' `FlattenSeq` is a recursive
function, given a meaning by the sequence of its partial joins (`JoinsExist`,
`JoinsAgree`, `FlattenIs`), from which it follows how it grows by one part
(`FlattenAppend`) and that joining ordered parts in order is ordered
(`FlattenInOrder`). `LastPit` is a CHOOSE too. The induction theorems of the library
need an operator as argument; all these proofs use the least number of a set of
counterexamples instead (`LeastNumber`).

**Model-checked only.** Every invariant and every action property of the passing runs
is a theorem, and so is the refinement. Liveness under fairness is beyond the
installed provers and stays with TLC: `TerminatesUnlessBad`, `CollectionEnds` of
`Peers`, `EveryCallReturns`.

## 6. Not modelled

- *bgpkit, decompression, object_store, tokio and the SDK*: outside `src/`. Two
  of bgpkit's behaviours that matter (which errors leave the stream aligned, and
  that a header cut short is a clean end) are listed as hazards, and so is the
  SDK's default for resuming a `peers` producer. What `BlockOn` takes from tokio (who
  may block, who drives what) and `CloudAccess` from DuckDB (the longest scope wins)
  is marked external in the map.
- *URL parsing and local path expansion*: a path is given with its scheme, bucket and
  segments; the `glob` crate answers for local patterns.
- *Which addresses are internal*: the guard's table of address ranges is a predicate
  over one address (`is_internal_ip`). The model has addresses of two kinds, a host
  with any set of them, the override, and the order of guard and open.
- *A failing `build_batch`* (reader.rs:305): Arrow refuses a batch only if its columns
  do not fit the schema or differ in length. That they fit is what the `columns` run
  checks (`ColumnsFitSchema`), and every builder has one cell per row (`AddRow`), so
  `Emit` always returns its batch.
- *Malformed patterns*: the error of the `glob` crate for one, at bind time and in
  `list_glob`, stops a call as a missing file does.
- *The contents of a file* do not change during a scan; files appear and vanish whole.
- *String and integer cells*: the builders copy a field. Which field goes where is in
  `Schemas`.
- *Catalog metadata, entry points, the wasm wrapper, fixtures and tests*: no behaviour
  over time. Tests were read as statements of what the program promises.

## 7. Plan

Done, in this order: `MrtStream`, `MrtProducer`, `MrtScan`, `RowStream` and their
proofs; `Peers`; `Resolution` and `Relisting`; `CloudOptions`; `Inet`, `Columns`,
`Scalars` and their proofs; `Globs`, `CloudAccess`, `BlockOn`, `Schemas`, `Communities`;
the proofs of the checkpoints, of losslessness and of the refinement, and those of
`Peers`; `Enumerations` and the lemmas on listings and joins; the proofs of every
invariant of `Relisting`, `CloudAccess` and `Columns`.

Left: the safety part of `TerminatesUnlessBad` as a theorem, a rank of the producer's
state that every step of a scan without bad records lowers; a file that grows while
it is scanned, which needs a source whose last outcome changes between two reads;
and `peers` over http, once the SDK's answer to `resume_supported` is fixed.

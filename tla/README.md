# A TLA+ verification of goredact

goredact copies a byte stream and replaces the secrets it finds, in memory that
does not grow with the input. This directory holds TLA+ modules translated from
its source, TLC configurations that check them on small instances, and TLAPS
proofs of the properties that matter most. Offsets, sizes and counters are
integers; bytes are what the properties need to know about them (plain, masked,
a marker, a newline, a class of characters a grammar tells apart), never text.

## The system

| Part | Source | State it keeps | Operations | Interacts with |
|---|---|---|---|---|
| Streaming engine | `internal/goredact/engine.go` | the sliding buffer, queued candidates, collector, Writer, frontier | `Redact`: read, scan, validate, flush, compact, discard | reads `src`, drives the automaton, calls validators, `OnFinding`, writes `dst` |
| Span collector | `internal/span/span.go` | one slice of merged spans, sorted by start | `Add`, `Release`, `Earliest`, `Pending`, `Reset` | owned by one engine call, pooled between calls |
| Masking writer | `internal/span/writer.go` | expected offset, the span being redacted, counters | `Emit`, `BytesWritten`, `RedactedBytes` | called by the engine, writes `dst` |
| Trigger automaton | `internal/ahocorasick/ahocorasick.go` | two dense automata; the packed state of a scan | `Compile`, `Scan` | compiled by `New`, scanned by the engine chunk by chunk |
| Rule set | `internal/rules/rules.go` | the active rules and their largest window | `Build`, `validateRule`, `MaxWindow`, `MinChunkSize` | compiled by `New`; the engine relies on its window |
| Validators | `internal/rules/validators/*.go` | none | one pure function per rule, 67 of them | called by the engine with a window of the bytes around a trigger |
| Rule table | `internal/rules/zz_generated_rules.go` | none | triggers, lookbehind and lookahead of each rule | ties a validator to its triggers and its window |
| Entropy, placeholders | `internal/entropy/*.go` | none | scoring and classifying a token | called by validators |
| Stream command | `cmd/goredact/main.go` | open files, the success flag | open, scan, close, clean up, statistics | one engine, the file system |
| Directory command | `cmd/goredact/dir.go`, `report.go` | workers, `jobs`, `completed`, results, the report file | enumerate, scan in parallel, report | one engine per worker, the file system |
| Multipart upload (example) | `examples/multipartupload/upload.go` | the pipe, the result channel, the parts | scan, compress, upload, complete or abort | engine, encoder, storage client |
| API facade, profiles, masks | `api.go`, `internal/goredact/*.go` | configuration | `New` and its checks | builds all of the above |
| Tools, corpora | `tools/`, `internal/accuracy`, `internal/benchcorpus` | none | code generation, benchmarks | offline |

What is hard about it: the engine must give the same answer however its input
is cut into reads, with a buffer smaller than the redactions that pass through
it, and must leave only valid redacted output behind when a read, a write, a
validator or the caller ends the call; the collector must attribute merged
spans independently of the order of their confirmation; the Writer must survive
destinations that write short, fail or lie; a validator sees a window cut by two
numbers in a table and must answer as if it saw the text, beside others that
share its trigger; the directory scan and the upload
are concurrent and must stop cleanly from either side; the commands must not
leave partial files, whatever the names they are given are linked to.

## Modules

The composition, from the bottom up:

    Spans ── Collector (abstract) ◁── SpanCollector ── SpanCollectorInv
      │
      ├── SpanWriter ── SpanWriterInv
      └── Engine ── EngineInv ── EngineRefinement ──▷ Redactor (abstract)
    AhoCorasick ─┬─ TriggerMatch ── RuleSet ─┐
                 └─ AhoCorasickInv ──────────┴── RuleSetInv
    Windows ─┬─ Tokens ────────────┐
             ├─ Values ── Contexts ┤
             ├─ KeyBlocks ─────────┼── Validators
    RuleTable ─────────────────────┘
    DirScan ── DirScanInv                        MultipartUpload
    LinkedFiles ── StreamCommand, ReportFile ── Commands ── CommandsInv

A module `XInv` states the inductive invariant of `X` as named conjuncts, and
`XProofs` has the theorems about it. `SpansProofs`, which has the facts about
spans, least elements and flattened sequences, is shared by the proofs of the
engine, the collector, the Writer and the rule set.

Every `MC*` module gives a module's constants small values. Operators whose
comment says "Faulty" are not part of any specification: each is a plausible
bug of the code, put in place of the definition it stands before to show that a
property notices it.

### Spans, Collector, SpanCollector, SpanCollectorInv (`internal/span/span.go`)

`Spans` defines what merging means: `Touches` (ranges that overlap or abut),
`Beats` (the attribution order of `betterAttrib`), `AddSpan` (one insertion
into a set of merged entries) and `Components` (the merge of any set of ranges
at once, which knows no order of insertion). `Collector` is the abstract
specification: its state is the set of everything ever added and the limit of
the last release, and `Release`, `Earliest` and `Pending` are answered from the
components. `SpanCollector` is the code: `entries` is the slice, `Add` finds
the touched range `[lo, hi)` with two binary searches (`Search` is
`sort.Search`) and splices, `Release` cuts a prefix off. Its property
`ImplementsCollector` is the abstract specification with `entries` forgotten.

### SpanWriter, SpanWriterInv (`internal/span/writer.go`)

One action per part of `Emit`: the straddling remainder of a redaction begun
in an earlier call, each span with the plain bytes before it, the rest; below
them `writeAll`, one `Write` of the destination at a time, which may be short,
fail, or claim a count it cannot have written. The destination's content is
compared with `Rendering`, a definition by offset that knows nothing of calls.

### Engine, EngineInv, EngineRefinement, Redactor (`internal/goredact/engine.go`)

One call of `Redact`. `pc` follows the loop: `top` (context poll), `room` and
`full` (`makeRoom`: compaction, forced flush, discarding), `read`, `scan`,
`pend`, `flush`, and at the end of the input `drain` and `flush`. The buffer is
the pair `bufBase`, `bufEnd`; `entries` is the collector as module Spans has
it; `emitTo` and the Writer are `Rendered`. The input is fixed at the start and
read in whatever portions the source chooses; the trigger occurrences are part
of the input, each with the answer its validator would give *if it is shown its
whole window* — a validator that is shown less answers nothing, so a window
read short is a lost finding. `ReferenceFindings` and `ReferenceOut` say what
the input determines, without buffer, queue or order.

`EngineInv` has the inductive invariant in three layers (below).

`Redactor` is what the engine promises, with no buffer, queue or window in it:
the destination receives a prefix of the one output the input determines,
findings are final when they are reported and are reported before what replaces
them is written, and success is said only of the whole. `EngineRefinement` instantiates
it with `ReferenceOut` and `ReferenceFindings`; both runs of the engine check,
and `EngineProofs` proves, that every step of the loop is a step of it
or stutters (`ImplementsRedactor`). This is chunk independence: the abstract specification
does not know the portions.

### AhoCorasick, AhoCorasickInv, TriggerMatch, RuleSet, RuleSetInv

`AhoCorasick` is `internal/ahocorasick`: `Insert` (the trie of either kind),
`Resolve` (one state of the breadth-first queue of `finish`: outputs, fail links,
transitions), `ScanByte` and `NextChunk`. `MaxStates` stands for 2^16, and
transitions and the packed state are computed modulo it. `TriggerMatch` is
`compileTriggers` and the dispatch of `onTrigger` over that automaton.
`RuleSet` composes them with `New`, `Build` and
`validateRule`, in integers that wrap: from a configuration it selects and
validates the rules, sums their windows, compares the chunk size, fills the
trigger table, compiles the automaton, which may refuse, and searches an input.
`EngineCanRun` is what `EngineAssumption` takes for granted, and
`CandidatesAreOccurrences` is why Engine may take the trigger occurrences of
the whole input as the candidates, in the order of their ends.

Loops over patterns, rules and triggers are recursive functions in these modules
rather than the community modules' folds, which take operators, so that they can
be reasoned about. `AhoCorasickInv` explains the automaton by two values the code does not
keep: `words`, the path that leads to each node, and `done`, the nodes resolved.
`RuleSetInv` says what `Build` has chosen and summed at each stage, and what
the trigger table answers.

### Windows, Tokens, Values, Contexts, KeyBlocks (`internal/rules/validators`, `internal/entropy`)

A window is a sequence of byte classes with the places of the literals in it
that some rule or validator looks for, and the trigger's offsets. `Windows` has
the classes (`isAlnum`, `isTokenChar`, `isBase58`, ...), the scans (`RunEnd`,
`FirstIn`), placeholders and the tests of package entropy. `Tokens` has the
credentials with a prefix: a token is a sequence of segments, each a longest run
of a class within bounds, with what may not stand before and behind
(`fixedAlnumToken`, `runToken`, `consumeRun` and the validators that write the
same out), and the values of exact length assigned to a documented name
(`consumeAssignedValue`). `Values` has `parseAssignmentValue`, the tests for values that
name a secret instead of being one, and the four generic rules. `Contexts` has
headers, cookies, URLs and command lines, `KeyBlocks` PEM and PuTTY keys.
Every validator is one operator under its Go name, and answers a span or
`NoSpan`.

What is abstract there: a class letter stands for assorted bytes of its class, so
entropy is the number of symbols a value spreads over, which is what Shannon's
formula gives when they are equally frequent (3.4 bits need 11 of them, 3.7 need
13, 4.2 need 19); a list of keywords is one or two of its words (`example`
and `password` for placeholders, `process.env` for code, `_api_key` for
names, `csrf`, `2b` for the crypt identifiers); case is the matcher's business
(`TriggerMatch`); line counts of a PuTTY file are those of the texts.

### RuleTable, Validators (`zz_generated_rules.go`, `engine.go`)

`RuleTable` is the generated table, all 67 rules of it: triggers, lookbehind and
lookahead. `Validators` puts the two together as `onTrigger` and `validate`
do: at every occurrence of a trigger the rule's validator is asked about the
bytes as far as the rule looks, in any order, since an occurrence with a long
lookahead waits longer. Its properties compare the answer with that of the same
validator shown the whole text, and the answers of the rules with each other.

They hold of any text only under conditions, which are part of them, named, and
exact to the byte (the texts of the run lie on both sides of each):

- `WindowSuffices`: of a value behind a name (the seven rules of
  `consumeAssignedValue` and the three generic ones) the blanks around the
  separator must leave room in the window for the longest value and the byte
  after it, and no row of backslashes before a quote may reach the window's end
  (`ValueInSight`).
- `CutAtWindowEnd`: the lookbehind must show the place (`PlaceInSight`): a
  scheme's first byte, or a letter where the lookbehind begins; the semicolon
  before a cookie's name, or `ookie`. Where the window ends among blanks or
  backslashes it says nothing, nor of a value that begins beyond the window.
- `CookiePairsCovered`: of a later pair the semicolon must be in the
  lookbehind, of the first the value's end in the header's lookahead
  (`PairOfHeader`).
- `KeyBlockCovered`: of a PEM block up to the first byte no body holds
  (`Foreign`), and unless there is `Prose`, more than 24 short words in a row
  (`pemMaxShortRuns`); of a PuTTY file the private section, with no more lines
  than it announces.

What the code does beyond them is listed under Findings.

### DirScan, DirScanInv (`cmd/goredact/dir.go`)

The feeder, the workers, the goroutine that closes `completed`, and the caller
that collects. `HandOver` is a rendezvous on the unbuffered `jobs`; `completed`
is a buffered channel. What each file holds, and so how scanning it goes, is
part of the initial state. `Reference` is the report of a sequential scan.

### MultipartUpload, MultipartUploadProofs (`examples/multipartupload/upload.go`)

The scanning goroutine (engine, encoder, pipe, `result` channel) and the
uploading loop. The pipe is synchronous; what the encoder holds back until it
is closed is the `trailer`. `fail` closes the pipe's reader, waits for
the goroutine, aborts, and returns.

### LinkedFiles, StreamCommand, ReportFile, Commands, CommandsInv (`cmd/goredact`)

`LinkedFiles` is the file system as the commands can tell: names that are
files, symbolic links or absent, several of which may be one file; and what a
command on it keeps. `StreamCommand` is `runStream` with `sameFileName`, the
cleanup and `writeStats`. `ReportFile` is the report of a directory scan, from
the enumeration that excludes it to its cleanup, while other processes relink
its name and remove inputs. `Commands` is the program, which runs one of them.

## Runs

| Run | Question | Bounds, and why they are enough |
|---|---|---|
| `engine` | The loop implements the abstract redactor and keeps its contracts; default marker | Inputs of nine bytes, a buffer of six, a window of three: chains of two and three spans outgrow the buffer, gaps of zero, one and more lie between spans; every portioning, read error, write error, panic and cancellation |
| `engine_records` | The same with record alignment, one-for-one masks and unequal confidence; the inductive invariant on reachable states; the call ends | `RefInv`, all three layers of it. Two newlines, one before and one behind the buffer's middle; two zero-byte reads stand for 100 |
| `collector` | The slice implements the abstract collector | Three adds of all ranges in five offsets (`LastOffset`): a span that joins two others, ties in every component of the attribution order; releases in between at every limit |
| `writer` | Output and counters, with marker and with mask bytes | Four offsets in regions of at most three, two spans, a two-byte marker, illegal spans included |
| `new` | What `New` accepts, an engine can run; every trigger is found, once, at every chunking, by the rules it belongs to | Ints of seven bits; bounds and trigger lengths below, at and beyond each limit; automata of twelve states and of one more; rules of two triggers against rules of one over every input of four letters, deeper patterns over six |
| `validators` | What the window leaves out changes no verdict, under the conditions named below; tokens are claimed once; key blocks and cookie headers are covered | All rules on 16,487 texts: each token at the ends of its lengths, one below and one above, with every kind of neighbour; assignments, headers, URLs and command lines with values at the edge of the window and beyond; as many blanks around a separator as the window bears, some less and some more; schemes and cookie names as long as the lookbehind and longer; cookie headers of up to four pairs with the colon out of sight; key blocks with headers, encrypted ones too, raw and escaped breaks, prose, cut before and behind the END marker. Every rule confirms some of them |
| `dir_scan` | The report is the sequential one; everything ends | Three files, two workers: a worker scans two files, one fails while another is busy |
| `upload` | Complete only a whole, clean stream; both sides end | Parts of two units, three parts: streams below, at and above the limit |
| `commands` | Inputs, outputs and reports survive | Every way four names can be files, hard links and links; two disturbances: a swap before opening and one after, or a swap and a removal |
| `stream_stats` | *violation*, see Findings | The same without disturbance |
| `report_links` | *violation*, see Findings | The same without disturbance |
| `loose_tokens` | *violation*, see Findings | Values behind `token` of 20 to 257 bytes |

Bounded by name: `MaxConsecutiveZeroReads` and `MaxStates` are the code's own
limits made small (the validators' lengths and windows are the code's own, at
full size); `MaxAdds`, `MaxSpans`, `MaxOffset`, `MaxRegion`, `maxInput`
and `Disturbances` exist for TLC only.

Fairness. `engine_records`: the one goroutine of `Redact` keeps running (weak
fairness of its next step); a `Read` that neither returns data nor an error is
counted, so the run needs no assumption on the source beyond that its calls
return. `dir_scan`: feeder, each worker and collector keep running, opened
files are finite and their reads return. `upload`: both goroutines keep
running, the client's calls return; the caller's cancellation is never
assumed. Nothing is assumed of the order of goroutines.

## What is proved

For every value of the constants that meets the named assumption, inputs of any
length, any number of spans, files, workers, names and disturbances:

| Theorem | Statement |
|---|---|
| **EngineProofs** | `EngineAssumption`: a chunk holds two windows, every candidate's window fits in one (what `NewBuildsAnEngineThatCanRun` proves of `New`) |
| `Invariant`, `TypeCorrect` | `IInv` and `TypeOK`, the first layer |
| `NeverLeaks` | no byte of a secret that the whole input confirms is written plain, whatever error ends the call |
| `BufferNeverGrows` | the buffer stays at its capacity; `Read` always has room |
| `EveryWindowWhole` | validators see whole windows, triggers are never behind the buffer |
| `ReleaseIsSafe` | no span is added at or before the limit of an earlier `Release` |
| `QueueNeverLowersTheLimit` | the comment "structurally this never binds" |
| `SpanInvariant` | `SpanInv`, the second layer |
| `GapsAreCovered` | bytes dropped from the buffer before they were output lie inside the span at the emission frontier |
| `EmitIsToldWell` | the Writer is handed spans that lie ahead of its position and apart, as its contract demands |
| `OutputIsPrompt` | at the top of the loop the output is a window behind, or stands at a span that may grow |
| `ReferenceInvariant` | `RefInv`, the third layer |
| `FindingsAreInOrder`, `FindingsAreFinal` | `OnFinding` is called in order, with findings of the reference, and with all of them that start before the output's end |
| `Refinement` | the engine implements `Redactor` |
| **SpanCollectorProofs** | `CollectorAssumption`: spans as raw ones are, up to any `LastOffset`, confidence of eight bits |
| `CollectorInvariant` | `CollectorInv`: the slice is sorted, with gaps |
| `HoldsWhatIsDue` | it holds the components of everything added, less what ended by the highest limit released at |
| `SpliceRefinesAddSpan` | `Add`'s two searches and splice are `AddSpan`, which the engine's model uses |
| `CollectorRefinement` | the slice implements the abstract `Collector` |
| **SpanWriterProofs** | `WriterAssumption`: a marker is not empty; any regions, spans and failures of the destination |
| `WriterInvariant` | `WriterInv` |
| `DestinationRendered` | the destination holds the rendering by offset, and a prefix of it after an error |
| `CountersAreExact` | `BytesWritten` and `RedactedBytes` |
| **DirScanProofs** | `DirScanAssumption`: some worker, some file |
| `ScanInvariant` | `ScanInv` |
| `ReportsWhatIsThere` | a report is that of a sequential scan |
| `HearsRootCause` | a scan that fails names a failure, not the cancellation it caused |
| `ClosedAfterLastSend` | nothing is sent on `completed` once it is closed |
| **MultipartUploadProofs** | `UploadAssumption`: sizes and limits are positive |
| `UploadInvariant` | `UploadInv` |
| `CompletedIsWhole`, `EndsClearly`, `StopsBeforeVerdict` | the three safety properties of `upload` |
| **RuleSetProofs** | `MatcherAssumption`: folding twice is folding once, and there may be a state. `RuleSetAssumption`: built-in rules have distinct names and windows within `maxValidationWindow`, as `tools/rulegen/validate.go` and the rules' tests demand; a Config's numbers are Go ints; `maxStates` is at most `maxValidationWindow`, and twice that is an int |
| `RuleSetInvariant` | `NewInv`: `SetInv` of New and Build, `MatcherInv` of the automaton |
| `MatcherFindsEveryOccurrence` | every occurrence of every pattern is reported, once, in the order of the ends, at every chunking |
| `CompileRefusesOnlyWhatIsTooLarge` | `Compile` fails exactly for no pattern, an empty one, or too many states |
| `EveryRuleSeesItsTriggers` | a rule's candidates are the places of its triggers in the input |
| `NewBuildsAnEngineThatCanRun` | every window fits in `maxWindow`, and two of those in the chunk, whatever ints a custom rule declares |
| `NewBuildsWhatWasAsked` | the rules that run are those the Config names |
| **CommandsProofs** | `DisksAssumption`: no link leads to a link, and there is room for two new files |
| `CommandsInvariant` | `CommandsInv` |
| `InputsAreSafe` | no input of either command is written |
| `FailureIsClean` | a stream that fails leaves none of its output |
| `OutputIsKept` | a stream that succeeds leaves all of it, if no link dangled |
| `ReportIsKeptOnRefusal` | a refused report, or a failed scan, changes no file |

Each of these invariants was checked by TLC on the instance of its run before
it was proved (`MatcherInv` with `words` and `done` computed from the tries and
the queues); `RefInv` still is, by `engine_records`.

**The engine, first layer.** `NoLeak` speaks of the output alone and is not
inductive. What keeps a secret's bytes from being written is that each of them
is *settled* (`Settled`: behind the frontier and so masked already, inside the redaction
the Writer has in progress, or in an entry that is still held) once its
candidate has been validated (`Accounted`), and that no other candidate can
still start at or behind the release limit (`AheadOfFrontier`). That in turn
needs the candidate's whole window in the buffer, so the compaction and the
discarding must keep `Window` bytes; the latter is only possible because a
buffer that is full with nothing to emit is pinned by one span (`Pinned`).
`Queues` says which candidates can be waiting where in the loop, `Bounded` that
nothing lies beyond what was read. The proof has one lemma per action;
`FlushStep` is shared by the four places that flush.

**Second layer.** Held and reported spans lie apart, none is empty, what has
been released ended by the frontier and what is held did not (`Ordered`), and
the Writer's straddling span is the last it was handed (`Handed`). From this
follow `GapCovered`, `WriterContract`, `FindingsInOrder`, and, carried from a
flush to the next read, promptness (`Prompt`).

**Third layer.** Whatever the order of confirmation, what is held and what was
reported are the *components* of the spans confirmed so far (`Merged`); a span
yet to be confirmed begins beyond the frontier (`StillAhead`), so a component
that has been released is one of the whole input. With that, each flush prints
the reference up to `emitted` (`Printed`) and reports findings of the reference
(`FoundExactly`), and each step is a step of `Redactor` or stutters. `Printed`
and `Refinement` exclude one strategy by hypothesis, masks that keep a byte's
format: a byte discarded from the buffer has lost its shape, and there the
code does depend on the portions (see Findings).

**Spans and collector.** `SpansProofs` shows of any set of spans that adding one
to a set that lies apart leaves a set that lies apart, covers the union, and
keeps the best attribution; that components are unique and survive the
addition of a span; and, by least elements (`Inductive`), that every span lies in
a component. `SpanCollectorProofs` shows what `Search` returns on a sorted slice
(`lo` and `hi` bound exactly the entries that touch), what the fold over them
absorbs, and that the splice keeps the slice sorted.

**Writer.** At every point of `Emit`, what the destination holds followed by what
`writeAll` still has to write is the rendering up to the offset that the
current part of the call ends at (`Target`); every accepted span lies behind
the position but for one that straddles it and one whose bytes are being
written (`Accepted`), which is what makes the counters exact.

**Directory scan.** Three things have to agree: why the scan is stopped, a cause
that has reached the caller or waits in the channel (`Reasons`); where each file
handed out has got to (`Tracked`); and what the results hold of it, nothing left
from the worker's previous file (`Faithful`).

**Upload.** `UploadInv` ties the pipe's state to the scanner's position and
to what the caller has taken: parts and pipe together are a prefix of the
stream, the pipe is closed cleanly only after the trailer, and a result is in the
channel exactly when the goroutine is done.

**Commands.** The stream command touches so little that the file system is at
every point a function of the one it started on and of how far the command has
come (`StreamStage`); what remains is to show of that function what the checks
of the names (`OptionsApart`) rule out. `OutputIsKept` needs the absence of
dangling links exactly where two names reach one file that does not exist yet,
the case of the finding `stream_stats`. Of the report: a name other than the
report's is what it was, or gone, or leads to the file created for the report;
no file but the one behind the descriptor has been written; and that one is none
of the inputs compared so far, which before the truncation are all of them
(`ComparedApart`).

**Matcher.** A trie is a tree whose nodes, numbered from the root down, are
named by their paths, no two alike (`Named`); the nodes are the prefixes of the
patterns inserted (`Spelled`), and a node's own outputs are the patterns it
spells (`Owned`). `AddNode` and the walk of a literal keep that, and a walk that
finds no room has met more prefixes than there are states. `finish` resolves
nodes from a queue that holds the children of the resolved ones, level by level
(`Queued`). A resolved state goes, on any byte, to the *longest suffix that has a
node* of its path and the byte; a queued one fails to its longest proper suffix
that has one (`Resolved`); so the outputs it joins are those of every suffix
(`OutputsAll`). The breadth-first order is what makes this work: a fail link is
shorter than its node, so it is resolved first (`Shallowest`). From there a
half of the packed `State` stands for the longest suffix of the input scanned
(`Scanning`), of which every pattern that ends there is a suffix (`Reports`).

**Trigger table.** Triggers with one key match alike (`OneKeyAlike`), and two of
one kind and length that end in one place have one key (`OnePlaceOneKey`). The
table keeps one pattern for each key, with the rules that ask for it in
ascending order, each once (`Tabled`), so looking at the last rule entered is
enough to tell a repeated trigger. A match is turned back into the sight of a
trigger of each of those rules; two matches give a rule the same place only if
its triggers mix kinds.

**Rule set.** `Chosen` says which names `Build` has let through and that each
rule was accepted by `validateRule`, which leaves two ways: its windows fit, or
the check wrapped. The second needs a trigger longer than
`maxValidationWindow`; but a pattern the automaton accepts is a path in a trie,
shorter than `maxStates` (`TriggersAreShort`), so no engine is built of such a
rule. With that every window sum of an engine is one of the integers
(`FitsIsASum`), and the maximum and the chunk's minimum are what they seem.

Only model-checked: the validators (run `validators`), pure functions whose
definition is a few hundred patterns of text; there is no state to induct over,
and what a pattern of theirs matches is a case analysis over windows of any
length that TLC makes on texts chosen for it. Liveness (`Terminates`,
`EverythingEnds`) is out of the prover's reach, as is any statement about
`ENABLED`.


## Findings

Where the code and what the repository says of it part ways; each is a run.

- `stream_stats`: `-stats` and `-output` that are links to one file that does
  not exist yet are not recognised as the same, and the statistics replace the
  output. Where no link dangles the property holds (`OutputSurvivesWithoutDanglingLinks` in run
  `commands`), as far as names are in one directory: see Not modelled.
- `report_links`: a report that fails half way stays reachable if its name was
  a link: the name is removed, the file is not emptied as in stream mode.
- `loose_tokens`: the rule for `token` looks 200 bytes ahead and accepts values
  of 256. Of a longer unquoted value the part beyond the window stays in the
  clear; a quoted one is not redacted at all.

Met while modelling, and not the subject of a run:

- With format-preserving masks the output of a redaction longer than the buffer
  depends on the portions it was read in, since dropped bytes are masked as
  `*`. DESIGN.md and THREAT_MODEL.md state independence without exception;
  `writer.go` describes the degradation. `ImplementsRedactor` is therefore
  checked and proved for the two other strategies; the other proofs hold for all
  three.
- `validateRule` computes `maxValidationWindow - MaxLookbehind - trigger`
  "by subtraction" so as not to wrap; with a lookbehind near `MaxInt` and a
  trigger longer than the window limit it wraps all the same. `New` still
  refuses the rule, through the automaton's state limit (`EngineCanRun`).
- `GenericPasswordAssignment` lowers the least length to 8, which no value
  reaches: 3.4 bits per byte take eleven different bytes.
- Two Bedrock rules and the CircleCI rule have no lookbehind and ask nothing of
  the byte before their trigger, and the rules of `ai.go` accept an underscore
  there, unlike `docs/RULE_AUTHORING.md:20-24`.
- Headers longer than 512 bytes, flags' values longer than 200 and JWTs longer
  than 8192 are cut or missed at the window, as `CutAtWindowEnd` allows; no
  document promises more.
- A later pair of a cookie header is missed when more than 58 bytes of its name
  come before the word that triggers it, as in the names Amazon Cognito makes
  (`CognitoIdentityServiceProvider.<26 bytes>.<36 bytes>.accessToken`): the
  semicolon is out of the 60 bytes of lookbehind, and `cookiePairContextOK`
  refuses. The comment at `contextual.go:27-33` says otherwise: "each qualifying
  pair produces its own trigger occurrence and therefore its own span".
  `CookiePairsCovered` is violated by the texts of the run as soon as its bound
  on the name is one byte longer.
- A URL's scheme of more than 16 bytes is judged by its last 16: if these begin
  with a digit, `+`, `-` or `.`, the password behind it is not redacted.
- `consumeAssignedValue` and `parseAssignmentValue` skip any number of blanks,
  and these use up the lookahead: 17 of them around the separator and an
  unquoted key of 32 bytes assigned to `DD_API_KEY` ends with the window,
  whose end passes for the key's (the first 32 bytes of a longer value are then
  redacted); with 18 or more the key is missed. No document says how much
  alignment a configuration file may use.

## Not modelled

- The output lag: README.md says it is at most one window. A redaction that
  grows is held whole, so the sentence holds only of what is not redacted, which
  `EmitsPromptly` states.
- Inside the engine's model validators are arbitrary: it quantifies over their
  answers, of custom rules as well. `Validators` has the built-in ones, in
  windows that are whole (which is `EveryWindowWhole`).
- Of package entropy: frequencies within a value, ascending and keyboard runs
  (which reject some long random values), `Classify`'s base64 class, which no
  validator asks for.
- Corpora and the development tools: offline and sequential. The API facade:
  aliases and names; `New` is in RuleSet.
- Formats of reports and messages, flag parsing, the progress reader: wording.
- Pooling of scan states between calls of one engine: `Reset` is modelled in
  SpanCollector, the pool is not.
- Directory links. On the way to a report `canonicalizeReportPath` resolves
  them, and names in ReportFile are canonical already. The stream command has
  no such step: with `d2` a link to the directory `d1`, the names `d1/o` and
  `d2/o` of a file that does not exist yet are the same hole in `sameFileName`
  as a dangling link, so `OutputSurvivesWithoutDanglingLinks` and the theorem
  `OutputIsKept` speak of names without a directory link on their way. Names
  of files that exist are compared as files, through any directory.

## Plan

Built: the engine, its parts and its abstract specification, the concurrent
programs around it, the commands' files, the rule set and the matcher, all with
their safety properties proved; the validators, model-checked.

Left, in this order:

1. `EnginePool`: several calls on one engine, scan states taken from the pool,
   `OnFinding` shared.
2. `Enumerate`: the directory walk with exclusions, skipped paths and files
   that change meanwhile; `RuleGen`: the generator's validation.
3. `Validators` with the collector behind it: which rule a text's spans are
   attributed to when a contextual rule and a token rule both claim a value.

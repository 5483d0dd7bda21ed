# Verification of the HEVC range-extensions codec for light fields

This directory holds a TLA+ development about the codec of this repository: the
HM reference software for HEVC (range extensions), changed to code the
sub-aperture images of a 4D light field as a video. It contains specifications
of parts of the code, configurations that check them with TLC on small
instances, and proofs that TLAPS checks.

All paths below are relative to `src/source`.

## 1. The system

| component | files | state | operations |
|---|---|---|---|
| decoder application | `App/TAppDecoder/TAppDecTop.cpp` | POC last displayed, `m_iSkipFrame`, the list it was given, `loopFiltered` | main loop over NAL units, `xWriteOutput`, `xFlushOutput` |
| decoder control | `Lib/TLibDecoder/TDecTop.cpp` | the members of `TDecTop`: flags for the first slice of a picture, sequence and bitstream, `m_prevPOC`, `m_prevTid0POC`, `m_pocRandomAccess`, `m_pocCRA`, the slice pilot | `decode`, `xDecodeSlice`, `executeLoopFilters`, `xActivateParameterSets`, skipping, concealment |
| decoded picture buffer | `m_cListPic`, `Lib/TLibCommon/TComSlice.cpp`, `TComPic` | a list of pictures with the marks *reconstructed*, *needed for output*, *referenced*, *long-term*, *used by current* | `xGetNewPicBuffer`, `sortPicList`, `applyReferencePictureSet`, `checkThatAllRefPicsAreAvailable`, `setRefPicList` |
| parameter sets | `ParameterSetManager` in `TComSlice.h/.cpp` | maps of VPS, SPS and PPS with a changed flag each, the active identifiers | store, activate, check and clear the flags |
| SEI messages | `TLibEncoder/SEIwrite.cpp`, `TLibDecoder/SEIread.cpp`, `TDecTop.cpp` | queue of prefix SEI NAL units | written before a picture, parsed when the first slice after them is activated |
| NAL units, byte stream | `AnnexBread.*`, `NALread.cpp`, `NALwrite.cpp`, `AnnexBwrite.h` | position in the stream | start codes, emulation prevention |
| high-level syntax | `TDecCAVLC.cpp`, `TEncCavlc.cpp`, `SyntaxElementWriter/Parser` | none, but for the file `shortTermRefPicSetInfo.bin` that both sides open | parameter sets, slice headers, POC derivation, reference picture sets |
| arithmetic coding | `TEncBinCoderCABAC.cpp`, `TDecBinCoderCABAC.cpp`, contexts | interval, bits outstanding | encode and decode bins |
| coding tree | `TEncEntropy`, `TEncSbac`, `TDecEntropy`, `TDecSbac`, `TEncCu`, `TDecCu` | bins, statistics of the Golomb-Rice parameters, flags for a QP to be sent | the syntax of a CTU, written and read |
| coding unit data | `TComDataCU.cpp`, `TComMotionInfo.cpp`, `TComTU.cpp`, `TComPattern.cpp` | arrays over the units of a CTU | neighbours, QP prediction, merge and motion vector candidates, tree of transform units |
| tiles, slices, wavefronts | `TComPicSym.cpp`, `TDecSlice.cpp`, `TEncSlice.cpp` | address maps, saved contexts | scan conversion, substreams, synchronisation |
| light-field order | `TComPic.cpp` (spiral), micro-image buffers | position in the spiral | copy of sub-aperture images |
| sample reconstruction | `TComTrQuant.cpp`, `TComPrediction.cpp`, `TComLoopFilter.cpp`, `TComSampleAdaptiveOffset.cpp` | samples, residual buffers, strengths of edges | prediction, transform, quantisation, filters in place |
| encoder control | `TEncTop.cpp`, `TEncGOP.cpp` | list of pictures, GOP position, POC of the last refresh | picture buffer, coding order, reference picture sets |
| rate control | `TEncRateCtrl.cpp` | bits left in sequence, GOP, picture | allocation and update |
| encoder search | `TEncSearch.cpp`, `TEncCu.cpp` | samples, costs | choice of modes |
| applications, tools | `TAppEncoder`, `TAppCommon`, `TVideoIOYuv`, `utils`, Matlab scripts | files | options, input and output |

The program has one thread. What is hard about it is not interleaving but the
order of calls that a bitstream can cause: the decoder finds out that a picture
is complete only when it parses the first slice of the next one, so the state
of three pictures (the one finished, the one that starts, those waiting for
output) is changed in one turn of the main loop, which then seeks back and
reads the same NAL unit again. Sequences may start with IDR, CRA or BLA
pictures, with or without an end-of-sequence NAL unit, with leading pictures
that cannot be decoded; pictures may be lost; parameter sets may be sent
between any two slices; POCs repeat in every sequence and are coded by their
least significant bits. Many members are set by one of these events and used
after another one. The hazards in `PROJECT.json` list the places.

Per component, the properties that make it correct:

* parameter sets: an identifier that a slice names has the same meaning for all
  slices of a picture, whatever is stored in between; the sets of the picture
  stay there. That all slices name the same sets, and that an SPS is replaced at
  IRAP pictures only, is up to the bitstream: the comments say that the decoder
  checks it, but it does not (section 3);
* decoded picture buffer: no picture that waits for output or is referred to is
  overwritten; a reference is the picture the encoder meant; the buffer is
  bounded;
* decoder control: a buffer holds slices of one picture, its POC is the one the
  encoder gave it, nothing decodable is skipped, no assertion fails;
* application: every picture that must be output is written once, whole, in
  output order and in time;
* NAL units and byte stream: no start code within a NAL unit, the reader returns
  what the writer was given, substreams are cut where they were joined;
* arithmetic coding: the decoder returns the bins the encoder was given, in
  spite of carries;
* headers: what the encoder has in its objects is what the decoder reads into
  its own, whatever the options; no assertion of either fails;
* coding tree: the decoder reads every bin as what it was written as, although
  both derive contexts, predictors and what is absent from neighbours;
* reconstruction: both sides have the same samples; filters that work in place
  do what they would do on a copy; lossless samples survive;
* encoder control: each picture is coded once, after the pictures it refers to,
  which both sides still hold, whatever part of the stream a decoder is given.

## 2. Modules

Arrows show EXTENDS (left of an arrow, the module that is extended).

| group | modules | what they model |
|---|---|---|
| parameter sets | `ParameterSets` → `ParameterSetsProofs`, `MCParameterSets` | `ParameterSetManager` and the calls `TDecTop` makes of it |
| decoder | `DecodedPictureBuffer` → `Decoder` → `MCDecoder` (with the streams that are its inputs); `PictureOutput`; `Decoder` → `DecoderLemmas` → `DecoderProofs` → `DecoderOutputProofs` | list of pictures; `TDecTop` and the main loop; what is promised of the output |
| encoder | `DecodedPictureBuffer` → `EncoderGOP` → `MCEncoderGOP` | the checked GOP structure, the encoder's list of pictures, the order of coding, and the decoders that receive the result |
| headers | `Syntax` → `ParameterSetSyntax` → `EncoderSettings`, `SliceHeaderSyntax` → `SliceSettings`; `Syntax` → `SEISyntax`; all → `Headers` → `MCHeaders` | options, the objects made of them, what is written of these and read again |
| NAL units | `NalUnitBytes` → `NalUnit` → `NalUnitProofs`, `MCNalUnit`; `NalUnitBytes` → `ByteStream` → `ByteStreamProofs`, `MCByteStream` | one unit; units in a file |
| arithmetic coding | `Cabac` → `CabacProofs`, `MCCabac` | the arithmetic encoder of a substream and its decoder |
| coding tree | `Residual` → `CodingUnitData` → `MotionPrediction` → `TransformTree` → `Transform`; with `PictureLayout` → `SampleAdaptiveOffset` → `CodingTreeWriter` → `CodingTreeReader` → `CodingUnitSearch` → `CodingTree` → `MCCodingTree` | the data of a picture, what is written of them and read again |
| reconstruction | `CodingUnitSearch`, `Deblocking` → `Reconstruction` → `MCReconstruction` | the samples of a picture on both sides, and the filters |

`MCSettings` draws the settings of small pictures for the last two groups.

### ParameterSets

State: three maps from identifiers to an entry (content and changed flag), the
active identifiers, the sets the open picture was created with (`picture`) and
its last slice header was parsed with (`header`), and, for the properties only,
those of the last IRAP picture (`sequence`). One action per operation: `DecodeVPS`, `DecodeSPS`, `DecodePPS` (a set is
stored: `storePS`, `calculateParameterSetChangedFlag`), `FirstSlice` (flags are
cleared, `activatePPS`), `NextSlice` (a slice that names any PPS; the flags of the
picture's sets are looked at), `SliceWithoutSets`, `EndPicture`. The
content of a set is a sequence of bytes, because the code compares bytes.

### Decoder

The bitstream is a constant sequence of NAL units, chosen in the initial state
from the set `Streams`, with the settings of its SPS; the decoder reads it at
`pos`. One step is one turn of the main loop, `TAppDecTop.cpp` lines 130 to 276:
`decode`, then completion of the picture, output, discarding, flush, as `Loop`
states them in the order of the code. There is one action per outcome of
`decode`:

| action | code |
|---|---|
| `IgnoreNal` | a NAL unit above the target layer, or of a type that changes nothing here |
| `EndOfSequence` | `NAL_UNIT_EOS` |
| `SkipSlice` | `isRandomAccessSkipPicture`, `isSkipPictureForBLA` |
| `FindNewPicture` | "exit when a new picture is found": the position does not move |
| `DecodeSlice` | the rest of `xDecodeSlice`: concealment, buffer, marking, references |
| `Finish` | after the loop |

`dec` holds the members of `TDecTop`, `app` those of the application. A picture
record has the marks of `TComPic` and the NAL units decoded into it, which only
the properties read. What the bitstream contains beyond what is coded (the full
POC, the number of the picture and of the sequence) is read only by the
properties, too. An assertion that fails, a search that leaves the list and
concealment that does not end set `status`.

Data that is abstracted: samples, slice types (a slice predicts from all entries
of its reference picture set that are marked as used), parameter sets (one SPS),
field pictures, SEI messages.

`PictureOutput` has two variables, the pictures that wait and those delivered,
and one action, `Step`: pictures are delivered in output order, others become
ready or are discarded, all in one step, as in one turn of the main loop. Its
`Safety` is that every step is a `Step`; its `Spec` adds that no picture waits
forever.
`Decoder` implements it under the mapping at its end.

### EncoderGOP

`Init` takes a configuration through `xCheckParameter`: the GOP entries, whether
a structure is accepted at all, the extra reference picture sets for the
pictures at the beginning (`createdRPS`), the number of reordered and of kept
pictures per layer. Then `Receive` is the loop of `TAppEncTop` that hands frames
to `TEncTop::encode` until a GOP is full, `EndOfFile` its end, and `CodePicture`
and `SkipPicture` one turn of the loop of `compressGOP`: NAL unit type, choice of
the reference picture set, leading pictures, the marks, the lists, temporal
switching types. The option `EfficientFieldIRAPEnabled`, on by default, changes
the marks of frames, too: after an IDR picture, the first picture put out after
it ends the use of the leading ones (`RefreshMarking`). The rest of the option
concerns fields. `dpb` is the list of `DecodedPictureBuffer`, whose operators
model the functions of `TComSlice` that both sides share. `decoders` is a set of
readers of the stream: one that starts at each random access point, for each
highest layer, and those that take a layer up again at a TSA or STSA picture.
`failed` says what went wrong first: an assertion, an array that is too short, a
division by zero.

### Headers

A function that writes a header and the one that reads it are each a table: the
list of syntax elements, the field each carries, and the condition under which
it is there (`Syntax`). The reader's table depends on what it has read, so it is
computed again after every field. `xCheckParameter`, `xInitVPS`, `xInitSPS`,
`xInitPPS` (`EncoderSettings`) make parameter sets from options, `initEncSlice` and
`compressGOP` (`SliceSettings`) slice headers, including the weights of weighted
prediction from statistics of the pictures. An object is a function from the
names of fields to integers. `Headers` composes them: the options are checked,
units are written (`WriteUnit`), the encoder ends, and another program parses
them (`ParseUnit`). The two share the stream and the file
`shortTermRefPicSetInfo.bin`: with `RM_OPTIMIZE_REF_SAIS` the encoder appends the
reference picture sets of the SPS to that file, and the decoder reads it from
its beginning. `phase` becomes "aborted" or "crashed" when an assertion fails, a
value does not fit its element, or a null pointer is used.

### NalUnit and ByteStream

`NalUnit` takes one unit from the encoder to the decoder, byte by byte as the
loops of `write` and `convertPayloadToRBSP` do: `WriteHeader`, `WriteByte`,
`EndWrite`, `PadWithCabacZeroWords` (the number of words depends on the number
of bins, so it is any up to a bound), then `ReadByte`, `ReadBehindEscape`,
`DropLastEscape`, `EndRead`, and `ParseEntryPoints` for the end of
`parseSliceHeader`. `unit` holds the written bytes, `read` the loop of the
reader. A slice is given with the ends of its header and its substreams, each
of which ends in a byte that is not zero, because of the alignment bits.
`StartCodeEmulations` and `EntryPointOffsets` are what the encoder computes
from the substreams before the unit is written.

`ByteStream` begins with whole units and writes them with start codes
(`WriteUnit`; padding, which this encoder does not write but its reader skips,
is added freely), then reads the file: `in` is an `InputByteStream`, with the
position of the file, the bytes looked at ahead and the state of the stream;
`Fetch` is `eofBeforeNBytes`. One action per loop of `_byteStreamNALUnit`
takes one byte; `EndOfFile` is the exception. `Decode` and `FindNewPicture`
end a turn of the main loop: the latter seeks back by three bytes. That a unit
is found to start a new picture at most once, and never the first one, is what
`Decoder` does. `UnitIsLegal` of `NalUnit` is the assumption on the units here
(both by `Legal` and `EndsInNonZero` of `NalUnitBytes`).

### Cabac

First the encoder is called (`CodeBin`, `CodeBypass`, `CodeBypasses`,
`CodeTerminate`, `CodeAlign`, `CodeSample`), then the substream ends (`CodeEnd`:
terminating bin, `finish`, byte alignment), then the decoder is called for the
same kinds of bins (`ParseBin` and so on, `ParseEnd`). `enc` and `dec` hold the
members of `TEncBinCABAC` and `TDecBinCABAC`, the bitstream and the context
states; each function of these classes is an operator from one state to the
next. The bitstream is the sequence of its bits: that `TComOutputBitstream` holds
less than a byte back is left out. Shifts are products and quotients by
powers of two; `low` stays below 2^21 between calls and below 2^30
within one, so 32 bits do not wrap. The loops over several bypass bins are
folds over chunks of eight. What an assertion would find is kept in fields of
`enc` and `dec`. A PCM block is one sample of eight bits (the sizes of real
blocks are multiples of eight bits, too, as `start` asserts). `align` is
followed by bypass bins only, as in `codeCoeffNxN`.

The decoder takes PCM samples from where its byte pointer stands. The encoder's
last bits before them are the rest of `low` and a stop bit, padded to a byte;
that these are exactly the bytes which the decoder has fetched ahead is part of
`SubstreamSurvives`.

### The coding tree

Here the arithmetic coder is a queue of pairs, a context and a value (`Residual`): a
reader that takes a pair with another context than it was written with has lost
the stream. Each module takes a writer and a reader from the code:

* `Residual`: `codeCoeffNxN` and `parseCoeffNxN`, with the scans, the contexts,
  the Golomb-Rice parameters and their statistics, and sign hiding
  (`signBitHidingHDQ`);
* `CodingUnitData`, `MotionPrediction`: `TComDataCU`, one record for every unit of
  a CTU in z-scan order: neighbours across CTUs, slices and tiles, QP and intra
  mode predictors, merge and motion vector candidates, with the collocated
  picture's motion as `compressMotion` leaves it;
* `TransformTree`: `encodeCoeff` and `decodeCoeff`, the tree of `TComTU`, cbfs,
  delta QP, chroma QP adjustment, cross-component prediction;
* `SampleAdaptiveOffset`: the parameters of a CTU, coded, read and merged;
* `CodingTreeWriter`, `CodingTreeReader`: `xEncodeCU` and `xDecodeCU`;
* `CodingUnitSearch`: `xCompressCU` and what the search leaves in a coding unit;
* `PictureLayout`: tiles, slices, slice segments, substreams.

`CodingTree` composes them over the pictures of a video: `Compress` (one CTU),
`SAOProcess`, `Encode` (one CTU with its end-of-slice-segment bin), `Decode`,
`compressMotion`, `Finish`. `encoder` and `decoder` each hold their own data and
the state of their entropy coder: current, stored for the next row of CTUs
(`sync`), and at the end of a slice segment (`last`). The statistics stand for
all of that state, since context models are saved, restored and reset together
with them.

The encoder chooses by cost, and cost depends on samples. Any of the choices
the syntax allows may be the cheapest, so a choice is drawn: `Draw(x, k, n)` is a
hash of the picture, the place and the question. A step is thus deterministic
and TLC explores as many codings as there are seeds, instead of all of their
product. What follows from a choice (the QP that a skipped CU gets, the cbf of a
parent, the merge index that becomes a skip) is what the code makes of it.

### Reconstruction

`Compress` codes one CTU: the residual is the difference of an original and a
predicted plane, and `Transform` (`TComTrQuant`: matrices and butterflies,
quantisation with and without scaling lists, transform skip, RDPCM, rotation,
cross-component prediction) turns it into levels and back. `Decode` takes the
data and levels of a CTU and does what `TDecCu` does (first half of `Reconstruction`): intra
CUs block by block, inter CUs at once, the residual from `m_ppcYuvResi` of the
depth, which every CU of the depth uses in turn; PCM and lossless CUs. Then
`DeblockVertical`, `DeblockHorizontal` (`Deblocking`), `SAOProcess` and
`PCMLFDisableProcess` go over the picture, as `TDecGop::filterPicture` calls them.
The two sides share the formulas of the inverse transform and of the filters,
as the programs share `TLibCommon`; they differ in the order of blocks, in what
they know of a block and in the buffers they use.

Prediction itself is drawn, the same for both sides: what is modelled is which
samples of it each side asks for, not how they come from other samples.

## 3. What the runs check

`Spec` of `Decoder` and of `ByteStream` assumes weak fairness of `Next`: the main
loop is a `while` that always takes another turn until the file ends, and each
step is one turn of it, or of a loop inside it. `Termination` and `AllUnitsTaken`
therefore fail only if the loop itself goes round for ever, which the seek back
makes possible. The other specifications have no liveness property and no
fairness. `CHECK_DEADLOCK FALSE` is set where the program ends.

| run | question | bounds, and why |
|---|---|---|
| `parameter_sets` | does an identifier mean one set for all slices of a picture? | two identifiers and two contents of each kind, so that a set can be replaced by another and by itself; every slice may name every PPS |
| `decoder` | buffer, POC, references, output | three sets of streams. *Orders*: an IDR picture and five more (the buffer holds four: every picture's buffer is used again), every order with one picture reordered, at most two kept, 2 LSBs so that they wrap, then a second sequence. *Random access*: two sequences of up to six pictures, starting with IDR, CRA or BLA, with leading pictures and end of sequence: what is stale after the first shows in the second. *Features*: temporal layers of which one is decoded, slices and dependent segments, long-term references half an LSB cycle apart, one or two pictures lost |
| `encoder_gop` | does every decoder hold what it needs, whatever the GOP structure and wherever it starts? | about 140 structures of one to three pictures in every order, with up to three layers and up to three references from the two GOPs before, and the shipped random access and low delay structures; six combinations of intra period and refresh type; `EfficientFieldIRAPEnabled` on and off; seven frames (three GOPs of the longer ones), so that sequences start again, GOPs are cut off, and buffers are used again |
| `headers` | does the decoder read the parameters the encoder has? | fifty sets of options, each different from the default in a feature or two; lists of coefficients shortened to three (`CoefNum`) |
| `coding_tree` | does the decoder read the coding tree that was written? | 200 videos of an I, a P and a B picture, up to 3 × 3 CTUs of 16 or 32 samples, CUs down to 8, transforms down to 4; tools, tiles, wavefronts, slices and segments drawn. One in two or three videos uses each tool, so every pair of tools occurs |
| `reconstruction` | do both sides have the same samples, and do filters in place do what they should? | 150 pictures of at most 2 × 2 CTUs; bit depths 8 to 12; QPs over their range; originals that are predicted exactly, nearly, or not at all |
| `nal_unit` | is a written unit free of start codes, is it read as it was sent, are substreams cut where they were joined? | bytes 0, 3 and 4; payloads of up to six bytes (two escapes next to each other, one at the end), slices of header and three substreams, whose escapes move the entry points; up to two cabac_zero_words |
| `byte_stream` | do the units arrive whole and in order, although the position is corrected by hand? | up to three units, also empty ones, zero to three bytes of padding at each place: the reader looks four bytes ahead |
| `cabac` | does the decoder return the bins, does it end on the last byte? | every sequence of up to five calls; values that bring `low` next to a byte boundary, so that carries run through several bytes 0xff, in `writeOut` and in `finish`; two first states of a context |

The properties are stated with their meaning in the modules:

| module | properties |
|---|---|
| `ParameterSets` | `TypeOK`, `SameIdSameSet`, `ActiveSetsOfPicture` |
| `Decoder` | `OnePicturePerBuffer`, `POCRight`, `OutputOrder`, `WholePictures`, `EveryPictureComesOut`, `ReferencesRight`, `OutputInTime`, `BufferAlmostWithinLimit`, `NothingFails`, the refinement `ImplementsOutput`, the liveness property `Termination` |
| `EncoderGOP` | `DecodersHaveReferences`, `OutputInOrder`, `NothingFails` |
| `Headers` | `EncoderNeverAborts`, `ParametersArrive`, `SlicesArrive`, `MessagesArrive` |
| `CodingTree` | `CodingTreeArrives`; `MergeInParallel`: what a prediction unit takes over does not depend on the others of its merge estimation region |
| `Reconstruction` | `NoDrift`; `ResidualArrives`: the error of a residual is bounded by the quantiser's step; `ButterfliesMatchMatrices`; `DeblockedInParallel`: filtering in place equals filtering all edges at once; `OffsetsFollowNeighbours`; `LosslessSurvives` |
| `NalUnit` | `UnitIsLegal`, `ReaderAccepts`, `PayloadArrives`, `SubstreamsFound` |
| `ByteStream` | `UnitsArrive`, `BytesCounted`, and the liveness property `AllUnitsTaken` |
| `Cabac` | `EncoderAsserts`, `SubstreamSurvives`, `SizeIsPredicted` |

The bounds leave out, and the properties therefore do not speak of:

* `encoder_gop`: field coding; structures in which a picture of a higher layer is
  put out later than one of a lower layer that is coded after it (`"layers"`,
  below), or in which all references of a picture on one side are of higher
  layers (`PredictsFromLayer`; below).
* `coding_tree`: 4:2:2, more than one seed for each video.
* `reconstruction`: 4:2:2, extended precision, scaling list values below 16,
  rate-distortion optimised quantisation; filter offsets that change from slice
  to slice. Blocks with a clipped level are excluded from `ResidualArrives`, as
  no bound holds for them.
* `headers`: options the checks of profile and level would refuse are accepted;
  long-term reference pictures, which this encoder never codes.

### Where the code does not do what its comments say

Three runs expect a violation; `PROJECT.json` quotes the comments.

* `parameter_sets_long`: `calculateParameterSetChangedFlag` compares
  `pOldData->size()` with itself, so a set that continues the old one byte for
  byte does not count as changed (`SameIdSameSet`).
* `single_picture`: the only picture of the last sequence, after an end of
  sequence, is never output.
* `many_references`: `setRefPicList` collects references in arrays of 16 entries;
  in the light-field configurations a picture refers to all before it.

The models show further disagreements. Each is left out of the instances or the
properties of the passing runs, and shows with another constant or property in
the configuration of the run:

| run, changed | property that fails | what happens |
|---|---|---|
| `parameter_sets` | `OnePictureOneSet` | a further slice of a picture is parsed with whichever stored PPS it names; the check "that the current active PPS has not changed" looks at the flags of the picture's sets only (`TDecTop.cpp:615`) |
| `parameter_sets` | `SequenceKeepsSPS` | `activatePPS` compares identifiers (`TComSlice.cpp:2143`), and the flag is cleared before (`TDecTop.cpp:528`): an SPS sent again with other contents takes effect at a picture that is not an IRAP picture |
| `decoder`, `Streams <- OrderStreams` | `BufferWithinLimit` | the buffer of a picture is chosen before the marks are updated, so the list grows by one; by no more, says `BufferAlmostWithinLimit` (`TDecTop.cpp:195`) |
| `decoder`, `Streams <- MCLowerPOCStreams` | `OnePicturePerBuffer` | after random access, a picture whose POC is below that of the random access point is not told from the one that follows it (`TDecTop.cpp:805`) |
| `decoder`, `Streams <- MCSamePOCStreams` | `ReferencesRight` | a CRA picture after an end of sequence has the POC of an old picture: `applyReferencePictureSet` spares every picture with the POC of the current one (`TComSlice.cpp:1053`) |
| `decoder`, `Streams <- MCEarlierPOCStreams` | `OutputInTime` | a CRA picture after an end of sequence does not reset the POC last displayed |
| `decoder`, `Streams <- MCNegativePOCStreams` | `NothingFails` | a lost picture with a negative POC is not concealed: the loop of `TDecTop.cpp:820` ends when POC + 1 is not positive |
| `decoder`, `Streams <- MCLossLayerStreams` | `NothingFails` | a concealment picture keeps the temporal layer of the picture whose buffer it takes, and an assertion of `applyReferencePictureSet` fails |
| `decoder`, `Streams <- MCSkipFrameStreams` | `WholePictures` | frames to skip (`-s`) are counted in slices |
| `encoder_gop`, `Structures = {"layers"}` | `OutputInOrder` | the number of reordered pictures counts only pictures of the same or a lower layer (`TAppEncCfg.cpp:2156`): a picture of a higher layer that is put out late is overtaken |
| `encoder_gop`, `Structures = {"layers"}` | `SomethingToPredictFrom` | a picture whose only references before or behind it are of higher layers has none left when it has no others, or the others lie behind the end of the video; `setRefPicList` divides by their number (`TComSlice.cpp:455`) |
| `headers`, `Setups <- MCFades` | `DecoderNeverAborts` | the difference of a chroma weight's offset leaves the signed 10 bits of its comment (`WeightPredAnalysis.cpp:443`) |
| `headers`, `Setups <- MCRefreshes` | `DecoderNeverAborts` | a reference picture set coded in a slice header reads through a byte counter that is null (`TDecCAVLC.cpp:1144` and `98`) |

Met while modelling, and stated in the modules as the code has them:

* `maxDecPicBuffering` counts the pictures of the GOP entries only
  (`TAppEncCfg.cpp:2134`); the check for STSA reads the entry behind the list of
  the GOP (`TEncGOP.cpp`, from line 1325);
* the DC coefficient of a predicted scaling list is compared where it should not
  matter (`TComSlice.cpp:1840`); a 10-bit condition on chroma QP offsets is
  `abs(x > 12)` (`TAppEncCfg.cpp:1924`);
* `BufferingPeriodSEI` alone switches HRD parameters on without timing
  information; with the default `RCCpbSize` of 0 the HRD parameters cannot be
  coded (`xInitHrdParameters`);
* the reader of the SOP description overwrites its temporal identifier and set
  index, that of the tile sets inverts the display flag (`KnownLost` in
  `Headers`);
* the best reference picture set is asserted to have at most 15 entries
  (`TEncTop.cpp:1052`), the weights of a slice at most 24 flags, while 170
  references are allowed;
* the histogram distance of weighted prediction leaves out the last bin
  (`WeightPredAnalysis.cpp:96`);
* lossless samples are restored only when the sample adaptive offset is used
  (`TDecGop.cpp:169`); deblocking leaves them alone, so nothing is lost.

## 4. What is proved

TLAPS checks `ParameterSetsProofs` for all sets of identifiers and contents.

* `TypeCorrect`: `Spec => []TypeOK`.
* `PictureKeepsItsSets`: `SameIdSameSet` and `ActiveSetsOfPicture`, if no content is
  a proper prefix of another one. A slice that names the PPS identifier of its
  picture is parsed with the very sets the picture was created with, and one
  whose PPS leads to the SPS identifier of the picture with that SPS, for every
  PPS that slices may name and whatever is stored between them. The property alone is not inductive. The invariant adds
  that while a picture is open and the flags of its sets are clear, the stored
  contents are those the picture was started with: a store either leaves the
  content as it is or sets the flag, which the next slice sees. The prefix
  condition is where the proof needs what the code does not ensure, the case of
  `parameter_sets_long`.
* `ActiveSetsArePresent`: `Spec => []ActiveSetsOfPicture`. Whatever arrives while
  a picture is open, the sets it is decoded with stay stored: an identifier that
  has an entry never loses it, and the active identifiers had one when the
  picture was started.

It checks `NalUnitProofs` for every payload and any number of cabac_zero_words,
from the assumption that parts end in a byte that is not zero.

* `TypeCorrect`: `Spec => []TypeOK`; the encoder never counts three zero bytes.
* `UnitsAreLegal`: `Spec => []UnitIsLegal`.
* `AssertionsHold` and `ReaderInvertsWriter`: `Spec => []ReaderAccepts` and
  `Spec => []PayloadArrives`.

The invariant is `Aligned`: a function `w` gives for each byte of the message
(header and payload) the position of the unit at which it begins, one byte
long, or two when an emulation prevention byte goes before it, which is the
case exactly when two zero bytes precede it in the unit and it is at most 3
(`Atom`). The writer extends `w` by one byte at a time (`AlignedGrows`), and
keeps the unit legal because the byte it adds depends on the same two zero
bytes (`LegalGrows`). The reader is always at a position `w[i]`, with `i - 1`
bytes read and the count of zero bytes in front of it, or within the
cabac_zero_words (`Position`); its test for an emulation prevention byte gives
the same answer as that of the writer (`ReadAtom`): a byte 3 of the message
behind two zero bytes is itself preceded by one.

It checks `ByteStreamProofs` for every sequence of units that contain no start
code and end in a byte that is not zero, for every padding the writer may put
between them, and for every pattern in which the decoder finds new pictures.

* `UnitsArriveAlways`: `Spec => []UnitsArrive`: what the reader returns is what was
  written, in order, although each unit that starts a picture is read twice.
* `BytesCountedAlways`: `Spec => []BytesCounted`.
* `NoUnitLeft`: no read fails, and when the loop ends every unit was taken. This is
  the safety half of `AllUnitsTaken`; that the loop ends at all stays with TLC.

The invariant is `IInv`. `Layout(c)` describes the file: a function `c` gives the
position at which each unit's turn begins, and what lies from there to the next
one: zero bytes, the start code, the payload, zero bytes. `Reading(c)` says, for
each phase of a turn, at which of these places the reader stands and what it has
counted and collected. The seek back is by the bytes counted in the turn, so that
it ends exactly at `c` of the unit: this is why `UnitsArrive` needs
`BytesCounted`, and both the place of every byte. The reader looks up to four bytes
ahead; the lemmas on `Look` say what it sees at each place, the end of the file
included, where a read that fails must come after the last byte of a unit.

It checks `CabacProofs` for all contexts, context states in their range and
symbols in theirs, and for any number of calls.

* `EncoderNeverFails`: `Spec => []EncoderAsserts`.
* `SizeIsPredictedAlways`: `Spec => SizeIsPredicted`.

The assertions say nothing of the registers, and are far from inductive. The
invariant is `Ready`: between two calls the range is 256 to 510 and `bitsLeft` 12
to 23, so that 9 to 20 bits of `low` lie behind the bytes held back; `low + range`
exceeds what these bits can hold at most by a single carry, and not at all when
the byte held back is 0xff, or when there is none (`InReach`). A carry then always
finds a byte that can take it, and the bytes 0xff counted behind that byte all
become 0. Each call first moves `low` up by at most 8 bits (`Consumes`,
`RangeSplits` and `Renormalised` for the tables: `bitsLeft` stays 4 or more) and
then sends at most one byte (`WriteOutFacts`; `LeadByte` splits `low` at that byte).
What `writeOut` sends always fits in 8 bits because of the same bound. The length
of the bits written plus those held back and those in `low` grows by the bits
each call consumes (`Advanced`), from which `FinishFacts` gets the final length.

It checks `DecoderProofs` and `DecoderOutputProofs` (with their lemmas on the main
loop and on bitstreams in `DecoderLemmas`) for bitstreams of any length, any
number of slices, pictures and references, and any size of the buffer. First,
`DecoderProofs`:

* `POCIsTheEncoders`: `POCRight`.
* `BuffersHoldOnePicture`: `OnePicturePerBuffer`.
* `ReferencesAreMeant`: `ReferencesRight`. No picture is freed or overwritten
  while a slice to come uses it, and no other one with its POC is found instead.
* `PicturesAreWrittenWhole`: `WholePictures`.
* `SearchesAlwaysSucceed`: `status` never becomes "undefined" or "hung".

Each says `Spec /\ Conforming(stream, settings) => [](...)`. `Conforming`, at the
end of `Decoder`, is what the standard asks of an encoder, as far as these
theorems need it: the slices of a picture follow one another and agree
(`PicturesContiguous`); sequences begin with IRAP pictures, and RASL pictures
precede theirs in output order (`IRAPPicturesFirst`); the POC is within half a
cycle of that of the last picture that counts (`POCsDerivable`); after a random
access nothing has a lower POC until the sequence ends (`RandomAccessFirst`); a
POC that occurs again is of another sequence, behind an IDR or BLA picture if
both pictures are decoded (`POCsUnique`); and a picture that is used was decoded
and kept in the reference picture set of every picture since (`ReferencesKept`).
Two of these are more than the standard asks, and two of the disagreements of
section 3 are why the code needs them: without `RandomAccessFirst` a picture is
decoded into the buffer of another one, and without the second half of
`POCsUnique` a CRA picture spares an old picture with its own POC. Long-term
references, lost pictures and `-s` are excluded; they are model-checked, as far
as section 3 says. The assumption `TheoremsApply` of `MCDecoder` makes TLC check
that all other bitstreams of the run conform: every coding order, all random
accesses and restarts, the layers that are left out, the slices.

The invariant is `Inv`. It is about `Past`, the slices decoded so far, and has
three parts.

* `Registers` says what the members of `TDecTop` are, in terms of the slices
  before the position: the random access point is the picture that began after
  the last end of sequence, `m_prevTid0POC` is the POC of the last slice that
  counts, skipped ones included, `m_pocCRA` and the type are those of the last
  IRAP picture. It follows that the POC is derived right (`PreviousPOC`,
  `DerivedPOCRight`), that exactly the slices are skipped that cannot be decoded
  (`SkippingRight`), and that a new picture is found exactly at its first slice
  (`NewPictureRight`).
* `ListInv` says that each picture in the list holds the slices in `Past` of one
  picture, with its POC; that it waits for output only when these are all its
  slices; that an IDR or BLA picture came with an empty list; and that a picture
  which all pictures since have kept is there and marked as referenced
  (`ReferencesHeld`). Such a picture is also reconstructed (`Reconstructed`):
  otherwise `xGetNewPicBuffer` would take its buffer.
* `StartInv` says when the decoder waits for a new picture, and when the list is
  empty.

One turn of the main loop keeps all of this (`LoopFacts`, `LoopInv`): it finishes
a picture only where the slices in `Past` are whole (`PastIsWhole`), and writing
and discarding take away marks for output, nothing else. The first slice of a
picture finds its references because the pictures it uses are held
(`ReferencesThere`), so nothing is concealed.

`DecoderOutputProofs` has the theorems about what the application writes.

* `PicturesAreWrittenInOrder`: `OutputOrder`. No picture is written twice, or after
  one it precedes in output order.
* `PicturesAreWrittenInTime`: `OutputInTime`. Between two pictures no more of them
  wait than may be reordered.
* `BufferHoldsOneMoreAtMost`: `BufferAlmostWithinLimit`. The list of pictures grows
  to one more than the limit, for the reason of section 3, and never further.
* `DecoderImplementsOutput`: every step of the decoder is a step of `PictureOutput`
  or leaves its variables alone (`Output!Safety`).

Their hypotheses are `Conforming` and `OutputConforming`, which says what an encoder
promises about output, for the layers that are decoded:

* `LimitsObserved`: a picture is overtaken by no more pictures than
  `sps_max_num_reorder_pics` allows (`Overtaken`), and the pictures that are
  kept for reference, or precede the current one and wait for a later one, leave
  a free buffer (`Needed`). These are the conditions of the standard, with two
  bounds for the code's own sake: a layer above those of the SPS would be looked up
  outside its array, and a POC of -MAX_INT is not told from "nothing written".
* `LayersNested`: the limit of the buffer does not fall from layer to layer. The
  code takes a buffer by the limit of the picture's own layer and writes by that
  of the target layer.
* `SequencesInOrder`: a sequence that starts with an IDR or BLA picture comes after
  the one before; one that starts with a CRA picture, behind an end of sequence,
  continues the POCs of the one before. The second half is more than the standard
  asks. `MCEarlierPOCStreams` of section 3 is why the code needs it: nothing resets
  the POC last displayed there.

`TheoremsApply` makes TLC check these, too, of every bitstream of the run but those
with long-term references and losses.

The invariant is `OutputState`: `Inv`, the bound of the list, and `OutputNow`, which
the steps within a turn of the loop keep as well (`OutputTurn`) and which says:

* the pictures of the list have different POCs, and those that wait are in
  output order (`ListOrdered`); one waits only if it is complete and
  `pic_output_flag` says so (`OutputMarks`);
* what was written is in order, and nothing written since the last IDR or BLA picture
  has a higher POC than the one last displayed (`WrittenInOrder`). All pictures
  that wait have a higher one, and so has every picture still to come before the
  next IDR or BLA picture (`AfterLast`, `Coming`, `Ahead`);
* a picture that is marked as referenced was kept by every picture since
  (`HeldAreKept`);
* between two pictures, both limits are observed (`Limited`).

The step that matters is `xWriteOutput`. `BumpedFacts` and `NotTooMany` say that it
writes a picture only if one of the limits leaves no other choice: if a picture
to come preceded one that is written, then all pictures that wait behind it would
be overtaken by it, and those that are held would be needed, which is one more than
`LimitsObserved` allows. At an IDR or BLA picture `xFlushOutput` writes all
that wait, which precede everything to come (`FlushKeepsOrder`). The list grows
only when no buffer is free (`NewBufferFits`); every picture in it then
waits or is referenced, and `Limited` bounds their number.
`checkNoOutputPriorPics` only takes marks away.

The second half of `DecoderOutputProofs` is about the completeness of output.

* `EveryPictureIsWritten`: `EveryPictureComesOut`. When the decoder has finished,
  every picture of the layers decoded that is to come out was written, or discarded
  for `no_output_of_prior_pics_flag`, with all its slices, and no other was.

It does not need `OutputConforming`: pictures written late or out of order come out
all the same. Besides `Conforming` it has two hypotheses.

* `PicturesLabelled`: the labels `pic` and `cvs`, which the decoder does not read,
  number the pictures and the coded video sequences of the stream, and the slices of
  a picture agree on `pic_output_flag`. The property says with these labels which
  RASL pictures are not to come out, `Conforming` with positions in the stream;
  `UndecodableIs` shows that both mean the same.
* `LastNotAlone`: the stream does not end with the only picture of a sequence that
  follows another one. This is the case in which `single_picture` shows that the
  code loses a picture.

`TheoremsApply` covers both. The invariant is `CountState`: `Inv` and, while the
decoder runs, `Accounted`.

* The first slices of the pictures begun that have `pic_output_flag` are those
  written, discarded, or in the list and `Due`: marked for output, or being decoded
  with the flag set. No slice is in two of these places (`Split`), nor in two
  buffers (`Separate`). What waits or was discarded are whole pictures (`Account`).
* Once a picture was completed, the application knows the list: otherwise `Finish`
  would not write what waits. After the last NAL unit no picture is being decoded.
* `m_loopFiltered`, which an end of sequence sets and which makes the loop leave out
  the last picture, is set before the end of the stream only if a sequence has just
  ended or its first picture is being decoded (`Alone`). `LastNotAlone` says that this
  is not the last picture.

Each operation moves pictures from one place to another: `filterPicture` marks what
was being decoded (`CompletingAccounts`), `xWriteOutput` and `xFlushOutput` write what
they take from the list (`WriteOutputAccounts`, `FlushAccounts`), and
`checkNoOutputPriorPics` discards what it unmarks (`CheckNoOutputPriorPicsAccounts`).
The first slice of a picture adds one to the account, and takes a buffer in which
nothing waits (`FirstSliceAccounts`). That its `pic_output_flag` is not cleared when
it is a RASL picture that can be decoded follows from `RASLInv`, a part of
`Registers`: after a CRA picture that does not begin a sequence,
`m_craNoRaslOutputFlag` is not set (`FirstSlicePicOutput`).

Only model-checked, of `Decoder`: `NothingFails`, for the assertions on leading
pictures and layers, which no hypothesis above covers; and what is liveness,
`Termination` and that no picture waits forever (`NoneWaitsForever`). Of the
others: `SubstreamsFound` and `SubstreamSurvives`, whose definitions fold over the
data; `AllUnitsTaken`; and `EncoderGOP`, `Headers`, `CodingTree` and
`Reconstruction`, whose modules walk lists of pictures, syntax elements and trees
with recursive operators, which the prover does not accept. Liveness under fairness
is out of the prover's reach, and so is what a recursive definition computes for
every input.

## 5. What is not modelled

* Motion compensation, intra prediction and weighting of samples, and the
  interpolation filters: predicted samples are drawn (section 2).
* The costs of the encoder's search, rate-distortion optimised quantisation, rate
  control and adaptive QP: floating-point estimates that decide between choices
  which the models draw.
* Picture hashes, field coding, lossless and PCM in 4:2:2, extended precision of
  the transform.
* What a decoder does with SEI messages, beyond reading them.
* The light-field code: spiral order, 4DLF modes and micro-image buffers are
  compiled only with `RM_4DLF_MI_BUFFER`, which is 0 (`TypeDef.h:60`). The shipped
  light-field configurations work through the GOP structure and its reference
  picture sets, which `EncoderGOP` and `Headers` model.
* Parsing of command lines and configuration files, the limits of profiles and
  levels, video files, tools and scripts.

## 6. Plan

1. `ParameterSets`, `NalUnit`, with proofs; `Decoder`, `ByteStream`, `Cabac` (done).
2. `EncoderGOP`, `Headers`, `CodingTree`, `Reconstruction` (done).
3. Proofs of `ByteStream`, of the encoder of `Cabac`, and of the POC, the borders
   of pictures, the references, the bound of the buffer, and the order and the
   completeness of the output in `Decoder`, for every conforming stream (done).
4. Prediction of samples on both sides, with the substitution of neighbours that
   are not available, so that `NoDrift` covers it.
5. The queue of prefix SEI messages, rate control accounting.

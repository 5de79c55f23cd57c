----------------------------- MODULE MCServices -----------------------------
(***************************************************************************)
(* Small instances of the services of the library that nothing of the      *)
(* library composes: alphabets, unions of segments and sorted arrays, the  *)
(* parsers of numbers, packed bits, integers of variable length, aligned   *)
(* memory, streams and children, lines, connections, the log and the       *)
(* memory statistics.  They share no state: a behaviour is about one of    *)
(* them, and one run checks them side by side, not in their product.       *)
(***************************************************************************)
EXTENDS Alphabet, Segments, IntParser, Log, MemUsage, Streams, Net, AlignedMem, LineReader

CONSTANTS
  a, b, c, e, blank, long1, long2, prefix,                    \* Alphabet
  CHAR_BIT, NumBytes, Widths,                                 \* Bits
  GroupBits, Width, Rooms, MaxWritten                         \* Varint

VARIABLES
  object,                                                     \* what the behaviour is about
  u, bytes, set,                                              \* Bits
  encoded, pos, ints, got, encoding, decoded                  \* Varint

MCInputs == {0, -1, 5, 42}
B == INSTANCE Bits WITH Inputs <- MCInputs
V == INSTANCE Varint WITH stream <- encoded, at <- pos, buf <- encoding, answer <- decoded

ASSUME MCAssumption == V!VarintAssumption /\ AlignedMemAssumption /\ LineReaderAssumption /\ MemUsageAssumption /\ LogAssumption

MCLabels == {a, b, c, e, blank, long1, long2, prefix}
\* b and c have one hash, the blank before a is lost in a text file.
MCSign == [l \in MCLabels |-> CASE l = e -> 0 [] l = a -> 1 [] l \in {b, c} -> 2 [] l = blank -> 3
                               [] l = long1 -> 4 [] l = long2 -> 5 [] l = prefix -> 6]
MCKept == [l \in MCLabels |-> IF l \in {long1, long2} THEN prefix ELSE l]
MCRead == [l \in MCLabels |-> IF l = blank THEN a ELSE l]
Line(l, i) == [label |-> l, id |-> i]
MCTextFiles == {<<Line(a, 1), Line(b, 0)>>, <<Line(b, 0), Line(c, 1)>>, <<Line(a, 0), Line(b, 0)>>,
                <<Line(NoLabel, 0)>>, <<Line(a, 2), Line(b, 0)>>, <<Line(c, 0), Line(long1, 1)>>}

bitVars == <<u, bytes, set>>
varintVars == <<encoded, pos, ints, got, encoding, decoded>>

MCInit ==
  /\ object \in {"alphabet", "segments", "array", "parser", "bits", "varint", "aligned", "streams", "reader",
                 "net", "log", "usage"}
  /\ AlphabetInit /\ SegmentsInit /\ ArrayInit
  /\ ParserInit /\ (object # "parser" => ~weighted)
  /\ B!BitsInit /\ (object # "bits" => \A w \in Widths : u <= w)
  /\ V!VarintInit
  /\ AlignedInit /\ StreamsInit /\ NetInit /\ LogInit /\ UsageInit
  /\ ReaderInit /\ (object # "reader" => input = << >> /\ sz = 0)

rest(o) ==
  /\ object = o /\ UNCHANGED object
  /\ o # "alphabet" => UNCHANGED alphabetVars
  /\ o # "segments" => UNCHANGED segmentVars
  /\ o # "array" => UNCHANGED sorted
  /\ o # "parser" => UNCHANGED parserVars
  /\ o # "bits" => UNCHANGED bitVars
  /\ o # "varint" => UNCHANGED varintVars
  /\ o # "aligned" => UNCHANGED alignedVars
  /\ o # "streams" => UNCHANGED streamVars
  /\ o # "reader" => UNCHANGED readerVars
  /\ o # "net" => UNCHANGED netVars
  /\ o # "log" => UNCHANGED logVars
  /\ o # "usage" => UNCHANGED usageVars

MCNext ==
  \/ rest("alphabet") /\ AlphabetNext
  \/ rest("segments") /\ SegmentsNext
  \/ rest("array") /\ st_int_insert
  \/ rest("parser") /\ ParserNext
  \/ rest("bits") /\ B!BitsNext
  \/ rest("varint") /\ V!VarintNext
  \/ rest("aligned") /\ AlignedNext
  \/ rest("streams") /\ StreamsNext
  \/ rest("reader") /\ ReaderNext
  \/ rest("net") /\ NetNext
  \/ rest("log") /\ LogNext
  \/ rest("usage") /\ UsageNext

MCSpec ==
  MCInit /\ [][MCNext]_<<object, alphabetVars, segmentVars, sorted, parserVars, bitVars, varintVars, alignedVars,
                         streamVars, readerVars, netVars, logVars, usageVars>>

\* Two states of one object are one if it cannot tell them apart.
View ==
  <<object,
    CASE object = "alphabet" -> alphabetVars [] object = "segments" -> segmentVars
      [] object = "array" -> sorted [] object = "parser" -> parserVars
      [] object = "bits" -> bitVars [] object = "varint" -> varintVars
      [] object = "aligned" -> AlignedView [] object = "streams" -> streamVars
      [] object = "reader" -> readerVars [] object = "net" -> netVars
      [] object = "log" -> logVars [] object = "usage" -> usageVars>>

-----------------------------------------------------------------------------
\* What is packed in bits, or written as integers of variable length, is read back: next
\* to neighbours in one byte, from a stream that ends early, from a buffer of any room, none too.
CodesKeepValues == B!NeighboursKept /\ V!DecodedAsEncoded
=============================================================================

---------------------------- MODULE StreamReader ----------------------------
(***************************************************************************)
(* utils/stream_reader.go, utils/ssestream.go and the StreamDecoder of     *)
(* model/session: the three ways in which a streamed answer is read.       *)
(*   "lines"     chat completions and images: line by line                 *)
(*   "responses" responses: event by event, through EventStreamDecoder     *)
(*   "session"   the events of a session, through the same decoder         *)
(* The answer is a sequence of lines; only what a reader tells apart is    *)
(* kept of each. A last line without its newline is dropped by both        *)
(* ReadBytes and is not in the sequence.                                   *)
(***************************************************************************)
EXTENDS Naturals, Sequences

CONSTANTS Streams,            \* the sequences of lines that the server may send
          Readers,
          EmptyMessagesLimit,
          MaxCalls            \* bounds the model: the calls of Recv or Next

\* data: a chunk; junk: a chunk that does not unmarshal; error: an error as a chunk; head: one
\* that goes on in the next line; done; rawerror and json: an error, and another JSON text, that
\* are no chunk; other: the event lines and comments of an event stream.
Kinds == {"data", "junk", "error", "head", "done", "rawerror", "json", "other", "blank"}

ASSUME StreamsAssumption == Streams \subseteq Seq(Kinds)
ASSUME ReadersAssumption == Readers \subseteq {"lines", "responses", "session"}
ASSUME LimitAssumption == EmptyMessagesLimit \in Nat /\ MaxCalls \in Nat

VARIABLES reader, lines,
          ending,     \* how the body ends: io.EOF, io.ErrUnexpectedEOF or another error
          pos,        \* of the next line
          acc,        \* what ErrAccumulator.Bytes() would unmarshal to
          finished,   \* IsFinished
          calling,    \* Recv, or Next, has not returned
          hasErrorPrefix, count,   \* of the call: the second is emptyMessagesCount
          event,      \* the lines whose data the decoder holds, by position
          outs,       \* what the calls returned, and ...
          got         \* ... the chunks among it, by position: history

stream == <<reader, lines, ending>>
vars == <<stream, pos, acc, finished, calling, hasErrorPrefix, count, event, outs, got>>

DataKinds == {"data", "junk", "error", "head", "done"}

TypeOK ==
  /\ reader \in Readers /\ lines \in Seq(Kinds) /\ ending \in {"eof", "cut", "reset"}
  /\ pos \in 1..(Len(lines) + 1)
  /\ acc \in {"empty", "error", "json", "garbled"}
  /\ finished \in BOOLEAN /\ calling \in BOOLEAN /\ hasErrorPrefix \in BOOLEAN
  /\ count \in 0..EmptyMessagesLimit
  /\ event \in Seq(1..Len(lines))
  /\ got \in Seq(1..Len(lines))
  /\ outs \in Seq({"chunk", "unknown", "apierror", "nilerror", "badchunk", "nothing", "toomany",
                   "eof", "cut", "reset"})

Init ==
  /\ reader \in Readers /\ lines \in Streams /\ ending \in {"eof", "cut", "reset"}
  /\ pos = 1 /\ acc = "empty" /\ finished = FALSE
  /\ calling = FALSE /\ hasErrorPrefix = FALSE /\ count = 0
  /\ event = <<>> /\ outs = <<>> /\ got = <<>>

AtEnd == pos > Len(lines)

Kind == lines[pos]

Ends(out) ==
  /\ outs' = Append(outs, out)
  /\ calling' = FALSE /\ hasErrorPrefix' = FALSE /\ count' = 0

Returns(out) == Ends(out) /\ UNCHANGED got

ReturnsChunk(i) == Ends("chunk") /\ got' = Append(got, i)

GoesOn == UNCHANGED <<calling, outs, got>>

-----------------------------------------------------------------------------
(* The calls and what they accumulate                                      *)

Recv ==
  /\ ~calling /\ ~finished /\ Len(outs) < MaxCalls
  /\ calling' = TRUE
  /\ UNCHANGED <<stream, pos, acc, finished, hasErrorPrefix, count, event, outs, got>>

RecvFinished ==
  /\ ~calling /\ finished /\ Len(outs) < MaxCalls
  /\ Returns("eof")
  /\ UNCHANGED <<stream, pos, acc, finished, event>>

\* What one line alone unmarshals to.
Text(kind) == CASE kind \in {"error", "rawerror"} -> "error"
                [] kind = "json" -> "json"
                [] OTHER -> "garbled"

\* ErrAccumulator.Write, that nothing ever empties: two texts are no JSON.
Written(text) == IF acc = "empty" THEN text ELSE "garbled"

\* unmarshalError: the error there is; one without a cause, if "error" is no part of it; none.
Unmarshaled(a) == CASE a = "error" -> "apierror"
                    [] a = "json" -> "nilerror"
                    [] OTHER -> "nothing"

\* Faulty: one less.
OneTooFew(n) == n >= EmptyMessagesLimit

TooMany(n) == n > EmptyMessagesLimit

-----------------------------------------------------------------------------
(* ChatGenStreamReader and ImageGenerationStreamReader                     *)

ByLine == calling /\ reader = "lines"

\* The body is at its end, or the line after an error was read; that one is not looked at.
ReportError ==
  /\ ByLine /\ (AtEnd \/ hasErrorPrefix)
  /\ Returns(IF AtEnd /\ Unmarshaled(acc) = "nothing" THEN ending ELSE Unmarshaled(acc))
  /\ pos' = IF AtEnd THEN pos ELSE pos + 1
  /\ UNCHANGED <<stream, acc, finished, event>>

\* Faulty: every line that is no chunk is taken for the beginning of an error.
AnyOther(kind) == kind \notin {"data", "junk", "done", "blank"}

IsError(kind) == kind \in {"error", "rawerror", "head"}

Accumulate ==
  /\ ByLine /\ ~AtEnd /\ ~hasErrorPrefix
  /\ Kind \notin {"data", "junk", "done"}
  /\ pos' = pos + 1
  /\ acc' = IF Kind = "blank" THEN acc ELSE Written(Text(Kind))
  /\ IF TooMany(count + 1)
     THEN Returns("toomany")
     ELSE hasErrorPrefix' = IsError(Kind) /\ count' = count + 1 /\ GoesOn
  /\ UNCHANGED <<stream, finished, event>>

\* Faulty: the mark at the end of the stream ends the call only.
NeverFinished == FALSE

Finishes == TRUE

Done ==
  /\ ByLine /\ ~AtEnd /\ ~hasErrorPrefix /\ Kind = "done"
  /\ pos' = pos + 1 /\ finished' = Finishes
  /\ Returns("eof")
  /\ UNCHANGED <<stream, acc, event>>

Chunk ==
  /\ ByLine /\ ~AtEnd /\ ~hasErrorPrefix /\ Kind \in {"data", "junk"}
  /\ pos' = pos + 1
  /\ IF Kind = "data" THEN ReturnsChunk(pos) ELSE Returns("badchunk")
  /\ UNCHANGED <<stream, acc, finished, event>>

-----------------------------------------------------------------------------
(* EventStreamDecoder, and the readers that use it                         *)

ByEvent == calling /\ reader # "lines"

\* Every line but an empty one; what is no data is passed over.
Collect ==
  /\ ByEvent /\ ~AtEnd /\ Kind # "blank"
  /\ pos' = pos + 1
  /\ event' = IF Kind \in DataKinds THEN Append(event, pos) ELSE event
  /\ UNCHANGED <<stream, acc, finished, calling, hasErrorPrefix, count, outs, got>>

\* Faulty: the data of an event is still there when the next one begins.
KeepsData == event

\* Next begins with an empty buffer.
NoData == <<>>

Begins(kinds) == event # <<>> /\ lines[event[1]] \in kinds

IsChunk == Len(event) = 1 /\ lines[event[1]] = "data"

Dispatch == ByEvent /\ ~AtEnd /\ Kind = "blank" /\ pos' = pos + 1 /\ event' = NoData /\ UNCHANGED stream

DispatchError ==
  /\ Dispatch /\ reader = "responses" /\ Begins({"error", "head"})
  /\ acc' = Written(IF Len(event) = 1 THEN Text(lines[event[1]]) ELSE "garbled")
  /\ IF TooMany(count + 1) THEN Returns("toomany")
     ELSE IF Unmarshaled(acc') # "nothing" THEN Returns(Unmarshaled(acc'))
     ELSE count' = count + 1 /\ GoesOn /\ UNCHANGED hasErrorPrefix
  /\ UNCHANGED finished

DispatchDone ==
  /\ Dispatch /\ reader = "responses" /\ Begins({"done"})
  /\ finished' = Finishes /\ Returns("eof")
  /\ UNCHANGED acc

\* An event without data does not unmarshal.
DispatchChunk ==
  /\ Dispatch /\ reader = "responses" /\ ~Begins({"error", "head", "done"})
  /\ IF IsChunk THEN ReturnsChunk(event[1]) ELSE Returns("badchunk")
  /\ UNCHANGED <<acc, finished>>

\* A session's event always is one, be it of an unknown type.
DispatchSession ==
  /\ Dispatch /\ reader = "session"
  /\ IF IsChunk THEN ReturnsChunk(event[1]) ELSE Returns("unknown")
  /\ UNCHANGED <<acc, finished>>

\* The decoder's error stays. StreamDecoder.Err takes every text with "EOF" for a clean end.
DecoderEnds ==
  /\ ByEvent /\ AtEnd
  /\ Returns(IF reader = "session" /\ ending = "cut" THEN "eof" ELSE ending)
  /\ event' = NoData
  /\ UNCHANGED <<stream, pos, acc, finished>>

Next ==
  \/ Recv \/ RecvFinished \/ ReportError \/ Accumulate \/ Done \/ Chunk
  \/ Collect \/ DispatchError \/ DispatchDone \/ DispatchChunk \/ DispatchSession \/ DecoderEnds

Spec == Init /\ [][Next]_vars

-----------------------------------------------------------------------------
(* Properties                                                              *)

\* A server's stream: an empty line ends each chunk and each error.
Framed == \A i \in DOMAIN lines : lines[i] \in DataKinds \cup {"rawerror", "json"} =>
            i < Len(lines) /\ lines[i + 1] = "blank"

\* Chunks come in the order in which they were sent, and in a framed stream none is lost, be
\* there errors, comments or event lines between them, and the calls that ended in an error.
\* (hasErrorPrefix, which makes the reader skip a line, and the decoder's buffer.)
ChunksInOrder ==
  /\ \A i, j \in DOMAIN got : i < j => got[i] < got[j]
  /\ Framed => \A i \in 1..(pos - 1) : lines[i] = "data" =>
                 \E j \in DOMAIN (got \o event) : (got \o event)[j] = i

\* What a caller that stops at the first result that is no chunk gets from a stream of bare
\* chunks, errors and ends, by all three readers.
Bare == Len(lines) % 2 = 0 /\ \A i \in DOMAIN lines :
          IF i % 2 = 0 THEN lines[i] = "blank" ELSE lines[i] \in DataKinds \ {"head"}

End(kind) == IF reader = "session" THEN "unknown"
             ELSE CASE kind = "error" -> "apierror" [] kind = "done" -> "eof" [] OTHER -> "badchunk"

EndOfBody == IF reader = "session" /\ ending = "cut" THEN "eof" ELSE ending

\* The k-th result, after results that were chunks.
ExpectedAt(k) == IF 2 * k > Len(lines) THEN EndOfBody
                 ELSE IF lines[2 * k - 1] = "data" THEN "chunk" ELSE End(lines[2 * k - 1])

\* The readers agree, line by line or event by event, with that reference. (Both processLines
\* and EventStreamDecoder.Next; the limit is for one call, not for the stream.)
FollowsFrames ==
  Bare /\ EmptyMessagesLimit >= 2 =>
    \A k \in DOMAIN outs : (\A j \in 1..(k - 1) : outs[j] = "chunk") =>
      /\ outs[k] = ExpectedAt(k)
      /\ outs[k] = "chunk" => got[k] = 2 * k - 1

\* Fewer than EmptyMessagesLimit empty lines stand directly before the i-th line.
WithinLimit(i) ==
  i <= EmptyMessagesLimit \/ \E j \in (i - EmptyMessagesLimit)..(i - 1) : lines[j] # "blank"

\* The first error of a stream, if only chunks and empty lines stand before it, reaches the
\* caller of a line-by-line reader: before anything behind it does, and if it is the last line
\* before the call returns. Behind EmptyMessagesLimit empty lines it need not: the error is
\* counted as one more of them and the call ends with ErrTooManyEmptyStreamMessages in its
\* place. (processLines; unmarshalError, called when the line after the error is read.)
FirstErrorIsReported ==
  reader = "lines" =>
    \A i \in 1..(pos - 1) :
      /\ lines[i] \in {"error", "rawerror"}
      /\ \A j \in 1..(i - 1) : lines[j] \in {"data", "junk", "blank"}
      /\ WithinLimit(i)
      /\ i < pos - 1 \/ ~calling
      => \E k \in DOMAIN outs : outs[k] = "apierror"

\* Once a caller was told that the stream is at its end, it gets nothing else, however often it
\* asks. (IsFinished, and errors that stay.)
EndIsFinal == \A i, j \in DOMAIN outs : i < j /\ outs[i] = "eof" => outs[j] = "eof"
=============================================================================

------------------------- MODULE StreamReaderProofs -------------------------
(***************************************************************************)
(* What the three stream readers return, for every stream of lines, every  *)
(* limit and every number of calls.                                        *)
(*                                                                         *)
(* IInv is inductive.  Its parts: TypeOK; EndInv (why an end stays the     *)
(* end); OrderInv and FramedInv (which lines have been returned, and which *)
(* the decoder still holds); ErrorInv (what the accumulator has of the     *)
(* first error, and which lines a call has counted); BareInv (where a      *)
(* reader of bare frames is).                                              *)
(***************************************************************************)
EXTENDS StreamReader, SequenceTheorems, TLAPS

\* A reader that has said "end" has nothing else to say.
AtItsEnd ==
  \/ finished
  \/ AtEnd /\ IF reader = "lines" THEN Unmarshaled(acc) = "nothing" /\ ending = "eof"
                                  ELSE ending = "eof" \/ (reader = "session" /\ ending = "cut")

EndInv ==
  /\ finished => ~calling
  /\ \A i \in DOMAIN outs : outs[i] = "eof" => AtItsEnd
  /\ EndIsFinal

\* What was returned was read, in order, before what the decoder holds; a call that has an
\* error in hand has just read it.
OrderInv ==
  /\ \A j \in DOMAIN got : got[j] < pos
  /\ \A i, j \in DOMAIN got : i < j => got[i] < got[j]
  /\ \A j \in DOMAIN event : event[j] < pos /\ lines[event[j]] \in DataKinds
  /\ \A i \in DOMAIN got, j \in DOMAIN event : got[i] < event[j]
  /\ reader = "lines" => event = <<>>
  /\ hasErrorPrefix => reader = "lines" /\ pos > 1 /\ IsError(lines[pos - 1])

\* In a framed stream the decoder holds at most the last line, and no chunk is lost.
FramedInv ==
  Framed =>
    /\ event # <<>> => Len(event) = 1 /\ event[1] = pos - 1
    /\ \A i \in 1..(pos - 1) : lines[i] = "data" =>
          (\E j \in DOMAIN got : got[j] = i) \/ (event # <<>> /\ i = pos - 1)

Harmless == {"data", "junk", "blank"}

Told == \E k \in DOMAIN outs : outs[k] = "apierror"

\* The i-th line is an error, nothing has been accumulated before it, and the call that reads
\* it has not reached its limit.
IsFirstError(i) ==
  /\ lines[i] \in {"error", "rawerror"}
  /\ \A j \in 1..(i - 1) : lines[j] \in Harmless
  /\ WithinLimit(i)

\* The lines that a call has counted are the last ones, and none of them is a chunk.
CountInv == count < pos /\ \A j \in (pos - count)..(pos - 1) : lines[j] \notin {"data", "junk"}

\* The accumulator is empty up to the first error, which the reader then has in hand.
ErrorInv ==
  reader = "lines" =>
    /\ CountInv
    /\ (\A j \in 1..(pos - 1) : lines[j] \in Harmless) => acc = "empty"
    /\ \A i \in 1..(pos - 1) : IsFirstError(i) =>
          Told \/ (i = pos - 1 /\ calling /\ hasErrorPrefix /\ acc = "error")

\* Where the reader of a bare stream is after n chunks: before the (n+1)-th frame or in it.
LineAt(n) ==
  \/ /\ ~hasErrorPrefix /\ acc = "empty"
     /\ (pos = 2 * n /\ n >= 1 /\ count = 0) \/ (pos = 2 * n + 1 /\ count <= 1)
  \/ hasErrorPrefix /\ calling /\ acc = "error" /\ pos = 2 * n + 2 /\ lines[2 * n + 1] = "error"

EventAt(n) ==
  /\ ~hasErrorPrefix /\ acc = "empty" /\ count = 0
  /\ (pos = 2 * n + 1 /\ event = <<>>) \/ (pos = 2 * n + 2 /\ event = <<2 * n + 1>>)

BareInv ==
  Bare /\ EmptyMessagesLimit >= 2 =>
    /\ \A k \in DOMAIN outs : (\A j \in 1..(k - 1) : outs[j] = "chunk") =>
         /\ outs[k] = ExpectedAt(k)
         /\ outs[k] = "chunk" => k \in DOMAIN got /\ got[k] = 2 * k - 1
    /\ (\A k \in DOMAIN outs : outs[k] = "chunk") =>
         /\ Len(got) = Len(outs) /\ ~finished
         /\ IF reader = "lines" THEN LineAt(Len(outs)) ELSE EventAt(Len(outs))

IInv == TypeOK /\ EndInv /\ OrderInv /\ FramedInv /\ ErrorInv /\ BareInv

Outcomes == {"chunk", "unknown", "apierror", "nilerror", "badchunk", "nothing", "toomany", "eof", "cut", "reset"}

-----------------------------------------------------------------------------
(* What a call returns                                                     *)

\* A sequence with one more.
LEMMA Appended ==
  ASSUME NEW S, NEW s \in Seq(S), NEW x \in S
  PROVE  LET t == Append(s, x)
         IN /\ t \in Seq(S) /\ Len(s) \in Nat /\ Len(t) = Len(s) + 1
            /\ DOMAIN s = 1..Len(s) /\ DOMAIN t = 1..(Len(s) + 1)
            /\ t[Len(s) + 1] = x /\ \A i \in 1..Len(s) : t[i] = s[i]
OBVIOUS

\* What the types say of the sequences, and of a line that there is.
LEMMA Sequences ==
  ASSUME TypeOK
  PROVE  /\ outs \in Seq(Outcomes) /\ DOMAIN outs = 1..Len(outs) /\ Len(outs) \in Nat
         /\ got \in Seq(1..Len(lines)) /\ DOMAIN got = 1..Len(got) /\ Len(got) \in Nat
         /\ event \in Seq(1..Len(lines)) /\ DOMAIN event = 1..Len(event) /\ Len(event) \in Nat
         /\ lines \in Seq(Kinds) /\ DOMAIN lines = 1..Len(lines) /\ Len(lines) \in Nat
         /\ pos \in 1..(Len(lines) + 1)
         /\ ~AtEnd => pos \in 1..Len(lines) /\ Kind \in Kinds
         /\ event # <<>> => 1 \in DOMAIN event /\ event[1] \in 1..Len(lines) /\ lines[event[1]] \in Kinds
<1>1. /\ outs \in Seq(Outcomes) /\ got \in Seq(1..Len(lines)) /\ event \in Seq(1..Len(lines))
      /\ lines \in Seq(Kinds) /\ pos \in 1..(Len(lines) + 1)
  BY DEF TypeOK, Outcomes
<1>2. Len(lines) \in Nat /\ (~AtEnd => pos \in 1..Len(lines))
  BY <1>1 DEF AtEnd
<1> QED
  BY <1>1, <1>2 DEF Kind

\* What an accumulator holds, and what becomes of it.
LEMMA Accumulated ==
  /\ \A a : Unmarshaled(a) \in {"apierror", "nilerror", "nothing"}
  /\ \A k : Text(k) \in {"error", "json", "garbled"}
  /\ \A t \in {"error", "json", "garbled"} : TypeOK => Written(t) \in {"error", "json", "garbled"}
BY DEF Unmarshaled, Text, Written

\* The call has returned.
Returned == calling' = FALSE /\ hasErrorPrefix' = FALSE /\ count' = 0

\* A call returns one result, after the others, or goes on.
LEMMA OutsGrow ==
  ASSUME TypeOK, Next
  PROVE  /\ UNCHANGED stream
         /\ outs' = outs \/ (Returned /\ \E o \in Outcomes : outs' = Append(outs, o))
<1> DEFINE Given(o) == Returned /\ outs' = Append(outs, o)
<1>1. ending \in Outcomes /\ \A a : Unmarshaled(a) \in Outcomes
  BY Accumulated DEF TypeOK, Outcomes
<1>2. "toomany" \in Outcomes /\ "eof" \in Outcomes /\ "chunk" \in Outcomes /\ "badchunk" \in Outcomes
      /\ "unknown" \in Outcomes
  BY DEF Outcomes
<1>3. UNCHANGED stream
  BY DEF Next, Recv, RecvFinished, ReportError, Accumulate, Done, Chunk, Collect, DispatchError,
     DispatchDone, DispatchChunk, DispatchSession, DecoderEnds, Dispatch
<1>4. CASE Recv \/ RecvFinished
  <2>1. outs' = outs \/ Given("eof")
    BY <1>4 DEF Recv, RecvFinished, Returns, Ends, Returned
  <2> QED
    BY <1>2, <1>3, <2>1
<1>8. CASE ReportError
  <2> DEFINE out == IF AtEnd /\ Unmarshaled(acc) = "nothing" THEN ending ELSE Unmarshaled(acc)
  <2>1. out \in Outcomes
    BY <1>1
  <2>2. Given(out)
    BY <1>8 DEF ReportError, Returns, Ends, Returned
  <2> HIDE DEF out
  <2> QED
    BY <1>3, <2>1, <2>2
<1>9. CASE Accumulate
  <2>1. Given("toomany") \/ outs' = outs
    BY <1>9 DEF Accumulate, Returns, GoesOn, Ends, Returned
  <2> QED
    BY <1>2, <1>3, <2>1
<1>5. CASE Done \/ Chunk \/ Collect
  <2>1. Given("eof") \/ Given("chunk") \/ Given("badchunk") \/ outs' = outs
    BY <1>5 DEF Done, Chunk, Collect, Returns, ReturnsChunk, Ends, Returned
  <2> QED
    BY <1>2, <1>3, <2>1
<1>6. CASE DispatchError \/ DispatchDone
  <2>1. Given("eof") \/ Given("toomany") \/ Given(Unmarshaled(acc')) \/ outs' = outs
    BY <1>6 DEF DispatchError, DispatchDone, Returns, GoesOn, Ends, Returned
  <2> QED
    BY <1>1, <1>2, <1>3, <2>1
<1>7. CASE DispatchChunk \/ DispatchSession \/ DecoderEnds
  <2>1. \/ Given("chunk") \/ Given("badchunk") \/ Given("unknown") \/ Given("eof") \/ Given(ending)
    BY <1>7 DEF DispatchChunk, DispatchSession, DecoderEnds, Returns, ReturnsChunk, Ends, Returned
  <2> QED
    BY <1>1, <1>2, <1>3, <2>1
<1> QED
  BY <1>4, <1>5, <1>6, <1>7, <1>8, <1>9 DEF Next

-----------------------------------------------------------------------------
(* The types                                                               *)

\* The invariant holds at first.
LEMMA InitIInv == Init => IInv
<1> SUFFICES ASSUME Init PROVE IInv
  OBVIOUS
<1>1. lines \in Seq(Kinds) /\ reader \in Readers /\ Len(lines) \in Nat
  BY StreamsAssumption DEF Init
<1>2. outs = <<>> /\ got = <<>> /\ event = <<>> /\ Len(outs) = 0 /\ DOMAIN outs = {} /\ DOMAIN got = {}
      /\ DOMAIN event = {} /\ Len(got) = 0
  BY DEF Init
<1>3. TypeOK
  <2>1. pos \in 1..(Len(lines) + 1) /\ count \in 0..EmptyMessagesLimit
    BY <1>1, LimitAssumption DEF Init
  <2>2. finished \in BOOLEAN /\ calling \in BOOLEAN /\ hasErrorPrefix \in BOOLEAN
    BY DEF Init
  <2>3. event \in Seq(1..Len(lines)) /\ got \in Seq(1..Len(lines)) /\ outs \in Seq(Outcomes)
    BY <1>2
  <2> QED
    BY <1>1, <2>1, <2>2, <2>3 DEF TypeOK, Init, Outcomes
<1>4. EndInv /\ OrderInv
  BY <1>2 DEF EndInv, EndIsFinal, OrderInv, Init
<1>5. FramedInv /\ ErrorInv
  BY <1>2 DEF FramedInv, ErrorInv, CountInv, Init
<1>6. BareInv
  BY <1>2 DEF BareInv, LineAt, EventAt, Init
<1> QED
  BY <1>3, <1>4, <1>5, <1>6 DEF IInv

\* Every variable keeps its type.
LEMMA NextTypeOK == TypeOK /\ [Next]_vars => TypeOK'
<1> SUFFICES ASSUME TypeOK, Next PROVE TypeOK'
  BY DEF TypeOK, vars, stream
<1> DEFINE Numbers == 1..Len(lines)
<1>s. /\ outs \in Seq(Outcomes) /\ event \in Seq(Numbers) /\ got \in Seq(Numbers)
      /\ Len(lines) \in Nat /\ lines \in Seq(Kinds) /\ pos \in 1..(Len(lines) + 1)
      /\ ~AtEnd => pos \in Numbers
  BY Sequences
<1>1. UNCHANGED stream /\ (outs' = outs \/ (Returned /\ \E o \in Outcomes : outs' = Append(outs, o)))
  BY OutsGrow
<1>2. outs' \in Seq(Outcomes)
  <2>1. CASE outs' = outs
    BY <1>s, <2>1
  <2>2. CASE \E o \in Outcomes : outs' = Append(outs, o)
    <3>1. PICK o \in Outcomes : outs' = Append(outs, o)
      BY <2>2
    <3>2. Append(outs, o) \in Seq(Outcomes)
      BY <1>s, Appended
    <3> QED
      BY <3>1, <3>2
  <2> QED
    BY <1>1, <2>1, <2>2
<1>3. Len(lines') = Len(lines) /\ lines' \in Seq(Kinds)
  BY <1>1, <1>s DEF stream
<1>4. pos' \in 1..(Len(lines) + 1)
  <2>1. pos' = pos \/ (~AtEnd /\ pos' = pos + 1)
    BY DEF Next, Recv, RecvFinished, ReportError, Accumulate, Done, Chunk, Collect, DispatchError,
       DispatchDone, DispatchChunk, DispatchSession, DecoderEnds, Dispatch
  <2> QED
    BY <1>s, <2>1
<1>5. acc' \in {"empty", "error", "json", "garbled"}
  <2>1. acc' = acc \/ \E t \in {"error", "json", "garbled"} : acc' = Written(t)
    BY Accumulated DEF Next, Recv, RecvFinished, ReportError, Accumulate, Done, Chunk, Collect, DispatchError,
       DispatchDone, DispatchChunk, DispatchSession, DecoderEnds, Dispatch
  <2> QED
    BY <2>1, Accumulated DEF TypeOK
<1>6. count' \in 0..EmptyMessagesLimit /\ hasErrorPrefix' \in BOOLEAN /\ calling' \in BOOLEAN
  <2>1. CASE Returned
    <3>1. 0 \in 0..EmptyMessagesLimit
      BY LimitAssumption
    <3>2. hasErrorPrefix' \in BOOLEAN /\ calling' \in BOOLEAN
      BY <2>1 DEF Returned
    <3> QED
      BY <2>1, <3>1, <3>2 DEF Returned
  <2>2. CASE Recv
    BY <2>2 DEF Recv, TypeOK
  <2>3. CASE Collect
    BY <2>3 DEF Collect, TypeOK
  <2>4. CASE GoesOn /\ ~TooMany(count + 1) /\ count' = count + 1 /\ hasErrorPrefix' \in BOOLEAN
    <3>1. count' \in 0..EmptyMessagesLimit
      BY <2>4, LimitAssumption DEF TooMany, TypeOK
    <3> QED
      BY <2>4, <3>1 DEF GoesOn, TypeOK
  <2>5. CASE Accumulate
    <3>1. IsError(Kind) \in BOOLEAN
      BY DEF IsError
    <3>2. Returned \/
          (GoesOn /\ ~TooMany(count + 1) /\ count' = count + 1 /\ hasErrorPrefix' = IsError(Kind))
      BY <2>5 DEF Accumulate, Returns, Ends, Returned
    <3> QED
      BY <2>1, <2>4, <3>1, <3>2
  <2>6. CASE DispatchError
    <3>1. Returned \/
          (GoesOn /\ ~TooMany(count + 1) /\ count' = count + 1 /\ hasErrorPrefix' = hasErrorPrefix)
      BY <2>6 DEF DispatchError, Returns, Ends, Returned
    <3> QED
      BY <2>1, <2>4, <3>1 DEF TypeOK
  <2>7. CASE RecvFinished \/ ReportError \/ Done \/ Chunk \/ DispatchDone \/ DispatchChunk \/ DispatchSession \/ DecoderEnds
    <3>1. Returned
      BY <2>7 DEF RecvFinished, ReportError, Done, Chunk, DispatchDone, DispatchChunk, DispatchSession, DecoderEnds,
         Returns, ReturnsChunk, Ends, Returned
    <3> QED
      BY <2>1, <3>1
  <2> QED
    BY <2>2, <2>3, <2>5, <2>6, <2>7 DEF Next
<1>7. finished' \in BOOLEAN
  BY DEF Next, Recv, RecvFinished, ReportError, Accumulate, Done, Chunk, Collect, DispatchError,
     DispatchDone, DispatchChunk, DispatchSession, DecoderEnds, Dispatch, Finishes, TypeOK
<1>8. event' \in Seq(Numbers)
  <2>1. event' \in {event, <<>>} \/ (~AtEnd /\ event' = Append(event, pos))
    BY DEF Next, Recv, RecvFinished, ReportError, Accumulate, Done, Chunk, Collect, DispatchError,
       DispatchDone, DispatchChunk, DispatchSession, DecoderEnds, Dispatch, NoData
  <2> HIDE DEF Numbers
  <2>2. <<>> \in Seq(Numbers)
    OBVIOUS
  <2>3. ~AtEnd => Append(event, pos) \in Seq(Numbers)
    BY <1>s, Appended
  <2> QED
    BY <1>s, <2>1, <2>2, <2>3
<1>9. got' \in Seq(Numbers)
  <2>1. got' = got \/ \E i \in Numbers : got' = Append(got, i)
    <3>1. CASE Chunk
      BY <3>1, <1>s DEF Chunk, Returns, ReturnsChunk
    <3>2. CASE DispatchChunk \/ DispatchSession
      <4>1. IsChunk => event[1] \in Numbers
        <5> HAVE IsChunk
        <5>1. Len(event) = 1 /\ event \in Seq(Numbers)
          BY <1>s DEF IsChunk
        <5> HIDE DEF Numbers
        <5> QED
          BY <5>1
      <4>2. got' = got \/ (IsChunk /\ got' = Append(got, event[1]))
        BY <3>2 DEF DispatchChunk, DispatchSession, Returns, ReturnsChunk
      <4> QED
        BY <4>1, <4>2
    <3>3. CASE ~(Chunk \/ DispatchChunk \/ DispatchSession)
      BY <3>3 DEF Next, Recv, RecvFinished, ReportError, Accumulate, Done, Collect, DispatchError,
         DispatchDone, DecoderEnds, Returns, GoesOn
    <3> QED
      BY <3>1, <3>2, <3>3
  <2> HIDE DEF Numbers
  <2>2. \A i \in Numbers : Append(got, i) \in Seq(Numbers)
    BY <1>s, Appended
  <2> QED
    BY <1>s, <2>1, <2>2
<1> QED
  BY <1>1, <1>2, <1>3, <1>4, <1>5, <1>6, <1>7, <1>8, <1>9 DEF TypeOK, stream, Outcomes

-----------------------------------------------------------------------------
(* The end                                                                 *)

\* What a reader returns last is the end only if it is at its end.
LEMMA EndIsReturnedAtTheEnd ==
  ASSUME TypeOK, EndInv, Next, outs' # outs
  PROVE  LET o == outs'[Len(outs')]
         IN (o = "eof" => AtItsEnd') /\ (AtItsEnd => o = "eof")
<1> DEFINE Given(o) == outs' = Append(outs, o)
<1>1. UNCHANGED stream /\ outs \in Seq(Outcomes)
  BY OutsGrow, Sequences
<1>2. \A o : Given(o) => outs'[Len(outs')] = o
  BY <1>1
<1>3. CASE RecvFinished
  <2>1. Given("eof") /\ finished'
    BY <1>3 DEF RecvFinished, Returns, Ends
  <2> QED
    BY <1>2, <2>1 DEF AtItsEnd
<1>4. CASE ReportError
  <2> DEFINE out == IF AtEnd /\ Unmarshaled(acc) = "nothing" THEN ending ELSE Unmarshaled(acc)
  <2>1. Given(out) /\ reader = "lines" /\ ~finished /\ UNCHANGED <<acc, finished>> /\ (AtEnd => pos' = pos)
    BY <1>4 DEF ReportError, Returns, Ends, ByLine, EndInv
  <2>2. out = "eof" <=> AtEnd /\ Unmarshaled(acc) = "nothing" /\ ending = "eof"
    BY Accumulated
  <2> HIDE DEF out
  <2> QED
    BY <1>1, <1>2, <2>1, <2>2 DEF AtItsEnd, AtEnd, stream
<1>5. CASE Accumulate \/ Chunk \/ DispatchError \/ DispatchChunk \/ DispatchSession
  <2>1. ~AtItsEnd
    BY <1>5 DEF EndInv, AtItsEnd, Accumulate, Chunk, DispatchError, DispatchChunk, DispatchSession, Dispatch,
       ByLine, ByEvent
  <2>2. \/ Given("toomany") \/ Given("chunk") \/ Given("badchunk") \/ Given("unknown") \/ Given(Unmarshaled(acc'))
    BY <1>5 DEF Accumulate, Chunk, DispatchError, DispatchChunk, DispatchSession, Returns, ReturnsChunk, Ends, GoesOn
  <2>3. Unmarshaled(acc') # "eof"
    BY Accumulated
  <2> QED
    BY <1>2, <2>1, <2>2, <2>3
<1>6. CASE Done \/ DispatchDone
  <2>1. Given("eof") /\ finished'
    BY <1>6 DEF Done, DispatchDone, Returns, Ends, Finishes
  <2> QED
    BY <1>2, <2>1 DEF AtItsEnd
<1>7. CASE DecoderEnds
  <2> DEFINE out == IF reader = "session" /\ ending = "cut" THEN "eof" ELSE ending
  <2>1. Given(out) /\ reader # "lines" /\ ~finished /\ AtEnd /\ UNCHANGED <<pos, acc, finished>>
    BY <1>7 DEF DecoderEnds, Returns, Ends, ByEvent, EndInv
  <2>2. out = "eof" <=> ending = "eof" \/ (reader = "session" /\ ending = "cut")
    OBVIOUS
  <2> HIDE DEF out
  <2> QED
    BY <1>1, <1>2, <2>1, <2>2 DEF AtItsEnd, AtEnd, stream
<1>8. CASE Recv \/ Collect
  BY <1>8 DEF Recv, Collect
<1> QED
  BY <1>3, <1>4, <1>5, <1>6, <1>7, <1>8 DEF Next

\* A reader at its end stays there and says nothing else.
LEMMA NextEndInv == TypeOK /\ EndInv /\ [Next]_vars => EndInv'
<1> SUFFICES ASSUME TypeOK, EndInv, Next PROVE EndInv'
  BY DEF EndInv, EndIsFinal, AtItsEnd, AtEnd, vars, stream
<1>1. UNCHANGED stream /\ (outs' = outs \/ \E o \in Outcomes : outs' = Append(outs, o))
  BY OutsGrow
<1>2. finished' => ~calling'
  BY DEF EndInv, Next, Recv, RecvFinished, ReportError, Accumulate, Done, Chunk, Collect, DispatchError,
     DispatchDone, DispatchChunk, DispatchSession, DecoderEnds, Dispatch, Returns, ReturnsChunk, Ends, GoesOn,
     ByLine, ByEvent
<1>3. AtItsEnd => AtItsEnd'
  <2>1. finished => finished'
    BY DEF EndInv, Next, Recv, RecvFinished, ReportError, Accumulate, Done, Chunk, Collect, DispatchError,
       DispatchDone, DispatchChunk, DispatchSession, DecoderEnds, Dispatch, ByLine, ByEvent, Finishes
  <2>2. AtEnd => UNCHANGED <<pos, acc>>
    BY DEF Next, Recv, RecvFinished, ReportError, Accumulate, Done, Chunk, Collect, DispatchError,
       DispatchDone, DispatchChunk, DispatchSession, DecoderEnds, Dispatch
  <2> QED
    BY <1>1, <2>1, <2>2 DEF AtItsEnd, AtEnd, stream
<1>4. CASE outs' = outs
  BY <1>2, <1>3, <1>4 DEF EndInv, EndIsFinal
<1>5. CASE outs' # outs
  <2> DEFINE n == Len(outs)
  <2>1. PICK o \in Outcomes : outs' = Append(outs, o)
    BY <1>1, <1>5
  <2>2. /\ DOMAIN outs = 1..n /\ DOMAIN outs' = 1..(n + 1) /\ n \in Nat /\ Len(outs') = n + 1
        /\ outs'[n + 1] = o /\ \A i \in 1..n : outs'[i] = outs[i]
    BY <2>1, Sequences
  <2>3. (o = "eof" => AtItsEnd') /\ (AtItsEnd => o = "eof")
    BY <1>5, <2>2, EndIsReturnedAtTheEnd
  <2>4. \A i \in 1..n : outs[i] = "eof" => AtItsEnd
    BY <2>2 DEF EndInv
  <2>5. \A i, j \in 1..n : i < j /\ outs[i] = "eof" => outs[j] = "eof"
    BY <2>2 DEF EndInv, EndIsFinal
  <2> HIDE DEF n
  <2>6. \A i \in DOMAIN outs' : outs'[i] = "eof" => AtItsEnd'
    BY <1>3, <2>2, <2>3, <2>4
  <2>7. \A i, j \in DOMAIN outs' : i < j /\ outs'[i] = "eof" => outs'[j] = "eof"
    <3> TAKE i \in DOMAIN outs', j \in DOMAIN outs'
    <3> HAVE i < j /\ outs'[i] = "eof"
    <3>1. i \in 1..n
      BY <2>2
    <3> QED
      BY <2>2, <2>3, <2>4, <2>5, <3>1
  <2> QED
    BY <1>2, <2>6, <2>7 DEF EndInv, EndIsFinal
<1> QED
  BY <1>4, <1>5

-----------------------------------------------------------------------------
(* The order of the chunks                                                 *)

\* What a step returns and keeps of the lines it has read.
LEMMA ReadEffect ==
  ASSUME TypeOK, Next
  PROVE  \/ /\ UNCHANGED <<got, event>> /\ pos' = pos          \* nothing is read
         \/ /\ reader = "lines" /\ UNCHANGED <<got, event>> /\ ~AtEnd /\ pos' = pos + 1
            /\ hasErrorPrefix \/ Kind # "data"                  \* a line is passed over
         \/ /\ reader = "lines" /\ UNCHANGED event /\ ~AtEnd /\ pos' = pos + 1
            /\ Kind = "data" /\ got' = Append(got, pos)         \* a line is returned
         \/ /\ reader # "lines" /\ UNCHANGED got /\ ~AtEnd /\ pos' = pos + 1 /\ Kind # "blank"
            /\ event' = IF Kind \in DataKinds THEN Append(event, pos) ELSE event
         \/ /\ reader # "lines" /\ ~AtEnd /\ pos' = pos + 1 /\ Kind = "blank" /\ event' = <<>>
            /\ got' = IF IsChunk THEN Append(got, event[1]) ELSE got
         \/ /\ reader # "lines" /\ UNCHANGED got /\ AtEnd /\ pos' = pos /\ event' = <<>>
<1>1. CASE Recv \/ RecvFinished
  BY <1>1 DEF Recv, RecvFinished, Returns
<1>2. CASE ReportError
  BY <1>2 DEF ReportError, Returns, ByLine
<1>3. CASE Accumulate \/ Done
  BY <1>3 DEF Accumulate, Done, Returns, GoesOn, ByLine
<1>4. CASE Chunk
  BY <1>4 DEF Chunk, Returns, ReturnsChunk, ByLine
<1>5. CASE Collect
  BY <1>5 DEF Collect, ByEvent
<1>6. CASE DispatchError \/ DispatchDone
  <2>1. ~IsChunk
    BY <1>6 DEF DispatchError, DispatchDone, IsChunk, Begins
  <2> QED
    BY <1>6, <2>1 DEF DispatchError, DispatchDone, Dispatch, ByEvent, NoData, Returns, GoesOn
<1>7. CASE DispatchChunk \/ DispatchSession
  BY <1>7 DEF DispatchChunk, DispatchSession, Dispatch, ByEvent, NoData, Returns, ReturnsChunk
<1>8. CASE DecoderEnds
  BY <1>8 DEF DecoderEnds, ByEvent, NoData, Returns
<1> QED
  BY <1>1, <1>2, <1>3, <1>4, <1>5, <1>6, <1>7, <1>8 DEF Next

\* A call has an error in hand only once it has read one.
LEMMA PrefixEffect ==
  ASSUME TypeOK, Next, hasErrorPrefix'
  PROVE  \/ /\ hasErrorPrefix /\ UNCHANGED pos
         \/ reader = "lines" /\ ~AtEnd /\ pos' = pos + 1 /\ IsError(Kind)
         \/ hasErrorPrefix /\ reader # "lines"
<1>1. CASE Accumulate
  BY <1>1 DEF Accumulate, ByLine, Returns, Ends
<1>2. CASE Recv \/ RecvFinished \/ ReportError \/ Done \/ Chunk
  BY <1>2 DEF Recv, RecvFinished, ReportError, Done, Chunk, Returns, ReturnsChunk, Ends
<1>3. CASE Collect \/ DispatchError \/ DispatchDone \/ DispatchChunk \/ DispatchSession \/ DecoderEnds
  BY <1>3 DEF Collect, DispatchError, DispatchDone, DispatchChunk, DispatchSession, DecoderEnds, Dispatch,
     Returns, ReturnsChunk, Ends, ByEvent
<1> QED
  BY <1>1, <1>2, <1>3 DEF Next

\* Chunks are returned in the order of their lines.
LEMMA NextOrderInv == TypeOK /\ OrderInv /\ [Next]_vars => OrderInv'
<1> SUFFICES ASSUME TypeOK, OrderInv, Next PROVE OrderInv'
  BY DEF OrderInv, vars, stream
<1>p. hasErrorPrefix' => reader' = "lines" /\ pos' > 1 /\ IsError(lines'[pos' - 1])
  <2> HAVE hasErrorPrefix'
  <2>1. UNCHANGED <<reader, lines>> /\ pos \in Nat \ {0}
    BY OutsGrow, Sequences DEF stream
  <2>2. hasErrorPrefix => reader = "lines" /\ pos > 1 /\ IsError(lines[pos - 1])
    BY DEF OrderInv
  <2>3. CASE hasErrorPrefix /\ UNCHANGED pos
    BY <2>1, <2>2, <2>3
  <2>4. CASE reader = "lines" /\ ~AtEnd /\ pos' = pos + 1 /\ IsError(Kind)
    <3>1. pos' > 1 /\ pos' - 1 = pos
      BY <2>1, <2>4
    <3> QED
      BY <2>1, <2>4, <3>1 DEF Kind
  <2> QED
    BY <2>2, <2>3, <2>4, PrefixEffect
<1> DEFINE Numbers == 1..Len(lines)
<1>1. UNCHANGED <<reader, lines>>
  BY OutsGrow DEF stream
<1>s. /\ event \in Seq(Numbers) /\ got \in Seq(Numbers) /\ Len(lines) \in Nat /\ pos \in Nat
      /\ DOMAIN got = 1..Len(got) /\ DOMAIN event = 1..Len(event) /\ Len(got) \in Nat /\ Len(event) \in Nat
      /\ \A j \in DOMAIN got : got[j] \in Nat
      /\ \A j \in DOMAIN event : event[j] \in Nat
      /\ ~AtEnd => pos \in Numbers
  BY Sequences
<1> HIDE DEF Numbers
<1>o. /\ \A j \in DOMAIN got : got[j] < pos
      /\ \A i, j \in DOMAIN got : i < j => got[i] < got[j]
      /\ \A j \in DOMAIN event : event[j] < pos /\ lines[event[j]] \in DataKinds
      /\ \A i \in DOMAIN got, j \in DOMAIN event : got[i] < event[j]
      /\ reader = "lines" => event = <<>>
  BY DEF OrderInv
<1>2. CASE UNCHANGED <<got, event>> /\ pos' \in {pos, pos + 1}
  BY <1>1, <1>2, <1>p, <1>s, <1>o DEF OrderInv
<1>3. ASSUME NEW x \in Numbers, got' = Append(got, x), event' = <<>>, x < pos', pos' \in {pos, pos + 1},
             \A j \in DOMAIN got : got[j] < x
      PROVE  OrderInv'
  <2>1. /\ DOMAIN got' = 1..(Len(got) + 1) /\ got'[Len(got) + 1] = x
        /\ \A i \in 1..Len(got) : got'[i] = got[i]
    BY <1>s, <1>3, Appended
  <2>2. \A j \in DOMAIN got' : got'[j] < pos'
    BY <1>3, <1>o, <1>s, <2>1
  <2>3. \A i, j \in DOMAIN got' : i < j => got'[i] < got'[j]
    BY <1>3, <1>o, <1>s, <2>1
  <2>4. DOMAIN event' = {}
    BY <1>3
  <2> QED
    BY <1>1, <1>3, <1>p, <2>2, <2>3, <2>4 DEF OrderInv
<1>4. CASE reader = "lines" /\ UNCHANGED event /\ ~AtEnd /\ pos' = pos + 1 /\ got' = Append(got, pos)
  BY <1>3, <1>4, <1>s, <1>o
<1>5. CASE /\ reader # "lines" /\ UNCHANGED got /\ ~AtEnd /\ pos' = pos + 1 /\ Kind \in DataKinds
           /\ event' = Append(event, pos)
  <2>1. /\ DOMAIN event' = 1..(Len(event) + 1) /\ event'[Len(event) + 1] = pos
        /\ \A i \in 1..Len(event) : event'[i] = event[i]
    BY <1>s, <1>5, Appended
  <2>2. \A j \in DOMAIN event' : event'[j] < pos' /\ lines'[event'[j]] \in DataKinds
    BY <1>1, <1>5, <1>o, <1>s, <2>1 DEF Kind
  <2>3. \A i \in DOMAIN got, j \in DOMAIN event' : got[i] < event'[j]
    BY <1>o, <1>s, <2>1
  <2>4. \A j \in DOMAIN got' : got'[j] < pos'
    BY <1>o, <1>s, <1>5
  <2> QED
    BY <1>1, <1>o, <1>p, <1>5, <2>2, <2>3, <2>4 DEF OrderInv
<1>6. CASE event' = <<>> /\ UNCHANGED got /\ pos' \in {pos, pos + 1}
  <2>1. DOMAIN event' = {}
    BY <1>6
  <2> QED
    BY <1>1, <1>6, <1>o, <1>p, <1>s, <2>1 DEF OrderInv
<1>7. CASE event' = <<>> /\ pos' = pos + 1 /\ IsChunk /\ got' = Append(got, event[1])
  <2>1. 1 \in DOMAIN event
    BY <1>7, <1>s DEF IsChunk
  <2>2. event[1] \in Numbers /\ event[1] < pos' /\ \A j \in DOMAIN got : got[j] < event[1]
    BY <1>7, <1>s, <1>o, <2>1
  <2> QED
    BY <1>3, <1>7, <2>2
<1> QED
  BY ReadEffect, <1>2, <1>4, <1>5, <1>6, <1>7

\* In a framed stream what ends a chunk or an error is an empty line.
LEMMA FrameEnds ==
  ASSUME TypeOK, Framed, NEW i \in 1..Len(lines), lines[i] \in DataKinds \cup {"rawerror", "json"}
  PROVE  i < Len(lines) /\ lines[i + 1] = "blank"
BY Sequences DEF Framed

\* In a framed stream no chunk is lost.
LEMMA NextFramedInv == TypeOK /\ OrderInv /\ FramedInv /\ [Next]_vars => FramedInv'
<1> SUFFICES ASSUME TypeOK, OrderInv, FramedInv, Next, Framed
             PROVE  /\ event' # <<>> => Len(event') = 1 /\ event'[1] = pos' - 1
                    /\ \A i \in 1..(pos' - 1) : lines'[i] = "data" =>
                          (\E j \in DOMAIN got' : got'[j] = i) \/ (event' # <<>> /\ i = pos' - 1)
  <2>1. TypeOK /\ Next => (Framed' <=> Framed)
    <3>1. TypeOK /\ Next => UNCHANGED lines
      BY OutsGrow DEF stream
    <3> QED
      BY <3>1 DEF Framed
  <2>2. UNCHANGED vars => (FramedInv' <=> FramedInv)
    BY DEF FramedInv, Framed, vars, stream
  <2> QED
    BY <2>1, <2>2 DEF FramedInv
<1> DEFINE Numbers == 1..Len(lines)
           Kept(g, e, p) == \A i \in 1..(p - 1) : lines[i] = "data" =>
                              (\E j \in DOMAIN g : g[j] = i) \/ (e # <<>> /\ i = p - 1)
<1>1. UNCHANGED <<reader, lines>>
  BY OutsGrow DEF stream
<1>s. /\ event \in Seq(Numbers) /\ got \in Seq(Numbers) /\ Len(lines) \in Nat /\ pos \in 1..(Len(lines) + 1)
      /\ ~AtEnd => pos \in Numbers /\ Kind \in Kinds
      /\ event # <<>> => 1 \in DOMAIN event /\ event[1] \in Numbers
  BY Sequences
<1>f. /\ event # <<>> => Len(event) = 1 /\ event[1] = pos - 1
      /\ Kept(got, event, pos)
  BY DEF FramedInv
<1>b. (event # <<>> \/ hasErrorPrefix) => ~AtEnd /\ Kind = "blank" /\ pos > 1
  <2>1. CASE event # <<>>
    <3>1. pos - 1 \in Numbers /\ lines[pos - 1] \in DataKinds
      BY <1>s, <1>f, <2>1 DEF OrderInv
    <3>2. pos - 1 < Len(lines) /\ lines[(pos - 1) + 1] = "blank"
      BY <3>1, FrameEnds
    <3> QED
      BY <1>s, <3>1, <3>2 DEF AtEnd, Kind
  <2>2. CASE hasErrorPrefix
    <3>1. pos - 1 \in Numbers /\ lines[pos - 1] \in DataKinds \cup {"rawerror", "json"}
      BY <1>s, <2>2 DEF IsError, DataKinds, OrderInv
    <3>2. pos - 1 < Len(lines) /\ lines[(pos - 1) + 1] = "blank"
      BY <3>1, FrameEnds
    <3> QED
      BY <1>s, <3>1, <3>2 DEF AtEnd, Kind
  <2> QED
    BY <2>1, <2>2
<1> HIDE DEF Numbers
<1>g. ASSUME got' = got \/ \E x \in Numbers : got' = Append(got, x)
      PROVE  \A j \in DOMAIN got : j \in DOMAIN got' /\ got'[j] = got[j]
  <2>1. ASSUME NEW x \in Numbers PROVE \A j \in DOMAIN got : j \in DOMAIN Append(got, x) /\ Append(got, x)[j] = got[j]
    BY <1>s, Appended
  <2> QED
    BY <1>g, <2>1
<1>3. CASE UNCHANGED <<got, event>> /\ pos' = pos
  BY <1>1, <1>3, <1>f
<1>4. CASE /\ reader = "lines" /\ UNCHANGED <<got, event>> /\ ~AtEnd /\ pos' = pos + 1
           /\ hasErrorPrefix \/ Kind # "data"
  <2>1. event = <<>> /\ lines[pos] # "data"
    BY <1>4, <1>b DEF OrderInv, Kind
  <2>2. Kept(got, event, pos')
    BY <1>4, <1>s, <1>f, <2>1
  <2> QED
    BY <1>1, <1>4, <2>1, <2>2
<1>5. CASE /\ reader = "lines" /\ UNCHANGED event /\ ~AtEnd /\ pos' = pos + 1
           /\ Kind = "data" /\ got' = Append(got, pos)
  <2>1. event = <<>> /\ pos \in Numbers
    BY <1>5, <1>s DEF OrderInv
  <2>2. \E j \in DOMAIN got' : got'[j] = pos
    BY <1>5, <1>s, <2>1, Appended
  <2>3. Kept(got', event', pos')
    BY <1>5, <1>s, <1>f, <1>g, <2>1, <2>2
  <2> QED
    BY <1>1, <1>5, <2>1, <2>3
<1>6. CASE /\ reader # "lines" /\ UNCHANGED got /\ ~AtEnd /\ pos' = pos + 1 /\ Kind # "blank"
           /\ event' = IF Kind \in DataKinds THEN Append(event, pos) ELSE event
  <2>1. event = <<>>
    BY <1>6, <1>b
  <2>2. event' # <<>> => Len(event') = 1 /\ event'[1] = pos
    BY <1>6, <2>1
  <2>3. lines[pos] = "data" => event' # <<>>
    BY <1>6, <2>1 DEF Kind, DataKinds
  <2>4. Kept(got', event', pos')
    BY <1>6, <1>s, <1>f, <2>1, <2>3
  <2> QED
    BY <1>1, <1>6, <1>s, <2>2, <2>4
<1>7. CASE /\ reader # "lines" /\ ~AtEnd /\ pos' = pos + 1 /\ Kind = "blank" /\ event' = <<>>
           /\ got' = IF IsChunk THEN Append(got, event[1]) ELSE got
  <2>1. lines[pos] # "data"
    BY <1>7 DEF Kind
  <2>2. event # <<>> /\ lines[pos - 1] = "data" => \E j \in DOMAIN got' : got'[j] = pos - 1
    <3> HAVE event # <<>> /\ lines[pos - 1] = "data"
    <3>1. IsChunk /\ event[1] = pos - 1 /\ event[1] \in Numbers
      BY <1>f, <1>s DEF IsChunk
    <3> QED
      BY <1>7, <1>s, <3>1, Appended
  <2>3. \A j \in DOMAIN got : j \in DOMAIN got' /\ got'[j] = got[j]
    <3>1. IsChunk => event # <<>>
      BY DEF IsChunk
    <3>2. IsChunk => event[1] \in Numbers
      BY <1>s, <3>1
    <3> QED
      BY <1>7, <1>g, <3>2
  <2>4. Kept(got', event', pos')
    <3> SUFFICES ASSUME NEW i \in 1..(pos' - 1), lines[i] = "data" PROVE \E j \in DOMAIN got' : got'[j] = i
      OBVIOUS
    <3>1. i \in 1..(pos - 1)
      BY <1>7, <1>s, <2>1
    <3>2. (\E j \in DOMAIN got : got[j] = i) \/ (event # <<>> /\ i = pos - 1)
      BY <1>f, <3>1
    <3> QED
      BY <2>2, <2>3, <3>2
  <2> QED
    BY <1>1, <1>7, <2>4
<1>8. CASE reader # "lines" /\ UNCHANGED got /\ AtEnd /\ pos' = pos /\ event' = <<>>
  <2>1. event = <<>>
    BY <1>8, <1>b
  <2> QED
    BY <1>1, <1>8, <1>f, <2>1
<1> QED
  BY ReadEffect, <1>3, <1>4, <1>5, <1>6, <1>7, <1>8

-----------------------------------------------------------------------------
(* The first error                                                         *)

\* A line-by-line reader that has an error in hand reports it.
LEMMA ErrorIsReported ==
  ASSUME TypeOK, Next, reader = "lines", calling, hasErrorPrefix
  PROVE  outs' = Append(outs, IF AtEnd /\ Unmarshaled(acc) = "nothing" THEN ending ELSE Unmarshaled(acc))
<1>1. ReportError
  BY DEF Next, Recv, RecvFinished, Accumulate, Done, Chunk, Collect, DispatchError, DispatchDone, DispatchChunk,
     DispatchSession, DecoderEnds, Dispatch, ByEvent
<1> QED
  BY <1>1 DEF ReportError, Returns, Ends

\* A line-by-line reader accumulates what is no chunk, and keeps the call at an error unless
\* that is one line too many.
LEMMA ErrorEffect ==
  ASSUME TypeOK, Next, reader = "lines"
  PROVE  \/ UNCHANGED <<pos, acc>>
         \/ /\ ~AtEnd /\ pos' = pos + 1
            /\ Kind \in Harmless => acc' = acc
            /\ Kind \in {"error", "rawerror"} /\ ~hasErrorPrefix =>
                 /\ acc' = Written("error")
                 /\ TooMany(count + 1) \/ (calling' /\ hasErrorPrefix')
<1>1. CASE Recv \/ RecvFinished
  BY <1>1 DEF Recv, RecvFinished
<1>2. CASE ReportError
  BY <1>2 DEF ReportError
<1>3. CASE Accumulate
  BY <1>3 DEF Accumulate, ByLine, GoesOn, Returns, Ends, Harmless, IsError, Text
<1>4. CASE Done \/ Chunk
  BY <1>4 DEF Done, Chunk
<1> QED
  BY <1>1, <1>2, <1>3, <1>4 DEF Next, Collect, DispatchError, DispatchDone, DispatchChunk,
     DispatchSession, DecoderEnds, Dispatch, ByEvent

\* Its call counts the line it reads, if that is no chunk, or counts from 0.
LEMMA CountEffect ==
  ASSUME TypeOK, Next, reader = "lines"
  PROVE  \/ UNCHANGED <<pos, count>>
         \/ (pos' = pos \/ pos' = pos + 1) /\ count' = 0
         \/ pos' = pos + 1 /\ count' = count + 1 /\ Kind \notin {"data", "junk"}
<1>1. CASE Recv \/ RecvFinished
  BY <1>1 DEF Recv, RecvFinished, Returns, Ends
<1>2. CASE ReportError
  BY <1>2 DEF ReportError, Returns, Ends
<1>3. CASE Accumulate
  BY <1>3 DEF Accumulate, Returns, Ends
<1>4. CASE Done \/ Chunk
  BY <1>4 DEF Done, Chunk, Returns, ReturnsChunk, Ends
<1> QED
  BY <1>1, <1>2, <1>3, <1>4 DEF Next, Collect, DispatchError, DispatchDone, DispatchChunk,
     DispatchSession, DecoderEnds, Dispatch, ByEvent

\* So that what it has counted is what it read last.
LEMMA NextCountInv ==
  ASSUME TypeOK, Next, reader = "lines", CountInv
  PROVE  CountInv'
<1>1. pos \in Nat \ {0} /\ count \in Nat /\ lines' = lines
  BY OutsGrow, Sequences, LimitAssumption DEF TypeOK, stream
<1>2. CASE UNCHANGED <<pos, count>>
  BY <1>1, <1>2 DEF CountInv
<1>3. CASE (pos' = pos \/ pos' = pos + 1) /\ count' = 0
  BY <1>1, <1>3 DEF CountInv
<1>4. CASE pos' = pos + 1 /\ count' = count + 1 /\ Kind \notin {"data", "junk"}
  <2>1. count' < pos' /\ pos' - count' = pos - count
    BY <1>1, <1>4 DEF CountInv
  <2>2. \A j \in (pos - count)..pos : j = pos \/ j \in (pos - count)..(pos - 1)
    BY <1>1
  <2> QED
    BY <1>1, <1>4, <2>1, <2>2 DEF CountInv, Kind
<1> QED
  BY CountEffect, <1>2, <1>3, <1>4

\* With fewer empty lines before it than the limit, the first error is not one too many.
LEMMA NotTooMany ==
  ASSUME TypeOK, CountInv, IsFirstError(pos)
  PROVE  ~TooMany(count + 1)
<1>1. pos \in Nat \ {0} /\ count \in Nat /\ EmptyMessagesLimit \in Nat /\ count <= EmptyMessagesLimit
  BY LimitAssumption, Sequences DEF TypeOK
<1>2. \A j \in (pos - count)..(pos - 1) : lines[j] = "blank"
  <2> TAKE j \in (pos - count)..(pos - 1)
  <2>1. j \in 1..(pos - 1)
    BY <1>1 DEF CountInv
  <2> QED
    BY <2>1 DEF CountInv, IsFirstError, Harmless
<1>3. ~(pos <= count)
  BY <1>1 DEF CountInv
<1>4. count # EmptyMessagesLimit
  BY <1>2, <1>3 DEF IsFirstError, WithinLimit
<1> QED
  BY <1>1, <1>4 DEF TooMany

\* The first error is in hand or has been reported.
LEMMA NextErrorInv == TypeOK /\ OrderInv /\ ErrorInv /\ [Next]_vars => ErrorInv'
<1> SUFFICES ASSUME TypeOK, OrderInv, ErrorInv, Next, reader = "lines"
             PROVE  /\ (\A j \in 1..(pos' - 1) : lines'[j] \in Harmless) => acc' = "empty"
                    /\ \A i \in 1..(pos' - 1) : IsFirstError(i)' =>
                          Told' \/ (i = pos' - 1 /\ calling' /\ hasErrorPrefix' /\ acc' = "error")
  <2>1. TypeOK /\ Next => UNCHANGED reader
    BY OutsGrow DEF stream
  <2>2. UNCHANGED vars => (ErrorInv' <=> ErrorInv)
    BY DEF ErrorInv, CountInv, IsFirstError, WithinLimit, Told, vars, stream
  <2>3. TypeOK /\ ErrorInv /\ Next /\ reader = "lines" => CountInv'
    BY NextCountInv DEF ErrorInv
  <2> QED
    BY <2>1, <2>2, <2>3 DEF ErrorInv
<1>1. UNCHANGED <<reader, lines>> /\ (outs' = outs \/ \E o \in Outcomes : outs' = Append(outs, o))
  BY OutsGrow DEF stream
<1>s. pos \in Nat \ {0} /\ outs \in Seq(Outcomes) /\ DOMAIN outs = 1..Len(outs) /\ Len(outs) \in Nat
  BY Sequences
<1>i. /\ (\A j \in 1..(pos - 1) : lines[j] \in Harmless) => acc = "empty"
      /\ \A i \in 1..(pos - 1) : IsFirstError(i) =>
            Told \/ (i = pos - 1 /\ calling /\ hasErrorPrefix /\ acc = "error")
  BY DEF ErrorInv
<1>3. Told => Told'
  <2>1. ASSUME NEW o \in Outcomes PROVE \A k \in DOMAIN outs : k \in DOMAIN Append(outs, o) /\ Append(outs, o)[k] = outs[k]
    BY <1>s, Appended
  <2> QED
    BY <1>1, <2>1 DEF Told
<1>4. calling /\ hasErrorPrefix /\ acc = "error" => Told'
  <2> HAVE calling /\ hasErrorPrefix /\ acc = "error"
  <2>1. outs' = Append(outs, "apierror")
    BY ErrorIsReported DEF Unmarshaled
  <2>2. Len(outs) + 1 \in DOMAIN outs' /\ outs'[Len(outs) + 1] = "apierror"
    BY <1>s, <2>1, Appended DEF Outcomes
  <2> QED
    BY <2>2 DEF Told
<1>5. \A i \in 1..(pos - 1) : IsFirstError(i) => Told'
  BY <1>i, <1>3, <1>4
<1>6. \A i : IsFirstError(i)' <=> IsFirstError(i)
  BY <1>1 DEF IsFirstError, WithinLimit
<1>7. CASE UNCHANGED <<pos, acc>>
  BY <1>1, <1>5, <1>6, <1>7, <1>i
<1>8. CASE /\ ~AtEnd /\ pos' = pos + 1
           /\ Kind \in Harmless => acc' = acc
           /\ Kind \in {"error", "rawerror"} /\ ~hasErrorPrefix =>
                /\ acc' = Written("error")
                /\ TooMany(count + 1) \/ (calling' /\ hasErrorPrefix')
  <2>1. (\A j \in 1..(pos' - 1) : lines'[j] \in Harmless) => acc' = "empty"
    BY <1>1, <1>8, <1>s, <1>i DEF Kind
  <2>2. IsFirstError(pos) => calling' /\ hasErrorPrefix' /\ acc' = "error"
    <3> HAVE IsFirstError(pos)
    <3>1. acc = "empty" /\ Kind \in {"error", "rawerror"}
      BY <1>i DEF IsFirstError, Kind
    <3>2. ~hasErrorPrefix
      <4>1. pos > 1 => lines[pos - 1] \in Harmless
        BY <1>s DEF IsFirstError
      <4> QED
        BY <4>1 DEF OrderInv, Harmless, IsError
    <3>3. Written("error") = "error"
      BY <3>1 DEF Written
    <3>4. ~TooMany(count + 1)
      BY NotTooMany DEF ErrorInv
    <3> QED
      BY <1>8, <3>1, <3>2, <3>3, <3>4
  <2> QED
    BY <1>5, <1>6, <1>8, <1>s, <2>1, <2>2
<1> QED
  BY ErrorEffect, <1>7, <1>8

-----------------------------------------------------------------------------
(* The readers of bare frames                                              *)

\* The lines of a stream of bare frames: what is no empty line has one behind it.
LEMMA BareLines ==
  ASSUME TypeOK, Bare, NEW m \in Nat
  PROVE  /\ m >= 1 /\ 2 * m <= Len(lines) + 1 => 2 * m <= Len(lines) /\ lines[2 * m] = "blank"
         /\ 2 * m + 1 <= Len(lines) => /\ 2 * m + 2 <= Len(lines)
                                       /\ lines[2 * m + 1] \in {"data", "junk", "error", "done"}
                                       /\ lines[2 * m + 2] = "blank"
<1>1. Len(lines) \in Nat /\ DOMAIN lines = 1..Len(lines) /\ Len(lines) % 2 = 0
  BY Sequences DEF Bare
<1>2. (2 * m) % 2 = 0 /\ (2 * m + 1) % 2 = 1 /\ (2 * m + 2) % 2 = 0
  OBVIOUS
<1>3. m >= 1 /\ 2 * m <= Len(lines) + 1 => 2 * m <= Len(lines)
  BY <1>1
<1>4. 2 * m + 1 <= Len(lines) => 2 * m + 2 <= Len(lines)
  BY <1>1
<1>5. \A i \in DOMAIN lines : IF i % 2 = 0 THEN lines[i] = "blank" ELSE lines[i] \in DataKinds \ {"head"}
  BY DEF Bare
<1>6. m >= 1 /\ 2 * m <= Len(lines) => lines[2 * m] = "blank"
  BY <1>1, <1>2, <1>5
<1>7. 2 * m + 1 <= Len(lines) => lines[2 * m + 1] \in DataKinds \ {"head"} /\ lines[2 * m + 2] = "blank"
  BY <1>1, <1>2, <1>4, <1>5
<1> QED
  BY <1>3, <1>4, <1>6, <1>7 DEF DataKinds

\* The next result after n chunks is the expected one; a chunk leads to the next frame.
Expected(n) ==
  /\ outs' = Append(outs, ExpectedAt(n + 1))
  /\ ExpectedAt(n + 1) = "chunk" => /\ got' = Append(got, 2 * n + 1) /\ ~finished'
                                    /\ IF reader = "lines" THEN LineAt(n + 1)' ELSE EventAt(n + 1)'

\* A line-by-line reader of bare frames.
LEMMA BareLineStep ==
  ASSUME TypeOK, Next, Bare, EmptyMessagesLimit >= 2, reader = "lines", ~finished,
         NEW n \in Nat, LineAt(n)
  PROVE  (UNCHANGED <<outs, got, finished>> /\ LineAt(n)') \/ Expected(n)
<1>s. /\ Len(lines) \in Nat /\ pos \in 1..(Len(lines) + 1) /\ count \in Nat /\ EmptyMessagesLimit \in Nat
      /\ UNCHANGED <<reader, lines, ending>>
  BY Sequences, OutsGrow, LimitAssumption DEF TypeOK, stream
<1>b. /\ n >= 1 /\ 2 * n <= Len(lines) + 1 => 2 * n <= Len(lines) /\ lines[2 * n] = "blank"
      /\ 2 * n + 1 <= Len(lines) => /\ 2 * n + 2 <= Len(lines)
                                    /\ lines[2 * n + 1] \in {"data", "junk", "error", "done"}
                                    /\ lines[2 * n + 2] = "blank"
  BY BareLines
<1>e. /\ 2 * n + 1 > Len(lines) => ExpectedAt(n + 1) = ending
      /\ 2 * n + 1 <= Len(lines) =>
           ExpectedAt(n + 1) = CASE lines[2 * n + 1] = "data" -> "chunk"
                                 [] lines[2 * n + 1] = "error" -> "apierror"
                                 [] lines[2 * n + 1] = "done" -> "eof"
                                 [] OTHER -> "badchunk"
  <2>1. 2 * (n + 1) = 2 * n + 2 /\ 2 * (n + 1) - 1 = 2 * n + 1
    OBVIOUS
  <2> QED
    BY <1>s, <1>b, <2>1 DEF ExpectedAt, End, EndOfBody
<1>p. \/ ~hasErrorPrefix /\ acc = "empty" /\ pos = 2 * n /\ ~AtEnd /\ Kind = "blank" /\ count = 0
      \/ ~hasErrorPrefix /\ acc = "empty" /\ pos = 2 * n + 1 /\ count <= 1
           /\ (AtEnd \/ (pos <= Len(lines) /\ Kind \in {"data", "junk", "error", "done"} /\ Kind = lines[2 * n + 1]))
      \/ hasErrorPrefix /\ calling /\ acc = "error" /\ pos = 2 * n + 2 /\ ~AtEnd /\ Kind = "blank"
           /\ lines[2 * n + 1] = "error"
  BY <1>s, <1>b DEF LineAt, AtEnd, Kind
<1>1. CASE Recv
  BY <1>1, <1>s DEF Recv, LineAt
<1>2. CASE ReportError
  <2>1. CASE hasErrorPrefix
    <3>1. outs' = Append(outs, "apierror")
      BY <1>2, <1>p, <2>1 DEF ReportError, Returns, Ends, Unmarshaled
    <3>2. ExpectedAt(n + 1) = "apierror"
      BY <1>e, <1>p, <1>s, <2>1
    <3> QED
      BY <3>1, <3>2 DEF Expected
  <2>2. CASE ~hasErrorPrefix
    <3>1. AtEnd /\ pos = 2 * n + 1 /\ acc = "empty"
      BY <1>2, <1>p, <2>2 DEF ReportError
    <3>2. outs' = Append(outs, ending) /\ ending # "chunk"
      BY <1>2, <3>1 DEF ReportError, Returns, Ends, Unmarshaled, TypeOK
    <3>3. ExpectedAt(n + 1) = ending
      BY <1>e, <1>s, <3>1 DEF AtEnd
    <3> QED
      BY <3>2, <3>3 DEF Expected
  <2> QED
    BY <2>1, <2>2
<1>3. CASE Accumulate
  <2>1. ~hasErrorPrefix /\ ~AtEnd /\ Kind \notin {"data", "junk", "done"} /\ pos' = pos + 1 /\ ~TooMany(count + 1)
        /\ calling
    BY <1>3, <1>p, <1>s DEF Accumulate, ByLine, TooMany
  <2>2. UNCHANGED <<outs, got, finished, calling>> /\ hasErrorPrefix' = IsError(Kind) /\ count' = count + 1
        /\ acc' = IF Kind = "blank" THEN acc ELSE Written(Text(Kind))
    BY <1>3, <2>1 DEF Accumulate, GoesOn
  <2>3. CASE Kind = "blank"
    <3>0. ~IsError(Kind)
      BY <2>3 DEF IsError
    <3>1. ~hasErrorPrefix'
      BY <2>2, <3>0
    <3>2. acc' = "empty" /\ pos' = 2 * n + 1 /\ count' <= 1
      BY <1>p, <2>1, <2>2, <2>3
    <3> QED
      BY <2>2, <3>1, <3>2 DEF LineAt
  <2>4. CASE Kind = "error"
    <3>0. IsError(Kind)
      BY <2>4 DEF IsError
    <3>3. hasErrorPrefix' /\ calling'
      BY <2>1, <2>2, <3>0
    <3>1. pos' = 2 * n + 2 /\ lines'[2 * n + 1] = "error"
      BY <1>p, <1>s, <2>1, <2>4
    <3>2. acc' = "error"
      BY <1>p, <2>1, <2>2, <2>4 DEF Written, Text
    <3> QED
      BY <2>2, <3>1, <3>2, <3>3 DEF LineAt
  <2> QED
    BY <1>p, <2>1, <2>3, <2>4
<1>4. CASE Done
  <2>1. outs' = Append(outs, "eof") /\ Kind = "done" /\ ~AtEnd /\ ~hasErrorPrefix
    BY <1>4 DEF Done, Returns, Ends
  <2>2. ExpectedAt(n + 1) = "eof"
    BY <1>e, <1>p, <1>s, <2>1 DEF AtEnd
  <2> QED
    BY <2>1, <2>2 DEF Expected
<1>5. CASE Chunk
  <2>1. ~AtEnd /\ ~hasErrorPrefix /\ Kind \in {"data", "junk"} /\ pos' = pos + 1 /\ UNCHANGED <<acc, finished>>
        /\ hasErrorPrefix' = FALSE /\ count' = 0
    BY <1>5 DEF Chunk, Returns, ReturnsChunk, Ends
  <2>2. pos = 2 * n + 1 /\ Kind = lines[2 * n + 1] /\ pos <= Len(lines) /\ acc = "empty"
    BY <1>p, <2>1 DEF AtEnd
  <2>3. CASE Kind = "junk"
    <3>1. outs' = Append(outs, "badchunk") /\ ExpectedAt(n + 1) = "badchunk"
      BY <1>5, <1>e, <2>2, <2>3 DEF Chunk, Returns, Ends
    <3> QED
      BY <3>1 DEF Expected
  <2>4. CASE Kind = "data"
    <3>1. outs' = Append(outs, "chunk") /\ got' = Append(got, 2 * n + 1) /\ ExpectedAt(n + 1) = "chunk"
      BY <1>5, <1>e, <2>2, <2>4 DEF Chunk, ReturnsChunk, Ends
    <3>2. LineAt(n + 1)'
      <4>1. pos' = 2 * (n + 1) /\ n + 1 >= 1
        BY <2>1, <2>2
      <4> QED
        BY <2>1, <2>2, <4>1 DEF LineAt
    <3> QED
      BY <2>1, <3>1, <3>2 DEF Expected
  <2> QED
    BY <2>1, <2>3, <2>4
<1> QED
  BY <1>1, <1>2, <1>3, <1>4, <1>5 DEF Next, RecvFinished, Collect, DispatchError, DispatchDone, DispatchChunk,
     DispatchSession, DecoderEnds, Dispatch, ByEvent

\* A reader of bare frames that reads event by event.
LEMMA BareEventStep ==
  ASSUME TypeOK, Next, Bare, EmptyMessagesLimit >= 2, reader # "lines", ~finished,
         NEW n \in Nat, EventAt(n)
  PROVE  (UNCHANGED <<outs, got, finished>> /\ EventAt(n)') \/ Expected(n)
<1>s. /\ Len(lines) \in Nat /\ pos \in 1..(Len(lines) + 1) /\ EmptyMessagesLimit \in Nat
      /\ UNCHANGED <<reader, lines, ending>> /\ reader \in {"responses", "session"}
  BY Sequences, OutsGrow, LimitAssumption, ReadersAssumption DEF TypeOK, stream
<1>b. 2 * n + 1 <= Len(lines) => /\ 2 * n + 2 <= Len(lines)
                                 /\ lines[2 * n + 1] \in {"data", "junk", "error", "done"}
                                 /\ lines[2 * n + 2] = "blank"
  BY BareLines
<1>e. /\ 2 * n + 1 > Len(lines) => ExpectedAt(n + 1) = EndOfBody
      /\ 2 * n + 1 <= Len(lines) =>
           ExpectedAt(n + 1) = IF lines[2 * n + 1] = "data" THEN "chunk" ELSE End(lines[2 * n + 1])
  <2>1. 2 * (n + 1) = 2 * n + 2 /\ 2 * (n + 1) - 1 = 2 * n + 1
    OBVIOUS
  <2> QED
    BY <1>s, <1>b, <2>1 DEF ExpectedAt
<1>p. \/ pos = 2 * n + 1 /\ event = <<>>
           /\ (AtEnd \/ (Kind \in {"data", "junk", "error", "done"} /\ Kind # "blank"))
      \/ pos = 2 * n + 2 /\ event = <<2 * n + 1>> /\ ~AtEnd /\ Kind = "blank"
           /\ 2 * n + 1 <= Len(lines) /\ lines[2 * n + 1] \in {"data", "junk", "error", "done"}
  BY <1>s, <1>b DEF EventAt, AtEnd, Kind
<1>q. ~hasErrorPrefix /\ acc = "empty" /\ count = 0
  BY DEF EventAt
<1>1. CASE Recv
  BY <1>1, <1>s DEF Recv, EventAt
<1>2. CASE Collect
  <2>1. pos = 2 * n + 1 /\ event = <<>> /\ Kind \in DataKinds
    BY <1>2, <1>p DEF Collect, DataKinds
  <2>2. event' = <<2 * n + 1>> /\ pos' = 2 * n + 2
        /\ UNCHANGED <<outs, got, finished, hasErrorPrefix, acc, count>>
    BY <1>2, <2>1, <1>s DEF Collect
  <2> QED
    BY <1>q, <2>2 DEF EventAt
<1>3. ASSUME Dispatch
      PROVE  /\ pos = 2 * n + 2 /\ Len(event) = 1 /\ event[1] = 2 * n + 1 /\ event # <<>>
             /\ 2 * n + 1 <= Len(lines) /\ lines[2 * n + 1] \in {"data", "junk", "error", "done"}
             /\ pos' = 2 * (n + 1) + 1 /\ event' = <<>>
  <2>1. pos = 2 * n + 2 /\ event = <<2 * n + 1>> /\ pos' = pos + 1 /\ event' = <<>>
    BY <1>3, <1>p DEF Dispatch, NoData
  <2>2. Len(event) = 1 /\ event[1] = 2 * n + 1 /\ event # <<>>
    BY <2>1
  <2>3. pos' = 2 * (n + 1) + 1
    BY <2>1
  <2> QED
    BY <1>p, <2>1, <2>2, <2>3
<1>4. CASE DispatchError
  <2>1. Dispatch /\ reader = "responses" /\ lines[2 * n + 1] = "error"
    BY <1>3, <1>4 DEF DispatchError, Begins
  <2>2. acc' = "error"
    BY <1>3, <1>4, <1>q, <2>1 DEF DispatchError, Written, Text
  <2>3. outs' = Append(outs, "apierror")
    <3>1. ~TooMany(count + 1) /\ Unmarshaled(acc') = "apierror"
      BY <1>q, <1>s, <2>2 DEF TooMany, Unmarshaled
    <3> QED
      BY <1>4, <3>1 DEF DispatchError, Returns, Ends
  <2>4. ExpectedAt(n + 1) = "apierror"
    BY <1>3, <1>e, <2>1 DEF End
  <2> QED
    BY <2>3, <2>4 DEF Expected
<1>5. CASE DispatchDone
  <2>1. outs' = Append(outs, "eof") /\ reader = "responses" /\ lines[2 * n + 1] = "done"
    BY <1>3, <1>5 DEF DispatchDone, Begins, Returns, Ends
  <2>2. ExpectedAt(n + 1) = "eof"
    BY <1>3, <1>5, <1>e, <2>1 DEF End, DispatchDone
  <2> QED
    BY <2>1, <2>2 DEF Expected
<1>6. CASE DispatchChunk \/ DispatchSession
  <2>0. Dispatch /\ UNCHANGED <<acc, finished>> /\ hasErrorPrefix' = FALSE /\ count' = 0
    BY <1>6 DEF DispatchChunk, DispatchSession, Returns, ReturnsChunk, Ends
  <2>1. IsChunk <=> lines[2 * n + 1] = "data"
    BY <1>3, <2>0 DEF IsChunk
  <2>2. CASE lines[2 * n + 1] = "data"
    <3>1. outs' = Append(outs, "chunk") /\ got' = Append(got, 2 * n + 1)
      BY <1>3, <1>6, <2>0, <2>1, <2>2 DEF DispatchChunk, DispatchSession, ReturnsChunk, Ends
    <3>2. ExpectedAt(n + 1) = "chunk"
      BY <1>3, <1>e, <2>0, <2>2
    <3>3. EventAt(n + 1)'
      BY <1>3, <1>q, <2>0 DEF EventAt
    <3> QED
      BY <2>0, <3>1, <3>2, <3>3 DEF Expected
  <2>3. CASE lines[2 * n + 1] # "data"
    <3>1. CASE DispatchChunk
      <4>1. lines[2 * n + 1] = "junk" /\ reader = "responses"
        BY <1>3, <2>0, <2>3, <3>1 DEF DispatchChunk, Begins
      <4>2. outs' = Append(outs, "badchunk") /\ ExpectedAt(n + 1) = "badchunk"
        BY <1>3, <1>e, <2>0, <2>1, <2>3, <3>1, <4>1 DEF DispatchChunk, Returns, Ends, End
      <4> QED
        BY <4>2 DEF Expected
    <3>2. CASE DispatchSession
      <4>1. outs' = Append(outs, "unknown") /\ ExpectedAt(n + 1) = "unknown"
        BY <1>3, <1>e, <2>0, <2>1, <2>3, <3>2 DEF DispatchSession, Returns, Ends, End
      <4> QED
        BY <4>1 DEF Expected
    <3> QED
      BY <1>6, <3>1, <3>2
  <2> QED
    BY <2>2, <2>3
<1>7. CASE DecoderEnds
  <2>1. AtEnd /\ pos = 2 * n + 1
    BY <1>7, <1>p DEF DecoderEnds
  <2>2. outs' = Append(outs, EndOfBody) /\ EndOfBody # "chunk"
    BY <1>7 DEF DecoderEnds, Returns, Ends, EndOfBody, TypeOK
  <2>3. ExpectedAt(n + 1) = EndOfBody
    BY <1>e, <2>1 DEF AtEnd
  <2> QED
    BY <2>2, <2>3 DEF Expected
<1> QED
  BY <1>1, <1>2, <1>4, <1>5, <1>6, <1>7 DEF Next, RecvFinished, ReportError, Accumulate, Done, Chunk, ByLine
\* A reader of bare frames gives what the frames say, up to the first result that is no chunk.
LEMMA NextBareInv == TypeOK /\ BareInv /\ [Next]_vars => BareInv'
<1> SUFFICES ASSUME TypeOK, BareInv, Next, Bare, EmptyMessagesLimit >= 2 PROVE BareInv'
  <2>1. TypeOK /\ Next => UNCHANGED lines
    BY OutsGrow DEF stream
  <2>2. UNCHANGED lines => (Bare' <=> Bare)
    BY DEF Bare
  <2>3. UNCHANGED vars => (BareInv' <=> BareInv)
    BY DEF BareInv, Bare, ExpectedAt, EndOfBody, End, LineAt, EventAt, vars, stream
  <2> QED
    BY <2>1, <2>2, <2>3 DEF BareInv
<1>n. PICK n \in Nat : n = Len(outs)
  BY Sequences
<1> DEFINE AllChunks == \A k \in DOMAIN outs : outs[k] = "chunk"
           Numbers == 1..Len(lines)
<1>1. UNCHANGED <<reader, lines, ending>> /\ (outs' = outs \/ \E o \in Outcomes : outs' = Append(outs, o))
  BY OutsGrow DEF stream
<1>s. /\ outs \in Seq(Outcomes) /\ DOMAIN outs = 1..n /\ n \in Nat
      /\ got \in Seq(Numbers) /\ DOMAIN got = 1..Len(got) /\ Len(got) \in Nat /\ got' \in Seq(Numbers)
  <2>1. TypeOK'
    BY NextTypeOK
  <2> QED
    BY <1>1, <1>n, <2>1, Sequences DEF TypeOK
<1>e. \A k : ExpectedAt(k)' = ExpectedAt(k)
  BY <1>1 DEF ExpectedAt, End, EndOfBody
<1>i. /\ \A k \in DOMAIN outs : (\A j \in 1..(k - 1) : outs[j] = "chunk") =>
           /\ outs[k] = ExpectedAt(k)
           /\ outs[k] = "chunk" => k \in DOMAIN got /\ got[k] = 2 * k - 1
      /\ AllChunks => /\ Len(got) = n /\ ~finished
                      /\ IF reader = "lines" THEN LineAt(n) ELSE EventAt(n)
  BY <1>n DEF BareInv
<1>g. \A j \in DOMAIN got : j \in DOMAIN got' /\ got'[j] = got[j]
  <2>1. got' = got \/ \E i \in Numbers : got' = Append(got, i)
    <3>1. IsChunk => event[1] \in Numbers
      <4>1. IsChunk => event # <<>>
        BY DEF IsChunk
      <4> QED
        BY <4>1, Sequences
    <3>2. ~AtEnd => pos \in Numbers
      BY Sequences
    <3> QED
      BY ReadEffect, <3>1, <3>2
  <2> HIDE DEF Numbers
  <2>2. \A i \in Numbers : \A j \in DOMAIN got : j \in DOMAIN Append(got, i) /\ Append(got, i)[j] = got[j]
    BY <1>s, Appended
  <2> QED
    BY <2>1, <2>2
<1>o. \A o \in Outcomes : LET t == Append(outs, o)
                          IN /\ Len(t) = n + 1 /\ DOMAIN t = 1..(n + 1) /\ t[n + 1] = o
                             /\ \A i \in 1..n : t[i] = outs[i]
  <2> TAKE o \in Outcomes
  <2>1. /\ Len(Append(outs, o)) = n + 1
        /\ DOMAIN Append(outs, o) = 1..(n + 1)
        /\ Append(outs, o)[n + 1] = o
    BY <1>n, <1>s
  <2>2. \A i \in 1..n : Append(outs, o)[i] = outs[i]
    BY <1>n, <1>s
  <2> QED
    BY <2>1, <2>2
<1>a. AllChunks => \/ /\ UNCHANGED <<outs, got, finished>>
                      /\ IF reader = "lines" THEN LineAt(n)' ELSE EventAt(n)'
                   \/ Expected(n)
  BY <1>i, <1>s, BareLineStep, BareEventStep
<1> HIDE DEF Numbers
<1>2. CASE outs' = outs
  <2>1. \A k \in DOMAIN outs' : (\A j \in 1..(k - 1) : outs'[j] = "chunk") =>
           /\ outs'[k] = ExpectedAt(k)'
           /\ outs'[k] = "chunk" => k \in DOMAIN got' /\ got'[k] = 2 * k - 1
    BY <1>2, <1>e, <1>i, <1>g
  <2>2. ~Expected(n)
    <3>1. Append(outs, ExpectedAt(n + 1)) # outs
      BY <1>s
    <3> QED
      BY <1>2, <3>1 DEF Expected
  <2>3. AllChunks => /\ Len(got') = n /\ ~finished' /\ Len(outs') = n
                     /\ IF reader' = "lines" THEN LineAt(n)' ELSE EventAt(n)'
    BY <1>1, <1>2, <1>a, <1>i, <1>n, <2>2
  <2>4. (\A k \in DOMAIN outs' : outs'[k] = "chunk") => AllChunks
    BY <1>2
  <2> QED
    BY <2>1, <2>3, <2>4 DEF BareInv, LineAt, EventAt
<1>3. CASE outs' # outs
  <2>1. PICK o \in Outcomes : outs' = Append(outs, o)
    BY <1>1, <1>3
  <2>2. /\ Len(outs') = n + 1 /\ DOMAIN outs' = 1..(n + 1) /\ outs'[n + 1] = o
        /\ \A i \in 1..n : outs'[i] = outs[i]
    BY <1>o, <2>1
  <2>3. AllChunks => /\ o = ExpectedAt(n + 1)
                     /\ o = "chunk" => /\ Len(got) = n /\ got' = Append(got, 2 * n + 1) /\ ~finished'
                                       /\ IF reader = "lines" THEN LineAt(n + 1)' ELSE EventAt(n + 1)'
    <3> HAVE AllChunks
    <3>1. Expected(n)
      BY <1>3, <1>a
    <3>2. outs'[n + 1] = ExpectedAt(n + 1)
      <4>1. outs' = Append(outs, ExpectedAt(n + 1))
        BY <3>1 DEF Expected
      <4> QED
        BY <4>1, <1>n, <1>s
    <3> QED
      BY <1>i, <2>2, <3>1, <3>2 DEF Expected
  <2>4. AllChunks /\ o = "chunk" => n + 1 \in DOMAIN got' /\ got'[n + 1] = 2 * n + 1 /\ Len(got') = n + 1
    <3> HAVE AllChunks /\ o = "chunk"
    <3>1. Len(got) = n /\ got' = Append(got, 2 * n + 1)
      BY <2>3
    <3>2. DOMAIN got' = 1..(n + 1) /\ got'[n + 1] = 2 * n + 1 /\ Len(got') = n + 1
      BY <1>s, <3>1
    <3> QED
      BY <3>2
  <2>5. ASSUME NEW k \in DOMAIN outs', \A j \in 1..(k - 1) : outs'[j] = "chunk"
        PROVE  /\ outs'[k] = ExpectedAt(k)'
               /\ outs'[k] = "chunk" => k \in DOMAIN got' /\ got'[k] = 2 * k - 1
    <3>1. CASE k \in 1..n
      <4>1. \A j \in 1..(k - 1) : outs[j] = "chunk"
        BY <1>s, <2>2, <2>5, <3>1
      <4> QED
        BY <1>e, <1>g, <1>i, <1>s, <2>2, <3>1, <4>1
    <3>2. CASE k = n + 1
      <4>1. AllChunks
        BY <1>s, <2>2, <2>5, <3>2
      <4>2. 2 * k - 1 = 2 * n + 1
        BY <1>s, <3>2
      <4> QED
        BY <1>e, <2>2, <2>3, <2>4, <3>2, <4>1, <4>2
    <3> QED
      BY <1>s, <2>2, <3>1, <3>2
  <2>6. ASSUME \A k \in DOMAIN outs' : outs'[k] = "chunk"
        PROVE  /\ Len(got') = Len(outs') /\ ~finished'
               /\ IF reader' = "lines" THEN LineAt(n + 1)' ELSE EventAt(n + 1)'
    <3>1. AllChunks /\ o = "chunk"
      BY <1>s, <2>2, <2>6
    <3> QED
      BY <1>1, <2>2, <2>3, <2>4, <3>1
  <2> QED
    BY <2>2, <2>5, <2>6 DEF BareInv, LineAt, EventAt
<1> QED
  BY <1>2, <1>3

-----------------------------------------------------------------------------
(* The theorems                                                            *)

\* Every step keeps the invariant.
LEMMA NextIInv == IInv /\ [Next]_vars => IInv'
BY NextTypeOK, NextEndInv, NextOrderInv, NextFramedInv, NextErrorInv, NextBareInv DEF IInv

\* The invariant holds in every state of every run.
THEOREM IInvHolds == Spec => []IInv
BY InitIInv, NextIInv, PTL DEF Spec

\* Every variable keeps its type, for every stream and limit.
THEOREM TypeCorrect == Spec => []TypeOK
<1>1. IInv => TypeOK
  BY DEF IInv
<1> QED
  BY <1>1, IInvHolds, PTL

\* Once a caller was told that the stream is at its end, it is told nothing else.
THEOREM EndStays == Spec => []EndIsFinal
<1>1. IInv => EndIsFinal
  BY DEF IInv, EndInv
<1> QED
  BY <1>1, IInvHolds, PTL

\* Chunks are returned in the order of their lines, and in a framed stream none is lost.
THEOREM InOrder == Spec => []ChunksInOrder
<1>1. ASSUME IInv PROVE ChunksInOrder
  <2>1. \A i, j \in DOMAIN got : i < j => got[i] < got[j]
    BY <1>1 DEF IInv, OrderInv
  <2>2. ASSUME Framed, NEW i \in 1..(pos - 1), lines[i] = "data"
        PROVE  \E j \in DOMAIN (got \o event) : (got \o event)[j] = i
    <3> DEFINE Numbers == 1..Len(lines)
    <3>1. got \in Seq(Numbers) /\ event \in Seq(Numbers)
      BY <1>1, Sequences DEF IInv
    <3>2. /\ event # <<>> => Len(event) = 1 /\ event[1] = pos - 1
          /\ (\E j \in DOMAIN got : got[j] = i) \/ (event # <<>> /\ i = pos - 1)
      BY <1>1, <2>2 DEF IInv, FramedInv
    <3> HIDE DEF Numbers
    <3>3. /\ DOMAIN (got \o event) = 1..(Len(got) + Len(event)) /\ Len(got) \in Nat /\ Len(event) \in Nat
          /\ DOMAIN got = 1..Len(got)
          /\ \A j \in 1..Len(got) : (got \o event)[j] = got[j]
          /\ Len(event) = 1 => (got \o event)[Len(got) + 1] = event[1]
      BY <3>1
    <3>4. CASE \E j \in DOMAIN got : got[j] = i
      BY <3>3, <3>4
    <3>5. CASE event # <<>> /\ i = pos - 1
      <4>1. Len(got) + 1 \in DOMAIN (got \o event) /\ (got \o event)[Len(got) + 1] = i
        BY <3>2, <3>3, <3>5
      <4> QED
        BY <4>1
    <3> QED
      BY <3>2, <3>4, <3>5
  <2> QED
    BY <2>1, <2>2 DEF ChunksInOrder
<1> QED
  BY <1>1, IInvHolds, PTL

\* The first error of a stream reaches the caller, whatever the limit, if only chunks and
\* empty lines stand before it, and fewer empty lines than the limit directly before it.
THEOREM ErrorIsTold == Spec => []FirstErrorIsReported
<1>1. ASSUME IInv PROVE FirstErrorIsReported
  <2> SUFFICES ASSUME reader = "lines", NEW i \in 1..(pos - 1), lines[i] \in {"error", "rawerror"},
                      \A j \in 1..(i - 1) : lines[j] \in {"data", "junk", "blank"},
                      WithinLimit(i), i < pos - 1 \/ ~calling
               PROVE  Told
    BY DEF FirstErrorIsReported, Told
  <2>1. IsFirstError(i)
    BY DEF IsFirstError, Harmless
  <2>2. Told \/ (i = pos - 1 /\ calling)
    BY <1>1, <2>1 DEF IInv, ErrorInv
  <2> QED
    BY <1>1, <2>2, Sequences DEF IInv
<1> QED
  BY <1>1, IInvHolds, PTL

\* All three readers give what the frames of a bare stream say, up to the first result that
\* is no chunk.
THEOREM ReadersAgree == Spec => []FollowsFrames
<1>1. IInv => FollowsFrames
  BY DEF IInv, BareInv, FollowsFrames
<1> QED
  BY <1>1, IInvHolds, PTL
=============================================================================

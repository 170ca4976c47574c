-------------------------- MODULE BashSessionProofs --------------------------
(***************************************************************************)
(* The persistent shell, for every number of calls and every order in      *)
(* which they are issued, abandoned, cancelled and restarted.              *)
(*                                                                         *)
(* IInv is inductive.  Its parts: TypeOK; RoomInv (a call that enters has  *)
(* a process left to start); CallInv (a call has a process only once it    *)
(* has entered, and reports its end only if there was one); AloneInv (of   *)
(* two calls under way one is abandoned); ProcInv (only the current        *)
(* process runs, and none when the session is lost); TraceInv (bytes       *)
(* belong to the process they are read from, and a report means an end);   *)
(* DisturbInv (who killed the process of a call that waits).               *)
(***************************************************************************)
EXTENDS BashSession, FiniteSetTheorems, SequenceTheorems, TLAPS

Issued == {c \in Calls : call[c].at # "new"}
Entered == {c \in Calls : call[c].at \in {"waits", "done"}}

RoomInv == Cardinality(Issued) <= MaxCalls /\ gen <= 1 + Cardinality(Entered)

CallInv ==
  \A c \in Calls :
    /\ call[c].gen <= gen
    /\ call[c].at \in {"new", "entered"} => call[c].gen = 0
    /\ call[c].at = "waits" \/ call[c].result = "terminated" => call[c].gen # 0
    /\ call[c].at # "done" => call[c].result = "none"
    /\ call[c].result = "ok" => call[c].ended

AloneInv ==
  /\ \A c, d \in Calls : UnderWay(c) /\ UnderWay(d) /\ c # d => call[c].cancelled \/ call[d].cancelled
  /\ closed => \A c \in Calls : UnderWay(c) => call[c].cancelled

ProcInv ==
  /\ \A g \in Gens : proc[g].alive => g = gen /\ proc[g].open /\ proc[g].killer = NoCall
  /\ dead => ~proc[gen].alive
  /\ AtMostOneProcess

\* Process p holds only frames and output of the calls in S, and reports of those in T.
Within(p, S, T) ==
  /\ p.stdin \in Seq(S) /\ p.current \in S \cup {NoCall}
  /\ p.pipe["out"] \in Seq(S) /\ p.reader["out"].chunk \in Seq(S)
  /\ p.pipe["ctrl"] \in Seq(T) /\ p.reader["ctrl"].chunk \in Seq(T)

\* A report is of a call of the process that has ended, or that nobody waits for.
Of(g) == {c \in Calls : call[c].gen = g}
Settled(g) == {c \in Of(g) : call[c].at = "waits" => call[c].ended}

TraceInv ==
  /\ \A g \in Gens : Within(proc[g], Of(g), Settled(g))
  /\ buf["out"] \in Seq(Of(gen)) /\ buf["ctrl"] \in Seq(Settled(gen))

\* The process of c, if it was killed, was killed for a call that was abandoned.
Disturbed(c) ==
  LET p == proc[call[c].gen]
  IN p.killer = NoCall \/ (p.killer # c /\ call[p.killer].cancelled)

DisturbInv ==
  \A c \in Calls : ~call[c].cancelled =>
    /\ call[c].at = "waits" => Disturbed(c)
    /\ call[c].result = "terminated" => Disturbed(c) /\ ~proc[call[c].gen].alive

IInv == TypeOK /\ RoomInv /\ CallInv /\ AloneInv /\ ProcInv /\ TraceInv /\ DisturbInv

-----------------------------------------------------------------------------
(* Sequences, processes and calls                                          *)

\* A sequence over a set is one over a larger set.
LEMMA LargerSet ==
  ASSUME NEW S, NEW T, S \subseteq T, NEW s \in Seq(S)
  PROVE  s \in Seq(T)
<1>1. /\ Len(s) \in Nat /\ DOMAIN s = 1..Len(s)
      /\ s = [i \in 1..Len(s) |-> s[i]] /\ \A i \in 1..Len(s) : s[i] \in T
  OBVIOUS
<1> QED BY <1>1

\* What the sequences of a pipe go through keeps them over their set.
LEMMA SeqClosed ==
  ASSUME NEW S, NEW s \in Seq(S), NEW t \in Seq(S), NEW x \in S
  PROVE  /\ <<>> \in Seq(S) /\ Append(s, x) \in Seq(S) /\ s \o t \in Seq(S)
         /\ s # <<>> => Head(s) \in S /\ Tail(s) \in Seq(S)
         /\ \A i \in DOMAIN s : s[i] \in S /\ SubSeq(s, i + 1, Len(s)) \in Seq(S)
  OBVIOUS

\* Broadcast only wakes.
LEMMA BroadcastEffect ==
  ASSUME NEW cs \in [Calls -> CallRecords]
  PROVE  /\ Broadcast(cs) \in [Calls -> CallRecords]
         /\ \A c \in Calls : /\ Broadcast(cs)[c].at = cs[c].at /\ Broadcast(cs)[c].gen = cs[c].gen
                              /\ Broadcast(cs)[c].result = cs[c].result
                              /\ Broadcast(cs)[c].cancelled = cs[c].cancelled
                              /\ Broadcast(cs)[c].ended = cs[c].ended
  BY DEF Broadcast, CallRecords

\* Done ends one call with its result.
LEMMA DoneEffect ==
  ASSUME NEW cs \in [Calls -> CallRecords], NEW c \in Calls, NEW result \in Results
  PROVE  /\ Done(cs, c, result) \in [Calls -> CallRecords]
         /\ \A d \in Calls : d # c => Done(cs, c, result)[d] = cs[d]
         /\ Done(cs, c, result)[c].at = "done" /\ Done(cs, c, result)[c].result = result
         /\ Done(cs, c, result)[c].gen = cs[c].gen
         /\ Done(cs, c, result)[c].cancelled = cs[c].cancelled
         /\ Done(cs, c, result)[c].ended <=> cs[c].ended /\ result = "ok"
<1>1. cs[c] \in CallRecords
  OBVIOUS
<1>2. (cs[c].ended /\ result = "ok") \in BOOLEAN
  BY <1>1 DEF CallRecords
<1> DEFINE r == [cs[c] EXCEPT !.at = "done", !.result = result, !.woken = FALSE, !.late = FALSE,
                              !.ended = cs[c].ended /\ result = "ok"]
<1>3. r \in CallRecords
  BY <1>1, <1>2 DEF CallRecords
<1>4. /\ r.at = "done" /\ r.result = result /\ r.gen = cs[c].gen /\ r.cancelled = cs[c].cancelled
      /\ r.ended = (cs[c].ended /\ result = "ok")
  BY <1>1 DEF CallRecords
<1>5. Done(cs, c, result) = [cs EXCEPT ![c] = r]
  BY DEF Done
<1> HIDE DEF r
<1> QED BY <1>3, <1>4, <1>5

\* A call that returns does so with its result.
LEMMA ReturnedAs ==
  ASSUME NEW cs \in [Calls -> CallRecords], NEW c \in Calls, NEW result \in Results,
         NEW after, after = Done(cs, c, result) \/ after = Broadcast(Done(cs, c, result))
  PROVE  after[c].at = "done" /\ after[c].result = result /\ after[c].cancelled = cs[c].cancelled
<1> DEFINE ds == Done(cs, c, result)
<1>1. /\ ds \in [Calls -> CallRecords] /\ ds[c].at = "done" /\ ds[c].result = result
      /\ ds[c].cancelled = cs[c].cancelled
  BY DoneEffect
<1>2. after = ds \/ after = Broadcast(ds)
  OBVIOUS
<1> HIDE DEF ds
<1> QED BY <1>1, <1>2, BroadcastEffect

\* Killed closes one process, if it was open, and says who killed it if it ran.
LEMMA KilledEffect ==
  ASSUME NEW ps \in [Gens -> ProcRecords], NEW g \in Gens, NEW c \in Calls \cup {NoCall}
  PROVE  /\ Killed(ps, g, c) \in [Gens -> ProcRecords]
         /\ \A h \in Gens : h # g => Killed(ps, g, c)[h] = ps[h]
         /\ ps[g].open => ~Killed(ps, g, c)[g].alive
         /\ ~ps[g].open => Killed(ps, g, c)[g] = ps[g]
         /\ Killed(ps, g, c)[g].killer = IF ps[g].open /\ ps[g].alive THEN c ELSE ps[g].killer
         /\ Killed(ps, g, c)[g].stdin \in {<<>>, ps[g].stdin}
         /\ Killed(ps, g, c)[g].current \in {NoCall, ps[g].current}
         /\ \A k \in Pipes : /\ Killed(ps, g, c)[g].pipe[k] \in {<<>>, ps[g].pipe[k]}
                              /\ Killed(ps, g, c)[g].reader[k] = ps[g].reader[k]
<1>1. CASE ~ps[g].open
  BY <1>1 DEF Killed
<1>2. CASE ps[g].open
  <2> DEFINE p == Gone(ps[g])
             who == IF ps[g].alive THEN c ELSE ps[g].killer
             r == [p EXCEPT !.open = FALSE, !.pipe = Empty, !.killer = who]
  <2>1. Killed(ps, g, c) = [ps EXCEPT ![g] = r]
    BY <1>2 DEF Killed
  <2>2. /\ p \in ProcRecords
        /\ ~p.alive /\ p.stdin = <<>> /\ p.current = NoCall
        /\ p.killer = ps[g].killer /\ p.reader = ps[g].reader
    <3>1. ps[g] \in ProcRecords /\ <<>> \in Marks
      BY DEF Marks
    <3> QED BY <3>1 DEF Gone, ProcRecords
  <2> HIDE DEF p
  <2>3. who \in Calls \cup {NoCall} /\ ps[g] \in ProcRecords /\ Empty \in [Pipes -> Marks]
        /\ \A k \in Pipes : Empty[k] = <<>>
    BY <2>2 DEF ProcRecords, Marks, Empty
  <2>4. who = IF ps[g].open /\ ps[g].alive THEN c ELSE ps[g].killer
    BY <1>2, <2>2
  <2> HIDE DEF who
  <2>5. r \in ProcRecords
    BY <2>2, <2>3 DEF ProcRecords
  <2>6. /\ ~r.alive /\ r.killer = who /\ r.stdin = <<>> /\ r.current = NoCall
        /\ r.pipe = Empty /\ r.reader = ps[g].reader
    BY <2>2 DEF ProcRecords
  <2> HIDE DEF r
  <2> QED BY <1>2, <2>1, <2>3, <2>4, <2>5, <2>6
<1> QED BY <1>1, <1>2

\* A new process has nothing in its pipes, and nobody killed it.
LEMMA BornEffect ==
  /\ Born \in ProcRecords /\ Unborn \in ProcRecords
  /\ Born.alive /\ Born.open /\ Born.killer = NoCall /\ ~Unborn.alive /\ Unborn.killer = NoCall
  /\ Born.stdin = <<>> /\ Born.current = NoCall /\ Unborn.stdin = <<>> /\ Unborn.current = NoCall
  /\ \A k \in Pipes : /\ Born.pipe[k] = <<>> /\ Born.reader[k] = Reading
                       /\ Unborn.pipe[k] = <<>> /\ Unborn.reader[k] = Reading
  /\ Reading.chunk = <<>>
<1>1. Unborn \in ProcRecords
  BY DEF Unborn, ProcRecords, Empty, Reading, Marks
<1>2. Born \in ProcRecords
  BY <1>1 DEF Born, ProcRecords
<1>3. /\ Born.alive /\ Born.open /\ Born.killer = NoCall /\ Born.stdin = <<>> /\ Born.current = NoCall
      /\ Born.pipe = Empty /\ Born.reader = [k \in Pipes |-> Reading]
  BY DEF Born, Unborn
<1> QED BY <1>1, <1>2, <1>3 DEF Unborn, Empty, Reading

-----------------------------------------------------------------------------
(* What a step does to the calls                                           *)

\* A call that enters has a process left to start.
LEMMA RoomForOne ==
  ASSUME TypeOK, RoomInv, NEW c \in Calls, call[c].at = "entered"
  PROVE  gen + 1 \in Gens
<1>1. IsFiniteSet(Issued) /\ IsFiniteSet(Entered)
  BY CallsAssumption, FS_Subset DEF Issued, Entered
<1>2. c \notin Entered /\ Entered \cup {c} \subseteq Issued
  BY DEF Issued, Entered
<1>3. /\ Cardinality(Entered \cup {c}) = Cardinality(Entered) + 1
      /\ Cardinality(Entered \cup {c}) <= Cardinality(Issued)
      /\ Cardinality(Entered) \in Nat /\ Cardinality(Issued) \in Nat
  BY <1>1, <1>2, FS_AddElement, FS_Subset, FS_CardinalityType
<1>4. gen \in Nat /\ gen >= 1 /\ MaxCalls \in Nat
  BY BoundsAssumption DEF TypeOK, Gens
<1> QED BY <1>3, <1>4 DEF RoomInv, Gens

\* The call stays where it is, and what is over is not undone.
Kept(c) ==
  /\ call'[c].at = call[c].at /\ call'[c].gen = call[c].gen /\ call'[c].result = call[c].result
  /\ call[c].ended => call'[c].ended
  /\ call[c].cancelled => call'[c].cancelled

\* It writes its command to the process the session has now.
Begins(c) ==
  /\ EnterRun(c)
  /\ call[c].at = "entered" /\ call'[c].at = "waits" /\ call'[c].gen = gen'
  /\ call'[c].result = call[c].result /\ ~call[c].cancelled /\ ~call'[c].cancelled

\* It returns.
Returns(c) ==
  /\ UnderWay(c) /\ call'[c].at = "done"
  /\ call'[c].gen = call[c].gen \/ (call[c].at = "entered" /\ call'[c].gen = gen')
  /\ call'[c].cancelled = call[c].cancelled
  /\ call'[c].result = "ok" => call[c].at = "waits" /\ Reported(c) /\ call'[c].ended = call[c].ended
  /\ call'[c].result = "terminated" => call[c].at = "waits" /\ dead /\ call'[c].gen = call[c].gen

CallStep(c) ==
  \/ Kept(c)
  \/ Begins(c)
  \/ Returns(c)
  \/ /\ call[c].at = "new" /\ call'[c].at = "entered" /\ call'[c].gen = call[c].gen
     /\ call'[c].result = call[c].result /\ call'[c].cancelled = call[c].cancelled

\* The steps of a call that enters.
LEMMA EnterSteps ==
  ASSUME TypeOK, RoomInv, NEW c \in Calls, Enters(c) \/ EnterFails(c)
  PROVE  /\ call' \in [Calls -> CallRecords]
         /\ \A d \in Calls : d # c => Kept(d)
         /\ Begins(c) \/ Returns(c)
         /\ gen' \in {gen, gen + 1} /\ gen' \in Gens
<1>1. call \in [Calls -> CallRecords] /\ call[c].at = "entered" /\ gen + 1 \in Gens /\ gen \in Gens
  <2>1. call[c].at = "entered"
    BY DEF Enters, EnterRun, EnterCancelled, EnterBroken, EnterRestart, EnterFails, Entering
  <2> QED BY <2>1, RoomForOne DEF TypeOK
<1>2. gen' \in {gen, gen + 1} /\ gen' \in Gens
  BY <1>1 DEF Enters, EnterRun, EnterCancelled, EnterBroken, EnterRestart, EnterFails, Generation, NextGen,
              session
<1>3. CASE EnterRun(c)
  <2>1. call' = [call EXCEPT ![c].at = "waits", ![c].gen = gen'] /\ ~call[c].cancelled
    BY <1>3 DEF EnterRun
  <2> QED BY <1>1, <1>2, <1>3, <2>1 DEF CallRecords, Kept, Begins
<1>4. ASSUME NEW g \in Gens \cup {call[c].gen}, g \in {call[c].gen, gen'}, NEW result \in Results,
             result \notin {"ok", "terminated"},
             \/ call' = Done([call EXCEPT ![c].gen = g], c, result)
             \/ call' = Broadcast(Done([call EXCEPT ![c].gen = g], c, result))
      PROVE  /\ call' \in [Calls -> CallRecords]
             /\ \A d \in Calls : d # c => Kept(d)
             /\ Returns(c)
  <2> DEFINE cs == [call EXCEPT ![c].gen = g]
             ds == Done(cs, c, result)
  <2>1. /\ cs \in [Calls -> CallRecords] /\ cs[c].gen = g /\ cs[c].cancelled = call[c].cancelled
        /\ \A d \in Calls : d # c => cs[d] = call[d]
    BY <1>1 DEF CallRecords
  <2> HIDE DEF cs
  <2>2. /\ ds \in [Calls -> CallRecords]
        /\ \A d \in Calls : d # c => ds[d] = call[d]
        /\ ds[c].at = "done" /\ ds[c].result = result
        /\ ds[c].gen = g /\ ds[c].cancelled = call[c].cancelled
    BY <2>1, DoneEffect
  <2>3. call' = ds \/ call' = Broadcast(ds)
    BY <1>4 DEF cs
  <2> HIDE DEF ds
  <2>4. /\ call' \in [Calls -> CallRecords]
        /\ \A d \in Calls : /\ call'[d].at = ds[d].at /\ call'[d].gen = ds[d].gen
                             /\ call'[d].result = ds[d].result /\ call'[d].ended = ds[d].ended
                             /\ call'[d].cancelled = ds[d].cancelled
    BY <2>2, <2>3, BroadcastEffect
  <2> QED BY <1>1, <1>4, <2>2, <2>4 DEF Kept, Returns, UnderWay
<1>5. call = [call EXCEPT ![c].gen = call[c].gen]
  BY <1>1 DEF CallRecords
<1>6. CASE EnterCancelled(c) \/ EnterBroken(c)
  <2>1. CASE EnterCancelled(c)
    <3>1. call' = Broadcast(Done([call EXCEPT ![c].gen = gen'], c, "cancelled"))
      BY <2>1 DEF EnterCancelled
    <3> QED BY <1>2, <1>4, <3>1 DEF Results
  <2>2. CASE EnterBroken(c)
    <3>1. call' = Done([call EXCEPT ![c].gen = gen'], c, "failed")
      BY <2>2 DEF EnterBroken
    <3> QED BY <1>2, <1>4, <3>1 DEF Results
  <2> QED BY <1>6, <2>1, <2>2
<1>7. CASE EnterRestart(c) \/ EnterFails(c)
  <2>1. PICK result \in {"restarted", "failed"} :
          call' = Done(call, c, result) \/ call' = Broadcast(Done(call, c, result))
    BY <1>7 DEF EnterRestart, EnterFails
  <2>2. \/ call' = Done([call EXCEPT ![c].gen = call[c].gen], c, result)
        \/ call' = Broadcast(Done([call EXCEPT ![c].gen = call[c].gen], c, result))
    BY <1>5, <2>1
  <2> QED BY <1>2, <1>4, <2>2 DEF Results
<1> QED BY <1>2, <1>3, <1>6, <1>7 DEF Enters

\* The steps of a call that waits.
LEMMA CheckSteps ==
  ASSUME TypeOK, NEW c \in Calls, Check(c)
  PROVE  /\ call' \in [Calls -> CallRecords]
         /\ \A d \in Calls : d # c => Kept(d)
         /\ Kept(c) \/ Returns(c)
         /\ call[c].at = "waits"
<1>1. call \in [Calls -> CallRecords] /\ call[c].at = "waits"
  BY DEF TypeOK, Check, CheckReported, CheckDead, GivesUp, WaitsOn, Woken
<1>2. CASE WaitsOn(c)
  BY <1>1, <1>2 DEF WaitsOn, CallRecords, Kept
<1>3. CASE CheckReported(c) \/ CheckDead(c) \/ GivesUp(c)
  <2>1. PICK result \in {"ok", "terminated", "cancelled", "timedout"} :
          /\ call' = Done(call, c, result) \/ call' = Broadcast(Done(call, c, result))
          /\ result = "ok" => Reported(c)
          /\ result = "terminated" => dead
    BY <1>3 DEF CheckReported, CheckDead, GivesUp, GiveUpResult
  <2> DEFINE ds == Done(call, c, result)
  <2>2. /\ ds \in [Calls -> CallRecords]
        /\ \A d \in Calls : d # c => ds[d] = call[d]
        /\ ds[c].at = "done" /\ ds[c].result = result
        /\ ds[c].gen = call[c].gen /\ ds[c].cancelled = call[c].cancelled
        /\ ds[c].ended <=> call[c].ended /\ result = "ok"
    BY <1>1, DoneEffect DEF Results
  <2>3. call' = ds \/ call' = Broadcast(ds)
    BY <2>1
  <2> HIDE DEF ds
  <2>4. /\ call' \in [Calls -> CallRecords]
        /\ \A d \in Calls : /\ call'[d].at = ds[d].at /\ call'[d].gen = ds[d].gen
                             /\ call'[d].result = ds[d].result /\ call'[d].ended = ds[d].ended
                             /\ call'[d].cancelled = ds[d].cancelled
    BY <2>2, <2>3, BroadcastEffect
  <2>5. result = "ok" => call'[c].ended = call[c].ended
    <3>1. ds[c].ended \in BOOLEAN /\ call[c].ended \in BOOLEAN
      BY <1>1, <2>2 DEF CallRecords
    <3> QED BY <2>2, <2>4, <3>1
  <2> QED BY <1>1, <2>1, <2>2, <2>4, <2>5 DEF Kept, Returns, UnderWay
<1> QED BY <1>1, <1>2, <1>3 DEF Check

\* Every step of the system, for every call.
LEMMA CallSteps ==
  ASSUME TypeOK, RoomInv, Next
  PROVE  /\ call' \in [Calls -> CallRecords]
         /\ \A c \in Calls : CallStep(c)
         /\ gen' \in Gens /\ gen' \in {gen, gen + 1}
<1>0. call \in [Calls -> CallRecords] /\ gen \in Gens
  BY DEF TypeOK
<1>1. ASSUME NEW c \in Calls, Enters(c) \/ EnterFails(c)
      PROVE  /\ call' \in [Calls -> CallRecords] /\ (\A d \in Calls : CallStep(d))
             /\ gen' \in Gens /\ gen' \in {gen, gen + 1}
  BY <1>1, EnterSteps DEF CallStep
<1>2. ASSUME NEW c \in Calls, Check(c)
      PROVE  /\ call' \in [Calls -> CallRecords] /\ (\A d \in Calls : CallStep(d))
             /\ gen' \in Gens /\ gen' \in {gen, gen + 1}
  <2>1. gen' = gen
    BY <1>2 DEF Check, CheckReported, CheckDead, GivesUp, WaitsOn, session
  <2> QED BY <1>0, <1>2, <2>1, CheckSteps DEF CallStep
<1>3. ASSUME NEW c \in Calls, Issue(c) \/ Cancel(c) \/ DeadlinePasses(c)
      PROVE  /\ call' \in [Calls -> CallRecords] /\ (\A d \in Calls : CallStep(d))
             /\ gen' \in Gens /\ gen' \in {gen, gen + 1}
  <2>1. gen' = gen
    BY <1>3 DEF Issue, Cancel, DeadlinePasses, session
  <2>2. call' \in [Calls -> CallRecords]
    <3>1. /\ [call[c] EXCEPT !.at = "entered"] \in CallRecords
          /\ [call[c] EXCEPT !.cancelled = TRUE] \in CallRecords
          /\ [call[c] EXCEPT !.late = TRUE] \in CallRecords
      BY <1>0 DEF CallRecords
    <3>2. \/ call' = [call EXCEPT ![c] = [call[c] EXCEPT !.at = "entered"]]
          \/ call' = [call EXCEPT ![c] = [call[c] EXCEPT !.cancelled = TRUE]]
          \/ call' = [call EXCEPT ![c] = [call[c] EXCEPT !.late = TRUE]]
      BY <1>3 DEF Issue, Cancel, DeadlinePasses
    <3> QED BY <1>0, <3>1, <3>2
  <2>3. \A d \in Calls : d # c => Kept(d)
    BY <1>0, <1>3 DEF Issue, Cancel, DeadlinePasses, CallRecords, Kept
  <2>4. CallStep(c)
    BY <1>0, <1>3 DEF Issue, Cancel, DeadlinePasses, CallRecords, Kept, CallStep
  <2> QED BY <1>0, <2>1, <2>2, <2>3, <2>4 DEF CallStep
<1>4. ASSUME call' = call \/ call' = Broadcast(call), gen' = gen
      PROVE  /\ call' \in [Calls -> CallRecords] /\ (\A d \in Calls : CallStep(d))
             /\ gen' \in Gens /\ gen' \in {gen, gen + 1}
  BY <1>0, <1>4, BroadcastEffect DEF CallStep, Kept
<1>5. ASSUME NEW g \in Gens, Ends(g)
      PROVE  /\ call' \in [Calls -> CallRecords] /\ (\A d \in Calls : CallStep(d))
             /\ gen' \in Gens /\ gen' \in {gen, gen + 1}
  <2>1. gen' = gen /\ call' = [call EXCEPT ![proc[g].current].ended = TRUE]
    BY <1>5 DEF Ends, session
  <2>2. \A d \in Calls : call'[d] \in {call[d], [call[d] EXCEPT !.ended = TRUE]}
    BY <1>0, <2>1
  <2>3. \A d \in Calls : [call[d] EXCEPT !.ended = TRUE] \in CallRecords
    BY <1>0 DEF CallRecords
  <2>4. call' \in [Calls -> CallRecords]
    BY <1>0, <2>1, <2>2, <2>3
  <2>5. \A d \in Calls : Kept(d)
    BY <1>0, <2>2 DEF CallRecords, Kept
  <2> QED BY <1>0, <2>1, <2>4, <2>5 DEF CallStep
<1>6. CASE \/ \E c \in Calls : Waker(c)
           \/ \E g \in Gens : Execute(g) \/ Dies(g) \/ Lost(g)
           \/ \E g \in Gens, k \in Pipes : Read(g, k) \/ Store(g, k)
           \/ Close
  <2>1. gen' = gen /\ (call' = call \/ call' = Broadcast(call))
    BY <1>6 DEF Waker, Execute, Dies, Lost, Read, Store, Close, session
  <2> QED BY <1>4, <2>1
<1> QED BY <1>1, <1>2, <1>3, <1>5, <1>6 DEF Next

-----------------------------------------------------------------------------
(* Calls: the invariants of their own                                      *)

\* There is a process for every call that enters.
LEMMA NextRoomInv ==
  ASSUME TypeOK, RoomInv, Next
  PROVE  RoomInv'
<1>0. /\ IsFiniteSet(Issued) /\ IsFiniteSet(Entered) /\ gen \in Nat
      /\ Cardinality(Issued) \in Nat /\ Cardinality(Entered) \in Nat /\ MaxCalls \in Nat
  BY CallsAssumption, BoundsAssumption, FS_Subset, FS_CardinalityType DEF Issued, Entered, TypeOK, Gens
<1>1. ASSUME NEW c \in Calls, Issue(c)
      PROVE  RoomInv'
  <2>1. /\ call' = [call EXCEPT ![c].at = "entered"] /\ gen' = gen /\ call[c].at = "new"
        /\ Cardinality(Issued) < MaxCalls
    BY <1>1 DEF Issue, session, Issued
  <2>2. Issued' = Issued \cup {c} /\ c \notin Issued /\ Entered' = Entered
    BY <2>1 DEF TypeOK, CallRecords, Issued, Entered
  <2>3. Cardinality(Issued') = Cardinality(Issued) + 1
    BY <1>0, <2>2, FS_AddElement
  <2> QED BY <1>0, <2>1, <2>2, <2>3 DEF RoomInv
<1>2. ASSUME NEW c \in Calls, Enters(c) \/ EnterFails(c)
      PROVE  RoomInv'
  <2>1. /\ \A d \in Calls : d # c => call'[d].at = call[d].at
        /\ call[c].at = "entered" /\ call'[c].at \in {"waits", "done"} /\ gen' \in {gen, gen + 1}
    <3>1. call[c].at = "entered"
      BY <1>2 DEF Enters, EnterRun, EnterCancelled, EnterBroken, EnterRestart, EnterFails, Entering
    <3> QED BY <1>2, <3>1, EnterSteps DEF Kept, Begins, Returns
  <2>2. Issued' = Issued /\ Entered' = Entered \cup {c} /\ c \notin Entered
    BY <2>1 DEF Issued, Entered
  <2>3. Cardinality(Entered') = Cardinality(Entered) + 1
    BY <1>0, <2>2, FS_AddElement
  <2> QED BY <1>0, <2>1, <2>2, <2>3 DEF RoomInv
<1>3. ASSUME gen' = gen,
             \A c \in Calls : \/ call'[c].at = call[c].at
                              \/ call[c].at = "waits" /\ call'[c].at = "done"
      PROVE  RoomInv'
  <2>1. Issued' = Issued /\ Entered' = Entered
    BY <1>3 DEF Issued, Entered
  <2> QED BY <1>3, <2>1 DEF RoomInv
<1>4. ASSUME NEW c \in Calls, Check(c)
      PROVE  RoomInv'
  <2>1. gen' = gen
    BY <1>4 DEF Check, CheckReported, CheckDead, GivesUp, WaitsOn, session
  <2> QED BY <1>3, <1>4, <2>1, CheckSteps DEF Kept, Returns
<1>5. ASSUME NEW c \in Calls, Cancel(c) \/ DeadlinePasses(c)
      PROVE  RoomInv'
  <2>1. gen' = gen /\ \A d \in Calls : call'[d].at = call[d].at
    BY <1>5 DEF Cancel, DeadlinePasses, session, TypeOK, CallRecords
  <2> QED BY <1>3, <2>1
<1>6. ASSUME NEW g \in Gens, Ends(g)
      PROVE  RoomInv'
  <2>1. gen' = gen /\ \A d \in Calls : call'[d].at = call[d].at
    BY <1>6 DEF Ends, session, TypeOK, CallRecords
  <2> QED BY <1>3, <2>1
<1>7. CASE \/ \E c \in Calls : Waker(c)
           \/ \E g \in Gens : Execute(g) \/ Dies(g) \/ Lost(g)
           \/ \E g \in Gens, k \in Pipes : Read(g, k) \/ Store(g, k)
           \/ Close
  <2>1. gen' = gen /\ (call' = call \/ call' = Broadcast(call))
    BY <1>7 DEF Waker, Execute, Dies, Lost, Read, Store, Close, session
  <2>2. \A d \in Calls : call'[d].at = call[d].at
    BY <2>1, BroadcastEffect DEF TypeOK
  <2> QED BY <1>3, <2>1, <2>2
<1> QED BY <1>1, <1>2, <1>4, <1>5, <1>6, <1>7 DEF Next

\* A report in the session's buffer is of a call that has ended, if it waits.
LEMMA ReportedHasEnded ==
  ASSUME TraceInv, NEW c \in Calls, Reported(c), call[c].at = "waits"
  PROVE  call[c].ended
<1>1. PICK i \in DOMAIN buf.ctrl : buf.ctrl[i] = c
  BY DEF Reported, ReportOf
<1>2. buf.ctrl \in Seq(Settled(gen))
  BY DEF TraceInv
<1>3. c \in Settled(gen)
  BY <1>1, <1>2
<1> QED BY <1>3 DEF Settled

\* A call has a process once it has entered, and one that ended well has ended.
LEMMA NextCallInv ==
  ASSUME TypeOK, RoomInv, CallInv, TraceInv, Next
  PROVE  CallInv'
<1>0. /\ \A c \in Calls : CallStep(c)
      /\ gen' >= gen /\ gen' # 0 /\ gen' \in Nat /\ gen \in Nat
      /\ \A c \in Calls : call[c].gen \in Nat
  <2>1. gen \in Gens /\ gen' \in Gens /\ gen' \in {gen, gen + 1} /\ \A c \in Calls : CallStep(c)
    BY CallSteps DEF TypeOK
  <2> QED BY <2>1 DEF Gens, TypeOK, CallRecords
<1> SUFFICES ASSUME NEW c \in Calls
             PROVE  /\ call'[c].gen <= gen'
                    /\ call'[c].at \in {"new", "entered"} => call'[c].gen = 0
                    /\ call'[c].at = "waits" \/ call'[c].result = "terminated" => call'[c].gen # 0
                    /\ call'[c].at # "done" => call'[c].result = "none"
                    /\ call'[c].result = "ok" => call'[c].ended
  BY DEF CallInv
<1>1. CASE Kept(c)
  BY <1>0, <1>1 DEF CallInv, Kept
<1>2. CASE Begins(c)
  BY <1>0, <1>2 DEF CallInv, Begins
<1>3. CASE Returns(c)
  <2>1. call'[c].result = "ok" => call'[c].ended
    BY <1>3, ReportedHasEnded DEF Returns
  <2> QED BY <1>0, <1>3, <2>1 DEF CallInv, Returns
<1>4. CASE call[c].at = "new" /\ call'[c].at = "entered" /\ call'[c].gen = call[c].gen
           /\ call'[c].result = call[c].result
  BY <1>0, <1>4 DEF CallInv
<1> QED BY <1>0, <1>1, <1>2, <1>3, <1>4 DEF CallStep

\* The runner makes a call only when the others under way are abandoned.
LEMMA NextAloneInv ==
  ASSUME TypeOK, RoomInv, AloneInv, Next
  PROVE  AloneInv'
<1>1. ASSUME NEW c \in Calls, Issue(c)
      PROVE  AloneInv'
  <2>1. /\ ~closed' /\ call' = [call EXCEPT ![c].at = "entered"] /\ call[c].at = "new"
        /\ \A d \in Calls : call[d].at \in {"new", "done"} \/ call[d].cancelled
    BY <1>1 DEF Issue
  <2>2. \A d \in Calls : d # c => call'[d] = call[d]
    BY <2>1 DEF TypeOK
  <2> QED BY <2>1, <2>2 DEF AloneInv, UnderWay
<1>2. ASSUME \A c \in Calls : UnderWay(c)' => UnderWay(c),
             \A c \in Calls : UnderWay(c)' /\ call[c].cancelled => call'[c].cancelled,
             closed' => \A c \in Calls : UnderWay(c) => call[c].cancelled
      PROVE  AloneInv'
  BY <1>2 DEF AloneInv
<1>3. ASSUME ~\E c \in Calls : Issue(c)
      PROVE  \A c \in Calls : call[c].at = "new" => call'[c].at # "entered"
  <2> SUFFICES ASSUME NEW c \in Calls, call[c].at = "new", call'[c].at = "entered"
               PROVE  FALSE
    OBVIOUS
  <2>0. call \in [Calls -> CallRecords]
    BY DEF TypeOK
  <2>1. ASSUME NEW d \in Calls, Enters(d) \/ EnterFails(d)
        PROVE  FALSE
    BY <2>1, EnterSteps DEF Kept, Begins, Returns
  <2>2. ASSUME NEW d \in Calls, Check(d)
        PROVE  FALSE
    BY <2>2, CheckSteps DEF Kept, Returns
  <2>3. ASSUME NEW d \in Calls, Cancel(d) \/ DeadlinePasses(d)
        PROVE  FALSE
    BY <2>0, <2>3 DEF Cancel, DeadlinePasses, CallRecords
  <2>4. ASSUME NEW g \in Gens, Ends(g)
        PROVE  FALSE
    BY <2>0, <2>4 DEF Ends, CallRecords
  <2>5. ~(call' = call \/ call' = Broadcast(call))
    BY <2>0, BroadcastEffect
  <2>6. CASE \/ \E d \in Calls : Waker(d)
             \/ \E g \in Gens : Execute(g) \/ Dies(g) \/ Lost(g)
             \/ \E g \in Gens, k \in Pipes : Read(g, k) \/ Store(g, k)
             \/ Close
    BY <2>5, <2>6 DEF Waker, Execute, Dies, Lost, Read, Store, Close
  <2> QED BY <1>3, <2>1, <2>2, <2>3, <2>4, <2>6 DEF Next
<1>4. CASE ~\E c \in Calls : Issue(c)
  <2>1. \A c \in Calls : CallStep(c)
    BY CallSteps
  <2>2. /\ \A c \in Calls : UnderWay(c)' => UnderWay(c)
        /\ \A c \in Calls : UnderWay(c)' /\ call[c].cancelled => call'[c].cancelled
    BY <1>3, <1>4, <2>1 DEF CallStep, Kept, Begins, Returns, UnderWay
  <2>3. closed' => \A c \in Calls : UnderWay(c) => call[c].cancelled
    <3>1. Close \/ closed' = closed
      BY DEF Next, Issue, Cancel, DeadlinePasses, Enters, EnterRun, EnterCancelled, EnterBroken,
             EnterRestart, EnterFails, Waker, Check, CheckReported, CheckDead, GivesUp, WaitsOn,
             Execute, Ends, Dies, Lost, Read, Store
    <3> QED BY <3>1 DEF AloneInv, Close
  <2> QED BY <1>2, <2>2, <2>3
<1> QED BY <1>1, <1>4

-----------------------------------------------------------------------------
(* What a step does to the processes                                       *)

\* The session a call enters: its process, or a new one if that is lost.
LEMMA ProcessesEffect ==
  ASSUME TypeOK, RoomInv, ProcInv, NEW c \in Calls, call[c].at = "entered"
  PROVE  /\ Generation \in Gens /\ Processes \in [Gens -> ProcRecords]
         /\ ~dead => Generation = gen /\ Processes = proc
         /\ dead => Generation = gen + 1 /\ Processes[gen + 1] = Born
         /\ \A g \in Gens : g # Generation => Processes[g] = proc[g] /\ ~Processes[g].alive
         /\ Processes[Generation].alive =>
              Processes[Generation].open /\ Processes[Generation].killer = NoCall
<1>1. gen \in Gens /\ gen + 1 \in Gens /\ proc \in [Gens -> ProcRecords]
  BY RoomForOne DEF TypeOK
<1>2. CASE dead
  <2>1. Generation = gen + 1 /\ Processes = [proc EXCEPT ![gen + 1] = Born]
    BY <1>2 DEF Generation, Processes, NextGen
  <2>2. \A g \in Gens : ~proc[g].alive
    BY <1>2 DEF ProcInv
  <2> QED BY <1>1, <1>2, <2>1, <2>2, BornEffect
<1>3. CASE ~dead
  BY <1>1, <1>3 DEF Generation, Processes, ProcInv
<1> QED BY <1>2, <1>3

\* Every process that is killed in one step: the current one, on behalf of a call.
LEMMA KilledIsTyped ==
  ASSUME NEW ps \in [Gens -> ProcRecords], NEW g \in Gens, NEW c \in Calls \cup {NoCall},
         ps[g].alive => ps[g].open
  PROVE  Killed(ps, g, c) \in [Gens -> ProcRecords] /\ ~Killed(ps, g, c)[g].alive
<1>1. CASE ps[g].open
  BY <1>1, KilledEffect
<1>2. CASE ~ps[g].open
  BY <1>2, KilledEffect
<1> QED BY <1>1, <1>2

\* The steps of bash and of the goroutines at its pipes: what they leave as it is.
LEMMA PipeSteps ==
  ASSUME TypeOK, NEW g \in Gens,
         \/ Execute(g) \/ Ends(g) \/ Dies(g) \/ Lost(g)
         \/ \E k \in Pipes : Read(g, k) \/ Store(g, k)
  PROVE  /\ proc' \in [Gens -> ProcRecords] /\ gen' = gen /\ closed' = closed
         /\ \A h \in Gens : /\ proc'[h].alive => proc[h].alive
                            /\ proc'[h].open = proc[h].open /\ proc'[h].killer = proc[h].killer
                            /\ h # g => proc'[h] = proc[h]
         /\ dead' => dead \/ (~proc[gen].alive)
<1>0. proc \in [Gens -> ProcRecords] /\ proc[g] \in ProcRecords /\ gen \in Gens
  BY DEF TypeOK
<1>1. gen' = gen /\ closed' = closed
  BY DEF Execute, Ends, Dies, Lost, Read, Store, session
<1>2. dead' => dead \/ (~proc[gen].alive)
  BY DEF Execute, Ends, Dies, Lost, Read, Store, session, Current
<1>3. ASSUME NEW r \in ProcRecords, proc' = [proc EXCEPT ![g] = r], r.alive => proc[g].alive,
             r.open = proc[g].open, r.killer = proc[g].killer
      PROVE  /\ proc' \in [Gens -> ProcRecords]
             /\ \A h \in Gens : /\ proc'[h].alive => proc[h].alive
                                /\ proc'[h].open = proc[h].open /\ proc'[h].killer = proc[h].killer
                                /\ h # g => proc'[h] = proc[h]
  BY <1>0, <1>3
<1>4. CASE Execute(g)
  <2> DEFINE c == Head(proc[g].stdin)
             r == [proc[g] EXCEPT !.current = c, !.stdin = Tail(proc[g].stdin),
                                  !.pipe = [proc[g].pipe EXCEPT !["out"] = Append(proc[g].pipe["out"], c)]]
  <2>1. proc' = [proc EXCEPT ![g] = r] /\ proc[g].stdin # <<>>
    BY <1>0, <1>4 DEF Execute, ProcRecords, Pipes
  <2>2. /\ c \in Calls /\ Tail(proc[g].stdin) \in Marks
        /\ [proc[g].pipe EXCEPT !["out"] = Append(proc[g].pipe["out"], c)] \in [Pipes -> Marks]
    <3>1. proc[g].stdin \in Seq(Calls) /\ proc[g].pipe \in [Pipes -> Seq(Calls)]
      BY <1>0 DEF ProcRecords, Marks
    <3>2. c \in Calls /\ Tail(proc[g].stdin) \in Seq(Calls)
      BY <2>1, <3>1
    <3>3. Append(proc[g].pipe["out"], c) \in Seq(Calls)
      BY <3>1, <3>2, SeqClosed DEF Pipes
    <3> QED BY <3>1, <3>2, <3>3 DEF Marks
  <2> HIDE DEF c
  <2>3. r \in ProcRecords /\ r.alive = proc[g].alive /\ r.open = proc[g].open /\ r.killer = proc[g].killer
    BY <1>0, <2>2 DEF ProcRecords
  <2> HIDE DEF r
  <2> QED BY <1>1, <1>2, <1>3, <2>1, <2>3
<1>5. CASE Ends(g)
  <2> DEFINE c == proc[g].current
             r == [proc[g] EXCEPT !.current = NoCall,
                                  !.pipe = [proc[g].pipe EXCEPT !["ctrl"] = Append(proc[g].pipe["ctrl"], c)]]
  <2>1. proc' = [proc EXCEPT ![g] = r] /\ c # NoCall
    BY <1>0, <1>5 DEF Ends, ProcRecords, Pipes
  <2>2. [proc[g].pipe EXCEPT !["ctrl"] = Append(proc[g].pipe["ctrl"], c)] \in [Pipes -> Marks]
    <3>1. c \in Calls /\ proc[g].pipe \in [Pipes -> Seq(Calls)]
      BY <1>0, <2>1 DEF ProcRecords, Marks
    <3>2. Append(proc[g].pipe["ctrl"], c) \in Seq(Calls)
      BY <3>1, SeqClosed DEF Pipes
    <3> QED BY <3>1, <3>2 DEF Marks
  <2> HIDE DEF c
  <2>3. r \in ProcRecords /\ r.alive = proc[g].alive /\ r.open = proc[g].open /\ r.killer = proc[g].killer
    BY <1>0, <2>2 DEF ProcRecords
  <2> HIDE DEF r
  <2> QED BY <1>1, <1>2, <1>3, <2>1, <2>3
<1>6. CASE Dies(g)
  <2>1. proc' = [proc EXCEPT ![g] = Gone(proc[g])]
    BY <1>6 DEF Dies
  <2>2. /\ Gone(proc[g]) \in ProcRecords /\ ~Gone(proc[g]).alive
        /\ Gone(proc[g]).open = proc[g].open /\ Gone(proc[g]).killer = proc[g].killer
    <3>1. <<>> \in Marks
      BY DEF Marks
    <3> QED BY <1>0, <3>1 DEF Gone, ProcRecords
  <2> QED BY <1>1, <1>2, <1>3, <2>1, <2>2
<1>7. CASE Lost(g)
  <2> DEFINE r == [proc[g] EXCEPT !.waited = TRUE]
  <2>1. proc' = [proc EXCEPT ![g] = r]
    BY <1>7 DEF Lost
  <2>2. r \in ProcRecords /\ r.alive = proc[g].alive /\ r.open = proc[g].open /\ r.killer = proc[g].killer
    BY <1>0 DEF ProcRecords
  <2> HIDE DEF r
  <2> QED BY <1>1, <1>2, <1>3, <2>1, <2>2
<1>8. ASSUME NEW k \in Pipes, Read(g, k)
      PROVE  \E r \in ProcRecords : /\ proc' = [proc EXCEPT ![g] = r] /\ r.alive = proc[g].alive
                                    /\ r.open = proc[g].open /\ r.killer = proc[g].killer
  <2> DEFINE pi == [proc[g].pipe EXCEPT ![k] = <<>>]
             rd == [proc[g].reader EXCEPT ![k] = [at |-> "data", chunk |-> proc[g].pipe[k]]]
             r == [proc[g] EXCEPT !.pipe = pi, !.reader = rd]
  <2>1. proc' = [proc EXCEPT ![g] = r]
    BY <1>0, <1>8 DEF Read
  <2>2. pi \in [Pipes -> Marks] /\ rd \in [Pipes -> [at : {"read", "data"}, chunk : Marks]]
    BY <1>0 DEF ProcRecords, Marks
  <2> HIDE DEF pi, rd
  <2>3. r \in ProcRecords /\ r.alive = proc[g].alive /\ r.open = proc[g].open /\ r.killer = proc[g].killer
    BY <1>0, <2>2 DEF ProcRecords
  <2> HIDE DEF r
  <2> QED BY <2>1, <2>3
<1>9. ASSUME NEW k \in Pipes, Store(g, k)
      PROVE  \E r \in ProcRecords : /\ proc' = [proc EXCEPT ![g] = r] /\ r.alive = proc[g].alive
                                    /\ r.open = proc[g].open /\ r.killer = proc[g].killer
  <2> DEFINE rd == [proc[g].reader EXCEPT ![k] = Reading]
             r == [proc[g] EXCEPT !.reader = rd]
  <2>1. proc' = [proc EXCEPT ![g] = r]
    BY <1>0, <1>9 DEF Store
  <2>2. rd \in [Pipes -> [at : {"read", "data"}, chunk : Marks]]
    BY <1>0 DEF ProcRecords, Marks, Reading
  <2> HIDE DEF rd
  <2>3. r \in ProcRecords /\ r.alive = proc[g].alive /\ r.open = proc[g].open /\ r.killer = proc[g].killer
    BY <1>0, <2>2 DEF ProcRecords
  <2> HIDE DEF r
  <2> QED BY <2>1, <2>3
<1>10. CASE \E k \in Pipes : Read(g, k) \/ Store(g, k)
  <2>1. PICK r \in ProcRecords : /\ proc' = [proc EXCEPT ![g] = r] /\ r.alive = proc[g].alive
                                 /\ r.open = proc[g].open /\ r.killer = proc[g].killer
    BY <1>8, <1>9, <1>10
  <2> QED BY <1>1, <1>2, <1>3, <2>1
<1> QED BY <1>4, <1>5, <1>6, <1>7, <1>10

\* The steps of the calls that leave the processes as they are.
LEMMA OtherSteps ==
  ASSUME TypeOK, Next,
         ~\E c \in Calls : Enters(c) \/ EnterFails(c) \/ GivesUp(c),
         ~\E g \in Gens : \/ Execute(g) \/ Ends(g) \/ Dies(g) \/ Lost(g)
                          \/ \E k \in Pipes : Read(g, k) \/ Store(g, k),
         ~Close
  PROVE  UNCHANGED <<gen, dead, proc, closed>>
  BY DEF Next, Issue, Cancel, DeadlinePasses, Waker, Check, CheckReported, CheckDead, WaitsOn, session

\* An abandoned call that started a process after Close is not forgotten.
Starter(c) == call[c].cancelled /\ call[c].result \in {"restarted", "failed"}

\* What it returned stays.
LEMMA StarterStays ==
  ASSUME TypeOK, RoomInv, CallInv, Next, NEW c \in Calls, Starter(c)
  PROVE  Starter(c)'
<1>1. call[c].at = "done"
  BY DEF CallInv, Starter
<1>2. CallStep(c)
  BY CallSteps
<1> QED BY <1>1, <1>2 DEF CallStep, Kept, Begins, Returns, UnderWay, Starter

\* Only the session's process runs, and after Close only one that an abandoned call started.
LEMMA NextProcInv ==
  ASSUME TypeOK, RoomInv, CallInv, AloneInv, ProcInv, Next
  PROVE  proc' \in [Gens -> ProcRecords] /\ ProcInv'
<1>0. /\ gen \in Gens /\ proc \in [Gens -> ProcRecords] /\ gen' \in Gens
      /\ \A g \in Gens : proc[g].alive => g = gen /\ proc[g].open /\ proc[g].killer = NoCall
      /\ dead => ~proc[gen].alive
      /\ closed /\ (\E g \in Gens : proc[g].alive) => \E c \in Calls : Starter(c)'
  BY CallSteps, StarterStays DEF TypeOK, ProcInv, AtMostOneProcess, Starter
<1>1. ASSUME proc' \in [Gens -> ProcRecords],
             \A g \in Gens : proc'[g].alive => g = gen' /\ proc'[g].open /\ proc'[g].killer = NoCall,
             dead' => ~proc'[gen'].alive,
             closed' /\ (\E g \in Gens : proc'[g].alive) => \E c \in Calls : Starter(c)'
      PROVE  proc' \in [Gens -> ProcRecords] /\ ProcInv'
  BY <1>1 DEF ProcInv, AtMostOneProcess, Starter
<1>2. ASSUME proc' \in [Gens -> ProcRecords], \A g \in Gens : ~proc'[g].alive
      PROVE  proc' \in [Gens -> ProcRecords] /\ ProcInv'
  BY <1>0, <1>1, <1>2
<1>3. ASSUME NEW c \in Calls, Enters(c) \/ EnterFails(c)
      PROVE  proc' \in [Gens -> ProcRecords] /\ ProcInv'
  <2>0. call[c].at = "entered" /\ gen + 1 \in Gens
    <3>1. call[c].at = "entered"
      BY <1>3 DEF Enters, EnterRun, EnterCancelled, EnterBroken, EnterRestart, EnterFails, Entering
    <3> QED BY <3>1, RoomForOne
  <2>1. /\ Generation \in Gens /\ Processes \in [Gens -> ProcRecords]
        /\ ~dead => Generation = gen /\ Processes = proc
        /\ dead => Generation = gen + 1
        /\ \A g \in Gens : g # Generation => Processes[g] = proc[g] /\ ~Processes[g].alive
        /\ Processes[Generation].alive =>
             Processes[Generation].open /\ Processes[Generation].killer = NoCall
    BY <2>0, ProcessesEffect
  <2>2. closed /\ call[c].cancelled /\ Returns(c) /\ call'[c].result \in {"restarted", "failed"} => Starter(c)'
    BY DEF Returns, Starter
  <2>3. closed' = closed /\ (closed => call[c].cancelled)
    BY <1>3, <2>0 DEF Enters, EnterRun, EnterCancelled, EnterBroken, EnterRestart, EnterFails, AloneInv,
                      UnderWay
  <2>4. CASE EnterRun(c)
    <3> DEFINE r == [Processes[Generation] EXCEPT !.stdin = Append(Processes[Generation].stdin, c)]
    <3>1. /\ gen' = Generation /\ ~dead' /\ ~call[c].cancelled
          /\ proc' = [Processes EXCEPT ![Generation] = r]
      BY <2>4 DEF EnterRun
    <3>2. r \in ProcRecords /\ r.open = Processes[Generation].open /\ r.killer = Processes[Generation].killer
          /\ r.alive = Processes[Generation].alive
      <4>1. Processes[Generation] \in ProcRecords
        BY <2>1
      <4>2. Append(Processes[Generation].stdin, c) \in Marks
        BY <4>1 DEF ProcRecords, Marks
      <4> QED BY <4>1, <4>2 DEF ProcRecords
    <3> HIDE DEF r
    <3> QED BY <1>1, <2>1, <2>3, <3>1, <3>2
  <2>5. CASE EnterCancelled(c)
    <3>1. proc' = Killed(Processes, Generation, c)
      BY <2>5 DEF EnterCancelled
    <3>2. proc' \in [Gens -> ProcRecords] /\ ~proc'[Generation].alive
      BY <2>1, <3>1, KilledIsTyped
    <3>3. \A g \in Gens : g # Generation => proc'[g] = Processes[g]
      BY <2>1, <3>1, KilledEffect
    <3> QED BY <1>2, <2>1, <3>2, <3>3
  <2>6. CASE EnterBroken(c)
    <3>1. proc' = proc /\ ~proc[gen].alive
      BY <2>6 DEF EnterBroken
    <3> QED BY <1>0, <1>2, <3>1
  <2>7. CASE EnterFails(c)
    <3>1. Returns(c) /\ call'[c].result = "failed"
      <4>1. call' = Done(call, c, "failed")
        BY <2>7 DEF EnterFails
      <4>2. call'[c].result = "failed" /\ call'[c].at = "done"
        BY <4>1, DoneEffect DEF Results, TypeOK
      <4>3. Begins(c) \/ Returns(c)
        BY <1>3, EnterSteps
      <4> QED BY <4>2, <4>3 DEF Begins
    <3>2. CASE dead /\ UNCHANGED <<gen, dead, proc>>
      BY <1>0, <1>2, <3>2
    <3>3. CASE gen' = Generation /\ proc' = Processes /\ ~dead'
      BY <1>1, <2>1, <2>2, <2>3, <3>1, <3>3
    <3> QED BY <2>7, <3>2, <3>3 DEF EnterFails, session
  <2>8. CASE EnterRestart(c)
    <3> DEFINE ks == Killed(proc, gen, c)
    <3>1. ks \in [Gens -> ProcRecords] /\ ~ks[gen].alive
      BY <1>0, KilledIsTyped
    <3>2. \A g \in Gens : g # gen => ks[g] = proc[g]
      BY <1>0, KilledEffect
    <3>3. \A g \in Gens : ~ks[g].alive
      BY <1>0, <3>1, <3>2
    <3>4. CASE proc' = ks
      BY <1>2, <3>1, <3>3, <3>4
    <3>5. CASE /\ gen' = gen + 1 /\ ~dead' /\ proc' = [ks EXCEPT ![gen + 1] = Born]
               /\ call' = Broadcast(Done(call, c, "restarted"))
      <4>1. call'[c].result = "restarted" /\ call'[c].at = "done"
        BY <3>5, ReturnedAs DEF Results, TypeOK
      <4>2. Begins(c) \/ Returns(c)
        BY <1>3, EnterSteps
      <4>3. Returns(c) /\ call'[c].result = "restarted"
        BY <4>1, <4>2 DEF Begins
      <4> HIDE DEF ks
      <4> QED BY <1>1, <2>0, <2>2, <2>3, <3>1, <3>3, <3>5, <4>3, BornEffect
    <3> QED BY <2>8, <3>4, <3>5 DEF EnterRestart, NextGen
  <2> QED BY <1>3, <2>4, <2>5, <2>6, <2>7, <2>8 DEF Enters
<1>4. CASE (\E c \in Calls : GivesUp(c)) \/ Close
  <2>1. PICK c \in Calls \cup {NoCall} : proc' = Killed(proc, gen, c)
    BY <1>4 DEF GivesUp, Close
  <2>2. proc' \in [Gens -> ProcRecords] /\ ~proc'[gen].alive
    BY <1>0, <2>1, KilledIsTyped
  <2>3. \A g \in Gens : g # gen => proc'[g] = proc[g]
    BY <1>0, <2>1, KilledEffect
  <2> QED BY <1>0, <1>2, <2>2, <2>3
<1>5. ASSUME NEW g \in Gens,
             \/ Execute(g) \/ Ends(g) \/ Dies(g) \/ Lost(g)
             \/ \E k \in Pipes : Read(g, k) \/ Store(g, k)
      PROVE  proc' \in [Gens -> ProcRecords] /\ ProcInv'
  <2>1. /\ proc' \in [Gens -> ProcRecords] /\ gen' = gen /\ closed' = closed
        /\ \A h \in Gens : /\ proc'[h].alive => proc[h].alive
                           /\ proc'[h].open = proc[h].open /\ proc'[h].killer = proc[h].killer
        /\ dead' => dead \/ (~proc[gen].alive)
    BY <1>5, PipeSteps
  <2> QED BY <1>0, <1>1, <2>1
<1>6. CASE UNCHANGED <<gen, dead, proc, closed>>
  BY <1>0, <1>1, <1>6
<1> QED BY <1>3, <1>4, <1>5, <1>6, OtherSteps

\* Who a process is killed for: a call under way, which returns with that; no process that is
\* gone comes back.
LEMMA KillSteps ==
  ASSUME TypeOK, RoomInv, ProcInv, Next, NEW g \in Gens, g <= gen
  PROVE  /\ proc'[g].alive => proc[g].alive
         /\ \/ proc'[g].killer = proc[g].killer
            \/ proc[g].alive /\ \E d \in Calls : /\ proc'[g].killer = d /\ UnderWay(d)
                                               /\ call'[d].at = "done"
                                               /\ call'[d].result # "terminated"
                                               /\ call'[d].cancelled = call[d].cancelled
            \/ proc'[g].killer = NoCall
<1> DEFINE By(d) == /\ UnderWay(d) /\ call'[d].at = "done" /\ call'[d].result # "terminated"
                    /\ call'[d].cancelled = call[d].cancelled
<1>0. /\ gen \in Gens /\ proc \in [Gens -> ProcRecords] /\ g # gen + 1
      /\ \A h \in Gens : proc[h].alive => proc[h].open
  BY DEF TypeOK, ProcInv, Gens
<1>1. ASSUME NEW ps \in [Gens -> ProcRecords], NEW h \in Gens, NEW d \in Calls \cup {NoCall},
             ps[g] = proc[g], proc'[g] = Killed(ps, h, d)[g], d # NoCall => By(d),
             ps[h].alive => ps[h].open
      PROVE  /\ proc'[g].alive => proc[g].alive
             /\ \/ proc'[g].killer = proc[g].killer
                \/ proc[g].alive /\ \E e \in Calls : proc'[g].killer = e /\ By(e)
                \/ proc'[g].killer = NoCall
  <2>1. CASE g = h
    <3>1. ~proc'[g].alive
      BY <1>1, <2>1, KilledIsTyped
    <3>2. proc'[g].killer = IF ps[g].open /\ ps[g].alive THEN d ELSE ps[g].killer
      BY <1>1, <2>1, KilledEffect
    <3> HIDE DEF By
    <3> QED BY <1>1, <3>1, <3>2
  <2>2. CASE g # h
    <3>1. proc'[g] = proc[g]
      BY <1>1, <2>2, KilledEffect
    <3> QED BY <3>1
  <2> QED BY <2>1, <2>2
<1>2. ASSUME NEW c \in Calls, Enters(c) \/ EnterFails(c)
      PROVE  /\ proc'[g].alive => proc[g].alive
             /\ \/ proc'[g].killer = proc[g].killer
                \/ proc[g].alive /\ \E e \in Calls : proc'[g].killer = e /\ By(e)
                \/ proc'[g].killer = NoCall
  <2>0. call[c].at = "entered" /\ gen + 1 \in Gens
    <3>1. call[c].at = "entered"
      BY <1>2 DEF Enters, EnterRun, EnterCancelled, EnterBroken, EnterRestart, EnterFails, Entering
    <3> QED BY <3>1, RoomForOne
  <2>1. /\ Generation \in Gens /\ Processes \in [Gens -> ProcRecords]
        /\ Processes[g] = proc[g]
        /\ Processes[Generation].alive => Processes[Generation].open
    BY <1>0, <2>0, ProcessesEffect
  <2>2. CASE EnterRun(c)
    <3>1. proc' = [Processes EXCEPT ![Generation].stdin = Append(@, c)]
      BY <2>2 DEF EnterRun
    <3>2. Processes[g] \in ProcRecords
      BY <2>1
    <3>3. proc'[g].alive = Processes[g].alive /\ proc'[g].killer = Processes[g].killer
      BY <2>1, <3>1, <3>2 DEF ProcRecords
    <3> QED BY <2>1, <3>3
  <2>3. CASE EnterCancelled(c)
    <3>1. proc' = Killed(Processes, Generation, c) /\ call' = Broadcast(Done([call EXCEPT ![c].gen = gen'], c, "cancelled"))
      BY <2>3 DEF EnterCancelled
    <3>2. By(c)
      <4>1. Begins(c) \/ Returns(c)
        BY <1>2, EnterSteps
      <4>2. call'[c].at = "done" /\ call'[c].result = "cancelled"
        <5>1. PICK n \in Gens : n = gen'
          BY CallSteps
        <5> DEFINE cs == [call EXCEPT ![c].gen = n]
        <5>2. cs \in [Calls -> CallRecords]
          BY DEF TypeOK, CallRecords
        <5>3. call' = Broadcast(Done(cs, c, "cancelled"))
          BY <3>1, <5>1
        <5> HIDE DEF cs
        <5> QED BY <5>2, <5>3, ReturnedAs DEF Results
      <4> QED BY <4>1, <4>2 DEF Begins, Returns
    <3> HIDE DEF By
    <3> QED BY <1>1, <2>1, <3>1, <3>2
  <2>4. CASE EnterBroken(c)
    BY <2>4 DEF EnterBroken
  <2>5. CASE EnterFails(c)
    <3>1. proc'[g] = proc[g]
      BY <2>1, <2>5 DEF EnterFails
    <3> QED BY <3>1
  <2>6. CASE EnterRestart(c)
    <3>1. proc'[g] = Killed(proc, gen, c)[g]
      <4>1. Killed(proc, gen, c) \in [Gens -> ProcRecords]
        BY <1>0, KilledEffect
      <4> QED BY <1>0, <2>0, <2>6, <4>1 DEF EnterRestart, NextGen
    <3>2. By(c)
      <4>1. Begins(c) \/ Returns(c)
        BY <1>2, EnterSteps
      <4>2. PICK result \in {"restarted", "failed"} :
              call' = Done(call, c, result) \/ call' = Broadcast(Done(call, c, result))
        BY <2>6 DEF EnterRestart
      <4>3. call'[c].at = "done" /\ call'[c].result = result
        BY <4>2, ReturnedAs DEF Results, TypeOK
      <4> QED BY <4>1, <4>3 DEF Begins, Returns
    <3> HIDE DEF By
    <3> QED BY <1>0, <1>1, <3>1, <3>2
  <2> QED BY <1>2, <2>2, <2>3, <2>4, <2>5, <2>6 DEF Enters
<1>3. ASSUME NEW c \in Calls, GivesUp(c)
      PROVE  /\ proc'[g].alive => proc[g].alive
             /\ \/ proc'[g].killer = proc[g].killer
                \/ proc[g].alive /\ \E e \in Calls : proc'[g].killer = e /\ By(e)
                \/ proc'[g].killer = NoCall
  <2>1. proc' = Killed(proc, gen, c)
    BY <1>3 DEF GivesUp
  <2>2. By(c)
    <3>1. call[c].at = "waits"
      BY <1>3 DEF GivesUp, Woken
    <3>2. PICK result \in {"cancelled", "timedout"} : call' = Broadcast(Done(call, c, result))
      BY <1>3 DEF GivesUp, GiveUpResult
    <3>3. call'[c].at = "done" /\ call'[c].result = result /\ call'[c].cancelled = call[c].cancelled
      BY <3>2, ReturnedAs DEF Results, TypeOK
    <3> QED BY <3>1, <3>3 DEF UnderWay
  <2> HIDE DEF By
  <2> QED BY <1>0, <1>1, <2>1, <2>2
<1>4. ASSUME Close
      PROVE  /\ proc'[g].alive => proc[g].alive
             /\ \/ proc'[g].killer = proc[g].killer
                \/ proc[g].alive /\ \E e \in Calls : proc'[g].killer = e /\ By(e)
                \/ proc'[g].killer = NoCall
  <2>1. proc' = Killed(proc, gen, NoCall)
    BY <1>4 DEF Close
  <2> HIDE DEF By
  <2> QED BY <1>0, <1>1, <2>1
<1>5. ASSUME NEW h \in Gens,
             \/ Execute(h) \/ Ends(h) \/ Dies(h) \/ Lost(h)
             \/ \E k \in Pipes : Read(h, k) \/ Store(h, k)
      PROVE  (proc'[g].alive => proc[g].alive) /\ proc'[g].killer = proc[g].killer
  BY <1>5, PipeSteps
<1> HIDE DEF By
<1>7. /\ proc'[g].alive => proc[g].alive
      /\ \/ proc'[g].killer = proc[g].killer
         \/ proc[g].alive /\ \E e \in Calls : proc'[g].killer = e /\ By(e)
         \/ proc'[g].killer = NoCall
  <2>1. CASE \E c \in Calls : Enters(c) \/ EnterFails(c) \/ GivesUp(c)
    BY <1>2, <1>3, <2>1
  <2>2. CASE \E h \in Gens : \/ Execute(h) \/ Ends(h) \/ Dies(h) \/ Lost(h)
                            \/ \E k \in Pipes : Read(h, k) \/ Store(h, k)
    <3>1. PICK h \in Gens : \/ Execute(h) \/ Ends(h) \/ Dies(h) \/ Lost(h)
                            \/ \E k \in Pipes : Read(h, k) \/ Store(h, k)
      BY <2>2
    <3> QED BY <1>5, <3>1
  <2>3. CASE Close
    BY <1>4, <2>3
  <2>4. CASE UNCHANGED <<gen, dead, proc, closed>>
    BY <2>4
  <2> QED BY <2>1, <2>2, <2>3, <2>4, OtherSteps
<1> QED BY <1>7 DEF By

-----------------------------------------------------------------------------
(* Whose bytes are whose                                                   *)

\* What a process holds stays within larger sets.
LEMMA WithinLarger ==
  ASSUME NEW S1, NEW T1, NEW S2, NEW T2, S1 \subseteq S2, T1 \subseteq T2,
         NEW p \in ProcRecords, Within(p, S1, T1)
  PROVE  Within(p, S2, T2)
  BY LargerSet DEF Within

\* A new process holds nothing.
LEMMA WithinBorn ==
  ASSUME NEW S, NEW T
  PROVE  Within(Born, S, T)
<1>1. <<>> \in Seq(S) /\ <<>> \in Seq(T)
  OBVIOUS
<1> QED BY <1>1, BornEffect DEF Within, Pipes

\* One that is killed holds no more than before.
LEMMA WithinKilled ==
  ASSUME NEW ps \in [Gens -> ProcRecords], NEW g \in Gens, NEW c \in Calls \cup {NoCall},
         NEW S, NEW T, NEW h \in Gens, Within(ps[h], S, T)
  PROVE  Within(Killed(ps, g, c)[h], S, T)
<1>1. CASE h # g
  BY <1>1, KilledEffect
<1>2. CASE h = g
  <2>1. <<>> \in Seq(S) /\ <<>> \in Seq(T)
    OBVIOUS
  <2>2. /\ Killed(ps, g, c)[g].stdin \in {<<>>, ps[g].stdin}
        /\ Killed(ps, g, c)[g].current \in {NoCall, ps[g].current}
        /\ \A k \in Pipes : /\ Killed(ps, g, c)[g].pipe[k] \in {<<>>, ps[g].pipe[k]}
                             /\ Killed(ps, g, c)[g].reader[k] = ps[g].reader[k]
    BY KilledEffect
  <2> QED BY <1>2, <2>1, <2>2 DEF Within, Pipes
<1> QED BY <1>1, <1>2

\* A call keeps its process, and a report stays true.
LEMMA TracesStay ==
  ASSUME TypeOK, RoomInv, CallInv, Next, NEW g \in Gens
  PROVE  Of(g) \subseteq Of(g)' /\ Settled(g) \subseteq Settled(g)'
<1>1. g # 0
  BY DEF Gens, TypeOK
<1>2. ASSUME NEW c \in Calls, call[c].gen = g
      PROVE  /\ call'[c].gen = g
             /\ (call[c].at = "waits" => call[c].ended) => (call'[c].at = "waits" => call'[c].ended)
  <2>1. CallStep(c) /\ call[c].at \notin {"new", "entered"}
    BY <1>1, <1>2, CallSteps DEF CallInv
  <2> QED BY <1>2, <2>1 DEF CallStep, Kept, Begins, Returns
<1> QED BY <1>2 DEF Of, Settled

\* What bash and the goroutines do with the bytes of a process.
LEMMA PipeTraces ==
  ASSUME TypeOK, RoomInv, CallInv, TraceInv, Next, NEW g \in Gens,
         \/ Execute(g) \/ Ends(g) \/ Dies(g) \/ Lost(g)
         \/ \E k \in Pipes : Read(g, k) \/ Store(g, k)
  PROVE  Within(proc'[g], Of(g)', Settled(g)')
<1> DEFINE p == proc[g]
           S == Of(g)'
           T == Settled(g)'
<1>0. p \in ProcRecords /\ proc \in [Gens -> ProcRecords] /\ T \subseteq S
  BY DEF TypeOK, Settled
<1>1. Within(p, S, T)
  <2>1. Within(p, Of(g), Settled(g))
    BY DEF TraceInv
  <2> QED BY <1>0, <2>1, TracesStay, WithinLarger
<1>2. <<>> \in Seq(S) /\ <<>> \in Seq(T)
  OBVIOUS
<1>3. CASE Execute(g)
  <2>1. /\ p.stdin # <<>> /\ proc'[g].current = Head(p.stdin) /\ proc'[g].stdin = Tail(p.stdin)
        /\ proc'[g].pipe["out"] = Append(p.pipe["out"], Head(p.stdin))
        /\ proc'[g].pipe["ctrl"] = p.pipe["ctrl"] /\ proc'[g].reader = p.reader
    BY <1>0, <1>3 DEF Execute, ProcRecords, Pipes
  <2> HIDE DEF S, T, p
  <2>2. p.stdin \in Seq(S) /\ p.pipe["out"] \in Seq(S)
    BY <1>1 DEF Within
  <2>3. Head(p.stdin) \in S /\ Tail(p.stdin) \in Seq(S)
    BY <2>1, <2>2
  <2>4. Append(p.pipe["out"], Head(p.stdin)) \in Seq(S)
    BY <2>2, <2>3, SeqClosed
  <2>5. Within(proc'[g], S, T)
    BY <1>1, <2>1, <2>3, <2>4 DEF Within
  <2> QED BY <2>5 DEF S, T
<1>4. CASE Ends(g)
  <2>1. /\ p.current # NoCall /\ proc'[g].current = NoCall /\ proc'[g].stdin = p.stdin
        /\ proc'[g].pipe["out"] = p.pipe["out"]
        /\ proc'[g].pipe["ctrl"] = Append(p.pipe["ctrl"], p.current) /\ proc'[g].reader = p.reader
    BY <1>0, <1>4 DEF Ends, ProcRecords, Pipes
  <2>2. p.current \in T
    <3>1. p.current \in S
      BY <1>1, <2>1 DEF Within
    <3>2. call'[p.current].ended
      BY <1>4, <2>1, <3>1 DEF Ends, TypeOK, CallRecords, Of
    <3> QED BY <3>1, <3>2 DEF Settled
  <2> HIDE DEF S, T, p
  <2>3. p.pipe["ctrl"] \in Seq(T)
    BY <1>1 DEF Within
  <2>4. Append(p.pipe["ctrl"], p.current) \in Seq(T)
    BY <2>2, <2>3, SeqClosed
  <2>5. Within(proc'[g], S, T)
    BY <1>1, <2>1, <2>4 DEF Within
  <2> QED BY <2>5 DEF S, T
<1>5. CASE Dies(g)
  <2>1. /\ proc'[g].current = NoCall /\ proc'[g].stdin = <<>>
        /\ proc'[g].pipe = p.pipe /\ proc'[g].reader = p.reader
    BY <1>0, <1>5 DEF Dies, Gone, ProcRecords
  <2> HIDE DEF S, T, p
  <2>2. Within(proc'[g], S, T)
    BY <1>1, <1>2, <2>1 DEF Within
  <2> QED BY <2>2 DEF S, T
<1>6. CASE Lost(g)
  <2>1. /\ proc'[g].current = p.current /\ proc'[g].stdin = p.stdin
        /\ proc'[g].pipe = p.pipe /\ proc'[g].reader = p.reader
    BY <1>0, <1>6 DEF Lost, ProcRecords
  <2> HIDE DEF S, T, p
  <2>2. Within(proc'[g], S, T)
    BY <1>1, <2>1 DEF Within
  <2> QED BY <2>2 DEF S, T
<1>7. ASSUME NEW k \in Pipes, Read(g, k)
      PROVE  Within(proc'[g], S, T)
  <2>1. /\ proc'[g].current = p.current /\ proc'[g].stdin = p.stdin
        /\ proc'[g].pipe = [p.pipe EXCEPT ![k] = <<>>]
        /\ proc'[g].reader = [p.reader EXCEPT ![k] = [at |-> "data", chunk |-> p.pipe[k]]]
    BY <1>0, <1>7 DEF Read, ProcRecords
  <2>2. /\ p.pipe \in [Pipes -> Marks]
        /\ p.reader \in [Pipes -> [at : {"read", "data"}, chunk : Marks]]
    BY <1>0 DEF ProcRecords
  <2>3. \A j \in Pipes : /\ proc'[g].pipe[j] = IF j = k THEN <<>> ELSE p.pipe[j]
                         /\ proc'[g].reader[j].chunk = IF j = k THEN p.pipe[k] ELSE p.reader[j].chunk
    BY <2>1, <2>2
  <2> HIDE DEF S, T, p
  <2> QED BY <1>1, <1>2, <2>1, <2>3 DEF Within, Pipes
<1>8. ASSUME NEW k \in Pipes, Store(g, k)
      PROVE  Within(proc'[g], S, T)
  <2>1. /\ proc'[g].current = p.current /\ proc'[g].stdin = p.stdin /\ proc'[g].pipe = p.pipe
        /\ proc'[g].reader = [p.reader EXCEPT ![k] = Reading]
    BY <1>0, <1>8 DEF Store, ProcRecords
  <2>2. p.reader \in [Pipes -> [at : {"read", "data"}, chunk : Marks]]
    BY <1>0 DEF ProcRecords
  <2>3. \A j \in Pipes : proc'[g].reader[j].chunk = IF j = k THEN <<>> ELSE p.reader[j].chunk
    BY <2>1, <2>2 DEF Reading
  <2> HIDE DEF S, T, p
  <2> QED BY <1>1, <1>2, <2>1, <2>3 DEF Within, Pipes
<1>9. CASE \E k \in Pipes : Read(g, k) \/ Store(g, k)
  <2>1. PICK k \in Pipes : Read(g, k) \/ Store(g, k)
    BY <1>9
  <2>2. Within(proc'[g], S, T)
    BY <1>7, <1>8, <2>1
  <2> QED BY <2>2
<1> QED BY <1>3, <1>4, <1>5, <1>6, <1>9

\* What the session has read is of its process, and stays so.
LEMMA NextBuf ==
  ASSUME TypeOK, RoomInv, CallInv, TraceInv, Next
  PROVE  /\ buf' \in [Pipes -> Marks]
         /\ buf'["out"] \in Seq(Of(gen)') /\ buf'["ctrl"] \in Seq(Settled(gen)')
<1> DEFINE S == Of(gen)'
           T == Settled(gen)'
<1>1. CASE buf' = Empty
  <2>1. <<>> \in Marks /\ <<>> \in Seq(S) /\ <<>> \in Seq(T)
    BY DEF Marks
  <2> QED BY <1>1, <2>1 DEF Empty, Pipes
<1>2. CASE gen' = gen
  <2>0. buf \in [Pipes -> Marks] /\ gen \in Gens
    BY DEF TypeOK
  <2>1. Of(gen) \subseteq S /\ Settled(gen) \subseteq T
    BY <1>2, <2>0, TracesStay DEF Of, Settled
  <2>2. buf["out"] \in Seq(S) /\ buf["ctrl"] \in Seq(T)
    BY <2>1, LargerSet DEF TraceInv
  <2>3. CASE buf' = buf
    BY <2>0, <2>2, <2>3
  <2>4. ASSUME NEW c \in Calls, CheckReported(c)
        PROVE  /\ buf' \in [Pipes -> Marks]
               /\ buf'["out"] \in Seq(S) /\ buf'["ctrl"] \in Seq(T)
    <3>1. PICK i \in ReportOf(c) : buf' = [buf EXCEPT !["ctrl"] = SubSeq(@, i + 1, Len(@))]
      BY <2>4 DEF CheckReported
    <3>2. i \in DOMAIN buf["ctrl"]
      BY DEF ReportOf
    <3> HIDE DEF S, T
    <3>3. SubSeq(buf["ctrl"], i + 1, Len(buf["ctrl"])) \in Seq(T)
      BY <2>2, <3>2
    <3>4. SubSeq(buf["ctrl"], i + 1, Len(buf["ctrl"])) \in Marks
      BY <2>0, <3>2 DEF Marks, Pipes
    <3> QED BY <2>0, <2>2, <3>1, <3>3, <3>4 DEF Pipes
  <2>5. ASSUME NEW g \in Gens, NEW k \in Pipes, Store(g, k)
        PROVE  /\ buf' \in [Pipes -> Marks]
               /\ buf'["out"] \in Seq(S) /\ buf'["ctrl"] \in Seq(T)
    <3>1. CASE g = gen
      <4> DEFINE chunk == proc[gen].reader[k].chunk
      <4>1. buf' = [buf EXCEPT ![k] = @ \o chunk]
        BY <2>5, <3>1 DEF Store, Current
      <4>2. chunk \in Marks
        BY <2>0 DEF TypeOK, ProcRecords
      <4>3. Within(proc[gen], Of(gen), Settled(gen)) /\ proc[gen] \in ProcRecords
        BY <2>0 DEF TraceInv, TypeOK
      <4> HIDE DEF S, T
      <4>4. Within(proc[gen], S, T)
        BY <2>1, <4>3, WithinLarger
      <4>5. (k = "out" => chunk \in Seq(S)) /\ (k = "ctrl" => chunk \in Seq(T))
        BY <4>4 DEF Within
      <4> HIDE DEF chunk
      <4>6. buf[k] \o chunk \in Marks
        BY <2>0, <4>2 DEF Marks
      <4>7. (k = "out" => buf[k] \o chunk \in Seq(S)) /\ (k = "ctrl" => buf[k] \o chunk \in Seq(T))
        BY <2>2, <4>5
      <4> QED BY <2>0, <2>2, <4>1, <4>6, <4>7 DEF Pipes
    <3>2. CASE g # gen
      <4>1. buf' = buf
        BY <2>5, <3>2 DEF Store, Current
      <4> QED BY <2>0, <2>2, <4>1
    <3> QED BY <3>1, <3>2
  <2>6. CASE ~(\E c \in Calls : CheckReported(c)) /\ ~(\E g \in Gens, k \in Pipes : Store(g, k))
    <3>1. buf' \in {buf, Empty}
      BY <1>2, <2>6 DEF Next, Issue, Cancel, DeadlinePasses, Enters, EnterRun, EnterCancelled, EnterBroken,
             EnterRestart, EnterFails, Waker, Check, CheckDead, GivesUp, WaitsOn, Execute, Ends, Dies,
             Read, Lost, Close, session
    <3> QED BY <1>1, <2>3, <3>1
  <2>7. /\ buf' \in [Pipes -> Marks]
        /\ buf'["out"] \in Seq(S) /\ buf'["ctrl"] \in Seq(T)
    BY <2>4, <2>5, <2>6
  <2> QED BY <2>7
<1>3. CASE gen' # gen
  <2>1. buf' = Empty
    BY <1>3 DEF Next, Issue, Cancel, DeadlinePasses, Enters, EnterRun, EnterCancelled, EnterBroken,
         EnterRestart, EnterFails, Generation, Waker, Check, CheckReported, CheckDead, GivesUp, WaitsOn,
         Execute, Ends, Dies, Read, Store, Lost, Close, session
  <2> QED BY <1>1, <2>1
<1> QED BY <1>2, <1>3

\* Every process holds only what is its own.
LEMMA NextTraceInv ==
  ASSUME TypeOK, RoomInv, CallInv, ProcInv, TraceInv, Next
  PROVE  TraceInv'
<1>0. /\ gen \in Gens /\ proc \in [Gens -> ProcRecords]
      /\ \A g \in Gens : Of(g) \subseteq Of(g)' /\ Settled(g) \subseteq Settled(g)'
  BY TracesStay DEF TypeOK
<1>1. ASSUME NEW g \in Gens
      PROVE  Within(proc[g], Of(g)', Settled(g)')
  <2>1. Within(proc[g], Of(g), Settled(g)) /\ proc[g] \in ProcRecords
    BY <1>0 DEF TraceInv
  <2> QED BY <1>0, <2>1, WithinLarger
<1>2. ASSUME NEW g \in Gens
      PROVE  Within(proc'[g], Of(g)', Settled(g)')
  <2> DEFINE S == Of(g)'
             T == Settled(g)'
  <2>1. Within(proc[g], S, T) /\ Within(Born, S, T)
    BY <1>1, WithinBorn
  <2>2. ASSUME NEW c \in Calls, Enters(c) \/ EnterFails(c)
        PROVE  Within(proc'[g], S, T)
    <3>0. call[c].at = "entered" /\ gen + 1 \in Gens
      <4>1. call[c].at = "entered"
        BY <2>2 DEF Enters, EnterRun, EnterCancelled, EnterBroken, EnterRestart, EnterFails, Entering
      <4> QED BY <4>1, RoomForOne
    <3>1. /\ Generation \in Gens /\ Processes \in [Gens -> ProcRecords]
          /\ Processes[g] \in {proc[g], Born}
      BY <3>0, ProcessesEffect
    <3>2. Within(Processes[g], S, T)
      BY <2>1, <3>1
    <3>3. CASE EnterRun(c)
      <4>1. /\ proc' = [Processes EXCEPT ![Generation].stdin = Append(@, c)]
            /\ call' = [call EXCEPT ![c].at = "waits", ![c].gen = Generation]
        BY <3>3 DEF EnterRun
      <4>2. g # Generation => proc'[g] = Processes[g]
        BY <3>1, <4>1
      <4>3. g = Generation => c \in S
        BY <4>1 DEF TypeOK, CallRecords, Of
      <4>4. g = Generation => /\ proc'[g].stdin = Append(Processes[g].stdin, c)
                              /\ proc'[g].current = Processes[g].current
                              /\ proc'[g].pipe = Processes[g].pipe /\ proc'[g].reader = Processes[g].reader
        BY <3>1, <4>1 DEF ProcRecords
      <4> HIDE DEF S, T
      <4>5. CASE g = Generation
        <5>1. Append(Processes[g].stdin, c) \in Seq(S)
          BY <3>2, <4>3, <4>5, SeqClosed DEF Within
        <5> QED BY <3>2, <4>4, <4>5, <5>1 DEF Within
      <4> QED BY <3>2, <4>2, <4>5
    <3>4. CASE EnterCancelled(c)
      <4>1. proc' = Killed(Processes, Generation, c)
        BY <3>4 DEF EnterCancelled
      <4> HIDE DEF S, T
      <4> QED BY <3>1, <3>2, <4>1, WithinKilled
    <3>5. CASE EnterBroken(c)
      BY <2>1, <3>5 DEF EnterBroken
    <3>6. CASE EnterFails(c)
      <4>1. proc' = proc \/ proc' = Processes
        BY <3>6 DEF EnterFails
      <4> QED BY <2>1, <3>2, <4>1
    <3>7. CASE EnterRestart(c)
      <4> DEFINE ks == Killed(proc, gen, c)
      <4>1. ks \in [Gens -> ProcRecords]
        BY <1>0, KilledEffect
      <4>2. proc' = ks \/ proc' = [ks EXCEPT ![gen + 1] = Born]
        BY <3>7 DEF EnterRestart, NextGen
      <4> HIDE DEF S, T
      <4>3. Within(ks[g], S, T)
        BY <1>0, <2>1, WithinKilled
      <4> HIDE DEF ks
      <4>4. proc'[g] = ks[g] \/ proc'[g] = Born
        BY <4>1, <4>2
      <4> QED BY <2>1, <4>3, <4>4
    <3> QED BY <2>2, <3>3, <3>4, <3>5, <3>6, <3>7 DEF Enters
  <2>3. CASE (\E c \in Calls : GivesUp(c)) \/ Close
    <3>1. PICK c \in Calls \cup {NoCall} : proc' = Killed(proc, gen, c)
      BY <2>3 DEF GivesUp, Close
    <3>2. Within(proc'[g], S, T)
      <4> HIDE DEF S, T
      <4> QED BY <1>0, <2>1, <3>1, WithinKilled
    <3> QED BY <3>2
  <2>4. ASSUME NEW h \in Gens,
               \/ Execute(h) \/ Ends(h) \/ Dies(h) \/ Lost(h)
               \/ \E k \in Pipes : Read(h, k) \/ Store(h, k)
        PROVE  Within(proc'[g], S, T)
    <3>1. CASE h = g
      BY <2>4, <3>1, PipeTraces
    <3>2. CASE h # g
      <4>1. proc'[g] = proc[g]
        BY <2>4, <3>2, PipeSteps
      <4> QED BY <2>1, <4>1
    <3> QED BY <3>1, <3>2
  <2>5. proc' = proc => Within(proc'[g], S, T)
    BY <2>1
  <2>6. Within(proc'[g], S, T)
    <3> HIDE DEF S, T
    <3>1. CASE \E c \in Calls : Enters(c) \/ EnterFails(c)
      BY <2>2, <3>1
    <3>2. CASE \E h \in Gens : \/ Execute(h) \/ Ends(h) \/ Dies(h) \/ Lost(h)
                              \/ \E k \in Pipes : Read(h, k) \/ Store(h, k)
      <4>1. PICK h \in Gens : \/ Execute(h) \/ Ends(h) \/ Dies(h) \/ Lost(h)
                              \/ \E k \in Pipes : Read(h, k) \/ Store(h, k)
        BY <3>2
      <4> QED BY <2>4, <4>1
    <3>3. CASE (\E c \in Calls : GivesUp(c)) \/ Close
      <4>1. PICK c \in Calls \cup {NoCall} : proc' = Killed(proc, gen, c)
        BY <3>3 DEF GivesUp, Close
      <4> QED BY <1>0, <2>1, <4>1, WithinKilled
    <3>4. CASE UNCHANGED <<gen, dead, proc, closed>>
      BY <2>5, <3>4
    <3> QED BY <3>1, <3>2, <3>3, <3>4, OtherSteps
  <2> QED BY <2>6
<1>3. buf'["out"] \in Seq(Of(gen)') /\ buf'["ctrl"] \in Seq(Settled(gen)')
  BY NextBuf
<1> QED BY <1>2, <1>3 DEF TraceInv

-----------------------------------------------------------------------------
(* Whom a call disturbs                                                    *)

\* The process of a call that waits was killed for an abandoned call, if it was.
LEMMA NextDisturbInv ==
  ASSUME TypeOK, RoomInv, CallInv, AloneInv, ProcInv, ProcInv', DisturbInv, Next
  PROVE  DisturbInv'
<1> SUFFICES ASSUME NEW c \in Calls, ~call'[c].cancelled
             PROVE  /\ call'[c].at = "waits" => Disturbed(c)'
                    /\ call'[c].result = "terminated" => Disturbed(c)' /\ ~proc'[call'[c].gen].alive
  BY DEF DisturbInv
<1> DEFINE g == call[c].gen
<1>0. /\ CallStep(c) /\ \A d \in Calls : CallStep(d)
      /\ call[c].gen <= gen /\ call[c].gen \in Gens \cup {0} /\ gen \in Gens
      /\ NoCall \notin Calls /\ \A h \in Gens : proc[h].killer \in Calls \cup {NoCall}
  BY CallSteps, CallsAssumption DEF CallInv, TypeOK, CallRecords, ProcRecords
\* A process that was not disturbed against c stays so.
<1>1. ASSUME call[c].gen \in Gens, call'[c].gen = call[c].gen, Disturbed(c), ~call[c].cancelled,
             (UnderWay(c) /\ call'[c].at = "waits") \/ (~proc[g].alive)
      PROVE  Disturbed(c)'
  <2>1. \/ proc'[g].killer = proc[g].killer
        \/ proc[g].alive /\ \E d \in Calls : /\ proc'[g].killer = d /\ UnderWay(d)
                                           /\ call'[d].at = "done"
                                           /\ call'[d].result # "terminated"
                                           /\ call'[d].cancelled = call[d].cancelled
        \/ proc'[g].killer = NoCall
    BY <1>0, <1>1, KillSteps
  <2>2. CASE proc'[g].killer = proc[g].killer
    <3>1. CASE proc[g].killer = NoCall
      BY <1>1, <2>2, <3>1 DEF Disturbed
    <3>2. CASE proc[g].killer # NoCall
      <4>1. proc[g].killer \in Calls /\ proc[g].killer # c /\ call[proc[g].killer].cancelled
        BY <1>0, <1>1, <3>2 DEF Disturbed
      <4>2. CallStep(proc[g].killer)
        BY <1>0, <4>1
      <4>3. call'[proc[g].killer].cancelled
        BY <4>1, <4>2 DEF CallStep, Kept, Begins, Returns
      <4> QED BY <1>1, <2>2, <4>1, <4>3 DEF Disturbed
    <3> QED BY <3>1, <3>2
  <2>3. CASE proc'[g].killer = NoCall
    BY <1>1, <2>3 DEF Disturbed
  <2>4. CASE proc[g].alive /\ proc'[g].killer # proc[g].killer /\ proc'[g].killer # NoCall
    <3>1. PICK d \in Calls : /\ proc'[g].killer = d /\ UnderWay(d) /\ call'[d].at = "done"
                            /\ call'[d].result # "terminated"
                            /\ call'[d].cancelled = call[d].cancelled
      BY <2>1, <2>4
    <3>2. d # c /\ UnderWay(c)
      BY <1>1, <2>4, <3>1
    <3>3. call'[d].cancelled
      BY <1>1, <3>1, <3>2 DEF AloneInv
    <3> QED BY <1>1, <3>1, <3>2, <3>3 DEF Disturbed
  <2> QED BY <2>1, <2>2, <2>3, <2>4
<1>2. CASE Kept(c)
  <2>1. /\ call'[c].at = call[c].at /\ call'[c].gen = g /\ call'[c].result = call[c].result
        /\ ~call[c].cancelled
    BY <1>2 DEF Kept
  <2>2. call[c].at = "waits" \/ call[c].result = "terminated" => g \in Gens
    BY <1>0 DEF CallInv
  <2>3. call'[c].at = "waits" => Disturbed(c)'
    BY <1>1, <2>1, <2>2 DEF DisturbInv, UnderWay
  <2>4. call'[c].result = "terminated" => Disturbed(c)' /\ ~proc'[g].alive
    BY <1>0, <1>1, <2>1, <2>2, KillSteps DEF DisturbInv
  <2> QED BY <2>1, <2>3, <2>4
<1>3. CASE Begins(c)
  <2>1. call'[c].gen = gen' /\ call'[c].result = "none"
    BY <1>3 DEF Begins, CallInv
  <2>2. proc'[gen'].alive /\ gen' \in Gens
    <3>1. /\ proc' = [Processes EXCEPT ![Generation].stdin = Append(@, c)] /\ gen' = Generation
          /\ Processes[Generation].alive /\ call[c].at = "entered"
      BY <1>3 DEF Begins, EnterRun
    <3>2. Processes \in [Gens -> ProcRecords] /\ Generation \in Gens
      BY <3>1, ProcessesEffect
    <3> QED BY <3>1, <3>2 DEF ProcRecords
  <2>3. proc'[gen'].killer = NoCall
    BY <2>2 DEF ProcInv
  <2> QED BY <2>1, <2>3 DEF Disturbed
<1>4. CASE Returns(c)
  <2>1. ASSUME call'[c].result = "terminated"
        PROVE  Disturbed(c)' /\ ~proc'[call'[c].gen].alive
    <3>1. call[c].at = "waits" /\ dead /\ call'[c].gen = g /\ ~call[c].cancelled
      BY <1>4, <2>1 DEF Returns
    <3>2. g \in Gens /\ Disturbed(c)
      BY <1>0, <3>1 DEF CallInv, DisturbInv
    <3>3. ~proc[g].alive
      BY <3>1, <3>2 DEF ProcInv
    <3> QED BY <1>0, <1>1, <3>1, <3>2, <3>3, KillSteps
  <2> QED BY <1>4, <2>1 DEF Returns
<1>5. CASE call[c].at = "new" /\ call'[c].at = "entered" /\ call'[c].result = call[c].result
  BY <1>5 DEF CallInv
<1> QED BY <1>0, <1>2, <1>3, <1>4, <1>5 DEF CallStep

-----------------------------------------------------------------------------
(* The theorems                                                            *)

\* The types of what no other lemma speaks of.
LEMMA NextTypeOK ==
  ASSUME TypeOK, RoomInv, CallInv, AloneInv, ProcInv, TraceInv, Next
  PROVE  TypeOK'
<1>1. gen' \in Gens /\ call' \in [Calls -> CallRecords]
  BY CallSteps
<1>2. buf' \in [Pipes -> Marks]
  BY NextBuf
<1>3. proc' \in [Gens -> ProcRecords]
  BY NextProcInv
<1>4. dead' \in BOOLEAN /\ closed' \in BOOLEAN
  <2>1. dead \in BOOLEAN /\ closed \in BOOLEAN
    BY DEF TypeOK
  <2> QED BY <2>1 DEF Next, Issue, Cancel, DeadlinePasses, Enters, EnterRun, EnterCancelled, EnterBroken,
         EnterRestart, EnterFails, Waker, Check, CheckReported, CheckDead, GivesUp, WaitsOn, Execute,
         Ends, Dies, Read, Store, Lost, Close, session
<1>5. faults' \in 0..MaxFaults
  <2>1. faults \in 0..MaxFaults /\ MaxFaults \in Nat
    BY BoundsAssumption DEF TypeOK
  <2>2. faults' = faults \/ (faults < MaxFaults /\ faults' = faults + 1)
    BY DEF Next, Issue, Cancel, DeadlinePasses, Enters, EnterRun, EnterCancelled, EnterBroken,
         EnterRestart, EnterFails, Waker, Check, CheckReported, CheckDead, GivesUp, WaitsOn, Execute,
         Ends, Dies, Read, Store, Lost, Close, Fault
  <2> QED BY <2>1, <2>2
<1> QED BY <1>1, <1>2, <1>3, <1>4, <1>5 DEF TypeOK

\* The invariant holds at first ...
LEMMA InitIInv ==
  ASSUME Init
  PROVE  IInv
<1>0. 1 \in Gens /\ MaxFaults \in Nat /\ MaxCalls \in Nat
  BY BoundsAssumption DEF Gens
<1>1. /\ \A g \in Gens : proc[g] = IF g = 1 THEN Born ELSE Unborn
      /\ proc \in [Gens -> ProcRecords]
  BY BornEffect DEF Init
<1>2. /\ \A c \in Calls : call[c] = NewCall
      /\ call \in [Calls -> CallRecords]
  BY DEF Init, NewCall, CallRecords, Results
<1>3. TypeOK
  <2>1. Empty \in [Pipes -> Marks]
    BY DEF Empty, Marks
  <2>2. 0 \in 0..MaxFaults
    BY <1>0
  <2>3. gen = 1 /\ dead = FALSE /\ closed = FALSE /\ buf = Empty /\ faults = 0
    BY DEF Init
  <2> QED BY <1>0, <1>1, <1>2, <2>1, <2>2, <2>3 DEF TypeOK
<1>4. RoomInv
  <2>1. Issued = {} /\ Entered = {}
    BY <1>2 DEF Issued, Entered, NewCall
  <2> QED BY <1>0, <2>1, FS_EmptySet DEF RoomInv, Init
<1>5. CallInv /\ AloneInv
  BY <1>2 DEF CallInv, AloneInv, UnderWay, NewCall, Init
<1>6. ProcInv
  BY <1>1, BornEffect DEF Init, ProcInv, AtMostOneProcess
<1>7. TraceInv
  <2>1. \A g \in Gens : <<>> \in Seq(Of(g)) /\ <<>> \in Seq(Settled(g))
    OBVIOUS
  <2>2. \A g \in Gens : Within(proc[g], Of(g), Settled(g))
    <3> TAKE g \in Gens
    <3>1. CASE proc[g] = Born
      BY <3>1, WithinBorn
    <3>2. CASE proc[g] = Unborn
      BY <2>1, <3>2, BornEffect DEF Within, Pipes
    <3> QED BY <1>1, <3>1, <3>2
  <2> QED BY <1>0, <2>1, <2>2 DEF TraceInv, Init, Empty, Pipes
<1>8. DisturbInv
  BY <1>2 DEF DisturbInv, NewCall
<1> QED BY <1>3, <1>4, <1>5, <1>6, <1>7, <1>8 DEF IInv

\* ... and every step keeps it.
LEMMA NextIInv ==
  ASSUME IInv, [Next]_vars
  PROVE  IInv'
<1>1. CASE Next
  <2>1. TypeOK' /\ RoomInv' /\ CallInv' /\ AloneInv' /\ ProcInv' /\ TraceInv'
    BY <1>1, NextTypeOK, NextRoomInv, NextCallInv, NextAloneInv, NextProcInv, NextTraceInv DEF IInv
  <2>2. DisturbInv'
    BY <1>1, <2>1, NextDisturbInv DEF IInv
  <2> QED BY <2>1, <2>2 DEF IInv
<1>2. CASE UNCHANGED vars
  <2> USE <1>2 DEF IInv, vars
  <2>1. TypeOK' /\ CallInv' /\ AloneInv' /\ ProcInv' /\ DisturbInv'
    BY DEF TypeOK, CallInv, AloneInv, UnderWay, ProcInv, AtMostOneProcess, DisturbInv, Disturbed
  <2>2. RoomInv'
    BY DEF RoomInv, Issued, Entered
  <2>3. TraceInv'
    BY DEF TraceInv, Within, Of, Settled
  <2> QED BY <2>1, <2>2, <2>3
<1> QED BY <1>1, <1>2

\* The invariant, always.
THEOREM IInvHolds == Spec => []IInv
<1> QED BY InitIInv, NextIInv, PTL DEF Spec

\* The types, always: the calls of a session never need a process more than there are numbers.
THEOREM TypeCorrect == Spec => []TypeOK
<1>1. IInv => TypeOK
  BY DEF IInv
<1> QED BY <1>1, IInvHolds, PTL

\* A call returns an exit code only if its own command has ended (parseControl's nonce).
THEOREM OkIsDone == Spec => []OkMeansDone
<1>1. IInv => OkMeansDone
  BY DEF IInv, CallInv, OkMeansDone
<1> QED BY <1>1, IInvHolds, PTL

\* Nothing a former process wrote is taken for the new one's (gen == s.gen).
THEOREM BufferIsCurrent == Spec => []BufferIsOfCurrentProcess
<1>1. IInv => BufferIsOfCurrentProcess
  <2> SUFFICES ASSUME IInv, NEW k \in Pipes, NEW i \in DOMAIN buf[k]
               PROVE  call[buf[k][i]].gen = gen
    BY DEF BufferIsOfCurrentProcess
  <2>1. buf[k] \in Seq(Of(gen)) \/ buf[k] \in Seq(Settled(gen))
    BY DEF IInv, TraceInv, Pipes
  <2>2. buf[k][i] \in Of(gen) \/ buf[k][i] \in Settled(gen)
    BY <2>1
  <2> QED BY <2>2 DEF Of, Settled
<1> QED BY <1>1, IInvHolds, PTL

\* A call loses its process to bash's own end or to an abandoned call (closeLocked).
THEOREM OthersDoNotDisturb == Spec => []OnlyAbandonedCallsDisturb
<1>1. IInv => OnlyAbandonedCallsDisturb
  BY DEF IInv, DisturbInv, Disturbed, OnlyAbandonedCallsDisturb
<1> QED BY <1>1, IInvHolds, PTL

\* One process at most, and after Close only one that an abandoned call started (closeLocked).
THEOREM OneProcess == Spec => []AtMostOneProcess
<1>1. IInv => AtMostOneProcess
  BY DEF IInv, ProcInv
<1> QED BY <1>1, IInvHolds, PTL

=============================================================================

----------------------------- MODULE BashSession -----------------------------
(***************************************************************************)
(* toolset/bash.go: one persistent bash process, the goroutines that read  *)
(* its pipes and wait for its end, and the calls of the bash tool.         *)
(*                                                                         *)
(* Everything under the session's mutex is one step; cond.Wait gives the   *)
(* mutex up, so that a second call may enter while a first one waits.  It  *)
(* does when the runner has abandoned the first: it executes tools one     *)
(* after the other, but does not wait for one whose context is over.       *)
(*                                                                         *)
(* A command prints once and then reports its end; what it prints, what it *)
(* leaves in the background and the size of its output are left out.       *)
(***************************************************************************)
EXTENDS Naturals, Sequences, FiniteSets

CONSTANTS Calls,
          Restarts,   \* the calls that ask for a restart
          Hanging,    \* the calls whose command need not end by itself
          NoCall,
          MaxCalls,   \* how many of the calls are made (bounds the model)
          Faults,     \* the kinds of fault that may happen ...
          MaxFaults   \* ... and how many of them (bounds the model)

ASSUME CallsAssumption == /\ IsFiniteSet(Calls) /\ NoCall \notin Calls
                          /\ Restarts \subseteq Calls /\ Hanging \subseteq Calls
ASSUME BoundsAssumption == MaxFaults \in Nat /\ MaxCalls \in Nat

VARIABLES gen, dead,   \* of the session: which process it has, and whether it is lost
          buf,         \* what was read from the process: buf and ctrlBuf
          proc,        \* the processes, with the goroutines of their pipes
          call,
          closed,      \* Close was called
          faults

session == <<gen, dead, buf>>
vars == <<gen, dead, buf, proc, call, closed, faults>>

Fault(kind) == kind \in Faults /\ faults < MaxFaults /\ faults' = faults + 1

-----------------------------------------------------------------------------
(* Values                                                                  *)

\* Each call starts at most one process.
Gens == 1..MaxCalls + 1

Pipes == {"out", "ctrl"}

Empty == [k \in Pipes |-> <<>>]

Marks == Seq(Calls)   \* frames, output and reports are named by their calls

\* A goroutine blocks in Read, or has read a chunk and wants the mutex.
Reading == [at |-> "read", chunk |-> <<>>]

ProcRecords ==
  [alive   : BOOLEAN,
   open    : BOOLEAN,                 \* the session's ends of the pipes
   stdin   : Marks,
   current : Calls \cup {NoCall},
   pipe    : [Pipes -> Marks],
   reader  : [Pipes -> [at : {"read", "data"}, chunk : Marks]],
   waited  : BOOLEAN,                 \* its loops have found it gone
   killer  : Calls \cup {NoCall}]     \* who killed it (history)

Unborn == [alive |-> FALSE, open |-> FALSE, stdin |-> <<>>, current |-> NoCall, pipe |-> Empty,
           reader |-> [k \in Pipes |-> Reading], waited |-> TRUE,
           killer |-> NoCall]

Born == [Unborn EXCEPT !.alive = TRUE, !.open = TRUE, !.waited = FALSE]

Results == {"none", "ok", "terminated", "cancelled", "timedout", "failed", "restarted"}

CallRecords ==
  [at        : {"new", "entered", "waits", "done"},
   gen       : Gens \cup {0},   \* the process its command was written to (history)
   woken     : BOOLEAN,
   cancelled : BOOLEAN,         \* its context; the runner does not wait for it
   late      : BOOLEAN,         \* its deadline is over
   result    : Results,
   ended     : BOOLEAN]         \* bash has come to the end of its command (history)

NewCall == [at |-> "new", gen |-> 0, woken |-> FALSE, cancelled |-> FALSE,
            late |-> FALSE, result |-> "none", ended |-> FALSE]

TypeOK ==
  /\ gen \in Gens /\ dead \in BOOLEAN /\ closed \in BOOLEAN
  /\ buf \in [Pipes -> Marks]
  /\ proc \in [Gens -> ProcRecords]
  /\ call \in [Calls -> CallRecords]
  /\ faults \in 0..MaxFaults

\* NewBashSession.
Init ==
  /\ gen = 1 /\ dead = FALSE /\ closed = FALSE
  /\ buf = Empty
  /\ proc = [g \in Gens |-> IF g = 1 THEN Born ELSE Unborn]
  /\ call = [c \in Calls |-> NewCall]
  /\ faults = 0

-----------------------------------------------------------------------------
(* Helpers of the session                                                  *)

\* Faulty: the calls that wait are not woken.
WakesNobody(cs) == cs

\* cond.Broadcast.
Broadcast(cs) == [c \in Calls |-> IF cs[c].at = "waits" THEN [cs[c] EXCEPT !.woken = TRUE]
                                                        ELSE cs[c]]

Done(cs, c, result) == [cs EXCEPT ![c].at = "done", ![c].result = result,
                                  ![c].woken = FALSE, ![c].late = FALSE,
                                  ![c].ended = @ /\ result = "ok"]

\* The end of bash, with what it had not come to.
Gone(p) == [p EXCEPT !.alive = FALSE, !.stdin = <<>>, !.current = NoCall]

\* Faulty: the process that is replaced is not killed.
LeaveRunning(ps, g, c) == [ps EXCEPT ![g].open = FALSE]

\* closeLocked: the pipes are closed and the process killed, on behalf of c.
Killed(ps, g, c) ==
  IF ps[g].open
  THEN [ps EXCEPT ![g] = [Gone(ps[g]) EXCEPT !.open = FALSE, !.pipe = Empty,
                                             !.killer = IF ps[g].alive THEN c ELSE ps[g].killer]]
  ELSE ps

\* Faulty: goroutines of the former process take the new one's for theirs.
SameGen(g) == g

\* startLocked.
NextGen(g) == g + 1

-----------------------------------------------------------------------------
(* Calls                                                                   *)

\* Execute in a goroutine of its own; the runner has nothing else to wait for.
Issue(c) ==
  /\ call[c].at = "new" /\ ~closed
  /\ Cardinality({d \in Calls : call[d].at # "new"}) < MaxCalls
  /\ \A d \in Calls : call[d].at \in {"new", "done"} \/ call[d].cancelled
  /\ call' = [call EXCEPT ![c].at = "entered"]
  /\ UNCHANGED <<session, proc, closed, faults>>

UnderWay(c) == call[c].at \in {"entered", "waits"}

\* The runner's timeout, or its own end, cancels the context.
Cancel(c) ==
  /\ UnderWay(c) /\ ~call[c].cancelled
  /\ call' = [call EXCEPT ![c].cancelled = TRUE]
  /\ UNCHANGED <<session, proc, closed, faults>>

\* After the end of its context it makes no difference.
DeadlinePasses(c) ==
  /\ call[c].at = "waits" /\ ~call[c].late /\ ~call[c].cancelled
  /\ call' = [call EXCEPT ![c].late = TRUE]
  /\ UNCHANGED <<session, proc, closed, faults>>

\* The session of a call that enters: the one there is, or a new one.
Generation == IF dead THEN NextGen(gen) ELSE gen
Processes == IF dead THEN [proc EXCEPT ![NextGen(gen)] = Born] ELSE proc

Entering(c) == call[c].at = "entered" /\ c \notin Restarts

\* Run writes the command to bash and waits.
EnterRun(c) ==
  /\ Entering(c) /\ ~call[c].cancelled
  /\ LET g == Generation
     IN /\ Processes[g].alive
        /\ gen' = g /\ dead' = FALSE /\ buf' = Empty
        /\ proc' = [Processes EXCEPT ![g].stdin = Append(@, c)]
        /\ call' = [call EXCEPT ![c].at = "waits", ![c].gen = g]
  /\ UNCHANGED <<closed, faults>>

\* Its context is looked at only after the command was written: the session ends.
EnterCancelled(c) ==
  /\ Entering(c) /\ call[c].cancelled
  /\ LET g == Generation
     IN /\ Processes[g].alive
        /\ gen' = g /\ dead' = TRUE /\ buf' = Empty
        /\ proc' = Killed(Processes, g, c)
        /\ call' = Broadcast(Done([call EXCEPT ![c].gen = g], c, "cancelled"))
  /\ UNCHANGED <<closed, faults>>

\* bash is gone and nobody has noticed yet: the write to its stdin fails.
EnterBroken(c) ==
  /\ Entering(c) /\ ~dead /\ ~proc[gen].alive
  /\ dead' = TRUE /\ buf' = Empty
  /\ call' = Done([call EXCEPT ![c].gen = gen], c, "failed")
  /\ UNCHANGED <<gen, proc, closed, faults>>

\* bash cannot be started, or the command's file not be written.
EnterFails(c) ==
  /\ Entering(c)
  /\ \/ dead /\ Fault("start") /\ UNCHANGED <<session, proc>>
     \/ /\ Fault("io")
        /\ gen' = Generation /\ proc' = Processes /\ dead' = FALSE
        /\ buf' = IF dead THEN Empty ELSE buf
  /\ call' = Done(call, c, "failed")
  /\ UNCHANGED closed

\* Restart.
EnterRestart(c) ==
  /\ call[c].at = "entered" /\ c \in Restarts
  /\ buf' = Empty
  /\ \/ /\ gen' = NextGen(gen) /\ dead' = FALSE
        /\ proc' = [Killed(proc, gen, c) EXCEPT ![NextGen(gen)] = Born]
        /\ call' = Broadcast(Done(call, c, "restarted"))
        /\ UNCHANGED faults
     \/ /\ Fault("start")
        /\ dead' = TRUE
        /\ proc' = Killed(proc, gen, c)
        /\ call' = Broadcast(Done(call, c, "failed"))
        /\ UNCHANGED gen
  /\ UNCHANGED closed

-----------------------------------------------------------------------------
(* A call that waits                                                       *)

\* Its goroutine, at its deadline or the end of its context.
Waker(c) ==
  /\ call[c].at = "waits" /\ ~call[c].woken
  /\ call[c].cancelled \/ call[c].late
  /\ call' = Broadcast(call)
  /\ UNCHANGED <<session, proc, closed, faults>>

\* Faulty: any report of an end is taken for the call's own.
AnyReport(c) == DOMAIN buf.ctrl

\* parseControl looks for the nonce of the call's own frame.
ReportOf(c) == {i \in DOMAIN buf.ctrl : buf.ctrl[i] = c}

Reported(c) == ReportOf(c) # {}

Woken(c) == call[c].at = "waits" /\ call[c].woken

\* Reports before the call's own, of calls that were abandoned, are dropped with it.
CheckReported(c) ==
  /\ Woken(c) /\ Reported(c)
  /\ \E i \in ReportOf(c) : buf' = [buf EXCEPT !.ctrl = SubSeq(@, i + 1, Len(@))]
  /\ call' = Done(call, c, "ok")
  /\ UNCHANGED <<gen, dead, proc, closed, faults>>

CheckDead(c) ==
  /\ Woken(c) /\ ~Reported(c) /\ dead
  /\ call' = Done(call, c, "terminated")
  /\ UNCHANGED <<session, proc, closed, faults>>

\* Faulty: a result of its own for any call that is given up.
AbortedResult(c) == "aborted"

\* The context is looked at before the deadline.
GiveUpResult(c) == IF call[c].cancelled THEN "cancelled" ELSE "timedout"

\* closeLocked, whatever process the session has by now.
GivesUp(c) ==
  /\ Woken(c) /\ ~Reported(c) /\ ~dead
  /\ call[c].cancelled \/ call[c].late
  /\ dead' = TRUE /\ buf' = Empty
  /\ proc' = Killed(proc, gen, c)
  /\ call' = Broadcast(Done(call, c, GiveUpResult(c)))
  /\ UNCHANGED <<gen, closed, faults>>

WaitsOn(c) ==
  /\ Woken(c) /\ ~Reported(c) /\ ~dead /\ ~call[c].cancelled /\ ~call[c].late
  /\ call' = [call EXCEPT ![c].woken = FALSE]
  /\ UNCHANGED <<session, proc, closed, faults>>

Check(c) == CheckReported(c) \/ CheckDead(c) \/ GivesUp(c) \/ WaitsOn(c)

\* Close, after the runner has closed: abandoned calls may still be under way.  The private
\* directory, which a call that comes later makes anew and nobody removes, is left out.
Close ==
  /\ ~closed
  /\ \A c \in Calls : UnderWay(c) => call[c].cancelled
  /\ closed' = TRUE
  /\ dead' = TRUE /\ buf' = Empty
  /\ proc' = Killed(proc, gen, NoCall)
  /\ call' = Broadcast(call)
  /\ UNCHANGED <<gen, faults>>

-----------------------------------------------------------------------------
(* bash and the goroutines of its pipes                                    *)

\* bash takes the next frame; the command's output goes to its pipe.
Execute(g) ==
  /\ proc[g].alive /\ proc[g].current = NoCall /\ proc[g].stdin # <<>>
  /\ LET c == Head(proc[g].stdin)
     IN proc' = [proc EXCEPT ![g].current = c, ![g].stdin = Tail(@),
                             ![g].pipe.out = Append(@, c)]
  /\ UNCHANGED <<session, call, closed, faults>>

\* The end of the frame reports the command's nonce on the control pipe.
Ends(g) ==
  /\ proc[g].alive /\ proc[g].current # NoCall
  /\ proc' = [proc EXCEPT ![g].current = NoCall,
                          ![g].pipe.ctrl = Append(@, proc[g].current)]
  /\ call' = [call EXCEPT ![proc[g].current].ended = TRUE]
  /\ UNCHANGED <<session, closed, faults>>

Dies(g) ==
  /\ proc[g].alive /\ Fault("death")
  /\ proc' = [proc EXCEPT ![g] = Gone(@)]
  /\ UNCHANGED <<session, call, closed>>

\* r.Read of readOutputLoop and readControlLoop: it returns what is in the pipe.
Read(g, k) ==
  /\ proc[g].reader[k].at = "read" /\ proc[g].pipe[k] # <<>>
  /\ proc' = [proc EXCEPT ![g].pipe[k] = <<>>,
                          ![g].reader[k] = [at |-> "data", chunk |-> proc[g].pipe[k]]]
  /\ UNCHANGED <<session, call, closed, faults>>

\* Faulty: a reader does not ask whether its process is still the session's.
AlwaysCurrent(g) == TRUE

\* gen == s.gen.
Current(g) == g = gen

\* What was read goes into the buffer.
Store(g, k) ==
  /\ proc[g].reader[k].at = "data"
  /\ proc' = [proc EXCEPT ![g].reader[k] = Reading]
  /\ IF Current(g)
     THEN /\ buf' = [buf EXCEPT ![k] = @ \o proc[g].reader[k].chunk]
          /\ call' = Broadcast(call)
     ELSE UNCHANGED <<buf, call>>
  /\ UNCHANGED <<gen, dead, closed, faults>>

\* waitLoop, or a reader at the end of its pipe, whichever has the mutex first: the session
\* is lost.  The others find it so, or replaced.
Lost(g) ==
  /\ ~proc[g].alive /\ ~proc[g].waited
  /\ proc' = [proc EXCEPT ![g].waited = TRUE]
  /\ IF Current(g)
     THEN dead' = TRUE /\ call' = Broadcast(call)
     ELSE UNCHANGED <<dead, call>>
  /\ UNCHANGED <<gen, buf, closed, faults>>

-----------------------------------------------------------------------------

Enters(c) == EnterRun(c) \/ EnterCancelled(c) \/ EnterBroken(c) \/ EnterRestart(c)

Next ==
  \/ \E c \in Calls : \/ Issue(c) \/ Cancel(c) \/ DeadlinePasses(c)
                      \/ Enters(c) \/ EnterFails(c) \/ Waker(c) \/ Check(c)
  \/ \E g \in Gens : \/ Execute(g) \/ Ends(g) \/ Dies(g) \/ Lost(g)
                     \/ \E k \in Pipes : Read(g, k) \/ Store(g, k)
  \/ Close

\* Goroutines and bash go on; the deadline of a call has to pass only if its command
\* need not end by itself, or if a restart took its process away: then nobody marks the new
\* one dead, and only the deadline (or its context) ends the call, with the new process.
Fairness ==
  /\ \A c \in Calls : /\ WF_vars(Enters(c) \/ Check(c))
                     /\ WF_vars(Waker(c))
                     /\ WF_vars(DeadlinePasses(c) /\ (c \in Hanging \/ call[c].gen # gen))
  /\ WF_vars(\E g \in Gens : Execute(g) \/ (Ends(g) /\ proc[g].current \notin Hanging))
  /\ \A k \in Pipes : WF_vars(\E g \in Gens : Read(g, k) \/ Store(g, k))
  /\ WF_vars(\E g \in Gens : Lost(g))

Spec == Init /\ [][Next]_vars /\ Fairness

-----------------------------------------------------------------------------
(* Properties                                                              *)

\* A call returns an exit code only if its own command has ended: with two calls in the
\* session, the report of the abandoned one's command is not taken for the other's.
\* (Run's parseControl with the nonce; bash takes its commands in order.)
OkMeansDone == \A c \in Calls : call[c].result = "ok" => call[c].ended

\* What the session has read comes from the process it has now: a goroutine that still
\* holds bytes of a process that was replaced drops them. (gen == s.gen in the loops.)
BufferIsOfCurrentProcess ==
  \A k \in Pipes : \A i \in DOMAIN buf[k] : call[buf[k][i]].gen = gen

\* A call that is not cancelled sees its process end only because bash died by
\* itself or because a call that was abandoned before it closed the session.  (Run's dead
\* and closeLocked; the loops of an older process must not mark the new one dead.)
OnlyAbandonedCallsDisturb ==
  \A c \in Calls :
    call[c].result = "terminated" /\ ~call[c].cancelled =>
      LET p == proc[call[c].gen]
      IN ~p.alive /\ (p.killer = NoCall \/ (p.killer # c /\ call[p.killer].cancelled))

\* No process outlives the session's interest in it: at most the current one runs, and after
\* Close none.  (closeLocked, Close.)  The exception is one that an abandoned call starts when
\* it reaches the session only after Close: a restart, or a command whose file fails.
AtMostOneProcess ==
  \A g \in Gens : proc[g].alive =>
    /\ g = gen
    /\ closed => \E c \in Calls : call[c].cancelled /\ call[c].result \in {"restarted", "failed"}

\* Every call returns: on the report of its end, the end of bash, or the end of its context
\* or its deadline, whichever other calls share the session: none is under way in the end.  (The broadcasts.)
EveryCallReturns == []<>(\A c \in Calls : ~UnderWay(c))

\* A command's result has all that the command printed: nothing is still in the pipe, or
\* with the goroutine that reads it, when its end is reported.
OkHasItsOutput ==
  \A c \in Calls : call[c].result = "ok" =>
    LET p == proc[call[c].gen] IN \A s \in {p.pipe.out, p.reader["out"].chunk} : ~\E i \in DOMAIN s : s[i] = c
=============================================================================

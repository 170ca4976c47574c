------------------------ MODULE FileToolResultStore ------------------------
(***************************************************************************)
(* selfhosted/tool_result_store.go: the ledger of tool calls kept as one   *)
(* JSON file per call.  Every file is replaced by writing a temporary      *)
(* file, syncing it, renaming it over the target and syncing the           *)
(* directory; the worker process may die, and the machine may lose power,  *)
(* between any two of these system calls, and each of them may fail.       *)
(*                                                                         *)
(* vis[c]  is what a reader of call c's file finds now;                    *)
(* disk[c] is the set of contents a reader may find after a power loss.    *)
(* Temporary files are never read (their names carry the prefix that       *)
(* Recover skips), so only the one being written is kept.                  *)
(***************************************************************************)
EXTENDS Naturals

CONSTANTS Calls,      \* tool_use call ids
          Results,    \* results a tool can produce
          Unknown,    \* unknownToolExecutionResult
          NoResult,   \* the zero Event
          NoCall

ASSUME ResultAssumption == {Unknown, NoResult} \cap Results = {}
ASSUME NoCallAssumption == NoCall \notin Calls

VARIABLES vis, disk, tmpSynced,
          op,         \* the store method being executed
          todo,       \* entries Recover has still to read
          granted,    \* history: how often Begin granted each call since its discard
          acked       \* history: the rank each call's record was acknowledged at

vars == <<vis, disk, tmpSynced, op, todo, granted, acked>>

Values == Results \cup {Unknown, NoResult}
File(state, result) == [state |-> state, result |-> result]
Absent == File("absent", NoResult)
Torn == File("torn", NoResult)
Started == File("started", NoResult)
Files == [state : {"absent", "torn", "started", "result", "sent"}, result : Values]

Rank(f) == CASE f.state = "started" -> 1
             [] f.state = "result"  -> 2
             [] f.state = "sent"    -> 3
             [] OTHER               -> 0

Idle == [name |-> "idle", call |-> NoCall, step |-> "none", file |-> Absent]

Ops == [name : {"idle", "begin", "save", "mark", "discard", "recover"},
        call : Calls \cup {NoCall},
        step : {"none", "create", "sync", "rename", "remove", "dirsync"},
        file : Files]

TypeOK == /\ vis \in [Calls -> Files]
          /\ disk \in [Calls -> SUBSET Files]
          /\ tmpSynced \in BOOLEAN
          /\ op \in Ops
          /\ todo \subseteq Calls
          /\ granted \in [Calls -> Nat]
          /\ acked \in [Calls -> 0..3]

Init == /\ vis = [c \in Calls |-> Absent]
        /\ disk = [c \in Calls |-> {Absent}]
        /\ tmpSynced = FALSE
        /\ op = Idle
        /\ todo = {}
        /\ granted = [c \in Calls |-> 0]
        /\ acked = [c \in Calls |-> 0]

-----------------------------------------------------------------------------
(* Entry of the methods: the record is read, and either the method returns *)
(* or a new record is on its way to the disk.                              *)

Write(name, c, f) == op' = [name |-> name, call |-> c, step |-> "create", file |-> f]

\* A method that is about to write a record of a lower rank gives up what an
\* earlier call was promised.
LowerAck(c, rank) ==
  acked' = [acked EXCEPT ![c] = IF @ <= rank THEN @ ELSE rank]

\* Faulty: an interrupted execution is recorded under a state of its own.
UnknownStateFile == File("unknown", Unknown)

UnknownFile == File("result", Unknown)

\* Faulty: a call found started is started again.
BeginAgain(c) ==
  /\ op = Idle
  /\ vis[c].state \in {"started", "absent"}
  /\ Write("begin", c, Started)
  /\ UNCHANGED <<vis, disk, tmpSynced, todo, granted, acked>>

\* Begin of a call whose record says "sent" or "result" only reads; a record
\* left at "started" becomes the unknown result; no record is a grant to be.
Begin(c) ==
  /\ op = Idle
  /\ \/ vis[c].state \in {"sent", "result"} /\ UNCHANGED op
     \/ vis[c].state = "started" /\ Write("begin", c, UnknownFile)
     \/ vis[c] = Absent /\ Write("begin", c, Started)
  /\ UNCHANGED <<vis, disk, tmpSynced, todo, granted, acked>>

SaveResult(c, r) ==
  /\ op = Idle
  /\ vis[c].state \in {"started", "result", "sent"}
  /\ Write("save", c, File("result", r))
  /\ LowerAck(c, 2)
  /\ UNCHANGED <<vis, disk, tmpSynced, todo, granted>>

MarkSent(c) ==
  /\ op = Idle
  /\ vis[c].state \in {"started", "result", "sent"}
  /\ Write("mark", c, File("sent", vis[c].result))
  /\ UNCHANGED <<vis, disk, tmpSynced, todo, granted, acked>>

Discard(c) ==
  /\ op = Idle
  /\ op' = [name |-> "discard", call |-> c, step |-> "remove", file |-> Absent]
  /\ LowerAck(c, 0)
  /\ UNCHANGED <<vis, disk, tmpSynced, todo, granted>>

Recover ==
  /\ op = Idle
  /\ op' = [Idle EXCEPT !.name = "recover"]
  /\ todo' = {c \in Calls : vis[c] # Absent}
  /\ UNCHANGED <<vis, disk, tmpSynced, granted, acked>>

\* Recover's loop: an entry left at "started" is rewritten, any other only read.
RecoverEntry(c) ==
  /\ op.name = "recover" /\ op.step = "none"
  /\ c \in todo
  /\ todo' = todo \ {c}
  /\ IF vis[c].state = "started"
     THEN Write("recover", c, UnknownFile)
     ELSE UNCHANGED op
  /\ UNCHANGED <<vis, disk, tmpSynced, granted, acked>>

RecoverReturn ==
  /\ op.name = "recover" /\ op.step = "none"
  /\ todo = {}
  /\ op' = Idle
  /\ UNCHANGED <<vis, disk, tmpSynced, todo, granted, acked>>

-----------------------------------------------------------------------------
(* The system calls of write and Discard, in their order.                  *)

CreateTmp ==
  /\ op.step = "create"
  /\ op' = [op EXCEPT !.step = "sync"]
  /\ tmpSynced' = FALSE
  /\ UNCHANGED <<vis, disk, todo, granted, acked>>

\* Faulty: the temporary file is renamed without having been synced.
SkipSyncTmp ==
  /\ op.step = "sync"
  /\ op' = [op EXCEPT !.step = "rename"]
  /\ UNCHANGED <<vis, disk, tmpSynced, todo, granted, acked>>

SyncTmp ==
  /\ op.step = "sync"
  /\ op' = [op EXCEPT !.step = "rename"]
  /\ tmpSynced' = TRUE
  /\ UNCHANGED <<vis, disk, todo, granted, acked>>

\* What a power loss can leave once f is renamed over the target: a file whose
\* data was not synced may come back torn.
Exposed(f) == IF tmpSynced THEN {f} ELSE {f, Torn}

Rename ==
  /\ op.step = "rename"
  /\ op' = [op EXCEPT !.step = "dirsync"]
  /\ vis' = [vis EXCEPT ![op.call] = op.file]
  /\ disk' = [disk EXCEPT ![op.call] = @ \cup Exposed(op.file)]
  /\ UNCHANGED <<tmpSynced, todo, granted, acked>>

Remove ==
  /\ op.step = "remove"
  /\ op' = [op EXCEPT !.step = "dirsync"]
  /\ vis' = [vis EXCEPT ![op.call] = Absent]
  /\ disk' = [disk EXCEPT ![op.call] = @ \cup {Absent}]
  /\ granted' = [granted EXCEPT ![op.call] = 0]
  /\ UNCHANGED <<tmpSynced, todo, acked>>

AfterSync == IF op.name = "recover" THEN [Idle EXCEPT !.name = "recover"] ELSE Idle

\* Faulty: the method returns without having synced the directory.
SkipSyncDir ==
  /\ op.step = "dirsync"
  /\ op' = AfterSync
  /\ granted' = IF op.name = "begin" /\ op.file = Started
                THEN [granted EXCEPT ![op.call] = @ + 1] ELSE granted
  /\ acked' = [acked EXCEPT ![op.call] = Rank(op.file)]
  /\ UNCHANGED <<vis, disk, tmpSynced, todo>>

\* The directory sync makes every entry durable; the method then returns
\* without an error, and Begin of a fresh call lets the caller execute it.
SyncDir ==
  /\ op.step = "dirsync"
  /\ op' = AfterSync
  /\ disk' = [c \in Calls |-> {vis[c]} \cup (disk[c] \cap {Torn})]
  /\ granted' = IF op.name = "begin" /\ op.file = Started
                THEN [granted EXCEPT ![op.call] = @ + 1] ELSE granted
  /\ acked' = [acked EXCEPT ![op.call] = Rank(op.file)]
  /\ UNCHANGED <<vis, tmpSynced, todo>>

\* Any of these system calls may fail: the method returns the error, with or
\* without its effect on the directory.
IOFails ==
  /\ op.step # "none"
  /\ op' = Idle
  /\ todo' = {}
  /\ UNCHANGED <<vis, disk, tmpSynced, granted, acked>>

-----------------------------------------------------------------------------
\* The worker process dies: what the kernel holds stays.
ProcessDies ==
  /\ op # Idle
  /\ op' = Idle
  /\ todo' = {}
  /\ UNCHANGED <<vis, disk, tmpSynced, granted, acked>>

PowerLoss ==
  /\ op' = Idle
  /\ todo' = {}
  /\ \E found \in [Calls -> UNION {disk[c] : c \in Calls}] :
        /\ \A c \in Calls : found[c] \in disk[c]
        /\ vis' = found
        /\ disk' = [c \in Calls |-> {found[c]}]
  /\ UNCHANGED <<tmpSynced, granted, acked>>

Next ==
  \/ \E c \in Calls : \/ Begin(c) \/ MarkSent(c) \/ Discard(c) \/ RecoverEntry(c)
                      \/ \E r \in Results : SaveResult(c, r)
  \/ Recover \/ RecoverReturn
  \/ CreateTmp \/ SyncTmp \/ Rename \/ Remove \/ SyncDir \/ IOFails
  \/ ProcessDies \/ PowerLoss

Spec == Init /\ [][Next]_vars

-----------------------------------------------------------------------------
\* Recover never meets a half-written record (readPath would refuse it and the
\* runner could not start again): no reachable content of a file is torn, now or
\* after a power loss.
NoTornRecord == \A c \in Calls : Torn \notin disk[c] \cup {vis[c]}

\* What a method acknowledged survives the death of the process and a power
\* loss: no content a reader may find is behind the acknowledged state
\* (started < result < sent).
AckedSurvives ==
  \A c \in Calls : \A f \in disk[c] \cup {vis[c]} : Rank(f) >= acked[c]

\* A call that Begin granted has a record in every state the disk can be found
\* in, so that a restarted worker sees it.
GrantedIsRecorded ==
  \A c \in Calls : granted[c] > 0 => Absent \notin disk[c] \cup {vis[c]}

\* The store implements the promise of ToolResultStore: Begin grants a call at
\* most once between two discards, whatever dies in between.
ExecutionGrants == INSTANCE ExecutionGrant WITH Calls <- Calls, granted <- granted
GrantsOnce == ExecutionGrants!Spec
=============================================================================

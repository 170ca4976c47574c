---------------------- MODULE FileToolResultStoreProofs ----------------------
(***************************************************************************)
(* The ledger of tool calls grants each call at most once, for any number  *)
(* of calls and results, whatever system call fails and whenever the       *)
(* process or the machine dies; and no reader ever finds a torn record.    *)
(***************************************************************************)
EXTENDS FileToolResultStore, TLAPS

\* A Begin that is about to grant a call works on a call not granted yet, and
\* the record it renamed into place is there until the directory is synced.
FreshBegin ==
  op.name = "begin" /\ op.file = Started => granted[op.call] = 0

RenamedRecord ==
  op.step = "dirsync" /\ op.name # "discard" => vis[op.call] # Absent

\* Only Discard's op carries no record, and only it removes.
OpShape ==
  /\ op.step # "none" => op.call \in Calls
  /\ op.step # "none" /\ op.name # "discard" => op.file # Absent /\ op.file # Torn
  /\ op.name = "discard" => op.step \in {"remove", "dirsync"} /\ op.file = Absent
  /\ op.step = "remove" => op.name = "discard"
  /\ op.step = "rename" => tmpSynced
  /\ op.file # Torn

\* The record on its way to the disk is not behind what the call's record was
\* acknowledged at, and once renamed it is the one a reader finds.
NotBehindAck == op.step # "none" => acked[op.call] <= Rank(op.file)

RenamedInPlace == op.step = "dirsync" => vis[op.call] = op.file

IInv == /\ TypeOK /\ OpShape
        /\ NoTornRecord /\ GrantedIsRecorded /\ AckedSurvives
        /\ FreshBegin /\ RenamedRecord
        /\ NotBehindAck /\ RenamedInPlace

-----------------------------------------------------------------------------
\* The records the methods write are files of the ledger.
LEMMA FilesOfLedger ==
  /\ Absent \in Files /\ Torn \in Files /\ Started \in Files /\ UnknownFile \in Files
  /\ \A r \in Values : File("result", r) \in Files /\ File("sent", r) \in Files
BY DEF Files, File, Absent, Torn, Started, UnknownFile, Values

\* The kinds of record are told apart by their state.
LEMMA FilesDiffer ==
  /\ Absent # Torn /\ Started # Absent /\ Started # Torn
  /\ UnknownFile # Absent /\ UnknownFile # Torn /\ UnknownFile # Started
  /\ \A r : /\ File("result", r) \notin {Absent, Torn, Started}
            /\ File("sent", r) \notin {Absent, Torn, Started}
BY DEF File, Absent, Torn, Started, UnknownFile

\* The rank of a record is a number up to 3.
LEMMA RankRange == \A f : Rank(f) \in 0..3
BY DEF Rank

\* The worker starts with an empty ledger, which satisfies the invariant.
LEMMA InitIInv == Init => IInv
<1> SUFFICES ASSUME Init PROVE IInv
  OBVIOUS
<1>1. Idle \in Ops
  BY FilesOfLedger DEF Idle, Ops
<1>2. TypeOK
  <2>1. vis \in [Calls -> Files] /\ disk \in [Calls -> SUBSET Files]
    BY FilesOfLedger DEF Init
  <2>2. todo \subseteq Calls /\ granted \in [Calls -> Nat] /\ acked \in [Calls -> 0..3]
    BY DEF Init
  <2> QED BY <1>1, <2>1, <2>2 DEF Init, TypeOK
<1>3. OpShape /\ FreshBegin /\ RenamedRecord
  BY FilesDiffer DEF Init, OpShape, FreshBegin, RenamedRecord, Idle
<1>4. NoTornRecord /\ GrantedIsRecorded
  BY FilesDiffer DEF Init, NoTornRecord, GrantedIsRecorded
<1>5. AckedSurvives /\ NotBehindAck /\ RenamedInPlace
  BY RankRange DEF Init, AckedSurvives, NotBehindAck, RenamedInPlace, Idle
<1> QED
  BY <1>2, <1>3, <1>4, <1>5 DEF IInv

\* Every action of the store keeps the types.
LEMMA TypeStep == TypeOK /\ OpShape /\ [Next]_vars => TypeOK'
<1> SUFFICES ASSUME TypeOK, OpShape, [Next]_vars PROVE TypeOK'
  OBVIOUS
<1> USE FilesOfLedger, RankRange DEF TypeOK
<1>0. Idle \in Ops /\ [Idle EXCEPT !.name = "recover"] \in Ops
  BY DEF Idle, Ops
<1>w. ASSUME NEW name \in {"begin", "save", "mark", "recover"}, NEW c \in Calls,
             NEW f \in Files, Write(name, c, f)
      PROVE  op' \in Ops
  BY <1>w DEF Write, Ops
<1>a. ASSUME NEW c \in Calls, NEW n \in {0, 2}, LowerAck(c, n)
      PROVE  acked' \in [Calls -> 0..3]
  BY <1>a DEF LowerAck
<1>1. ASSUME NEW c \in Calls, Begin(c) PROVE TypeOK'
  BY <1>1, <1>w DEF Begin
<1>2. ASSUME NEW c \in Calls, MarkSent(c) PROVE TypeOK'
  <2>1. vis[c].result \in Values
    BY DEF Files
  <2> QED BY <1>2, <2>1, <1>w DEF MarkSent
<1>3. ASSUME NEW c \in Calls, Discard(c) PROVE TypeOK'
  <2>1. op' \in Ops
    BY <1>3 DEF Discard, Ops
  <2> QED BY <1>3, <2>1, <1>a DEF Discard
<1>4. ASSUME NEW c \in Calls, RecoverEntry(c) PROVE TypeOK'
  <2>1. op' \in Ops
    BY <1>4, <1>w DEF RecoverEntry
  <2> QED BY <1>4, <2>1 DEF RecoverEntry
<1>5. ASSUME NEW c \in Calls, NEW r \in Results, SaveResult(c, r) PROVE TypeOK'
  <2>1. op' \in Ops
    BY <1>5, <1>w DEF SaveResult, Values
  <2> QED BY <1>5, <2>1, <1>a DEF SaveResult
<1>6. CASE Recover \/ RecoverReturn
  BY <1>6, <1>0 DEF Recover, RecoverReturn
<1>7. CASE CreateTmp \/ SyncTmp
  BY <1>7 DEF CreateTmp, SyncTmp, Ops
<1>8. CASE Rename
  <2>1. op' \in Ops /\ op.file \in Files
    BY <1>8 DEF Rename, Ops
  <2>2. disk' \in [Calls -> SUBSET Files]
    BY <1>8, <2>1 DEF Rename, Exposed
  <2> QED BY <1>8, <2>1, <2>2 DEF Rename
<1>9. CASE Remove
  <2>1. op' \in Ops
    BY <1>9 DEF Remove, Ops
  <2> QED BY <1>9, <2>1 DEF Remove
<1>10. CASE SyncDir
  <2>1. op' \in Ops
    BY <1>10, <1>0 DEF SyncDir, AfterSync
  <2>2. disk' \in [Calls -> SUBSET Files]
    BY <1>10 DEF SyncDir
  <2>3. granted' \in [Calls -> Nat]
    BY <1>10 DEF SyncDir, OpShape
  <2>4. acked' \in [Calls -> 0..3]
    BY <1>10 DEF SyncDir
  <2> QED BY <1>10, <2>1, <2>2, <2>3, <2>4 DEF SyncDir
<1>11. CASE IOFails \/ ProcessDies
  BY <1>11, <1>0 DEF IOFails, ProcessDies
<1>12. CASE PowerLoss
  <2>1. PICK found \in [Calls -> UNION {disk[c] : c \in Calls}] :
           vis' = found /\ disk' = [c \in Calls |-> {found[c]}]
    BY <1>12 DEF PowerLoss
  <2>2. UNION {disk[c] : c \in Calls} \subseteq Files
    OBVIOUS
  <2>3. \A c \in Calls : found[c] \in Files
    BY <2>2
  <2>4. vis' \in [Calls -> Files] /\ disk' \in [Calls -> SUBSET Files]
    BY <2>1, <2>3
  <2> QED BY <1>12, <1>0, <2>4 DEF PowerLoss
<1>13. CASE UNCHANGED vars
  BY <1>13 DEF vars
<1> QED
  BY <1>1, <1>2, <1>3, <1>4, <1>5, <1>6, <1>7, <1>8, <1>9, <1>10, <1>11,
     <1>12, <1>13 DEF Next

\* The method in progress keeps its shape: a record is renamed into place only
\* after its data was synced, and only Discard removes.
LEMMA ShapeStep == TypeOK /\ OpShape /\ [Next]_vars => OpShape'
<1> SUFFICES ASSUME TypeOK, OpShape, [Next]_vars PROVE OpShape'
  OBVIOUS
<1> USE FilesDiffer DEF OpShape
<1>0. ASSUME op' = Idle \/ op' = [Idle EXCEPT !.name = "recover"] PROVE OpShape'
  BY <1>0 DEF Idle
<1>w. ASSUME NEW name \in {"begin", "save", "mark", "recover"}, NEW c \in Calls,
             NEW f, f # Absent, f # Torn, Write(name, c, f)
      PROVE  OpShape'
  BY <1>w DEF Write
<1>1. ASSUME NEW c \in Calls, Begin(c) PROVE OpShape'
  BY <1>1, <1>w DEF Begin
<1>2. ASSUME NEW c \in Calls, MarkSent(c) PROVE OpShape'
  BY <1>2, <1>w DEF MarkSent
<1>3. ASSUME NEW c \in Calls, Discard(c) PROVE OpShape'
  BY <1>3 DEF Discard
<1>4. ASSUME NEW c \in Calls, RecoverEntry(c) PROVE OpShape'
  BY <1>4, <1>w DEF RecoverEntry
<1>5. ASSUME NEW c \in Calls, NEW r \in Results, SaveResult(c, r) PROVE OpShape'
  BY <1>5, <1>w DEF SaveResult
<1>6. CASE Recover \/ RecoverReturn \/ SyncDir \/ IOFails \/ ProcessDies \/ PowerLoss
  BY <1>6, <1>0 DEF Recover, RecoverReturn, SyncDir, AfterSync, IOFails, ProcessDies, PowerLoss
<1>7. CASE CreateTmp \/ SyncTmp \/ Rename \/ Remove
  BY <1>7 DEF CreateTmp, SyncTmp, Rename, Remove, TypeOK, Ops
<1>8. CASE UNCHANGED vars
  BY <1>8 DEF vars
<1> QED
  BY <1>1, <1>2, <1>3, <1>4, <1>5, <1>6, <1>7, <1>8 DEF Next

\* What is on the disk stays whole, and the record of a granted call stays
\* there, whatever the action.
LEMMA DiskStep == IInv /\ [Next]_vars => NoTornRecord' /\ GrantedIsRecorded'
<1> SUFFICES ASSUME IInv, [Next]_vars PROVE NoTornRecord' /\ GrantedIsRecorded'
  OBVIOUS
<1> USE FilesDiffer DEF IInv, TypeOK, NoTornRecord, GrantedIsRecorded
<1>1. CASE UNCHANGED <<vis, disk, granted>>
  BY <1>1
<1>2. CASE Rename
  <2>1. op.call \in Calls /\ op.file # Absent /\ op.file # Torn /\ Exposed(op.file) = {op.file}
    BY <1>2 DEF Rename, OpShape, Exposed
  <2>2. /\ granted' = granted
        /\ \A c \in Calls : /\ disk'[c] \subseteq disk[c] \cup {op.file}
                            /\ vis'[c] \in {vis[c], op.file}
    BY <1>2, <2>1 DEF Rename
  <2> QED BY <2>1, <2>2
<1>3. CASE Remove
  <2>1. /\ \A c \in Calls : granted'[c] = IF c = op.call THEN 0 ELSE granted[c]
        /\ \A c \in Calls : /\ disk'[c] \subseteq disk[c] \cup {Absent}
                            /\ vis'[c] \in {vis[c], Absent}
                            /\ c # op.call => disk'[c] = disk[c] /\ vis'[c] = vis[c]
    BY <1>3 DEF Remove
  <2> QED BY <2>1
<1>4. CASE SyncDir
  <2>1. \A c \in Calls : disk'[c] = {vis[c]} /\ vis'[c] = vis[c]
    BY <1>4 DEF SyncDir
  <2>2. \A c \in Calls : granted'[c] > 0 => vis[c] # Absent
    BY <1>4 DEF SyncDir, RenamedRecord
  <2> QED BY <2>1, <2>2
<1>5. CASE PowerLoss
  <2>1. PICK found \in [Calls -> UNION {disk[c] : c \in Calls}] :
           /\ \A c \in Calls : found[c] \in disk[c]
           /\ vis' = found
           /\ disk' = [c \in Calls |-> {found[c]}]
    BY <1>5 DEF PowerLoss
  <2>2. granted' = granted
    BY <1>5 DEF PowerLoss
  <2> QED BY <2>1, <2>2
<1> QED
  BY <1>1, <1>2, <1>3, <1>4, <1>5
  DEF Next, Begin, MarkSent, Discard, RecoverEntry, SaveResult, Recover,
      RecoverReturn, CreateTmp, SyncTmp, IOFails, ProcessDies, vars

\* A Begin on its way to a grant works on a call that is not granted, and its
\* record is in place before the directory is synced.
LEMMA BeginStep == IInv /\ [Next]_vars => FreshBegin' /\ RenamedRecord'
<1> SUFFICES ASSUME IInv, [Next]_vars PROVE FreshBegin' /\ RenamedRecord'
  OBVIOUS
<1> USE FilesDiffer DEF FreshBegin, RenamedRecord
<1>0. ASSUME op' = Idle \/ op' = [Idle EXCEPT !.name = "recover"]
      PROVE  FreshBegin' /\ RenamedRecord'
  BY <1>0 DEF Idle
<1>w. ASSUME NEW name \in {"begin", "save", "mark", "recover"}, NEW c \in Calls,
             NEW f, f # Started \/ granted[c] = 0, granted' = granted, Write(name, c, f)
      PROVE  FreshBegin' /\ RenamedRecord'
  BY <1>w DEF Write
<1>1. ASSUME NEW c \in Calls, Begin(c) PROVE FreshBegin' /\ RenamedRecord'
  <2>1. CASE vis[c] = Absent /\ Write("begin", c, Started)
    <3>1. granted[c] = 0
      BY <2>1 DEF IInv, GrantedIsRecorded, TypeOK
    <3> QED BY <1>1, <2>1, <3>1, <1>w DEF Begin
  <2>2. CASE UNCHANGED op
    BY <1>1, <2>2 DEF Begin, IInv
  <2> QED BY <1>1, <2>1, <2>2, <1>w DEF Begin
<1>2. ASSUME NEW c \in Calls, MarkSent(c) PROVE FreshBegin' /\ RenamedRecord'
  BY <1>2, <1>w DEF MarkSent
<1>3. ASSUME NEW c \in Calls, Discard(c) PROVE FreshBegin' /\ RenamedRecord'
  BY <1>3 DEF Discard
<1>4. ASSUME NEW c \in Calls, RecoverEntry(c) PROVE FreshBegin' /\ RenamedRecord'
  BY <1>4, <1>w DEF RecoverEntry, IInv
<1>5. ASSUME NEW c \in Calls, NEW r \in Results, SaveResult(c, r)
      PROVE  FreshBegin' /\ RenamedRecord'
  BY <1>5, <1>w DEF SaveResult
<1>6. CASE Recover \/ RecoverReturn \/ SyncDir \/ IOFails \/ ProcessDies \/ PowerLoss
  BY <1>6, <1>0 DEF Recover, RecoverReturn, SyncDir, AfterSync, IOFails, ProcessDies, PowerLoss
<1>7. CASE CreateTmp \/ SyncTmp
  BY <1>7 DEF CreateTmp, SyncTmp, IInv, TypeOK, Ops
<1>8. CASE Rename
  <2>1. op.call \in Calls /\ op.file # Absent
    BY <1>8 DEF Rename, IInv, OpShape
  <2> QED BY <1>8, <2>1 DEF Rename, IInv, TypeOK, Ops
<1>9. CASE Remove
  BY <1>9 DEF Remove, IInv, OpShape, TypeOK, Ops
<1>10. CASE UNCHANGED vars
  BY <1>10 DEF vars, IInv
<1> QED
  BY <1>1, <1>2, <1>3, <1>4, <1>5, <1>6, <1>7, <1>8, <1>9, <1>10 DEF Next

\* The ranks of the records the methods write.
LEMMA Ranks ==
  /\ Rank(Absent) = 0 /\ Rank(Started) = 1 /\ Rank(UnknownFile) = 2
  /\ \A r : Rank(File("result", r)) = 2 /\ Rank(File("sent", r)) = 3
  /\ \A f : f.state = "started" => Rank(f) = 1
BY DEF Rank, Absent, Started, UnknownFile, File

\* A method writes a record at least as far as what it leaves acknowledged,
\* whatever the action, and the record it renamed stays the one in place.
LEMMA OpAckStep == IInv /\ [Next]_vars => NotBehindAck' /\ RenamedInPlace'
<1> SUFFICES ASSUME IInv, [Next]_vars PROVE NotBehindAck' /\ RenamedInPlace'
  OBVIOUS
<1> USE DEF NotBehindAck, RenamedInPlace
<1>a. \A c \in Calls : acked[c] \in 0..3 /\ acked[c] <= Rank(vis[c])
  BY DEF IInv, TypeOK, AckedSurvives
<1>0. ASSUME op' = Idle \/ op' = [Idle EXCEPT !.name = "recover"]
      PROVE  NotBehindAck' /\ RenamedInPlace'
  BY <1>0 DEF Idle
<1>w. ASSUME NEW name, NEW c \in Calls, NEW f, Write(name, c, f), acked'[c] <= Rank(f)
      PROVE  NotBehindAck' /\ RenamedInPlace'
  BY <1>w DEF Write
<1>l. ASSUME NEW c \in Calls, NEW n \in {0, 2}, LowerAck(c, n)
      PROVE  acked'[c] <= n
  BY <1>l, <1>a DEF LowerAck, IInv, TypeOK
<1>1. ASSUME NEW c \in Calls, Begin(c) PROVE NotBehindAck' /\ RenamedInPlace'
  <2>1. acked' = acked /\ vis' = vis
    BY <1>1 DEF Begin
  <2>2. CASE UNCHANGED op
    BY <2>1, <2>2 DEF IInv
  <2>3. CASE vis[c].state = "started" /\ Write("begin", c, UnknownFile)
    <3>1. acked'[c] <= Rank(UnknownFile)
      BY <1>a, <2>1, <2>3, Ranks
    <3> QED BY <2>3, <3>1, <1>w
  <2>4. CASE vis[c] = Absent /\ Write("begin", c, Started)
    <3>1. acked'[c] <= Rank(Started)
      BY <1>a, <2>1, <2>4, Ranks
    <3> QED BY <2>4, <3>1, <1>w
  <2> QED BY <1>1, <2>2, <2>3, <2>4 DEF Begin
<1>2. ASSUME NEW c \in Calls, MarkSent(c) PROVE NotBehindAck' /\ RenamedInPlace'
  <2>1. acked'[c] <= Rank(File("sent", vis[c].result))
    BY <1>2, <1>a, Ranks DEF MarkSent
  <2> QED BY <1>2, <2>1, <1>w DEF MarkSent
<1>3. ASSUME NEW c \in Calls, Discard(c) PROVE NotBehindAck' /\ RenamedInPlace'
  <2>1. acked'[c] <= Rank(Absent)
    BY <1>3, <1>l, Ranks DEF Discard
  <2> QED BY <1>3, <2>1 DEF Discard
<1>4. ASSUME NEW c \in Calls, RecoverEntry(c) PROVE NotBehindAck' /\ RenamedInPlace'
  <2>1. acked' = acked /\ vis' = vis
    BY <1>4 DEF RecoverEntry
  <2>2. CASE vis[c].state = "started"
    <3>1. acked'[c] <= Rank(UnknownFile)
      BY <1>a, <2>1, <2>2, Ranks
    <3> QED BY <1>4, <2>2, <3>1, <1>w DEF RecoverEntry
  <2>3. CASE vis[c].state # "started"
    BY <1>4, <2>1, <2>3 DEF RecoverEntry, IInv
  <2> QED BY <2>2, <2>3
<1>5. ASSUME NEW c \in Calls, NEW r \in Results, SaveResult(c, r)
      PROVE  NotBehindAck' /\ RenamedInPlace'
  <2>1. acked'[c] <= Rank(File("result", r))
    BY <1>5, <1>l, Ranks DEF SaveResult
  <2> QED BY <1>5, <2>1, <1>w DEF SaveResult
<1>6. CASE Recover \/ RecoverReturn \/ SyncDir \/ IOFails \/ ProcessDies \/ PowerLoss
  BY <1>6, <1>0 DEF Recover, RecoverReturn, SyncDir, AfterSync, IOFails, ProcessDies, PowerLoss
<1>7. CASE CreateTmp \/ SyncTmp \/ Rename \/ Remove
  <2>1. op \in Ops /\ op.call \in Calls /\ op.step # "none"
    BY <1>7 DEF IInv, TypeOK, OpShape, CreateTmp, SyncTmp, Rename, Remove
  <2>2. acked' = acked /\ op'.file = op.file /\ op'.call = op.call
    BY <1>7, <2>1 DEF CreateTmp, SyncTmp, Rename, Remove, Ops
  <2>3. op'.step = "dirsync" => vis'[op.call] = op.file
    BY <1>7, <2>1 DEF CreateTmp, SyncTmp, Rename, Remove, Ops, IInv, TypeOK, OpShape
  <2> QED BY <2>1, <2>2, <2>3 DEF IInv
<1>8. CASE UNCHANGED vars
  BY <1>8 DEF vars, IInv
<1> QED
  BY <1>1, <1>2, <1>3, <1>4, <1>5, <1>6, <1>7, <1>8 DEF Next

\* No action leaves a content behind what was acknowledged where a reader, now
\* or after a power loss, may find it.
LEMMA AckStep == IInv /\ [Next]_vars => AckedSurvives'
<1> SUFFICES ASSUME IInv, [Next]_vars PROVE AckedSurvives'
  OBVIOUS
<1> USE DEF IInv, TypeOK, AckedSurvives
<1>0. ASSUME UNCHANGED <<vis, disk>>, NEW c \in Calls, NEW n \in {0, 2}, LowerAck(c, n)
      PROVE  AckedSurvives'
  <2>1. \A b \in Calls : acked'[b] <= acked[b] /\ acked'[b] \in 0..3
    BY <1>0 DEF LowerAck
  <2> QED BY <1>0, <2>1, RankRange
<1>1. CASE UNCHANGED <<vis, disk, acked>>
  BY <1>1
<1>2. ASSUME NEW c \in Calls, Discard(c) \/ \E r \in Results : SaveResult(c, r)
      PROVE  AckedSurvives'
  BY <1>2, <1>0 DEF Discard, SaveResult
<1>3. CASE Rename
  <2>1. op.call \in Calls /\ Exposed(op.file) = {op.file} /\ acked[op.call] <= Rank(op.file)
    BY <1>3 DEF Rename, OpShape, Exposed, NotBehindAck
  <2>2. /\ acked' = acked
        /\ \A c \in Calls : \A f \in disk'[c] \cup {vis'[c]} :
              f \in disk[c] \cup {vis[c]} \/ (c = op.call /\ f = op.file)
    BY <1>3, <2>1 DEF Rename
  <2> QED BY <2>1, <2>2
<1>4. CASE Remove
  <2>1. op.call \in Calls /\ op.file = Absent /\ acked[op.call] <= Rank(op.file)
    BY <1>4 DEF Remove, OpShape, NotBehindAck
  <2>2. /\ acked' = acked
        /\ \A c \in Calls : \A f \in disk'[c] \cup {vis'[c]} :
              f \in disk[c] \cup {vis[c]} \/ (c = op.call /\ f = op.file)
    BY <1>4, <2>1 DEF Remove
  <2> QED BY <2>1, <2>2
<1>5. CASE SyncDir
  <2>1. \A c \in Calls : disk'[c] = {vis[c]} /\ vis'[c] = vis[c]
    BY <1>5 DEF SyncDir, NoTornRecord
  <2>2. op.call \in Calls /\ vis[op.call] = op.file
    BY <1>5 DEF SyncDir, OpShape, RenamedInPlace
  <2>3. \A c \in Calls : acked'[c] = IF c = op.call THEN Rank(vis[c]) ELSE acked[c]
    BY <1>5, <2>2 DEF SyncDir
  <2> QED BY <2>1, <2>3, RankRange
<1>6. CASE PowerLoss
  <2>1. PICK found \in [Calls -> UNION {disk[c] : c \in Calls}] :
           /\ \A c \in Calls : found[c] \in disk[c]
           /\ vis' = found
           /\ disk' = [c \in Calls |-> {found[c]}]
    BY <1>6 DEF PowerLoss
  <2>2. acked' = acked
    BY <1>6 DEF PowerLoss
  <2> QED BY <2>1, <2>2
<1> QED
  BY <1>1, <1>2, <1>3, <1>4, <1>5, <1>6
  DEF Next, Begin, MarkSent, RecoverEntry, Recover, RecoverReturn, CreateTmp,
      SyncTmp, IOFails, ProcessDies, vars

\* The inductive invariant holds in every reachable state of the store.
THEOREM Invariant == Spec => []IInv
<1>1. IInv /\ [Next]_vars => IInv'
  BY TypeStep, ShapeStep, DiskStep, BeginStep, OpAckStep, AckStep DEF IInv
<1> QED
  BY <1>1, InitIInv, PTL DEF Spec

\* Every variable keeps its type: a record is one of the files the methods
\* write, and the method in progress one of the store's five.
THEOREM TypeCorrect == Spec => []TypeOK
<1>1. IInv => TypeOK
  BY DEF IInv
<1> QED
  BY <1>1, Invariant, PTL

\* Recover can always read the ledger: write syncs the data before the rename,
\* so no file is ever torn.
THEOREM LedgerNeverTorn == Spec => []NoTornRecord
<1>1. IInv => NoTornRecord
  BY DEF IInv
<1> QED
  BY <1>1, Invariant, PTL

\* A call Begin let the caller execute has a record in every state the disk can
\* be found in, so a restarted worker never executes it again.
THEOREM GrantsAreRecorded == Spec => []GrantedIsRecorded
<1>1. IInv => GrantedIsRecorded
  BY DEF IInv
<1> QED
  BY <1>1, Invariant, PTL

\* What a method acknowledged survives the death of the process and a power
\* loss: no content a reader may find is behind the acknowledged state.
THEOREM AcksSurvive == Spec => []AckedSurvives
<1>1. IInv => AckedSurvives
  BY DEF IInv
<1> QED
  BY <1>1, Invariant, PTL

\* The file store implements the promise of the ToolResultStore interface:
\* Begin grants a call at most once between two discards.
THEOREM StoreGrantsOnce == Spec => GrantsOnce
<1>1. Init => ExecutionGrants!Init
  BY DEF Init, ExecutionGrants!Init
<1>2. IInv /\ [Next]_vars => [ExecutionGrants!Next]_granted
  <2> SUFFICES ASSUME IInv, [Next]_vars PROVE [ExecutionGrants!Next]_granted
    OBVIOUS
  <2>1. CASE UNCHANGED granted
    BY <2>1
  <2>2. CASE SyncDir
    <3>1. CASE op.name = "begin" /\ op.file = Started
      <4>1. op.call \in Calls /\ granted[op.call] = 0
        BY <2>2, <3>1 DEF SyncDir, IInv, OpShape, FreshBegin
      <4>2. ExecutionGrants!Grant(op.call)
        BY <2>2, <3>1, <4>1 DEF SyncDir, ExecutionGrants!Grant
      <4> QED BY <4>1, <4>2 DEF ExecutionGrants!Next
    <3>2. CASE ~(op.name = "begin" /\ op.file = Started)
      BY <2>2, <3>2 DEF SyncDir
    <3> QED BY <3>1, <3>2
  <2>3. CASE Remove
    <3>1. op.call \in Calls /\ ExecutionGrants!Release(op.call)
      BY <2>3 DEF Remove, IInv, OpShape, ExecutionGrants!Release
    <3> QED BY <3>1 DEF ExecutionGrants!Next
  <2> QED
    BY <2>1, <2>2, <2>3
    DEF Next, Begin, MarkSent, Discard, RecoverEntry, SaveResult, Recover,
        RecoverReturn, CreateTmp, SyncTmp, Rename, IOFails, ProcessDies,
        PowerLoss, vars
<1> QED
  BY <1>1, <1>2, Invariant, PTL DEF Spec, GrantsOnce, ExecutionGrants!Spec
=============================================================================

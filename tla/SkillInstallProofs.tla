------------------------- MODULE SkillInstallProofs -------------------------
(***************************************************************************)
(* The installation of skills, for every list of skills, every number of   *)
(* sessions and whatever fails: the directories behave as SkillSlots says, *)
(* a session meets no skill of another, and a single failure leaves        *)
(* nothing behind.                                                         *)
(***************************************************************************)
EXTENDS SkillInstall, SequenceTheorems, TLAPS

\* The places of one installation, up to the new skill's move and all of them.
Early == {"copy", "mktemp", "extract", "commit", "mkbackup", "moveaway", "movein"}
Installing == Early \cup {"rollback", "tidy"}

\* Where an installation is, and what has been moved away by then.
PlaceInv ==
  /\ pc \in Installing => refs # <<>>
  /\ pc # "idle" => session # 0
  /\ pc = "idle" => installed = <<>>
  /\ pc \in {"movein", "rollback"} => slot[Name] = NoSkill
  /\ pc = "rollback" => backup # NoSkill
  /\ pc \notin {"movein", "rollback", "tidy"} => backup = NoSkill

\* How many calls have failed; what is left behind is left by a removal that failed, by a
\* crash, or by a rollback that failed after a move that did.
FailedInv ==
  /\ pc \in Early => failed = 0
  /\ pc = "rollback" => failed = 1
  /\ failed <= faults["io"]
  /\ NothingLeftBehind

In(s) == {s[i] : i \in DOMAIN s}

\* What the session's worker still has to remove, with the skill under way.
Fresh == {NoSkill, 0, session}

\* Unless a removal failed or the worker died, what a directory holds is from before or the
\* session's own, and the session's own is on the list of what Cleanup removes.
OwnInv ==
  faults["remove"] = 0 /\ faults["crash"] = 0 =>
    /\ \A n \in Names : slot[n] \in Fresh /\ (slot[n] = session /\ session # 0 => n \in Mine)
    /\ backup \in Fresh
    /\ backup = session /\ session # 0 => pc \in Installing /\ Name \in Mine

IInv == TypeOK /\ PlaceInv /\ FailedInv /\ OwnInv

-----------------------------------------------------------------------------
(* Lists of skills                                                         *)

\* The rest of a list has what the list has, but for its head.
LEMMA Shorter ==
  ASSUME NEW s \in Seq(Names), s # <<>>
  PROVE  /\ Head(s) \in Names /\ Head(s) \in In(s) /\ Tail(s) \in Seq(Names)
         /\ In(Tail(s)) \subseteq In(s) /\ In(s) \ {Head(s)} \subseteq In(Tail(s))
<1>1. Len(s) \in Nat \ {0} /\ DOMAIN s = 1..Len(s) /\ Head(s) = s[1] /\ s[1] \in Names
  OBVIOUS
<1>2. Tail(s) \in Seq(Names) /\ DOMAIN Tail(s) = 1..Len(s)-1 /\ \A i \in 1..Len(s)-1 : Tail(s)[i] = s[i+1]
  BY <1>1
<1> DEFINE t == Tail(s)
<1> HIDE DEF t
<1>3. In(t) \subseteq In(s)
  <2>1. \A i \in 1..Len(s)-1 : i + 1 \in 1..Len(s)
    BY <1>1
  <2> QED
    BY <1>1, <1>2, <2>1 DEF In, t
<1>4. In(s) \ {Head(s)} \subseteq In(t)
  <2>1. \A i \in 1..Len(s) : i # 1 => i - 1 \in 1..Len(s)-1 /\ (i - 1) + 1 = i
    BY <1>1
  <2>2. \A i \in 1..Len(s) : i # 1 => s[i] = t[i-1] /\ i - 1 \in DOMAIN t
    BY <1>2, <2>1 DEF t
  <2> QED
    BY <1>1, <2>2 DEF In
<1> QED
  BY <1>1, <1>2, <1>3, <1>4 DEF In, t

\* A list with one more has it and what it had.
LEMMA Longer ==
  ASSUME NEW s \in Seq(Names), NEW n \in Names
  PROVE  Append(s, n) \in Seq(Names) /\ In(Append(s, n)) = In(s) \cup {n}
<1> DEFINE t == Append(s, n)
<1>1. /\ t \in Seq(Names) /\ Len(s) \in Nat /\ DOMAIN s = 1..Len(s) /\ DOMAIN t = 1..Len(s)+1
      /\ t[Len(s)+1] = n /\ \A i \in 1..Len(s) : t[i] = s[i]
  OBVIOUS
<1> HIDE DEF t
<1>2. In(t) \subseteq In(s) \cup {n}
  BY <1>1 DEF In
<1>3. In(s) \subseteq In(t) /\ n \in In(t)
  <2>1. Len(s)+1 \in DOMAIN t /\ \A i \in DOMAIN s : i \in DOMAIN t
    BY <1>1
  <2> QED
    BY <1>1, <2>1 DEF In
<1> QED
  BY <1>1, <1>2, <1>3 DEF t

\* What is on the lists, and what Cleanup will remove.
LEMMA Listed ==
  ASSUME TypeOK
  PROVE  /\ refs # <<>> => Name \in Names
         /\ Mine = IF pc = "cleanup" THEN In(refs) ELSE In(installed)
BY Shorter DEF TypeOK, Name, Mine, In

-----------------------------------------------------------------------------
(* The types, the places and the failures                                  *)

\* The invariant holds at first.
LEMMA InitIInv == Init => IInv
<1> SUFFICES ASSUME Init PROVE IInv
  OBVIOUS
<1>1. TypeOK
  <2>1. 0 \in Contents /\ {NoSkill, 0} \subseteq Contents \cup {NoSkill, Torn}
    BY BoundsAssumption DEF Contents
  <2>2. slot \in [Names -> Contents \cup {NoSkill, Torn}]
    BY <2>1 DEF Init
  <2>3. faults \in [Kinds -> Nat]
    BY DEF Init
  <2>4. installed \in Seq(Names) /\ refs \in Seq(Names)
    BY DEF Init
  <2>5. flat \in BOOLEAN /\ archive \in BOOLEAN /\ tmp \in BOOLEAN
    BY DEF Init
  <2>6. session \in Contents /\ failed \in 0..2 /\ backup \in Contents \cup {NoSkill, Torn}
    BY <2>1 DEF Init
  <2> QED
    BY <2>2, <2>3, <2>4, <2>5, <2>6 DEF Init, TypeOK
<1>2. PlaceInv /\ FailedInv /\ OwnInv
  BY <1>1, SkillsAssumption DEF Init, TypeOK, PlaceInv, FailedInv, OwnInv, NothingLeftBehind, Fresh, Installing, Early,
     Contents, Kinds
<1> QED
  BY <1>1, <1>2 DEF IInv

\* A fault is counted.
LEMMA FaultCounted ==
  ASSUME TypeOK, NEW k \in Kinds, Fault(k)
  PROVE  /\ faults' \in [Kinds -> Nat]
         /\ faults'[k] = faults[k] + 1 /\ \A j \in Kinds : j # k => faults'[j] = faults[j]
BY DEF TypeOK, Fault

\* Every variable keeps its type; no installation meets more than two failures.
LEMMA NextTypeOK == TypeOK /\ PlaceInv /\ FailedInv /\ [Next]_vars => TypeOK'
<1> SUFFICES ASSUME TypeOK, PlaceInv, FailedInv, [Next]_vars PROVE TypeOK'
  OBVIOUS
<1> USE DEF TypeOK, files
<1>k. "fetch" \in Kinds /\ "io" \in Kinds /\ "remove" \in Kinds /\ "crash" \in Kinds
  BY DEF Kinds
<1>1. CASE UNCHANGED vars
  BY <1>1 DEF vars
<1>2. CASE Begin
  BY <1>2, ListsAssumption, BoundsAssumption DEF Begin, Contents
<1>3. CASE Fetch
  BY <1>3 DEF Fetch
<1>15. CASE Copy \/ MkdirTemp
  <2>1. archive' \in BOOLEAN /\ tmp' \in BOOLEAN
    BY <1>15 DEF Copy, MkdirTemp
  <2> QED
    BY <1>15, <2>1 DEF Copy, MkdirTemp
<1>13. CASE Extract
  BY <1>13 DEF Extract
<1>14. CASE Lstat
  BY <1>14 DEF Lstat
<1>12. CASE SetupEnds \/ SessionEnds \/ CleanupEnds
  BY <1>12 DEF SetupEnds, SessionEnds, CleanupEnds
<1>4. CASE FetchFails \/ CopyFails
  <2>1. refs # <<>>
    BY <1>4 DEF FetchFails, CopyFails, PlaceInv, Installing, Early
  <2>2. refs' \in Seq(Names)
    BY <1>4, <2>1, Shorter DEF FetchFails, CopyFails
  <2>3. faults' \in [Kinds -> Nat]
    BY <1>4, <1>k, FaultCounted DEF FetchFails, CopyFails, CallFails
  <2>4. failed' \in 0..2
    BY <1>4 DEF FetchFails, CopyFails, CallFails, FailedInv, Early
  <2> QED
    BY <1>4, <2>2, <2>3, <2>4 DEF FetchFails, CopyFails
<1>5. CASE StepFails \/ MoveInFails
  <2>1. failed' \in 0..2
    BY <1>5 DEF StepFails, MoveInFails, CallFails, FailedInv, Early
  <2>2. faults' \in [Kinds -> Nat]
    BY <1>5, <1>k, FaultCounted DEF StepFails, MoveInFails, CallFails
  <2> QED
    BY <1>5, <2>1, <2>2 DEF StepFails, MoveInFails, AfterMoveInFails
<1>6. CASE MkBackup
  <2>1. faults' \in [Kinds -> Nat]
    BY <1>6, <1>k, FaultCounted DEF MkBackup
  <2> QED
    BY <1>6, <2>1 DEF MkBackup
<1>7. CASE MoveAway \/ MoveIn \/ Rollback
  <2>1. refs # <<>> /\ Name \in Names
    BY <1>7, Listed DEF MoveAway, MoveIn, Rollback, PlaceInv, Installing, Early
  <2>2. Append(installed, Name) \in Seq(Names)
    BY <2>1, Longer
  <2>3. installed' \in Seq(Names)
    BY <1>7, <2>2 DEF MoveAway, MoveIn, Rollback, Recorded
  <2> QED
    BY <1>7, <2>1, <2>3 DEF MoveAway, MoveIn, Rollback
<1>8. CASE RollbackFails
  <2>1. faults' \in [Kinds -> Nat] /\ failed' \in 0..2
    BY <1>8, <1>k, FaultCounted DEF RollbackFails, CallFails, FailedInv
  <2> QED
    BY <1>8, <2>1 DEF RollbackFails
<1>9. CASE Tidy
  <2>1. faults' \in [Kinds -> Nat]
    BY <1>9, <1>k, FaultCounted DEF Tidy
  <2>2. refs' \in Seq(Names)
    BY <1>9, Shorter DEF Tidy, PlaceInv, Installing
  <2> QED
    BY <1>9, <2>1, <2>2 DEF Tidy, Left, Tidied
<1>10. CASE CleanUpOne
  <2>1. faults' \in [Kinds -> Nat]
    BY <1>10, <1>k, FaultCounted DEF CleanUpOne
  <2>2. refs' \in Seq(Names)
    BY <1>10, Shorter DEF CleanUpOne
  <2> QED
    BY <1>10, <2>1, <2>2, Listed DEF CleanUpOne
<1>11. CASE Crash
  <2>1. faults' \in [Kinds -> Nat]
    BY <1>11, <1>k, FaultCounted DEF Crash
  <2>2. slot' \in [Names -> Contents \cup {NoSkill, Torn}]
    BY <1>11, Listed DEF Crash
  <2>3. litter' \subseteq {"archive", "tmp", "backup"}
    BY <1>11 DEF Crash, Left
  <2>4. archive' \in BOOLEAN /\ tmp' \in BOOLEAN
    BY <1>11 DEF Crash
  <2>5. installed' \in Seq(Names) /\ refs' \in Seq(Names)
    BY <1>11 DEF Crash
  <2> QED
    BY <1>11, <2>1, <2>2, <2>3, <2>4, <2>5 DEF Crash
<1> QED
  BY <1>1, <1>2, <1>3, <1>4, <1>5, <1>6, <1>7, <1>8, <1>9, <1>10, <1>11, <1>12, <1>13, <1>14, <1>15 DEF Next

\* What an installation has moved away is known at every place.
LEMMA NextPlaceInv == TypeOK /\ PlaceInv /\ [Next]_vars => PlaceInv'
<1> SUFFICES ASSUME TypeOK, PlaceInv, [Next]_vars PROVE PlaceInv'
  OBVIOUS
<1> USE DEF PlaceInv, Installing, Early, Name, files
<1>0. session \in Nat
  BY BoundsAssumption DEF TypeOK, Contents
<1>1. CASE UNCHANGED vars
  BY <1>1 DEF vars
<1>2. CASE Begin \/ Fetch \/ FetchFails \/ Copy \/ CopyFails \/ MkdirTemp \/ Extract
  BY <1>2, <1>0 DEF Begin, Fetch, FetchFails, Copy, CopyFails, MkdirTemp, Extract
<1>3. CASE StepFails \/ Lstat \/ MkBackup
  BY <1>3 DEF StepFails, Lstat, MkBackup
<1>4. CASE MoveAway \/ MoveIn \/ Rollback
  <2>1. refs # <<>> /\ Head(refs) \in Names /\ slot \in [Names -> Contents \cup {NoSkill, Torn}]
    BY <1>4, Listed DEF MoveAway, MoveIn, Rollback, TypeOK
  <2> QED
    BY <1>4, <2>1 DEF MoveAway, MoveIn, Rollback
<1>5. CASE MoveInFails \/ RollbackFails
  BY <1>5 DEF MoveInFails, RollbackFails, AfterMoveInFails
<1>6. CASE Tidy \/ SetupEnds \/ SessionEnds \/ CleanUpOne \/ CleanupEnds \/ Crash
  BY <1>6 DEF Tidy, SetupEnds, SessionEnds, CleanUpOne, CleanupEnds, Crash
<1> QED
  BY <1>1, <1>2, <1>3, <1>4, <1>5, <1>6 DEF Next

\* What is left behind is left by a removal, a crash or two failures of one installation.
LEMMA NextFailedInv == TypeOK /\ FailedInv /\ [Next]_vars => FailedInv'
<1> SUFFICES ASSUME TypeOK, FailedInv, [Next]_vars PROVE FailedInv'
  OBVIOUS
<1> USE DEF FailedInv, NothingLeftBehind, Early
<1>0. /\ "fetch" \in Kinds /\ "io" \in Kinds /\ "remove" \in Kinds /\ "crash" \in Kinds
      /\ failed \in Nat /\ faults \in [Kinds -> Nat]
  BY DEF Kinds, TypeOK
<1>1. CASE UNCHANGED vars
  BY <1>1 DEF vars
<1>2. CASE Begin \/ Fetch \/ Copy \/ MkdirTemp \/ Extract
  BY <1>2, <1>0 DEF Begin, Fetch, Copy, MkdirTemp, Extract
<1>3. CASE Lstat \/ MoveAway \/ MoveIn \/ Rollback \/ SetupEnds \/ SessionEnds \/ CleanupEnds
  BY <1>3, <1>0 DEF Lstat, MoveAway, MoveIn, Rollback, SetupEnds, SessionEnds, CleanupEnds
<1>4. CASE FetchFails \/ CopyFails \/ StepFails \/ MoveInFails
  <2>1. /\ faults' \in [Kinds -> Nat]
        /\ faults'["remove"] = faults["remove"] /\ faults'["crash"] = faults["crash"]
        /\ \/ faults'["io"] = faults["io"] + 1 /\ failed' = failed + 1
           \/ faults'["io"] = faults["io"] /\ failed' = failed
    BY <1>4, <1>0 DEF FetchFails, CopyFails, StepFails, MoveInFails, CallFails, Fault
  <2>2. failed' <= faults'["io"] /\ NothingLeftBehind'
    BY <1>4, <2>1, <1>0 DEF FetchFails, CopyFails, StepFails, MoveInFails
  <2>3. pc' \notin Early /\ (pc' = "rollback" => pc = "movein" /\ failed' = failed + 1)
    BY <1>4, <1>0 DEF FetchFails, CopyFails, StepFails, MoveInFails, AfterMoveInFails, CallFails
  <2> QED
    BY <2>2, <2>3, <1>0
<1>5. CASE RollbackFails
  BY <1>5, <1>0 DEF RollbackFails, CallFails, Fault
<1>6. CASE MkBackup
  BY <1>6, <1>0 DEF MkBackup, Fault
<1>7. CASE Tidy
  <2>1. Left \ Tidied = {}
    BY DEF Left, Tidied
  <2> QED
    BY <1>7, <2>1, <1>0 DEF Tidy, Fault
<1>8. CASE CleanUpOne \/ Crash
  BY <1>8, <1>0 DEF CleanUpOne, Crash, Fault
<1> QED
  BY <1>1, <1>2, <1>3, <1>4, <1>5, <1>6, <1>7, <1>8 DEF Next

-----------------------------------------------------------------------------
(* Whose skill a directory holds                                           *)

\* What the directories hold is the session's own or from before, and the session's own is
\* on the list of what Cleanup removes.
LEMMA NextOwnInv == IInv /\ [Next]_vars => OwnInv'
<1> SUFFICES ASSUME IInv, [Next]_vars, faults'["remove"] = 0, faults'["crash"] = 0
             PROVE  /\ \A n \in Names : slot'[n] \in Fresh' /\ (slot'[n] = session' /\ session' # 0 => n \in Mine')
                    /\ backup' \in Fresh'
                    /\ backup' = session' /\ session' # 0 => pc' \in Installing /\ Name' \in Mine'
  BY DEF OwnInv
<1>t. TypeOK /\ PlaceInv /\ TypeOK'
  BY NextTypeOK DEF IInv
<1>0. /\ session \in Nat /\ session \in Contents /\ NoSkill # session /\ NoSkill # 0
      /\ session' \in Nat /\ session' \in Contents /\ NoSkill # session'
      /\ slot \in [Names -> Contents \cup {NoSkill, Torn}]
  <2>1. Contents \subseteq Nat /\ 0 \in Contents /\ NoSkill \notin Contents
    BY SkillsAssumption, BoundsAssumption DEF Contents
  <2>2. session \in Contents /\ session' \in Contents
    BY <1>t DEF TypeOK, Contents
  <2> QED
    BY <1>t, <2>1, <2>2 DEF TypeOK
<1>1. faults["remove"] = 0 /\ faults["crash"] = 0 /\ ~Crash
  <2>1. "remove" \in Kinds /\ "crash" \in Kinds /\ "io" \in Kinds /\ "fetch" \in Kinds
        /\ faults \in [Kinds -> Nat]
    BY <1>t DEF Kinds, TypeOK
  <2>2. \A k \in Kinds : Fault(k) => faults'[k] = faults[k] + 1
    BY <1>t, FaultCounted
  <2>3. \A k \in Kinds : Fault(k) => \A j \in Kinds : j # k => faults'[j] = faults[j]
    BY <1>t, FaultCounted
  <2>4. UNCHANGED faults \/ \E k \in Kinds : Fault(k)
    BY <2>1 DEF Next, vars, Begin, Fetch, FetchFails, Copy, CopyFails, MkdirTemp, Extract,
       StepFails, Lstat, MkBackup, MoveAway, MoveIn, MoveInFails, Rollback, RollbackFails,
       Tidy, SetupEnds, SessionEnds, CleanUpOne, CleanupEnds, Crash, CallFails
  <2>5. ~Crash
    BY <2>1, <2>2 DEF Crash
  <2> QED
    BY <2>1, <2>2, <2>3, <2>4, <2>5
<1>2. /\ \A n \in Names : slot[n] \in Fresh /\ (slot[n] = session /\ session # 0 => n \in Mine)
      /\ backup \in Fresh
      /\ backup = session /\ session # 0 => pc \in Installing /\ Name \in Mine
  BY <1>1 DEF IInv, OwnInv
<1>m. Mine = (IF pc = "cleanup" THEN In(refs) ELSE In(installed))
      /\ Mine' = (IF pc' = "cleanup" THEN In(refs') ELSE In(installed'))
  BY DEF Mine, In
<1>3. CASE /\ UNCHANGED <<slot, backup, session>> /\ Mine' = Mine
           /\ backup = NoSkill \/ (pc' \in Installing /\ refs' = refs)
  BY <1>0, <1>2, <1>3 DEF Fresh, Name
<1>4. CASE UNCHANGED vars
  BY <1>2, <1>4 DEF vars, Fresh, Mine, Name
<1>5. CASE Fetch \/ FetchFails \/ Copy \/ CopyFails \/ MkdirTemp \/ Extract \/ Lstat \/ SetupEnds
  <2>1. UNCHANGED <<slot, backup, session, installed>> /\ pc # "cleanup" /\ pc' # "cleanup"
    BY <1>5 DEF Fetch, FetchFails, Copy, CopyFails, MkdirTemp, Extract, Lstat, SetupEnds, files
  <2>2. backup = NoSkill
    BY <1>5, <1>t DEF PlaceInv, Fetch, FetchFails, Copy, CopyFails, MkdirTemp, Extract, Lstat, SetupEnds
  <2> QED
    BY <1>3, <1>m, <2>1, <2>2
<1>6. CASE StepFails \/ MkBackup \/ MoveInFails
  <2>1. UNCHANGED <<slot, backup, session, installed, refs>> /\ pc # "cleanup" /\ pc' # "cleanup"
        /\ pc' \in Installing
    BY <1>6 DEF StepFails, MkBackup, MoveInFails, AfterMoveInFails, files, Installing, Early
  <2> QED
    BY <1>3, <1>m, <2>1
<1>7. CASE SessionEnds
  <2>1. UNCHANGED <<slot, backup, session>> /\ Mine' = Mine
    BY <1>7, <1>m DEF SessionEnds, files
  <2>2. backup = NoSkill
    BY <1>7, <1>t DEF PlaceInv, SessionEnds
  <2> QED
    BY <1>3, <2>1, <2>2
<1>8. CASE Begin
  <2>1. \A n \in Names : n \notin Mine
    BY <1>8, <1>t, <1>m DEF Begin, PlaceInv, In
  <2>2. \A n \in Names : slot[n] \in {NoSkill, 0}
    BY <1>2, <2>1 DEF Fresh
  <2>3. backup = NoSkill
    BY <1>8, <1>t DEF Begin, PlaceInv
  <2> QED
    BY <1>0, <1>8, <2>2, <2>3 DEF Begin, Fresh, files
<1>9. CASE MoveAway \/ Rollback \/ RollbackFails
  <2>1. /\ Name \in Names /\ refs' = refs /\ session' = session /\ Mine' = Mine /\ pc' \in Installing
        /\ slot' \in {slot, [slot EXCEPT ![Name] = NoSkill], [slot EXCEPT ![Name] = backup]}
        /\ backup' \in {NoSkill, slot[Name]}
        /\ (slot' = [slot EXCEPT ![Name] = backup] => pc \in Installing)
    BY <1>9, <1>t, <1>m, Listed DEF MoveAway, Rollback, RollbackFails, PlaceInv, Installing, Early
  <2> QED
    BY <1>0, <1>2, <2>1 DEF Fresh, Name
<1>10. CASE MoveIn
  <2>1. /\ Name \in Names /\ refs' = refs /\ session' = session /\ backup' = backup /\ pc' \in Installing
        /\ slot' = [slot EXCEPT ![Name] = session] /\ installed' = Append(installed, Name)
        /\ pc # "cleanup" /\ pc' # "cleanup"
    BY <1>10, <1>t, Listed DEF MoveIn, Recorded, PlaceInv, Installing, Early
  <2>2. Mine' = Mine \cup {Name}
    BY <1>m, <1>t, <2>1, Longer DEF TypeOK
  <2> QED
    BY <1>0, <1>2, <2>1, <2>2 DEF Fresh, Name
<1>11. CASE Tidy
  <2>1. UNCHANGED <<slot, session, installed>> /\ backup' = NoSkill /\ pc # "cleanup" /\ pc' # "cleanup"
    BY <1>11 DEF Tidy
  <2>2. Mine' = Mine
    BY <1>m, <2>1
  <2> QED
    BY <1>0, <1>2, <2>1, <2>2 DEF Fresh
<1>12. CASE CleanUpOne
  <2>1. /\ refs # <<>> /\ Name \in Names /\ slot' = [slot EXCEPT ![Name] = NoSkill]
        /\ refs' = Tail(refs) /\ UNCHANGED <<session, backup>> /\ pc = "cleanup" /\ pc' = "cleanup"
    <3>1. ~Fault("remove")
      BY <1>1, <1>t, FaultCounted DEF Kinds, TypeOK
    <3> QED
      BY <1>12, <1>t, <3>1, Listed DEF CleanUpOne, files
  <2>2. Mine \ {Name} \subseteq Mine' /\ backup = NoSkill
    BY <1>m, <1>t, <2>1, Shorter DEF TypeOK, Name, PlaceInv
  <2> QED
    BY <1>0, <1>2, <2>1, <2>2 DEF Fresh
<1>13. CASE CleanupEnds
  <2>1. Mine = {} /\ UNCHANGED <<slot, session, backup>> /\ backup = NoSkill
    BY <1>13, <1>m, <1>t DEF CleanupEnds, In, files, PlaceInv
  <2> QED
    BY <1>0, <1>2, <2>1 DEF Fresh
<1> QED
  BY <1>1, <1>4, <1>5, <1>6, <1>7, <1>8, <1>9, <1>10, <1>11, <1>12, <1>13 DEF Next

\* Every step keeps the invariant.
LEMMA NextIInv == IInv /\ [Next]_vars => IInv'
BY NextTypeOK, NextPlaceInv, NextFailedInv, NextOwnInv DEF IInv

\* The invariant holds in every state of every run.
THEOREM IInvHolds == Spec => []IInv
BY InitIInv, NextIInv, PTL DEF Spec

\* Every variable keeps its type.
THEOREM TypeCorrect == Spec => []TypeOK
<1>1. IInv => TypeOK
  BY DEF IInv
<1> QED
  BY <1>1, IInvHolds, PTL

\* A session meets no skill that an earlier one left, for every list of skills and any
\* number of sessions, unless a directory could not be removed or the worker died.
THEOREM NothingStale == Spec => []NoStaleSkill
<1>1. IInv => NoStaleSkill
  BY DEF IInv, OwnInv, NoStaleSkill, Fresh
<1> QED
  BY <1>1, IInvHolds, PTL

\* A single call that fails leaves no archive, temporary directory or backup behind,
\* wherever it is.
THEOREM NothingLeft == Spec => []NothingLeftBehind
<1>1. IInv => NothingLeftBehind
  BY DEF IInv, FailedInv
<1> QED
  BY <1>1, IInvHolds, PTL

-----------------------------------------------------------------------------
(* The installation is a replacement in one step                           *)

\* At first the directories hold what was there before.
LEMMA InitSlots == Init => Slots!Init
<1> SUFFICES ASSUME Init PROVE Slots!Init
  OBVIOUS
<1>1. Visible = slot /\ Mine = {}
  BY DEF Init, Visible, Mine
<1>2. faults["crash"] = 0
  BY DEF Init, Kinds
<1> QED
  BY <1>1, <1>2 DEF Init, Slots!Init

\* Every step is a step of the directories or leaves them alone.
LEMMA NextSlots == IInv /\ [Next]_vars => [Slots!Next]_(Slots!vars)
<1> SUFFICES ASSUME IInv, [Next]_vars PROVE Slots!Next \/ UNCHANGED Slots!vars
  BY DEF Slots!vars
<1> DEFINE Still == UNCHANGED <<Visible, Mine, faults["crash"]>>
<1>t. TypeOK /\ PlaceInv /\ FailedInv /\ TypeOK' /\ PlaceInv'
  BY NextTypeOK, NextPlaceInv DEF IInv
<1>0. /\ slot \in [Names -> Contents \cup {NoSkill, Torn}] /\ slot' \in [Names -> Contents \cup {NoSkill, Torn}]
      /\ Visible \in [Names -> Contents \cup {NoSkill, Torn}] /\ Visible' \in [Names -> Contents \cup {NoSkill, Torn}]
  BY <1>t DEF TypeOK, Visible, Contents
<1>m. Mine = (IF pc = "cleanup" THEN In(refs) ELSE In(installed))
      /\ Mine' = (IF pc' = "cleanup" THEN In(refs') ELSE In(installed'))
  BY DEF Mine, In
<1>v. backup = NoSkill \/ pc \notin {"movein", "rollback"} => Visible = slot
  BY <1>0 DEF Visible
<1>w. backup' = NoSkill \/ pc' \notin {"movein", "rollback"} => Visible' = slot'
  BY <1>0 DEF Visible
<1>f. \A k \in Kinds : Fault(k) /\ k # "crash" => faults'["crash"] = faults["crash"]
  BY <1>t, FaultCounted DEF Kinds
<1>s. Still => UNCHANGED Slots!vars
  BY DEF Slots!vars
<1>1. CASE UNCHANGED vars
  <2>1. Still
    BY <1>1 DEF vars, Visible, Mine, Name
  <2> QED
    BY <1>s, <2>1
<1>2. CASE Begin \/ Fetch \/ FetchFails \/ Copy \/ CopyFails \/ MkdirTemp \/ Extract \/ Lstat \/ SetupEnds
  <2>1. /\ UNCHANGED <<slot, installed, backup>> /\ backup = NoSkill /\ pc # "cleanup" /\ pc' # "cleanup"
    BY <1>2, <1>t DEF Begin, Fetch, FetchFails, Copy, CopyFails, MkdirTemp, Extract, Lstat, SetupEnds, files, PlaceInv
  <2>2. faults'["crash"] = faults["crash"]
    BY <1>2, <1>f DEF Begin, Fetch, FetchFails, Copy, CopyFails, MkdirTemp, Extract, Lstat, SetupEnds, CallFails, Kinds
  <2>3. Still
    BY <1>m, <1>v, <1>w, <2>1, <2>2
  <2> QED
    BY <1>s, <2>3
<1>3. CASE StepFails \/ MkBackup
  <2>1. /\ UNCHANGED <<slot, installed, backup>> /\ backup = NoSkill /\ pc # "cleanup" /\ pc' # "cleanup"
    BY <1>3, <1>t DEF StepFails, MkBackup, files, PlaceInv
  <2>2. faults'["crash"] = faults["crash"]
    BY <1>3, <1>f DEF StepFails, MkBackup, CallFails, Kinds
  <2>3. Still
    BY <1>m, <1>v, <1>w, <2>1, <2>2
  <2> QED
    BY <1>s, <2>3
<1>4. CASE SessionEnds
  <2>1. Still
    BY <1>4, <1>m, <1>v, <1>w, <1>t DEF SessionEnds, files, PlaceInv
  <2> QED
    BY <1>s, <2>1
<1>5. CASE MoveAway
  <2>1. Visible' = Visible
    BY <1>0, <1>5, <1>t, Listed DEF MoveAway, Visible, Name, PlaceInv, Installing, Early
  <2>2. Still
    BY <1>5, <1>m, <2>1 DEF MoveAway
  <2> QED
    BY <1>s, <2>2
<1>6. CASE MoveIn
  <2>1. Name \in Names /\ session \in Contents \ {0} /\ faults'["crash"] = faults["crash"]
    BY <1>6, <1>t, Listed DEF MoveIn, PlaceInv, Installing, Early, TypeOK
  <2>2. Visible' = [Visible EXCEPT ![Name] = session]
    BY <1>0, <1>6, <1>w, <2>1 DEF MoveIn, Visible
  <2>3. Mine' = Mine \cup {Name}
    BY <1>6, <1>m, <1>t, <2>1, Longer DEF MoveIn, Recorded, TypeOK
  <2>4. Slots!Install(Name)
    BY <2>1, <2>2, <2>3 DEF Slots!Install
  <2> QED
    BY <2>1, <2>4 DEF Slots!Next
<1>7. CASE MoveInFails
  <2>1. UNCHANGED <<slot, installed, backup, refs>> /\ pc = "movein"
        /\ pc' = IF backup = NoSkill THEN "tidy" ELSE "rollback"
    BY <1>7 DEF MoveInFails, AfterMoveInFails, files
  <2>2. Visible' = Visible /\ Mine' = Mine
    BY <1>m, <1>0, <2>1 DEF Visible, Name
  <2>3. faults'["crash"] = faults["crash"]
    BY <1>7, <1>f DEF MoveInFails, CallFails, Kinds
  <2>4. Still
    BY <2>2, <2>3
  <2> QED
    BY <1>s, <2>4
<1>8. CASE Rollback
  <2>1. UNCHANGED <<installed, refs, faults>> /\ pc = "rollback" /\ pc' = "tidy" /\ slot' = [slot EXCEPT ![Name] = backup]
        /\ backup # NoSkill /\ Name \in Names
    BY <1>8, <1>t, Listed DEF Rollback, PlaceInv, Installing
  <2>2. Visible' = Visible /\ Mine' = Mine
    BY <1>m, <1>0, <1>w, <2>1 DEF Visible
  <2>3. Still
    BY <2>1, <2>2
  <2> QED
    BY <1>s, <2>3
<1>9. CASE RollbackFails
  <2>1. UNCHANGED <<slot, installed, refs>> /\ pc = "rollback" /\ pc' = "tidy"
        /\ backup # NoSkill /\ Name \in Names /\ slot[Name] = NoSkill
    BY <1>9, <1>t, Listed DEF RollbackFails, PlaceInv, Installing
  <2>2. Visible' = [Visible EXCEPT ![Name] = NoSkill] /\ Mine' = Mine
    BY <1>m, <1>0, <1>w, <2>1 DEF Visible
  <2>3. faults'["crash"] = faults["crash"] /\ failed' > 1
    BY <1>9, <1>f, <1>t DEF RollbackFails, CallFails, Kinds, FailedInv
  <2>4. Slots!Lose(Name)
    BY <2>2, <2>3 DEF Slots!Lose
  <2> QED
    BY <2>1, <2>4 DEF Slots!Next
<1>10. CASE Tidy
  <2>1. UNCHANGED <<slot, installed>> /\ pc = "tidy" /\ pc' = "next"
    BY <1>10 DEF Tidy
  <2>2. faults'["crash"] = faults["crash"]
    BY <1>10, <1>f DEF Tidy, Kinds
  <2>3. Still
    BY <1>m, <1>v, <1>w, <2>1, <2>2
  <2> QED
    BY <1>s, <2>3
<1>11. CASE CleanUpOne
  <2>1. /\ refs # <<>> /\ Name \in Names /\ slot' \in {slot, [slot EXCEPT ![Name] = NoSkill]}
        /\ refs' = Tail(refs) /\ pc = "cleanup" /\ pc' = "cleanup"
    BY <1>11, <1>t, Listed DEF CleanUpOne
  <2>2. Name \in Mine /\ Mine' \in {Mine, Mine \ {Name}}
    <3>1. /\ Head(refs) \in In(refs) /\ In(Tail(refs)) \subseteq In(refs)
          /\ In(refs) \ {Head(refs)} \subseteq In(Tail(refs))
      BY <1>t, <2>1, Shorter DEF TypeOK
    <3>2. Mine = In(refs) /\ Mine' = In(Tail(refs))
      BY <1>m, <2>1
    <3>3. In(Tail(refs)) \in {In(refs), In(refs) \ {Head(refs)}}
      BY <3>1
    <3> QED
      BY <3>1, <3>2, <3>3 DEF Name
  <2>3. faults'["crash"] = faults["crash"]
    BY <1>11, <1>f DEF CleanUpOne, Kinds
  <2>4. Visible = slot /\ Visible' = slot'
    BY <1>v, <1>w, <2>1
  <2>5. Slots!Remove(Name)
    BY <2>1, <2>2, <2>3, <2>4 DEF Slots!Remove
  <2> QED
    BY <2>1, <2>5 DEF Slots!Next
<1>12. CASE CleanupEnds
  <2>1. Mine = {} /\ Mine' = {}
    BY <1>12, <1>m DEF CleanupEnds, In
  <2>2. Still
    BY <1>12, <1>v, <1>w, <2>1 DEF CleanupEnds, files
  <2> QED
    BY <1>s, <2>2
<1>13. CASE Crash
  <2>1. Mine' = {} /\ Visible' = slot' /\ faults'["crash"] = faults["crash"] + 1
    <3>1. "crash" \in Kinds
      BY DEF Kinds
    <3> QED
      BY <1>13, <1>m, <1>w, <1>t, <3>1, FaultCounted DEF Crash, In
  <2>2. CASE pc \in {"movein", "rollback"} /\ backup # NoSkill
    <3>1. Name \in Names /\ slot' = slot /\ slot[Name] = NoSkill
      BY <1>13, <1>t, <2>2, Listed DEF Crash, PlaceInv, Installing, Early
    <3>2. slot = [Visible EXCEPT ![Name] = NoSkill]
      BY <1>0, <3>1 DEF Visible
    <3> QED
      BY <2>1, <3>1, <3>2 DEF Slots!Next, Slots!Die
  <2>3. CASE UNCHANGED slot /\ ~(pc \in {"movein", "rollback"} /\ backup # NoSkill)
    BY <1>v, <2>1, <2>3 DEF Slots!Next, Slots!Die
  <2>4. CASE pc = "cleanup" /\ refs # <<>> /\ slot' = [slot EXCEPT ![Name] = Torn]
    <3>1. Name \in Mine
      BY <1>m, <1>t, <2>4, Shorter DEF TypeOK, Name
    <3> QED
      BY <1>v, <2>1, <2>4, <3>1 DEF Slots!Next, Slots!Die
  <2> QED
    BY <1>13, <2>2, <2>3, <2>4 DEF Crash
<1> QED
  BY <1>1, <1>2, <1>3, <1>4, <1>5, <1>6, <1>7, <1>8, <1>9, <1>10, <1>11, <1>12, <1>13 DEF Next

\* The installation implements SkillSlots: whatever call fails and whenever the worker dies,
\* a directory has what it had or the whole new skill.
THEOREM Atomic == Spec => InstallsAtomically
<1>1. Init => Slots!Init
  BY InitSlots
<1>2. IInv /\ [Next]_vars => [Slots!Next]_(Slots!vars)
  BY NextSlots
<1> QED
  BY <1>1, <1>2, IInvHolds, PTL DEF Spec, InstallsAtomically, Slots!Spec
=============================================================================

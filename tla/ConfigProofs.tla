---------------------------- MODULE ConfigProofs ----------------------------
(***************************************************************************)
(* Theorems about the configuration.  ConfigFile: the config file survives *)
(* every number of saves, stops, process ids and inodes.  ConfigStore, for *)
(* any set of requests and values and any choice of writers: what a writer *)
(* stored stays, and what runs is what was saved or is flagged as waiting  *)
(* for a restart.                                                          *)
(***************************************************************************)
EXTENDS ConfigFile, ConfigStore, TLAPS

(***************************************************************************)
(* ConfigFile: replacing the file                                          *)
(***************************************************************************)

USE ConfigFileAssumption

\* The target's name is no temp name: what happens to a temp name leaves the
\* target's directory entry alone.
LEMMA TargetIsNoTemp == Target \notin TempNames /\ Target \in Names /\ TempNames \subseteq Names
<1>1. TempNames \subseteq Pids \X Nat
  BY DEF TempNames
<1> QED
  BY <1>1 DEF Names

\* The initial states satisfy the inductive invariant.
LEMMA InitIInv == FileInit => FileInv
<1> SUFFICES ASSUME FileInit PROVE FileInv
  OBVIOUS
<1> USE TargetIsNoTemp
<1>1. /\ dir \in [Names -> Inodes \cup {NoInode}] /\ dir[Target] \in Inodes
      /\ \A n \in TempNames : dir[n] = NoInode
  BY DEF FileInit
<1>2. Doc(0, "whole") \in Docs /\ Nothing \in Docs
  BY DEF Docs, Doc, Nothing
<1>3. /\ page \in [Inodes -> Docs] /\ page[dir[Target]] = Doc(0, "whole")
  BY <1>1, <1>2 DEF FileInit
<1>4. Doc(0, "whole").rev = 0 /\ WholeDoc(Doc(0, "whole"))
  BY DEF Doc, WholeDoc
<1>5. FileTypeOK
  BY <1>1, <1>2, <1>3 DEF FileInit, FileTypeOK, Steps, Holding, Names
<1>6. TempPrivate /\ TargetUntouched
  BY DEF FileInit, TempPrivate, TargetUntouched, Holding
<1>7. TargetSound
  BY <1>3, <1>4 DEF FileInit, TargetSound, Saving, Holding
<1>8. ResultTellsTruth
  BY <1>3 DEF FileInit, ResultTellsTruth
<1>9. TempAccounted
  BY <1>1 DEF TempAccounted
<1> QED
  BY <1>5, <1>6, <1>7, <1>8, <1>9 DEF FileInv

\* Every step of a save, of the file system and of a stop keeps the invariant.
LEMMA NextIInv == FileInv /\ [FileNext]_fileVars => FileInv'
<1> SUFFICES ASSUME FileInv, [FileNext]_fileVars PROVE FileInv'
  OBVIOUS
<1> USE TargetIsNoTemp DEF Holding, SaveAt, WholeDoc
<1>1. CASE Begin
  <2> USE <1>1 DEF Begin, Doc, Docs
  <2>a. seq < MaxSaves /\ seq + 1 \in 0..MaxSaves /\ rev + 1 \in Nat
    BY DEF FileInv, FileTypeOK, TargetSound
  <2>b. temp' \in TempNames
    BY <2>a DEF FileInv, FileTypeOK, TempNames
  <2>c. doc' \in Docs /\ doc'.rev = rev + 1 /\ doc'.state = page[dir[Target]].state
    BY <2>a DEF FileInv, FileTypeOK
  <2>1. FileTypeOK'
    BY <2>a, <2>b, <2>c DEF FileInv, FileTypeOK, TempPrivate, TargetSound, Steps, Saving, Names
  <2>2. TempPrivate'
    BY <2>a, <2>b, <2>c DEF FileInv, FileTypeOK, TempPrivate, TargetSound, Saving
  <2>3. TargetUntouched'
    BY <2>a, <2>b, <2>c DEF FileInv, FileTypeOK, TempPrivate, TargetUntouched, TargetSound
  <2>4. TargetSound'
    <3>1. \A m \in inplace : m <= rev + 1
      BY DEF FileInv, FileTypeOK, TargetSound
    <3>2. ackRev <= rev + 1 /\ seq + 1 <= rev + 1 /\ rev + 1 <= MaxSaves
      BY DEF FileInv, FileTypeOK, TargetSound
    <3> QED
      BY <2>c, <3>1, <3>2 DEF FileInv, FileTypeOK, TargetSound, Saving
  <2>5. ResultTellsTruth'
    BY <2>a, <2>b, <2>c DEF FileInv, FileTypeOK, TempPrivate, TargetUntouched, ResultTellsTruth
  <2>6. TempAccounted'
    BY <2>a, <2>b, <2>c DEF FileInv, FileTypeOK, TempPrivate, TempAccounted
  <2> QED
    BY <2>1, <2>2, <2>3, <2>4, <2>5, <2>6 DEF FileInv
<1>2. CASE CreateTemp
  <2> USE <1>2 DEF CreateTemp, Nothing, Doc, Docs, fileHistory
  <2>1. FileTypeOK'
    BY DEF FileInv, FileTypeOK, TempPrivate, TargetSound, Steps, Saving, Names
  <2>2. TempPrivate'
    BY DEF FileInv, FileTypeOK, TempPrivate, TargetSound, Saving
  <2>3. TargetUntouched'
    BY DEF FileInv, FileTypeOK, TempPrivate, TargetUntouched, TargetSound
  <2>4. TargetSound'
    BY DEF FileInv, FileTypeOK, TempPrivate, TargetSound, Saving
  <2>5. ResultTellsTruth'
    BY DEF FileInv, FileTypeOK, TempPrivate, TargetUntouched, ResultTellsTruth
  <2>6. TempAccounted'
    BY DEF FileInv, FileTypeOK, TempPrivate, TempAccounted
  <2> QED
    BY <2>1, <2>2, <2>3, <2>4, <2>5, <2>6 DEF FileInv
<1>3. CASE TempTaken
  <2> USE <1>3 DEF TempTaken, RemoveTemp, Unlinked, Fail
  <2>1. FileTypeOK'
    BY DEF FileInv, FileTypeOK, TempPrivate, TargetSound, Steps, Saving, Names
  <2>2. TempPrivate'
    BY DEF FileInv, FileTypeOK, TempPrivate, TargetSound, Saving
  <2>3. TargetUntouched'
    BY DEF FileInv, FileTypeOK, TempPrivate, TargetUntouched, TargetSound
  <2>4. TargetSound'
    BY DEF FileInv, FileTypeOK, TempPrivate, TargetSound, Saving
  <2>5. ResultTellsTruth'
    BY DEF FileInv, FileTypeOK, TempPrivate, TargetUntouched, ResultTellsTruth
  <2>6. TempAccounted'
    BY DEF FileInv, FileTypeOK, TempPrivate, TempAccounted
  <2> QED
    BY <2>1, <2>2, <2>3, <2>4, <2>5, <2>6 DEF FileInv
<1>4. CASE OwnerNotKept
  <2> USE <1>4 DEF OwnerNotKept, RemoveTemp, Unlinked
  <2>1. FileTypeOK'
    BY DEF FileInv, FileTypeOK, TempPrivate, TargetSound, Steps, Saving, Names
  <2>2. TempPrivate'
    BY DEF FileInv, FileTypeOK, TempPrivate, TargetSound, Saving
  <2>3. TargetUntouched'
    BY DEF FileInv, FileTypeOK, TempPrivate, TargetUntouched, TargetSound
  <2>4. TargetSound'
    BY DEF FileInv, FileTypeOK, TempPrivate, TargetSound, Saving
  <2>5. ResultTellsTruth'
    BY DEF FileInv, FileTypeOK, TempPrivate, TargetUntouched, ResultTellsTruth
  <2>6. TempAccounted'
    BY DEF FileInv, FileTypeOK, TempPrivate, TempAccounted
  <2> QED
    BY <2>1, <2>2, <2>3, <2>4, <2>5, <2>6 DEF FileInv
<1>5. CASE WriteTemp
  <2> USE <1>5 DEF WriteTemp, fileHistory
  <2>1. FileTypeOK'
    BY DEF FileInv, FileTypeOK, TempPrivate, TargetSound, Steps, Saving, Names
  <2>2. TempPrivate'
    BY DEF FileInv, FileTypeOK, TempPrivate, TargetSound, Saving
  <2>3. TargetUntouched'
    BY DEF FileInv, FileTypeOK, TempPrivate, TargetUntouched, TargetSound
  <2>4. TargetSound'
    BY DEF FileInv, FileTypeOK, TempPrivate, TargetSound, Saving
  <2>5. ResultTellsTruth'
    BY DEF FileInv, FileTypeOK, TempPrivate, TargetUntouched, ResultTellsTruth
  <2>6. TempAccounted'
    BY DEF FileInv, FileTypeOK, TempPrivate, TempAccounted
  <2> QED
    BY <2>1, <2>2, <2>3, <2>4, <2>5, <2>6 DEF FileInv
<1>6. CASE SyncTemp
  <2> USE <1>6 DEF SyncTemp, fileHistory
  <2>1. FileTypeOK'
    BY DEF FileInv, FileTypeOK, TempPrivate, TargetSound, Steps, Saving, Names
  <2>2. TempPrivate'
    BY DEF FileInv, FileTypeOK, TempPrivate, TargetSound, Saving
  <2>3. TargetUntouched'
    BY DEF FileInv, FileTypeOK, TempPrivate, TargetUntouched, TargetSound
  <2>4. TargetSound'
    BY DEF FileInv, FileTypeOK, TempPrivate, TargetSound, Saving
  <2>5. ResultTellsTruth'
    BY DEF FileInv, FileTypeOK, TempPrivate, TargetUntouched, ResultTellsTruth
  <2>6. TempAccounted'
    BY DEF FileInv, FileTypeOK, TempPrivate, TempAccounted
  <2> QED
    BY <2>1, <2>2, <2>3, <2>4, <2>5, <2>6 DEF FileInv
<1>7. CASE Rename
  <2> USE <1>7 DEF Rename, Unlinked, fileHistory
  <2>1. FileTypeOK'
    BY DEF FileInv, FileTypeOK, TempPrivate, TargetSound, Steps, Saving, Names
  <2>2. TempPrivate'
    BY DEF FileInv, FileTypeOK, TempPrivate, TargetSound, Saving
  <2>3. TargetUntouched'
    BY DEF FileInv, FileTypeOK, TempPrivate, TargetUntouched, TargetSound
  <2>4. TargetSound'
    BY DEF FileInv, FileTypeOK, TempPrivate, TargetSound, Saving
  <2>5. ResultTellsTruth'
    BY DEF FileInv, FileTypeOK, TempPrivate, TargetUntouched, ResultTellsTruth
  <2>6. TempAccounted'
    BY DEF FileInv, FileTypeOK, TempPrivate, TempAccounted
  <2> QED
    BY <2>1, <2>2, <2>3, <2>4, <2>5, <2>6 DEF FileInv
<1>8. CASE SyncDir
  <2> USE <1>8 DEF SyncDir
  <2>1. FileTypeOK'
    BY DEF FileInv, FileTypeOK, TempPrivate, TargetSound, Steps, Saving, Names
  <2>2. TempPrivate'
    BY DEF FileInv, FileTypeOK, TempPrivate, TargetSound, Saving
  <2>3. TargetUntouched'
    BY DEF FileInv, FileTypeOK, TempPrivate, TargetUntouched, TargetSound
  <2>4. TargetSound'
    BY DEF FileInv, FileTypeOK, TempPrivate, TargetSound, Saving
  <2>5. ResultTellsTruth'
    BY DEF FileInv, FileTypeOK, TempPrivate, TargetUntouched, ResultTellsTruth
  <2>6. TempAccounted'
    BY DEF FileInv, FileTypeOK, TempPrivate, TempAccounted
  <2> QED
    BY <2>1, <2>2, <2>3, <2>4, <2>5, <2>6 DEF FileInv
<1>9. CASE SyncDirFails
  <2> USE <1>9 DEF SyncDirFails, fileHistory
  <2>1. FileTypeOK'
    BY DEF FileInv, FileTypeOK, TempPrivate, TargetSound, Steps, Saving, Names
  <2>2. TempPrivate'
    BY DEF FileInv, FileTypeOK, TempPrivate, TargetSound, Saving
  <2>3. TargetUntouched'
    BY DEF FileInv, FileTypeOK, TempPrivate, TargetUntouched, TargetSound
  <2>4. TargetSound'
    BY DEF FileInv, FileTypeOK, TempPrivate, TargetSound, Saving
  <2>5. ResultTellsTruth'
    BY DEF FileInv, FileTypeOK, TempPrivate, TargetUntouched, ResultTellsTruth
  <2>6. TempAccounted'
    BY DEF FileInv, FileTypeOK, TempPrivate, TempAccounted
  <2> QED
    BY <2>1, <2>2, <2>3, <2>4, <2>5, <2>6 DEF FileInv
<1>10. CASE Truncate
  <2> USE <1>10 DEF Truncate, Torn, Doc, Docs
  <2>1. FileTypeOK'
    BY DEF FileInv, FileTypeOK, TempPrivate, TargetSound, Steps, Saving, Names
  <2>2. TempPrivate'
    BY DEF FileInv, FileTypeOK, TempPrivate, TargetSound, Saving
  <2>3. TargetUntouched'
    BY DEF FileInv, FileTypeOK, TempPrivate, TargetUntouched, TargetSound
  <2>4. TargetSound'
    BY DEF FileInv, FileTypeOK, TempPrivate, TargetSound, Saving
  <2>5. ResultTellsTruth'
    BY DEF FileInv, FileTypeOK, TempPrivate, TargetUntouched, ResultTellsTruth
  <2>6. TempAccounted'
    BY DEF FileInv, FileTypeOK, TempPrivate, TempAccounted
  <2> QED
    BY <2>1, <2>2, <2>3, <2>4, <2>5, <2>6 DEF FileInv
<1>11. CASE Rewrite
  <2> USE <1>11 DEF Rewrite, fileHistory
  <2>1. FileTypeOK'
    BY DEF FileInv, FileTypeOK, TempPrivate, TargetSound, Steps, Saving, Names
  <2>2. TempPrivate'
    BY DEF FileInv, FileTypeOK, TempPrivate, TargetUntouched, TargetSound, Saving
  <2>3. TargetUntouched'
    BY DEF FileInv, FileTypeOK, TempPrivate, TargetUntouched, TargetSound
  <2>4. TargetSound'
    BY DEF FileInv, FileTypeOK, TempPrivate, TargetUntouched, TargetSound, Saving
  <2>5. ResultTellsTruth'
    BY DEF FileInv, FileTypeOK, TempPrivate, TargetUntouched, ResultTellsTruth
  <2>6. TempAccounted'
    BY DEF FileInv, FileTypeOK, TempPrivate, TempAccounted
  <2> QED
    BY <2>1, <2>2, <2>3, <2>4, <2>5, <2>6 DEF FileInv
<1>12. CASE SyncTarget
  <2> USE <1>12 DEF SyncTarget, Docs
  <2>1. FileTypeOK'
    BY DEF FileInv, FileTypeOK, TempPrivate, TargetSound, Steps, Saving, Names
  <2>2. TempPrivate'
    BY DEF FileInv, FileTypeOK, TempPrivate, TargetSound, Saving
  <2>3. TargetUntouched'
    BY DEF FileInv, FileTypeOK, TempPrivate, TargetUntouched, TargetSound
  <2>4. TargetSound'
    BY DEF FileInv, FileTypeOK, TempPrivate, TargetSound, Saving
  <2>5. ResultTellsTruth'
    BY DEF FileInv, FileTypeOK, TempPrivate, TargetUntouched, ResultTellsTruth
  <2>6. TempAccounted'
    BY DEF FileInv, FileTypeOK, TempPrivate, TempAccounted
  <2> QED
    BY <2>1, <2>2, <2>3, <2>4, <2>5, <2>6 DEF FileInv
<1>13. CASE InPlaceFails
  <2> USE <1>13 DEF InPlaceFails, Fail, fileHistory
  <2>1. FileTypeOK'
    BY DEF FileInv, FileTypeOK, TempPrivate, TargetSound, Steps, Saving, Names
  <2>2. TempPrivate'
    BY DEF FileInv, FileTypeOK, TempPrivate, TargetSound, Saving
  <2>3. TargetUntouched'
    BY DEF FileInv, FileTypeOK, TempPrivate, TargetUntouched, TargetSound
  <2>4. TargetSound'
    BY DEF FileInv, FileTypeOK, TempPrivate, TargetSound, Saving
  <2>5. ResultTellsTruth'
    BY DEF FileInv, FileTypeOK, TempPrivate, TargetUntouched, ResultTellsTruth
  <2>6. TempAccounted'
    BY DEF FileInv, FileTypeOK, TempPrivate, TempAccounted
  <2> QED
    BY <2>1, <2>2, <2>3, <2>4, <2>5, <2>6 DEF FileInv
<1>14. ASSUME NEW kind \in Kinds, TempFails(kind)
      PROVE  FileInv'
  <2> USE <1>14 DEF TempFails, RemoveTemp, Unlinked, AfterError, Fail
  <2>1. FileTypeOK'
    BY DEF FileInv, FileTypeOK, TempPrivate, TargetSound, Steps, Saving, Names
  <2>2. TempPrivate'
    BY DEF FileInv, FileTypeOK, TempPrivate, TargetSound, Saving
  <2>3. TargetUntouched'
    BY DEF FileInv, FileTypeOK, TempPrivate, TargetUntouched, TargetSound
  <2>4. TargetSound'
    BY DEF FileInv, FileTypeOK, TempPrivate, TargetSound, Saving
  <2>5. ResultTellsTruth'
    BY DEF FileInv, FileTypeOK, TempPrivate, TargetUntouched, ResultTellsTruth
  <2>6. TempAccounted'
    BY DEF FileInv, FileTypeOK, TempPrivate, TempAccounted
  <2> QED
    BY <2>1, <2>2, <2>3, <2>4, <2>5, <2>6 DEF FileInv
<1>15. ASSUME NEW kind \in Kinds, RenameFails(kind)
      PROVE  FileInv'
  <2> USE <1>15 DEF RenameFails, RemoveTemp, Unlinked, AfterError, Fail
  <2>1. FileTypeOK'
    BY DEF FileInv, FileTypeOK, TempPrivate, TargetSound, Steps, Saving, Names
  <2>2. TempPrivate'
    BY DEF FileInv, FileTypeOK, TempPrivate, TargetSound, Saving
  <2>3. TargetUntouched'
    BY DEF FileInv, FileTypeOK, TempPrivate, TargetUntouched, TargetSound
  <2>4. TargetSound'
    BY DEF FileInv, FileTypeOK, TempPrivate, TargetSound, Saving
  <2>5. ResultTellsTruth'
    BY DEF FileInv, FileTypeOK, TempPrivate, TargetUntouched, ResultTellsTruth
  <2>6. TempAccounted'
    BY DEF FileInv, FileTypeOK, TempPrivate, TempAccounted
  <2> QED
    BY <2>1, <2>2, <2>3, <2>4, <2>5, <2>6 DEF FileInv
<1>16. ASSUME NEW i \in Inodes, Flush(i)
      PROVE  FileInv'
  <2> USE <1>16 DEF Flush, Torn, Doc, Docs, saveVars, fileHistory
  <2>1. FileTypeOK'
    BY DEF FileInv, FileTypeOK, TempPrivate, TargetSound, Steps, Saving, Names
  <2>2. TempPrivate'
    BY DEF FileInv, FileTypeOK, TempPrivate, TargetSound, Saving
  <2>3. TargetUntouched'
    BY DEF FileInv, FileTypeOK, TempPrivate, TargetUntouched, TargetSound
  <2>4. TargetSound'
    BY DEF FileInv, FileTypeOK, TempPrivate, TargetSound, Saving
  <2>5. ResultTellsTruth'
    BY DEF FileInv, FileTypeOK, TempPrivate, TargetUntouched, ResultTellsTruth
  <2>6. TempAccounted'
    BY DEF FileInv, FileTypeOK, TempPrivate, TempAccounted
  <2> QED
    BY <2>1, <2>2, <2>3, <2>4, <2>5, <2>6 DEF FileInv
<1>17. ASSUME NEW n \in Names, FlushName(n)
      PROVE  FileInv'
  <2> USE <1>17 DEF FlushName, saveVars, fileHistory
  <2>1. FileTypeOK'
    BY DEF FileInv, FileTypeOK, TempPrivate, TargetSound, Steps, Saving, Names
  <2>2. TempPrivate'
    BY DEF FileInv, FileTypeOK, TempPrivate, TargetSound, Saving
  <2>3. TargetUntouched'
    BY DEF FileInv, FileTypeOK, TempPrivate, TargetUntouched, TargetSound
  <2>4. TargetSound'
    BY DEF FileInv, FileTypeOK, TempPrivate, TargetSound, Saving
  <2>5. ResultTellsTruth'
    BY DEF FileInv, FileTypeOK, TempPrivate, TargetUntouched, ResultTellsTruth
  <2>6. TempAccounted'
    BY DEF FileInv, FileTypeOK, TempPrivate, TempAccounted
  <2> QED
    BY <2>1, <2>2, <2>3, <2>4, <2>5, <2>6 DEF FileInv
<1>18. CASE Kill
  <2> USE <1>18 DEF Kill, Stop
  <2>1. FileTypeOK'
    BY DEF FileInv, FileTypeOK, TempPrivate, TargetSound, Steps, Saving, Names
  <2>2. TempPrivate'
    BY DEF FileInv, FileTypeOK, TempPrivate, TargetSound, Saving
  <2>3. TargetUntouched'
    BY DEF FileInv, FileTypeOK, TempPrivate, TargetUntouched, TargetSound
  <2>4. TargetSound'
    BY DEF FileInv, FileTypeOK, TempPrivate, TargetSound, Saving
  <2>5. ResultTellsTruth'
    BY DEF FileInv, FileTypeOK, TempPrivate, TargetUntouched, ResultTellsTruth
  <2>6. TempAccounted'
    BY DEF FileInv, FileTypeOK, TempPrivate, TempAccounted
  <2> QED
    BY <2>1, <2>2, <2>3, <2>4, <2>5, <2>6 DEF FileInv
<1>19. CASE PowerLoss
  <2> USE <1>19 DEF PowerLoss, Stop
  <2>1. FileTypeOK'
    BY DEF FileInv, FileTypeOK, TempPrivate, TargetSound, Steps, Saving, Names
  <2>2. TempPrivate'
    BY DEF FileInv, FileTypeOK, TempPrivate, TargetSound, Saving
  <2>3. TargetUntouched'
    BY DEF FileInv, FileTypeOK, TempPrivate, TargetUntouched, TargetSound
  <2>4. TargetSound'
    BY DEF FileInv, FileTypeOK, TempPrivate, TargetSound, Saving
  <2>5. ResultTellsTruth'
    BY DEF FileInv, FileTypeOK, TempPrivate, TargetUntouched, ResultTellsTruth
  <2>6. TempAccounted'
    BY DEF FileInv, FileTypeOK, TempPrivate, TempAccounted
  <2> QED
    BY <2>1, <2>2, <2>3, <2>4, <2>5, <2>6 DEF FileInv
<1>20. ASSUME NEW p \in Pids, ProcessStarts(p)
      PROVE  FileInv'
  <2> USE <1>20 DEF ProcessStarts, fileHistory
  <2>1. FileTypeOK'
    BY DEF FileInv, FileTypeOK, TempPrivate, TargetSound, Steps, Saving, Names
  <2>2. TempPrivate'
    BY DEF FileInv, FileTypeOK, TempPrivate, TargetSound, Saving
  <2>3. TargetUntouched'
    BY DEF FileInv, FileTypeOK, TempPrivate, TargetUntouched, TargetSound
  <2>4. TargetSound'
    BY DEF FileInv, FileTypeOK, TempPrivate, TargetSound, Saving
  <2>5. ResultTellsTruth'
    BY DEF FileInv, FileTypeOK, TempPrivate, TargetUntouched, ResultTellsTruth
  <2>6. TempAccounted'
    BY DEF FileInv, FileTypeOK, TempPrivate, TempAccounted
  <2> QED
    BY <2>1, <2>2, <2>3, <2>4, <2>5, <2>6 DEF FileInv
<1>21. CASE UNCHANGED fileVars
  BY <1>21 DEF fileVars, saveVars, fileHistory, FileInv, FileTypeOK, TempPrivate,
                TargetUntouched, TargetSound, ResultTellsTruth, TempAccounted
<1> QED
  BY <1>1, <1>2, <1>3, <1>4, <1>5, <1>6, <1>7, <1>8, <1>9, <1>10, <1>11,
     <1>12, <1>13, <1>14, <1>15, <1>16, <1>17, <1>18, <1>19, <1>20, <1>21
  DEF FileNext, SaveSteps, System

\* The inductive invariant holds in every reachable state.
THEOREM Inductive == FileSpec => []FileInv
  BY InitIInv, NextIInv, PTL DEF FileSpec

\* The save procedure and the file system are type correct: in particular the
\* config's name is never missing from the directory, on disk or in memory.
THEOREM TypeCorrect == FileSpec => []FileTypeOK
<1>1. FileInv => FileTypeOK
  BY DEF FileInv
<1> QED
  BY <1>1, Inductive, PTL

\* replace_file: a power loss leaves the old or the new document whole, while no
\* save had to rewrite the file in place.
THEOREM FileSurvives == FileSpec => []NeverTruncated
<1>1. FileInv => NeverTruncated
  BY TargetIsNoTemp DEF FileInv, TargetSound, NeverTruncated, WholeDoc
<1> QED
  BY <1>1, Inductive, PTL

\* replace_file: what a save reported and synced is never undone by a stop.
THEOREM AckedSavesSurvive == FileSpec => []AckedSurvives
<1>1. FileInv => AckedSurvives
  BY TargetIsNoTemp DEF FileInv, FileTypeOK, TargetSound, AckedSurvives
<1> QED
  BY <1>1, Inductive, PTL

\* edit_config_file: Ok means that the new document is in the file, an error that
\* the old one still is, but for a rewrite in place that failed half way.
THEOREM ResultsTruthful == FileSpec => []ResultTellsTruth
<1>1. FileInv => ResultTellsTruth
  BY DEF FileInv
<1> QED
  BY <1>1, Inductive, PTL

\* write_synced_temp, remove_temp: no temp file is left but by a stop or by a removal
\* that failed.
THEOREM TempsAccounted == FileSpec => []TempAccounted
<1>1. FileInv => TempAccounted
  BY DEF FileInv
<1> QED
  BY <1>1, Inductive, PTL

HIDE ConfigFileAssumption

(***************************************************************************)
(* ConfigStore: the inductive invariant                                    *)
(***************************************************************************)

\* The step each request is at, and what it carries from one step to the next.
Updating  == [at : {"apply", "commit"}, req : UpdateRequests, candidate : Config]
Swapping  == [at : {"reload", "swap"}, config : Config]
Importing == [at : {"import"}, changed : BOOLEAN]
Changing  == [at : {"admin"}, val : Values]

OpsTyped ==
    /\ op \in [Requests -> {Idle} \cup Updating \cup Swapping \cup Importing \cup Changing]
    /\ \A r \in Requests :
          op[r].at \in {"apply", "commit"} /\ "pools" \in op[r].req.named =>
              op[r].candidate.pools = op[r].req.val
    /\ \A r \in Requests : op[r].at = "apply" => "pools" \in op[r].req.named

\* The running config lags behind a hand edit, never behind a writer; the file
\* holds both; and what a reload has read is what was stored, but for the
\* sections written by hand or saved since.
StoreAgrees ==
    /\ \A s \in Sections \ crossed : running[s] = acked[s]
    /\ \A s \in Sections \ (edited \cup crossed) : file[s] = acked[s]
    /\ \A r \in Requests : op[r].at \in {"reload", "swap"} =>
          \A s \in Sections \ (edited \cup crossed) : op[r].config[s] = acked[s]

\* The live pools are ahead of the running ones only between the two steps of
\* an update that names them or of a reload.
AppliesPools(r) == op[r].at = "commit" /\ "pools" \in op[r].req.named

PoolsFollow ==
    /\ ~split /\ "pools" \notin crossed =>
          \/ \E r \in Requests : AppliesPools(r) \/ op[r].at = "swap"
          \/ live.pools = running.pools
    /\ \A r \in Requests : AppliesPools(r) => live.pools = op[r].req.val
    /\ \A r \in Requests : op[r].at = "swap" /\ ~split /\ "pools" \notin crossed =>
          live.pools = op[r].config.pools

\* A change that waits for a restart is flagged or has an import to flag it.
FlagFollows ==
    ~unflagged /\ running.settings # booted =>
        flagged \/ \E r \in Requests : op[r].at = "import" /\ op[r].changed

StoreInv == TypeOK /\ OpsTyped /\ StoreAgrees /\ PoolsFollow /\ FlagFollows

(***************************************************************************)
(* It is inductive                                                         *)
(***************************************************************************)

\* StoreInv holds when the process has read its file.
LEMMA StoreInit == Init => StoreInv
<1> SUFFICES ASSUME Init PROVE StoreInv
  OBVIOUS
<1> USE ConfigStoreAssumption
<1>1. PICK v \in Values : file = [s \in Sections |-> v]
  BY DEF Init
<1>2. TypeOK
  BY <1>1 DEF Init, TypeOK, Config, Applied, LiveSections, Sections, Idle
<1>3. OpsTyped
  BY DEF Init, OpsTyped, Idle
<1>4. StoreAgrees /\ FlagFollows
  BY DEF Init, StoreAgrees, FlagFollows, Idle
<1>5. PoolsFollow
  BY DEF Init, PoolsFollow, AppliesPools, Idle, Applied, LiveSections
<1> QED BY <1>2, <1>3, <1>4, <1>5 DEF StoreInv

\* merge_config_update makes a configuration of a configuration: the named
\* sections are the request's and the others as they were.
LEMMA MergeMerges ==
    ASSUME NEW c \in Config, NEW q \in UpdateRequests
    PROVE  /\ Merge(c, q) \in Config
           /\ q.named \subseteq SavedByConfig /\ q.val \in Values
           /\ \A s \in Sections : Merge(c, q)[s] = IF s \in q.named THEN q.val ELSE c[s]
BY DEF Merge, UpdateRequests, Config, Sections, SavedByConfig

\* The steps at which a request holds config_writer.
HoldsWriter == {"apply", "commit", "reload", "swap"}

\* Two requests are never both inside, and none is while the lock is free.
LEMMA OneWriter ==
    ASSUME TypeOK
    PROVE  /\ \A r, x \in Requests : op[r].at \in HoldsWriter /\ op[x].at \in HoldsWriter => r = x
           /\ writer = NoRequest => \A x \in Requests : op[x].at \notin HoldsWriter
           /\ writer = NoRequest => ~Reloading
           /\ \A r \in Requests : op[r].at \in {"apply", "commit"} => ~Reloading
BY ConfigStoreAssumption DEF TypeOK, HoldsWriter, Reloading

\* No step of update_config breaks StoreInv.
LEMMA UpdateKeepsInv ==
    ASSUME StoreInv, NEW r \in Requests, Update(r)
    PROVE  StoreInv'
<1> USE ConfigStoreAssumption, OneWriter DEF StoreInv, TypeOK, OpsTyped, StoreAgrees,
        PoolsFollow, FlagFollows, AppliesPools, HoldsWriter, Goto, Starts, At, Idle, history, Updating,
        Swapping, Importing, Changing, Config, LiveSections, Sections
<1>1. CASE \E q \in UpdateRequests : UpdateStart(r, q)
  <2>1. TypeOK'
    BY <1>1, MergeMerges DEF UpdateStart, Merge, UpdateRequests
  <2>2. OpsTyped'
    BY <1>1, MergeMerges DEF UpdateStart, Merge, UpdateRequests
  <2>3. StoreAgrees'
    BY <1>1, MergeMerges DEF UpdateStart, Merge, UpdateRequests
  <2>4. PoolsFollow'
    BY <1>1, MergeMerges DEF UpdateStart, Merge, UpdateRequests
  <2>5. FlagFollows'
    BY <1>1, MergeMerges DEF UpdateStart, Merge, UpdateRequests
  <2> QED BY <2>1, <2>2, <2>3, <2>4, <2>5
<1>2. CASE UpdateApply(r)
  <2>1. TypeOK'
    BY <1>2 DEF UpdateApply
  <2>2. OpsTyped'
    BY <1>2 DEF UpdateApply
  <2>3. StoreAgrees'
    BY <1>2 DEF UpdateApply
  <2>4. PoolsFollow'
    BY <1>2 DEF UpdateApply
  <2>5. FlagFollows'
    BY <1>2 DEF UpdateApply
  <2> QED BY <2>1, <2>2, <2>3, <2>4, <2>5
<1>3. CASE UpdateApplyFails(r)
  <2>1. TypeOK'
    BY <1>3 DEF UpdateApplyFails, Finish
  <2>2. OpsTyped'
    BY <1>3 DEF UpdateApplyFails, Finish
  <2>3. StoreAgrees'
    BY <1>3 DEF UpdateApplyFails, Finish
  <2>4. PoolsFollow'
    BY <1>3 DEF UpdateApplyFails, Finish
  <2>5. FlagFollows'
    BY <1>3 DEF UpdateApplyFails, Finish
  <2> QED BY <2>1, <2>2, <2>3, <2>4, <2>5
<1>4. CASE UpdateCommit(r)
  <2>n. running'.settings # running.settings => flagged'
    BY <1>4, MergeMerges DEF UpdateCommit, Commit
  <2>f. flagged => flagged'
    BY <1>4 DEF UpdateCommit
  <2>i. \A x \in Requests : op[x].at = "import" => op'[x] = op[x]
    BY <1>4 DEF UpdateCommit, Finish
  <2>1. TypeOK'
    BY <1>4, MergeMerges DEF UpdateCommit, Finish, Commit, Save, SavedByConfig,
        SavedByRecords
  <2>2. OpsTyped'
    BY <1>4, MergeMerges DEF UpdateCommit, Finish, Commit, Save, SavedByConfig,
        SavedByRecords
  <2>3. StoreAgrees'
    BY <1>4, MergeMerges, SMTT(30) DEF UpdateCommit, Finish, Commit, Save, SavedByConfig,
        SavedByRecords
  <2>4. PoolsFollow'
    BY <1>4, MergeMerges DEF UpdateCommit, Finish, Commit, Save, SavedByConfig,
        SavedByRecords
  <2>5. FlagFollows'
    BY <2>n, <2>f, <2>i, <1>4 DEF UpdateCommit
  <2> QED BY <2>1, <2>2, <2>3, <2>4, <2>5
<1>5. CASE UpdateCommitFails(r)
  <2>n. ~split' => ~split /\ live.pools = running.pools
    BY <1>5 DEF UpdateCommitFails
  <2>1. TypeOK'
    BY <1>5, <2>n DEF UpdateCommitFails, Finish
  <2>2. OpsTyped'
    BY <1>5, <2>n DEF UpdateCommitFails, Finish
  <2>3. StoreAgrees'
    BY <1>5, <2>n DEF UpdateCommitFails, Finish
  <2>4. PoolsFollow'
    BY <1>5, <2>n DEF UpdateCommitFails, Finish
  <2>5. FlagFollows'
    BY <1>5, <2>n, SMTT(30) DEF UpdateCommitFails, Finish
  <2> QED BY <2>1, <2>2, <2>3, <2>4, <2>5
<1> QED BY <1>1, <1>2, <1>3, <1>4, <1>5 DEF Update

\* No step of update_settings, the backup import or reload_config does.
LEMMA WholeKeepsInv ==
    ASSUME StoreInv, NEW r \in Requests, Whole(r)
    PROVE  StoreInv'
<1> USE ConfigStoreAssumption, OneWriter DEF StoreInv, TypeOK, OpsTyped, StoreAgrees,
        PoolsFollow, FlagFollows, AppliesPools, HoldsWriter, Goto, Starts, At, Idle, history, Updating,
        Swapping, Importing, Changing, Config, LiveSections, Sections
<1>1. CASE \E v \in Values : UpdateSettings(r, v)
  <2>n. running'.settings # running.settings => flagged'
    BY <1>1 DEF UpdateSettings, Commit
  <2>f. flagged => flagged'
    BY <1>1 DEF UpdateSettings
  <2>1. TypeOK'
    BY <1>1 DEF UpdateSettings, Commit, Save, SavedByConfig, SavedByRecords
  <2>2. OpsTyped'
    BY <1>1 DEF UpdateSettings, Commit, Save, SavedByConfig, SavedByRecords
  <2>3. StoreAgrees'
    BY <1>1 DEF UpdateSettings, Commit, Save, SavedByConfig, SavedByRecords
  <2>4. PoolsFollow'
    BY <1>1 DEF UpdateSettings, Commit, Save, SavedByConfig, SavedByRecords
  <2>5. FlagFollows'
    BY <1>1, <2>n, <2>f DEF UpdateSettings
  <2> QED BY <2>1, <2>2, <2>3, <2>4, <2>5
<1>2. CASE \E q \in UpdateRequests : Import(r, q)
  <2>n. ~split' => ~split /\ live'.pools = running'.pools
    BY <1>2 DEF Import, Commit
  <2>c. op'[r].at = "import" /\ (running' # running => op'[r].changed)
    <3>1. PICK q \in UpdateRequests : Import(r, q)
      BY <1>2
    <3>2. op'[r] = [at |-> "import", changed |-> running' # running]
      BY <3>1 DEF Import, Commit
    <3>3. op'[r].at = "import"
      BY <3>2
    <3> DEFINE b == running' # running
    <3>5. op'[r] = [at |-> "import", changed |-> b] /\ b \in BOOLEAN
      BY <3>2
    <3> HIDE DEF b
    <3>6. op'[r].changed = b
      BY <3>5
    <3>7. b => op'[r].changed
      BY <3>5, <3>6
    <3>8. (running' # running) => b
      BY DEF b
    <3> QED BY <3>3, <3>7, <3>8
  <2>i. \A x \in Requests : op[x].at # "idle" => op'[x] = op[x]
    BY <1>2 DEF Import
  <2>p. \A x \in Requests : op'[x].at \notin HoldsWriter
    BY <1>2, <2>c DEF Import
  <2>1. TypeOK'
    BY <1>2, MergeMerges DEF Import, Commit, Save, SavedByConfig, SavedByRecords
  <2>2. OpsTyped'
    BY <1>2, MergeMerges DEF Import, Commit, Save, SavedByConfig, SavedByRecords
  <2>3. StoreAgrees'
    BY <1>2, MergeMerges DEF Import, Commit, Save, SavedByConfig, SavedByRecords
  <2>4. PoolsFollow'
    BY <2>n, <2>p
  <2>5. FlagFollows'
    BY <1>2, <2>c, <2>i DEF Import
  <2> QED BY <2>1, <2>2, <2>3, <2>4, <2>5
<1>3. CASE ImportDone(r)
  <2>1. TypeOK'
    BY <1>3 DEF ImportDone
  <2>2. OpsTyped'
    BY <1>3 DEF ImportDone
  <2>3. StoreAgrees'
    BY <1>3 DEF ImportDone
  <2>4. PoolsFollow'
    BY <1>3 DEF ImportDone
  <2>5. FlagFollows'
    BY <1>3 DEF ImportDone
  <2> QED BY <2>1, <2>2, <2>3, <2>4, <2>5
<1>4. CASE ImportDropped(r)
  <2>1. TypeOK'
    BY <1>4 DEF ImportDropped
  <2>2. OpsTyped'
    BY <1>4 DEF ImportDropped
  <2>3. StoreAgrees'
    BY <1>4 DEF ImportDropped
  <2>4. PoolsFollow'
    BY <1>4 DEF ImportDropped
  <2>5. FlagFollows'
    BY <1>4 DEF ImportDropped
  <2> QED BY <2>1, <2>2, <2>3, <2>4, <2>5
<1>5. CASE ReloadLoad(r)
  <2>1. TypeOK'
    BY <1>5 DEF ReloadLoad
  <2>2. OpsTyped'
    BY <1>5 DEF ReloadLoad
  <2>3. StoreAgrees'
    BY <1>5 DEF ReloadLoad
  <2>4. PoolsFollow'
    BY <1>5 DEF ReloadLoad
  <2>5. FlagFollows'
    BY <1>5 DEF ReloadLoad
  <2> QED BY <2>1, <2>2, <2>3, <2>4, <2>5
<1>6. CASE ReloadPools(r)
  <2>1. TypeOK'
    BY <1>6 DEF ReloadPools
  <2>2. OpsTyped'
    BY <1>6 DEF ReloadPools
  <2>3. StoreAgrees'
    BY <1>6 DEF ReloadPools
  <2>4. PoolsFollow'
    BY <1>6 DEF ReloadPools
  <2>5. FlagFollows'
    BY <1>6 DEF ReloadPools
  <2> QED BY <2>1, <2>2, <2>3, <2>4, <2>5
<1>7. CASE ReloadFails(r)
  <2>1. TypeOK'
    BY <1>7 DEF ReloadFails, Finish
  <2>2. OpsTyped'
    BY <1>7 DEF ReloadFails, Finish
  <2>3. StoreAgrees'
    BY <1>7 DEF ReloadFails, Finish
  <2>4. PoolsFollow'
    BY <1>7 DEF ReloadFails, Finish
  <2>5. FlagFollows'
    BY <1>7 DEF ReloadFails, Finish
  <2> QED BY <2>1, <2>2, <2>3, <2>4, <2>5
<1>8. CASE ReloadSwap(r)
  <2>n. ~unflagged' => ~unflagged /\ running'.settings = running.settings
    BY <1>8 DEF ReloadSwap
  <2>i. \A x \in Requests : op[x].at = "import" => op'[x] = op[x]
    BY <1>8 DEF ReloadSwap, Finish
  <2>1. TypeOK'
    BY <1>8 DEF ReloadSwap, Finish
  <2>2. OpsTyped'
    BY <1>8 DEF ReloadSwap, Finish
  <2>3. StoreAgrees'
    BY <1>8 DEF ReloadSwap, Finish
  <2>4. PoolsFollow'
    BY <1>8 DEF ReloadSwap, Finish
  <2>5. FlagFollows'
    BY <1>8, <2>n, <2>i DEF ReloadSwap
  <2> QED BY <2>1, <2>2, <2>3, <2>4, <2>5
<1> QED BY <1>1, <1>2, <1>3, <1>4, <1>5, <1>6, <1>7, <1>8 DEF Whole

\* Nor do the writers that do not take config_writer: the local-record use
\* cases and the admin's password change.
LEMMA UnserialisedKeepsInv ==
    ASSUME StoreInv, NEW r \in Requests, Unserialised(r)
    PROVE  StoreInv'
<1> USE ConfigStoreAssumption, OneWriter DEF StoreInv, TypeOK, OpsTyped, StoreAgrees,
        PoolsFollow, FlagFollows, AppliesPools, HoldsWriter, Goto, Starts, At, Idle, history, Updating,
        Swapping, Importing, Changing, Config, LiveSections, Sections
<1>1. CASE \E v \in Values : LocalEdit(r, v)
  <2>1. TypeOK'
    BY <1>1 DEF LocalEdit, Commit, Save, SavedByConfig, SavedByRecords, Reloading
  <2>2. OpsTyped'
    BY <1>1 DEF LocalEdit, Commit, Save, SavedByConfig, SavedByRecords, Reloading
  <2>3. StoreAgrees'
    BY <1>1 DEF LocalEdit, Commit, Save, SavedByConfig, SavedByRecords, Reloading
  <2>4. PoolsFollow'
    BY <1>1 DEF LocalEdit, Commit, Save, SavedByConfig, SavedByRecords, Reloading
  <2>5. FlagFollows'
    BY <1>1 DEF LocalEdit, Commit, Save, SavedByConfig, SavedByRecords, Reloading
  <2> QED BY <2>1, <2>2, <2>3, <2>4, <2>5
<1>2. CASE \E v \in Values : PasswordSave(r, v)
  <2>1. TypeOK'
    BY <1>2 DEF PasswordSave, Commit, Save, SavedByConfig, SavedByRecords, Reloading
  <2>2. OpsTyped'
    BY <1>2 DEF PasswordSave, Commit, Save, SavedByConfig, SavedByRecords, Reloading
  <2>3. StoreAgrees'
    BY <1>2 DEF PasswordSave, Commit, Save, SavedByConfig, SavedByRecords, Reloading
  <2>4. PoolsFollow'
    BY <1>2 DEF PasswordSave, Commit, Save, SavedByConfig, SavedByRecords, Reloading
  <2>5. FlagFollows'
    BY <1>2 DEF PasswordSave, Commit, Save, SavedByConfig, SavedByRecords, Reloading
  <2> QED BY <2>1, <2>2, <2>3, <2>4, <2>5
<1>3. CASE PasswordLive(r)
  <2>1. TypeOK'
    BY <1>3 DEF PasswordLive
  <2>2. OpsTyped'
    BY <1>3 DEF PasswordLive
  <2>3. StoreAgrees'
    BY <1>3 DEF PasswordLive
  <2>4. PoolsFollow'
    BY <1>3 DEF PasswordLive
  <2>5. FlagFollows'
    BY <1>3 DEF PasswordLive
  <2> QED BY <2>1, <2>2, <2>3, <2>4, <2>5
<1> QED BY <1>1, <1>2, <1>3 DEF Unserialised

\* Nor do an edit of the file by hand and a restart from it.
LEMMA OperatorKeepsInv ==
    ASSUME StoreInv, Restart \/ \E ss \in HandEdits, v \in Values : HandEdit(ss, v)
    PROVE  StoreInv'
<1> USE ConfigStoreAssumption, OneWriter DEF StoreInv, TypeOK, OpsTyped, StoreAgrees,
        PoolsFollow, FlagFollows, AppliesPools, HoldsWriter, Goto, Starts, At, Idle, history, Updating,
        Swapping, Importing, Changing, Config, LiveSections, Sections
<1>1. CASE \E ss \in HandEdits, v \in Values : HandEdit(ss, v)
  <2>1. TypeOK'
    BY <1>1 DEF HandEdit
  <2>2. OpsTyped'
    BY <1>1 DEF HandEdit
  <2>3. StoreAgrees'
    BY <1>1 DEF HandEdit
  <2>4. PoolsFollow'
    BY <1>1 DEF HandEdit
  <2>5. FlagFollows'
    BY <1>1 DEF HandEdit
  <2> QED BY <2>1, <2>2, <2>3, <2>4, <2>5
<1>2. CASE Restart
  <2>1. TypeOK'
    BY <1>2 DEF Restart, Applied
  <2>2. OpsTyped'
    BY <1>2 DEF Restart, Applied
  <2>3. StoreAgrees'
    BY <1>2 DEF Restart, Applied
  <2>4. PoolsFollow'
    BY <1>2 DEF Restart, Applied
  <2>5. FlagFollows'
    BY <1>2 DEF Restart, Applied
  <2> QED BY <2>1, <2>2, <2>3, <2>4, <2>5
<1> QED BY <1>1, <1>2

(***************************************************************************)
(* Theorems                                                                *)
(***************************************************************************)

\* StoreInv is an invariant of every interleaving of the writers, failed saves,
\* hand edits and restarts.
THEOREM StoreInvariant == Spec => []StoreInv
<1>1. StoreInv /\ [Next]_vars => StoreInv'
  <2> SUFFICES ASSUME StoreInv, [Next]_vars PROVE StoreInv'
    OBVIOUS
  <2>1. CASE \E r \in Requests : Update(r) \/ Whole(r) \/ Unserialised(r)
    BY <2>1, UpdateKeepsInv, WholeKeepsInv, UnserialisedKeepsInv
  <2>2. CASE Restart \/ \E ss \in HandEdits, v \in Values : HandEdit(ss, v)
    BY <2>2, OperatorKeepsInv
  <2>3. CASE UNCHANGED vars
    BY <2>3 DEF vars, StoreInv, TypeOK, OpsTyped, StoreAgrees, PoolsFollow, FlagFollows,
        AppliesPools
  <2> QED BY <2>1, <2>2, <2>3 DEF Next
<1> QED BY <1>1, StoreInit, PTL DEF Spec

\* Whatever a writer stored stays in the running config and in the file until
\* another writes the section, but for a section edited by hand since or saved
\* while a reload had read the file (save_config_update merges again under the
\* lock, reload_config and the import hold config_writer).
THEOREM StoredStaysStored == Spec => []StoredStays
<1>1. StoreInv => StoredStays
  BY DEF StoreInv, StoreAgrees, StoredStays
<1> QED BY <1>1, StoreInvariant, PTL

\* Once no writer is at work the live pools are the running and the saved ones,
\* and settings that wait for a restart are flagged (AppState::restart_pending),
\* but for the cases PoolsInStep and RestartFlagged name.
THEOREM LiveStaysInStep == Spec => []LiveInStep
<1>1. StoreInv => LiveInStep
  <2> SUFFICES ASSUME StoreInv PROVE LiveInStep
    OBVIOUS
  <2>1. PoolsInStep
    BY DEF StoreInv, StoreAgrees, PoolsFollow, AppliesPools, PoolsInStep, Quiet, Idle,
        Sections
  <2>2. RestartFlagged
    BY DEF StoreInv, FlagFollows, RestartFlagged, Quiet, Idle
  <2> QED BY <2>1, <2>2 DEF LiveInStep, StoreInv
<1> QED BY <1>1, StoreInvariant, PTL

\* A crash loses no ackRev write: the config the process would start with
\* says what was last stored, section by section, but for hand edits and what
\* crossed a reload.
THEOREM RestartLosesNothing ==
    Spec => [][Restart => \A s \in Sections \ (edited \cup crossed) :
                              running'[s] = running[s]]_vars
<1>1. StoreInv /\ [Next]_vars =>
        [Restart => \A s \in Sections \ (edited \cup crossed) : running'[s] = running[s]]_vars
  BY DEF StoreInv, StoreAgrees, Restart
<1> QED BY <1>1, StoreInvariant, PTL DEF Spec

=============================================================================

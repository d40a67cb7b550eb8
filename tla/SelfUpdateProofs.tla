-------------------------- MODULE SelfUpdateProofs --------------------------
(* The self-update implements Install, for any set of releases.            *)
EXTENDS SelfUpdate, TLAPS

\* Which file is whole at each step of Run. A run that cannot write the
\* directory moves nothing, and then cannot open the running program either.
FilesAt ==
  /\ pc \in {"download", "verify", "drain", "rename"} => self \in Versions
  /\ pc \in {"open", "restore"} =>
       IF writable THEN self \in {Partial, None} /\ bak \in Versions ELSE self \in Versions
  /\ pc = "copy" => writable /\ self = Partial /\ bak \in Versions
  /\ pc \in {"remove", "uncordon"} => self \in Versions \cup {Junk}

\* A file that is being written is not on the disk; one that is not there needs
\* no writing.
SoftAt ==
  /\ pc = "copy" => "self" \in soft
  /\ "self" \in soft => self # None
  /\ "bak" \in soft => bak # None

\* What Run is to install.
WantedAt ==
  /\ pc = "rest" => target = None
  /\ pc # "rest" => target \in Versions
  /\ pc \in {"verify", "drain", "rename", "open", "copy", "restore", "remove", "uncordon"} =>
       tmp \in {target, Junk}

UpdateInv == UpdateTypeOK /\ FilesAt /\ SoftAt /\ WantedAt

LEMMA UpdateInvInit == UpdateInit => UpdateInv
  BY SelfUpdateAssumption DEF UpdateInit, UpdateInv, UpdateTypeOK, FilesAt, SoftAt, WantedAt, Whole, Steps

\* Each step hands the next one the file it needs.
LEMMA UpdateInvStep == UpdateInv /\ [UpdateNext]_updateVars => UpdateInv'
<1> SUFFICES ASSUME UpdateInv, [UpdateNext]_updateVars PROVE UpdateInv'
  OBVIOUS
<1> USE SelfUpdateAssumption DEF UpdateInv, UpdateTypeOK, FilesAt, SoftAt, WantedAt, Whole, Steps
<1>1. ASSUME NEW v \in Versions, Run(v) PROVE UpdateInv'
  BY <1>1 DEF Run
<1>2. CASE Download
  BY <1>2 DEF Download
<1>3. CASE VerifyChecksum
  BY <1>3 DEF VerifyChecksum
<1>4. CASE Refuse
  BY <1>4 DEF Refuse, Return
<1>5. CASE Drain
  BY <1>5 DEF Drain
<1>6. CASE RenameAway
  BY <1>6 DEF RenameAway
<1>7. CASE OpenFile
  BY <1>7 DEF OpenFile
<1>8. CASE Copied
  BY <1>8 DEF Copied
<1>9. CASE CopyFails
  BY <1>9 DEF CopyFails
<1>10. CASE Restore
  BY <1>10 DEF Restore, Return
<1>11. CASE RemoveBackup
  BY <1>11 DEF RemoveBackup
<1>12. CASE Uncordon
  BY <1>12 DEF Uncordon, Return
<1>13. CASE Crash
  BY <1>13 DEF Crash, Stopped, Return
<1>14. CASE Flush
  BY <1>14 DEF Flush
<1>15. CASE PowerLoss
  BY <1>15 DEF PowerLoss, Stopped, Return
<1>16. CASE UNCHANGED updateVars
  BY <1>16 DEF updateVars
<1> QED
  BY <1>1, <1>2, <1>3, <1>4, <1>5, <1>6, <1>7, <1>8, <1>9, <1>10, <1>11, <1>12, <1>13, <1>14,
     <1>15, <1>16
     DEF UpdateNext

\* The files and the program counter stay well-typed.
THEOREM UpdateTypeCorrect == UpdateSpec => []UpdateTypeOK
<1>1. UpdateInv => UpdateTypeOK
  BY DEF UpdateInv
<1> QED
  BY <1>1, UpdateInvInit, UpdateInvStep, PTL DEF UpdateSpec

\* Wherever Run is killed or fails, a whole program is kept, and it is replaced
\* in one step: by the copy that is complete. A loss of power can only cost one
\* that the kernel had not yet written to the disk.
THEOREM UpdateIsAtomic == UpdateSpec => InstallIsAtomic
<1>1. UpdateInit => Promise!Init
  BY SelfUpdateAssumption DEF UpdateInit, Whole, Promise!Init
<1>2. UpdateInv /\ [UpdateNext]_updateVars => [Promise!Next]_(Promise!installVars)
  <2> SUFFICES ASSUME UpdateInv, [UpdateNext]_updateVars
               PROVE  Promise!Next \/ UNCHANGED Promise!installVars
    OBVIOUS
  <2> USE SelfUpdateAssumption
      DEF UpdateInv, UpdateTypeOK, FilesAt, SoftAt, WantedAt, Whole, Steps, Promise!installVars
  <2>1. ASSUME NEW v \in Versions, Run(v) PROVE Promise!Ask
    BY <2>1 DEF Run, Promise!Ask
  <2>2. CASE Download
    BY <2>2 DEF Download
  <2>3. CASE VerifyChecksum
    BY <2>3 DEF VerifyChecksum
  <2>4. ASSUME Refuse PROVE Promise!GiveUp
    BY <2>4 DEF Refuse, Return, Promise!GiveUp
  <2>5. CASE Drain
    BY <2>5 DEF Drain
  <2>6. CASE RenameAway
    BY <2>6 DEF RenameAway
  <2>7. CASE OpenFile
    BY <2>7 DEF OpenFile
  <2>8. ASSUME Copied PROVE Promise!Swap
    BY <2>8 DEF Copied, Promise!Swap
  <2>9. CASE CopyFails
    BY <2>9 DEF CopyFails
  <2>10. ASSUME Restore PROVE Promise!GiveUp
    BY <2>10 DEF Restore, Return, Promise!GiveUp
  <2>11. CASE RemoveBackup
    BY <2>11 DEF RemoveBackup
  <2>12. CASE Uncordon
    BY <2>12 DEF Uncordon, Return
  <2>13. CASE Crash
    BY <2>13 DEF Crash, Stopped, Return, Promise!Next, Promise!GiveUp
  <2>14. CASE Flush
    BY <2>14 DEF Flush, Promise!Next, Promise!Settle
  <2>15. CASE PowerLoss
    BY <2>15 DEF PowerLoss, Stopped, Return, Promise!Next, Promise!GiveUp, Promise!Lose
  <2>16. CASE UNCHANGED updateVars
    BY <2>16 DEF updateVars
  <2> QED
    BY <2>1, <2>2, <2>3, <2>4, <2>5, <2>6, <2>7, <2>8, <2>9, <2>10, <2>11, <2>12, <2>13, <2>14,
       <2>15, <2>16
       DEF UpdateNext, Promise!Next
<1> QED
  BY <1>1, <1>2, UpdateInvInit, UpdateInvStep, PTL DEF UpdateSpec, InstallIsAtomic, Promise!Spec


\* Until Drain an update cannot have cordoned the node: a cordon that is there
\* was left by one before it.
CordonInv == UpdateTypeOK /\ (pc \in {"rest", "download", "verify"} /\ cordoned => left)

LEMMA CordonInvStep == CordonInv /\ UpdateTypeOK' /\ [UpdateNext]_updateVars => CordonInv'
<1> SUFFICES ASSUME CordonInv, UpdateTypeOK', [UpdateNext]_updateVars PROVE CordonInv'
  OBVIOUS
<1> USE DEF CordonInv, UpdateTypeOK
<1>1. CASE (\E v \in Versions : Run(v)) \/ Download \/ VerifyChecksum \/ Refuse
  BY <1>1 DEF Run, Download, VerifyChecksum, Refuse, Return
<1>2. CASE Drain \/ RenameAway \/ OpenFile \/ Copied \/ CopyFails \/ RemoveBackup
  BY <1>2 DEF Drain, RenameAway, OpenFile, Copied, CopyFails, RemoveBackup
<1>3. ASSUME left' = cordoned' PROVE CordonInv'
  BY <1>3
<1>4. CASE Restore
  BY <1>3, <1>4 DEF Restore
<1>5. CASE Uncordon
  BY <1>3, <1>5 DEF Uncordon
<1>6. CASE Crash \/ PowerLoss
  BY <1>3, <1>6 DEF Crash, PowerLoss, Stopped, Return
<1>7. CASE Flush
  BY <1>7 DEF Flush
<1>8. CASE UNCHANGED updateVars
  BY <1>8 DEF updateVars
<1> QED BY <1>1, <1>2, <1>4, <1>5, <1>6, <1>7, <1>8 DEF UpdateNext

\* A node that is cordoned while no update runs was left so by an update that
\* had verified its download: a refused download never drains the node.
THEOREM CordonHasCause == UpdateSpec => []CordonedByAnUpdate
<1>1. UpdateInit => CordonInv
  BY UpdateInvInit DEF UpdateInit, UpdateInv, CordonInv
<1>2. CordonInv => CordonedByAnUpdate
  BY DEF CordonInv, CordonedByAnUpdate
<1> QED
  BY <1>1, <1>2, CordonInvStep, UpdateTypeCorrect, PTL DEF UpdateSpec
=============================================================================

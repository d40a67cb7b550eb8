----------------------------- MODULE SelfUpdate -----------------------------
(***************************************************************************)
(* `harbr update` on one node, as Updater.Run does it: download, verify,   *)
(* drain the node, move the program aside, write the new one in its place, *)
(* remove the old one, uncordon. The program can be stopped at every step. *)
(* One update runs at a time: an operator starts it by hand. Nothing is    *)
(* synced: what is written is on the disk when the kernel has put it there.*)
(***************************************************************************)
CONSTANTS
  Versions,  \* published releases
  Junk,      \* the content of a download that is not the release
  Partial,   \* the content of a file that is being written
  None       \* no file, no version

ASSUME SelfUpdateAssumption ==
  None \notin Versions /\ Partial \notin Versions \cup {None}
  /\ Junk \notin Versions \cup {None, Partial}

VARIABLES
  self,      \* content of the executable's path
  bak,       \* content of <path>.bak
  tmp,       \* content of the download
  target,    \* the version asked for
  pc,        \* the step of Run that is next, "rest" if none runs
  writable,  \* whether the program's directory can be written by this run
  cordoned,  \* the K3s node takes no new pods
  soft,      \* the files whose content is not on the disk yet
  left       \* history: the node is left cordoned by an update that had begun
             \* to replace the program

updateVars == <<self, bak, tmp, target, pc, writable, cordoned, soft, left>>

Steps == {"rest", "download", "verify", "drain", "rename", "open", "copy",
          "restore", "remove", "uncordon"}

UpdateTypeOK ==
  /\ self \in Versions \cup {Junk, Partial, None}
  /\ bak \in Versions \cup {Partial, None} /\ tmp \in Versions \cup {Junk, None}
  /\ target \in Versions \cup {None} /\ pc \in Steps
  /\ {writable, cordoned, left} \subseteq BOOLEAN /\ soft \subseteq {"self", "bak"}

UpdateInit ==
  /\ self \in Versions /\ bak = None /\ tmp = None /\ target = None
  /\ pc = "rest" /\ writable = FALSE /\ cordoned = FALSE /\ soft = {} /\ left = FALSE

\* Run returns: the deferred os.Remove deletes the download.
Return == pc' = "rest" /\ tmp' = None /\ target' = None /\ writable' = FALSE

\* The latest release, or the one -version names. A program that is not whole
\* cannot be started.
Run(v) ==
  /\ pc = "rest" /\ self \in Versions
  /\ pc' = "download" /\ target' = v
  /\ writable' \in BOOLEAN
  /\ UNCHANGED <<self, bak, tmp, cordoned, soft, left>>

\* Mutant: the node is drained while the download goes on.
BugDownload ==
  /\ pc = "download"
  /\ pc' = "verify" /\ tmp' \in {target, Junk}
  /\ cordoned' \in {cordoned, TRUE}
  /\ UNCHANGED <<self, bak, target, writable, soft, left>>

\* A truncated body is an error, a wrong one is not seen.
Download ==
  /\ pc = "download"
  /\ pc' = "verify" /\ tmp' \in {target, Junk}
  /\ UNCHANGED <<self, bak, target, writable, cordoned, soft, left>>

\* Without a checksum (no answer, no file, no line) the download is taken.
VerifyChecksum ==
  /\ pc = "verify"
  /\ pc' = "drain"
  /\ UNCHANGED <<self, bak, tmp, target, writable, cordoned, soft, left>>

\* The download failed, the checksum differs, or the file cannot be prepared.
Refuse ==
  /\ pc = "download" \/ pc = "verify"
  /\ Return
  /\ UNCHANGED <<self, bak, cordoned, soft, left>>

\* kubectl drain cordons first; its error is ignored. Off a K3s node there is
\* nothing to drain, which is as if it had failed.
Drain ==
  /\ pc = "drain"
  /\ pc' = "rename"
  /\ cordoned' \in {cordoned, TRUE}
  /\ UNCHANGED <<self, bak, tmp, target, writable, soft, left>>

\* Mutant: the old program is removed, not moved aside.
BugRenameAway ==
  /\ pc = "rename"
  /\ pc' = "open"
  /\ self' = IF writable THEN None ELSE self
  /\ UNCHANGED <<bak, tmp, target, writable, cordoned, soft, left>>

\* os.Rename(selfPath, backupPath), its error ignored.
RenameAway ==
  /\ pc = "rename"
  /\ pc' = "open"
  /\ \/ /\ writable /\ bak' = self /\ self' = None
        /\ soft' = IF "self" \in soft THEN {"bak"} ELSE {}
     \/ ~ writable /\ UNCHANGED <<self, bak, soft>>
  /\ UNCHANGED <<tmp, target, writable, cordoned, left>>

\* atomicCopy opens its destination with O_CREATE and O_TRUNC. The kernel
\* refuses to open a running program for writing.
OpenFile ==
  /\ pc = "open"
  /\ self = None
  /\ pc' = "copy" /\ self' = Partial /\ soft' = soft \cup {"self"}
  /\ UNCHANGED <<bak, tmp, target, writable, cordoned, left>>

\* io.Copy and Close return: the content is in the kernel, not on the disk.
Copied ==
  /\ pc = "copy"
  /\ pc' = "remove" /\ self' = tmp
  /\ UNCHANGED <<bak, tmp, target, writable, cordoned, soft, left>>

\* Opening or writing failed: the disk is full, the program is running.
CopyFails ==
  /\ pc = "open" \/ pc = "copy"
  /\ pc' = "restore"
  /\ UNCHANGED <<self, bak, tmp, target, writable, cordoned, soft, left>>

\* The backup is moved back, the error ignored, and Run returns. The node is
\* not uncordoned.
Restore ==
  /\ pc = "restore"
  /\ \/ /\ writable /\ bak # None /\ self' = bak /\ bak' = None
        /\ soft' = IF "bak" \in soft THEN {"self"} ELSE {}
     \/ UNCHANGED <<self, bak, soft>>
  /\ Return
  /\ left' = cordoned
  /\ UNCHANGED cordoned

\* os.Remove(backupPath), its error ignored.
RemoveBackup ==
  /\ pc = "remove"
  /\ pc' = "uncordon"
  /\ \/ bak' = None /\ soft' = soft \ {"bak"}
     \/ UNCHANGED <<bak, soft>>
  /\ UNCHANGED <<self, tmp, target, writable, cordoned, left>>

\* kubectl uncordon, its error ignored.
Uncordon ==
  /\ pc = "uncordon"
  /\ cordoned' \in {FALSE, cordoned} /\ left' = cordoned'
  /\ Return
  /\ UNCHANGED <<self, bak, soft>>

Stopped ==
  /\ Return
  /\ left' = IF pc \in {"rest", "download", "verify"} THEN left ELSE cordoned
  /\ UNCHANGED cordoned

\* The process is killed: the kernel keeps what was written.
Crash ==
  /\ pc # "rest"
  /\ Stopped
  /\ UNCHANGED <<self, bak, soft>>

\* The kernel has put files on the disk; one that is being written goes on.
Flush ==
  /\ soft # {}
  /\ soft' = IF pc = "copy" THEN soft \ {"bak"} ELSE {}
  /\ UNCHANGED <<self, bak, tmp, target, pc, writable, cordoned, left>>

\* The machine loses its power: the names of the files are journaled, the content
\* of one that was not on the disk may be gone.
PowerLoss ==
  /\ Stopped
  /\ self' = self \/ ("self" \in soft /\ self' = Partial)
  /\ bak' = bak \/ ("bak" \in soft /\ bak' = Partial)
  /\ soft' = {}

UpdateNext ==
  \/ \E v \in Versions : Run(v)
  \/ Download \/ VerifyChecksum \/ Refuse \/ Drain \/ RenameAway \/ OpenFile
  \/ Copied \/ CopyFails \/ Restore \/ RemoveBackup \/ Uncordon
  \/ Crash \/ Flush \/ PowerLoss

UpdateSpec == UpdateInit /\ [][UpdateNext]_updateVars

-----------------------------------------------------------------------------
(* Properties.                                                             *)

\* The program kept is the one at the path, or the backup while that is not
\* there or not whole. A request is fulfilled once the copy is.
Whole == self \notin {Partial, None}

Promise == INSTANCE Install WITH
  image <- IF Whole THEN self ELSE IF bak = Partial THEN None ELSE bak,
  wanted <- IF pc \in {"remove", "uncordon"} THEN None ELSE target,
  fresh <- (IF Whole THEN "self" ELSE "bak") \in soft

\* updater.go says `swap via atomic rename`, and copies. Still, wherever Run is
\* killed or fails, a whole program is there, under its name or as .bak. Since the
\* copy is not synced before the old program is removed, a loss of power can cost
\* both until the kernel has written the new one, and never after that.
InstallIsAtomic == Promise!Spec

\* With no update running a node is cordoned only because one was stopped, or
\* failed, after it had verified its download: a download that is refused never
\* costs the node its pods, and an update that succeeds makes good for those
\* before it unless kubectl fails.
CordonedByAnUpdate == pc = "rest" /\ cordoned => left
=============================================================================

----------------------------- MODULE AtomicFile -----------------------------
(***************************************************************************)
(* atomicWriteFile of src/storage/storage.hpp: how save() replaces the     *)
(* database file by writing path.tmp, fsync, rename, fsync of the          *)
(* directory.  The writers are the threads that call save(): the server    *)
(* has one at a time (engineMutex_), the REPL also has the write-behind    *)
(* thread, without a lock.                                                 *)
(*                                                                         *)
(* A file is an inode whose data are Chunks pieces, each from one saved    *)
(* version of the database.  A crash may lose any write since the last     *)
(* fsync and any rename since the last fsync of the directory.             *)
(***************************************************************************)
EXTENDS Naturals, FiniteSets

CONSTANTS Writers,     \* threads that call save()
          Chunks,      \* pieces a file is written in, at least one
          Inodes,      \* inode numbers, positive
          MaxVersion   \* bound: saves that start

VARIABLES dir,       \* [tmp, path] : the inode of each name, 0 if it is missing
          data,      \* inode -> chunk -> version written there, or Hole
          dirDisk,   \* dir, as of the last fsync of the directory
          dataDisk,  \* data, as of the last fsync of each file
          writer,    \* thread -> where it is in atomicWriteFile
          version,   \* number of the latest save
          acked,     \* the latest save that returned
          overlap    \* history: two threads were in save() at the same time

vars == <<dir, data, dirDisk, dataDisk, writer, version, acked, overlap>>

Hole == MaxVersion + 1
Empty == [c \in 1 .. Chunks |-> Hole]
Idle == [pc |-> "idle", ver |-> 0, fd |-> 0, off |-> 0]

Dir == [tmp : Inodes \cup {0}, path : Inodes \cup {0}]
FileData == [1 .. Chunks -> 0 .. Hole]

\* The shape of the state; a thread never writes past the end of its data.
TypeOK ==
  /\ dir \in Dir /\ dirDisk \in Dir
  /\ data \in [Inodes -> FileData] /\ dataDisk \in [Inodes -> FileData]
  /\ writer \in [Writers -> [pc : {"idle", "write", "fsync", "rename", "syncdir"},
                             ver : 0 .. MaxVersion, fd : Inodes \cup {0}, off : 0 .. Chunks]]
  /\ version \in 0 .. MaxVersion /\ acked \in 0 .. version /\ overlap \in BOOLEAN

\* No database yet.
Init ==
  /\ dir = [tmp |-> 0, path |-> 0] /\ dirDisk = dir
  /\ data = [n \in Inodes |-> Empty] /\ dataDisk = data
  /\ writer = [w \in Writers |-> Idle]
  /\ version = 0 /\ acked = 0 /\ overlap = FALSE
-----------------------------------------------------------------------------
InUse == {dir.tmp, dir.path, dirDisk.tmp, dirDisk.path} \cup {writer[w].fd : w \in Writers}

\* ofstream(tmp, trunc), after save() has serialised the engine: a new inode, or
\* the old one cut to nothing.
Open(w) ==
  /\ writer[w].pc = "idle" /\ version < MaxVersion
  /\ version' = version + 1
  /\ overlap' = (overlap \/ \E u \in Writers : writer[u].pc # "idle")
  /\ \E n \in IF dir.tmp # 0 THEN {dir.tmp} ELSE Inodes \ InUse :
       /\ dir' = [dir EXCEPT !.tmp = n]
       /\ data' = [data EXCEPT ![n] = Empty]
       /\ writer' = [writer EXCEPT ![w] = [pc |-> "write", ver |-> version', fd |-> n, off |-> 0]]
  /\ UNCHANGED <<dirDisk, dataDisk, acked>>

\* f.write and f.flush, piece by piece, to the open file whatever its name is now.
Write(w) ==
  /\ writer[w].pc = "write"
  /\ data' = [data EXCEPT ![writer[w].fd][writer[w].off + 1] = writer[w].ver]
  /\ writer' = [writer EXCEPT ![w].off = @ + 1,
                              ![w].pc = IF writer[w].off + 1 = Chunks THEN "fsync" ELSE "write"]
  /\ UNCHANGED <<dir, dirDisk, dataDisk, version, acked, overlap>>

\* A full disk: the name tmp is removed and save() throws.
WriteFails(w) ==
  /\ writer[w].pc = "write"
  /\ dir' = [dir EXCEPT !.tmp = 0]
  /\ writer' = [writer EXCEPT ![w] = Idle]
  /\ UNCHANGED <<data, dirDisk, dataDisk, version, acked, overlap>>

\* Mutant: no fsync before the rename.
Fsync_Skipped(w) ==
  /\ writer[w].pc = "fsync"
  /\ writer' = [writer EXCEPT ![w].pc = "rename"]
  /\ UNCHANGED <<dir, data, dirDisk, dataDisk, version, acked, overlap>>
\* The file named tmp is opened again and synced; if the name is gone, nothing is.
Fsync(w) ==
  /\ writer[w].pc = "fsync"
  /\ dataDisk' = [n \in Inodes |-> IF n = dir.tmp THEN data[n] ELSE dataDisk[n]]
  /\ writer' = [writer EXCEPT ![w].pc = "rename"]
  /\ UNCHANGED <<dir, data, dirDisk, version, acked, overlap>>

\* rename(tmp, path)
Rename(w) ==
  /\ writer[w].pc = "rename" /\ dir.tmp # 0
  /\ dir' = [tmp |-> 0, path |-> dir.tmp]
  /\ writer' = [writer EXCEPT ![w].pc = "syncdir"]
  /\ UNCHANGED <<data, dirDisk, dataDisk, version, acked, overlap>>

\* rename fails because tmp is gone: save() throws.
RenameFails(w) ==
  /\ writer[w].pc = "rename" /\ dir.tmp = 0
  /\ writer' = [writer EXCEPT ![w] = Idle]
  /\ UNCHANGED <<dir, data, dirDisk, dataDisk, version, acked, overlap>>

\* milanFsyncDir, and the return from save(), after which the client is answered.
SyncDir(w) ==
  /\ writer[w].pc = "syncdir"
  /\ dirDisk' = dir
  /\ acked' = IF writer[w].ver > acked THEN writer[w].ver ELSE acked
  /\ writer' = [writer EXCEPT ![w] = Idle]
  /\ UNCHANGED <<dir, data, dataDisk, version, overlap>>

\* Power loss: what was not synced may or may not be there afterwards.
Crash ==
  /\ dir' \in {dir, dirDisk} /\ dirDisk' = dir'
  /\ \E lost \in SUBSET {u \in Inodes \X (1 .. Chunks) : data[u[1]][u[2]] # dataDisk[u[1]][u[2]]} :
       data' = [n \in Inodes |-> [c \in 1 .. Chunks |->
                  IF <<n, c>> \in lost THEN dataDisk[n][c] ELSE data[n][c]]]
  /\ dataDisk' = data'
  /\ writer' = [w \in Writers |-> Idle]
  /\ UNCHANGED <<version, acked, overlap>>

Next ==
  \/ Crash
  \/ \E w \in Writers :
       \/ Open(w) \/ Write(w) \/ WriteFails(w) \/ Fsync(w)
       \/ Rename(w) \/ RenameFails(w) \/ SyncDir(w)

Spec == Init /\ [][Next]_vars
-----------------------------------------------------------------------------
\* What loadWithCount() would read: a missing file is the empty database, 0.
Content == IF dir.path = 0 THEN [c \in 1 .. Chunks |-> 0] ELSE data[dir.path]

\* Once a save has returned there is a database file, whatever two writers do to each
\* other's temporary file.  As long as no two saves overlapped it is one whole version, at
\* any moment and after any crash, and not older than the last save that returned.
FileIsWhole ==
  /\ acked > 0 => dir.path # 0
  /\ ~overlap => \E v \in acked .. MaxVersion : \A c \in 1 .. Chunks : Content[c] = v
=============================================================================

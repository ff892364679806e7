----------------------- MODULE StatePersistenceProofs -----------------------
(* Proofs about StatePersistence, for any number of saves at one time, of   *)
(* files and of changes to the document: what a save leaves in the file,    *)
(* and that files, blocks and names keep the promise of StateFile.          *)
EXTENDS StatePersistence, TLAPS

-----------------------------------------------------------------------------
(* The invariant.                                                          *)

\* A save starts with the first block, knows the file it writes, and as long as it
\* writes has something left to write.
Writing ==
    \A s \in Savers :
        /\ saver[s].pc = "open" => saver[s].at = 1
        /\ saver[s].pc \in {"write", "rename"} => saver[s].fd # None
        /\ saver[s].pc = "write" => saver[s].at <= Size(saver[s].v)

\* The two names never name one file.
TwoFiles == tmp # None => tmp # path

\* A save that met no other is the only one.
Alone == \A s, u \in Busy : saver[s].alone => u = s

\* What a save has written of its document so far.
Prefix(r) == [b \in Blocks |-> IF b < r.at THEN r.v ELSE None]

\* The temporary file holds what a save that met no other has written, all of it
\* when the save comes to the rename.
OwnFile ==
    \A s \in Busy : saver[s].alone /\ saver[s].pc \in {"write", "rename"} =>
        /\ tmp = saver[s].fd
        /\ saver[s].pc = "write" => data[tmp] = Prefix(saver[s])
        /\ saver[s].pc = "rename" => data[tmp] = Whole(saver[s].v)

\* Where saves have not overlapped, none that is under way has met another.
Unmixed == ~mixed => \A s \in Busy : saver[s].alone

FileInv == TypeOK /\ Writing /\ TwoFiles /\ Alone /\ OwnFile /\ Unmixed /\ FileIsLastSave
-----------------------------------------------------------------------------
(* Types.                                                                  *)

USE VersionAssumption, NoneAssumption

\* A document has one block or two.
LEMMA SizeType == \A v \in Versions : Size(v) \in Blocks
<1> TAKE v \in Versions
<1>1. v \in Nat BY DEF Versions
<1>2. v % 2 \in 0..1 BY <1>1
<1> QED BY <1>2 DEF Size, Blocks

\* A task between two saves is well typed.
LEMMA IdleType == Idle \in SaverState
BY DEF Idle, SaverState, Versions

\* The document a start finds is one of the program's.
LEMMA LoadedType == Loaded \in Versions
<1>1. CASE path # None /\ Parses(data[path])
  <2>1. \E v \in Versions : data[path] = Whole(v)
    BY <1>1 DEF Parses
  <2> QED BY <1>1, <2>1 DEF Loaded
<1>2. CASE ~(path # None /\ Parses(data[path]))
  BY <1>2 DEF Loaded, Versions
<1> QED BY <1>1, <1>2

\* Every operation keeps the types.
LEMMA TypeStep ==
  ASSUME TypeOK, Writing, [Next]_vars
  PROVE  TypeOK'
<1>1. CASE Mutate
  BY <1>1 DEF Mutate, TypeOK, Versions
<1>2. CASE Restart
  BY <1>2, LoadedType, IdleType DEF Restart, TypeOK
<1>3. ASSUME NEW s \in Savers, Serialize(s) PROVE TypeOK'
  <2>1. \A u \in Savers : [saver[u] EXCEPT !.alone = FALSE] \in SaverState
    BY DEF TypeOK, SaverState
  <2>2. [Idle EXCEPT !.pc = "open", !.v = doc, !.alone = (Busy = {})] \in SaverState
    BY IdleType DEF TypeOK, SaverState
  <2>3. saver' \in [Savers -> SaverState]
    BY <1>3, <2>1, <2>2 DEF Serialize, TypeOK
  <2> QED BY <1>3, <2>3 DEF Serialize, TypeOK
<1>4. ASSUME NEW s \in Savers, OpenTmp(s) PROVE TypeOK'
  <2>1. PICK i \in Inodes : /\ tmp' = i
                            /\ data' = [data EXCEPT ![i] = Empty]
                            /\ saver' = [saver EXCEPT ![s].pc = "write", ![s].fd = i]
    BY <1>4 DEF OpenTmp
  <2>2. [saver[s] EXCEPT !.pc = "write", !.fd = i] \in SaverState
    BY DEF TypeOK, SaverState
  <2>3. saver' \in [Savers -> SaverState]
    BY <2>1, <2>2 DEF TypeOK
  <2>4. data' \in [Inodes -> Content]
    BY <2>1 DEF TypeOK, Content, Empty
  <2> QED BY <1>4, <2>1, <2>3, <2>4 DEF OpenTmp, TypeOK
<1>5. ASSUME NEW s \in Savers, WriteBlock(s) PROVE TypeOK'
  <2> DEFINE r == saver[s]
  <2>1. r \in SaverState /\ r.fd \in Inodes /\ r.at <= Size(r.v)
    BY <1>5 DEF WriteBlock, Writing, TypeOK, SaverState
  <2>2. r.at \in Blocks /\ r.v \in Versions
    BY <2>1, SizeType DEF SaverState, Blocks
  <2>3. [data[r.fd] EXCEPT ![r.at] = r.v] \in Content
    BY <2>1, <2>2 DEF TypeOK, Content
  <2>4. data' \in [Inodes -> Content]
    BY <1>5, <2>3 DEF WriteBlock, TypeOK
  <2>5. \A at \in 1..3, pc \in {"write", "rename"} : [r EXCEPT !.at = at, !.pc = pc] \in SaverState
    BY <2>1 DEF SaverState
  <2>6. saver' \in [Savers -> SaverState]
    <3>1. r.at + 1 \in 1..3
      BY <2>2 DEF Blocks
    <3>2. (IF r.at = Size(r.v) THEN "rename" ELSE "write") \in {"write", "rename"}
      OBVIOUS
    <3> QED BY <1>5, <2>5, <3>1, <3>2, Zenon DEF WriteBlock, TypeOK
  <2> QED BY <1>5, <2>4, <2>6 DEF WriteBlock, TypeOK
<1>6. ASSUME NEW s \in Savers, WriteFails(s) PROVE TypeOK'
  BY <1>6, IdleType DEF WriteFails, TypeOK
<1>7. ASSUME NEW s \in Savers, Rename(s) PROVE TypeOK'
  <2>1. saver[s].v \in Versions
    BY DEF TypeOK, SaverState
  <2>2. saver' \in [Savers -> SaverState]
    BY <1>7, IdleType DEF Rename, TypeOK
  <2> QED BY <1>7, <2>1, <2>2 DEF Rename, TypeOK
<1>8. CASE UNCHANGED vars
  BY <1>8 DEF vars, TypeOK
<1> QED BY <1>1, <1>2, <1>3, <1>4, <1>5, <1>6, <1>7, <1>8 DEF Next

-----------------------------------------------------------------------------
(* The invariant is inductive.                                             *)

\* A save that begins marks itself and the others if there are any.
LEMMA SerializeForm ==
  ASSUME TypeOK, NEW s \in Savers, Serialize(s)
  PROVE  /\ saver[s].pc = "idle" /\ saver'[s].pc = "open" /\ saver'[s].at = 1
         /\ saver'[s].v = doc /\ saver'[s].alone = (Busy = {})
         /\ \A u \in Savers \ {s} :
              /\ saver'[u].pc = saver[u].pc /\ saver'[u].v = saver[u].v
              /\ saver'[u].fd = saver[u].fd /\ saver'[u].at = saver[u].at
              /\ saver[u].pc # "idle" => saver'[u].alone = FALSE
<1>1. /\ saver'[s] = [Idle EXCEPT !.pc = "open", !.v = doc, !.alone = (Busy = {})]
      /\ \A u \in Savers \ {s} :
           saver'[u] = IF u \in Busy THEN [saver[u] EXCEPT !.alone = FALSE] ELSE saver[u]
  BY DEF Serialize
<1> QED BY <1>1 DEF Idle, TypeOK, SaverState, Busy, Serialize

\* A save that begins writes nothing yet, and knows whether it is alone.
LEMMA SerializeStep ==
  ASSUME FileInv, TypeOK', NEW s \in Savers, Serialize(s)
  PROVE  FileInv'
<1> USE DEF FileInv, Busy
<1>2. /\ saver[s].pc = "idle" /\ saver'[s].pc = "open" /\ saver'[s].at = 1
      /\ saver'[s].v = doc /\ saver'[s].alone = (Busy = {})
      /\ \A u \in Savers \ {s} :
           /\ saver'[u].pc = saver[u].pc /\ saver'[u].v = saver[u].v
           /\ saver'[u].fd = saver[u].fd /\ saver'[u].at = saver[u].at
           /\ saver[u].pc # "idle" => saver'[u].alone = FALSE
  BY SerializeForm
<1>3. Writing'
  BY <1>2 DEF Writing
<1>4. Alone'
  <2>1. saver'[s].alone => \A u \in Savers : saver[u].pc = "idle"
    BY <1>2
  <2>2. \A u \in Savers \ {s} : saver'[u].pc # "idle" => ~saver'[u].alone
    BY <1>2
  <2> QED BY <1>2, <2>1, <2>2 DEF Alone
<1>7. OwnFile'
  BY <1>2 DEF OwnFile
<1>5. Unmixed'
  BY <1>2 DEF Unmixed, Serialize
<1>6. TwoFiles' /\ FileIsLastSave'
  BY DEF Serialize, TwoFiles, FileIsLastSave
<1> QED BY <1>3, <1>4, <1>5, <1>6, <1>7

\* The file opened is never the state file, and is empty.
LEMMA OpenTmpStep ==
  ASSUME FileInv, TypeOK', NEW s \in Savers, OpenTmp(s)
  PROVE  FileInv'
<1> USE DEF FileInv, Busy
<1>1. PICK i \in Inodes : /\ IF tmp = None THEN Unused(i) ELSE i = tmp
                          /\ tmp' = i
                          /\ data' = [data EXCEPT ![i] = Empty]
                          /\ saver' = [saver EXCEPT ![s].pc = "write", ![s].fd = i]
  BY DEF OpenTmp
<1>2. i # path /\ i # None /\ data'[i] = Empty /\ \A j \in Inodes \ {i} : data'[j] = data[j]
  BY <1>1 DEF Unused, TwoFiles, TypeOK
<1>3. /\ saver[s].pc = "open" /\ saver'[s].pc = "write" /\ saver'[s].fd = i
      /\ saver'[s].at = saver[s].at /\ saver'[s].v = saver[s].v
      /\ saver'[s].alone = saver[s].alone
      /\ \A u \in Savers \ {s} : saver'[u] = saver[u]
  BY <1>1 DEF OpenTmp, TypeOK, SaverState
<1>4. saver[s].at = 1 /\ saver[s].v \in Versions /\ Size(saver[s].v) \in Blocks
  BY <1>3, SizeType DEF Writing, TypeOK, SaverState
<1>5. Writing'
  BY <1>2, <1>3, <1>4 DEF Writing, Blocks
<1>6. TwoFiles'
  BY <1>1, <1>2 DEF TwoFiles, OpenTmp
<1>7. Alone'
  BY <1>3 DEF Alone
<1>8. OwnFile'
  <2>1. Prefix(saver'[s]) = Empty
    BY <1>3, <1>4 DEF Prefix, Empty, Blocks
  <2>2. \A u \in Savers \ {s} : saver[u].pc # "idle" => ~saver[u].alone
    BY <1>3 DEF Alone
  <2> QED BY <1>1, <1>2, <1>3, <2>1, <2>2 DEF OwnFile
<1>9. Unmixed'
  BY <1>3 DEF Unmixed, OpenTmp
<1>10. FileIsLastSave'
  BY <1>2 DEF FileIsLastSave, OpenTmp, TypeOK
<1> QED BY <1>5, <1>6, <1>7, <1>8, <1>9, <1>10

\* A block lands in the temporary file of a save that met no other.
LEMMA WriteBlockStep ==
  ASSUME FileInv, TypeOK', NEW s \in Savers, WriteBlock(s)
  PROVE  FileInv'
<1> USE DEF FileInv, Busy
<1> DEFINE r == saver[s]
<1>1. /\ r.pc = "write" /\ r.fd \in Inodes /\ r.v \in Versions /\ r.at \in Blocks
      /\ Size(r.v) \in Blocks /\ r.at <= Size(r.v)
  BY SizeType DEF WriteBlock, Writing, TypeOK, SaverState, Blocks
<1>2. /\ saver'[s].at = r.at + 1 /\ saver'[s].v = r.v /\ saver'[s].fd = r.fd
      /\ saver'[s].alone = r.alone
      /\ saver'[s].pc = IF r.at = Size(r.v) THEN "rename" ELSE "write"
      /\ \A u \in Savers \ {s} : saver'[u] = saver[u]
  BY Zenon DEF WriteBlock, TypeOK, SaverState
<1>3. /\ data'[r.fd] = [data[r.fd] EXCEPT ![r.at] = r.v]
      /\ \A i \in Inodes \ {r.fd} : data'[i] = data[i]
  BY <1>1 DEF WriteBlock, TypeOK
<1>4. Writing'
  BY <1>1, <1>2 DEF Writing, Blocks
<1>5. TwoFiles'
  BY DEF TwoFiles, WriteBlock
<1>6. Alone'
  BY <1>1, <1>2 DEF Alone
<1>7. OwnFile'
  <2>1. CASE ~r.alone
    BY <1>1, <1>2, <2>1 DEF OwnFile, Alone
  <2>2. CASE r.alone
    <3>1. tmp = r.fd /\ data[tmp] = Prefix(r) /\ data[tmp] \in Content
      BY <1>1, <2>2 DEF OwnFile, TypeOK
    <3>2. data'[tmp] = [b \in Blocks |-> IF b < r.at + 1 THEN r.v ELSE None]
      BY <1>1, <1>3, <3>1 DEF Prefix, Blocks
    <3>3. data'[tmp] = Prefix(saver'[s])
      BY <1>2, <3>2 DEF Prefix
    <3>4. r.at = Size(r.v) => data'[tmp] = Whole(r.v)
      BY <1>1, <3>2 DEF Whole, Blocks
    <3>5. \A u \in Savers \ {s} : saver[u].pc # "idle" => ~saver[u].alone
      BY <1>1 DEF Alone
    <3> QED BY <1>1, <1>2, <3>1, <3>3, <3>4, <3>5 DEF OwnFile, WriteBlock
  <2> QED BY <2>1, <2>2
<1>8. Unmixed'
  BY <1>1, <1>2 DEF Unmixed, WriteBlock
<1>9. FileIsLastSave'
  <2>1. ~mixed => r.fd # path
    BY <1>1 DEF Unmixed, OwnFile, TwoFiles, Writing
  <2> QED BY <1>3, <2>1 DEF FileIsLastSave, WriteBlock, TypeOK
<1> QED BY <1>4, <1>5, <1>6, <1>7, <1>8, <1>9

\* A save that gives up leaves the state file alone.
LEMMA WriteFailsStep ==
  ASSUME FileInv, TypeOK', NEW s \in Savers, WriteFails(s)
  PROVE  FileInv'
<1> USE DEF FileInv, Busy
<1>1. saver'[s].pc = "idle" /\ \A u \in Savers \ {s} : saver'[u] = saver[u]
  BY DEF WriteFails, TypeOK, Idle
<1>2. Writing' /\ Alone' /\ OwnFile' /\ Unmixed'
  BY <1>1 DEF Writing, Alone, OwnFile, Unmixed, WriteFails
<1>3. TwoFiles' /\ FileIsLastSave'
  BY DEF WriteFails, TwoFiles, FileIsLastSave
<1> QED BY <1>2, <1>3

\* The rename of a save that met no other puts its document in place; what the
\* rename of another does matters only where saves have overlapped.
LEMMA RenameStep ==
  ASSUME FileInv, TypeOK', NEW s \in Savers, Rename(s)
  PROVE  FileInv'
<1> USE DEF FileInv, Busy
<1>1. saver[s].pc = "rename" /\ saver'[s].pc = "idle"
      /\ \A u \in Savers \ {s} : saver'[u] = saver[u]
  BY DEF Rename, TypeOK, Idle
<1>2. Writing' /\ Alone'
  BY <1>1 DEF Writing, Alone
<1>3. OwnFile'
  BY <1>1 DEF OwnFile, Alone, Rename, TypeOK, SaverState
<1>4. Unmixed'
  <2>1. CASE saver[s].alone
    BY <1>1, <2>1 DEF Unmixed, Alone
  <2>2. CASE ~saver[s].alone
    <3>1. ~mixed' => ~mixed
      BY <2>2 DEF Rename
    <3> QED BY <1>1, <3>1 DEF Unmixed
  <2> QED BY <2>1, <2>2
<1>5. TwoFiles'
  BY DEF TwoFiles, Rename
<1>6. FileIsLastSave'
  <2>1. CASE UNCHANGED <<path, saved, mixed>>
    BY <2>1 DEF FileIsLastSave, Rename
  <2>2. CASE tmp # None /\ path' = tmp /\ saved' = saver[s].v /\ mixed' = (mixed /\ ~saver[s].alone)
    <3>1. ~mixed' => saver[s].alone
      BY <1>1, <2>2 DEF Unmixed
    <3>2. ~mixed' => data[tmp] = Whole(saver[s].v)
      BY <1>1, <3>1 DEF OwnFile
    <3>3. saver[s].v # None
      BY DEF TypeOK, SaverState, Versions
    <3> QED BY <2>2, <3>2, <3>3 DEF FileIsLastSave, Rename
  <2> QED BY <2>1, <2>2 DEF Rename
<1> QED BY <1>2, <1>3, <1>4, <1>5, <1>6

\* Every step keeps the invariant.
LEMMA FileStep ==
  ASSUME FileInv, [Next]_vars
  PROVE  FileInv'
<1>1. TypeOK'
  BY TypeStep DEF FileInv
<1>2. CASE Mutate
  BY <1>1, <1>2 DEF Mutate, FileInv, Busy, Writing, TwoFiles, Alone, OwnFile, Unmixed, FileIsLastSave
<1>3. CASE Restart
  <2>1. \A s \in Savers : saver'[s].pc = "idle"
    BY <1>3 DEF Restart, Idle
  <2> QED
    BY <1>1, <1>3, <2>1
    DEF Restart, FileInv, Busy, Writing, TwoFiles, Alone, OwnFile, Unmixed, FileIsLastSave
<1>4. CASE UNCHANGED vars
  BY <1>1, <1>4 DEF vars, FileInv, Busy, Writing, TwoFiles, Alone, OwnFile, Unmixed, FileIsLastSave
<1> QED
  BY <1>1, <1>2, <1>3, <1>4,
     SerializeStep, OpenTmpStep, WriteBlockStep, WriteFailsStep, RenameStep DEF Next

\* At the start nothing is saved and nobody saves.
LEMMA FileInit == Init => FileInv
<1> SUFFICES ASSUME Init PROVE FileInv
  OBVIOUS
<1>1. \A s \in Savers : saver[s].pc = "idle"
  BY DEF Init, Idle
<1>2. TypeOK
  <2>1. 0 \in Versions /\ Empty \in Content
    BY DEF Versions, Content, Empty
  <2>2. data \in [Inodes -> Content]
    BY <2>1 DEF Init
  <2>3. saver \in [Savers -> SaverState]
    BY IdleType DEF Init
  <2> QED BY <2>1, <2>2, <2>3 DEF Init, TypeOK
<1> QED
  BY <1>1, <1>2 DEF Init, FileInv, Busy, Writing, TwoFiles, Alone, OwnFile, Unmixed, FileIsLastSave

\* The invariant holds in every state.
THEOREM FileInvariant == Spec => []FileInv
BY FileInit, FileStep, PTL DEF Spec

-----------------------------------------------------------------------------
(* The properties.                                                         *)

\* The state of the saves and of the files keeps its types (realtime.rs, save and
\* write_atomic).
THEOREM FileTypes == Spec => []TypeOK
<1>1. FileInv => TypeOK BY DEF FileInv
<1> QED BY <1>1, FileInvariant, PTL

\* As long as no two saves overlap, the state file is what the last successful
\* save wrote, wherever a save failed or the process died.
THEOREM FileIsLastSaveHolds == Spec => []FileIsLastSave
<1>1. FileInv => FileIsLastSave BY DEF FileInv
<1> QED BY <1>1, FileInvariant, PTL

\* A save that met no other leaves the file alone or its own document in it,
\* whatever overlapping saves and crashes left behind.
THEOREM LoneSaveRepairsHolds == Spec => LoneSaveRepairs
<1>1. ASSUME FileInv, [Next]_vars, NEW s \in Savers,
             saver[s].alone, saver[s].pc = "rename", path' # path
      PROVE  data'[path'] = Whole(saver[s].v)
  <2>1. PICK u \in Savers : Rename(u)
    BY <1>1 DEF Next, vars, Mutate, Restart, Serialize, OpenTmp, WriteBlock, WriteFails
  <2>2. u = s
    BY <1>1, <2>1 DEF FileInv, Alone, Busy, Rename
  <2>3. path' = tmp /\ data' = data
    BY <1>1, <2>1 DEF Rename
  <2> QED BY <1>1, <2>3 DEF FileInv, OwnFile, Busy
<1>2. ASSUME FileInv, [Next]_vars
      PROVE  [\A s \in Savers : saver[s].alone /\ saver[s].pc = "rename" /\ path' # path
                => data'[path'] = Whole(saver[s].v)]_vars
  BY <1>1, <1>2
<1> QED BY <1>2, FileInvariant, PTL DEF Spec, LoneSaveRepairs

-----------------------------------------------------------------------------
(* The state file as a start reads it.                                     *)

\* While a save writes or is about to rename, the last block of a document is in the
\* temporary file only if a save of it is still there to rename it.
Fresh ==
    tmp # None /\ (\E s \in Savers : saver[s].pc \in {"write", "rename"}) =>
        \A v \in Versions : data[tmp][Size(v)] = v =>
            \E u \in Savers : saver[u].pc = "rename" /\ saver[u].v = v

KeepInv == FileInv /\ Fresh

\* Every step keeps that: a save truncates the file before it writes, and only it, or a
\* save that renames the file away, stops being there to rename it.
LEMMA FreshStep ==
  ASSUME KeepInv, [Next]_vars
  PROVE  KeepInv'
<1> USE DEF KeepInv
<1>0. FileInv'
  BY FileStep
<1>t. TypeOK /\ \A v \in Versions : Size(v) \in Blocks /\ v # None
  BY SizeType DEF FileInv, Versions
<1>1. CASE Mutate \/ UNCHANGED vars
  BY <1>1, <1>0 DEF Mutate, vars, Fresh
<1>2. CASE Restart
  <2>1. \A u \in Savers : saver'[u].pc = "idle"
    BY <1>2 DEF Restart, Idle
  <2>2. Fresh'
    BY <2>1 DEF Fresh
  <2> QED BY <1>0, <2>2
<1>3. ASSUME NEW s \in Savers, Serialize(s) PROVE Fresh'
  <2>1. \A u \in Savers : \/ u # s /\ saver'[u].pc = saver[u].pc /\ saver'[u].v = saver[u].v
                          \/ saver[u].pc = "idle" /\ saver'[u].pc = "open"
    BY <1>3, <1>t, SerializeForm
  <2>2. tmp' = tmp /\ data' = data
    BY <1>3 DEF Serialize
  <2>3. \A u \in Savers : saver[u].pc = "rename" => saver'[u].pc = "rename" /\ saver'[u].v = saver[u].v
    BY <2>1
  <2>4. (\E u \in Savers : saver'[u].pc \in {"write", "rename"}) =>
          \E u \in Savers : saver[u].pc \in {"write", "rename"}
    BY <2>1
  <2> QED BY <2>2, <2>3, <2>4 DEF Fresh
<1>4. ASSUME NEW s \in Savers, OpenTmp(s) PROVE Fresh'
  <2>1. tmp' \in Inodes /\ data'[tmp'] = Empty
    BY <1>4, <1>t DEF OpenTmp, TypeOK
  <2> QED BY <1>t, <2>1 DEF Fresh, Empty
<1>5. ASSUME NEW s \in Savers, WriteBlock(s) PROVE Fresh'
  <2> DEFINE r == saver[s]
  <2>1. /\ r.pc = "write" /\ r.fd \in Inodes /\ r.v \in Versions /\ r.at \in Blocks
    BY <1>5, <1>t DEF WriteBlock, FileInv, Writing, TypeOK, SaverState, Blocks
  <2>2. /\ saver'[s].v = r.v
        /\ saver'[s].pc = IF r.at = Size(r.v) THEN "rename" ELSE "write"
        /\ \A u \in Savers \ {s} : saver'[u] = saver[u]
    BY <1>5, <1>t, Zenon DEF WriteBlock, TypeOK, SaverState
  <2>3. \A i \in Inodes, b \in Blocks :
          data'[i][b] = IF i = r.fd /\ b = r.at THEN r.v ELSE data[i][b]
    BY <1>5, <1>t, <2>1 DEF WriteBlock, TypeOK, Content
  <2>4. tmp' = tmp
    BY <1>5 DEF WriteBlock
  <2> SUFFICES ASSUME tmp # None, NEW v \in Versions, data'[tmp][Size(v)] = v
               PROVE  \E u \in Savers : saver'[u].pc = "rename" /\ saver'[u].v = v
    BY <2>4 DEF Fresh
  <2>5. tmp \in Inodes /\ Size(v) \in Blocks
    BY <1>t DEF TypeOK
  <2>6. CASE tmp = r.fd /\ Size(v) = r.at
    BY <2>2, <2>3, <2>5, <2>6
  <2>7. CASE ~(tmp = r.fd /\ Size(v) = r.at)
    <3>1. data[tmp][Size(v)] = v
      BY <2>3, <2>5, <2>7
    <3>2. PICK u \in Savers : saver[u].pc = "rename" /\ saver[u].v = v
      BY <2>1, <3>1 DEF Fresh
    <3> QED BY <2>1, <2>2, <3>2
  <2> QED BY <2>6, <2>7
<1>6. ASSUME NEW s \in Savers, WriteFails(s) PROVE Fresh'
  <2>1. saver'[s].pc = "idle" /\ \A u \in Savers \ {s} : saver'[u] = saver[u]
    BY <1>6, <1>t DEF WriteFails, TypeOK, Idle
  <2> QED BY <1>6, <2>1 DEF WriteFails, Fresh
<1>7. ASSUME NEW s \in Savers, Rename(s) PROVE Fresh'
  BY <1>7 DEF Rename, Fresh
<1> QED BY <1>0, <1>1, <1>2, <1>3, <1>4, <1>5, <1>6, <1>7 DEF Next, Fresh

\* Two documents are never written alike.
LEMMA WholeOnce ==
  ASSUME NEW v \in Versions, NEW w \in Versions, Whole(v) = Whole(w)
  PROVE  v = w
<1>1. 1 \in Blocks /\ 1 <= Size(v) /\ 1 <= Size(w)
  BY SizeType DEF Blocks
<1>2. Whole(v)[1] = v /\ Whole(w)[1] = w
  BY <1>1 DEF Whole
<1> QED BY <1>2

\* A file that holds a document is read as that document, and any other as none.
LEMMA LoadedIs ==
  /\ \A v \in Versions : path # None /\ data[path] = Whole(v) => Loaded = v
  /\ Loaded = 0 \/ \E v \in Versions : path # None /\ data[path] = Whole(v) /\ Loaded = v
<1>1. ASSUME NEW v \in Versions, path # None, data[path] = Whole(v) PROVE Loaded = v
  <2>1. Parses(data[path])
    BY <1>1 DEF Parses
  <2>2. \A w \in Versions : data[path] = Whole(w) <=> w = v
    BY <1>1, WholeOnce
  <2> QED BY <1>1, <2>1, <2>2 DEF Loaded
<1>2. CASE \E v \in Versions : path # None /\ data[path] = Whole(v)
  BY <1>1, <1>2
<1>3. CASE ~\E v \in Versions : path # None /\ data[path] = Whole(v)
  BY <1>3 DEF Loaded, Parses
<1> QED BY <1>1, <1>2, <1>3

\* The last block of what is written whole is its own.
LEMMA LastBlock == \A v \in Versions : Whole(v)[Size(v)] = v
<1> TAKE v \in Versions
<1>1. Size(v) \in Blocks /\ Size(v) <= Size(v)
  BY SizeType DEF Blocks
<1> QED BY <1>1 DEF Whole

\* What the saves under way have taken, and whether they have met.
Held == {saver[s].v : s \in Busy}
Met == \E s \in Busy : ~saver[s].alone

\* Either one save is under way that met no other, or all have met one.
LEMMA AllMet == FileInv => \A s \in Busy : saver[s].alone <=> ~Met
BY DEF FileInv, Alone, Met, TypeOK, SaverState

\* A step of one save that changes nothing else of it.
Moves(s) ==
    /\ saver[s].pc # "idle" /\ saver'[s].pc # "idle"
    /\ saver'[s].v = saver[s].v /\ saver'[s].alone = saver[s].alone
    /\ \A u \in Savers \ {s} : saver'[u] = saver[u]

\* It leaves the saves under way what they were.
LEMMA MovesKeep ==
  ASSUME NEW s \in Savers, Moves(s)
  PROVE  Held' = Held /\ (Met' <=> Met)
<1>1. Busy' = Busy
  BY DEF Moves, Busy
<1>2. \A u \in Savers : saver'[u].v = saver[u].v /\ saver'[u].alone = saver[u].alone
  BY DEF Moves
<1>3. Met' <=> Met
  BY <1>1, <1>2 DEF Met, Busy
<1>4. Held' = Held
  BY <1>1, <1>2 DEF Held, Busy
<1> QED BY <1>3, <1>4

\* A save that ends.
Ends(s) ==
    /\ saver[s].pc # "idle" /\ saver'[s].pc = "idle"
    /\ \A u \in Savers \ {s} : saver'[u] = saver[u]

\* It takes its document with it, unless another save has the same; a save that met no
\* other leaves none, and those that met one stay so.
LEMMA EndsKeep ==
  ASSUME FileInv, NEW s \in Savers, Ends(s)
  PROVE  /\ Held' \in {Held, Held \ {saver[s].v}} /\ saver[s].v \in Held
         /\ ~Met => Held' = {} /\ ~Met' /\ Held = {saver[s].v}
         /\ Met => (Met' <=> Held' # {})
<1>1. Busy' = Busy \ {s} /\ s \in Busy
  BY DEF Ends, Busy
<1>2. \A u \in Busy' : saver'[u].v = saver[u].v /\ saver'[u].alone = saver[u].alone
  BY <1>1 DEF Ends, Busy
<1>3. Held' = {saver[u].v : u \in Busy \ {s}}
  BY <1>1, <1>2 DEF Held
<1>4. Held' \in {Held, Held \ {saver[s].v}} /\ saver[s].v \in Held
  BY <1>1, <1>3 DEF Held
<1>5. CASE ~Met
  <2>1. Busy = {s}
    BY <1>1, <1>5, AllMet DEF FileInv, Alone
  <2>2. Held' = {} /\ Held = {saver[s].v} /\ ~Met'
    BY <2>1, <1>1, <1>3 DEF Held, Met
  <2> QED BY <1>4, <1>5, <2>2
<1>6. CASE Met
  <2>1. Met' <=> Held' # {}
    BY <1>1, <1>2, <1>6, AllMet DEF Met, Held
  <2> QED BY <1>4, <1>6, <2>1
<1> QED BY <1>5, <1>6

\* What a start finds changes with the bytes of the state file only.
LEMMA LoadedSame ==
  ASSUME path' = path, path # None => data'[path] = data[path]
  PROVE  Loaded' = Loaded
<1>1. LoadedIs!1' /\ LoadedIs!2'
  BY LoadedIs, PTL
<1> QED BY <1>1, LoadedIs

\* An operation that moves no file and no save.
LEMMA IdleSaves ==
  ASSUME UNCHANGED <<path, data, saver>>
  PROVE  Loaded' = Loaded /\ Held' = Held /\ (Met' <=> Met)
BY LoadedSame DEF Held, Met, Busy

\* A save that begins is one of Begin.
LEMMA SerializeBegins ==
  ASSUME KeepInv, NEW s \in Savers, Serialize(s)
  PROVE  Loaded' = Loaded /\ doc' = doc /\ Held' = Held \cup {doc} /\ (Met' <=> Held # {})
<1>1. TypeOK /\ FileInv
  BY DEF KeepInv, FileInv
<1>2. Loaded' = Loaded /\ doc' = doc
  BY LoadedSame DEF Serialize
<1>3. Busy' = Busy \cup {s} /\ s \notin Busy
  BY <1>1, SerializeForm DEF Busy
<1>4. saver'[s].v = doc /\ \A u \in Busy : saver'[u].v = saver[u].v
  BY <1>1, SerializeForm DEF Busy
<1>5. Held' = Held \cup {doc}
  BY <1>3, <1>4 DEF Held
<1>6. (saver'[s].alone <=> Busy = {}) /\ \A u \in Busy : ~saver'[u].alone
  BY <1>1, SerializeForm DEF Busy
<1>7. Met' <=> Held # {}
  BY <1>3, <1>6 DEF Met, Held
<1> QED BY <1>2, <1>5, <1>7

\* The file that is opened is not the state file.
LEMMA OpenTmpHidden ==
  ASSUME KeepInv, NEW s \in Savers, OpenTmp(s)
  PROVE  Loaded' = Loaded /\ doc' = doc /\ Moves(s)
<1>1. TypeOK /\ TwoFiles
  BY DEF KeepInv, FileInv
<1>2. PICK i \in Inodes : /\ IF tmp = None THEN Unused(i) ELSE i = tmp
                          /\ data' = [data EXCEPT ![i] = Empty]
                          /\ saver' = [saver EXCEPT ![s].pc = "write", ![s].fd = i]
  BY DEF OpenTmp
<1>3. path' = path /\ doc' = doc /\ i # path /\ (path # None => data'[path] = data[path])
  BY <1>1, <1>2 DEF OpenTmp, Unused, TwoFiles, TypeOK
<1>4. Moves(s)
  BY <1>1, <1>2 DEF OpenTmp, Moves, TypeOK, SaverState
<1> QED BY <1>3, <1>4, LoadedSame

\* A block may reach the state file where saves have met: another save renamed the
\* file this one writes.  If the file then parses, it is this save's document.
LEMMA WriteBlockShows ==
  ASSUME KeepInv, NEW s \in Savers, WriteBlock(s)
  PROVE  /\ doc' = doc /\ Moves(s)
         /\ ~Met => Loaded' = Loaded
         /\ Loaded' \in {Loaded, 0, saver[s].v}
<1> DEFINE r == saver[s]
<1>1. TypeOK /\ TwoFiles /\ OwnFile /\ Writing /\ FileInv
  BY DEF KeepInv, FileInv
<1>2. /\ r.pc = "write" /\ r.fd \in Inodes /\ r.v \in Versions /\ r.at \in Blocks
      /\ r.fd # None
  BY <1>1, SizeType DEF WriteBlock, Writing, TypeOK, SaverState, Blocks
<1>3. Moves(s) /\ doc' = doc /\ path' = path
  <2>1. /\ saver'[s].v = r.v /\ saver'[s].alone = r.alone
        /\ saver'[s].pc = IF r.at = Size(r.v) THEN "rename" ELSE "write"
        /\ \A u \in Savers \ {s} : saver'[u] = saver[u]
    BY <1>1, Zenon DEF WriteBlock, TypeOK, SaverState
  <2>2. Moves(s)
    BY <1>2, <2>1 DEF Moves
  <2>3. doc' = doc /\ path' = path
    BY DEF WriteBlock
  <2> QED BY <2>2, <2>3
<1>4. /\ data'[r.fd][r.at] = r.v
      /\ \A i \in Inodes \ {r.fd} : data'[i] = data[i]
  BY <1>1, <1>2 DEF WriteBlock, TypeOK, Content
<1>5. CASE path # r.fd
  <2>1. Loaded' = Loaded
    BY <1>1, <1>3, <1>4, <1>5, LoadedSame DEF TypeOK
  <2> QED BY <1>3, <2>1
<1>6. CASE path = r.fd
  <2>1. Met
    <3>1. s \in Busy
      BY <1>2 DEF Busy
    <3>2. ~r.alone
      BY <1>1, <1>2, <1>6, <3>1 DEF OwnFile, TwoFiles
    <3> QED BY <3>1, <3>2 DEF Met
  <2>2. LoadedIs!2'
    BY LoadedIs, PTL
  <2>3. ASSUME NEW v \in Versions, data'[path'] = Whole(v) PROVE v = r.v
    <3>1. Whole(v)[r.at] = r.v
      BY <1>3, <1>4, <1>6, <2>3
    <3>2. r.v # None
      BY <1>2 DEF Versions
    <3> QED BY <1>2, <3>1, <3>2 DEF Whole
  <2>4. Loaded' \in {0, r.v}
    BY <2>2, <2>3
  <2> QED BY <1>3, <2>1, <2>4
<1> QED BY <1>5, <1>6

\* A rename puts into place what some save wrote that is still there to rename it; one
\* that met no other its own.
LEMMA RenameShows ==
  ASSUME KeepInv, NEW s \in Savers, Rename(s)
  PROVE  /\ doc' = doc /\ Ends(s)
         /\ ~Met => Loaded' \in {Loaded, saver[s].v}
         /\ Loaded' \in {Loaded, 0} \cup Held
<1>1. TypeOK /\ OwnFile /\ FileInv /\ Fresh
  BY DEF KeepInv, FileInv
<1>2. doc' = doc /\ data' = data /\ Ends(s) /\ s \in Busy /\ saver[s].pc = "rename"
  BY <1>1 DEF Rename, Ends, TypeOK, Idle, Busy
<1>3. CASE path' = path
  <2>1. Loaded' = Loaded
    BY <1>2, <1>3, LoadedSame
  <2> QED BY <1>2, <2>1
<1>4. CASE tmp # None /\ path' = tmp
  <2>1. LoadedIs!1' /\ LoadedIs!2'
    BY LoadedIs, PTL
  <2>2. ASSUME NEW v \in Versions, data'[path'] = Whole(v) PROVE v \in Held
    <3>1. data[tmp][Size(v)] = v
      BY <1>2, <1>4, <2>2, LastBlock
    <3>2. PICK u \in Savers : saver[u].pc = "rename" /\ saver[u].v = v
      BY <1>1, <1>2, <1>4, <3>1 DEF Fresh
    <3> QED BY <3>2 DEF Held, Busy
  <2>3. Loaded' \in {0} \cup Held
    BY <2>1, <2>2
  <2>4. ASSUME ~Met PROVE Loaded' = saver[s].v
    <3>1. saver[s].alone /\ saver[s].v \in Versions
      BY <1>1, <1>2, <2>4, AllMet DEF TypeOK, SaverState
    <3>2. data'[path'] = Whole(saver[s].v)
      BY <1>1, <1>2, <1>4, <3>1 DEF OwnFile
    <3> QED BY <1>4, <2>1, <3>1, <3>2
  <2> QED BY <1>2, <2>3, <2>4
<1> QED BY <1>3, <1>4 DEF Rename

\* A save that ends is one of End or of Clash, if it leaves the right file.
LEMMA EndsSaves ==
  ASSUME FileInv, NEW s \in Savers, Ends(s), doc' = doc,
         ~Met => Loaded' \in {Loaded, saver[s].v},
         Loaded' \in {Loaded, 0} \cup Held
  PROVE  File!Next
<1>1. /\ Held' \in {Held, Held \ {saver[s].v}} /\ saver[s].v \in Held
      /\ ~Met => Held' = {} /\ ~Met' /\ Held = {saver[s].v}
      /\ Met => (Met' <=> Held' # {})
  BY EndsKeep
<1>2. CASE ~Met
  <2>1. ~Met /\ Held # {} /\ Loaded' \in {Loaded} \cup Held /\ Held' = {}
    BY <1>1, <1>2
  <2>2. Met' <=> Met
    BY <1>1, <1>2
  <2>3. File!End
    BY <2>1, <2>2 DEF File!End, Met, Held
  <2> QED BY <2>3 DEF File!Next
<1>3. CASE Met
  <2>1. Met /\ Held' \in {Held} \cup {Held \ {d} : d \in Held} /\ (Met' <=> Held' # {})
    BY <1>1, <1>3
  <2>2. File!Clash
    BY <2>1 DEF File!Clash, Met, Held
  <2> QED BY <2>2 DEF File!Next
<1> QED BY <1>2, <1>3

\* Every step of the saves is a step of StateFile, or none it sees.
LEMMA KeepStep ==
  ASSUME KeepInv, [Next]_vars
  PROVE  [File!Next]_File!vars
<1>0. FileInv
  BY DEF KeepInv
<1>s. ASSUME Loaded' = Loaded, doc' = doc, Held' = Held, Met' <=> Met
      PROVE  UNCHANGED File!vars
  BY <1>s DEF File!vars, Met, Held
<1>1. CASE Mutate
  <2>1. doc' \in Versions
    BY <1>0, <1>1 DEF Mutate, FileInv, TypeOK, Versions
  <2>2. Loaded' = Loaded /\ Held' = Held /\ (Met' <=> Met)
    BY <1>1, IdleSaves DEF Mutate
  <2>3. File!Change
    BY <2>1, <2>2 DEF File!Change, Met, Held
  <2> QED BY <2>3 DEF File!Next
<1>2. CASE Restart
  <2>1. doc' = Loaded /\ Loaded' = Loaded
    BY <1>2, LoadedSame DEF Restart
  <2>2. Busy' = {}
    BY <1>2 DEF Restart, Busy, Idle
  <2>3. Held' = {} /\ ~Met'
    BY <2>2 DEF Held, Met
  <2>4. File!Restart
    BY <2>1, <2>3 DEF File!Restart, Met, Held
  <2> QED BY <2>4 DEF File!Next
<1>3. CASE UNCHANGED vars
  BY <1>3, <1>s, IdleSaves DEF vars
<1>4. ASSUME NEW s \in Savers, Serialize(s) PROVE File!Next
  <2>1. File!Begin
    BY <1>4, SerializeBegins DEF File!Begin, Met, Held
  <2> QED BY <2>1 DEF File!Next
<1>5. ASSUME NEW s \in Savers, OpenTmp(s) PROVE UNCHANGED File!vars
  BY <1>5, <1>s, OpenTmpHidden, MovesKeep
<1>6. ASSUME NEW s \in Savers, WriteBlock(s) PROVE [File!Next]_File!vars
  <2>1. Held' = Held /\ (Met' <=> Met) /\ doc' = doc
    BY <1>6, WriteBlockShows, MovesKeep
  <2>2. CASE ~Met
    BY <1>6, <1>s, <2>1, <2>2, WriteBlockShows
  <2>3. CASE Met
    <3>1. saver[s].v \in Held
      BY <1>6 DEF WriteBlock, Held, Busy
    <3>2. Held # {} /\ Loaded' \in {Loaded, 0} \cup Held
      BY <1>6, <3>1, WriteBlockShows
    <3>3. File!Clash
      BY <2>1, <2>3, <3>2 DEF File!Clash, Met, Held
    <3> QED BY <3>3 DEF File!Next
  <2> QED BY <2>2, <2>3
<1>7. ASSUME NEW s \in Savers, WriteFails(s) PROVE File!Next
  <2>1. Ends(s) /\ doc' = doc
    BY <1>0, <1>7 DEF FileInv, WriteFails, Ends, TypeOK, Idle
  <2>2. Loaded' = Loaded
    BY <1>7, LoadedSame DEF WriteFails
  <2> QED BY <1>0, <2>1, <2>2, EndsSaves
<1>8. ASSUME NEW s \in Savers, Rename(s) PROVE File!Next
  BY <1>0, <1>8, RenameShows, EndsSaves
<1> QED BY <1>1, <1>2, <1>3, <1>4, <1>5, <1>6, <1>7, <1>8 DEF Next

\* At the start there is no file and no save.
LEMMA KeepInit == Init => File!Init /\ KeepInv
<1> SUFFICES ASSUME Init PROVE File!Init /\ KeepInv
  OBVIOUS
<1>1. Busy = {}
  BY DEF Init, Busy, Idle
<1>2. Loaded = 0 /\ Fresh
  BY DEF Init, Loaded, Fresh
<1>3. Held = {} /\ ~Met
  BY <1>1 DEF Held, Met
<1>4. File!Init
  BY <1>2, <1>3 DEF Init, File!Init, Held, Met
<1> QED BY <1>2, <1>4, FileInit DEF KeepInv

\* The saves, the files and the names (save, write_atomic and the loader of realtime.rs)
\* implement StateFile: what a start finds is the document of a save that was under way
\* when the file changed, or an empty one where saves met; for any number of saves,
\* files and documents, wherever a save fails and whenever the process dies.
THEOREM KeepsStateFileHolds == Spec => KeepsStateFile
BY KeepInit, FreshStep, KeepStep, PTL DEF Spec, KeepsStateFile, File!Spec
=============================================================================

-------------------------- MODULE StatePersistence --------------------------
(***************************************************************************)
(* The state file of an engine: save, write_atomic and the loader of       *)
(* new_mode (crates/server/src/realtime.rs).                               *)
(*                                                                         *)
(* Every task and request of the server saves, on any of the runtime's     *)
(* threads.  A save serializes the document under its mutex and then, with *)
(* the mutex released, writes a temporary file and renames it; all saves   *)
(* share the name of that file.                                            *)
(***************************************************************************)
EXTENDS Naturals

CONSTANTS
    Savers,      \* saves in progress at one time
    Inodes,      \* files with content; one without a name or a writer is free
    None,
    MaxVersion   \* bound: changes of the document

ASSUME VersionAssumption == MaxVersion \in Nat
ASSUME NoneAssumption == None \notin Inodes \cup Nat

VARIABLES
    doc,    \* the document in memory, by the number of changes to it
    path,   \* the file the state path names, or None
    tmp,    \* the file its json.tmp sibling names, or None
    data,   \* the contents of the files
    saver,  \* the saves in progress
    saved,  \* the document last renamed into place, or None
    mixed   \* saves have overlapped since a save that met no other

vars == <<doc, path, tmp, data, saver, saved, mixed>>

-----------------------------------------------------------------------------
(* A document is written in blocks; the shorter one has one less.          *)

Versions == 0..MaxVersion
Blocks == 1..2

\* Two sizes of a document, so that one written over the other leaves a tail.
Size(v) == 1 + (v % 2)

Content == [Blocks -> Versions \cup {None}]
Empty == [b \in Blocks |-> None]
Whole(v) == [b \in Blocks |-> IF b <= Size(v) THEN v ELSE None]

\* serde_json parses what one save wrote from its first to its last byte.
Parses(content) == \E v \in Versions : content = Whole(v)

SaverState == [pc: {"idle", "open", "write", "rename"}, v: Versions,
               fd: Inodes \cup {None}, at: 1..3, alone: BOOLEAN]

Idle == [pc |-> "idle", v |-> 0, fd |-> None, at |-> 1, alone |-> TRUE]

TypeOK ==
    /\ doc \in Versions
    /\ {path, tmp} \subseteq Inodes \cup {None}
    /\ data \in [Inodes -> Content]
    /\ saver \in [Savers -> SaverState]
    /\ saved \in Versions \cup {None}
    /\ mixed \in BOOLEAN

Busy == {s \in Savers : saver[s].pc # "idle"}

Init ==
    /\ doc = 0 /\ path = None /\ tmp = None /\ saved = None /\ mixed = FALSE
    /\ data = [i \in Inodes |-> Empty]
    /\ saver = [s \in Savers |-> Idle]

-----------------------------------------------------------------------------

\* Some handler or task changes the document under its mutex.
Mutate ==
    /\ doc < MaxVersion /\ doc' = doc + 1
    /\ UNCHANGED <<path, tmp, data, saver, saved, mixed>>

\* save serializes the document.  A save that starts while another is under way
\* marks both.
Serialize(s) ==
    /\ s \notin Busy
    /\ saver' = [u \in Savers |->
                   IF u = s THEN [Idle EXCEPT !.pc = "open", !.v = doc, !.alone = (Busy = {})]
                   ELSE IF u \in Busy THEN [saver[u] EXCEPT !.alone = FALSE] ELSE saver[u]]
    /\ mixed' = (mixed \/ Busy # {})
    /\ UNCHANGED <<doc, path, tmp, data, saved>>

Unused(i) == path # i /\ tmp # i /\ \A u \in Savers : saver[u].fd # i

\* Mutant: the file left by an earlier save is written over, not truncated.
OpenTmpAsItIs(s) ==
    /\ saver[s].pc = "open"
    /\ \E i \in Inodes :
        /\ IF tmp = None THEN Unused(i) ELSE i = tmp
        /\ tmp' = i
        /\ data' = IF tmp = None THEN [data EXCEPT ![i] = Empty] ELSE data
        /\ saver' = [saver EXCEPT ![s].pc = "write", ![s].fd = i]
    /\ UNCHANGED <<doc, path, saved, mixed>>

\* The temporary file is created, or the one that is there is truncated.
OpenTmp(s) ==
    /\ saver[s].pc = "open"
    /\ \E i \in Inodes :
        /\ IF tmp = None THEN Unused(i) ELSE i = tmp
        /\ tmp' = i
        /\ data' = [data EXCEPT ![i] = Empty]
        /\ saver' = [saver EXCEPT ![s].pc = "write", ![s].fd = i]
    /\ UNCHANGED <<doc, path, saved, mixed>>

\* Each write lands at the writer's own offset of the file it opened.
WriteBlock(s) ==
    LET r == saver[s] IN
    /\ r.pc = "write"
    /\ data' = [data EXCEPT ![r.fd][r.at] = r.v]
    /\ saver' = [saver EXCEPT ![s].at = r.at + 1,
                              ![s].pc = IF r.at = Size(r.v) THEN "rename" ELSE "write"]
    /\ UNCHANGED <<doc, path, tmp, saved, mixed>>

\* Mutant: the error of a write is ignored and the file renamed.
WriteFailsOn(s) ==
    /\ saver[s].pc \in {"open", "write"}
    /\ saver' = [saver EXCEPT ![s].pc = "rename"]
    /\ UNCHANGED <<doc, path, tmp, data, saved, mixed>>

\* The file cannot be opened, or the disk is full: the error is dropped.
WriteFails(s) ==
    /\ saver[s].pc \in {"open", "write"}
    /\ saver' = [saver EXCEPT ![s] = Idle]
    /\ UNCHANGED <<doc, path, tmp, data, saved, mixed>>

\* The rename moves whatever the temporary name names now.  It fails when another
\* save renamed it already, or for reasons of the file system, and then removes the
\* temporary file, if there is one.
Rename(s) ==
    /\ saver[s].pc = "rename"
    /\ \/ /\ tmp # None /\ path' = tmp
          /\ saved' = saver[s].v
          /\ mixed' = (mixed /\ ~saver[s].alone)
       \/ UNCHANGED <<path, saved, mixed>>
    /\ tmp' = None
    /\ saver' = [saver EXCEPT ![s] = Idle]
    /\ UNCHANGED <<doc, data>>

\* Mutant: the first block is taken for the document.
LoadedUnparsed == IF path # None THEN data[path][1] ELSE 0

\* The document a start finds: a file that does not parse counts as none.  That the
\* real engine takes over a file of an earlier version from the temporary directory
\* while its own does not exist yet is left out.
Loaded == IF path # None /\ Parses(data[path])
          THEN CHOOSE v \in Versions : data[path] = Whole(v) ELSE 0

\* The process dies and starts again.
Restart ==
    /\ doc' = Loaded
    /\ saver' = [s \in Savers |-> Idle]
    /\ UNCHANGED <<path, tmp, data, saved, mixed>>

Next ==
    \/ Mutate \/ Restart
    \/ \E s \in Savers :
        Serialize(s) \/ OpenTmp(s) \/ WriteBlock(s) \/ WriteFails(s) \/ Rename(s)

Spec == Init /\ [][Next]_vars

-----------------------------------------------------------------------------
(* What must hold.                                                         *)

\* As long as no two saves overlap, the state file is at every moment exactly what
\* the last successful save wrote, whatever was interrupted where: a restart loses
\* what was not saved and nothing else.
FileIsLastSave ==
    ~mixed => IF saved = None THEN path = None ELSE path # None /\ data[path] = Whole(saved)

\* A save that met no other leaves its document in the file, or the file alone: it
\* repairs what overlapping saves, failures and crashes before it left behind.
LoneSaveRepairs ==
    [][\A s \in Savers :
         saver[s].alone /\ saver[s].pc = "rename" /\ path' # path => data'[path'] = Whole(saver[s].v)]_vars

\* The state file as a start reads it.
File ==
    INSTANCE StateFile
    WITH Documents <- Versions, Blank <- 0, file <- Loaded,
         held <- {saver[s].v : s \in Busy},
         met <- \E s \in Busy : ~saver[s].alone

\* Whatever the interleaving of saves, failures and restarts, what a start finds is the
\* document of a save that was still under way when the file changed or, where saves
\* met, an empty one: the temporary file all saves share, which any of them truncates,
\* renames or leaves behind, never brings back a document that was overtaken before.
KeepsStateFile == File!Spec
=============================================================================

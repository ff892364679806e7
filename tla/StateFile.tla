------------------------------ MODULE StateFile ------------------------------
(***************************************************************************)
(* What save, write_atomic and the loader (crates/server/src/realtime.rs)  *)
(* promise of the state file together, whatever becomes of the bytes.  A   *)
(* start finds the document of a save that was under way when the file     *)
(* last changed or, where saves met, an empty one; never a document that   *)
(* was left behind in a temporary file, and never a part of one.           *)
(***************************************************************************)
CONSTANTS
    Documents,
    Blank       \* what a start makes of a file that is missing or does not parse

VARIABLES
    doc,   \* the document in memory
    file,  \* the document a start would find
    held,  \* the documents that saves under way have taken
    met    \* the saves under way have met one another

vars == <<doc, file, held, met>>

Init == doc = Blank /\ file = Blank /\ held = {} /\ met = FALSE

\* Some handler or task changes the document.
Change == doc' \in Documents /\ UNCHANGED <<file, held, met>>

\* A save takes a copy of it.
Begin ==
    /\ held' = held \cup {doc}
    /\ met' = (held # {})
    /\ UNCHANGED <<doc, file>>

\* A save that met no other ends: its document is in the file, or it failed and the
\* file is as it was.
End ==
    /\ ~met /\ held # {}
    /\ file' \in {file} \cup held /\ held' = {}
    /\ UNCHANGED <<doc, met>>

\* A save that met others goes on or ends.  It may rename what another wrote, or write
\* to a file another renamed, and so leave the document of any of them, or none that
\* parses.
Clash ==
    /\ met
    /\ file' \in {file, Blank} \cup held
    /\ held' \in {held} \cup {held \ {d} : d \in held}
    /\ met' = (held' # {})
    /\ UNCHANGED doc

\* The process dies, and the next one starts from the file.
Restart == doc' = file /\ held' = {} /\ met' = FALSE /\ UNCHANGED file

Next == Change \/ Begin \/ End \/ Clash \/ Restart

Spec == Init /\ [][Next]_vars
=============================================================================

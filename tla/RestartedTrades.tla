--------------------------- MODULE RestartedTrades ---------------------------
(***************************************************************************)
(* LiveTrades with the state file and the process that dies.               *)
(*                                                                         *)
(* Every mutation of RtDoc is followed by save(), after the lock on the    *)
(* document is released and with its failure dropped: what the file        *)
(* holds lags the document by any number of steps.  save() serializes      *)
(* under the lock and writes outside it, so any number of saves, of        *)
(* documents old and new, go on beside the tasks.  What they make of the   *)
(* file is StateFile, which StatePersistence shows of the bytes.           *)
(*                                                                         *)
(* Of the file only the trades are followed.  The flags saved with them    *)
(* (engine on, armed, last square-off day) are whatever some request left  *)
(* there, so a restart finds any of them.                                  *)
(***************************************************************************)
EXTENDS LiveTrades

CONSTANTS
    MaxCrash,  \* bound: process restarts
    MaxHeld    \* bound: documents on their way to the file at one time

ASSUME CrashAssumption == MaxCrash \in Nat
ASSUME HeldAssumption == MaxHeld \in Nat

VARIABLES
    disk,    \* the trades a start would find in the state file
    held,    \* what the saves under way have serialized
    met,     \* saves under way have met one another
    crashes

fileVars == <<disk, held, met, crashes>>

\* What serializing the document keeps of it here.
Snapshot == [pos |-> doc.pos, closed |-> doc.closed]

Books == [pos: [Trades -> PosState], closed: [Trades -> Nat]]

\* A start that cannot parse the file begins with an empty book.
Unreadable == [pos |-> [e \in Trades |-> "absent"], closed |-> [e \in Trades |-> 0]]

File ==
    INSTANCE StateFile
    WITH Documents <- Books, Blank <- Unreadable, doc <- Snapshot, file <- disk

RestartInit == Init /\ disk = Snapshot /\ held = {} /\ met = FALSE /\ crashes = 0

\* A save serializes the document.  Within the bounds nobody reads the file after the
\* last restart, so that no save is followed then.
SaveBegins ==
    /\ crashes < MaxCrash /\ Cardinality(held \cup {Snapshot}) <= MaxHeld
    /\ UNCHANGED <<vars, crashes>>
    /\ File!Begin

SaveEnds == UNCHANGED <<vars, crashes>> /\ File!End

SavesClash == UNCHANGED <<vars, crashes>> /\ File!Clash

\* The process dies between any two steps; load_state starts the next one from
\* the file, the statuses of the positions and `armed` as they were saved.
Crash ==
    /\ crashes < MaxCrash
    /\ crashes' = crashes + 1
    /\ \E on, armed, squared \in BOOLEAN :
        /\ armed => on
        /\ doc' = [on |-> on, armed |-> armed, squared |-> squared,
                   pos |-> disk.pos, closed |-> disk.closed]
    /\ File!Restart
    /\ task' = [t \in Tasks |-> Idle]
    /\ force' = FALSE /\ snap' = Flat
    /\ UNCHANGED <<brokerVars, late, outside>>

RestartNext ==
    \/ Next /\ UNCHANGED fileVars
    \/ SaveBegins \/ SaveEnds \/ SavesClash \/ Crash

RestartSpec == RestartInit /\ [][RestartNext]_<<vars, fileVars>>

-----------------------------------------------------------------------------

\* Each life of the process gets at most one exit order accepted for a trade:
\* restarts are the only way to a second one.
ExitBudget == \A e \in Trades : exits[e] <= 1 + crashes

\* No order of saves and restarts makes a trade open and closed at once, or
\* banked twice: neither in memory nor in any snapshot on its way to the file.
LedgerOnceEverywhere ==
    \A d \in {Snapshot, disk} \cup held, e \in Trades :
        d.closed[e] <= IF d.pos[e] = "absent" THEN 1 ELSE 0
=============================================================================

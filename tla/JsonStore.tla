------------------------------ MODULE JsonStore ------------------------------
(***************************************************************************)
(* JsonFileStore, the known issues of a local `adk web`: every add loads   *)
(* the file, writes a whole new one beside it under a fixed name and moves *)
(* it into place, without a lock.  A name points at an inode; a process    *)
(* goes on writing to the inode it opened, whatever the name points at.    *)
(***************************************************************************)
EXTENDS Naturals, FiniteSets

CONSTANTS
    Procs,      \* processes that use one store
    MaxAdds     \* bound on adds; an add is a record, and brings an inode

ASSUME FileAssumption == MaxAdds \in Nat

Adds == 1 .. MaxAdds
Missing == 0

VARIABLES
    path,       \* the inode of the store, or Missing
    tmp,        \* the inode of the .tmp file, or Missing
    content,    \* inode -> the records in it, and whether the JSON is complete
    adder,      \* each process: its step, its add, what it loaded, its inode
    adds,       \* adds so far
    stored,     \* history: records whose add returned
    alone       \* history: no two adds have overlapped

fileVars == <<path, tmp, content, adder, adds, stored, alone>>

Resting == [pc |-> "rest"]
Loaded == IF path = Missing THEN {} ELSE content[path].recs
Readable == path # Missing => content[path].whole

FileInit ==
    /\ path = Missing /\ tmp = Missing
    /\ content = [i \in Adds |-> [recs |-> {}, whole |-> FALSE]]
    /\ adder = [p \in Procs |-> Resting]
    /\ adds = 0 /\ stored = {} /\ alone = TRUE

\* add_known: load and append.  A file that does not parse raises.
LoadFile(p) ==
    /\ adder[p] = Resting /\ adds < MaxAdds /\ Readable
    /\ adds' = adds + 1
    /\ adder' = [adder EXCEPT ![p] =
                   [pc |-> "open", add |-> adds + 1, recs |-> Loaded \cup {adds + 1}, fd |-> Missing]]
    /\ alone' = (alone /\ \A q \in Procs : adder[q] = Resting)
    /\ UNCHANGED <<path, tmp, content, stored>>

\* Mutant of OpenTmp: the store itself is opened for writing.
OpenInPlace(p) ==
    LET i == IF path = Missing THEN adder[p].add ELSE path
    IN  /\ adder[p].pc = "open"
        /\ tmp' = i
        /\ content' = [content EXCEPT ![i] = [recs |-> {}, whole |-> FALSE]]
        /\ adder' = [adder EXCEPT ![p].pc = "write", ![p].fd = i]
        /\ UNCHANGED <<path, adds, stored, alone>>

\* open(tmp, "w") creates the file or empties the one that is there.
OpenTmp(p) ==
    LET i == IF tmp = Missing THEN adder[p].add ELSE tmp
    IN  /\ adder[p].pc = "open"
        /\ tmp' = i
        /\ content' = [content EXCEPT ![i] = [recs |-> {}, whole |-> FALSE]]
        /\ adder' = [adder EXCEPT ![p].pc = "write", ![p].fd = i]
        /\ UNCHANGED <<path, adds, stored, alone>>

WriteTmp(p) ==
    /\ adder[p].pc = "write"
    /\ content' = [content EXCEPT ![adder[p].fd] = [recs |-> adder[p].recs, whole |-> TRUE]]
    /\ adder' = [adder EXCEPT ![p].pc = "replace"]
    /\ UNCHANGED <<path, tmp, adds, stored, alone>>

\* os.replace moves whatever the name stands for now, and raises when it is gone.
ReplaceFile(p) ==
    /\ adder[p].pc = "replace"
    /\ IF tmp = Missing THEN UNCHANGED <<path, tmp, stored>>
       ELSE path' = tmp /\ tmp' = Missing /\ stored' = stored \cup {adder[p].add}
    /\ adder' = [adder EXCEPT ![p] = Resting]
    /\ UNCHANGED <<content, adds, alone>>

AdderKilled(p) ==
    /\ adder[p] # Resting
    /\ adder' = [adder EXCEPT ![p] = Resting]
    /\ UNCHANGED <<path, tmp, content, adds, stored, alone>>

FileNext == \E p \in Procs : LoadFile(p) \/ OpenTmp(p) \/ WriteTmp(p) \/ ReplaceFile(p) \/ AdderKilled(p)

FileSpec == FileInit /\ [][FileNext]_fileVars

\* As long as no two adds have overlapped, the store can be read and holds
\* exactly the records whose add returned, whenever a process was killed
\* (stores.py 63-71: a crash mid-write must never leave a half-written store).
StoreSurvivesKill == alone => Readable /\ Loaded = stored
===============================================================================

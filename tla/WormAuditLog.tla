---------------------------- MODULE WormAuditLog ----------------------------
(***************************************************************************)
(* WORMAuditLog with its local backend: one file per event, and the files  *)
(* .sequence and .last_hash from which a restarted process goes on.        *)
(*                                                                         *)
(* The process may die between any two file operations, and any of them    *)
(* may raise OSError, which makes append raise.  open(path, "w") truncates *)
(* before the new content is there, so each write is two steps.  An event  *)
(* hash covers the event's content only, so it is the event itself here;   *)
(* the caller may append the same event again.  The process does not run   *)
(* as root, so a file made read-only cannot be opened for writing.         *)
(***************************************************************************)
EXTENDS Integers

CONSTANTS
    Events,     \* the AuditEvents a caller appends
    Genesis,    \* the previous_hash of an empty log, "0" * 64
    Torn,       \* the content of a file truncated and not yet written
    MaxSeq, MaxCrashes      \* bounds

ASSUME EventsAssumption == Genesis \notin Events /\ Torn \notin Events /\ Genesis # Torn
ASSUME TornAssumption   == Torn \notin Nat
ASSUME BoundAssumption  == MaxSeq \in Nat /\ MaxCrashes \in Nat

VARIABLES
    files,      \* event files; the name is made of the entry's seq and event
    seqFile,    \* .sequence (0 when absent)
    hashFile,   \* .last_hash (Genesis when absent)
    up,         \* is the process, with its WORMAuditLog, alive?
    pc,         \* where append is
    current,    \* append's worm_event, Torn outside append
    sequence,   \* self._sequence
    previous,   \* self._previous_hash
    served,     \* self._events, what get_events and verify_integrity read
    acked,      \* history: the events append has returned
    refused,    \* history: those whose append raised in this process
    crashes     \* history: how often the process died

disk   == <<files, seqFile, hashFile>>
memory == <<up, pc, current, sequence, previous, served>>
vars   == <<disk, memory, acked, refused, crashes>>

Hashes == Events \cup {Genesis, Torn}

Entry == [seq : Nat \ {0}, event : Events, prev : Hashes]

File == [entry : Entry, state : {"empty", "whole", "sealed"}]

Steps == {"idle", "open", "write", "chmod", "openSeq", "writeSeq", "openHash", "writeHash",
          "return"}

TypeOK ==
    /\ files \subseteq File
    /\ seqFile \in Nat \cup {Torn}
    /\ hashFile \in Hashes
    /\ up \in BOOLEAN
    /\ pc \in Steps
    /\ pc # "idle" => current \in Entry
    /\ sequence \in Nat
    /\ previous \in Hashes
    /\ served \subseteq Entry
    /\ acked \subseteq Entry
    /\ refused \subseteq Entry
    /\ crashes \in Nat

Init ==
    /\ files = {} /\ seqFile = 0 /\ hashFile = Genesis
    /\ up = FALSE /\ pc = "idle" /\ current = Torn
    /\ sequence = 0 /\ previous = Genesis /\ served = {}
    /\ acked = {} /\ refused = {} /\ crashes = 0

-----------------------------------------------------------------------------
\* Mutant of Open: a torn .sequence is read as an empty log.
OpenTornAsEmpty ==
    /\ ~up
    /\ up' = TRUE
    /\ sequence' = IF seqFile = Torn THEN 0 ELSE seqFile
    /\ previous' = hashFile
    /\ UNCHANGED <<disk, pc, current, served, acked, refused, crashes>>

\* __init__ and _load_sequence.  int("") raises ValueError: a torn .sequence
\* keeps the log closed.  A torn .last_hash is read as the hash "".
Open ==
    /\ ~up /\ seqFile # Torn
    /\ up' = TRUE
    /\ sequence' = seqFile
    /\ previous' = hashFile
    /\ UNCHANGED <<disk, pc, current, served, acked, refused, crashes>>

\* The synchronous prefix of append: the number is taken, the event is hashed,
\* signed and kept in memory, and only then written.
StartAppend(e) ==
    LET entry == [seq |-> sequence + 1, event |-> e, prev |-> previous] IN
    /\ up /\ pc = "idle" /\ sequence < MaxSeq
    /\ sequence' = sequence + 1
    /\ current' = entry
    /\ served' = served \cup {entry}
    /\ pc' = "open"
    /\ UNCHANGED <<disk, up, previous, acked, refused, crashes>>

\* json.dumps raises on metadata it cannot encode: the number is lost.
RejectEvent ==
    /\ up /\ pc = "idle" /\ sequence < MaxSeq
    /\ sequence' = sequence + 1
    /\ UNCHANGED <<disk, up, pc, current, previous, served, acked, refused, crashes>>

SameName(f) == f.entry.seq = current.seq /\ f.entry.event = current.event

Store(state) ==
    files' = {f \in files : ~SameName(f)} \cup {[entry |-> current, state |-> state]}

\* _write_local: the file is created or emptied, filled, and made read-only.
OpenFile ==
    /\ up /\ pc = "open"
    /\ \A f \in files : SameName(f) => f.state # "sealed"
    /\ Store("empty")
    /\ pc' = "write"
    /\ UNCHANGED <<seqFile, hashFile, up, current, sequence, previous, served, acked,
                   refused, crashes>>

WriteFile ==
    /\ up /\ pc = "write"
    /\ Store("whole")
    /\ pc' = "chmod"
    /\ UNCHANGED <<seqFile, hashFile, up, current, sequence, previous, served, acked,
                   refused, crashes>>

\* Mutant of SealFile: self._previous_hash keeps the hash before this event's.
SealFileUnlinked ==
    /\ up /\ pc = "chmod"
    /\ Store("sealed")
    /\ pc' = "openSeq"
    /\ UNCHANGED <<seqFile, hashFile, up, current, sequence, previous, served, acked,
                   refused, crashes>>

\* ... and append goes on to set self._previous_hash.
SealFile ==
    /\ up /\ pc = "chmod"
    /\ Store("sealed")
    /\ previous' = current.event
    /\ pc' = "openSeq"
    /\ UNCHANGED <<seqFile, hashFile, up, current, sequence, served, acked, refused, crashes>>

\* _save_sequence
OpenSeq ==
    /\ up /\ pc = "openSeq"
    /\ seqFile' = Torn
    /\ pc' = "writeSeq"
    /\ UNCHANGED <<files, hashFile, up, current, sequence, previous, served, acked,
                   refused, crashes>>

WriteSeq ==
    /\ up /\ pc = "writeSeq"
    /\ seqFile' = sequence
    /\ pc' = "openHash"
    /\ UNCHANGED <<files, hashFile, up, current, sequence, previous, served, acked,
                   refused, crashes>>

\* _save_last_hash
OpenHash ==
    /\ up /\ pc = "openHash"
    /\ hashFile' = Torn
    /\ pc' = "writeHash"
    /\ UNCHANGED <<files, seqFile, up, current, sequence, previous, served, acked,
                   refused, crashes>>

WriteHash ==
    /\ up /\ pc = "writeHash"
    /\ hashFile' = current.event
    /\ pc' = "return"
    /\ UNCHANGED <<files, seqFile, up, current, sequence, previous, served, acked,
                   refused, crashes>>

\* The permissions of .last_hash are set, which may fail as well, and append returns.
Return ==
    /\ up /\ pc = "return"
    /\ acked' = acked \cup {current}
    /\ pc' = "idle" /\ current' = Torn
    /\ UNCHANGED <<disk, up, sequence, previous, served, refused, crashes>>

\* Mutant of OperationFails: like the GCS and S3 backends, _write_local only logs.
OperationFailsQuietly ==
    /\ up /\ pc \in {"open", "write", "chmod"}
    /\ pc' = "openSeq"
    /\ UNCHANGED <<disk, up, current, sequence, previous, served, acked, refused, crashes>>

\* A file operation raises OSError: append raises and leaves everything as it is.  A chmod
\* of .sequence that fails is no other than an open of .last_hash that does.
OperationFails ==
    /\ up /\ pc # "idle"
    /\ refused' = refused \cup {current}
    /\ pc' = "idle" /\ current' = Torn
    /\ UNCHANGED <<disk, up, sequence, previous, served, acked, crashes>>

\* The process dies: what it held in memory is gone.
Crash ==
    /\ up /\ crashes < MaxCrashes
    /\ up' = FALSE /\ pc' = "idle" /\ current' = Torn
    /\ sequence' = 0 /\ previous' = Genesis
    /\ served' = {} /\ refused' = {}
    /\ crashes' = crashes + 1
    /\ UNCHANGED <<disk, acked>>

Next ==
    \/ Open \/ Crash \/ RejectEvent
    \/ \E e \in Events : StartAppend(e)
    \/ OpenFile \/ WriteFile \/ SealFile
    \/ OpenSeq \/ WriteSeq \/ OpenHash \/ WriteHash \/ Return
    \/ OperationFails

Spec == Init /\ [][Next]_vars

-----------------------------------------------------------------------------
(* Properties *)

Stored == {f.entry : f \in {g \in files : g.state = "sealed"}}

\* What append has returned is an append-only log: it is on disk, read-only, it
\* stays there whatever dies or fails later, and its numbers only grow.  The log
\* is read off the disk, so an entry whose file a later append replaced, after a
\* restart from a stale .sequence, would leave it.
Durable == acked \cap Stored

AppendOnly == INSTANCE AppendOnlyLog WITH log <- Durable

ImplementsAppendOnly == AppendOnly!Spec

\* Returned means stored: no event is acknowledged and then lost.
AckedIsStored == acked \subseteq Stored

\* h is the hash an entry numbered n may name as its previous one, after the
\* acknowledged entries A and with the unacknowledged ones U on disk: that of the
\* last of A, or of one in U between the two, whose append did not return.  Only
\* a .last_hash torn by a crash breaks the chain, and then the link says so.
Links(h, n, A, U) ==
    \/ h = Torn
    \/ h = Genesis /\ A = {}
    \/ \E a \in A : h = a.event /\ \A c \in A : c.seq <= a.seq
    \/ \E u \in U : h = u.event /\ u.seq < n /\ \A c \in A : c.seq < u.seq

\* Every acknowledged event links back to the acknowledged one before it.  The
\* hash comes from memory in a running process, from .last_hash in a restarted one.
ChainUnbroken ==
    \A b \in acked :
        Links(b.prev, b.seq, {a \in acked : a.seq < b.seq}, Stored \ acked)

\* get_events serves no event that is neither on disk nor known to its caller as
\* failed: the append puts it into memory before it is written.
ServedIsStoredOrRefused ==
    up /\ pc = "idle" => served \subseteq Stored \cup refused

\* worm_audit.py:195, "Verify the integrity of the entire audit log": once the log
\* is open and idle, verify_integrity checks every event that is stored.
VerifyChecksEntireLog ==
    up /\ pc = "idle" => Stored \subseteq served

-----------------------------------------------------------------------------
(* The inductive invariant behind the theorems of WormAuditLogProofs *)

\* Every acknowledged number is below the next one the process, or a process
\* restarted from the disk as it is now, would take.
NumbersGrow ==
    /\ up => \A a \in acked : a.seq <= sequence
    /\ seqFile # Torn => \A a \in acked : a.seq <= seqFile
    /\ pc # "idle" => /\ up /\ current.seq = sequence
                      /\ \A a \in acked : a.seq < sequence
    /\ pc \in {"openHash", "writeHash", "return"} => seqFile = sequence

AfterSeal == {"openSeq", "writeSeq", "openHash", "writeHash", "return"}

\* Sealed files are out of append's reach, and the current entry gets its own.
FilesSafe ==
    /\ acked \subseteq Stored
    /\ pc \in {"write", "chmod"} => \A f \in files : SameName(f) => f.state # "sealed"
    /\ pc \in AfterSeal => current \in Stored

LinksNow(h, n) == Links(h, n, acked, Stored \ acked)

\* The sources of the next previous hash, in memory and on disk, and the one in use.  That
\* on disk may be of an entry whose append did not return, which is then one that a process
\* restarted from .sequence is past.
LinksReady ==
    /\ seqFile # Torn => LinksNow(hashFile, seqFile + 1)
    /\ up => LinksNow(hashFile, sequence + 1)
    /\ pc = "return" => hashFile = current.event
    /\ up /\ pc \notin AfterSeal => LinksNow(previous, sequence + 1)
    /\ pc \in AfterSeal => previous = current.event
    /\ pc # "idle" => LinksNow(current.prev, sequence)

\* Memory holds what is on disk, what the caller knows to have failed and the entry
\* append is still busy with.
ServedKnown ==
    served \subseteq Stored \cup refused \cup (IF pc = "idle" THEN {} ELSE {current})

IndInv == TypeOK /\ NumbersGrow /\ FilesSafe /\ LinksReady /\ ChainUnbroken /\ ServedKnown
=============================================================================

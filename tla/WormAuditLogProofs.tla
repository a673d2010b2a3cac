------------------------- MODULE WormAuditLogProofs -------------------------
(***************************************************************************)
(* Theorems about WormAuditLog, for any set of events and any number of    *)
(* crashes and failed file operations.  They all follow from IndInv.       *)
(***************************************************************************)
EXTENDS WormAuditLog, TLAPS

-----------------------------------------------------------------------------
(* What a step does to the disk *)

\* Storing the current entry touches no other file.
LEMMA StoreEffect ==
    ASSUME NEW state, Store(state), \A f \in files : SameName(f) => f.state # "sealed"
    PROVE  /\ Stored \subseteq Stored'
           /\ \A u \in Stored' \ Stored : u = current
           /\ state = "sealed" => current \in Stored'
<1>1. \A f \in files : f.state = "sealed" => f \in files'
  BY DEF Store
<1>2. \A f \in files' : f \in files \/ f = [entry |-> current, state |-> state]
  BY DEF Store
<1>3. [entry |-> current, state |-> state] \in files'
  BY DEF Store
<1> QED BY <1>1, <1>2, <1>3 DEF Stored

\* No step unseals a stored entry, and only append's current one is added.
LEMMA StoredGrows ==
    ASSUME TypeOK, FilesSafe, [Next]_vars
    PROVE  /\ Stored \subseteq Stored'
           /\ \A u \in Stored' \ Stored : u = current /\ pc = "chmod" /\ SealFile
<1>1. CASE OpenFile
  BY <1>1, StoreEffect DEF OpenFile, Store, Stored
<1>2. CASE WriteFile
  BY <1>2, StoreEffect DEF WriteFile, FilesSafe, Store, Stored
<1>3. CASE SealFile
  BY <1>3, StoreEffect DEF SealFile, FilesSafe
<1>4. CASE ~OpenFile /\ ~WriteFile /\ ~SealFile
  <2>1. files' = files
    BY <1>4 DEF Next, vars, disk, Open, Crash, RejectEvent, StartAppend, OpenSeq, WriteSeq,
                OpenHash, WriteHash, Return, OperationFails
  <2> QED BY <2>1 DEF Stored
<1> QED BY <1>1, <1>2, <1>3, <1>4

-----------------------------------------------------------------------------
(* The inductive invariant, one conjunct at a time *)

\* No step leaves the types of the state.
LEMMA TypeStep ==
    ASSUME TypeOK, NumbersGrow, [Next]_vars
    PROVE  TypeOK'
<1> USE EventsAssumption DEF TypeOK, Hashes, Steps
<1>1. CASE Open
  BY <1>1 DEF Open, disk
<1>8. CASE Crash
  <2>1. UNCHANGED <<files, seqFile, hashFile, acked>> /\ crashes' \in Nat
    BY <1>8 DEF Crash, disk
  <2>2. /\ up' = FALSE /\ pc' = "idle" /\ sequence' = 0 /\ previous' = Genesis
        /\ served' = {} /\ refused' = {}
    BY <1>8 DEF Crash
  <2> QED BY <2>1, <2>2
<1>9. CASE RejectEvent
  BY <1>9 DEF RejectEvent, disk, Entry
<1>2. ASSUME NEW e \in Events, StartAppend(e) PROVE TypeOK'
  <2>1. [seq |-> sequence + 1, event |-> e, prev |-> previous] \in Entry
    BY DEF Entry
  <2> QED BY <1>2, <2>1 DEF StartAppend, disk
<1>3. ASSUME NEW state \in {"empty", "whole", "sealed"}, pc # "idle", Store(state)
      PROVE  files' \subseteq File
  BY <1>3 DEF Store, File
<1>4. CASE OpenFile \/ WriteFile \/ SealFile
  BY <1>3, <1>4 DEF OpenFile, WriteFile, SealFile, Entry
<1>5. CASE OpenSeq \/ WriteSeq
  BY <1>5 DEF OpenSeq, WriteSeq
<1>6. CASE OpenHash \/ WriteHash
  BY <1>6 DEF OpenHash, WriteHash, Entry
<1>10. CASE Return \/ OperationFails
  BY <1>10 DEF Return, OperationFails, disk
<1>7. CASE UNCHANGED vars
  BY <1>7 DEF vars, disk, memory
<1> QED BY <1>1, <1>2, <1>4, <1>5, <1>6, <1>7, <1>8, <1>9, <1>10 DEF Next

\* The numbers a running or restarted process takes stay above the acknowledged.
LEMMA NumbersStep ==
    ASSUME TypeOK, NumbersGrow, [Next]_vars
    PROVE  NumbersGrow'
<1> USE TornAssumption DEF NumbersGrow
<1>0. \A a \in acked : a.seq \in Nat
  BY DEF TypeOK, Entry
<1>1. CASE Open
  BY <1>1 DEF Open, disk, TypeOK
<1>2. CASE Crash \/ RejectEvent
  BY <1>0, <1>2 DEF Crash, RejectEvent, disk, TypeOK
<1>3. ASSUME NEW e \in Events, StartAppend(e) PROVE NumbersGrow'
  BY <1>0, <1>3 DEF StartAppend, disk, TypeOK
<1>4. CASE OpenFile \/ WriteFile \/ SealFile
  BY <1>4 DEF OpenFile, WriteFile, SealFile
<1>5. CASE OpenSeq \/ OpenHash
  BY <1>5 DEF OpenSeq, OpenHash
<1>6. CASE WriteSeq
  BY <1>0, <1>6 DEF WriteSeq, TypeOK
<1>7. CASE WriteHash
  BY <1>7 DEF WriteHash
<1>8. CASE OperationFails
  BY <1>8 DEF OperationFails, disk
<1>10. CASE Return
  BY <1>0, <1>10 DEF Return, disk, TypeOK
<1>9. CASE UNCHANGED vars
  BY <1>9 DEF vars, disk, memory
<1> QED BY <1>1, <1>2, <1>3, <1>4, <1>5, <1>6, <1>7, <1>8, <1>9, <1>10 DEF Next

\* Acknowledged entries stay on disk and out of the reach of append.
LEMMA FilesStep ==
    ASSUME TypeOK, NumbersGrow, FilesSafe, [Next]_vars
    PROVE  FilesSafe'
<1> USE DEF FilesSafe, AfterSeal
<1>0. Stored \subseteq Stored'
  BY StoredGrows
<1>1. CASE Open \/ Crash \/ RejectEvent
  BY <1>0, <1>1 DEF Open, Crash, RejectEvent, NumbersGrow
<1>2. ASSUME NEW e \in Events, StartAppend(e) PROVE FilesSafe'
  BY <1>0, <1>2 DEF StartAppend
<1>3. CASE OpenFile \/ WriteFile
  BY <1>0, <1>3 DEF OpenFile, WriteFile, Store, SameName
<1>4. CASE SealFile
  BY <1>0, <1>4, StoreEffect DEF SealFile
<1>5. CASE OpenSeq \/ WriteSeq \/ OpenHash \/ WriteHash \/ OperationFails
  BY <1>0, <1>5 DEF OpenSeq, WriteSeq, OpenHash, WriteHash, OperationFails
<1>6. CASE Return
  BY <1>0, <1>6 DEF Return
<1>7. CASE UNCHANGED vars
  BY <1>7 DEF vars, disk, memory, Stored, SameName
<1> QED BY <1>1, <1>2, <1>3, <1>4, <1>5, <1>6, <1>7 DEF Next

-----------------------------------------------------------------------------
(* The chain *)

\* What may be linked to stays so when more is stored and numbers grow.
LEMMA LinksGrow ==
    ASSUME NEW h, NEW m \in Int, NEW n \in Int, m <= n,
           NEW A, NEW U, NEW V, U \subseteq V, \A u \in U : u.seq \in Int, Links(h, m, A, U)
    PROVE  Links(h, n, A, V)
BY DEF Links

\* While nothing is acknowledged, no step takes away a hash to link to.
LEMMA LinksStay ==
    ASSUME TypeOK, FilesSafe, [Next]_vars, acked' = acked,
           NEW h, NEW m \in Int, NEW n \in Int, m <= n, LinksNow(h, m)
    PROVE  Links(h, n, acked', Stored' \ acked')
<1>1. \A u \in Stored : u.seq \in Int
  BY DEF TypeOK, File, Entry, Stored
<1>2. Stored \ acked \subseteq Stored' \ acked'
  BY StoredGrows
<1> QED BY <1>1, <1>2, LinksGrow DEF LinksNow

\* The next hash is right in memory, on disk and in the entry being written.
LEMMA LinksStep ==
    ASSUME TypeOK, NumbersGrow, FilesSafe, LinksReady, [Next]_vars
    PROVE  LinksReady'
<1>0. sequence \in Int /\ (pc # "idle" => current.seq = sequence)
      /\ (seqFile # Torn => seqFile \in Int)
  BY DEF TypeOK, NumbersGrow
<1>1. CASE UNCHANGED vars
  BY <1>1 DEF vars, disk, memory, LinksReady, LinksNow, Stored
<1>2. CASE Return
  <2>1. current \in acked' /\ \A c \in acked' : c.seq <= current.seq
    BY <1>2 DEF Return, NumbersGrow, TypeOK, Entry
  <2>2. \A n : Links(current.event, n, acked', Stored' \ acked')
    BY <2>1 DEF Links
  <2>3. hashFile' = current.event /\ previous' = current.event /\ pc' = "idle"
    BY <1>2 DEF Return, LinksReady, disk, AfterSeal
  <2> QED BY <2>2, <2>3 DEF LinksReady, LinksNow, AfterSeal
<1>3. CASE Next /\ ~Return
  <2>1. acked' = acked
    BY <1>3 DEF Next, Open, Crash, RejectEvent, StartAppend, OpenFile, WriteFile, SealFile,
                OpenSeq, WriteSeq, OpenHash, WriteHash, OperationFails
  <2> DEFINE After(h, n) == Links(h, n, acked', Stored' \ acked')
  <2>2. \A h : \A m, n \in Int : m <= n /\ LinksNow(h, m) => After(h, n)
    BY <1>3, <2>1, LinksStay
  <2>3. /\ seqFile # Torn => After(hashFile, seqFile + 1)
        /\ up => After(hashFile, sequence + 1)
    BY <1>0, <2>2 DEF LinksReady
  <2>4. \A n : After(Torn, n)
    BY DEF Links
  <2> HIDE DEF After
  <2> USE DEF AfterSeal
  <2>5. CASE Open
    BY <2>3, <2>5 DEF LinksReady, LinksNow, After, Open, disk, NumbersGrow
  <2>6. CASE Crash
    BY <2>3, <2>6 DEF LinksReady, LinksNow, After, Crash, disk
  <2>7. CASE RejectEvent
    <3>1. After(previous, sequence + 1 + 1) /\ After(hashFile, sequence + 1 + 1)
      BY <1>0, <2>2, <2>7 DEF LinksReady, RejectEvent
    <3> QED BY <2>3, <2>7, <3>1 DEF LinksReady, LinksNow, After, RejectEvent, disk
  <2>8. ASSUME NEW e \in Events, StartAppend(e) PROVE LinksReady'
    <3>1. /\ After(previous, sequence + 1) /\ After(previous, sequence + 1 + 1)
          /\ After(hashFile, sequence + 1 + 1)
      BY <1>0, <2>2, <2>8 DEF LinksReady, StartAppend
    <3> QED BY <2>3, <2>8, <3>1 DEF LinksReady, LinksNow, After, StartAppend, disk
  <2>9. CASE OpenFile \/ WriteFile
    <3>1. After(previous, sequence + 1) /\ After(current.prev, sequence)
      BY <1>0, <2>2, <2>9 DEF LinksReady, OpenFile, WriteFile
    <3> QED BY <2>3, <2>9, <3>1 DEF LinksReady, LinksNow, After, OpenFile, WriteFile
  <2>10. CASE SealFile
    <3>1. After(current.prev, sequence)
      BY <1>0, <2>2, <2>10 DEF LinksReady, SealFile
    <3> QED BY <2>3, <2>10, <3>1 DEF LinksReady, LinksNow, After, SealFile
  <2>11. CASE OpenSeq \/ WriteSeq \/ OpenHash
    <3>1. After(current.prev, sequence)
      BY <1>0, <2>2, <2>11 DEF LinksReady, OpenSeq, WriteSeq, OpenHash
    <3> QED BY <2>3, <2>4, <2>11, <3>1
            DEF LinksReady, LinksNow, After, OpenSeq, WriteSeq, OpenHash
  <2>12. CASE WriteHash
    <3>1. LinksNow(current.event, sequence + 1) /\ seqFile = sequence
      <4>1. current \in Stored \ acked /\ \A c \in acked : c.seq < current.seq
        BY <2>12 DEF WriteHash, FilesSafe, NumbersGrow, TypeOK, Entry
      <4>2. seqFile = sequence /\ current.seq < sequence + 1
        BY <1>0, <2>12 DEF WriteHash, NumbersGrow
      <4> QED BY <4>1, <4>2 DEF LinksNow, Links
    <3>2. After(current.event, sequence + 1) /\ After(current.prev, sequence)
      BY <1>0, <2>2, <2>12, <3>1 DEF LinksReady, WriteHash
    <3> QED BY <2>12, <3>1, <3>2 DEF LinksReady, LinksNow, After, WriteHash
  <2>13. CASE OperationFails
    <3>1. LinksNow(previous, sequence + 1)
      <4>1. CASE pc \in AfterSeal
        <5>1. current \in Stored \ acked /\ \A c \in acked : c.seq < current.seq
          BY <4>1 DEF FilesSafe, NumbersGrow, TypeOK, Entry
        <5> QED BY <1>0, <4>1, <5>1 DEF LinksReady, LinksNow, Links
      <4>2. CASE pc \notin AfterSeal
        BY <2>13, <4>2 DEF LinksReady, OperationFails
      <4> QED BY <4>1, <4>2
    <3>2. After(previous, sequence + 1)
      BY <1>0, <2>2, <3>1
    <3> QED BY <2>3, <2>13, <3>2 DEF LinksReady, LinksNow, After, OperationFails, disk
  <2> QED BY <1>3, <2>5, <2>6, <2>7, <2>8, <2>9, <2>10, <2>11, <2>12, <2>13 DEF Next
<1> QED BY <1>1, <1>2, <1>3

\* Acknowledged events stay linked, and the one append returns now is linked.
LEMMA ChainStep ==
    ASSUME TypeOK, NumbersGrow, FilesSafe, LinksReady, ChainUnbroken, [Next]_vars
    PROVE  ChainUnbroken'
<1> DEFINE before(b) == {a \in acked : a.seq < b.seq}
<1>0. /\ \A a \in acked : a.seq \in Int
      /\ \A u \in Stored : u.seq \in Int
  BY DEF TypeOK, File, Entry, Stored
<1>1. CASE ~Return
  <2>1. acked' = acked
    BY <1>1 DEF Next, Open, Crash, RejectEvent, StartAppend, OpenFile, WriteFile, SealFile,
                OpenSeq, WriteSeq, OpenHash, WriteHash, OperationFails, vars
  <2>2. Stored \ acked \subseteq Stored' \ acked'
    BY <2>1, StoredGrows
  <2>3. ASSUME NEW b \in acked
        PROVE  Links(b.prev, b.seq, before(b), Stored' \ acked')
    BY <1>0, <2>2, LinksGrow DEF ChainUnbroken
  <2> QED BY <2>1, <2>3 DEF ChainUnbroken
<1>2. CASE Return
  <2>1. /\ acked' = acked \cup {current}
        /\ Stored' = Stored
    BY <1>2 DEF Return, disk, Stored
  <2>2. current.seq \in Int /\ \A a \in acked : a.seq < current.seq
    BY <1>2 DEF Return, NumbersGrow, TypeOK, Entry
  <2>3. ASSUME NEW b \in acked
        PROVE  Links(b.prev, b.seq, before(b), Stored' \ acked')
    <3>1. \A u \in Stored \ acked : u.seq < b.seq => u \in Stored' \ acked'
      BY <1>0, <2>1, <2>2
    <3> QED BY <3>1 DEF ChainUnbroken, Links
  <2>4. Links(current.prev, current.seq, acked, Stored' \ acked')
    <3>1. Links(current.prev, current.seq, acked, Stored \ acked)
      BY <1>2 DEF Return, LinksReady, LinksNow, NumbersGrow
    <3>2. \A u \in Stored \ acked : u.seq < current.seq => u \in Stored' \ acked'
      BY <1>0, <2>1, <2>2
    <3> QED BY <3>1, <3>2 DEF Links
  <2>5. \A b \in acked : before(b) = {a \in acked' : a.seq < b.seq}
    BY <1>0, <2>1, <2>2
  <2>6. acked = {a \in acked' : a.seq < current.seq}
    BY <2>1, <2>2
  <2> QED BY <2>1, <2>3, <2>4, <2>5, <2>6 DEF ChainUnbroken
<1> QED BY <1>1, <1>2

-----------------------------------------------------------------------------
(* What get_events serves *)

\* An append puts its entry into memory first, and leaves it there when it ends:
\* by then the entry is sealed on disk or its caller has the exception.
LEMMA ServedStep ==
    ASSUME TypeOK, NumbersGrow, FilesSafe, ServedKnown, [Next]_vars
    PROVE  ServedKnown'
<1> USE DEF ServedKnown
<1>0. Stored \subseteq Stored'
  BY StoredGrows
<1> HIDE DEF Stored
<1>1. CASE Open \/ RejectEvent
  BY <1>0, <1>1 DEF Open, RejectEvent
<1>2. CASE Crash
  BY <1>2 DEF Crash
<1>3. ASSUME NEW e \in Events, StartAppend(e) PROVE ServedKnown'
  BY <1>0, <1>3 DEF StartAppend
<1>4. CASE OpenFile \/ WriteFile \/ SealFile
  BY <1>0, <1>4 DEF OpenFile, WriteFile, SealFile
<1>5. CASE OpenSeq \/ WriteSeq \/ OpenHash \/ WriteHash
  BY <1>0, <1>5 DEF OpenSeq, WriteSeq, OpenHash, WriteHash
<1>6. CASE Return
  <2>1. current \in Stored
    BY <1>6 DEF Return, FilesSafe, AfterSeal
  <2> QED BY <1>0, <1>6, <2>1 DEF Return
<1>7. CASE OperationFails
  BY <1>0, <1>7 DEF OperationFails
<1>8. CASE UNCHANGED vars
  BY <1>0, <1>8 DEF vars, memory
<1> QED BY <1>1, <1>2, <1>3, <1>4, <1>5, <1>6, <1>7, <1>8 DEF Next

-----------------------------------------------------------------------------
(* Theorems *)

\* The inductive invariant holds at the start ...
LEMMA InitInv == Init => IndInv
<1> SUFFICES ASSUME Init PROVE IndInv
  OBVIOUS
<1>1. TypeOK
  BY DEF Init, TypeOK, Hashes, Steps
<1>2. NumbersGrow /\ FilesSafe /\ ChainUnbroken /\ ServedKnown
  BY DEF Init, NumbersGrow, FilesSafe, AfterSeal, ChainUnbroken, ServedKnown
<1>3. LinksReady
  BY DEF Init, LinksReady, LinksNow, Links, AfterSeal
<1> QED BY <1>1, <1>2, <1>3 DEF IndInv

\* ... and every step preserves it.
LEMMA NextInv == IndInv /\ [Next]_vars => IndInv'
BY TypeStep, NumbersStep, FilesStep, LinksStep, ChainStep, ServedStep DEF IndInv

\* So it always holds.
THEOREM Invariance == Spec => []IndInv
BY InitInv, NextInv, PTL DEF Spec

\* The variables of the log, in memory and on disk, keep their types.
THEOREM TypeCorrect == Spec => []TypeOK
BY Invariance, PTL DEF IndInv

\* An event whose append returned is on disk, read-only, through any crash and
\* any failed file operation after it.
THEOREM AckedDurable == Spec => []AckedIsStored
<1>1. IndInv => AckedIsStored
  BY DEF IndInv, FilesSafe, AckedIsStored
<1> QED BY <1>1, Invariance, PTL

\* The hash chain over the acknowledged events has no gap but a torn .last_hash.
THEOREM ChainHolds == Spec => []ChainUnbroken
BY Invariance, PTL DEF IndInv

\* Between two appends get_events serves nothing but stored events and those whose
\* append raised, whatever failed or died before.
THEOREM ServedIsKnown == Spec => []ServedIsStoredOrRefused
<1>1. IndInv => ServedIsStoredOrRefused
  BY DEF IndInv, ServedKnown, ServedIsStoredOrRefused
<1> QED BY <1>1, Invariance, PTL

\* The log refines AppendOnlyLog: an append's return adds one entry with a number
\* above all others; every other step leaves the durable entries as they are.
THEOREM Refinement == Spec => ImplementsAppendOnly
<1>1. Init => AppendOnly!Init
  BY DEF Init, AppendOnly!Init, Durable
<1>2. IndInv /\ [Next]_vars => [AppendOnly!Append]_Durable
  <2> SUFFICES ASSUME IndInv, [Next]_vars PROVE [AppendOnly!Append]_Durable
    OBVIOUS
  <2>1. Durable = acked /\ Stored \subseteq Stored'
    BY StoredGrows DEF IndInv, FilesSafe, Durable
  <2>2. CASE ~Return
    <3>1. acked' = acked
      BY <2>2 DEF Next, Open, Crash, RejectEvent, StartAppend, OpenFile, WriteFile, SealFile,
                  OpenSeq, WriteSeq, OpenHash, WriteHash, OperationFails, vars
    <3> QED BY <2>1, <3>1 DEF Durable
  <2>3. CASE Return
    <3>1. acked' = acked \cup {current} /\ current \in Stored
      BY <2>3 DEF Return, IndInv, FilesSafe, AfterSeal
    <3>2. Durable' = Durable \cup {current}
      BY <2>1, <3>1 DEF Durable
    <3>3. current.seq \in Nat /\ \A a \in acked : a.seq < current.seq
      BY <2>3 DEF Return, IndInv, NumbersGrow, TypeOK, Entry
    <3>4. current \notin Durable
      BY <2>1, <3>3
    <3> QED BY <2>1, <3>2, <3>3, <3>4 DEF AppendOnly!Append
  <2> QED BY <2>2, <2>3
<1> QED BY <1>1, <1>2, Invariance, PTL DEF Spec, ImplementsAppendOnly, AppendOnly!Spec
=============================================================================

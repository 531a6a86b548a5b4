------------------------------ MODULE WalProofs ------------------------------
(***************************************************************************)
(* Proofs about the write-ahead log of module Wal, for every set of        *)
(* entries, every policy, every bound and every set of I/O faults.         *)
(***************************************************************************)
EXTENDS Wal, TLAPS

-----------------------------------------------------------------------------
(* Files.                                                                  *)

GoodFile(f) == f \in File /\ f.synced <= Len(f.data)

Clean(f) == Openable(f) /\ \A j \in 2..Len(f.data) : f.data[j] \in Entry

\* WalReader::entries returns entries, and those within the synced part of a
\* file are among those within the whole.
LEMMA DurableReadable ==
    ASSUME NEW f, GoodFile(f)
    PROVE  DurableIn(f) \subseteq ReadableIn(f) /\ ReadableIn(f) \subseteq Entry
BY DEF GoodFile, File, DurableIn, ReadableIn, EntriesIn, Decodes

\* WalFileWriter::append keeps what the file held, readable or durable.
LEMMA AppendKeeps ==
    ASSUME NEW f, GoodFile(f), NEW r \in Record
    PROVE  /\ GoodFile(AppendRecord(f, r))
           /\ ReadableIn(f) \subseteq ReadableIn(AppendRecord(f, r))
           /\ DurableIn(f) \subseteq DurableIn(AppendRecord(f, r))
<1> DEFINE g == AppendRecord(f, r)
<1>1. /\ g \in File /\ Len(g.data) = Len(f.data) + 1 /\ g.synced = f.synced
      /\ \A i \in 1..Len(f.data) : g.data[i] = f.data[i]
  BY DEF GoodFile, File, AppendRecord
<1>2. GoodFile(g)
  BY <1>1 DEF GoodFile, File
<1>3. \A i \in 1..Len(f.data) : Decodes(f, i) => Decodes(g, i)
  <2> SUFFICES ASSUME NEW i \in 1..Len(f.data), Decodes(f, i) PROVE Decodes(g, i)
    BY Zenon
  <2>1. Len(f.data) \in Nat
    BY DEF GoodFile, File
  <2>2. f.data[1] = Header /\ i >= 2 /\ \A j \in 2..i : f.data[j] \in Entry
    BY Zenon DEF Decodes, Openable
  <2>3. \A j \in 2..i : g.data[j] = f.data[j]
    BY <1>1, <2>1
  <2>4. g.data[1] = Header /\ g.data # <<>>
    BY <1>1, <2>1, <2>2
  <2> QED
    BY Zenon, <2>2, <2>3, <2>4 DEF Decodes, Openable
<1>4. \A n \in Nat : EntriesIn(f, n) \subseteq EntriesIn(g, n)
  BY <1>1, <1>3 DEF EntriesIn, GoodFile, File
<1>5. EntriesIn(f, Len(f.data)) \subseteq EntriesIn(g, Len(g.data))
  BY <1>1, <1>3 DEF EntriesIn, GoodFile, File
<1> QED
  BY Zenon, <1>1, <1>2, <1>4, <1>5 DEF ReadableIn, DurableIn, GoodFile, File

\* An entry appended to a file without undecodable records can be read back, and
\* leaves the file without undecodable records.
LEMMA AppendReadable ==
    ASSUME NEW f, GoodFile(f), Clean(f), NEW e \in Entry
    PROVE  e \in ReadableIn(AppendRecord(f, e)) /\ Clean(AppendRecord(f, e))
<1> DEFINE g == AppendRecord(f, e)
           k == Len(f.data) + 1
<1>1. /\ g.data \in Seq(Record) /\ Len(g.data) = k /\ k \in Nat /\ g.data[k] = e
      /\ \A i \in 1..Len(f.data) : g.data[i] = f.data[i]
  BY DEF GoodFile, File, AppendRecord, Record
<1>2. k >= 2 /\ f.data[1] = Header /\ Len(f.data) >= 1
  BY DEF Clean, Openable, GoodFile, File
<1>3. g.data[1] = Header /\ g.data # <<>>
  BY <1>1, <1>2
<1>4. \A j \in 2..k : g.data[j] \in Entry
  BY <1>1, <1>2 DEF Clean, GoodFile, File
<1>5. Clean(g)
  BY Zenon, <1>1, <1>3, <1>4 DEF Clean, Openable
<1>6. Decodes(g, k)
  BY Zenon, <1>2, <1>3, <1>4 DEF Decodes, Openable
<1> QED
  BY <1>1, <1>2, <1>5, <1>6 DEF ReadableIn, EntriesIn

\* An fsync makes everything readable durable.
LEMMA SyncKeeps ==
    ASSUME NEW f, GoodFile(f)
    PROVE  /\ GoodFile(SyncFile(f))
           /\ SyncFile(f).data = f.data
           /\ ReadableIn(SyncFile(f)) = ReadableIn(f)
           /\ DurableIn(SyncFile(f)) = ReadableIn(f)
           /\ DurableIn(f) \subseteq DurableIn(SyncFile(f))
<1> DEFINE g == SyncFile(f)
<1>1. g \in File /\ g.data = f.data /\ g.synced = Len(f.data)
  BY DEF GoodFile, File, SyncFile
<1>2. \A i : Decodes(g, i) <=> Decodes(f, i)
  BY Zenon, <1>1 DEF Decodes, Openable
<1>3. \A n : EntriesIn(g, n) = EntriesIn(f, n)
  BY Zenon, <1>1, <1>2 DEF EntriesIn
<1>4. GoodFile(g)
  BY <1>1 DEF GoodFile, File
<1> QED
  BY Zenon, <1>1, <1>3, <1>4, DurableReadable DEF ReadableIn, DurableIn

\* Whatever prefix a crash leaves of a file, it holds what was durable.
LEMMA CrashKeeps ==
    ASSUME NEW f, GoodFile(f), NEW g \in CrashImages(f)
    PROVE  /\ GoodFile(g)
           /\ DurableIn(f) \subseteq DurableIn(g)
           /\ Len(g.data) <= Len(f.data)
           /\ \A i \in 1..Len(g.data) : g.data[i] = f.data[i]
<1>1. PICK n \in f.synced..Len(f.data) : g = [data |-> SubSeq(f.data, 1, n), synced |-> n]
  BY Zenon DEF CrashImages
<1>2. n \in Nat /\ n <= Len(f.data) /\ f.data \in Seq(Record) /\ f.synced \in Nat /\ f.synced <= n
  BY <1>1 DEF GoodFile, File
<1>3. /\ g.data \in Seq(Record) /\ Len(g.data) = n /\ g.synced = n
      /\ \A i \in 1..n : g.data[i] = f.data[i]
  BY <1>1, <1>2
<1>4. GoodFile(g)
  BY <1>1, <1>2, <1>3 DEF GoodFile, File
<1>5. \A i \in 1..n : Decodes(f, i) => Decodes(g, i)
  BY <1>2, <1>3 DEF Decodes, Openable
<1>6. DurableIn(f) \subseteq DurableIn(g)
  BY <1>2, <1>3, <1>5 DEF DurableIn, EntriesIn
<1> QED
  BY Zenon, <1>2, <1>3, <1>4, <1>6

WellFormed(f) ==
    GoodFile(f) /\ \A i \in 1..Len(f.data) : f.data[i] \in Entry => Decodes(f, i)

\* Appending an entry or torn bytes behind records that all decode keeps every
\* entry of the file decodable.
LEMMA AppendWellFormed ==
    ASSUME NEW f, WellFormed(f), Clean(f), NEW r \in Entry \cup {Torn}
    PROVE  WellFormed(AppendRecord(f, r))
<1> DEFINE g == AppendRecord(f, r)
           k == Len(f.data) + 1
<1>1. /\ g.data \in Seq(Record) /\ Len(g.data) = k /\ k \in Nat /\ g.data[k] = r
      /\ \A i \in 1..Len(f.data) : g.data[i] = f.data[i]
  BY DEF WellFormed, GoodFile, File, AppendRecord, Record
<1>2. GoodFile(g)
  BY Zenon, AppendKeeps DEF WellFormed, Record
<1>3. k >= 2 /\ g.data[1] = Header /\ g.data # <<>> /\ Len(f.data) >= 1
  BY <1>1 DEF Clean, Openable, WellFormed, GoodFile, File
<1>4. \A j \in 2..Len(f.data) : g.data[j] \in Entry
  BY <1>1, <1>3 DEF Clean, WellFormed, GoodFile, File
<1>5. ASSUME NEW i \in 1..k, g.data[i] \in Entry
      PROVE  Decodes(g, i)
  <2>1. i >= 2
    BY <1>3, <1>5, RecordAssumption
  <2>2. \A j \in 2..i : g.data[j] \in Entry
    BY <1>1, <1>4, <1>5
  <2> QED
    BY Zenon, <1>3, <2>1, <2>2 DEF Decodes, Openable
<1> QED
  BY Zenon, <1>1, <1>2, <1>5 DEF WellFormed

\* The files that WalStore::create and WalWriter::new leave behind, complete,
\* torn or empty.
LEMMA NewFiles ==
    /\ WellFormed(EmptyFile)
    /\ WellFormed(AppendRecord(EmptyFile, Torn))
    /\ WellFormed(AppendRecord(EmptyFile, Header))
    /\ Clean(AppendRecord(EmptyFile, Header))
<1>1. EmptyFile.data = <<>> /\ EmptyFile.synced = 0 /\ GoodFile(EmptyFile)
  BY DEF EmptyFile, GoodFile, File
<1>2. WellFormed(EmptyFile)
  BY <1>1 DEF WellFormed
<1>3. ASSUME NEW r \in {Header, Torn}
      PROVE  /\ GoodFile(AppendRecord(EmptyFile, r))
             /\ Len(AppendRecord(EmptyFile, r).data) = 1
             /\ AppendRecord(EmptyFile, r).data[1] = r
             /\ AppendRecord(EmptyFile, r).data # <<>>
  <2>1. GoodFile(AppendRecord(EmptyFile, r))
    BY Zenon, <1>1, <1>3, AppendKeeps DEF Record
  <2>2. AppendRecord(EmptyFile, r).data = Append(<<>>, r)
    BY Zenon DEF AppendRecord, EmptyFile
  <2>3. Append(<<>>, r) = <<r>>
    OBVIOUS
  <2> QED
    BY <2>1, <2>2, <2>3
<1>4. ASSUME NEW r \in {Header, Torn}
      PROVE  WellFormed(AppendRecord(EmptyFile, r))
  BY <1>3, RecordAssumption DEF WellFormed
<1>5. Clean(AppendRecord(EmptyFile, Header))
  BY <1>3 DEF Clean, Openable
<1> QED
  BY Zenon, <1>2, <1>4, <1>5

\* A prefix of a file whose entries all decode is such a file.
LEMMA CrashWellFormed ==
    ASSUME NEW f, WellFormed(f), NEW g \in CrashImages(f)
    PROVE  WellFormed(g)
<1>1. GoodFile(f)
  BY Zenon DEF WellFormed
<1>2. /\ GoodFile(g) /\ Len(g.data) <= Len(f.data)
      /\ \A i \in 1..Len(g.data) : g.data[i] = f.data[i]
  BY Zenon, <1>1, CrashKeeps
<1>3. Len(f.data) \in Nat /\ Len(g.data) \in Nat
  BY <1>1, <1>2 DEF GoodFile, File
<1>4. ASSUME NEW i \in 1..Len(g.data), g.data[i] \in Entry
      PROVE  Decodes(g, i)
  <2>1. Decodes(f, i)
    BY <1>2, <1>3, <1>4 DEF WellFormed
  <2>2. i >= 2 /\ f.data[1] = Header /\ \A j \in 2..i : f.data[j] \in Entry
    BY Zenon, <2>1 DEF Decodes, Openable
  <2>3. g.data # <<>> /\ g.data[1] = Header
    BY <1>2, <1>3, <2>2
  <2>4. \A j \in 2..i : g.data[j] \in Entry
    BY <1>2, <1>3, <2>2
  <2> QED
    BY Zenon, <2>2, <2>3, <2>4 DEF Decodes, Openable
<1> QED
  BY Zenon, <1>2, <1>4 DEF WellFormed

-----------------------------------------------------------------------------
(* The directory and the rotator.                                          *)

GoodFiles(fs) == DOMAIN fs \subseteq Nat \ {0} /\ \A n \in DOMAIN fs : WellFormed(fs[n])

FilesGrow(fs, gs) ==
    \A n \in DOMAIN fs :
        /\ n \in DOMAIN gs
        /\ DurableIn(fs[n]) \subseteq DurableIn(gs[n])
        /\ ReadableIn(fs[n]) \subseteq ReadableIn(gs[n])

\* append_entry: the files only grow, an entry reported as appended can be read
\* from the writer's file, and after an error what was not synced is exposed.
LEMMA AppendEntryKeeps ==
    ASSUME NEW fs, GoodFiles(fs), NEW n \in DOMAIN fs, Clean(fs[n]),
           NEW exposed \in SUBSET Entry, NEW e \in Entry, NEW r,
           AppendEntry(n, fs, exposed, e, r)
    PROVE  /\ GoodFiles(files') /\ DOMAIN files' = DOMAIN fs /\ FilesGrow(fs, files')
           /\ current' \in {n, 0}
           /\ current' # 0 => Clean(files'[n])
           /\ exposed \subseteq closedUnsynced' /\ closedUnsynced' \subseteq Entry
           /\ r = "ok" => current' = n /\ e \in ReadableIn(files'[n])
           /\ current' = 0 => ReadableIn(fs[n]) \subseteq DurableIn(files'[n]) \cup closedUnsynced'
<1>1. n \in Nat /\ n # 0 /\ WellFormed(fs[n]) /\ GoodFile(fs[n])
  BY Zenon DEF GoodFiles, WellFormed
<1>2. CASE r = "ok"
  <2>1. /\ files' = [fs EXCEPT ![n] = AppendRecord(fs[n], e)]
        /\ current' = n /\ closedUnsynced' = exposed
    BY Zenon, <1>2 DEF AppendEntry
  <2>2. /\ WellFormed(files'[n]) /\ e \in ReadableIn(files'[n]) /\ Clean(files'[n])
        /\ ReadableIn(fs[n]) \subseteq ReadableIn(files'[n])
        /\ DurableIn(fs[n]) \subseteq DurableIn(files'[n])
    BY Zenon, <1>1, <2>1, AppendWellFormed, AppendReadable, AppendKeeps DEF Record
  <2>3. DOMAIN files' = DOMAIN fs /\ \A m \in DOMAIN fs : m # n => files'[m] = fs[m]
    BY Zenon, <2>1
  <2> QED
    BY Zenon, <1>1, <1>2, <2>1, <2>2, <2>3 DEF GoodFiles, FilesGrow
<1>3. CASE r # "ok"
  <2>1. /\ current' = 0 /\ closedUnsynced' = exposed \cup Unsynced(fs[n])
        /\ files' = fs \/ files' = [fs EXCEPT ![n] = AppendRecord(fs[n], Torn)]
    BY Zenon, <1>1, <1>3 DEF AppendEntry, Dropping
  <2>2. ReadableIn(fs[n]) \subseteq Entry
    BY Zenon, <1>1, DurableReadable
  <2>3. /\ WellFormed(files'[n])
        /\ ReadableIn(fs[n]) \subseteq ReadableIn(files'[n])
        /\ DurableIn(fs[n]) \subseteq DurableIn(files'[n])
    BY <1>1, <2>1, AppendWellFormed, AppendKeeps DEF Record
  <2>4. DOMAIN files' = DOMAIN fs /\ \A m \in DOMAIN fs : m # n => files'[m] = fs[m]
    BY Zenon, <2>1
  <2> QED
    BY Zenon, <1>1, <1>3, <2>1, <2>2, <2>3, <2>4 DEF GoodFiles, FilesGrow, Unsynced
<1> QED
  BY Zenon, <1>2, <1>3

\* The rotator between two operations.
RotatorGood ==
    /\ GoodFiles(files)
    /\ current \in DOMAIN files \cup {0}
    /\ current # 0 => Clean(files[current])
    /\ currentSequence \in Nat
    /\ closedUnsynced \subseteq Entry
    /\ \A n \in DOMAIN files : n <= currentSequence

\* A write the next fsync makes durable, or that needs none.
Held(e) ==
    \/ e \in Durable(files) \/ e \in closedUnsynced
    \/ current # 0 /\ e \in ReadableIn(files[current])

\* Files that only grow keep what the directory holds.
LEMMA GrowKeeps ==
    ASSUME NEW fs, NEW gs, FilesGrow(fs, gs)
    PROVE  Durable(fs) \subseteq Durable(gs) /\ Readable(fs) \subseteq Readable(gs)
BY Zenon DEF FilesGrow, Durable, Readable

\* WalRotator::append, rotation included: a file is created under a number no
\* file has, nothing the directory holds goes away, and an entry reported as
\* appended is in the file the next fsync covers.
LEMMA RotatorAppendKeeps ==
    ASSUME RotatorGood, NEW e \in Entry, NEW r, RotatorAppend(e, r)
    PROVE  /\ RotatorGood'
           /\ FilesGrow(files, files')
           /\ \A x : Held(x) => Held(x)'
           /\ closedUnsynced \subseteq closedUnsynced'
           /\ r = "ok" => Held(e)'
<1>1. CASE ~NeedsNewFile
  <2>1. current # 0 /\ current \in DOMAIN files /\ Clean(files[current])
    BY Zenon, <1>1 DEF NeedsNewFile, RotatorGood
  <2>2. AppendEntry(current, files, closedUnsynced, e, r) /\ currentSequence' = currentSequence
    BY Zenon, <1>1 DEF RotatorAppend
  <2>3. /\ GoodFiles(files') /\ DOMAIN files' = DOMAIN files /\ FilesGrow(files, files')
        /\ current' \in {current, 0}
        /\ current' # 0 => Clean(files'[current])
        /\ closedUnsynced \subseteq closedUnsynced' /\ closedUnsynced' \subseteq Entry
        /\ r = "ok" => current' = current /\ e \in ReadableIn(files'[current])
        /\ current' = 0 =>
              ReadableIn(files[current]) \subseteq DurableIn(files'[current]) \cup closedUnsynced'
    BY Zenon, <2>1, <2>2, AppendEntryKeeps DEF RotatorGood
  <2>4. RotatorGood'
    BY Zenon, <2>1, <2>2, <2>3 DEF RotatorGood
  <2>5. ASSUME NEW x, Held(x)
        PROVE  Held(x)'
    <3>1. CASE x \in Durable(files) \/ x \in closedUnsynced
      BY Zenon, <3>1, <2>3, GrowKeeps DEF Held
    <3>2. CASE x \in ReadableIn(files[current]) /\ current' = 0
      BY Zenon, <3>2, <2>1, <2>3 DEF Held, Durable
    <3>3. CASE x \in ReadableIn(files[current]) /\ current' = current
      BY Zenon, <3>3, <2>1, <2>3 DEF Held, FilesGrow
    <3> QED
      BY Zenon, <2>3, <2>5, <3>1, <3>2, <3>3 DEF Held
  <2> QED
    BY Zenon, <2>1, <2>3, <2>4, <2>5 DEF Held
<1>2. CASE NeedsNewFile
  <2> DEFINE n == currentSequence + 1
             exposed == closedUnsynced \cup Dropping(files, current)
             fs(f) == PutFile(files, n, f)
  <2>1. /\ n \in Nat \ {0} /\ n \notin DOMAIN files
        /\ \A m \in DOMAIN files : WellFormed(files[m]) /\ GoodFile(files[m]) /\ m \in Nat \ {0}
    BY DEF RotatorGood, GoodFiles, WellFormed
  <2>2. /\ exposed \subseteq Entry
        /\ current # 0 => ReadableIn(files[current]) \subseteq Durable(files) \cup exposed
    BY Zenon, <2>1, DurableReadable DEF Dropping, Unsynced, RotatorGood, Durable
  <2>3. ASSUME NEW f, WellFormed(f)
        PROVE  /\ GoodFiles(fs(f)) /\ DOMAIN fs(f) = DOMAIN files \cup {n} /\ fs(f)[n] = f
               /\ FilesGrow(files, fs(f))
    BY Zenon, <2>1, <2>3 DEF GoodFiles, PutFile, FilesGrow
  <2>4. ASSUME NEW x, Held(x)
        PROVE  x \in Durable(files) \/ x \in exposed
    BY Zenon, <2>2, <2>4 DEF Held
  <2>5. currentSequence' = n
    BY Zenon, <1>2 DEF RotatorAppend, Rotate
  <2>6. CASE AppendEntry(n, fs(AppendRecord(EmptyFile, Header)), exposed, e, r)
    <3> DEFINE gs == fs(AppendRecord(EmptyFile, Header))
    <3>1. /\ GoodFiles(gs) /\ DOMAIN gs = DOMAIN files \cup {n} /\ Clean(gs[n])
          /\ FilesGrow(files, gs)
      BY Zenon, <2>3, NewFiles
    <3> HIDE DEF gs
    <3>2. /\ GoodFiles(files') /\ DOMAIN files' = DOMAIN gs /\ FilesGrow(gs, files')
          /\ current' \in {n, 0}
          /\ current' # 0 => Clean(files'[n])
          /\ exposed \subseteq closedUnsynced' /\ closedUnsynced' \subseteq Entry
          /\ r = "ok" => current' = n /\ e \in ReadableIn(files'[n])
      BY Zenon, <2>2, <2>6, <3>1, AppendEntryKeeps DEF gs
    <3>3. FilesGrow(files, files')
      BY Zenon, <3>1, <3>2 DEF FilesGrow
    <3>4. RotatorGood'
      BY <2>1, <2>5, <3>1, <3>2 DEF RotatorGood
    <3>5. \A x : Held(x) => Held(x)'
      BY Zenon, <2>4, <3>2, <3>3, GrowKeeps DEF Held
    <3> QED
      BY Zenon, <2>1, <3>2, <3>3, <3>4, <3>5 DEF Held
  <2>7. CASE /\ r = "err" /\ current' = 0 /\ closedUnsynced' = exposed
             /\ files' \in {files, fs(EmptyFile), fs(AppendRecord(EmptyFile, Torn))}
    <3>1. /\ GoodFiles(files') /\ FilesGrow(files, files')
          /\ DOMAIN files' \subseteq DOMAIN files \cup {n}
      BY Zenon, <2>3, <2>7, NewFiles DEF RotatorGood, FilesGrow
    <3>2. RotatorGood'
      BY <2>1, <2>2, <2>5, <2>7, <3>1 DEF RotatorGood
    <3>3. \A x : Held(x) => Held(x)'
      BY Zenon, <2>4, <2>7, <3>1, GrowKeeps DEF Held
    <3> QED
      BY Zenon, <2>7, <3>1, <3>2, <3>3
  <2> QED
    BY Zenon, <1>2, <2>6, <2>7 DEF RotatorAppend, Rotate
<1> QED
  BY Zenon, <1>1, <1>2

\* WalRotator::sync: after Ok every write that was held is durable, unless its
\* writer had been dropped without an fsync before.
LEMMA RotatorSyncKeeps ==
    ASSUME RotatorGood, NEW r, RotatorSync(r)
    PROVE  /\ RotatorGood'
           /\ FilesGrow(files, files')
           /\ \A x : Held(x) => Held(x)'
           /\ closedUnsynced' = closedUnsynced
           /\ r = "ok" => \A x : Held(x) => x \in Durable(files') \/ x \in closedUnsynced'
<1>1. /\ current' = current /\ currentSequence' = currentSequence
      /\ closedUnsynced' = closedUnsynced
  BY Zenon DEF RotatorSync
<1>2. CASE files' = files /\ (r = "ok" => current = 0)
  BY Zenon, <1>1, <1>2 DEF RotatorGood, FilesGrow, Held
<1>3. CASE current # 0 /\ files' = [files EXCEPT ![current] = SyncFile(files[current])]
  <2>1. current \in DOMAIN files /\ GoodFile(files[current]) /\ WellFormed(files[current])
    BY Zenon, <1>3 DEF RotatorGood, GoodFiles, WellFormed
  <2>2. /\ DOMAIN files' = DOMAIN files /\ files'[current] = SyncFile(files[current])
        /\ \A m \in DOMAIN files : m # current => files'[m] = files[m]
    BY Zenon, <1>3, <2>1
  <2>3. /\ GoodFile(files'[current]) /\ files'[current].data = files[current].data
        /\ ReadableIn(files'[current]) = ReadableIn(files[current])
        /\ DurableIn(files'[current]) = ReadableIn(files[current])
        /\ DurableIn(files[current]) \subseteq DurableIn(files'[current])
    BY Zenon, <2>1, <2>2, SyncKeeps
  <2>4. WellFormed(files'[current]) /\ Clean(files'[current])
    BY Zenon, <1>3, <2>1, <2>3 DEF WellFormed, Clean, Decodes, Openable, RotatorGood
  <2>5. FilesGrow(files, files')
    BY Zenon, <2>2, <2>3 DEF FilesGrow
  <2>6. RotatorGood'
    BY Zenon, <1>1, <2>1, <2>2, <2>4 DEF RotatorGood, GoodFiles
  <2>7. \A x : Held(x) => x \in Durable(files') \/ x \in closedUnsynced'
    BY Zenon, <1>1, <2>1, <2>2, <2>3, <2>5, GrowKeeps DEF Held, Durable
  <2> QED
    BY Zenon, <1>1, <2>5, <2>6, <2>7 DEF Held
<1> QED
  BY Zenon, <1>2, <1>3 DEF RotatorSync

\* What a step may do to the log while the machine is up.
LogKept ==
    /\ \A x \in Durable(files) : x \in Durable(files') \/ Timestamp[x] <= truncatedTo'
    /\ \A x \in Readable(files) : x \in Readable(files') \/ Timestamp[x] <= truncatedTo'

\* WalRotator::truncate_before deletes files of streamed entries only, and never
\* the one of the open writer.
LEMMA TruncateKeeps ==
    ASSUME RotatorGood, truncatedTo \in Nat, NEW t \in Nat, TruncateBefore(t)
    PROVE  /\ RotatorGood' /\ LogKept
           /\ truncatedTo' \in Nat /\ truncatedTo <= truncatedTo'
           /\ \A x \in Entry : Held(x) => Held(x)' \/ Timestamp[x] <= truncatedTo'
           /\ closedUnsynced' = closedUnsynced
<1>1. /\ current' = current /\ currentSequence' = currentSequence
      /\ closedUnsynced' = closedUnsynced
      /\ truncatedTo' \in Nat /\ truncatedTo <= truncatedTo' /\ t <= truncatedTo'
  BY DEF TruncateBefore
<1>2. PICK D \in SUBSET Truncatable(t) : files' = DropFiles(files, D)
  <2>1. \A stop : {n \in Truncatable(t) : n < stop} \subseteq Truncatable(t)
    BY Zenon
  <2> QED
    BY Zenon, <2>1 DEF TruncateBefore
<1>3. /\ DOMAIN files' = DOMAIN files \ D
      /\ \A n \in DOMAIN files \ D : files'[n] = files[n]
  BY Zenon, <1>2 DEF DropFiles, Restrict
<1>4. current \notin D
  BY Zenon, <1>2 DEF Truncatable
<1>5. RotatorGood'
  BY Zenon, <1>1, <1>3, <1>4 DEF RotatorGood, GoodFiles
<1>6. ASSUME NEW n \in DOMAIN files, NEW x \in ReadableIn(files[n]), n \in D
      PROVE  Timestamp[x] <= truncatedTo'
  <2>1. Timestamp[x] <= t /\ x \in Entry
    BY Zenon, <1>2, <1>6, DurableReadable DEF Truncatable, RotatorGood, GoodFiles, WellFormed
  <2> QED
    BY <1>1, <2>1, TimestampAssumption
<1>7. \A n \in DOMAIN files : DurableIn(files[n]) \subseteq ReadableIn(files[n])
  BY Zenon, DurableReadable DEF RotatorGood, GoodFiles, WellFormed
<1>8. LogKept
  BY <1>3, <1>6, <1>7 DEF LogKept, Durable, Readable
<1>9. \A x \in Entry : Held(x) => Held(x)' \/ Timestamp[x] <= truncatedTo'
  BY Zenon, <1>1, <1>3, <1>4, <1>8 DEF Held, LogKept, RotatorGood
<1> QED
  BY Zenon, <1>1, <1>5, <1>8, <1>9

-----------------------------------------------------------------------------
(* The actor between two messages.                                         *)

ActorGood ==
    /\ RotatorGood
    /\ result \in [Entry -> Results]
    /\ shutdown \in {"no", "requested", "answered"}
    /\ pendingAcks \in Seq(Entry)
    /\ entriesSinceSync \in Nat
    /\ truncatedTo \in Nat
    /\ AckedDurableOrExposed
    /\ PendingAcksCounted
    /\ PendingHeld

\* Resolving acks changes results from waiting only.
LEMMA ResolveType ==
    ASSUME NEW res \in [Entry -> Results], NEW S, NEW r \in Results
    PROVE  /\ Resolve(res, S, r) \in [Entry -> Results]
           /\ \A e \in Entry : Resolve(res, S, r)[e] \in {res[e], r}
           /\ \A e \in Entry : Resolve(res, S, r)[e] # res[e] => e \in S
BY Zenon DEF Resolve

\* A message in the channel is one of the four kinds, with its fields.
LEMMA MessageFields ==
    ASSUME NEW m \in Message
    PROVE  /\ m.type = "Write" => m.entry \in Entry
           /\ m.type = "TruncateUpTo" => m.time \in Nat
BY Zenon, BoundsAssumption DEF Message

\* A step of the rotator that keeps the files and what is held keeps every
\* earlier promise of the actor.
LEMMA PromisesKept ==
    ASSUME ActorGood, RotatorGood', FilesGrow(files, files'),
           \A x : Held(x) => Held(x)',
           closedUnsynced \subseteq closedUnsynced', truncatedTo' = truncatedTo
    PROVE  /\ LogKept
           /\ \A e \in Range(pendingAcks) : Policy = "Always" /\ (Held(e)' \/ Streamed(e)')
           /\ Policy = "Always" =>
                \A e \in Entry : result[e] = "ok" =>
                    e \in Durable(files') \/ Streamed(e)' \/ e \in closedUnsynced'
<1>1. Durable(files) \subseteq Durable(files') /\ Readable(files) \subseteq Readable(files')
  BY Zenon, GrowKeeps
<1>2. \A e : Streamed(e)' <=> Streamed(e)
  BY Zenon DEF Streamed
<1>3. \A e \in Range(pendingAcks) : Policy = "Always" /\ (Held(e) \/ Streamed(e))
  BY Zenon DEF ActorGood, PendingHeld, Held
<1> QED
  BY Zenon, <1>1, <1>2, <1>3 DEF LogKept, ActorGood, AckedDurableOrExposed

\* An append that the rotator or the codec may refuse.
LEMMA WriteOutcomeKeeps ==
    ASSUME RotatorGood, NEW m, m.entry \in Entry, NEW r, WriteOutcome(m, r)
    PROVE  /\ RotatorGood' /\ FilesGrow(files, files')
           /\ \A x : Held(x) => Held(x)'
           /\ closedUnsynced \subseteq closedUnsynced'
           /\ r = "ok" => Held(m.entry)'
<1>1. CASE RotatorAppend(m.entry, r)
  BY Zenon, <1>1, RotatorAppendKeeps
<1>2. CASE r = "err" /\ UNCHANGED rotatorVars
  BY Zenon, <1>2 DEF rotatorVars, RotatorGood, FilesGrow, Held
<1> QED
  BY Zenon, <1>1, <1>2 DEF WriteOutcome

\* handle_message_always on Write: the ack is queued with the entry counted.
LEMMA AlwaysWriteKeeps ==
    ASSUME ActorGood, NEW m \in Message, Policy = "Always", AlwaysWrite(m)
    PROVE  ActorGood' /\ LogKept
<1>1. m.entry \in Entry /\ truncatedTo' = truncatedTo /\ shutdown' = shutdown
  BY Zenon, MessageFields DEF AlwaysWrite
<1>2. CASE /\ WriteOutcome(m, "ok")
           /\ entriesSinceSync' = entriesSinceSync + 1
           /\ pendingAcks' = IF m.ack THEN Append(pendingAcks, m.entry) ELSE pendingAcks
           /\ UNCHANGED result
  <2>1. /\ RotatorGood' /\ FilesGrow(files, files')
        /\ \A x : Held(x) => Held(x)'
        /\ closedUnsynced \subseteq closedUnsynced'
        /\ Held(m.entry)'
    BY Zenon, <1>1, <1>2, WriteOutcomeKeeps DEF ActorGood
  <2>2. /\ LogKept
        /\ \A e \in Range(pendingAcks) : Policy = "Always" /\ (Held(e)' \/ Streamed(e)')
        /\ Policy = "Always" =>
             \A e \in Entry : result[e] = "ok" =>
                 e \in Durable(files') \/ Streamed(e)' \/ e \in closedUnsynced'
    BY Zenon, <1>1, <2>1, PromisesKept
  <2>3. /\ pendingAcks' \in Seq(Entry) /\ entriesSinceSync' \in Nat
        /\ Len(pendingAcks') <= entriesSinceSync'
        /\ \A e \in Range(pendingAcks') : e \in Range(pendingAcks) \/ e = m.entry
    BY <1>1, <1>2 DEF ActorGood, PendingAcksCounted, Range
  <2>4. PendingHeld'
    BY Zenon, <2>1, <2>2, <2>3 DEF PendingHeld, Held
  <2>5. AckedDurableOrExposed'
    BY Zenon, <1>2, <2>2 DEF AckedDurableOrExposed
  <2>6. PendingAcksCounted'
    BY Zenon, <2>3 DEF PendingAcksCounted
  <2> QED
    BY Zenon, <1>1, <1>2, <2>1, <2>2, <2>3, <2>4, <2>5, <2>6 DEF ActorGood
<1>3. CASE /\ WriteOutcome(m, "err")
           /\ result' = Resolve(result, {m.entry}, "err")
           /\ UNCHANGED actorVars
  <2>1. /\ RotatorGood' /\ FilesGrow(files, files')
        /\ \A x : Held(x) => Held(x)'
        /\ closedUnsynced \subseteq closedUnsynced'
    BY Zenon, <1>1, <1>3, WriteOutcomeKeeps DEF ActorGood
  <2>2. /\ LogKept
        /\ \A e \in Range(pendingAcks) : Policy = "Always" /\ (Held(e)' \/ Streamed(e)')
        /\ Policy = "Always" =>
             \A e \in Entry : result[e] = "ok" =>
                 e \in Durable(files') \/ Streamed(e)' \/ e \in closedUnsynced'
    BY Zenon, <1>1, <2>1, PromisesKept
  <2>3. result' \in [Entry -> Results] /\ \A e \in Entry : result'[e] = "ok" => result[e] = "ok"
    BY <1>3, ResolveType DEF ActorGood, Results
  <2>4. pendingAcks' = pendingAcks /\ entriesSinceSync' = entriesSinceSync
    BY Zenon, <1>3 DEF actorVars
  <2>5. PendingHeld' /\ PendingAcksCounted' /\ AckedDurableOrExposed'
    BY Zenon, <2>2, <2>3, <2>4
       DEF PendingHeld, PendingAcksCounted, AckedDurableOrExposed, Held, ActorGood
  <2> QED
    BY Zenon, <1>1, <2>1, <2>2, <2>3, <2>4, <2>5 DEF ActorGood
<1> QED
  BY Zenon, <1>2, <1>3 DEF AlwaysWrite

\* Nothing but results changes, and none of them to Ok.
LEMMA AnswersKeep ==
    ASSUME ActorGood, UNCHANGED <<rotatorVars, pendingAcks, entriesSinceSync, truncatedTo>>,
           shutdown' \in {"no", "requested", "answered"},
           result' \in [Entry -> Results],
           \A e \in Entry : result'[e] = "ok" => result[e] = "ok"
    PROVE  ActorGood' /\ LogKept
<1>1. /\ files' = files /\ current' = current /\ currentSequence' = currentSequence
      /\ closedUnsynced' = closedUnsynced /\ pendingAcks' = pendingAcks
      /\ entriesSinceSync' = entriesSinceSync /\ truncatedTo' = truncatedTo
  BY Zenon DEF rotatorVars
<1>2. RotatorGood' /\ LogKept
  BY Zenon, <1>1 DEF RotatorGood, ActorGood, LogKept
<1>3. AckedDurableOrExposed' /\ PendingAcksCounted' /\ PendingHeld'
  BY Zenon, <1>1 DEF ActorGood, AckedDurableOrExposed, PendingAcksCounted, PendingHeld, Streamed
<1> QED
  BY Zenon, <1>1, <1>2, <1>3 DEF ActorGood

\* flush_group_commit: the acks it resolves with Ok are those of writes that are
\* durable now, or whose writer had been dropped without an fsync.
LEMMA FlushKeeps ==
    ASSUME ActorGood, NEW S, FlushGroupCommit(S), truncatedTo' = truncatedTo,
           shutdown' \in {"no", "requested", "answered"}
    PROVE  ActorGood' /\ LogKept
<1>0. "ok" \in Results /\ "err" \in Results
  BY Zenon DEF Results
<1>1. CASE /\ result' = Resolve(result, S, "err")
           /\ UNCHANGED <<rotatorVars, actorVars>>
  <2>1. result' \in [Entry -> Results] /\ \A e \in Entry : result'[e] = "ok" => result[e] = "ok"
    BY <1>0, <1>1, ResolveType DEF ActorGood
  <2> QED
    BY Zenon, <1>1, <2>1, AnswersKeep DEF actorVars
<1>2. ASSUME NEW r \in {"ok", "err"}, RotatorSync(r),
             result' = Resolve(Resolve(result, Range(pendingAcks), r), S, "err"),
             pendingAcks' = <<>>, entriesSinceSync' = 0
      PROVE  ActorGood' /\ LogKept
  <2>1. /\ RotatorGood' /\ FilesGrow(files, files')
        /\ \A x : Held(x) => Held(x)'
        /\ closedUnsynced' = closedUnsynced
        /\ r = "ok" => \A x : Held(x) => x \in Durable(files') \/ x \in closedUnsynced'
    BY Zenon, <1>2, RotatorSyncKeeps DEF ActorGood
  <2>2. /\ LogKept
        /\ Policy = "Always" =>
             \A e \in Entry : result[e] = "ok" =>
                 e \in Durable(files') \/ Streamed(e)' \/ e \in closedUnsynced'
    BY Zenon, <2>1, PromisesKept
  <2> DEFINE res == Resolve(result, Range(pendingAcks), r)
  <2>3. /\ res \in [Entry -> Results]
        /\ \A e \in Entry :
               res[e] \in {result[e], r} /\ (res[e] # result[e] => e \in Range(pendingAcks))
    BY <1>0, ResolveType DEF ActorGood
  <2> HIDE DEF res
  <2>4. /\ result' \in [Entry -> Results]
        /\ \A e \in Entry : result'[e] = "ok" =>
              result[e] = "ok" \/ (r = "ok" /\ e \in Range(pendingAcks))
    BY <1>0, <1>2, <2>3, ResolveType DEF res
  <2>5. r = "ok" => \A e \in Range(pendingAcks) :
                        e \in Durable(files') \/ Streamed(e)' \/ e \in closedUnsynced'
    BY Zenon, <2>1 DEF ActorGood, PendingHeld, Held, Streamed
  <2>6. AckedDurableOrExposed'
    BY Zenon, <2>2, <2>4, <2>5 DEF AckedDurableOrExposed
  <2>7. pendingAcks' \in Seq(Entry) /\ PendingAcksCounted' /\ PendingHeld'
    BY <1>2 DEF PendingAcksCounted, PendingHeld, Range
  <2> QED
    BY Zenon, <1>2, <2>1, <2>2, <2>4, <2>6, <2>7 DEF ActorGood
<1> QED
  BY Zenon, <1>1, <1>2 DEF FlushGroupCommit

\* handle_truncation.
LEMMA TruncationKeeps ==
    ASSUME ActorGood, NEW m \in Message, HandleTruncation(m)
    PROVE  ActorGood' /\ LogKept
<1>1. /\ m.time \in Nat /\ TruncateBefore(m.time) /\ result' = result /\ shutdown' = shutdown
      /\ pendingAcks' = pendingAcks /\ entriesSinceSync' = entriesSinceSync
  BY Zenon, MessageFields DEF HandleTruncation, actorVars
<1>2. /\ RotatorGood' /\ LogKept
      /\ truncatedTo' \in Nat /\ truncatedTo <= truncatedTo'
      /\ \A x \in Entry : Held(x) => Held(x)' \/ Timestamp[x] <= truncatedTo'
      /\ closedUnsynced' = closedUnsynced
  BY Zenon, <1>1, TruncateKeeps DEF ActorGood
<1>3. \A e \in Entry : Streamed(e) => Streamed(e)'
  BY <1>2, TimestampAssumption DEF Streamed, ActorGood
<1>4. AckedDurableOrExposed'
  BY Zenon, <1>1, <1>2, <1>3 DEF ActorGood, AckedDurableOrExposed, LogKept, Streamed
<1>5. \A e \in Range(pendingAcks) : e \in Entry
  BY DEF ActorGood, Range
<1>6. PendingHeld'
  BY Zenon, <1>1, <1>2, <1>3, <1>5 DEF ActorGood, PendingHeld, Held, Streamed
<1> QED
  BY Zenon, <1>1, <1>2, <1>4, <1>6 DEF ActorGood, PendingAcksCounted

\* Without Always nothing is pending.
LEMMA NoPending ==
    ASSUME ActorGood, Policy # "Always"
    PROVE  pendingAcks = <<>>
<1>1. pendingAcks \in Seq(Entry) /\ \A e : e \notin Range(pendingAcks)
  BY Zenon DEF ActorGood, PendingHeld
<1>2. \A i \in 1..Len(pendingAcks) : pendingAcks[i] \in Range(pendingAcks)
  BY <1>1 DEF Range
<1>3. Len(pendingAcks) = 0
  BY <1>1, <1>2
<1> QED
  BY <1>1, <1>3

\* A write in EverySecond or No mode.
LEMMA UnsyncedWriteKeeps ==
    ASSUME ActorGood, NEW m \in Message, Policy # "Always", UnsyncedWrite(m)
    PROVE  ActorGood' /\ LogKept
<1>1. PICK r \in {"ok", "err"} :
        /\ WriteOutcome(m, r)
        /\ result' = Resolve(result, IF m.ack THEN {m.entry} ELSE {}, r)
        /\ entriesSinceSync' \in {entriesSinceSync, entriesSinceSync + 1}
  BY Zenon DEF UnsyncedWrite
<1>2. /\ m.entry \in Entry /\ truncatedTo' = truncatedTo /\ shutdown' = shutdown
      /\ pendingAcks' = pendingAcks
  BY Zenon, MessageFields DEF UnsyncedWrite
<1>3. /\ RotatorGood' /\ FilesGrow(files, files')
      /\ \A x : Held(x) => Held(x)'
      /\ closedUnsynced \subseteq closedUnsynced'
  BY Zenon, <1>1, <1>2, WriteOutcomeKeeps DEF ActorGood
<1>4. LogKept
  BY Zenon, <1>2, <1>3, PromisesKept
<1>5. result' \in [Entry -> Results]
  BY <1>1, ResolveType DEF ActorGood, Results
<1>6. AckedDurableOrExposed'
  BY Zenon DEF AckedDurableOrExposed
<1>7. pendingAcks' = <<>> /\ entriesSinceSync' \in Nat
  BY <1>1, <1>2, NoPending DEF ActorGood
<1>8. PendingHeld' /\ PendingAcksCounted'
  BY <1>7 DEF PendingHeld, PendingAcksCounted, Range
<1> QED
  BY Zenon, <1>2, <1>3, <1>4, <1>5, <1>6, <1>7, <1>8 DEF ActorGood

\* The fsync of a tick or of a shutdown in EverySecond mode.
LEMMA UnsyncedSyncKeeps ==
    ASSUME ActorGood, Policy # "Always",
           (\E r \in {"ok", "err"} : RotatorSync(r)) \/ UNCHANGED rotatorVars,
           pendingAcks' = pendingAcks, entriesSinceSync' \in Nat, truncatedTo' = truncatedTo,
           shutdown' \in {"no", "requested", "answered"}, result' \in [Entry -> Results]
    PROVE  ActorGood' /\ LogKept
<1>1. /\ RotatorGood' /\ FilesGrow(files, files')
      /\ \A x : Held(x) => Held(x)'
      /\ closedUnsynced \subseteq closedUnsynced'
  <2>1. CASE UNCHANGED rotatorVars
    BY Zenon, <2>1 DEF rotatorVars, RotatorGood, FilesGrow, Held, ActorGood
  <2>2. CASE \E r \in {"ok", "err"} : RotatorSync(r)
    BY Zenon, <2>2, RotatorSyncKeeps DEF ActorGood
  <2> QED
    BY Zenon, <2>1, <2>2
<1>2. LogKept
  BY Zenon, <1>1, PromisesKept
<1>3. AckedDurableOrExposed'
  BY Zenon DEF AckedDurableOrExposed
<1>4. pendingAcks' = <<>>
  BY Zenon, NoPending
<1>5. PendingHeld' /\ PendingAcksCounted'
  BY <1>4 DEF PendingHeld, PendingAcksCounted, Range
<1> QED
  BY Zenon, <1>1, <1>2, <1>3, <1>4, <1>5 DEF ActorGood

-----------------------------------------------------------------------------
(* The system.                                                             *)

\* The parts of the invariant the actor's handlers do not touch.
ChannelGood ==
    /\ channel \in Seq(Message) /\ Len(channel) <= ChannelCapacity
    /\ pc \in {"recv", "wait", "drain", "stopped", "down"}
    /\ crashes \in 0..MaxCrashes

\* With the machine up, IInv says that the rotator, the actor and the channel
\* are good.
LEMMA IInvParts ==
    pc # "down" => (IInv <=> ActorGood /\ ChannelGood)
<1> SUFFICES ASSUME pc # "down"
             PROVE  IInv <=> ActorGood /\ ChannelGood
  BY Zenon
<1>1. ASSUME IInv
      PROVE  ActorGood /\ ChannelGood
  <2>1. GoodFiles(files)
    BY Zenon, <1>1 DEF IInv, TypeOK, EntriesReadable, GoodFiles, WellFormed, GoodFile
  <2>2. RotatorGood
    BY Zenon, <1>1, <2>1 DEF IInv, TypeOK, WriterClean, SequenceFresh, RotatorGood, Clean
  <2> QED
    BY Zenon, <1>1, <2>2 DEF IInv, TypeOK, ActorGood, ChannelGood
<1>2. ASSUME ActorGood, ChannelGood
      PROVE  IInv
  <2>1. TypeOK
    BY Zenon, <1>2 DEF TypeOK, ActorGood, ChannelGood, RotatorGood, GoodFiles, WellFormed, GoodFile
  <2>2. EntriesReadable /\ WriterClean /\ SequenceFresh
    BY Zenon, <1>2 DEF ActorGood, RotatorGood, GoodFiles, WellFormed, Clean,
                EntriesReadable, WriterClean, SequenceFresh
  <2> QED
    BY Zenon, <1>2, <2>1, <2>2 DEF IInv, ActorGood
<1> QED
  BY Zenon, <1>1, <1>2

\* The initial state: an empty directory and an actor with nothing to do.
LEMMA InitIInv == Init => IInv
<1> SUFFICES ASSUME Init
             PROVE  IInv
  BY Zenon
<1>1. TypeOK
  BY BoundsAssumption DEF Init, TypeOK, Results
<1>2. AckedDurableOrExposed /\ PendingAcksCounted /\ PendingHeld
  BY DEF Init, AckedDurableOrExposed, PendingAcksCounted, PendingHeld, Range
<1>3. EntriesReadable /\ WriterClean /\ SequenceFresh
  BY Zenon DEF Init, EntriesReadable, WriterClean, SequenceFresh
<1> QED
  BY Zenon, <1>1, <1>2, <1>3 DEF IInv

\* Every operation of WalActorHandle adds at most one message and changes the
\* state of its own caller only.
LEMMA CallersKeep ==
    ASSUME ActorGood, ChannelGood, Callers
    PROVE  ActorGood' /\ ChannelGood' /\ LogKept /\ pc' = pc
<1>1. ASSUME NEW m \in Message, Send(m)
      PROVE  channel' \in Seq(Message) /\ Len(channel') <= ChannelCapacity
  BY <1>1, BoundsAssumption DEF Send, ChannelGood
<1>2. /\ \A e \in Entry, a \in BOOLEAN : [type |-> "Write", entry |-> e, ack |-> a] \in Message
      /\ [type |-> "SyncTick"] \in Message /\ [type |-> "Shutdown"] \in Message
      /\ \A t \in TruncateTimes : [type |-> "TruncateUpTo", time |-> t] \in Message
  BY Zenon DEF Message
<1> DEFINE CallerStep ==
             /\ channel' \in Seq(Message) /\ Len(channel') <= ChannelCapacity
             /\ UNCHANGED <<pc, actorVars, rotatorVars, crashes, truncatedTo>>
             /\ shutdown' \in {"no", "requested", "answered"}
             /\ result' \in [Entry -> Results]
             /\ \A e \in Entry : result'[e] = "ok" => result[e] = "ok"
<1>3. ASSUME NEW e \in Entry, WriteDurable(e) \/ WriteFireAndForget(e) \/ AckTimeout(e)
      PROVE  CallerStep
  <2>1. channel' \in Seq(Message) /\ Len(channel') <= ChannelCapacity
    BY Zenon, <1>1, <1>2, <1>3 DEF WriteDurable, WriteFireAndForget, AckTimeout, ChannelGood
  <2>2. PICK r \in Results \ {"ok"} : result' = [result EXCEPT ![e] = r]
    BY Zenon, <1>3 DEF WriteDurable, WriteFireAndForget, AckTimeout, Results
  <2>3. shutdown' = shutdown /\ UNCHANGED <<pc, actorVars, rotatorVars, crashes, truncatedTo>>
    BY Zenon, <1>3 DEF WriteDurable, WriteFireAndForget, AckTimeout
  <2> QED
    BY Zenon, <2>1, <2>2, <2>3 DEF ActorGood
<1>4. ASSUME SyncTick
      PROVE  CallerStep
  BY Zenon, <1>1, <1>2, <1>4 DEF SyncTick, ActorGood
<1>5. ASSUME NEW t \in TruncateTimes, Truncate(t)
      PROVE  CallerStep
  BY Zenon, <1>1, <1>2, <1>5 DEF Truncate, ActorGood
<1>6. ASSUME RequestShutdown
      PROVE  CallerStep
  BY Zenon, <1>1, <1>2, <1>6 DEF RequestShutdown, ActorGood
<1>7. CallerStep
  BY Zenon, <1>3, <1>4, <1>5, <1>6 DEF Callers
<1>8. ActorGood' /\ LogKept
  BY Zenon, <1>7, AnswersKeep DEF actorVars
<1> QED
  BY Zenon, <1>7, <1>8 DEF ChannelGood

\* handle_message_always, for the messages after which the loop goes on.
LEMMA HandleMessageAlwaysKeeps ==
    ASSUME ActorGood, NEW m \in Message, Policy = "Always", HandleMessageAlways(m)
    PROVE  ActorGood' /\ LogKept
<1>1. CASE AlwaysWrite(m)
  BY Zenon, <1>1, AlwaysWriteKeeps
<1>2. CASE HandleTruncation(m)
  BY Zenon, <1>2, TruncationKeeps
<1>3. CASE UNCHANGED <<result, shutdown, actorVars, rotatorVars, truncatedTo>>
  <2>1. UNCHANGED <<rotatorVars, pendingAcks, entriesSinceSync, truncatedTo>> /\ result' = result
        /\ shutdown' = shutdown
    BY Zenon, <1>3 DEF actorVars
  <2> QED
    BY Zenon, <2>1, AnswersKeep DEF ActorGood
<1> QED
  BY Zenon, <1>1, <1>2, <1>3 DEF HandleMessageAlways

\* Every step of the actor's loop, in every mode.
LEMMA ActorStepKeeps ==
    ASSUME ActorGood, ChannelGood, ActorStep
    PROVE  ActorGood' /\ ChannelGood' /\ LogKept /\ pc' # "down"
<1>1. ASSUME channel # <<>>
      PROVE  /\ Head(channel) \in Message
             /\ Tail(channel) \in Seq(Message) /\ Len(Tail(channel)) <= ChannelCapacity
  BY <1>1, BoundsAssumption DEF ChannelGood
<1>2. <<>> \in Seq(Message) /\ Len(<<>>) <= ChannelCapacity
  BY BoundsAssumption
<1>3. ASSUME NEW m, NEW S, HandleShutdownAlways(m, S)
      PROVE  ActorGood' /\ LogKept
  BY Zenon, <1>3, FlushKeeps DEF HandleShutdownAlways
<1>4. CASE Policy = "Always" /\ AlwaysRecv
  <2>1. ActorGood' /\ LogKept
    BY Zenon, <1>1, <1>3, <1>4, HandleMessageAlwaysKeeps DEF AlwaysRecv
  <2>2. ChannelGood' /\ pc' # "down"
    BY Zenon, <1>1, <1>2, <1>4 DEF AlwaysRecv, ChannelGood
  <2> QED
    BY Zenon, <2>1, <2>2
<1>5. CASE Policy = "Always" /\ AlwaysWaitRecv
  <2>1. ActorGood' /\ LogKept
    BY Zenon, <1>1, <1>3, <1>5, HandleMessageAlwaysKeeps DEF AlwaysWaitRecv
  <2>2. ChannelGood' /\ pc' # "down"
    BY Zenon, <1>1, <1>5 DEF AlwaysWaitRecv, ChannelGood
  <2> QED
    BY Zenon, <2>1, <2>2
<1>6. CASE Policy = "Always" /\ AlwaysWaitEnd
  <2>1. ActorGood' /\ LogKept
    <3>1. /\ UNCHANGED <<rotatorVars, pendingAcks, entriesSinceSync, truncatedTo>>
          /\ result' = result /\ shutdown' = shutdown
      BY Zenon, <1>6 DEF AlwaysWaitEnd, actorVars
    <3> QED
      BY Zenon, <3>1, AnswersKeep DEF ActorGood
  <2>2. ChannelGood' /\ pc' # "down"
    BY Zenon, <1>6 DEF AlwaysWaitEnd, ChannelGood
  <2> QED
    BY Zenon, <2>1, <2>2
<1>7. CASE Policy = "Always" /\ AlwaysDrainRecv
  <2>1. ActorGood' /\ LogKept
    BY Zenon, <1>1, <1>3, <1>7, HandleMessageAlwaysKeeps DEF AlwaysDrainRecv
  <2>2. ChannelGood' /\ pc' # "down"
    BY Zenon, <1>1, <1>2, <1>7 DEF AlwaysDrainRecv, ChannelGood
  <2> QED
    BY Zenon, <2>1, <2>2
<1>8. CASE Policy = "Always" /\ AlwaysFlush
  <2>1. ActorGood' /\ LogKept
    BY Zenon, <1>8, FlushKeeps DEF AlwaysFlush, ActorGood
  <2>2. ChannelGood' /\ pc' # "down"
    BY Zenon, <1>8 DEF AlwaysFlush, ChannelGood
  <2> QED
    BY Zenon, <2>1, <2>2
<1>9. CASE Policy # "Always" /\ UnsyncedRecv
  <2>1. ChannelGood' /\ pc' # "down"
    BY Zenon, <1>1, <1>2, <1>9 DEF UnsyncedRecv, ChannelGood
  <2>2. Head(channel) \in Message
    BY Zenon, <1>1, <1>9 DEF UnsyncedRecv
  <2>3. CASE UnsyncedWrite(Head(channel))
    BY Zenon, <1>9, <2>2, <2>3, UnsyncedWriteKeeps, <2>1
  <2>4. CASE HandleTruncation(Head(channel))
    BY Zenon, <2>2, <2>4, TruncationKeeps, <2>1
  <2>5. CASE HandleSyncTick(Head(channel))
    <3>1. ActorGood' /\ LogKept
      BY Zenon, <1>9, <2>5, UnsyncedSyncKeeps DEF HandleSyncTick, ActorGood
    <3> QED
      BY Zenon, <2>1, <3>1
  <2>6. CASE HandleShutdownUnsynced(Head(channel))
    <3>1. result' \in [Entry -> Results]
      BY Zenon, <2>6, ResolveType DEF HandleShutdownUnsynced, ActorGood, Results
    <3>2. ActorGood' /\ LogKept
      BY Zenon, <1>9, <2>6, <3>1, UnsyncedSyncKeeps DEF HandleShutdownUnsynced, ActorGood, actorVars
    <3> QED
      BY Zenon, <2>1, <3>2
  <2> QED
    BY Zenon, <1>9, <2>3, <2>4, <2>5, <2>6 DEF UnsyncedRecv
<1> QED
  BY Zenon, <1>4, <1>5, <1>6, <1>7, <1>8, <1>9 DEF ActorStep

\* A crash of the machine keeps what was durable, whatever prefix of each file
\* survives.
LEMMA CrashKeepsIInv ==
    ASSUME IInv, Crash
    PROVE  IInv' /\ \A x \in Durable(files) : x \in Durable(files')
<1>1. /\ pc # "down" /\ pc' = "down" /\ crashes' = crashes + 1 /\ crashes < MaxCrashes
      /\ DOMAIN files' = DOMAIN files
      /\ \A n \in DOMAIN files : files'[n] \in CrashImages(files[n])
      /\ result' = Resolve(result, Entry, "lost")
      /\ channel' = <<>> /\ pendingAcks' = <<>> /\ entriesSinceSync' = 0 /\ current' = 0
      /\ shutdown' = "no"
      /\ currentSequence' = currentSequence /\ closedUnsynced' = closedUnsynced
      /\ truncatedTo' = truncatedTo
  BY Zenon DEF Crash
<1>2. ActorGood /\ ChannelGood
  BY Zenon, <1>1, IInvParts
<1>3. \A n \in DOMAIN files : n \in Nat \ {0} /\ WellFormed(files[n]) /\ GoodFile(files[n])
  BY Zenon, <1>2 DEF ActorGood, RotatorGood, GoodFiles, WellFormed
<1>4. \A n \in DOMAIN files :
          WellFormed(files'[n]) /\ DurableIn(files[n]) \subseteq DurableIn(files'[n])
  BY Zenon, <1>1, <1>3, CrashKeeps, CrashWellFormed
<1>5. \A x \in Durable(files) : x \in Durable(files')
  BY Zenon, <1>1, <1>4 DEF Durable
<1>6. result' \in [Entry -> Results] /\ \A e \in Entry : result'[e] = "ok" => result[e] = "ok"
  BY <1>1, <1>2, ResolveType DEF ActorGood, Results
<1>7. TypeOK'
  <2>1. crashes' \in 0..MaxCrashes
    <3>1. crashes' = crashes + 1 /\ crashes < MaxCrashes
      BY Zenon, <1>1
    <3>2. crashes \in 0..MaxCrashes
      BY Zenon, <1>2 DEF ChannelGood
    <3>3. MaxCrashes \in Nat
      BY Zenon, BoundsAssumption
    <3> QED
      BY <3>1, <3>2, <3>3
  <2>2. DOMAIN files' \subseteq Nat \ {0} /\ \A n \in DOMAIN files' : GoodFile(files'[n])
    BY Zenon, <1>1, <1>3, <1>4 DEF WellFormed
  <2> QED
    BY <1>1, <1>2, <1>6, <2>1, <2>2, BoundsAssumption
       DEF TypeOK, ActorGood, RotatorGood, GoodFile
<1>8. AckedDurableOrExposed'
  BY Zenon, <1>1, <1>2, <1>5, <1>6 DEF ActorGood, AckedDurableOrExposed, Streamed
<1>9. EntriesReadable' /\ WriterClean' /\ SequenceFresh'
  BY Zenon, <1>1, <1>4 DEF EntriesReadable, WriterClean, SequenceFresh, WellFormed
<1>10. PendingAcksCounted' /\ PendingHeld'
  BY <1>1 DEF PendingAcksCounted, PendingHeld, Range
<1> QED
  BY Zenon, <1>5, <1>7, <1>8, <1>9, <1>10 DEF IInv

\* WalRotator::new takes the largest number in the directory: the log is as it was.
LEMMA RestartKeepsIInv ==
    ASSUME IInv, Restart
    PROVE  IInv' /\ LogKept
<1>1. /\ pc' = "recv" /\ currentSequence' \in DOMAIN files \cup {0}
      /\ \A m \in DOMAIN files : m <= currentSequence'
      /\ channel' = channel /\ result' = result /\ shutdown' = shutdown
      /\ pendingAcks' = pendingAcks /\ entriesSinceSync' = entriesSinceSync
      /\ files' = files /\ current' = current /\ crashes' = crashes
      /\ closedUnsynced' = closedUnsynced /\ truncatedTo' = truncatedTo
  BY Zenon DEF Restart, actorVars
<1>2. TypeOK'
  BY <1>1 DEF IInv, TypeOK
<1>3. AckedDurableOrExposed' /\ PendingAcksCounted' /\ PendingHeld'
  BY Zenon, <1>1 DEF IInv, AckedDurableOrExposed, PendingAcksCounted, PendingHeld, Streamed
<1>4. EntriesReadable' /\ WriterClean' /\ SequenceFresh'
  BY Zenon, <1>1 DEF IInv, EntriesReadable, WriterClean, SequenceFresh
<1> QED
  BY Zenon, <1>1, <1>2, <1>3, <1>4 DEF IInv, LogKept

\* Every step of the system keeps the invariant, the durable entries and, unless
\* the machine goes down, the readable ones.
LEMMA NextIInv ==
    ASSUME IInv, [Next]_vars
    PROVE  /\ IInv'
           /\ \A x \in Durable(files) : x \in Durable(files') \/ Timestamp[x] <= truncatedTo'
           /\ pc' # "down" =>
                \A x \in Readable(files) : x \in Readable(files') \/ Timestamp[x] <= truncatedTo'
<1>1. CASE UNCHANGED vars
  <2>1. /\ pc' = pc /\ currentSequence' = currentSequence
        /\ channel' = channel /\ result' = result /\ shutdown' = shutdown
        /\ pendingAcks' = pendingAcks /\ entriesSinceSync' = entriesSinceSync
        /\ files' = files /\ current' = current /\ crashes' = crashes
        /\ closedUnsynced' = closedUnsynced /\ truncatedTo' = truncatedTo
    BY Zenon, <1>1 DEF vars, actorVars, rotatorVars
  <2>2. TypeOK'
    BY Zenon, <2>1 DEF IInv, TypeOK
  <2>3. AckedDurableOrExposed' /\ PendingAcksCounted' /\ PendingHeld'
    BY Zenon, <2>1 DEF IInv, AckedDurableOrExposed, PendingAcksCounted, PendingHeld, Streamed
  <2>4. EntriesReadable' /\ WriterClean' /\ SequenceFresh'
    BY Zenon, <2>1 DEF IInv, EntriesReadable, WriterClean, SequenceFresh
  <2> QED
    BY Zenon, <2>1, <2>2, <2>3, <2>4 DEF IInv
<1> DEFINE UpParts == pc # "down" => (IInv <=> ActorGood /\ ChannelGood)
<1>2. UpParts'
  BY IInvParts, PTL
<1>3. ASSUME Callers \/ ActorStep
      PROVE  IInv' /\ LogKept
  <2>1. pc # "down"
    BY Zenon, <1>3 DEF Callers, WriteDurable, WriteFireAndForget, AckTimeout, SyncTick, Truncate,
                RequestShutdown, Send, Running, ActorStep, AlwaysRecv, AlwaysWaitRecv,
                AlwaysWaitEnd, AlwaysDrainRecv, AlwaysFlush, UnsyncedRecv
  <2>2. ActorGood /\ ChannelGood
    BY Zenon, <2>1, IInvParts
  <2>3. ActorGood' /\ ChannelGood' /\ LogKept /\ pc' # "down"
    BY Zenon, <1>3, <2>1, <2>2, CallersKeep, ActorStepKeeps
  <2> QED
    BY Zenon, <1>2, <2>3
<1>4. CASE Crash
  BY Zenon, <1>4, CrashKeepsIInv DEF Crash
<1>5. CASE Restart
  BY Zenon, <1>5, RestartKeepsIInv DEF LogKept
<1> QED
  BY Zenon, <1>1, <1>3, <1>4, <1>5 DEF Next, LogKept

-----------------------------------------------------------------------------
(* The theorems.                                                           *)

\* The invariant holds in every reachable state, whatever the constants are.
THEOREM Invariance == Spec => []IInv
<1>1. IInv /\ [Next]_vars => IInv'
  BY Zenon, NextIInv
<1> QED
  BY InitIInv, <1>1, PTL DEF Spec

\* Every variable of the log has its type: in particular the channel keeps its
\* capacity, no fsync covers more than was appended, and the writer's file exists.
THEOREM TypeCorrect == Spec => []TypeOK
<1>1. IInv => TypeOK
  BY Zenon DEF IInv
<1> QED
  BY Invariance, <1>1, PTL

\* Always mode: flush_group_commit acknowledges a write only if the write
\* survives a crash, was streamed, or sat in a writer that was dropped without
\* an fsync.
THEOREM AckedSafe == Spec => []AckedDurableOrExposed
<1>1. IInv => AckedDurableOrExposed
  BY Zenon DEF IInv
<1> QED
  BY Invariance, <1>1, PTL

\* WalRotator::append never writes an entry where recovery cannot read it.
THEOREM AppendedReadable == Spec => []EntriesReadable
<1>1. IInv => EntriesReadable
  BY Zenon DEF IInv
<1> QED
  BY Invariance, <1>1, PTL

\* WalActor::verify_invariants never fails.
THEOREM AcksCounted == Spec => []PendingAcksCounted
<1>1. IInv => PendingAcksCounted
  BY Zenon DEF IInv
<1> QED
  BY Invariance, <1>1, PTL

\* No step, a crash or a restart included, loses a durable entry that no
\* truncation covers.
THEOREM DurableNeverLost == Spec => DurableKept
<1>1. IInv /\ [Next]_vars =>
        [\A e \in Durable(files) : e \in Durable(files') \/ Timestamp[e] <= truncatedTo']_vars
  BY Zenon, NextIInv
<1> QED
  BY Invariance, <1>1, PTL DEF Spec, DurableKept

\* No step with the machine up loses an entry a reader could see and that no
\* truncation covers.
THEOREM ReadableNeverLost == Spec => ReadableKept
<1>1. IInv /\ [Next]_vars =>
        [pc' # "down" =>
            \A e \in Readable(files) : e \in Readable(files') \/ Timestamp[e] <= truncatedTo']_vars
  BY Zenon, NextIInv
<1> QED
  BY Invariance, <1>1, PTL DEF Spec, ReadableKept
=============================================================================

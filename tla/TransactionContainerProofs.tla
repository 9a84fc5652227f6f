---------------------- MODULE TransactionContainerProofs ----------------------
(* Proofs about TransactionContainer, for any transactions, payload sizes and limits,  *)
(* with every failure of the file storage and any number of crashes: the two accounts  *)
(* are exact, the two limits hold, and the container implements RetryQueue.             *)
EXTENDS TransactionContainer, DataTheorems

-----------------------------------------------------------------------------
(* Sizes of sets of transactions. *)

LEMMA SizeFacts ==
    ASSUME NEW S \in SUBSET Transactions
    PROVE  /\ SizeOf(S) \in Nat
           /\ \A D \in SUBSET S : SizeOf(D) \in Nat /\ SizeOf(S \ D) = SizeOf(S) - SizeOf(D)
           /\ \A t \in Transactions \ S : SizeOf(S \cup {t}) = SizeOf(S) + PayloadSize[t]
<1>1. \A U \in SUBSET Transactions :
         IsFiniteSet(U) /\ (\A t \in U : PayloadSize[t] \in Nat) /\ SizeOf(U) \in Nat
  BY FunctionsAssumption, FS_Subset, SumType DEF FunctionsAssumption, SizeOf
<1>2. ASSUME NEW D \in SUBSET S
      PROVE  SizeOf(S \ D) = SizeOf(S) - SizeOf(D)
  <2>1. SizeOf(S) = SizeOf(D) + SizeOf(S \ D)
    BY <1>1, SumSplit DEF SizeOf
  <2>2. SizeOf(S) \in Nat /\ SizeOf(D) \in Nat /\ SizeOf(S \ D) \in Nat
    BY <1>1
  <2> QED BY <2>1, <2>2
<1>3. ASSUME NEW t \in Transactions \ S
      PROVE  SizeOf(S \cup {t}) = SizeOf(S) + PayloadSize[t]
  <2>1. S \cup {t} \in SUBSET Transactions /\ (S \cup {t}) \ {t} = S
    OBVIOUS
  <2>2. SizeOf(S \cup {t}) = PayloadSize[t] + SizeOf((S \cup {t}) \ {t})
    BY <1>1, <2>1, SumRemove DEF SizeOf
  <2>3. PayloadSize[t] \in Nat /\ SizeOf(S) \in Nat
    BY <1>1, FunctionsAssumption DEF FunctionsAssumption
  <2>4. SizeOf((S \cup {t}) \ {t}) = SizeOf(S)
    BY <2>1
  <2> QED BY ONLY <2>2, <2>3, <2>4
<1> QED BY <1>1, <1>2, <1>3

LEMMA SizeEmpty == SizeOf({}) = 0
BY SumEmpty DEF SizeOf

-----------------------------------------------------------------------------
(* Sizes of sequences of files. *)

\* The sum of the sizes of some of the files.
UsageOf(d, K) == SumFunctionOnSet(FileSizes(d), K)

LEMMA FileSizeAt ==
    ASSUME NEW d \in Seq(Files), NEW k \in DOMAIN d
    PROVE  FileSizes(d)[k] = d[k].size /\ d[k].size \in Nat
<1>1. d[k] \in Files
  OBVIOUS
<1> QED BY <1>1 DEF FileSizes, Files

LEMMA UsageFacts ==
    ASSUME NEW d \in Seq(Files)
    PROVE  /\ \A K \in SUBSET DOMAIN d :
                 /\ IsFiniteSet(K) /\ UsageOf(d, K) \in Nat
                 /\ \A k \in K : UsageOf(d, K) = d[k].size + UsageOf(d, K \ {k})
           /\ \A K \in SUBSET DOMAIN d : UsageOf(d, K) <= UsageOf(d, DOMAIN d)
<1>1. IsFiniteSet(DOMAIN d)
  <2>1. Len(d) \in Nat /\ DOMAIN d = 1..Len(d)
    OBVIOUS
  <2> QED BY <2>1, FS_Interval
<1>2. \A k \in DOMAIN d : FileSizes(d)[k] = d[k].size /\ d[k].size \in Nat
  BY FileSizeAt
<1>3. ASSUME NEW K \in SUBSET DOMAIN d
      PROVE  IsFiniteSet(K) /\ UsageOf(d, K) \in Nat
  BY <1>1, <1>2, FS_Subset, SumType DEF UsageOf
<1>4. ASSUME NEW K \in SUBSET DOMAIN d, NEW k \in K
      PROVE  UsageOf(d, K) = d[k].size + UsageOf(d, K \ {k})
  <2>1. \A x \in K : FileSizes(d)[x] \in Nat
    BY <1>2
  <2>2. SumFunctionOnSet(FileSizes(d), K)
          = FileSizes(d)[k] + SumFunctionOnSet(FileSizes(d), K \ {k})
    BY <1>3, <2>1, SumRemove
  <2> QED BY <1>2, <2>2 DEF UsageOf
<1>5. ASSUME NEW K \in SUBSET DOMAIN d
      PROVE  UsageOf(d, K) <= UsageOf(d, DOMAIN d)
  <2>1. UsageOf(d, DOMAIN d) = UsageOf(d, K) + UsageOf(d, DOMAIN d \ K)
    BY <1>1, <1>2, SumSplit DEF UsageOf
  <2>2. UsageOf(d, DOMAIN d) \in Nat /\ UsageOf(d, K) \in Nat /\ UsageOf(d, DOMAIN d \ K) \in Nat
    BY <1>3
  <2> QED BY <2>1, <2>2
<1> QED BY <1>3, <1>4, <1>5

\* The files of e are some of those of d, at other places.
LEMMA UsageMoved ==
    ASSUME NEW d \in Seq(Files), NEW e \in Seq(Files), NEW f, NEW K \in SUBSET DOMAIN e,
           \A j \in K : f[j] \in DOMAIN d /\ d[f[j]].size = e[j].size,
           \A i, j \in K : f[i] = f[j] => i = j
    PROVE  UsageOf(e, K) = UsageOf(d, Renamed(f, K))
<1>1. \A j \in K : FileSizes(d)[f[j]] = FileSizes(e)[j] /\ FileSizes(e)[j] \in Nat
  <2>1. \A j \in K : FileSizes(e)[j] = e[j].size /\ e[j].size \in Nat
    BY FileSizeAt
  <2>2. \A j \in K : FileSizes(d)[f[j]] = d[f[j]].size
    BY FileSizeAt
  <2> QED BY <2>1, <2>2
<1>2. IsFiniteSet(K)
  BY UsageFacts
<1> QED BY <1>1, <1>2, SumRenamed DEF UsageOf

LEMMA UsageSame ==
    ASSUME NEW d \in Seq(Files), NEW e \in Seq(Files), NEW K \in SUBSET DOMAIN d,
           K \subseteq DOMAIN e, \A k \in K : e[k].size = d[k].size
    PROVE  UsageOf(e, K) = UsageOf(d, K)
<1>1. \A k \in K : FileSizes(e)[k] = FileSizes(d)[k]
  BY DEF FileSizes
<1>2. IsFiniteSet(K)
  BY UsageFacts
<1> QED BY <1>1, <1>2, SumSame DEF UsageOf

CountedIn(d) == {k \in DOMAIN d : d[k].counted}

LEMMA UsageNames ==
    ASSUME NEW d
    PROVE  DiskUsage(d) = UsageOf(d, DOMAIN d) /\ CountedUsage(d) = UsageOf(d, CountedIn(d))
BY DEF DiskUsage, CountedUsage, UsageOf, CountedIn

LEMMA UsageType ==
    ASSUME NEW d \in Seq(Files)
    PROVE  DiskUsage(d) \in Nat /\ CountedUsage(d) \in Nat
<1>1. DOMAIN d \in SUBSET DOMAIN d /\ CountedIn(d) \in SUBSET DOMAIN d
  BY DEF CountedIn
<1> QED BY <1>1, UsageFacts, UsageNames

\* A file more.
LEMMA UsageAppend ==
    ASSUME NEW d \in Seq(Files), NEW f \in Files
    PROVE  /\ Append(d, f) \in Seq(Files)
           /\ DiskUsage(Append(d, f)) = DiskUsage(d) + f.size
           /\ CountedUsage(Append(d, f)) = CountedUsage(d) + IF f.counted THEN f.size ELSE 0
<1> DEFINE e == Append(d, f)
           n == Len(d) + 1
<1>1. /\ e \in Seq(Files) /\ DOMAIN d = 1..Len(d) /\ DOMAIN e = DOMAIN d \cup {n}
      /\ Len(d) \in Nat /\ e[n] = f /\ \A k \in DOMAIN d : e[k] = d[k]
  OBVIOUS
<1>2. n \notin DOMAIN d
  BY <1>1
<1> HIDE DEF e, n
<1>3. ASSUME NEW K \in SUBSET DOMAIN d
      PROVE  UsageOf(e, K) = UsageOf(d, K) /\ UsageOf(e, K \cup {n}) = UsageOf(d, K) + f.size
  <2>1. UsageOf(e, K) = UsageOf(d, K)
    BY <1>1, UsageSame
  <2>2. K \cup {n} \in SUBSET DOMAIN e /\ (K \cup {n}) \ {n} = K
    BY <1>1, <1>2
  <2>3. UsageOf(e, K \cup {n}) = e[n].size + UsageOf(e, (K \cup {n}) \ {n})
    BY <1>1, <2>2, UsageFacts
  <2>4. UsageOf(d, K) \in Nat /\ f.size \in Nat
    BY UsageFacts DEF Files
  <2>5. UsageOf(e, (K \cup {n}) \ {n}) = UsageOf(d, K)
    BY <2>1, <2>2
  <2> QED BY <1>1, <2>1, <2>3, <2>4, <2>5
<1>4. DiskUsage(e) = DiskUsage(d) + f.size
  <2>1. DiskUsage(e) = UsageOf(e, DOMAIN e) /\ DiskUsage(d) = UsageOf(d, DOMAIN d)
    BY <1>1, UsageNames
  <2>2. DOMAIN e = DOMAIN d \cup {n}
    BY <1>1
  <2> QED BY <1>3, <2>1, <2>2
<1>5. CountedIn(d) \in SUBSET DOMAIN d
  BY DEF CountedIn
<1>6. CASE f.counted
  <2>1. CountedIn(e) = CountedIn(d) \cup {n}
    BY <1>1, <1>6 DEF CountedIn
  <2> QED BY <1>1, <1>3, <1>4, <1>5, <1>6, <2>1, UsageNames DEF e
<1>7. CASE ~f.counted
  <2>1. CountedIn(e) = CountedIn(d)
    BY <1>1, <1>2, <1>7 DEF CountedIn
  <2>2. CountedUsage(d) \in Nat
    BY UsageType
  <2>3. CountedUsage(e) = CountedUsage(d)
    BY <1>3, <1>5, <2>1, UsageNames
  <2> QED BY <1>1, <1>4, <1>7, <2>2, <2>3 DEF e
<1> QED BY <1>6, <1>7

\* A file less.
LEMMA UsageRemove ==
    ASSUME NEW d \in Seq(Files), NEW i \in DOMAIN d
    PROVE  /\ RemoveAt(d, i) \in Seq(Files)
           /\ DiskUsage(RemoveAt(d, i)) = DiskUsage(d) - d[i].size
           /\ d[i].counted => CountedUsage(RemoveAt(d, i)) = CountedUsage(d) - d[i].size
<1> DEFINE e == RemoveAt(d, i)
           f == [j \in DOMAIN e |-> IF j < i THEN j ELSE j + 1]
<1>1. /\ e \in Seq(Files) /\ Len(e) = Len(d) - 1 /\ DOMAIN e = 1..(Len(d) - 1)
      /\ DOMAIN d = 1..Len(d) /\ Len(d) \in Nat
  BY RemoveAtFacts
<1>2. \A j \in DOMAIN e : f[j] \in DOMAIN d \ {i} /\ e[j] = d[f[j]]
  <2>1. \A j \in DOMAIN e : e[j] = IF j < i THEN d[j] ELSE d[j + 1]
    BY <1>1, RemoveAtFacts
  <2> HIDE DEF e
  <2> QED BY <1>1, <2>1
<1>3. \A j, k \in DOMAIN e : f[j] = f[k] => j = k
  BY <1>1
<1>4. \A k \in DOMAIN d \ {i} : \E j \in DOMAIN e : f[j] = k
  <2> TAKE k \in DOMAIN d \ {i}
  <2>1. CASE k < i
    <3>1. k \in DOMAIN e /\ f[k] = k
      BY <1>1, <2>1
    <3> QED BY <3>1
  <2>2. CASE k > i
    <3>1. k - 1 \in DOMAIN e /\ f[k - 1] = k
      BY <1>1, <2>2
    <3> QED BY <3>1
  <2> QED BY <1>1, <2>1, <2>2
<1> HIDE DEF e, f
<1>5. Renamed(f, DOMAIN e) = DOMAIN d \ {i}
  BY <1>2, <1>4 DEF Renamed
<1>6. Renamed(f, CountedIn(e)) = CountedIn(d) \ {i}
  BY <1>2, <1>4 DEF Renamed, CountedIn
<1>7. CountedIn(e) \in SUBSET DOMAIN e /\ CountedIn(d) \in SUBSET DOMAIN d
  BY DEF CountedIn
<1>8. UsageOf(e, DOMAIN e) = UsageOf(d, DOMAIN d \ {i})
  <2>1. \A K \in SUBSET DOMAIN e : UsageOf(e, K) = UsageOf(d, Renamed(f, K))
    BY <1>1, <1>2, <1>3, UsageMoved
  <2> QED BY <1>5, <2>1
<1>9. UsageOf(e, CountedIn(e)) = UsageOf(d, CountedIn(d) \ {i})
  <2>1. UsageOf(e, CountedIn(e)) = UsageOf(d, Renamed(f, CountedIn(e)))
    BY <1>1, <1>2, <1>3, <1>7, UsageMoved
  <2> QED BY <1>6, <2>1
<1>10. UsageOf(d, DOMAIN d) = d[i].size + UsageOf(d, DOMAIN d \ {i})
  BY UsageFacts
<1>11. d[i].counted => UsageOf(d, CountedIn(d)) = d[i].size + UsageOf(d, CountedIn(d) \ {i})
  <2>1. d[i].counted => i \in CountedIn(d)
    BY DEF CountedIn
  <2> QED BY <2>1, <1>7, UsageFacts
<1>12. /\ d[i].size \in Nat
       /\ UsageOf(d, DOMAIN d \ {i}) \in Nat /\ UsageOf(d, CountedIn(d) \ {i}) \in Nat
  BY <1>7, FileSizeAt, UsageFacts
<1>13. DiskUsage(e) = DiskUsage(d) - d[i].size
  BY <1>8, <1>10, <1>12, UsageNames
<1>14. d[i].counted => CountedUsage(e) = CountedUsage(d) - d[i].size
  BY <1>9, <1>11, <1>12, UsageNames
<1> QED BY <1>1, <1>13, <1>14 DEF e

\* A file that is no longer known is still there.
LEMMA UsageForget ==
    ASSUME NEW d \in Seq(Files), NEW i \in DOMAIN d
    PROVE  /\ [d EXCEPT ![i].known = FALSE] \in Seq(Files)
           /\ DiskUsage([d EXCEPT ![i].known = FALSE]) = DiskUsage(d)
           /\ CountedUsage([d EXCEPT ![i].known = FALSE]) = CountedUsage(d)
<1> DEFINE e == [d EXCEPT ![i].known = FALSE]
<1>1. \A k \in DOMAIN d : d[k] \in Files
  OBVIOUS
<1>2. [d[i] EXCEPT !.known = FALSE] \in Files
  BY <1>1 DEF Files
<1>3. e \in Seq(Files) /\ DOMAIN e = DOMAIN d
  BY <1>2
<1>4. \A k \in DOMAIN d : e[k].size = d[k].size /\ e[k].counted = d[k].counted
  BY <1>1 DEF Files
<1> HIDE DEF e
<1>5. CountedIn(e) = CountedIn(d) /\ CountedIn(d) \in SUBSET DOMAIN d
  BY <1>3, <1>4 DEF CountedIn
<1>6. UsageOf(e, DOMAIN d) = UsageOf(d, DOMAIN d) /\ UsageOf(e, CountedIn(d)) = UsageOf(d, CountedIn(d))
  BY <1>3, <1>4, <1>5, UsageSame
<1>7. DiskUsage(e) = DiskUsage(d) /\ CountedUsage(e) = CountedUsage(d)
  BY <1>3, <1>5, <1>6, UsageNames
<1> QED BY <1>3, <1>7 DEF e

\* The files that are reloaded.
Reloaded(d, k) ==
    [j \in 1..(Len(d) - k) |-> [d[k + j] EXCEPT !.known = TRUE, !.counted = TRUE]]

LEMMA UsageReloaded ==
    ASSUME NEW d \in Seq(Files), NEW k \in 0..Len(d)
    PROVE  /\ Reloaded(d, k) \in Seq(Files) /\ Len(Reloaded(d, k)) = Len(d) - k
           /\ \A j \in DOMAIN Reloaded(d, k) :
                 /\ k + j \in DOMAIN d /\ Reloaded(d, k)[j].txs = d[k + j].txs
                 /\ Reloaded(d, k)[j].known /\ Reloaded(d, k)[j].counted
           /\ DiskUsage(Reloaded(d, k)) <= DiskUsage(d)
           /\ CountedUsage(Reloaded(d, k)) = DiskUsage(Reloaded(d, k))
<1> DEFINE e == Reloaded(d, k)
           f == [j \in 1..(Len(d) - k) |-> k + j]
<1>1. Len(d) \in Nat /\ DOMAIN d = 1..Len(d) /\ Len(d) - k \in Nat /\ \A j \in DOMAIN d : d[j] \in Files
  OBVIOUS
<1>2. \A j \in 1..(Len(d) - k) : k + j \in DOMAIN d
  BY <1>1
<1>3. \A g \in Files : [g EXCEPT !.known = TRUE, !.counted = TRUE] \in Files
  BY DEF Files
<1>4. e \in [1..(Len(d) - k) -> Files]
  BY <1>1, <1>2, <1>3 DEF Reloaded
<1>5. e \in Seq(Files) /\ Len(e) = Len(d) - k /\ DOMAIN e = 1..(Len(d) - k)
  BY <1>1, <1>4, FunctionIsSeq
<1>6. \A j \in DOMAIN e : /\ e[j].txs = d[k + j].txs /\ e[j].size = d[k + j].size
                         /\ e[j].known /\ e[j].counted
  BY <1>1, <1>2, <1>5 DEF Reloaded, Files
<1>7. \A j \in DOMAIN e : f[j] \in DOMAIN d /\ d[f[j]].size = e[j].size
  BY <1>2, <1>5, <1>6
<1>8. \A i, j \in DOMAIN e : f[i] = f[j] => i = j
  BY <1>1, <1>5
<1> HIDE DEF e, f
<1>9. UsageOf(e, DOMAIN e) = UsageOf(d, Renamed(f, DOMAIN e))
  <2>1. \A K \in SUBSET DOMAIN e : UsageOf(e, K) = UsageOf(d, Renamed(f, K))
    BY <1>5, <1>7, <1>8, UsageMoved
  <2> QED BY <2>1
<1>10. Renamed(f, DOMAIN e) \in SUBSET DOMAIN d
  BY <1>7 DEF Renamed
<1>11. DiskUsage(e) <= DiskUsage(d)
  BY <1>9, <1>10, UsageFacts, UsageNames
<1>12. CountedIn(e) = DOMAIN e
  BY <1>6 DEF CountedIn
<1>13. CountedUsage(e) = DiskUsage(e)
  BY <1>12, UsageNames
<1> QED BY <1>2, <1>5, <1>6, <1>11, <1>13 DEF e
-----------------------------------------------------------------------------
(* Types, and what add() holds at each of its steps. *)

Types ==
    /\ held \subseteq Transactions
    /\ transactions \subseteq Transactions
    /\ storage \in Storages
    /\ disk \in Seq(Files)
    /\ pc \in {"idle", "extract", "serialize", "drop", "panic"}
    /\ cur \in Transactions \cup {NoTransaction}
    /\ groups \in Seq(SUBSET Transactions)
    /\ removeErrors \in 0..MaxRemoveErrors
    /\ crashes \in 0..MaxCrashes

AddControl ==
    /\ pc = "idle" => cur = NoTransaction /\ groups = <<>>
    /\ pc \in {"extract", "serialize", "drop"} => cur \in Transactions
    /\ pc = "drop" => groups = <<>>

LEMMA KnownFiles ==
    ASSUME Types, Filenames # {}
    PROVE  Min(Filenames) \in Filenames /\ Max(Filenames) \in Filenames
<1>1. Len(disk) \in Nat /\ Filenames \in SUBSET (1..Len(disk))
  BY DEF Types, Filenames
<1> QED BY <1>1, MinMax

LEMMA BufferType ==
    ASSUME NEW g \in SUBSET Transactions
    PROVE  /\ Stored(g) \in SUBSET g
           /\ BufferSize(g) \in Nat
<1>1. Stored(g) \in SUBSET Transactions
  BY DEF Stored
<1>2. SizeOf(Stored(g)) \in Nat
  BY <1>1, SizeFacts
<1> QED BY <1>2, LimitsAssumption DEF Stored, BufferSize, LimitsAssumption

\* The files that a step appends.
LEMMA NewFiles ==
    ASSUME NEW g \in SUBSET Transactions
    PROVE  /\ [txs |-> Stored(g), size |-> BufferSize(g), known |-> TRUE, counted |-> TRUE]
                \in Files
           /\ \A size \in 0..BufferSize(g) : Truncated(size) \in Files
<1>1. Stored(g) \in SUBSET Transactions /\ BufferSize(g) \in Nat
  BY BufferType
<1>2. \A size \in 0..BufferSize(g) : size \in Nat
  BY <1>1
<1> QED BY <1>1, <1>2 DEF Files, Truncated

\* What a step does to the files, whichever step it is.
FileRemoved ==
    /\ storage = "open" /\ UNCHANGED <<storage, removeErrors>>
    /\ \E k \in Filenames : RemoveFileAt(k)

FileForgotten ==
    /\ storage = "open" /\ UNCHANGED storage
    /\ \E k \in Filenames : RemoveFileFails(k)

FileTruncated ==
    /\ HasRoom /\ UNCHANGED <<storage, currentSizeInBytes>>
    /\ removeErrors < MaxRemoveErrors /\ removeErrors' = removeErrors + 1
    /\ \E size \in 0..BufferSize(Head(groups)) : disk' = Append(disk, Truncated(size))

\* The steps but Serialize, which is the only one to put transactions into a file.
Others ==
    \/ \E t \in Transactions : AddStart(t) \/ Done(t)
    \/ ExtractForDisk \/ ExtractForDiskDone \/ SerializePanics \/ SerializeError \/ MakeRoom
    \/ SerializeWriteFails \/ SerializeDone \/ DropAndAppend \/ ExtractMemory \/ Deserialize
    \/ DeserializePanics \/ CrashAndRestart
    \/ UNCHANGED vars

LEMMA Steps ==
    ASSUME [Next]_vars
    PROVE  Serialize \/ Others
BY DEF Next, Others

LEMMA DiskChanges ==
    ASSUME Types, Others
    PROVE  \/ UNCHANGED <<disk, currentSizeInBytes, storage, removeErrors>>
           \/ FileRemoved
           \/ FileForgotten
           \/ FileTruncated
           \/ CrashAndRestart
<1>1. CASE MakeRoom
  <2>1. Min(Filenames) \in Filenames
    BY <1>1, KnownFiles DEF MakeRoom, NeedsRoom
  <2> QED BY <1>1, <2>1
          DEF MakeRoom, Serializing, FileRemoved, FileForgotten, RemoveFileAt, RemoveFileFails
<1>2. CASE Deserialize
  <2>1. Max(Filenames) \in Filenames
    BY <1>2, KnownFiles DEF Deserialize
  <2> QED BY <1>2, <2>1
          DEF Deserialize, FileRemoved, FileForgotten, RemoveFileAt, RemoveFileFails
<1>3. CASE SerializeWriteFails
  BY <1>3 DEF SerializeWriteFails, FileTruncated
<1> QED BY <1>1, <1>2, <1>3
        DEF Others, vars, diskVars, AddStart, Done, ExtractForDisk, ExtractForDiskDone,
            SerializePanics, SerializeError, SerializeDone, DropAndAppend, ExtractMemory,
            DeserializePanics

\* A restart finds the oldest files removed, and the others as they were.
LEMMA Restart ==
    ASSUME Types, CrashAndRestart
    PROVE  \/ storage' # "open" /\ UNCHANGED disk /\ currentSizeInBytes' = 0
           \/ /\ storage' = "open" /\ currentSizeInBytes' = DiskUsage(disk')
              /\ \E k \in 0..Len(disk) : disk' = Reloaded(disk, k)
           \/ /\ storage' = "open" /\ currentSizeInBytes' = DiskUsage(disk') /\ HasRoom
              /\ \E size \in 0..BufferSize(Head(groups)) :
                    LET d == Append(disk, Truncated(size))
                    IN  \E k \in 0..Len(d) : disk' = Reloaded(d, k)
BY DEF CrashAndRestart, Reload, Reloaded

LEMMA DiskTypeStep ==
    ASSUME Types, [Next]_vars
    PROVE  disk' \in Seq(Files) /\ removeErrors' \in 0..MaxRemoveErrors
<1>1. \A k \in Filenames : k \in DOMAIN disk
  BY DEF Filenames
<1>2. disk \in Seq(Files) /\ removeErrors \in 0..MaxRemoveErrors
  BY DEF Types
<1>3. HasRoom => Head(groups) \in SUBSET Transactions
  BY HeadTail DEF HasRoom, Serializing, Types
<1>4. CASE UNCHANGED <<disk, currentSizeInBytes, storage, removeErrors>>
  BY <1>2, <1>4
<1>5. CASE FileRemoved
  BY <1>1, <1>2, <1>5, UsageRemove DEF FileRemoved, RemoveFileAt
<1>6. CASE FileForgotten
  BY <1>1, <1>2, <1>6, UsageForget, LimitsAssumption
     DEF FileForgotten, RemoveFileFails, LimitsAssumption
<1>7. CASE FileTruncated
  <2>1. PICK size \in 0..BufferSize(Head(groups)) : disk' = Append(disk, Truncated(size))
    BY <1>7 DEF FileTruncated
  <2>2. Truncated(size) \in Files
    BY <1>3, <1>7, NewFiles DEF FileTruncated
  <2>3. disk' \in Seq(Files)
    BY <1>2, <2>1, <2>2, UsageAppend
  <2> QED BY <1>2, <1>7, <2>3, LimitsAssumption DEF FileTruncated, LimitsAssumption
<1>8. CASE Serialize
  BY <1>2, <1>3, <1>8, NewFiles, UsageAppend DEF Serialize
<1>9. CASE CrashAndRestart
  <2>1. removeErrors' = removeErrors
    BY <1>9 DEF CrashAndRestart
  <2>2. \A d \in Seq(Files) : \A k \in 0..Len(d) : Reloaded(d, k) \in Seq(Files)
    BY UsageReloaded
  <2>3. HasRoom => \A size \in 0..BufferSize(Head(groups)) :
                      Append(disk, Truncated(size)) \in Seq(Files)
    BY <1>2, <1>3, NewFiles, UsageAppend
  <2> QED BY <1>2, <1>9, <2>1, <2>2, <2>3, Restart
<1> QED BY <1>4, <1>5, <1>6, <1>7, <1>8, <1>9, Steps, DiskChanges

LEMMA TypesStep ==
    ASSUME Types, AddControl, [Next]_vars
    PROVE  Types' /\ AddControl'
<1>1. disk' \in Seq(Files) /\ removeErrors' \in 0..MaxRemoveErrors
  BY DiskTypeStep
<1>2. groups # <<>> => Head(groups) \in SUBSET Transactions /\ Tail(groups) \in Seq(SUBSET Transactions)
  BY HeadTail DEF Types
<1>3. \A need : \A D \in Extractions(need) : D \in SUBSET transactions
  BY DEF Extractions
<1> USE DEF Types, AddControl
<1>4. ASSUME NEW t \in Transactions, AddStart(t) \/ Done(t)
      PROVE  Types' /\ AddControl'
  BY <1>1, <1>4 DEF AddStart, Done, memVars, diskVars, addVars, Unused
<1>5. CASE ExtractForDisk
  <2>1. PICK D \in Extractions(FlushSize) : ExtractFromMemory(D) /\ groups' = Append(groups, D)
    BY <1>5 DEF ExtractForDisk
  <2>2. D \in SUBSET Transactions
    BY <1>3
  <2>3. groups' \in Seq(SUBSET Transactions) /\ transactions' \subseteq Transactions
    BY <2>1, <2>2 DEF ExtractFromMemory
  <2> QED BY <1>1, <1>5, <2>3 DEF ExtractForDisk, diskVars
<1>6. CASE ExtractForDiskDone
  BY <1>1, <1>6 DEF ExtractForDiskDone, memVars, diskVars
<1>7. CASE SerializePanics \/ SerializeDone
  BY <1>1, <1>7 DEF SerializePanics, SerializeDone, memVars, diskVars
<1>8. CASE SerializeError \/ MakeRoom \/ Serialize \/ SerializeWriteFails
  <2>1. groups' \in Seq(SUBSET Transactions) /\ pc = "serialize"
    BY <1>2, <1>8 DEF SerializeError, MakeRoom, Serialize, SerializeWriteFails, HasRoom, Serializing
  <2>2. UNCHANGED <<held, transactions, storage, pc, cur, crashes>>
    BY <1>8 DEF SerializeError, MakeRoom, Serialize, SerializeWriteFails, memVars
  <2> QED BY <1>1, <2>1, <2>2
<1>9. CASE DropAndAppend
  <2>1. transactions' \subseteq Transactions
    BY <1>9 DEF DropAndAppend
  <2> QED BY <1>1, <1>9, <2>1 DEF DropAndAppend, diskVars
<1>10. CASE ExtractMemory
  BY <1>1, <1>10 DEF ExtractMemory, diskVars, addVars
<1>11. CASE Deserialize
  <2>1. held' \subseteq Transactions
    <3>1. Max(Filenames) \in DOMAIN disk
      BY <1>11, KnownFiles DEF Deserialize, Filenames
    <3>2. disk[Max(Filenames)] \in Files
      BY <3>1
    <3>3. disk[Max(Filenames)].txs \in SUBSET Transactions
      BY <3>2 DEF Files
    <3> QED BY <1>11, <3>3 DEF Deserialize
  <2> QED BY <1>1, <1>11, <2>1 DEF Deserialize, addVars
<1>12. CASE DeserializePanics
  BY <1>1, <1>12 DEF DeserializePanics, memVars, diskVars
<1>13. CASE CrashAndRestart
  <2>1. crashes' \in 0..MaxCrashes
    BY <1>13, LimitsAssumption DEF CrashAndRestart, LimitsAssumption
  <2>2. /\ held' = {} /\ transactions' = {} /\ pc' = "idle" /\ cur' = NoTransaction
        /\ groups' = <<>> /\ storage' \in Storages
    BY <1>13 DEF CrashAndRestart
  <2> QED BY <1>1, <2>1, <2>2
<1>14. CASE UNCHANGED vars
  BY <1>14 DEF vars, memVars, diskVars, addVars
<1> QED BY <1>4, <1>5, <1>6, <1>7, <1>8, <1>9, <1>10, <1>11, <1>12, <1>13, <1>14 DEF Next
-----------------------------------------------------------------------------
(* A transaction is in one place. *)

Grouped(g) == UNION {g[k] : k \in DOMAIN g}
Filed(d)   == UNION {d[k].txs : k \in DOMAIN d}

DistinctGroups(g) == \A k, l \in DOMAIN g : k # l => g[k] \cap g[l] = {}
DistinctFiles(d)  == \A k, l \in DOMAIN d : k # l => d[k].txs \cap d[l].txs = {}

ApartIn(out, mem, c, g, d) ==
    /\ out \cap (mem \cup {c} \cup Grouped(g) \cup Filed(d)) = {}
    /\ mem \cap ({c} \cup Grouped(g) \cup Filed(d)) = {}
    /\ c \notin Grouped(g) \cup Filed(d)
    /\ Grouped(g) \cap Filed(d) = {}
    /\ DistinctGroups(g)
    /\ DistinctFiles(d)

Apart == ApartIn(held, transactions, cur, groups, disk)

\* The files of e that hold transactions are files of d.
SubFiles(e, d) ==
    \E f : /\ \A j \in DOMAIN e : e[j].txs # {} => f[j] \in DOMAIN d /\ e[j].txs = d[f[j]].txs
           /\ \A i, j \in DOMAIN e :
                 e[i].txs # {} /\ e[j].txs # {} /\ f[i] = f[j] => i = j

LEMMA SubFilesRemove ==
    ASSUME NEW d \in Seq(Files), NEW k \in DOMAIN d
    PROVE  /\ SubFiles(RemoveAt(d, k), d)
           /\ \A j \in DOMAIN RemoveAt(d, k) :
                 \E l \in DOMAIN d : l # k /\ RemoveAt(d, k)[j] = d[l]
<1> DEFINE e == RemoveAt(d, k)
           f == [j \in DOMAIN e |-> IF j < k THEN j ELSE j + 1]
<1>0. /\ e \in Seq(Files) /\ Len(e) = Len(d) - 1 /\ DOMAIN e = 1..(Len(d) - 1)
      /\ DOMAIN d = 1..Len(d) /\ Len(d) \in Nat
  BY RemoveAtFacts
<1>1. /\ DOMAIN e = 1..(Len(d) - 1) /\ DOMAIN d = 1..Len(d) /\ Len(d) \in Nat
      /\ \A j \in DOMAIN e : e[j] = IF j < k THEN d[j] ELSE d[j + 1]
  BY <1>0, RemoveAtFacts
<1> HIDE DEF e
<1>2. \A j \in DOMAIN e : f[j] \in DOMAIN d /\ f[j] # k /\ e[j] = d[f[j]]
  BY <1>1
<1>3. \A i, j \in DOMAIN e : f[i] = f[j] => i = j
  BY <1>1
<1> HIDE DEF f
<1>4. SubFiles(e, d)
  BY <1>2, <1>3 DEF SubFiles
<1> QED BY <1>2, <1>4 DEF e

LEMMA SubFilesReloaded ==
    ASSUME NEW d \in Seq(Files), NEW k \in 0..Len(d)
    PROVE  SubFiles(Reloaded(d, k), d)
<1> DEFINE e == Reloaded(d, k)
           f == [j \in DOMAIN e |-> k + j]
<1>1. \A j \in DOMAIN e : j \in Nat /\ f[j] = k + j /\ k + j \in DOMAIN d /\ e[j].txs = d[k + j].txs
  <2>1. e \in Seq(Files) /\ \A j \in DOMAIN e : k + j \in DOMAIN d /\ e[j].txs = d[k + j].txs
    BY UsageReloaded
  <2> HIDE DEF e
  <2> QED BY <2>1
<1>2. \A i, j \in DOMAIN e : f[i] = f[j] => i = j
  BY <1>1
<1>3. \A j \in DOMAIN e : f[j] \in DOMAIN d /\ e[j].txs = d[f[j]].txs
  BY <1>1
<1> HIDE DEF e, f
<1>4. SubFiles(e, d)
  BY <1>2, <1>3 DEF SubFiles
<1> QED BY <1>4 DEF e

LEMMA SubFilesSame ==
    ASSUME NEW d, NEW e, \A j \in DOMAIN e : e[j].txs # {} => j \in DOMAIN d /\ e[j].txs = d[j].txs
    PROVE  SubFiles(e, d)
<1> DEFINE f == [j \in DOMAIN e |-> j]
<1>1. /\ \A j \in DOMAIN e : e[j].txs # {} => f[j] \in DOMAIN d /\ e[j].txs = d[f[j]].txs
      /\ \A i, j \in DOMAIN e : f[i] = f[j] => i = j
  OBVIOUS
<1> HIDE DEF f
<1> QED BY <1>1 DEF SubFiles

LEMMA SubFilesTruncated ==
    ASSUME NEW d \in Seq(Files), NEW size
    PROVE  SubFiles(Append(d, Truncated(size)), d)
<1> DEFINE e == Append(d, Truncated(size))
<1>1. \A j \in DOMAIN e : e[j].txs # {} => j \in DOMAIN d /\ e[j].txs = d[j].txs
  <2>1. /\ DOMAIN e = DOMAIN d \cup {Len(d) + 1} /\ e[Len(d) + 1] = Truncated(size)
        /\ \A j \in DOMAIN d : e[j] = d[j]
    OBVIOUS
  <2>2. Truncated(size).txs = {}
    BY DEF Truncated
  <2> HIDE DEF e
  <2> QED BY <2>1, <2>2
<1> HIDE DEF e
<1>2. SubFiles(e, d)
  BY <1>1, SubFilesSame
<1> QED BY <1>2 DEF e

LEMMA SubFilesTransitive ==
    ASSUME NEW d, NEW e, NEW c, SubFiles(c, e), SubFiles(e, d)
    PROVE  SubFiles(c, d)
<1>1. PICK f : /\ \A j \in DOMAIN c : c[j].txs # {} => f[j] \in DOMAIN e /\ c[j].txs = e[f[j]].txs
               /\ \A i, j \in DOMAIN c :
                     c[i].txs # {} /\ c[j].txs # {} /\ f[i] = f[j] => i = j
  BY DEF SubFiles
<1>2. PICK g : /\ \A j \in DOMAIN e : e[j].txs # {} => g[j] \in DOMAIN d /\ e[j].txs = d[g[j]].txs
               /\ \A i, j \in DOMAIN e :
                     e[i].txs # {} /\ e[j].txs # {} /\ g[i] = g[j] => i = j
  BY DEF SubFiles
<1> DEFINE h == [j \in DOMAIN c |-> g[f[j]]]
<1>3. \A j \in DOMAIN c : h[j] = g[f[j]]
  OBVIOUS
<1> HIDE DEF h
<1>4. \A j \in DOMAIN c : c[j].txs # {} => h[j] \in DOMAIN d /\ c[j].txs = d[h[j]].txs
  BY <1>1, <1>2, <1>3
<1>5. \A i, j \in DOMAIN c : c[i].txs # {} /\ c[j].txs # {} /\ h[i] = h[j] => i = j
  BY <1>1, <1>2, <1>3
<1> QED BY <1>4, <1>5 DEF SubFiles

\* Only Serialize puts a transaction into a file.
LEMMA FilesShrink ==
    ASSUME Types, Others
    PROVE  SubFiles(disk', disk)
<1>1. disk \in Seq(Files) /\ \A k \in Filenames : k \in DOMAIN disk
  BY DEF Types, Filenames
<1>2. CASE UNCHANGED <<disk, currentSizeInBytes, storage, removeErrors>>
  BY <1>2, SubFilesSame
<1>3. CASE FileRemoved
  BY <1>1, <1>3, SubFilesRemove DEF FileRemoved, RemoveFileAt
<1>4. CASE FileForgotten
  <2>1. PICK k \in DOMAIN disk : disk' = [disk EXCEPT ![k].known = FALSE]
    BY <1>1, <1>4 DEF FileForgotten, RemoveFileFails
  <2>2. \A j \in DOMAIN disk : disk[j] \in Files
    BY <1>1
  <2>3. DOMAIN disk' = DOMAIN disk /\ \A j \in DOMAIN disk : disk'[j].txs = disk[j].txs
    BY <2>1, <2>2 DEF Files
  <2> QED BY <2>3, SubFilesSame
<1>5. CASE FileTruncated
  BY <1>1, <1>5, SubFilesTruncated DEF FileTruncated
<1>6. CASE CrashAndRestart
  <2>1. CASE UNCHANGED disk
    BY <2>1, SubFilesSame
  <2>2. ASSUME NEW k \in 0..Len(disk), disk' = Reloaded(disk, k)
        PROVE  SubFiles(disk', disk)
    BY <1>1, <2>2, SubFilesReloaded
  <2>3. ASSUME HasRoom, NEW size \in 0..BufferSize(Head(groups)),
               NEW k \in 0..Len(Append(disk, Truncated(size))),
               disk' = Reloaded(Append(disk, Truncated(size)), k)
        PROVE  SubFiles(disk', disk)
    <3>1. Head(groups) \in SUBSET Transactions
      BY <2>3, HeadTail DEF HasRoom, Serializing, Types
    <3>2. Append(disk, Truncated(size)) \in Seq(Files)
      BY <1>1, <3>1, NewFiles, UsageAppend
    <3>3. SubFiles(disk', Append(disk, Truncated(size)))
      BY <2>3, <3>2, SubFilesReloaded
    <3> QED BY <1>1, <3>3, SubFilesTruncated, SubFilesTransitive
  <2> QED BY <1>6, <2>1, <2>2, <2>3, Restart
<1> QED BY <1>2, <1>3, <1>4, <1>5, <1>6, DiskChanges

\* What this says of the transactions in the files.
LEMMA SubFilesTransactions ==
    ASSUME NEW d, NEW e, SubFiles(e, d)
    PROVE  Filed(e) \subseteq Filed(d) /\ (DistinctFiles(d) => DistinctFiles(e))
<1>1. PICK f : /\ \A j \in DOMAIN e : e[j].txs # {} => f[j] \in DOMAIN d /\ e[j].txs = d[f[j]].txs
               /\ \A i, j \in DOMAIN e :
                     e[i].txs # {} /\ e[j].txs # {} /\ f[i] = f[j] => i = j
  BY DEF SubFiles
<1>2. ASSUME NEW t \in Filed(e)
      PROVE  t \in Filed(d)
  <2>1. PICK j \in DOMAIN e : t \in e[j].txs
    BY <1>2 DEF Filed
  <2> QED BY <1>1, <2>1 DEF Filed
<1>3. ASSUME DistinctFiles(d), NEW k \in DOMAIN e, NEW l \in DOMAIN e, k # l
      PROVE  e[k].txs \cap e[l].txs = {}
  <2>1. CASE e[k].txs = {} \/ e[l].txs = {}
    BY <2>1
  <2>2. CASE e[k].txs # {} /\ e[l].txs # {}
    <3>1. f[k] \in DOMAIN d /\ f[l] \in DOMAIN d /\ f[k] # f[l]
      BY <1>1, <1>3, <2>2
    <3> QED BY <1>1, <1>3, <2>2, <3>1 DEF DistinctFiles
  <2> QED BY <2>1, <2>2
<1> QED BY <1>2, <1>3 DEF DistinctFiles

\* A file that is removed takes its transactions with it.
LEMMA RemovedTransactions ==
    ASSUME NEW d \in Seq(Files), NEW k \in DOMAIN d, DistinctFiles(d)
    PROVE  d[k].txs \subseteq Filed(d) /\ Filed(RemoveAt(d, k)) \cap d[k].txs = {}
<1>1. d[k].txs \subseteq Filed(d)
  BY DEF Filed
<1>2. ASSUME NEW t \in Filed(RemoveAt(d, k)), t \in d[k].txs
      PROVE  FALSE
  <2>1. PICK j \in DOMAIN RemoveAt(d, k) : t \in RemoveAt(d, k)[j].txs
    BY <1>2 DEF Filed
  <2>2. PICK l \in DOMAIN d : l # k /\ RemoveAt(d, k)[j] = d[l]
    BY SubFilesRemove
  <2> QED BY <1>2, <2>1, <2>2 DEF DistinctFiles
<1> QED BY <1>1, <1>2

LEMMA AppendedTransactions ==
    ASSUME NEW d \in Seq(Files), NEW f \in Files
    PROVE  /\ Filed(Append(d, f)) = Filed(d) \cup f.txs
           /\ DistinctFiles(d) /\ f.txs \cap Filed(d) = {} => DistinctFiles(Append(d, f))
<1> DEFINE e == Append(d, f)
           n == Len(d) + 1
<1>1. DOMAIN e = DOMAIN d \cup {n} /\ e[n] = f /\ \A k \in DOMAIN d : e[k] = d[k]
  OBVIOUS
<1> HIDE DEF e, n
<1>2. Filed(e) = Filed(d) \cup f.txs
  BY <1>1 DEF Filed
<1>3. ASSUME DistinctFiles(d), f.txs \cap Filed(d) = {}
      PROVE  DistinctFiles(e)
  <2>1. \A k \in DOMAIN d : d[k].txs \cap f.txs = {}
    BY <1>3 DEF Filed
  <2> QED BY <1>1, <1>3, <2>1 DEF DistinctFiles
<1> QED BY <1>2, <1>3 DEF e

\* The groups that are left, and a group more.
LEMMA TailGroups ==
    ASSUME NEW g \in Seq(SUBSET Transactions), g # <<>>, DistinctGroups(g)
    PROVE  /\ Head(g) \subseteq Grouped(g)
           /\ Grouped(Tail(g)) \subseteq Grouped(g) \ Head(g)
           /\ DistinctGroups(Tail(g))
<1> DEFINE r == Tail(g)
<1>1. /\ Head(g) = g[1] /\ 1 \in DOMAIN g
      /\ \A k \in DOMAIN r : k \in Nat /\ k + 1 # 1 /\ k + 1 \in DOMAIN g /\ r[k] = g[k + 1]
  BY HeadTail
<1>2. \A k, l \in DOMAIN r : k # l => k + 1 # l + 1
  BY <1>1
<1> HIDE DEF r
<1>3. Head(g) \subseteq Grouped(g)
  BY <1>1 DEF Grouped
<1>4. Grouped(r) \subseteq Grouped(g) \ Head(g)
  <2> SUFFICES ASSUME NEW t \in Grouped(r)
               PROVE  t \in Grouped(g) /\ t \notin Head(g)
    OBVIOUS
  <2>1. PICK k \in DOMAIN r : t \in r[k]
    BY DEF Grouped
  <2>2. t \in g[k + 1] /\ k + 1 \in DOMAIN g /\ k + 1 # 1
    BY <1>1, <2>1
  <2> QED BY <1>1, <2>2 DEF Grouped, DistinctGroups
<1>5. DistinctGroups(r)
  BY <1>1, <1>2 DEF DistinctGroups
<1> QED BY <1>3, <1>4, <1>5 DEF r

LEMMA AppendGroup ==
    ASSUME NEW g \in Seq(SUBSET Transactions), NEW D \in SUBSET Transactions
    PROVE  /\ Grouped(Append(g, D)) = Grouped(g) \cup D
           /\ DistinctGroups(g) /\ D \cap Grouped(g) = {} => DistinctGroups(Append(g, D))
<1> DEFINE e == Append(g, D)
           n == Len(g) + 1
<1>1. DOMAIN e = DOMAIN g \cup {n} /\ e[n] = D /\ \A k \in DOMAIN g : e[k] = g[k]
  OBVIOUS
<1> HIDE DEF e, n
<1>2. Grouped(e) = Grouped(g) \cup D
  BY <1>1 DEF Grouped
<1>3. ASSUME DistinctGroups(g), D \cap Grouped(g) = {}
      PROVE  DistinctGroups(e)
  <2>1. \A k \in DOMAIN g : g[k] \cap D = {}
    BY <1>3 DEF Grouped
  <2> QED BY <1>1, <1>3, <2>1 DEF DistinctGroups
<1> QED BY <1>2, <1>3 DEF e

LEMMA NoGroups == Grouped(<<>>) = {} /\ DistinctGroups(<<>>)
BY DEF Grouped, DistinctGroups

LEMMA QueuedParts ==
    /\ Queued = transactions \cup ({cur} \ {NoTransaction}) \cup Grouped(groups) \cup Filed(disk)
    /\ Queued' = transactions' \cup ({cur'} \ {NoTransaction}) \cup Grouped(groups') \cup Filed(disk')
<1>1. Queued = transactions \cup ({cur} \ {NoTransaction}) \cup Grouped(groups) \cup Filed(disk)
  BY DEF Queued, Grouped, Filed
<1>2. Queued' = transactions' \cup ({cur'} \ {NoTransaction}) \cup Grouped(groups') \cup Filed(disk')
  BY DEF Queued, Grouped, Filed
<1> QED BY <1>1, <1>2

\* A step that moves transactions inside of the queue, or loses some.
LEMMA LoseStep ==
    ASSUME Queued' \subseteq Queued, held' = held
    PROVE  RQ!QueueNext
BY DEF RQ!QueueNext, RQ!Lose

\* Every step keeps the places apart, and is a step of the retry queue.
LEMMA ApartStep ==
    ASSUME Types, AddControl, Apart, [Next]_vars
    PROVE  Apart' /\ (RQ!QueueNext \/ UNCHANGED <<Queued, held>>)
<1> DEFINE G == Grouped(groups)
           F == Filed(disk)
<1>0. /\ disk \in Seq(Files) /\ groups \in Seq(SUBSET Transactions)
      /\ NoTransaction \notin Transactions /\ transactions \subseteq Transactions /\ held \subseteq Transactions
  BY FunctionsAssumption DEF Types, FunctionsAssumption
<1>1. /\ held \cap (transactions \cup {cur} \cup G \cup F) = {}
      /\ transactions \cap ({cur} \cup G \cup F) = {}
      /\ cur \notin G \cup F /\ G \cap F = {} /\ DistinctGroups(groups) /\ DistinctFiles(disk)
  BY DEF Apart, ApartIn
<1>2. G \subseteq Transactions /\ F \subseteq Transactions
  <2>1. \A k \in DOMAIN groups : groups[k] \in SUBSET Transactions
    BY <1>0
  <2>2. \A k \in DOMAIN disk : disk[k] \in Files
    BY <1>0
  <2> QED BY <2>1, <2>2 DEF Grouped, Filed, Files
<1>3. Others => Filed(disk') \subseteq F /\ DistinctFiles(disk')
  BY <1>1, FilesShrink, SubFilesTransactions
<1>4. groups # <<>> => /\ Head(groups) \subseteq G /\ Grouped(Tail(groups)) \subseteq G \ Head(groups)
                       /\ DistinctGroups(Tail(groups))
  BY <1>0, <1>1, TailGroups
<1>5. \A need : \A D \in Extractions(need) : D \in SUBSET transactions
  BY DEF Extractions
<1>6. Apart' <=> /\ held' \cap (transactions' \cup {cur'} \cup Grouped(groups') \cup Filed(disk')) = {}
                 /\ transactions' \cap ({cur'} \cup Grouped(groups') \cup Filed(disk')) = {}
                 /\ cur' \notin Grouped(groups') \cup Filed(disk')
                 /\ Grouped(groups') \cap Filed(disk') = {}
                 /\ DistinctGroups(groups') /\ DistinctFiles(disk')
  BY DEF Apart, ApartIn
<1>7. Queued = transactions \cup ({cur} \ {NoTransaction}) \cup G \cup F
  BY QueuedParts
<1>8. Queued' = transactions' \cup ({cur'} \ {NoTransaction}) \cup Grouped(groups') \cup Filed(disk')
  BY QueuedParts
<1> HIDE DEF G, F
<1>9. ASSUME NEW t \in Transactions, AddStart(t)
      PROVE  Apart' /\ RQ!QueueNext
  <2>1. /\ held' = held \ {t} /\ cur' = t /\ transactions' = transactions
        /\ groups' = groups /\ disk' = disk /\ cur = NoTransaction
    BY <1>9 DEF AddStart, AddControl, memVars, diskVars
  <2>2. t \notin transactions \cup G \cup F
    <3>1. CASE t \in held
      BY <1>1, <3>1
    <3>2. CASE t \in Unused
      BY <3>2 DEF Unused, G, F, Grouped, Filed, InGroup, InFile
    <3> QED BY <1>9, <3>1, <3>2 DEF AddStart
  <2>3. Grouped(groups') = G /\ Filed(disk') = F
    BY <2>1 DEF G, F
  <2>4. Apart'
    BY <1>1, <1>6, <2>1, <2>2, <2>3
  <2>5. t \notin Queued /\ Queued' = Queued \cup {t}
    BY <1>0, <1>7, <1>8, <2>1, <2>2, <2>3
  <2> QED BY <2>1, <2>4, <2>5 DEF RQ!QueueNext, RQ!Put
<1>10. ASSUME NEW t \in Transactions, Done(t)
       PROVE  Apart' /\ RQ!QueueNext
  <2>1. /\ held' = held \ {t} /\ cur' = cur /\ transactions' = transactions
        /\ groups' = groups /\ disk' = disk
    BY <1>10 DEF Done, memVars, diskVars, addVars
  <2>2. Grouped(groups') = G /\ Filed(disk') = F
    BY <2>1 DEF G, F
  <2>3. Apart'
    BY <1>1, <1>6, <2>1, <2>2
  <2>4. Queued' = Queued
    BY <1>7, <1>8, <2>1, <2>2
  <2> QED BY <2>1, <2>3, <2>4 DEF RQ!QueueNext, RQ!Discard
<1>11. CASE ExtractForDisk
  <2>1. PICK D \in Extractions(FlushSize) : transactions' = transactions \ D /\ groups' = Append(groups, D)
    BY <1>11 DEF ExtractForDisk, ExtractFromMemory
  <2>2. D \subseteq transactions /\ held' = held /\ cur' = cur /\ disk' = disk
    BY <1>5, <1>11 DEF ExtractForDisk, diskVars
  <2>3. Grouped(groups') = G \cup D /\ DistinctGroups(groups') /\ Filed(disk') = F
    <3>1. D \in SUBSET Transactions /\ D \cap Grouped(groups) = {}
      BY <1>0, <1>1, <2>2 DEF G
    <3> QED BY <1>0, <1>1, <2>1, <2>2, <3>1, AppendGroup DEF G, F
  <2>4. Apart'
    BY <1>1, <1>6, <2>1, <2>2, <2>3
  <2>5. Queued' \subseteq Queued
    BY <1>7, <1>8, <2>1, <2>2, <2>3
  <2> QED BY <2>2, <2>4, <2>5, LoseStep
<1>12. CASE ExtractForDiskDone \/ SerializePanics \/ SerializeDone \/ DeserializePanics \/ UNCHANGED vars
  <2>1. UNCHANGED <<held, transactions, cur, groups, disk>>
    BY <1>12 DEF ExtractForDiskDone, SerializePanics, SerializeDone, DeserializePanics, vars,
                 memVars, diskVars, addVars
  <2>2. Grouped(groups') = G /\ Filed(disk') = F
    BY <2>1 DEF G, F
  <2>3. Apart'
    BY <1>1, <1>6, <2>1, <2>2
  <2>4. Queued' = Queued
    BY <1>7, <1>8, <2>1, <2>2
  <2> QED BY <2>1, <2>3, <2>4
<1>13. CASE SerializeError \/ MakeRoom \/ SerializeWriteFails
  <2>1. /\ UNCHANGED <<held, transactions, cur>> /\ groups # <<>>
        /\ groups' = Tail(groups) \/ groups' = groups
    BY <1>13 DEF SerializeError, MakeRoom, SerializeWriteFails, HasRoom, Serializing, memVars
  <2>2. Grouped(groups') \subseteq G /\ DistinctGroups(groups')
    BY <1>1, <1>4, <2>1 DEF G
  <2>3. Filed(disk') \subseteq F /\ DistinctFiles(disk')
    BY <1>3, <1>13 DEF Others
  <2>4. Apart'
    BY <1>1, <1>6, <2>1, <2>2, <2>3
  <2>5. Queued' \subseteq Queued
    BY <1>7, <1>8, <2>1, <2>2, <2>3
  <2> QED BY <2>1, <2>4, <2>5, LoseStep
<1>14. CASE Serialize
  <2> DEFINE file == [txs |-> Stored(Head(groups)), size |-> BufferSize(Head(groups)),
                      known |-> TRUE, counted |-> TRUE]
  <2>1. /\ UNCHANGED <<held, transactions, cur>> /\ groups # <<>>
        /\ groups' = Tail(groups) /\ disk' = Append(disk, file)
    BY <1>14 DEF Serialize, HasRoom, Serializing, memVars
  <2>2. Head(groups) \in SUBSET Transactions
    BY <1>0, <2>1, HeadTail
  <2>3. file.txs \subseteq Head(groups) /\ file \in Files
    BY <2>2, BufferType, NewFiles
  <2>4. Grouped(groups') \subseteq G \ Head(groups) /\ DistinctGroups(groups') /\ Head(groups) \subseteq G
    BY <1>4, <2>1
  <2> HIDE DEF file
  <2>5. Filed(disk') = F \cup file.txs /\ DistinctFiles(disk')
    <3>1. file.txs \cap Filed(disk) = {}
      BY <1>1, <2>3, <2>4 DEF F
    <3> QED BY <1>0, <1>1, <2>1, <2>3, <3>1, AppendedTransactions DEF F
  <2>6. Apart'
    BY <1>1, <1>6, <2>1, <2>3, <2>4, <2>5
  <2>7. Queued' \subseteq Queued
    BY <1>7, <1>8, <2>1, <2>3, <2>4, <2>5
  <2> QED BY <2>1, <2>6, <2>7, LoseStep
<1>15. CASE DropAndAppend
  <2>1. PICK D \in Extractions(currentMemSizeInBytes + PayloadSize[cur] - MaxMemSize) :
           transactions' = (transactions \ D) \cup {cur}
    BY <1>15 DEF DropAndAppend
  <2>2. held' = held /\ cur' = NoTransaction /\ groups' = groups /\ disk' = disk /\ cur \in Transactions
    BY <1>15 DEF DropAndAppend, AddControl, diskVars
  <2>3. Grouped(groups') = G /\ Filed(disk') = F
    BY <2>2 DEF G, F
  <2>4. Apart'
    BY <1>0, <1>1, <1>2, <1>6, <2>1, <2>2, <2>3
  <2>5. Queued' \subseteq Queued
    BY <1>0, <1>7, <1>8, <2>1, <2>2, <2>3
  <2> QED BY <2>2, <2>4, <2>5, LoseStep
<1>16. CASE ExtractMemory
  <2>1. held' = held \cup transactions /\ transactions' = {} /\ UNCHANGED <<cur, groups, disk>>
    BY <1>16 DEF ExtractMemory, diskVars, addVars
  <2>2. Grouped(groups') = G /\ Filed(disk') = F
    BY <2>1 DEF G, F
  <2>3. Apart'
    BY <1>1, <1>6, <2>1, <2>2
  <2>4. held \subseteq held' /\ held' \ held \subseteq Queued /\ Queued' \subseteq Queued \ (held' \ held)
    BY <1>1, <1>7, <1>8, <2>1, <2>2
  <2> QED BY <2>3, <2>4 DEF RQ!QueueNext, RQ!Take
<1>17. CASE Deserialize
  <2> DEFINE k == Max(Filenames)
  <2>1. k \in DOMAIN disk
    BY <1>17, KnownFiles DEF Deserialize, Filenames
  <2>2. UNCHANGED <<transactions, cur, groups>>
    BY <1>17 DEF Deserialize, addVars
  <2>3. Filed(disk') \subseteq F /\ DistinctFiles(disk')
    BY <1>3, <1>17 DEF Others
  <2>4. Grouped(groups') = G
    BY <2>2 DEF G
  <2>5. CASE held' = held
    <3>1. Apart'
      BY <1>1, <1>6, <2>2, <2>3, <2>4, <2>5
    <3>2. Queued' \subseteq Queued
      BY <1>7, <1>8, <2>2, <2>3, <2>4
    <3> QED BY <2>5, <3>1, <3>2, LoseStep
  <2>6. CASE /\ disk' = RemoveAt(disk, k)
             /\ \E readable \in SUBSET disk[k].txs : held' = held \cup readable
    <3>1. PICK readable \in SUBSET disk[k].txs : held' = held \cup readable
      BY <2>6
    <3>2. disk[k].txs \subseteq F /\ Filed(disk') \cap disk[k].txs = {}
      <4> HIDE DEF k
      <4> QED BY <1>0, <1>1, <2>1, <2>6, RemovedTransactions DEF F
    <3>3. Apart'
      BY <1>1, <1>6, <2>2, <2>3, <2>4, <3>1, <3>2
    <3>4. held \subseteq held' /\ held' \ held \subseteq Queued /\ Queued' \subseteq Queued \ (held' \ held)
      BY <1>1, <1>7, <1>8, <2>2, <2>3, <2>4, <3>1, <3>2
    <3> QED BY <3>3, <3>4 DEF RQ!QueueNext, RQ!Take
  <2> QED BY <1>17, <2>5, <2>6 DEF Deserialize, RemoveFileAt
<1>18. CASE CrashAndRestart
  <2>1. held' = {} /\ transactions' = {} /\ cur' = NoTransaction /\ groups' = <<>>
    BY <1>18 DEF CrashAndRestart
  <2>2. Filed(disk') \subseteq F /\ DistinctFiles(disk')
    BY <1>3, <1>18 DEF Others
  <2>3. Apart'
    BY <1>0, <1>2, <1>6, <2>1, <2>2, NoGroups
  <2>4. Queued' \subseteq Queued
    BY <1>7, <1>8, <2>1, <2>2, NoGroups
  <2> QED BY <2>1, <2>3, <2>4 DEF RQ!QueueNext, RQ!CrashLoses
<1> QED BY <1>9, <1>10, <1>11, <1>12, <1>13, <1>14, <1>15, <1>16, <1>17, <1>18 DEF Next

-----------------------------------------------------------------------------
(* The memory and its account. *)

LEMMA MemStep ==
    ASSUME Types, AddControl, Apart, MemAccounting, MemBounded, [Next]_vars
    PROVE  MemAccounting' /\ MemBounded'
<1>0. /\ transactions \in SUBSET Transactions /\ currentMemSizeInBytes = SizeOf(transactions)
      /\ currentMemSizeInBytes \in Nat /\ MaxMemSize \in Nat
  BY SizeFacts, LimitsAssumption DEF Types, MemAccounting, LimitsAssumption
<1>1. \A need : \A D \in Extractions(need) :
         /\ D \in SUBSET transactions /\ SizeOf(D) \in Nat
         /\ SizeOf(transactions \ D) = currentMemSizeInBytes - SizeOf(D)
         /\ D = transactions \/ SizeOf(D) >= need
  <2>1. \A need : \A D \in Extractions(need) :
           D \in SUBSET transactions /\ (D = transactions \/ SizeOf(D) >= need)
    BY DEF Extractions
  <2> QED BY <1>0, <2>1, SizeFacts
<1>2. CASE UNCHANGED <<transactions, currentMemSizeInBytes>> /\ (pc' # "idle" \/ pc' = pc)
  BY <1>2 DEF MemAccounting, MemBounded
<1>3. CASE ExtractForDisk
  <2>1. PICK D \in Extractions(FlushSize) : ExtractFromMemory(D)
    BY <1>3 DEF ExtractForDisk
  <2>2. MemAccounting'
    BY <1>1, <2>1 DEF ExtractFromMemory, MemAccounting
  <2>3. pc' # "idle"
    BY <1>3 DEF ExtractForDisk
  <2> QED BY <2>2, <2>3 DEF MemBounded
<1>4. CASE DropAndAppend
  <2> DEFINE need == currentMemSizeInBytes + PayloadSize[cur] - MaxMemSize
  <2>1. PICK D \in Extractions(need) :
           /\ transactions' = (transactions \ D) \cup {cur}
           /\ currentMemSizeInBytes' = currentMemSizeInBytes - SizeOf(D) + PayloadSize[cur]
    BY <1>4 DEF DropAndAppend
  <2>2. cur \in Transactions /\ cur \notin transactions /\ PayloadSize[cur] \in Nat
    BY <1>4, FunctionsAssumption DEF DropAndAppend, AddControl, Apart, ApartIn, FunctionsAssumption
  <2>3. SizeOf((transactions \ D) \cup {cur}) = SizeOf(transactions \ D) + PayloadSize[cur]
    <3>1. transactions \ D \in SUBSET Transactions /\ cur \in Transactions \ (transactions \ D)
      BY <1>0, <2>2
    <3> QED BY <3>1, SizeFacts
  <2>4. MemAccounting'
    BY <1>1, <2>1, <2>3 DEF MemAccounting
  <2>5. CASE D = transactions
    <3>1. transactions' = {cur}
      BY <2>1, <2>5
    <3> QED BY <2>4, <3>1 DEF MemBounded
  <2>6. CASE SizeOf(D) >= need
    <3>1. SizeOf(D) \in Nat
      BY <1>1
    <3>2. currentMemSizeInBytes' <= MaxMemSize
      BY <1>0, <2>1, <2>2, <2>6, <3>1
    <3> QED BY <2>4, <3>2 DEF MemBounded
  <2> QED BY <1>1, <2>5, <2>6
<1>5. CASE transactions' = {} /\ currentMemSizeInBytes' = 0
  BY <1>0, <1>5, SizeEmpty DEF MemAccounting, MemBounded
<1>6. CASE Deserialize
  <2>1. transactions = {} /\ transactions' = {} /\ UNCHANGED pc
    BY <1>6 DEF Deserialize, addVars
  <2>2. CASE currentMemSizeInBytes' = 0
    BY <1>5, <2>1, <2>2
  <2>3. CASE UNCHANGED currentMemSizeInBytes
    BY <1>2, <2>1, <2>3
  <2> QED BY <1>6, <2>2, <2>3 DEF Deserialize
<1>7. CASE ExtractMemory \/ CrashAndRestart
  BY <1>5, <1>7 DEF ExtractMemory, CrashAndRestart
<1> QED BY <1>2, <1>3, <1>4, <1>6, <1>7
        DEF Next, vars, memVars, addVars, AddStart, Done, ExtractForDiskDone, SerializePanics,
            SerializeError, MakeRoom, Serialize, SerializeWriteFails, SerializeDone,
            DeserializePanics, Serializing, HasRoom

-----------------------------------------------------------------------------
(* The files and their account. *)

DiskFacts ==
    /\ currentSizeInBytes \in Nat
    /\ storage = "open" => \A k \in DOMAIN disk : disk[k].known => disk[k].counted
    /\ storage = "open" /\ removeErrors = 0 => \A k \in DOMAIN disk : disk[k].known

LEMMA AllCounted ==
    ASSUME NEW d, \A k \in DOMAIN d : d[k].counted
    PROVE  CountedUsage(d) = DiskUsage(d)
<1>1. CountedIn(d) = DOMAIN d
  BY DEF CountedIn
<1> QED BY <1>1, UsageNames

\* The room that is made for a file is there.
LEMMA RoomIsThere ==
    ASSUME Types, DiskAccounting, DiskFacts, HasRoom, removeErrors = 0
    PROVE  DiskUsage(disk) + BufferSize(Head(groups)) <= MaxDiskSize
<1>1. storage = "open" /\ BufferSize(Head(groups)) <= MaxDiskSize /\ ~NeedsRoom
  BY DEF HasRoom, Serializing
<1>2. \A k \in DOMAIN disk : disk[k].known /\ disk[k].counted
  BY <1>1 DEF DiskFacts
<1>3. currentSizeInBytes = DiskUsage(disk) /\ DiskUsage(disk) \in Nat
  BY <1>1, <1>2, AllCounted, UsageType DEF DiskAccounting, Types
<1>4. BufferSize(Head(groups)) \in Nat /\ MaxDiskSize \in Nat
  <2>1. Head(groups) \in SUBSET Transactions
    BY HeadTail DEF HasRoom, Serializing, Types
  <2> QED BY <2>1, BufferType, LimitsAssumption DEF LimitsAssumption
<1>5. CASE Filenames = {}
  <2>1. DOMAIN disk = {}
    BY <1>2, <1>5 DEF Filenames
  <2>2. DiskUsage(disk) = 0
    BY <2>1, SumEmpty DEF DiskUsage
  <2> QED BY <1>1, <1>4, <2>2
<1>6. CASE Filenames # {}
  BY <1>1, <1>3, <1>4, <1>6 DEF NeedsRoom
<1> QED BY <1>5, <1>6

LEMMA DiskStep ==
    ASSUME Types, DiskAccounting, DiskFacts, DiskBounded, [Next]_vars
    PROVE  DiskAccounting' /\ DiskFacts' /\ DiskBounded'
<1>0. /\ disk \in Seq(Files) /\ removeErrors \in Nat /\ currentSizeInBytes \in Nat /\ MaxDiskSize \in Nat
      /\ DiskUsage(disk) \in Nat /\ CountedUsage(disk) \in Nat
      /\ \A k \in DOMAIN disk : disk[k] \in Files /\ disk[k].size \in Nat
  BY UsageType, FileSizeAt, LimitsAssumption DEF Types, DiskFacts, LimitsAssumption
<1>1. \A k \in Filenames : k \in DOMAIN disk /\ disk[k].known
  BY DEF Filenames
<1>2. HasRoom => Head(groups) \in SUBSET Transactions
  BY HeadTail DEF HasRoom, Serializing, Types
<1>3. CASE UNCHANGED <<disk, currentSizeInBytes, storage, removeErrors>>
  BY <1>3 DEF DiskAccounting, DiskFacts, DiskBounded
<1>4. CASE FileRemoved
  <2>1. PICK k \in Filenames : disk' = RemoveAt(disk, k) /\ currentSizeInBytes' = currentSizeInBytes - disk[k].size
    BY <1>4 DEF FileRemoved, RemoveFileAt
  <2>2. storage = "open" /\ storage' = "open" /\ removeErrors' = removeErrors
    BY <1>4 DEF FileRemoved
  <2>3. k \in DOMAIN disk /\ disk[k].counted
    BY <1>1, <2>2 DEF DiskFacts
  <2>4. /\ disk' \in Seq(Files) /\ DiskUsage(disk') = DiskUsage(disk) - disk[k].size
        /\ CountedUsage(disk') = CountedUsage(disk) - disk[k].size
    BY <1>0, <2>1, <2>3, UsageRemove
  <2>5. currentSizeInBytes' = CountedUsage(disk') /\ currentSizeInBytes' \in Nat
    BY <2>1, <2>2, <2>4, UsageType DEF DiskAccounting
  <2>6. \A j \in DOMAIN disk' : \E l \in DOMAIN disk : disk'[j] = disk[l]
    BY <1>0, <2>1, <2>3, SubFilesRemove
  <2>7. DiskFacts'
    BY <2>2, <2>5, <2>6 DEF DiskFacts
  <2>8. DiskBounded'
    BY <1>0, <2>2, <2>3, <2>4 DEF DiskBounded
  <2> QED BY <2>5, <2>7, <2>8 DEF DiskAccounting
<1>5. CASE FileForgotten
  <2>1. PICK k \in Filenames : /\ disk' = [disk EXCEPT ![k].known = FALSE]
                               /\ removeErrors' = removeErrors + 1 /\ UNCHANGED currentSizeInBytes
    BY <1>5 DEF FileForgotten, RemoveFileFails
  <2>2. storage = "open" /\ storage' = "open"
    BY <1>5 DEF FileForgotten
  <2>3. k \in DOMAIN disk
    BY <1>1
  <2>4. CountedUsage(disk') = CountedUsage(disk)
    BY <1>0, <2>1, <2>3, UsageForget
  <2>5. \A j \in DOMAIN disk' : /\ j \in DOMAIN disk /\ disk'[j].counted = disk[j].counted
                                /\ disk'[j].known => disk[j].known
    BY <1>0, <2>1, <2>3 DEF Files
  <2>6. removeErrors' # 0
    BY <1>0, <2>1
  <2> QED BY <2>1, <2>2, <2>4, <2>5, <2>6 DEF DiskAccounting, DiskFacts, DiskBounded
<1>6. CASE FileTruncated
  <2>1. PICK size \in 0..BufferSize(Head(groups)) : disk' = Append(disk, Truncated(size))
    BY <1>6 DEF FileTruncated
  <2>2. Truncated(size) \in Files /\ ~Truncated(size).counted /\ ~Truncated(size).known
    BY <1>2, <1>6, NewFiles DEF FileTruncated, Truncated
  <2>3. CountedUsage(disk') = CountedUsage(disk)
    BY <1>0, <2>1, <2>2, UsageAppend
  <2>4. UNCHANGED <<storage, currentSizeInBytes>> /\ removeErrors' # 0
    BY <1>0, <1>6 DEF FileTruncated
  <2>5. \A j \in DOMAIN disk' : disk'[j] = Truncated(size) \/ (j \in DOMAIN disk /\ disk'[j] = disk[j])
    BY <1>0, <2>1
  <2> QED BY <2>2, <2>3, <2>4, <2>5 DEF DiskAccounting, DiskFacts, DiskBounded
<1>7. CASE Serialize
  <2> DEFINE g == Head(groups)
             file == [txs |-> Stored(g), size |-> BufferSize(g), known |-> TRUE, counted |-> TRUE]
  <2>1. /\ disk' = Append(disk, file) /\ currentSizeInBytes' = currentSizeInBytes + BufferSize(g)
        /\ HasRoom /\ UNCHANGED <<storage, removeErrors>> /\ storage = "open"
    BY <1>7 DEF Serialize, HasRoom, Serializing
  <2>2. file \in Files /\ file.counted /\ file.known /\ file.size = BufferSize(g)
    BY <1>2, <2>1, NewFiles
  <2>3. BufferSize(g) \in Nat
    BY <1>2, <2>1, BufferType
  <2> HIDE DEF g, file
  <2>4. /\ disk' \in Seq(Files) /\ DiskUsage(disk') = DiskUsage(disk) + BufferSize(g)
        /\ CountedUsage(disk') = CountedUsage(disk) + BufferSize(g)
    BY <1>0, <2>1, <2>2, UsageAppend
  <2>5. \A j \in DOMAIN disk' : disk'[j] = file \/ (j \in DOMAIN disk /\ disk'[j] = disk[j])
    BY <1>0, <2>1
  <2>6. DiskAccounting' /\ DiskFacts'
    BY <1>0, <2>1, <2>2, <2>3, <2>4, <2>5 DEF DiskAccounting, DiskFacts
  <2>7. DiskBounded'
    BY <2>1, <2>4, RoomIsThere DEF DiskBounded, g
  <2> QED BY <2>6, <2>7
<1>8. CASE CrashAndRestart
  <2>1. removeErrors' = removeErrors
    BY <1>8 DEF CrashAndRestart
  <2>2. CASE storage' # "open" /\ UNCHANGED disk /\ currentSizeInBytes' = 0
    BY <2>1, <2>2 DEF DiskAccounting, DiskFacts, DiskBounded
  <2>3. ASSUME NEW d \in Seq(Files), NEW k \in 0..Len(d), disk' = Reloaded(d, k),
               currentSizeInBytes' = DiskUsage(disk'),
               removeErrors = 0 => DiskUsage(d) <= MaxDiskSize
        PROVE  DiskAccounting' /\ DiskFacts' /\ DiskBounded'
    <3>1. /\ disk' \in Seq(Files) /\ \A j \in DOMAIN disk' : disk'[j].known /\ disk'[j].counted
          /\ DiskUsage(disk') <= DiskUsage(d) /\ CountedUsage(disk') = DiskUsage(disk')
      BY <2>3, UsageReloaded
    <3>2. DiskUsage(disk') \in Nat /\ DiskUsage(d) \in Nat
      BY <3>1, UsageType
    <3> QED BY <1>0, <2>1, <2>3, <3>1, <3>2 DEF DiskAccounting, DiskFacts, DiskBounded
  <2>4. ASSUME NEW k \in 0..Len(disk), disk' = Reloaded(disk, k), currentSizeInBytes' = DiskUsage(disk')
        PROVE  DiskAccounting' /\ DiskFacts' /\ DiskBounded'
    <3>1. removeErrors = 0 => DiskUsage(disk) <= MaxDiskSize
      BY DEF DiskBounded
    <3> QED BY <1>0, <2>3, <2>4, <3>1
  <2>5. ASSUME HasRoom, NEW size \in 0..BufferSize(Head(groups)),
               NEW k \in 0..Len(Append(disk, Truncated(size))),
               disk' = Reloaded(Append(disk, Truncated(size)), k), currentSizeInBytes' = DiskUsage(disk')
        PROVE  DiskAccounting' /\ DiskFacts' /\ DiskBounded'
    <3> DEFINE d == Append(disk, Truncated(size))
    <3>1. Truncated(size) \in Files /\ Truncated(size).size = size /\ BufferSize(Head(groups)) \in Nat
      BY <1>2, <2>5, NewFiles, BufferType DEF Truncated
    <3>2. d \in Seq(Files) /\ DiskUsage(d) = DiskUsage(disk) + size
      BY <1>0, <3>1, UsageAppend
    <3>3. removeErrors = 0 => DiskUsage(d) <= MaxDiskSize
      BY <1>0, <2>5, <3>1, <3>2, RoomIsThere
    <3> QED BY <2>3, <2>5, <3>2, <3>3
  <2> QED BY <1>8, <2>2, <2>4, <2>5, Restart
<1> QED BY <1>3, <1>4, <1>5, <1>6, <1>7, <1>8, Steps, DiskChanges

-----------------------------------------------------------------------------
(* The theorems. *)

\* The inductive invariant.
ContainerInv ==
    /\ Types /\ AddControl /\ Apart
    /\ MemAccounting /\ MemBounded
    /\ DiskAccounting /\ DiskFacts /\ DiskBounded

LEMMA ContainerInvInit ==
    ASSUME Init
    PROVE  ContainerInv
<1> USE DEF Init
<1>1. Types /\ AddControl
  BY LimitsAssumption DEF Types, AddControl, LimitsAssumption
<1>2. Filed(<<>>) = {} /\ DistinctFiles(<<>>)
  BY DEF Filed, DistinctFiles
<1>3. Apart
  BY <1>2, NoGroups DEF Apart, ApartIn
<1>4. MemAccounting /\ MemBounded
  BY SizeEmpty, LimitsAssumption DEF MemAccounting, MemBounded, LimitsAssumption
<1>5. DiskUsage(<<>>) = 0 /\ CountedUsage(<<>>) = 0
  <2>1. DOMAIN <<>> = {} /\ CountedIn(<<>>) = {}
    BY DEF CountedIn
  <2> QED BY <2>1, UsageNames, SumEmpty DEF UsageOf
<1>6. DiskAccounting /\ DiskFacts /\ DiskBounded
  BY <1>5, LimitsAssumption DEF DiskAccounting, DiskFacts, DiskBounded, LimitsAssumption
<1> QED BY <1>1, <1>3, <1>4, <1>6 DEF ContainerInv

LEMMA ContainerInvStep ==
    ASSUME ContainerInv, [Next]_vars
    PROVE  ContainerInv'
BY TypesStep, ApartStep, MemStep, DiskStep DEF ContainerInv

LEMMA ContainerInvariant == Spec => []ContainerInv
<1>1. Init => ContainerInv
  BY ContainerInvInit
<1>2. ContainerInv /\ [Next]_vars => ContainerInv'
  BY ContainerInvStep
<1> QED BY <1>1, <1>2, PTL DEF Spec

\* The variables keep their types; in particular no account of the memory or of the disk
\* ever becomes negative.
THEOREM ContainerTypes == Spec => []TypeOK
<1>1. ContainerInv => TypeOK
  BY SizeFacts DEF ContainerInv, Types, TypeOK, MemAccounting, DiskFacts
<1> QED BY <1>1, ContainerInvariant, PTL

\* currentMemSizeInBytes is at all times the sum of the payloads in memory.
THEOREM MemoryAccounted == Spec => []MemAccounting
<1>1. ContainerInv => MemAccounting
  BY DEF ContainerInv
<1> QED BY <1>1, ContainerInvariant, PTL

\* After add() the memory is within maxMemSizeInBytes, but for a single transaction that
\* is there alone.
THEOREM MemoryBounded == Spec => []MemBounded
<1>1. ContainerInv => MemBounded
  BY DEF ContainerInv
<1> QED BY <1>1, ContainerInvariant, PTL

\* currentSizeInBytes is at all times the sum of the files the storage has counted.
THEOREM FilesAccounted == Spec => []DiskAccounting
<1>1. ContainerInv => DiskAccounting
  BY DEF ContainerInv
<1> QED BY <1>1, ContainerInvariant, PTL

\* As long as no file removal fails, the files take no more than maxSizeInBytes, through
\* every crash, restart and truncated file.
THEOREM FilesBounded == Spec => []DiskBounded
<1>1. ContainerInv => DiskBounded
  BY DEF ContainerInv
<1> QED BY <1>1, ContainerInvariant, PTL

\* The container and its file storage implement the abstract retry queue: a transaction
\* comes out of it at most once, and no copy is left behind.
THEOREM ContainerImplementsQueue == Spec => ImplementsRetryQueue
<1>1. Init => RQ!QueueInit
  BY DEF Init, RQ!QueueInit, Queued
<1>2. ContainerInv /\ [Next]_vars => [RQ!QueueNext]_(RQ!queueVars)
  BY ApartStep DEF ContainerInv, RQ!queueVars
<1> QED BY <1>1, <1>2, ContainerInvariant, PTL DEF Spec, ImplementsRetryQueue, RQ!QueueSpec
===============================================================================

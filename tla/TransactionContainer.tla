------------------------- MODULE TransactionContainer -------------------------
(***************************************************************************)
(* The forwarder's retry queue (pkg/forwarder): transactionContainer keeps *)
(* transactions in memory and, past a limit, flushes groups of them to the *)
(* files of transactionsFileStorage, which keeps its own limit by removing *)
(* its oldest files.                                                       *)
(*                                                                         *)
(* add() and extractTransactions() hold the container's mutex.  add() is   *)
(* split at its file operations, because each of them can fail and the     *)
(* process can crash between any two; no other operation runs in between.  *)
(*                                                                         *)
(* transactions is a set: add() appends, but the slice is sorted before    *)
(* anything is taken from it, by priority and then by creation time.  Two  *)
(* transactions with equal keys may come in any order (sort.Sort is not    *)
(* stable, and a file keeps the time in seconds).                          *)
(***************************************************************************)
EXTENDS Integers, Sequences, FiniteSetsExt, SequencesExt

CONSTANTS
    Transactions,     \* identities of the transactions the agent creates
    NoTransaction,
    PayloadSize,      \* GetPayloadSize
    Priority,         \* GetPriority: 0 is normal, 1 is high
    CreatedAt,        \* GetCreatedAt, in seconds
    StorableOnDisk,   \* the transactions with storableOnDisk
    MaxMemSize,       \* maxMemSizeInBytes
    FlushSize,        \* int(maxMemSizeInBytes * flushToStorageRatio)
    Storages,         \* what a start can end up with: "none" when no storage is configured,
                      \* "open", "nilPointer" when the folder cannot be created or read
    MaxDiskSize,      \* maxSizeInBytes
    FileOverhead,     \* bytes of a serialized collection besides the payloads
    MaxRemoveErrors,  \* bound on the number of files that cannot be removed
    MaxCrashes        \* bound on the number of crashes

ASSUME FunctionsAssumption ==
    /\ NoTransaction \notin Transactions
    /\ IsFiniteSet(Transactions)
    /\ PayloadSize \in [Transactions -> Nat]
    /\ Priority \in [Transactions -> {0, 1}]
    /\ CreatedAt \in [Transactions -> Nat]
    /\ StorableOnDisk \subseteq Transactions
ASSUME LimitsAssumption ==
    /\ MaxMemSize \in Nat /\ FlushSize \in Nat /\ MaxDiskSize \in Nat /\ FileOverhead \in Nat
    /\ Storages \subseteq {"none", "open", "nilPointer"}
    /\ MaxRemoveErrors \in Nat /\ MaxCrashes \in Nat

VARIABLES
    held,                   \* transactions the forwarder holds outside of the container
    transactions,           \* the container's transactions
    currentMemSizeInBytes,
    storage,                \* optionalTransactionStorage: "none" (nil), "open", or "nilPointer", a nil
                            \* *transactionsFileStorage in an interface that is not nil
    disk,                   \* the .retry files on disk, oldest first
    currentSizeInBytes,     \* the storage's account of them
    pc, cur, groups,        \* add(): control, its argument, the groups left to serialize
    removeErrors, crashes   \* how many there were

memVars  == <<transactions, currentMemSizeInBytes>>
diskVars == <<disk, currentSizeInBytes>>
addVars  == <<pc, cur, groups>>
vars == <<held, memVars, storage, diskVars, addVars, removeErrors, crashes>>

\* A file is known when it is in the storage's filenames, and counted when its
\* size is in currentSizeInBytes.
Files == [txs : SUBSET Transactions, size : Nat, known : BOOLEAN, counted : BOOLEAN]

SizeOf(S) == SumFunctionOnSet(PayloadSize, S)
FileSizes(d) == [k \in DOMAIN d |-> d[k].size]
DiskUsage(d) == SumFunctionOnSet(FileSizes(d), DOMAIN d)
CountedUsage(d) == SumFunctionOnSet(FileSizes(d), {k \in DOMAIN d : d[k].counted})
Filenames == {k \in DOMAIN disk : disk[k].known}

InGroup(t) == \E k \in DOMAIN groups : t \in groups[k]
InFile(t)  == \E k \in DOMAIN disk : t \in disk[k].txs
\* The transactions that are nowhere: not created yet, or delivered, dropped or
\* lost, their identities free for new ones.
Unused == {t \in Transactions \ (held \cup transactions \cup {cur}) : ~InGroup(t) /\ ~InFile(t)}

Init ==
    /\ held = {}
    /\ transactions = {}
    /\ storage \in Storages
    /\ currentMemSizeInBytes = 0
    /\ disk = <<>>
    /\ currentSizeInBytes = 0
    /\ pc = "idle"
    /\ cur = NoTransaction
    /\ groups = <<>>
    /\ removeErrors = 0
    /\ crashes = 0

-----------------------------------------------------------------------------
(* Taking transactions out of the memory. *)

\* byCreatedTimeAndPriority, reversed: normal priority first, then the oldest.
DropsBefore(a, b) ==
    \/ Priority[a] < Priority[b]
    \/ Priority[a] = Priority[b] /\ CreatedAt[a] < CreatedAt[b]

\* What extractTransactionsFromMemory(need) can return: the shortest beginning
\* of the sorted transactions that weighs at least need, or all of them.
Extractions(need) ==
    {D \in SUBSET transactions :
        /\ \A d \in D, r \in transactions \ D : ~DropsBefore(r, d)
        /\ D # {} => \E last \in D : /\ \A d \in D : ~DropsBefore(last, d)
                                     /\ SizeOf(D \ {last}) < need
        /\ D # transactions => SizeOf(D) >= need}

\* Mutant: the size of what is extracted is not subtracted.
ExtractFromMemoryKeepsSize(D) ==
    /\ transactions' = transactions \ D
    /\ UNCHANGED currentMemSizeInBytes

ExtractFromMemory(D) ==
    /\ transactions' = transactions \ D
    /\ currentMemSizeInBytes' = currentMemSizeInBytes - SizeOf(D)

-----------------------------------------------------------------------------
(* add(t)                                                                  *)

AddStart(t) ==
    /\ pc = "idle"
    /\ t \in Unused \cup held
    /\ held' = held \ {t}
    /\ cur' = t
    /\ pc' = IF storage = "none" THEN "drop" ELSE "extract"
    /\ UNCHANGED <<memVars, storage, diskVars, groups, removeErrors, crashes>>

MustFlush ==
    /\ currentMemSizeInBytes + PayloadSize[cur] > MaxMemSize
    /\ transactions # {}
    /\ FlushSize > 0      \* otherwise nothing is extracted and the loop breaks

\* extractTransactionsForDisk: one turn of its loop ...
ExtractForDisk ==
    /\ pc = "extract"
    /\ MustFlush
    /\ \E D \in Extractions(FlushSize) :
          /\ ExtractFromMemory(D)
          /\ groups' = Append(groups, D)
    /\ UNCHANGED <<held, storage, diskVars, pc, cur, removeErrors, crashes>>

\* ... and its end.
ExtractForDiskDone ==
    /\ pc = "extract"
    /\ ~MustFlush
    /\ pc' = "serialize"
    /\ UNCHANGED <<held, memVars, storage, diskVars, cur, groups, removeErrors, crashes>>

\* SerializeTo keeps the storable transactions only.
Stored(g) == g \cap StorableOnDisk
BufferSize(g) == FileOverhead + SizeOf(Stored(g))

\* The receiver of Serialize and Deserialize is nil: the agent panics.
SerializePanics ==
    /\ pc = "serialize"
    /\ groups # <<>>
    /\ storage = "nilPointer"
    /\ pc' = "panic"
    /\ UNCHANGED <<held, memVars, storage, diskVars, cur, groups, removeErrors, crashes>>

Serializing == pc = "serialize" /\ groups # <<>> /\ storage = "open"

\* Serialize: a group that cannot be encoded, or is larger than the whole
\* storage, is an error, and lost.
SerializeError ==
    /\ Serializing
    /\ \/ Stored(Head(groups)) # {}
       \/ BufferSize(Head(groups)) > MaxDiskSize
    /\ groups' = Tail(groups)
    /\ UNCHANGED <<held, memVars, storage, diskVars, pc, cur, removeErrors, crashes>>

NeedsRoom == Filenames # {} /\ currentSizeInBytes + BufferSize(Head(groups)) > MaxDiskSize

\* Mutant: the file is taken out of filenames, and never removed.
RemoveFileAtForgets(k) ==
    /\ disk' = [disk EXCEPT ![k].known = FALSE]
    /\ currentSizeInBytes' = currentSizeInBytes - disk[k].size
    /\ UNCHANGED removeErrors

\* removeFileAt: the file is removed, with what it holds.
RemoveFileAt(k) ==
    /\ disk' = RemoveAt(disk, k)
    /\ currentSizeInBytes' = currentSizeInBytes - disk[k].size
    /\ UNCHANGED removeErrors

\* removeFileAt fails: the file stays on disk and in currentSizeInBytes, and is
\* no longer in filenames.
RemoveFileFails(k) ==
    /\ removeErrors < MaxRemoveErrors
    /\ removeErrors' = removeErrors + 1
    /\ disk' = [disk EXCEPT ![k].known = FALSE]
    /\ UNCHANGED currentSizeInBytes

\* makeRoomFor: the oldest file goes.  An error ends Serialize; the group is lost.
MakeRoom ==
    /\ Serializing
    /\ BufferSize(Head(groups)) <= MaxDiskSize
    /\ NeedsRoom
    /\ \/ RemoveFileAt(Min(Filenames)) /\ UNCHANGED groups
       \/ RemoveFileFails(Min(Filenames)) /\ groups' = Tail(groups)
    /\ UNCHANGED <<held, memVars, storage, pc, cur, crashes>>

HasRoom ==
    /\ Serializing
    /\ BufferSize(Head(groups)) <= MaxDiskSize
    /\ ~NeedsRoom

\* Mutant: no room is made for the file.
SerializeNoRoom ==
    /\ Serializing
    /\ BufferSize(Head(groups)) <= MaxDiskSize
    /\ LET file == [txs |-> Stored(Head(groups)), size |-> BufferSize(Head(groups)),
                    known |-> TRUE, counted |-> TRUE]
       IN /\ disk' = Append(disk, file)
          /\ currentSizeInBytes' = currentSizeInBytes + file.size
    /\ groups' = Tail(groups)
    /\ UNCHANGED <<held, memVars, storage, pc, cur, removeErrors, crashes>>

\* Serialize writes the file.
Serialize ==
    /\ HasRoom
    /\ LET file == [txs |-> Stored(Head(groups)), size |-> BufferSize(Head(groups)),
                    known |-> TRUE, counted |-> TRUE]
       IN /\ disk' = Append(disk, file)
          /\ currentSizeInBytes' = currentSizeInBytes + file.size
    /\ groups' = Tail(groups)
    /\ UNCHANGED <<held, memVars, storage, pc, cur, removeErrors, crashes>>

\* A file that was cut short: nothing in it can be decoded.
Truncated(size) == [txs |-> {}, size |-> size, known |-> FALSE, counted |-> FALSE]

\* The file cannot be created or written: the group is lost.  What was written is
\* removed, or stays on disk when that fails as well.
SerializeWriteFails ==
    /\ HasRoom
    /\ \/ UNCHANGED <<disk, removeErrors>>
       \/ /\ removeErrors < MaxRemoveErrors
          /\ removeErrors' = removeErrors + 1
          /\ \E size \in 0..BufferSize(Head(groups)) : disk' = Append(disk, Truncated(size))
    /\ groups' = Tail(groups)
    /\ UNCHANGED <<held, memVars, storage, currentSizeInBytes, pc, cur, crashes>>

SerializeDone ==
    /\ pc = "serialize"
    /\ groups = <<>>
    /\ pc' = "drop"
    /\ UNCHANGED <<held, memVars, storage, diskVars, cur, groups, removeErrors, crashes>>

\* Mutant: the size of the new payload is not counted when room is made for it.
DropAndAppendLate ==
    /\ pc = "drop"
    /\ \E D \in Extractions(currentMemSizeInBytes - MaxMemSize) :
          /\ transactions' = (transactions \ D) \cup {cur}
          /\ currentMemSizeInBytes' = currentMemSizeInBytes - SizeOf(D) + PayloadSize[cur]
    /\ pc' = "idle"
    /\ cur' = NoTransaction
    /\ UNCHANGED <<held, storage, diskVars, groups, removeErrors, crashes>>

\* The end of add(): what is over the limit is dropped, then t is appended.
DropAndAppend ==
    /\ pc = "drop"
    /\ \E D \in Extractions(currentMemSizeInBytes + PayloadSize[cur] - MaxMemSize) :
          /\ transactions' = (transactions \ D) \cup {cur}
          /\ currentMemSizeInBytes' = currentMemSizeInBytes - SizeOf(D) + PayloadSize[cur]
    /\ pc' = "idle"
    /\ cur' = NoTransaction
    /\ UNCHANGED <<held, storage, diskVars, groups, removeErrors, crashes>>

-----------------------------------------------------------------------------
(* extractTransactions()                                                   *)

ExtractMemory ==
    /\ pc = "idle"
    /\ transactions # {}
    /\ held' = held \cup transactions
    /\ transactions' = {}
    /\ currentMemSizeInBytes' = 0
    /\ UNCHANGED <<storage, diskVars, addVars, removeErrors, crashes>>

\* Mutant: the file is read, and removed only when it cannot be read.
DeserializeKeepsFile ==
    /\ pc = "idle"
    /\ storage = "open"
    /\ transactions = {}
    /\ Filenames # {}
    /\ LET newest == Max(Filenames)
       IN \/ held' = held \cup disk[newest].txs /\ UNCHANGED <<diskVars, removeErrors>>
          \/ RemoveFileAt(newest) /\ UNCHANGED held
    /\ currentMemSizeInBytes' = 0
    /\ UNCHANGED <<transactions, storage, addVars, crashes>>

\* Deserialize takes the newest file.  The file is removed before its content is
\* decoded, and some of its transactions may be unreadable.  When the file cannot
\* be read, decoded or removed, the error ends extractTransactions.
Deserialize ==
    /\ pc = "idle"
    /\ storage = "open"
    /\ transactions = {}
    /\ Filenames # {}
    /\ LET newest == Max(Filenames)
       IN \/ /\ RemoveFileAt(newest)
             /\ \E readable \in SUBSET disk[newest].txs : held' = held \cup readable
             /\ currentMemSizeInBytes' = 0
          \/ /\ RemoveFileAt(newest) \/ RemoveFileFails(newest)
             /\ UNCHANGED <<held, currentMemSizeInBytes>>
    /\ UNCHANGED <<transactions, storage, addVars, crashes>>

DeserializePanics ==
    /\ pc = "idle"
    /\ storage = "nilPointer"
    /\ transactions = {}
    /\ pc' = "panic"
    /\ UNCHANGED <<held, memVars, storage, diskVars, cur, groups, removeErrors, crashes>>

\* The forwarder delivers a transaction, or gives it up.
Done(t) ==
    /\ pc # "panic"
    /\ t \in held
    /\ held' = held \ {t}
    /\ UNCHANGED <<memVars, storage, diskVars, addVars, removeErrors, crashes>>

-----------------------------------------------------------------------------
(* A crash loses the memory.  A file being written may be left truncated.  *)
(* When the agent is back, removeOutdatedFiles removes the oldest files    *)
(* and reloadExistingRetryFiles finds the others, in ModTime order.        *)

Reload(d) ==
    \E k \in 0..Len(d) :
        /\ disk' = [j \in 1..(Len(d) - k) |-> [d[k + j] EXCEPT !.known = TRUE, !.counted = TRUE]]
        /\ currentSizeInBytes' = DiskUsage(disk')

CrashAndRestart ==
    /\ pc = "panic" \/ crashes < MaxCrashes
    /\ crashes' = IF pc = "panic" THEN crashes ELSE crashes + 1
    /\ held' = {}
    /\ transactions' = {}
    /\ currentMemSizeInBytes' = 0
    /\ pc' = "idle"
    /\ cur' = NoTransaction
    /\ groups' = <<>>
    /\ storage' \in Storages
    /\ \/ storage' = "open" /\ Reload(disk)
       \/ /\ storage' = "open" /\ HasRoom
          /\ \E size \in 0..BufferSize(Head(groups)) : Reload(Append(disk, Truncated(size)))
       \/ storage' # "open" /\ UNCHANGED disk /\ currentSizeInBytes' = 0
    /\ UNCHANGED removeErrors

-----------------------------------------------------------------------------

Next ==
    \/ \E t \in Transactions : AddStart(t) \/ Done(t)
    \/ ExtractForDisk
    \/ ExtractForDiskDone
    \/ SerializePanics
    \/ SerializeError
    \/ MakeRoom
    \/ Serialize
    \/ SerializeWriteFails
    \/ SerializeDone
    \/ DropAndAppend
    \/ ExtractMemory
    \/ Deserialize
    \/ DeserializePanics
    \/ CrashAndRestart

Spec == Init /\ [][Next]_vars

-----------------------------------------------------------------------------
(* Properties. *)

\* The values the variables range over.
TypeOK ==
    /\ held \subseteq Transactions
    /\ transactions \subseteq Transactions
    /\ currentMemSizeInBytes \in Nat
    /\ storage \in Storages
    /\ disk \in Seq(Files)
    /\ currentSizeInBytes \in Nat
    /\ pc \in {"idle", "extract", "serialize", "drop", "panic"}
    /\ cur \in Transactions \cup {NoTransaction}
    /\ groups \in Seq(SUBSET Transactions)
    /\ removeErrors \in 0..MaxRemoveErrors
    /\ crashes \in 0..MaxCrashes

\* currentMemSizeInBytes is the size of what is in memory, across flushes,
\* drops, extractions and crashes.
MemAccounting == currentMemSizeInBytes = SizeOf(transactions)

\* After add() the memory is within its limit, but for one transaction that is
\* larger than the limit by itself.
MemBounded ==
    pc = "idle" =>
        \/ currentMemSizeInBytes <= MaxMemSize
        \/ \E t \in transactions : transactions = {t}

\* currentSizeInBytes is what the files take on disk, also when a file could not
\* be removed, and after a crash that left a truncated file; but for what a failed
\* write left behind, until the next restart.
DiskAccounting == storage = "open" => currentSizeInBytes = CountedUsage(disk)

\* As long as files can be removed, they never take more than the limit.
DiskBounded == removeErrors = 0 => DiskUsage(disk) <= MaxDiskSize

-----------------------------------------------------------------------------
(* The container and its storage implement RetryQueue. *)

Queued ==
    transactions \cup ({cur} \ {NoTransaction})
        \cup (UNION {groups[k] : k \in DOMAIN groups}) \cup (UNION {disk[k].txs : k \in DOMAIN disk})

RQ == INSTANCE RetryQueue WITH queue <- Queued, out <- held

\* Whatever fails on disk and whenever the agent crashes, a transaction goes into the queue by
\* add() only, and extractTransactions() takes out only what is in it, and leaves no copy behind.
ImplementsRetryQueue == RQ!QueueSpec
=============================================================================

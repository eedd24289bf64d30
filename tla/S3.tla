--------------------------------- MODULE S3 ---------------------------------
(***************************************************************************)
(* One bucket name of the S3 store (src/internal/s3/store.go): its directory *)
(* of bodies and metadata files, the index each bucketState keeps beside     *)
(* them, and its notification and bucket configurations.                     *)
(*                                                                         *)
(* Files are found by path, so a call that looked the bucket up before it    *)
(* was deleted and created again works on the new directory under the old    *)
(* bucketState's lock and index.  A body is its size; a metadata file holds   *)
(* the size and the time of the write.                                       *)
(***************************************************************************)
EXTENDS Integers, FiniteSets

CONSTANTS
    Objects,        \* object keys
    Sizes,          \* sizes of uploaded bodies
    Settings,       \* values of a notification or bucket configuration
    Clients,        \* concurrent calls
    RecentLimit,    \* newest objects an index keeps (recentLimit)
    MaxBuckets,     \* bound: buckets created under the name
    MaxPuts,        \* bound: objects written
    MaxTransfers    \* bound: calls

ASSUME S3Assumption ==
    /\ IsFiniteSet(Objects) /\ Sizes \subseteq Nat /\ MaxBuckets \in Nat
    /\ "free" \notin Clients

VARIABLES
    bucket,     \* Store.buckets: the current bucketState, 0 if none
    nbuckets,   \* bucketStates made so far
    objectDir,  \* the bucket's directory exists
    body,       \* its files: bodies
    objectMeta, \* and metadata
    index,      \* bucketState.index
    lock,       \* bucketState.mu: the call that writes
    storeLock,  \* Store.mu: DeleteBucket under way
    notif, conf,\* configurations, in memory and on disk
    transfer,   \* the calls
    nputs, ntransfers,
    torn        \* history: file changes since the index was made that failed, were
                \* cut off by a crash, or were made by a call of a deleted bucket

bucketVars == <<bucket, nbuckets, objectDir, body, objectMeta, index, lock, storeLock, notif, conf,
                transfer, nputs, ntransfers, torn>>

AbsentFile == -1
NoMeta == [size |-> AbsentFile, at |-> 0]
EmptyIndex == [count |-> 0, total |-> 0, recent |-> {}]
Unset == "unset"
NoHolder == "free"
NoTransfer == [op |-> "none"]
Generations == 1..MaxBuckets

BucketInit ==
    /\ bucket = 0 /\ nbuckets = 0 /\ objectDir = FALSE
    /\ body = [k \in Objects |-> AbsentFile] /\ objectMeta = [k \in Objects |-> NoMeta]
    /\ index = [g \in Generations |-> EmptyIndex]
    /\ lock = [g \in Generations |-> NoHolder] /\ storeLock = NoHolder
    /\ notif = [mem |-> Unset, file |-> Unset] /\ conf = [mem |-> Unset, file |-> Unset]
    /\ transfer = [c \in Clients |-> NoTransfer]
    /\ nputs = 0 /\ ntransfers = 0 /\ torn = 0

objectFiles == <<objectDir, body, objectMeta>>
bucketStore == <<bucket, nbuckets, storeLock, notif, conf>>

(* What ListObjects shows: the readable metadata files.                     *)
Listed == {k \in Objects : objectMeta[k] # NoMeta}

(* The sizes that the metadata m gives for ks, added up.                    *)
Sizing(m, ks) ==
    LET sum[s \in SUBSET Objects] ==
            IF s = {} THEN 0
            ELSE LET k == CHOOSE k \in s : TRUE IN m[k].size + sum[s \ {k}]
    IN  sum[ks]

Stamped(k) == [key |-> k, at |-> objectMeta[k].at]
Newest(entries) ==
    {e \in entries : Cardinality({f \in entries : f.at > e.at}) < RecentLimit}

BeginTransfer(c, record) ==
    /\ transfer[c] = NoTransfer /\ ntransfers < MaxTransfers /\ ntransfers' = ntransfers + 1
    /\ transfer' = [transfer EXCEPT ![c] = record]
TransferTo(c, pc) == transfer' = [transfer EXCEPT ![c].pc = pc]
EndTransfer(c) == transfer' = [transfer EXCEPT ![c] = NoTransfer]
UnlockBucket(c) == lock' = [lock EXCEPT ![transfer[c].gen] = NoHolder]

(* Count a torn write if that is what the step is.                          *)
Tear(broken) == torn' = torn + (IF broken THEN 1 ELSE 0)
Stale(c) == transfer[c].gen # bucket

(* The look-up of a bucket holds Store.mu for reading.                      *)
Lookup(c) ==
    /\ bucket # 0 /\ storeLock = NoHolder
    /\ UNCHANGED <<bucketStore, objectFiles, index, lock, nputs, torn>>

(***************************************************************************)
(* The index                                                               *)
(***************************************************************************)
(* A record that takes every write for a new object in its count.          *)
RecordCounting(ix, prev, entry, size) ==
    [count |-> ix.count + 1,
     total |-> ix.total + size - (IF prev = AbsentFile THEN 0 ELSE prev),
     recent |-> Newest({e \in ix.recent : e.key # entry.key} \cup {entry})]

(* record, given the size found before the write (AbsentFile if none).      *)
RecordObject(ix, prev, entry, size) ==
    [count |-> IF prev = AbsentFile THEN ix.count + 1 ELSE ix.count,
     total |-> ix.total + size - (IF prev = AbsentFile THEN 0 ELSE prev),
     recent |-> Newest({e \in ix.recent : e.key # entry.key} \cup {entry})]

(* forget, given the size objectSizeLocked found (AbsentFile if none).      *)
ForgetObject(ix, key, size) ==
    IF size = AbsentFile THEN ix
    ELSE [count |-> ix.count - 1, total |-> ix.total - size,
          recent |-> {e \in ix.recent : e.key # key}]

(* objectSizeLocked: the metadata first, then the body.                     *)
ObjectSize(k) == IF objectMeta[k] # NoMeta THEN objectMeta[k].size ELSE body[k]

(* rebuildIndexLocked reads the metadata files.                             *)
RebuildIndex == [count |-> Cardinality(Listed), total |-> Sizing(objectMeta, Listed),
                 recent |-> Newest({Stamped(k) : k \in Listed})]

(***************************************************************************)
(* PutObject and CopyObject                                                *)
(***************************************************************************)
PutObject(c, k, size) ==
    /\ Lookup(c) /\ nputs < MaxPuts
    /\ BeginTransfer(c, [op |-> "put", pc |-> "create", gen |-> bucket, key |-> k, src |-> k,
                         size |-> size, prev |-> AbsentFile, linked |-> TRUE])

(* CopyObject opens the source and hands it to PutObject, to be read while  *)
(* the destination is written.                                              *)
CopyObject(c, src, k) ==
    /\ Lookup(c) /\ nputs < MaxPuts /\ lock[bucket] = NoHolder
    /\ objectMeta[src] # NoMeta /\ body[src] # AbsentFile
    /\ BeginTransfer(c, [op |-> "copy", pc |-> "create", gen |-> bucket, key |-> k, src |-> src,
                         size |-> body[src], prev |-> AbsentFile, linked |-> TRUE])

Writing(c, pc) == transfer[c].op \in {"put", "copy"} /\ transfer[c].pc = pc

(* Stat, then os.Create truncates; without a directory it fails.            *)
PutCreate(c) ==
    /\ Writing(c, "create") /\ lock[transfer[c].gen] = NoHolder
    /\ \/ /\ objectDir
          /\ lock' = [lock EXCEPT ![transfer[c].gen] = c]
          /\ transfer' = [transfer EXCEPT ![c].pc = "copy", ![c].prev = body[transfer[c].key]]
          /\ body' = [body EXCEPT ![transfer[c].key] = 0]
          /\ Tear(Stale(c))
       \/ ~objectDir /\ EndTransfer(c) /\ UNCHANGED <<lock, body, torn>>
    /\ UNCHANGED <<bucketStore, objectDir, objectMeta, index, nputs, ntransfers>>

(* A copy onto itself reads what os.Create left of it: nothing.             *)
CopiedSize(c) ==
    CASE transfer[c].op = "put" -> transfer[c].size
      [] transfer[c].src = transfer[c].key -> 0
      [] OTHER -> IF body[transfer[c].src] = AbsentFile THEN transfer[c].size
                  ELSE body[transfer[c].src]

(* io.Copy, which goes nowhere once the file was removed; an error removes   *)
(* the body and leaves old metadata behind.                                 *)
PutCopy(c) ==
    LET k == transfer[c].key IN
    /\ Writing(c, "copy")
    /\ \/ /\ body' = IF transfer[c].linked /\ body[k] # AbsentFile
                     THEN [body EXCEPT ![k] = CopiedSize(c)] ELSE body
          /\ transfer' = [transfer EXCEPT ![c].pc = "meta", ![c].size = CopiedSize(c)]
          /\ UNCHANGED <<lock, torn>>
       \/ /\ body' = [body EXCEPT ![k] = AbsentFile]
          /\ Tear(objectMeta[k] # NoMeta \/ Stale(c))
          /\ EndTransfer(c) /\ UnlockBucket(c)
    /\ UNCHANGED <<bucketStore, objectDir, objectMeta, index, nputs, ntransfers>>

(* The metadata file and the index; an error removes the body, and the old   *)
(* metadata is kept or destroyed.                                           *)
PutMeta(c) ==
    LET k == transfer[c].key
        now == nputs + 1
    IN  /\ Writing(c, "meta")
        /\ \/ /\ objectDir
              /\ nputs' = now
              /\ objectMeta' = [objectMeta EXCEPT ![k] = [size |-> transfer[c].size, at |-> now]]
              /\ index' = [index EXCEPT ![transfer[c].gen] =
                             RecordObject(@, transfer[c].prev, [key |-> k, at |-> now], transfer[c].size)]
              /\ Tear(body[k] # transfer[c].size \/ Stale(c))
              /\ UNCHANGED body
           \/ /\ body' = [body EXCEPT ![k] = AbsentFile]
              /\ \E left \in {objectMeta[k], NoMeta} : objectMeta' = [objectMeta EXCEPT ![k] = left]
              /\ Tear(objectMeta[k] # NoMeta \/ Stale(c))
              /\ UNCHANGED <<index, nputs>>
        /\ EndTransfer(c) /\ UnlockBucket(c)
        /\ UNCHANGED <<bucketStore, objectDir, ntransfers>>

(***************************************************************************)
(* DeleteObject and DeleteObjects                                          *)
(***************************************************************************)
DeleteObjects(c, ks) ==
    /\ Lookup(c)
    /\ BeginTransfer(c, [op |-> "delete", pc |-> "lock", gen |-> bucket, keys |-> ks,
                         found |-> AbsentFile])

Deleting(c, pc) == transfer[c].op = "delete" /\ transfer[c].pc = pc

(* Key by key under the lock: look at the size, remove the body ...          *)
DeleteBody(c) ==
    /\ Deleting(c, "lock") /\ transfer[c].keys # {} /\ lock[transfer[c].gen] \in {NoHolder, c}
    /\ LET k == CHOOSE k \in transfer[c].keys : TRUE IN
       /\ body' = [body EXCEPT ![k] = AbsentFile]
       /\ transfer' = [transfer EXCEPT ![c].pc = "meta", ![c].found = ObjectSize(k)]
    /\ lock' = [lock EXCEPT ![transfer[c].gen] = c]
    /\ Tear(Stale(c))
    /\ UNCHANGED <<bucketStore, objectDir, objectMeta, index, nputs, ntransfers>>

(* ... the metadata, and forget it.                                         *)
DeleteMeta(c) ==
    LET k == CHOOSE k \in transfer[c].keys : TRUE
        rest == transfer[c].keys \ {k}
    IN  /\ Deleting(c, "meta")
        /\ objectMeta' = [objectMeta EXCEPT ![k] = NoMeta]
        /\ index' = [index EXCEPT ![transfer[c].gen] = ForgetObject(@, k, transfer[c].found)]
        /\ Tear(body[k] # AbsentFile \/ Stale(c))
        /\ IF rest = {} THEN EndTransfer(c) /\ UnlockBucket(c)
           ELSE /\ transfer' = [transfer EXCEPT ![c].pc = "lock", ![c].keys = rest]
                /\ UNCHANGED lock
        /\ UNCHANGED <<bucketStore, objectDir, body, nputs, ntransfers>>

(***************************************************************************)
(* Buckets and their configurations                                        *)
(***************************************************************************)
CountedCall == ntransfers < MaxTransfers /\ ntransfers' = ntransfers + 1

CreateBucket ==
    /\ CountedCall /\ bucket = 0 /\ storeLock = NoHolder /\ nbuckets < MaxBuckets
    /\ nbuckets' = nbuckets + 1 /\ bucket' = nbuckets + 1
    /\ objectDir' = TRUE /\ torn' = 0
    /\ UNCHANGED <<body, objectMeta, index, lock, storeLock, notif, conf, transfer, nputs>>

(* DeleteBucket looks for bodies under both locks ...                       *)
DeleteBucket(c) ==
    /\ bucket # 0 /\ storeLock = NoHolder /\ lock[bucket] = NoHolder
    /\ \A k \in Objects : body[k] = AbsentFile
    /\ storeLock' = c
    /\ BeginTransfer(c, [op |-> "rmdir", pc |-> "remove"])
    /\ UNCHANGED <<bucket, nbuckets, notif, conf, objectFiles, index, lock, nputs, torn>>

(* ... and removes the directory under Store.mu only.  The configurations    *)
(* stay in memory.                                                          *)
RemoveBucket(c) ==
    /\ transfer[c].op = "rmdir"
    /\ bucket' = 0 /\ objectDir' = FALSE /\ storeLock' = NoHolder
    /\ body' = [k \in Objects |-> AbsentFile] /\ objectMeta' = [k \in Objects |-> NoMeta]
    /\ notif' = [notif EXCEPT !.file = Unset] /\ conf' = [conf EXCEPT !.file = Unset]
    /\ transfer' = [d \in Clients |->
                     IF d = c THEN NoTransfer
                     ELSE IF Writing(d, "copy") THEN [transfer[d] EXCEPT !.linked = FALSE]
                     ELSE transfer[d]]
    /\ UNCHANGED <<nbuckets, index, lock, nputs, ntransfers, torn>>

(* UpdateBucketConfig: memory and file under Store.mu.                      *)
UpdateBucketConfig(v) ==
    /\ CountedCall /\ bucket # 0 /\ storeLock = NoHolder
    /\ conf' = [mem |-> v, file |-> v]
    /\ UNCHANGED <<bucket, nbuckets, objectFiles, index, lock, storeLock, notif, transfer, nputs, torn>>

(* PutBucketNotification: a check, memory, then the file, with the lock       *)
(* given up in between.                                                     *)
PutBucketNotification(c, v) ==
    Lookup(c) /\ BeginTransfer(c, [op |-> "notify", pc |-> "memory", value |-> v])

NotifyMemory(c) ==
    /\ transfer[c].op = "notify" /\ transfer[c].pc = "memory" /\ storeLock = NoHolder
    /\ notif' = [notif EXCEPT !.mem = transfer[c].value]
    /\ TransferTo(c, "file")
    /\ UNCHANGED <<bucket, nbuckets, objectFiles, index, lock, storeLock, conf, nputs, ntransfers, torn>>

NotifyFile(c) ==
    /\ transfer[c].op = "notify" /\ transfer[c].pc = "file"
    /\ notif' = IF objectDir THEN [notif EXCEPT !.file = transfer[c].value] ELSE notif
    /\ EndTransfer(c)
    /\ UNCHANGED <<bucket, nbuckets, objectFiles, index, lock, storeLock, conf, nputs, ntransfers, torn>>

(***************************************************************************)
(* Crash and restart                                                       *)
(***************************************************************************)
(* The objects whose body and metadata do not fit.                         *)
Mismatched == {k \in Objects : body[k] # objectMeta[k].size}

(* The process dies at any point; Init reads the directory and makes the     *)
(* index anew.                                                             *)
CrashStore ==
    /\ nbuckets < MaxBuckets /\ nbuckets' = nbuckets + 1
    /\ bucket' = IF objectDir THEN nbuckets + 1 ELSE 0
    /\ index' = [index EXCEPT ![nbuckets + 1] = IF objectDir THEN RebuildIndex ELSE EmptyIndex]
    /\ lock' = [g \in Generations |-> NoHolder] /\ storeLock' = NoHolder
    /\ notif' = [notif EXCEPT !.mem = notif.file] /\ conf' = [conf EXCEPT !.mem = conf.file]
    /\ transfer' = [c \in Clients |-> NoTransfer]
    /\ torn' = Cardinality(Mismatched)
    /\ UNCHANGED <<objectFiles, nputs, ntransfers>>

BucketNext ==
    \/ \E c \in Clients :
         \/ \E k \in Objects, size \in Sizes : PutObject(c, k, size)
         \/ \E src, k \in Objects : CopyObject(c, src, k)
         \/ \E ks \in (SUBSET Objects) \ {{}} : DeleteObjects(c, ks)
         \/ \E v \in Settings : PutBucketNotification(c, v)
         \/ PutCreate(c) \/ PutCopy(c) \/ PutMeta(c) \/ DeleteBody(c) \/ DeleteMeta(c)
         \/ DeleteBucket(c) \/ RemoveBucket(c) \/ NotifyMemory(c) \/ NotifyFile(c)
    \/ \E v \in Settings : UpdateBucketConfig(v)
    \/ CreateBucket \/ CrashStore

BucketSpec == BucketInit /\ [][BucketNext]_bucketVars

(***************************************************************************)
(* Properties                                                              *)
(***************************************************************************)
(* Whenever nobody writes to a bucket, its index has the count, the total     *)
(* size and a preview of the objects ListObjects reads from the files,        *)
(* through overwrites, copies, repeated and multiple deletes, failed first    *)
(* uploads, deletion and creation of the bucket, and restarts; and the count  *)
(* is off by at most one for every write that was torn: a failed overwrite,   *)
(* a crash between body and metadata, or a call of a bucket deleted meanwhile *)
(* (store.go, objectIndex.record and forget).                                 *)
IndexExact ==
    bucket # 0 /\ lock[bucket] = NoHolder =>
        /\ index[bucket].count - Cardinality(Listed) \in -torn .. torn
        /\ torn = 0 => /\ index[bucket].total = Sizing(objectMeta, Listed)
                       /\ index[bucket].recent \subseteq {Stamped(k) : k \in Listed}

=============================================================================

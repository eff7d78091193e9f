----------------------------- MODULE DocumentStore -----------------------------
(***************************************************************************)
(* The files of one valuation case live in two places: their rows in       *)
(* PostgreSQL and their bytes in MinIO / S3.  A request changes both, the   *)
(* object first, and only the rows are transactional.  This module models  *)
(* the requests step by step, with the faults that may come between two    *)
(* steps, and a reader that takes no lock.                                 *)
(*                                                                         *)
(* Every writing request first locks the case row (FOR UPDATE) and keeps   *)
(* the lock to the end of its transaction: at most one is under way, and   *)
(* what it read of the rows stays true until it commits.                   *)
(***************************************************************************)
EXTENDS Integers, Sequences

CONSTANTS
    FileContents, \* the bytes a file may have
    Faults,       \* the steps that may fail, of "put", "write", "cleanup",
                  \* "remove", "commit" and "crash"
    Workbooks,    \* how many workbooks one template export writes
    MaxRows,      \* bound: document rows
    MaxKeys,      \* bound: object keys ever drawn
    MaxVersion    \* bound: version_no of a row

VARIABLES
    rows,         \* committed rows of valuation.documents
    store,        \* the bucket: object key -> bytes
    lastKey,      \* object keys carry a uuid4: drawn keys are numbered
    request,      \* the writing request under way, or the last one
    reader        \* a download: the row it saw and what it got

storeVars == <<rows, store, lastKey, request, reader>>

ASSUME StoreAssumption ==
    /\ Workbooks \in Nat \ {0}
    /\ MaxRows \in Nat /\ MaxKeys \in Nat /\ MaxVersion \in Nat
    /\ Faults \subseteq {"put", "write", "cleanup", "remove", "commit", "crash"}
    /\ \A c \in FileContents : c \notin {"pending", "missing"}

---------------------------------------------------------------------------

\* "source" stands for the ten categories an owner may delete.
Types == {"source", "report", "template"}

\* Mutant: a generated report can be deleted like a source file.
DeletableReports(type) == type # "template"

Deletable(type) == type = "source"

FileRows == [type : Types, group : Int, version : Nat, active : BOOLEAN,
             bytes : FileContents, key : Nat]

\* table is what the transaction would commit, stored the keys it created;
\* book is the workbook being exported, fresh whether its row is new.
FileRequests ==
    [op : {"none", "upload", "generate", "export", "delete", "reclassify"},
     pc : {"done", "failed", "put", "write", "cleanup", "remove",
           "deactivate", "commit"},
     key : Nat, bytes : FileContents, table : Seq(FileRows), stored : SUBSET Nat,
     book : Nat, fresh : BOOLEAN]

Readers == [type : Types, key : Nat, bytes : FileContents,
            got : FileContents \cup {"pending", "missing"}]

StoreTypeOK ==
    /\ rows \in Seq(FileRows)
    /\ lastKey \in Nat
    /\ DOMAIN store \subseteq 1..lastKey
    /\ \A k \in DOMAIN store : store[k] \in FileContents
    /\ request \in FileRequests
    /\ reader \in Readers

StoreInit ==
    /\ rows = <<>>
    /\ store = <<>>
    /\ lastKey = 0
    /\ \E c \in FileContents :
          /\ request = [op |-> "none", pc |-> "done", key |-> 0, bytes |-> c,
                        table |-> <<>>, stored |-> {}, book |-> 0, fresh |-> FALSE]
          /\ reader = [type |-> "source", key |-> 0, bytes |-> c, got |-> "missing"]

---------------------------------------------------------------------------
(* Rows *)

StoreIdle == request.pc \in {"done", "failed"}

InGroup(table, g) == {i \in DOMAIN table : table[i].group = g}

IsNextVersion(table, g, v) ==
    /\ \A i \in InGroup(table, g) : table[i].version < v
    /\ v = 1 \/ \E i \in InGroup(table, g) : table[i].version = v - 1

GroupDeactivated(table, g) ==
    [i \in DOMAIN table |->
        IF table[i].group = g THEN [table[i] EXCEPT !.active = FALSE] ELSE table[i]]

\* uq_documents_group_version
Unique(table) ==
    \A i, j \in DOMAIN table :
        table[i].group = table[j].group /\ table[i].version = table[j].version => i = j

ActiveWith(bytes) == {i \in DOMAIN rows : rows[i].active /\ rows[i].bytes = bytes}

\* get_by_checksum takes one of the highest version.
IdenticalRows(bytes) ==
    {i \in ActiveWith(bytes) :
        \A j \in ActiveWith(bytes) : rows[j].version <= rows[i].version}

\* get_inactive_by_checksum takes the last one uploaded.
RemovedRows(bytes) ==
    {i \in DOMAIN rows :
        /\ ~rows[i].active /\ rows[i].bytes = bytes
        /\ \A j \in DOMAIN rows : (~rows[j].active /\ rows[j].bytes = bytes) => j <= i}

Row(type, g, v, bytes, key) ==
    [type |-> type, group |-> g, version |-> v, active |-> TRUE,
     bytes |-> bytes, key |-> key]

---------------------------------------------------------------------------
(* The requests of the owner *)

\* A request that puts a new object, to be named by table afterwards.
BeginPut(op, bytes, table) ==
    /\ lastKey < MaxKeys
    /\ lastKey' = lastKey + 1
    /\ request' = [op |-> op, pc |-> "put", key |-> lastKey + 1, bytes |-> bytes,
                   table |-> table, stored |-> {}, book |-> 0, fresh |-> TRUE]
    /\ UNCHANGED <<rows, store, reader>>

\* DocumentService.upload; g # 0 when the form names a version group.  A file
\* whose bytes a removed row has revives that row, in that row's group.
Upload(bytes, type, g) ==
    LET removed == RemovedRows(bytes)
        group   == IF g # 0 THEN g
                   ELSE IF removed # {} THEN rows[CHOOSE i \in removed : TRUE].group
                   ELSE Len(rows) + 1
    IN  /\ StoreIdle
        /\ ActiveWith(bytes) = {}
        /\ g # 0 => \E i \in InGroup(rows, g) :
                       /\ rows[i].type = type
                       /\ \A j \in InGroup(rows, g) : rows[j].version <= rows[i].version
        /\ \E v \in 1..MaxVersion :
              /\ IsNextVersion(rows, group, v)
              /\ IF removed = {}
                 THEN /\ Len(rows) < MaxRows
                      /\ BeginPut("upload", bytes,
                            Append(GroupDeactivated(rows, group),
                                   Row(type, group, v, bytes, lastKey + 1)))
                 ELSE \E i \in removed :
                      BeginPut("upload", bytes,
                         [GroupDeactivated(rows, group) EXCEPT
                            ![i] = Row(type, rows[i].group, v, bytes, lastKey + 1)])

\* FormalReportService.generate: g is the group of the package's output, or 0.
\* An identical report is adopted and nothing is written here.
GenerateFile(bytes, g) ==
    LET group == IF g = 0 THEN Len(rows) + 1 ELSE g
    IN  /\ StoreIdle
        /\ IdenticalRows(bytes) = {} \/ \E i \in IdenticalRows(bytes) : rows[i].type # "report"
        /\ Len(rows) < MaxRows
        /\ \E v \in 1..MaxVersion :
              /\ IsNextVersion(rows, group, v)
              /\ BeginPut("generate", bytes,
                    Append(GroupDeactivated(rows, group),
                           Row("report", group, v, bytes, lastKey + 1)))

\* One workbook of generate_template_exports: a row of its own, at version 1,
\* overwritten in place, object included, once it exists.
Workbook(table, book, bytes, stored) ==
    LET old == InGroup(table, -book)
        new == [op |-> "export", pc |-> "put", bytes |-> bytes, stored |-> stored,
                book |-> book, fresh |-> old = {},
                key |-> IF old = {} THEN lastKey + 1
                        ELSE table[CHOOSE i \in old : TRUE].key,
                table |-> IF old = {}
                          THEN Append(table, Row("template", -book, 1, bytes, lastKey + 1))
                          ELSE [i \in DOMAIN table |->
                                  IF i \in old
                                  THEN [table[i] EXCEPT !.bytes = bytes, !.active = TRUE]
                                  ELSE table[i]]]
    IN  /\ request' = new
        /\ lastKey' = IF old = {} THEN lastKey + 1 ELSE lastKey
        /\ old = {} => lastKey < MaxKeys /\ Len(table) < MaxRows
        /\ UNCHANGED <<rows, store, reader>>

Export(bytes) == StoreIdle /\ Workbook(rows, 1, bytes, {})

\* delete_source_document removes the object, then deactivates the row.
Delete(i) ==
    /\ StoreIdle
    /\ rows[i].active /\ Deletable(rows[i].type)
    /\ request' = [op |-> "delete", pc |-> "remove", key |-> rows[i].key,
                   bytes |-> rows[i].bytes, stored |-> {}, book |-> 0, fresh |-> FALSE,
                   table |-> [rows EXCEPT ![i] = [@ EXCEPT !.active = FALSE]]]
    /\ UNCHANGED <<rows, store, lastKey, reader>>

\* reclassify_source_document takes any category, the report's included.
Reclassify(i) ==
    /\ StoreIdle
    /\ rows[i].active /\ Deletable(rows[i].type)
    /\ request' = [op |-> "reclassify", pc |-> "commit", key |-> rows[i].key,
                   bytes |-> rows[i].bytes, stored |-> {}, book |-> 0, fresh |-> FALSE,
                   table |-> [rows EXCEPT ![i] = [@ EXCEPT !.type = "report"]]]
    /\ UNCHANGED <<rows, store, lastKey, reader>>

---------------------------------------------------------------------------
(* The steps of a request *)

Goto(pc) == request' = [request EXCEPT !.pc = pc]

Without(key) == [k \in DOMAIN store \ {key} |-> store[k]]

With(key, bytes) ==
    [k \in DOMAIN store \cup {key} |-> IF k = key THEN bytes ELSE store[k]]

\* Mutant: an overwritten workbook goes to the key drawn last.
PutLastDrawn ==
    /\ request.pc = "put"
    /\ store' = With(lastKey, request.bytes)
    /\ request' = [request EXCEPT !.pc = "write",
          !.stored = IF request.fresh THEN @ \cup {request.key} ELSE @]
    /\ UNCHANGED <<rows, lastKey, reader>>

Put ==
    /\ request.pc = "put"
    /\ store' = With(request.key, request.bytes)
    /\ request' = [request EXCEPT !.pc = "write",
          !.stored = IF request.fresh THEN @ \cup {request.key} ELSE @]
    /\ UNCHANGED <<rows, lastKey, reader>>

\* storage.upload raises; no object of this key is left by it.
PutFails ==
    /\ "put" \in Faults /\ request.pc = "put"
    /\ Goto("failed") /\ UNCHANGED <<rows, store, lastKey, reader>>

Write ==
    /\ request.pc = "write" /\ Unique(request.table)
    /\ IF request.op = "export" /\ request.book < Workbooks
       THEN Workbook(request.table, request.book + 1, request.bytes, request.stored)
       ELSE Goto("commit") /\ UNCHANGED <<rows, store, lastKey, reader>>

\* An exception while the rows are written: the new object is deleted, an
\* object that was overwritten is not restored.
WriteFails ==
    /\ request.pc = "write"
    /\ "write" \in Faults \/ ~Unique(request.table)
    /\ Goto(IF request.fresh THEN "cleanup" ELSE "failed")
    /\ UNCHANGED <<rows, store, lastKey, reader>>

Cleanup ==
    /\ request.pc = "cleanup"
    /\ store' = Without(request.key)
    /\ Goto("failed") /\ UNCHANGED <<rows, lastKey, reader>>

CleanupFails ==
    /\ "cleanup" \in Faults /\ request.pc = "cleanup"
    /\ Goto("failed") /\ UNCHANGED <<rows, store, lastKey, reader>>

Remove ==
    /\ request.pc = "remove"
    /\ store' = Without(request.key)
    /\ Goto("deactivate") /\ UNCHANGED <<rows, lastKey, reader>>

RemoveFails ==
    /\ "remove" \in Faults /\ request.pc = "remove"
    /\ Goto("failed") /\ UNCHANGED <<rows, store, lastKey, reader>>

Deactivate ==
    /\ request.pc = "deactivate"
    /\ Goto("commit") /\ UNCHANGED <<rows, store, lastKey, reader>>

DeactivateFails ==
    /\ "write" \in Faults /\ request.pc = "deactivate"
    /\ Goto("failed") /\ UNCHANGED <<rows, store, lastKey, reader>>

\* get_db_session commits after the handler has returned: no handler code is
\* left to compensate when the commit fails.
Commit ==
    /\ request.pc = "commit"
    /\ rows' = request.table
    /\ Goto("done") /\ UNCHANGED <<store, lastKey, reader>>

CommitFails ==
    /\ "commit" \in Faults /\ request.pc = "commit"
    /\ Goto("failed") /\ UNCHANGED <<rows, store, lastKey, reader>>

\* The process dies: the transaction is rolled back, the bucket stays.
Crash ==
    /\ "crash" \in Faults /\ ~StoreIdle
    /\ Goto("failed") /\ UNCHANGED <<rows, store, lastKey, reader>>

\* A download looks the row up and then, without any lock, fetches its object.
LookUp(i) ==
    /\ rows[i].active
    /\ reader' = [type |-> rows[i].type, key |-> rows[i].key,
                  bytes |-> rows[i].bytes, got |-> "pending"]
    /\ UNCHANGED <<rows, store, lastKey, request>>

Fetch ==
    /\ reader.got = "pending"
    /\ reader' = [reader EXCEPT !.got =
                    IF reader.key \in DOMAIN store THEN store[reader.key] ELSE "missing"]
    /\ UNCHANGED <<rows, store, lastKey, request>>

Owner ==
    \/ \E c \in FileContents :
          \/ Export(c)
          \/ \E g \in {0} \cup {rows[i].group : i \in DOMAIN rows} :
                \/ \E type \in {"source", "report"} : Upload(c, type, g)
                \/ /\ g # 0 => \E i \in InGroup(rows, g) : rows[i].type = "report"
                   /\ GenerateFile(c, g)
    \/ \E i \in DOMAIN rows : Delete(i) \/ Reclassify(i)

Server ==
    \/ Put \/ PutFails \/ Write \/ WriteFails \/ Cleanup \/ CleanupFails
    \/ Remove \/ RemoveFails \/ Deactivate \/ DeactivateFails
    \/ Commit \/ CommitFails \/ Crash

StoreNext == Owner \/ Server \/ (\E i \in DOMAIN rows : LookUp(i)) \/ Fetch

StoreSpec == StoreInit /\ [][StoreNext]_storeVars

---------------------------------------------------------------------------
(* What must hold *)

Truthful(row) == row.key \in DOMAIN store => store[row.key] = row.bytes

\* Whatever fails and wherever a request dies, the object of an uploaded or
\* generated file is either missing or exactly the bytes whose checksum its
\* row carries: no retry, revival or clean-up puts other bytes under its key.
FilesKeepTheirBytes ==
    \A i \in DOMAIN rows : rows[i].type # "template" => Truthful(rows[i])

\* Nothing a request does, and no fault, takes the object of a current report
\* away: only source files are ever deleted, and the clean-up after a failed
\* upload removes the object of that upload alone.
ReportsKeepTheirObjects ==
    [][\A i \in DOMAIN rows :
          rows[i].active /\ rows[i].type = "report" /\ rows[i].key \in DOMAIN store
          => rows[i].key \in DOMAIN store']_storeVars

\* A download that races any writer gets the bytes of the row it looked up,
\* or nothing; only a template workbook may change between the two steps.
DownloadsAreOfTheirRow ==
    reader.type # "template" => reader.got \in {reader.bytes, "pending", "missing"}

\* A failed upload or generation has taken back the object it stored
\* (section 6.6 of the backend guide), as long as the process lives to run
\* its exception handler and the bucket lets it delete.
FailureCompensated ==
    request.pc = "failed" /\ request.op \in {"upload", "generate"}
    => request.stored \cap DOMAIN store = {}

\* An export that succeeds repairs what failed ones left: afterwards every
\* workbook is the one its row describes.
ExportRepairs ==
    request.pc = "done" /\ request.op = "export" =>
        \A i \in DOMAIN rows : rows[i].type = "template" =>
            rows[i].key \in DOMAIN store /\ Truthful(rows[i])
=============================================================================

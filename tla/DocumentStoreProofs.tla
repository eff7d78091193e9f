-------------------------- MODULE DocumentStoreProofs --------------------------
(***************************************************************************)
(* Proofs about DocumentStore: whatever fails, a file is what its row      *)
(* tells, a current report keeps its object, and a download gets the bytes *)
(* of the row it looked up, for every set of faults and every bound.       *)
(***************************************************************************)
EXTENDS DocumentStore, SequenceTheorems, TLAPS

\* What the transaction of the request will commit.
Draft == request.table

InFlight == request.pc \in {"put", "write", "remove", "deactivate", "commit"}

\* Every key was drawn, for one row; the groups below zero hold one workbook
\* each, which stays active.
Sound(table) ==
    /\ \A i \in DOMAIN table : table[i].key \in 1 .. lastKey
    /\ \A i, j \in DOMAIN table : table[i].key = table[j].key => i = j
    /\ \A i \in DOMAIN table :
          /\ table[i].type = "template" <=> table[i].group < 0
          /\ table[i].type = "template" => table[i].active /\ table[i].group >= -Workbooks
    /\ \A i, j \in DOMAIN table :
          table[i].group < 0 /\ table[i].group = table[j].group => i = j

\* The draft tells the truth of every file but the one that is about to be put.
DraftTruthful ==
    InFlight => \A i \in DOMAIN Draft :
        Draft[i].type # "template" =>
            IF request.pc = "put" /\ Draft[i].key = request.key
            THEN Draft[i].bytes = request.bytes
            ELSE Truthful(Draft[i])

\* The draft turns no file into a workbook.
KindsKept ==
    InFlight => \A i \in DOMAIN rows, j \in DOMAIN Draft :
        Draft[j].type = "template" /\ rows[i].key = Draft[j].key => rows[i].type = "template"

\* Whose object the request writes or removes.
KeyOfRequest ==
    /\ InFlight => request.key \in 1 .. lastKey
    /\ request.pc = "put" =>
          \A i \in DOMAIN rows : rows[i].type # "template" => rows[i].key # request.key
    /\ request.pc = "cleanup" => request.fresh
    /\ request.fresh /\ request.pc \in {"put", "write", "cleanup"} =>
          \A i \in DOMAIN rows : rows[i].key # request.key
    /\ request.pc = "remove" =>
          \A i \in DOMAIN rows : rows[i].key = request.key => rows[i].type = "source"
    /\ request.pc \in {"remove", "deactivate"} => request.op = "delete"

\* An export keeps the rows there are, and has put the workbooks up to the
\* present one.
ExportGoesOn ==
    request.op = "export" /\ InFlight =>
        /\ request.book \in 1 .. Workbooks
        /\ request.pc = "commit" => request.book = Workbooks
        /\ \A i \in DOMAIN rows :
              i \in DOMAIN Draft /\ Draft[i].key = rows[i].key /\ Draft[i].type = rows[i].type
        /\ \A i \in DOMAIN Draft :
              Draft[i].type = "template" =>
                  /\ request.pc = "put" =>
                        /\ Draft[i].group = -request.book <=> Draft[i].key = request.key
                        /\ Draft[i].key = request.key => Draft[i].bytes = request.bytes
                  /\ \/ Draft[i].group > -request.book
                     \/ request.pc # "put" /\ Draft[i].group = -request.book
                     => Draft[i].key \in DOMAIN store /\ Truthful(Draft[i])

\* The key a download goes for is of no workbook, and still has the bytes.
ReaderSafe ==
    reader.got = "pending" /\ reader.type # "template" =>
        /\ reader.key \in 1 .. lastKey
        /\ reader.key \in DOMAIN store => store[reader.key] = reader.bytes
        /\ request.pc = "put" => request.key # reader.key
        /\ \A i \in DOMAIN rows : rows[i].type = "template" => rows[i].key # reader.key
        /\ InFlight => \A i \in DOMAIN Draft :
              Draft[i].type = "template" => Draft[i].key # reader.key

IInv ==
    /\ StoreTypeOK /\ Sound(rows) /\ (InFlight => Sound(Draft))
    /\ FilesKeepTheirBytes /\ DraftTruthful /\ KeyOfRequest /\ ExportGoesOn
    /\ ExportRepairs /\ ReaderSafe /\ DownloadsAreOfTheirRow /\ KindsKept

---------------------------------------------------------------------------
(* Rows and requests *)

LEMMA RowFacts ==
    ASSUME NEW table \in Seq(FileRows)
    PROVE  /\ Len(table) \in Nat /\ DOMAIN table = 1 .. Len(table)
           /\ \A i \in DOMAIN table :
                 /\ table[i] \in FileRows
                 /\ table[i].type \in Types /\ table[i].group \in Int
                 /\ table[i].active \in BOOLEAN /\ table[i].bytes \in FileContents
                 /\ table[i].key \in Nat
<1>1. Len(table) \in Nat /\ DOMAIN table = 1 .. Len(table)
  OBVIOUS
<1>2. \A i \in DOMAIN table : table[i] \in FileRows
  BY <1>1, ElementOfSeq
<1> QED
  BY <1>1, <1>2 DEF FileRows

LEMMA RequestFacts ==
    ASSUME StoreTypeOK
    PROVE  /\ request \in FileRequests /\ Draft \in Seq(FileRows) /\ request.key \in Nat
           /\ request.bytes \in FileContents /\ request.book \in Nat /\ request.fresh \in BOOLEAN
           /\ rows \in Seq(FileRows) /\ lastKey \in Nat /\ Workbooks \in Nat /\ Workbooks > 0
           /\ reader.bytes \in FileContents
BY StoreAssumption DEF StoreTypeOK, FileRequests, Draft, Readers, StoreAssumption

\* Going on to the next step of a request changes nothing else of it.
LEMMA Goes ==
    ASSUME StoreTypeOK, Goto(request'.pc),
           request'.pc \in {"failed", "done", "cleanup", "deactivate", "commit"}
    PROVE  /\ request' \in FileRequests /\ Draft' = Draft
           /\ request'.op = request.op /\ request'.key = request.key
           /\ request'.bytes = request.bytes /\ request'.book = request.book
           /\ request'.fresh = request.fresh /\ request'.stored = request.stored
<1>1. request \in FileRequests
  BY DEF StoreTypeOK
<1>2. PICK pc : pc = request'.pc
  OBVIOUS
<1>3. request' = [request EXCEPT !.pc = pc]
  BY <1>2 DEF Goto
<1> QED
  BY <1>1, <1>2, <1>3 DEF FileRequests, Draft

\* A row that is not changed in what the invariant looks at.
SameRow(a, b) ==
    a.type = b.type /\ a.group = b.group /\ a.bytes = b.bytes /\ a.key = b.key

LEMMA DeactivatedIs ==
    ASSUME NEW table \in Seq(FileRows), NEW g \in Int
    PROVE  /\ GroupDeactivated(table, g) \in Seq(FileRows)
           /\ Len(GroupDeactivated(table, g)) = Len(table)
           /\ \A i \in DOMAIN table :
                 /\ SameRow(GroupDeactivated(table, g)[i], table[i])
                 /\ table[i].group # g => GroupDeactivated(table, g)[i] = table[i]
<1> DEFINE d == GroupDeactivated(table, g)
<1>1. Len(table) \in Nat /\ DOMAIN table = 1 .. Len(table) /\ \A i \in DOMAIN table : table[i] \in FileRows
  BY RowFacts
<1>2. d = [i \in 1 .. Len(table) |->
              IF table[i].group = g THEN [table[i] EXCEPT !.active = FALSE] ELSE table[i]]
  BY <1>1 DEF GroupDeactivated
<1>3. \A i \in DOMAIN table :
          [table[i] EXCEPT !.active = FALSE] \in FileRows /\ SameRow([table[i] EXCEPT !.active = FALSE], table[i])
  BY <1>1 DEF FileRows, SameRow
<1>4. \A i \in 1 .. Len(table) : d[i] \in FileRows
  BY <1>1, <1>2, <1>3
<1>5. d \in Seq(FileRows) /\ Len(d) = Len(table)
  <2>1. d \in [1 .. Len(table) -> FileRows]
    BY <1>2, <1>4
  <2> QED
    BY <2>1, <1>1
<1>6. \A i \in DOMAIN table : SameRow(d[i], table[i]) /\ (table[i].group # g => d[i] = table[i])
  BY <1>1, <1>2, <1>3 DEF SameRow
<1> QED
  BY <1>5, <1>6

LEMMA NewRow ==
    ASSUME NEW type \in Types, NEW g \in Int, NEW v \in Nat, NEW b \in FileContents, NEW k \in Nat
    PROVE  /\ Row(type, g, v, b, k) \in FileRows
           /\ Row(type, g, v, b, k).type = type /\ Row(type, g, v, b, k).group = g
           /\ Row(type, g, v, b, k).bytes = b /\ Row(type, g, v, b, k).key = k
           /\ Row(type, g, v, b, k).active
BY DEF Row, FileRows

---------------------------------------------------------------------------
(* Uploads and generated reports *)

\* The rows there are, but for which are active, and one new row of the bytes.
NewDraft(table, bytes) ==
    /\ table \in Seq(FileRows)
    /\ \A i \in DOMAIN table :
          \/ /\ table[i].key = lastKey + 1 /\ table[i].bytes = bytes
             /\ table[i].type # "template" /\ table[i].group >= 0
          \/ /\ i \in DOMAIN rows /\ SameRow(table[i], rows[i])
             /\ rows[i].type = "template" => table[i].active
    /\ \A i, j \in DOMAIN table :
          table[i].key = lastKey + 1 /\ table[j].key = lastKey + 1 => i = j

\* A request that puts a new file drafts such a table.
LEMMA PutBegins ==
    ASSUME IInv, StoreIdle, NEW op \in {"upload", "generate"}, NEW bytes \in FileContents,
           NEW table, BeginPut(op, bytes, table), NewDraft(table, bytes)
    PROVE  IInv'
<1>0. /\ table \in Seq(FileRows)
      /\ \A i \in DOMAIN table :
            \/ /\ table[i].key = lastKey + 1 /\ table[i].bytes = bytes
               /\ table[i].type # "template" /\ table[i].group >= 0
            \/ /\ i \in DOMAIN rows /\ SameRow(table[i], rows[i])
               /\ rows[i].type = "template" => table[i].active
      /\ \A i, j \in DOMAIN table :
            table[i].key = lastKey + 1 /\ table[j].key = lastKey + 1 => i = j
  BY DEF NewDraft
<1> DEFINE x == [op |-> op, pc |-> "put", key |-> lastKey + 1, bytes |-> bytes,
                 table |-> table, stored |-> {}, book |-> 0, fresh |-> TRUE]
<1>1. lastKey \in Nat /\ rows \in Seq(FileRows)
  BY RequestFacts DEF IInv
<1>2. /\ x \in FileRequests /\ x.op = op /\ x.pc = "put" /\ x.key = lastKey + 1
      /\ x.bytes = bytes /\ x.table = table /\ x.fresh
  BY <1>0, <1>1 DEF FileRequests
<1> HIDE DEF x
<1>3. request' = x /\ lastKey' = lastKey + 1 /\ UNCHANGED <<rows, store, reader>>
  BY DEF BeginPut, x
<1>4. /\ Draft' = table /\ InFlight' /\ request'.pc = "put" /\ request'.key = lastKey + 1
      /\ request'.bytes = bytes /\ request'.op = op /\ request'.fresh
  BY <1>2, <1>3 DEF Draft, InFlight
<1>5. StoreTypeOK'
  BY <1>1, <1>2, <1>3 DEF IInv, StoreTypeOK
<1>6. \A i \in DOMAIN rows : rows[i].key \in 1 .. lastKey
  BY DEF IInv, Sound
<1>7. Sound(rows)'
  BY <1>1, <1>3, <1>6 DEF IInv, Sound
<1>8. Sound(Draft)'
  <2>1. \A i \in DOMAIN table : table[i].key \in 1 .. lastKey + 1
    BY <1>0, <1>1, <1>6 DEF SameRow
  <2>2. \A i, j \in DOMAIN table : table[i].key = table[j].key => i = j
    BY <1>0, <1>1, <1>6 DEF IInv, Sound, SameRow
  <2>3. \A i \in DOMAIN table :
            /\ table[i].type = "template" <=> table[i].group < 0
            /\ table[i].type = "template" => table[i].active /\ table[i].group >= -Workbooks
    <3> SUFFICES ASSUME NEW i \in DOMAIN table
                 PROVE  /\ table[i].type = "template" <=> table[i].group < 0
                        /\ table[i].type = "template" => table[i].active /\ table[i].group >= -Workbooks
      OBVIOUS
    <3>1. table[i].group \in Int
      BY <1>0, RowFacts
    <3>2. CASE table[i].type # "template" /\ table[i].group >= 0
      BY <3>1, <3>2
    <3>3. CASE i \in DOMAIN rows /\ SameRow(table[i], rows[i]) /\ (rows[i].type = "template" => table[i].active)
      BY <3>3 DEF IInv, Sound, SameRow
    <3> QED
      BY <1>0, <3>2, <3>3
  <2>4. \A i, j \in DOMAIN table : table[i].group < 0 /\ table[i].group = table[j].group => i = j
    <3> SUFFICES ASSUME NEW i \in DOMAIN table, NEW j \in DOMAIN table,
                        table[i].group < 0, table[i].group = table[j].group
                 PROVE  i = j
      OBVIOUS
    <3>1. table[i].group \in Int
      BY <1>0, RowFacts
    <3>2. i \in DOMAIN rows /\ j \in DOMAIN rows /\ SameRow(table[i], rows[i]) /\ SameRow(table[j], rows[j])
      BY <1>0, <3>1
    <3>3. rows[i].group < 0 /\ rows[i].group = rows[j].group
      BY <3>2 DEF SameRow
    <3>4. \A k, l \in DOMAIN rows : rows[k].group < 0 /\ rows[k].group = rows[l].group => k = l
      BY DEF IInv, Sound
    <3> QED
      BY <3>2, <3>3, <3>4
  <2> QED
    BY <2>1, <2>2, <2>3, <2>4, <1>3, <1>4 DEF Sound
<1>9. FilesKeepTheirBytes' /\ DownloadsAreOfTheirRow'
  BY <1>3 DEF IInv, FilesKeepTheirBytes, DownloadsAreOfTheirRow, Truthful
<1>10. DraftTruthful'
  <2> SUFFICES ASSUME NEW i \in DOMAIN table, table[i].type # "template"
               PROVE  IF table[i].key = lastKey + 1 THEN table[i].bytes = bytes ELSE Truthful(table[i])'
    BY <1>4 DEF DraftTruthful
  <2>1. CASE i \in DOMAIN rows /\ SameRow(table[i], rows[i])
    <3>1. Truthful(rows[i]) /\ rows[i].key # lastKey + 1
      BY <2>1, <1>1, <1>6 DEF IInv, FilesKeepTheirBytes, SameRow
    <3> QED
      BY <2>1, <3>1, <1>3 DEF Truthful, SameRow
  <2> QED
    BY <1>0, <2>1
<1>11. KeyOfRequest'
  <2>1. \A i \in DOMAIN rows : rows[i].key # lastKey + 1
    BY <1>1, <1>6
  <2> QED
    BY <2>1, <1>1, <1>3, <1>4 DEF KeyOfRequest
<1>12. ExportGoesOn' /\ ExportRepairs'
  BY <1>4 DEF ExportGoesOn, ExportRepairs
<1>13. ReaderSafe'
  <2> SUFFICES ASSUME reader.got = "pending", reader.type # "template"
               PROVE  /\ reader.key \in 1 .. lastKey + 1
                      /\ reader.key \in DOMAIN store => store[reader.key] = reader.bytes
                      /\ lastKey + 1 # reader.key
                      /\ \A i \in DOMAIN rows : rows[i].type = "template" => rows[i].key # reader.key
                      /\ \A i \in DOMAIN table : table[i].type = "template" => table[i].key # reader.key
    BY <1>3, <1>4 DEF ReaderSafe
  <2>1. /\ reader.key \in 1 .. lastKey
        /\ reader.key \in DOMAIN store => store[reader.key] = reader.bytes
        /\ \A i \in DOMAIN rows : rows[i].type = "template" => rows[i].key # reader.key
    BY DEF IInv, ReaderSafe
  <2>2. \A i \in DOMAIN table : table[i].type = "template" => table[i].key # reader.key
    BY <1>0, <2>1 DEF SameRow
  <2> QED
    BY <2>1, <2>2, <1>1
<1>14. KindsKept'
  <2>1. \A i \in DOMAIN rows, j \in DOMAIN table :
            table[j].type = "template" /\ rows[i].key = table[j].key => rows[i].type = "template"
    BY <1>0 DEF IInv, Sound, SameRow
  <2> QED
    BY <2>1, <1>3, <1>4 DEF KindsKept
<1> QED
  BY <1>4, <1>5, <1>7, <1>8, <1>9, <1>10, <1>11, <1>12, <1>13, <1>14 DEF IInv

\* Deactivating a group above zero and adding a row of it is such a draft.
LEMMA AppendedRow ==
    ASSUME IInv, NEW g \in Nat, NEW type \in {"source", "report"}, NEW v \in Nat, NEW bytes \in FileContents
    PROVE  NewDraft(Append(GroupDeactivated(rows, g), Row(type, g, v, bytes, lastKey + 1)), bytes)
<1> DEFINE d == GroupDeactivated(rows, g)
           new == Row(type, g, v, bytes, lastKey + 1)
           table == Append(d, new)
<1>1. lastKey \in Nat /\ rows \in Seq(FileRows) /\ Len(rows) \in Nat /\ DOMAIN rows = 1 .. Len(rows)
  BY RequestFacts, RowFacts DEF IInv
<1>2. /\ new \in FileRows /\ new.type = type /\ new.group = g /\ new.bytes = bytes /\ new.key = lastKey + 1
  <2>1. type \in Types /\ g \in Int /\ lastKey + 1 \in Nat
    BY <1>1 DEF Types
  <2> QED
    BY <2>1 DEF Row, FileRows
<1>3. /\ d \in Seq(FileRows) /\ Len(d) = Len(rows)
      /\ \A i \in DOMAIN rows : SameRow(d[i], rows[i]) /\ (rows[i].group # g => d[i] = rows[i])
  BY <1>1, DeactivatedIs
<1> HIDE DEF d, new
<1>4. /\ table \in Seq(FileRows) /\ Len(table) = Len(rows) + 1 /\ table[Len(rows) + 1] = new
      /\ \A i \in 1 .. Len(rows) : table[i] = d[i]
  BY <1>2, <1>3, AppendProperties
<1>5. DOMAIN table = DOMAIN rows \cup {Len(rows) + 1}
  BY <1>1, <1>4
<1> HIDE DEF table
<1>6. \A i \in DOMAIN rows : rows[i].type = "template" => d[i].active
  BY <1>3 DEF IInv, Sound
<1>7. \A i \in DOMAIN rows : rows[i].key # lastKey + 1
  BY <1>1 DEF IInv, Sound
<1>8. \A i, j \in DOMAIN table : table[i].key = lastKey + 1 /\ table[j].key = lastKey + 1 => i = j
  BY <1>1, <1>3, <1>4, <1>5, <1>7 DEF SameRow
<1>9. \A i \in DOMAIN table :
          \/ /\ table[i].key = lastKey + 1 /\ table[i].bytes = bytes
             /\ table[i].type # "template" /\ table[i].group >= 0
          \/ /\ i \in DOMAIN rows /\ SameRow(table[i], rows[i])
             /\ rows[i].type = "template" => table[i].active
  BY <1>1, <1>2, <1>3, <1>4, <1>5, <1>6
<1> QED
  BY <1>4, <1>8, <1>9 DEF NewDraft, table, d, new

\* So is writing a row of it over one that is not active.
LEMMA RevivedRow ==
    ASSUME IInv, NEW g \in Int, NEW type \in {"source", "report"}, NEW v \in Nat, NEW bytes \in FileContents,
           NEW k \in DOMAIN rows, ~rows[k].active, g >= 0
    PROVE  NewDraft([GroupDeactivated(rows, g) EXCEPT
                        ![k] = Row(type, rows[k].group, v, bytes, lastKey + 1)], bytes)
<1> DEFINE d == GroupDeactivated(rows, g)
           new == Row(type, rows[k].group, v, bytes, lastKey + 1)
           table == [d EXCEPT ![k] = new]
<1>1. /\ lastKey \in Nat /\ rows \in Seq(FileRows) /\ Len(rows) \in Nat /\ DOMAIN rows = 1 .. Len(rows)
      /\ rows[k].group \in Int
  BY RequestFacts, RowFacts DEF IInv
<1>2. rows[k].group >= 0
  BY <1>1 DEF IInv, Sound
<1>3. /\ new \in FileRows /\ new.type = type /\ new.group = rows[k].group /\ new.bytes = bytes
      /\ new.key = lastKey + 1
  <2>1. type \in Types /\ lastKey + 1 \in Nat
    BY <1>1 DEF Types
  <2> QED
    BY <2>1, <1>1 DEF Row, FileRows
<1>4. /\ d \in Seq(FileRows) /\ Len(d) = Len(rows)
      /\ \A i \in DOMAIN rows : SameRow(d[i], rows[i]) /\ (rows[i].group # g => d[i] = rows[i])
  BY <1>1, DeactivatedIs
<1> HIDE DEF d, new
<1>5. /\ table \in Seq(FileRows) /\ Len(table) = Len(rows)
      /\ \A i \in 1 .. Len(rows) : table[i] = IF i = k THEN new ELSE d[i]
  BY <1>1, <1>3, <1>4, ExceptSeq
<1>6. DOMAIN table = DOMAIN rows
  BY <1>1, <1>5
<1> HIDE DEF table
<1>7. \A i \in DOMAIN rows : rows[i].type = "template" => d[i].active
  BY <1>4 DEF IInv, Sound
<1>8. \A i \in DOMAIN rows : rows[i].key # lastKey + 1
  BY <1>1 DEF IInv, Sound
<1>9. \A i, j \in DOMAIN table : table[i].key = lastKey + 1 /\ table[j].key = lastKey + 1 => i = j
  BY <1>1, <1>4, <1>5, <1>6, <1>8 DEF SameRow
<1>10. \A i \in DOMAIN table :
          \/ /\ table[i].key = lastKey + 1 /\ table[i].bytes = bytes
             /\ table[i].type # "template" /\ table[i].group >= 0
          \/ /\ i \in DOMAIN rows /\ SameRow(table[i], rows[i])
             /\ rows[i].type = "template" => table[i].active
  BY <1>1, <1>2, <1>3, <1>4, <1>5, <1>6, <1>7
<1> QED
  BY <1>5, <1>9, <1>10 DEF NewDraft, table, d, new

LEMMA UploadInv ==
    ASSUME IInv, NEW c \in FileContents, NEW type \in {"source", "report"},
           NEW g \in {0} \cup {rows[i].group : i \in DOMAIN rows}, Upload(c, type, g)
    PROVE  IInv'
<1> DEFINE removed == RemovedRows(c)
           group == IF g # 0 THEN g
                    ELSE IF removed # {} THEN rows[CHOOSE i \in removed : TRUE].group
                    ELSE Len(rows) + 1
<1>1. /\ rows \in Seq(FileRows) /\ Len(rows) \in Nat /\ MaxVersion \in Nat
      /\ \A i \in DOMAIN rows : rows[i].group \in Int
  BY RequestFacts, RowFacts, StoreAssumption DEF IInv, StoreAssumption
<1>2. \A i \in removed : i \in DOMAIN rows /\ ~rows[i].active
  BY DEF RemovedRows
<1>3. group \in Nat
  <2>1. CASE g # 0
    <3>1. PICK i \in InGroup(rows, g) : rows[i].type = type
      BY <2>1 DEF Upload
    <3>2. i \in DOMAIN rows /\ rows[i].group = g /\ rows[i].type # "template"
      BY <3>1 DEF InGroup
    <3> QED
      BY <2>1, <3>2, <1>1 DEF IInv, Sound
  <2>2. CASE g = 0 /\ removed # {}
    <3>1. PICK i : i = CHOOSE j \in removed : TRUE
      OBVIOUS
    <3>2. i \in removed
      BY <3>1, <2>2
    <3> QED
      BY <2>2, <3>1, <3>2, <1>1, <1>2 DEF IInv, Sound
  <2>3. CASE g = 0 /\ removed = {}
    BY <2>3, <1>1
  <2> QED
    BY <2>1, <2>2, <2>3
<1> HIDE DEF group
<1>4. PICK v \in 1 .. MaxVersion :
        IF removed = {}
        THEN BeginPut("upload", c, Append(GroupDeactivated(rows, group), Row(type, group, v, c, lastKey + 1)))
        ELSE \E i \in removed :
                BeginPut("upload", c, [GroupDeactivated(rows, group) EXCEPT
                            ![i] = Row(type, rows[i].group, v, c, lastKey + 1)])
  BY DEF Upload, group
<1>5. v \in Nat /\ StoreIdle
  BY <1>1, <1>4 DEF Upload
<1>6. CASE removed = {}
  <2> DEFINE table == Append(GroupDeactivated(rows, group), Row(type, group, v, c, lastKey + 1))
  <2>1. BeginPut("upload", c, table)
    BY <1>4, <1>6
  <2>2. NewDraft(table, c)
    BY <1>3, <1>5, AppendedRow
  <2> HIDE DEF table
  <2> QED
    BY <2>1, <2>2, <1>5, PutBegins
<1>7. CASE removed # {}
  <2>1. PICK i \in removed :
            BeginPut("upload", c, [GroupDeactivated(rows, group) EXCEPT
                        ![i] = Row(type, rows[i].group, v, c, lastKey + 1)])
    BY <1>4, <1>7
  <2> DEFINE table == [GroupDeactivated(rows, group) EXCEPT
                          ![i] = Row(type, rows[i].group, v, c, lastKey + 1)]
  <2>2. BeginPut("upload", c, table)
    BY <2>1
  <2>3. NewDraft(table, c)
    <3>1. i \in DOMAIN rows /\ ~rows[i].active /\ group \in Int /\ group >= 0 /\ v \in Nat
      BY <1>2, <1>3, <1>5
    <3> QED
      BY <3>1, RevivedRow
  <2> HIDE DEF table
  <2> QED
    BY <2>2, <2>3, <1>5, PutBegins
<1> QED
  BY <1>6, <1>7

LEMMA GenerateInv ==
    ASSUME IInv, NEW c \in FileContents, NEW g \in {0} \cup {rows[i].group : i \in DOMAIN rows},
           g # 0 => \E i \in InGroup(rows, g) : rows[i].type = "report", GenerateFile(c, g)
    PROVE  IInv'
<1> DEFINE group == IF g = 0 THEN Len(rows) + 1 ELSE g
<1>1. /\ rows \in Seq(FileRows) /\ Len(rows) \in Nat /\ MaxVersion \in Nat
      /\ \A i \in DOMAIN rows : rows[i].group \in Int
  BY RequestFacts, RowFacts, StoreAssumption DEF IInv, StoreAssumption
<1>2. group \in Nat
  <2>1. CASE g # 0
    <3>1. PICK i \in DOMAIN rows : rows[i].group = g /\ rows[i].type = "report"
      BY <2>1 DEF InGroup
    <3> QED
      BY <2>1, <3>1, <1>1 DEF IInv, Sound
  <2> QED
    BY <2>1, <1>1
<1> HIDE DEF group
<1>3. PICK v \in 1 .. MaxVersion :
        BeginPut("generate", c, Append(GroupDeactivated(rows, group), Row("report", group, v, c, lastKey + 1)))
  BY DEF GenerateFile, group
<1>4. v \in Nat /\ StoreIdle
  BY <1>1, <1>3 DEF GenerateFile
<1> DEFINE table == Append(GroupDeactivated(rows, group), Row("report", group, v, c, lastKey + 1))
<1>5. BeginPut("generate", c, table)
  BY <1>3
<1>6. NewDraft(table, c)
  BY <1>2, <1>4, AppendedRow
<1> HIDE DEF table
<1> QED
  BY <1>4, <1>5, <1>6, PutBegins

---------------------------------------------------------------------------
(* Exports *)

\* Writing over the row a workbook has.
Overwritten(table, old, bytes) ==
    [i \in DOMAIN table |->
        IF i \in old THEN [table[i] EXCEPT !.bytes = bytes, !.active = TRUE] ELSE table[i]]

LEMMA OverwrittenIs ==
    ASSUME NEW table \in Seq(FileRows), NEW old, NEW bytes \in FileContents
    PROVE  /\ Overwritten(table, old, bytes) \in Seq(FileRows)
           /\ DOMAIN Overwritten(table, old, bytes) = DOMAIN table
           /\ \A i \in DOMAIN table :
                 /\ Overwritten(table, old, bytes)[i].type = table[i].type
                 /\ Overwritten(table, old, bytes)[i].group = table[i].group
                 /\ Overwritten(table, old, bytes)[i].key = table[i].key
                 /\ i \notin old => Overwritten(table, old, bytes)[i] = table[i]
                 /\ i \in old => /\ Overwritten(table, old, bytes)[i].active
                                /\ Overwritten(table, old, bytes)[i].bytes = bytes
<1> DEFINE t == Overwritten(table, old, bytes)
<1>1. Len(table) \in Nat /\ DOMAIN table = 1 .. Len(table) /\ \A i \in DOMAIN table : table[i] \in FileRows
  BY RowFacts
<1>2. \A i \in DOMAIN table :
          /\ [table[i] EXCEPT !.bytes = bytes, !.active = TRUE] \in FileRows
          /\ [table[i] EXCEPT !.bytes = bytes, !.active = TRUE].type = table[i].type
          /\ [table[i] EXCEPT !.bytes = bytes, !.active = TRUE].group = table[i].group
          /\ [table[i] EXCEPT !.bytes = bytes, !.active = TRUE].key = table[i].key
          /\ [table[i] EXCEPT !.bytes = bytes, !.active = TRUE].bytes = bytes
          /\ [table[i] EXCEPT !.bytes = bytes, !.active = TRUE].active
  BY <1>1 DEF FileRows
<1>3. t = [i \in 1 .. Len(table) |->
              IF i \in old THEN [table[i] EXCEPT !.bytes = bytes, !.active = TRUE] ELSE table[i]]
  BY <1>1 DEF Overwritten
<1> HIDE DEF t
<1>4. \A i \in 1 .. Len(table) : t[i] \in FileRows
  BY <1>1, <1>2, <1>3
<1>5. t \in Seq(FileRows) /\ DOMAIN t = DOMAIN table
  <2>1. t \in [1 .. Len(table) -> FileRows]
    BY <1>3, <1>4
  <2> QED
    BY <2>1, <1>1
<1>6. \A i \in DOMAIN table :
          /\ t[i].type = table[i].type /\ t[i].group = table[i].group /\ t[i].key = table[i].key
          /\ i \notin old => t[i] = table[i]
          /\ i \in old => t[i].active /\ t[i].bytes = bytes
  BY <1>1, <1>2, <1>3
<1> QED
  BY <1>5, <1>6 DEF t

\* What the table an export drafts has: the rows of the table before, and the
\* row of the workbook.
BookDraft(table, t, book, bytes, key) ==
    /\ t \in Seq(FileRows)
    /\ \A i \in DOMAIN table :
          /\ i \in DOMAIN t /\ t[i].key = table[i].key /\ t[i].type = table[i].type
          /\ t[i].group = table[i].group
    /\ \A i \in DOMAIN t :
          \/ /\ i \in DOMAIN table /\ t[i] = table[i] /\ t[i].group # -book /\ t[i].key # key
          \/ /\ t[i].group = -book /\ t[i].key = key /\ t[i].bytes = bytes
             /\ t[i].type = "template" /\ t[i].active
    /\ \A i, j \in DOMAIN t : t[i].group = -book /\ t[j].group = -book => i = j

LEMMA DraftsBook ==
    ASSUME StoreTypeOK, NEW table \in Seq(FileRows), Sound(table), NEW book \in 1 .. Workbooks,
           NEW bytes \in FileContents, NEW stored \in SUBSET Nat,
           Workbook(table, book, bytes, stored)
    PROVE  /\ request' \in FileRequests /\ request'.op = "export" /\ request'.pc = "put"
           /\ request'.bytes = bytes /\ request'.book = book
           /\ BookDraft(table, Draft', book, bytes, request'.key)
           /\ \/ request'.fresh /\ request'.key = lastKey + 1 /\ lastKey' = lastKey + 1
              \/ /\ ~request'.fresh /\ lastKey' = lastKey
                 /\ \E i \in DOMAIN table : table[i].type = "template" /\ table[i].key = request'.key
           /\ UNCHANGED <<rows, store, reader>>
<1> DEFINE old == InGroup(table, -book)
           key == IF old = {} THEN lastKey + 1 ELSE table[CHOOSE i \in old : TRUE].key
           t == IF old = {}
                THEN Append(table, Row("template", -book, 1, bytes, lastKey + 1))
                ELSE [i \in DOMAIN table |->
                        IF i \in old
                        THEN [table[i] EXCEPT !.bytes = bytes, !.active = TRUE]
                        ELSE table[i]]
           new == [op |-> "export", pc |-> "put", bytes |-> bytes, stored |-> stored,
                   book |-> book, fresh |-> old = {}, key |-> key, table |-> t]
<1>1. /\ request' = new /\ lastKey' = IF old = {} THEN lastKey + 1 ELSE lastKey
      /\ UNCHANGED <<rows, store, reader>>
  BY DEF Workbook
<1>2. /\ lastKey \in Nat /\ Workbooks \in Nat /\ book \in Nat /\ book > 0
      /\ Len(table) \in Nat /\ DOMAIN table = 1 .. Len(table)
      /\ \A i \in DOMAIN table :
            /\ table[i].key \in 1 .. lastKey /\ table[i].group \in Int
            /\ table[i].type = "template" <=> table[i].group < 0
  BY RequestFacts, RowFacts DEF Sound
<1>3. old \subseteq DOMAIN table /\ \A i \in DOMAIN table : i \in old <=> table[i].group = -book
  BY DEF InGroup
<1> HIDE DEF old
<1>4. key \in Nat /\ BookDraft(table, t, book, bytes, key)
  <2>1. CASE old = {}
    <3> DEFINE row == Row("template", -book, 1, bytes, lastKey + 1)
    <3>1. row \in FileRows
      BY <1>2 DEF Row, FileRows, Types
    <3>2. /\ row.type = "template" /\ row.group = -book /\ row.bytes = bytes
          /\ row.key = lastKey + 1 /\ row.active
      BY DEF Row
    <3> HIDE DEF row
    <3>3. t = Append(table, row) /\ key = lastKey + 1
      BY <2>1 DEF row
    <3> HIDE DEF t, key
    <3>4. /\ t \in Seq(FileRows) /\ Len(t) = Len(table) + 1 /\ t[Len(table) + 1] = row
          /\ \A i \in 1 .. Len(table) : t[i] = table[i]
      BY <3>1, <3>3, AppendProperties
    <3>5. DOMAIN t = DOMAIN table \cup {Len(table) + 1} /\ Len(table) + 1 \notin DOMAIN table
      BY <1>2, <3>4
    <3>6. \A i \in DOMAIN table : table[i].group # -book /\ table[i].key # lastKey + 1
      BY <2>1, <1>2, <1>3
    <3>7. \A i \in DOMAIN table :
              /\ i \in DOMAIN t /\ t[i].key = table[i].key /\ t[i].type = table[i].type
              /\ t[i].group = table[i].group
      BY <1>2, <3>4, <3>5
    <3>8. \A i \in DOMAIN t :
              \/ /\ i \in DOMAIN table /\ t[i] = table[i] /\ t[i].group # -book /\ t[i].key # key
              \/ /\ t[i].group = -book /\ t[i].key = key /\ t[i].bytes = bytes
                 /\ t[i].type = "template" /\ t[i].active
      BY <1>2, <3>2, <3>3, <3>4, <3>5, <3>6
    <3>9. \A i, j \in DOMAIN t : t[i].group = -book /\ t[j].group = -book => i = j
      BY <1>2, <3>4, <3>5, <3>6
    <3> QED
      BY <1>2, <3>3, <3>4, <3>7, <3>8, <3>9 DEF BookDraft
  <2>2. CASE old # {}
    <3>1. PICK i0 : i0 = CHOOSE i \in old : TRUE
      OBVIOUS
    <3>2. i0 \in old /\ i0 \in DOMAIN table /\ table[i0].group = -book
      BY <2>2, <3>1, <1>3
    <3>3. key = table[i0].key
      BY <2>2, <3>1
    <3>4. \A i \in DOMAIN table : i \in old <=> i = i0
      <4>1. \A i \in DOMAIN table : table[i].group = -book => i = i0
        BY <1>2, <3>2 DEF Sound
      <4> QED
        BY <4>1, <3>2, <1>3
    <3>5. \A i \in DOMAIN table : table[i].key = key => i = i0
      BY <3>2, <3>3 DEF Sound
    <3>6. t = Overwritten(table, old, bytes)
      BY <2>2 DEF Overwritten
    <3> HIDE DEF t, key
    <3>7. /\ t \in Seq(FileRows) /\ DOMAIN t = DOMAIN table
          /\ \A i \in DOMAIN table :
                /\ t[i].type = table[i].type /\ t[i].group = table[i].group
                /\ t[i].key = table[i].key
                /\ i \notin old => t[i] = table[i]
                /\ i \in old => t[i].active /\ t[i].bytes = bytes
      BY <3>6, OverwrittenIs
    <3>8. table[i0].type = "template" /\ key \in Nat
      BY <1>2, <3>2, <3>3
    <3>9. \A i \in DOMAIN t :
              \/ /\ i \in DOMAIN table /\ t[i] = table[i] /\ t[i].group # -book /\ t[i].key # key
              \/ /\ t[i].group = -book /\ t[i].key = key /\ t[i].bytes = bytes
                 /\ t[i].type = "template" /\ t[i].active
      <4> SUFFICES ASSUME NEW i \in DOMAIN t
                   PROVE  \/ /\ i \in DOMAIN table /\ t[i] = table[i] /\ t[i].group # -book
                             /\ t[i].key # key
                          \/ /\ t[i].group = -book /\ t[i].key = key /\ t[i].bytes = bytes
                             /\ t[i].type = "template" /\ t[i].active
        OBVIOUS
      <4>1. CASE i = i0
        BY <4>1, <3>2, <3>3, <3>7, <3>8
      <4>2. CASE i # i0
        BY <4>2, <1>3, <3>4, <3>5, <3>7
      <4> QED
        BY <4>1, <4>2
    <3>10. \A i, j \in DOMAIN t : t[i].group = -book /\ t[j].group = -book => i = j
      BY <1>3, <3>4, <3>7
    <3>11. \A i \in DOMAIN table :
              /\ i \in DOMAIN t /\ t[i].key = table[i].key /\ t[i].type = table[i].type
              /\ t[i].group = table[i].group
      BY <3>7
    <3> QED
      BY <3>7, <3>8, <3>9, <3>10, <3>11 DEF BookDraft
  <2> QED
    BY <2>1, <2>2
<1>5. \/ old = {} /\ key = lastKey + 1
      \/ /\ old # {}
         /\ \E i \in DOMAIN table : table[i].type = "template" /\ table[i].key = key
  <2>1. CASE old # {}
    <3>1. PICK i0 : i0 = CHOOSE i \in old : TRUE
      OBVIOUS
    <3>2. i0 \in DOMAIN table /\ table[i0].group = -book
      BY <2>1, <3>1, <1>3
    <3>3. key = table[i0].key
      BY <2>1, <3>1
    <3>4. table[i0].type = "template"
      BY <1>2, <3>2
    <3> QED
      BY <2>1, <3>2, <3>3, <3>4
  <2> QED
    BY <2>1
<1>6. t \in Seq(FileRows)
  BY <1>4 DEF BookDraft
<1> HIDE DEF t, key
<1>7. /\ new \in FileRequests /\ new.op = "export" /\ new.pc = "put" /\ new.bytes = bytes
      /\ new.book = book /\ new.key = key /\ new.table = t /\ new.fresh = (old = {})
  BY <1>2, <1>4, <1>6 DEF FileRequests
<1> HIDE DEF new
<1>8. Draft' = t
  BY <1>1, <1>7 DEF Draft
<1> QED
  BY <1>1, <1>4, <1>5, <1>7, <1>8

\* An export goes on to its next workbook from a table that keeps the rows
\* there are and has the workbooks before it.
LEMMA WorkbookInv ==
    ASSUME IInv, NEW table \in Seq(FileRows), Sound(table), NEW book \in 1 .. Workbooks,
           NEW bytes \in FileContents, NEW stored \in SUBSET Nat,
           Workbook(table, book, bytes, stored),
           \A i \in DOMAIN rows :
              i \in DOMAIN table /\ table[i].key = rows[i].key /\ table[i].type = rows[i].type,
           \A i \in DOMAIN table : table[i].type # "template" => Truthful(table[i]),
           \A i \in DOMAIN table :
              table[i].type = "template" /\ table[i].group > -book =>
                 table[i].key \in DOMAIN store /\ Truthful(table[i]),
           reader.got = "pending" /\ reader.type # "template" =>
              \A i \in DOMAIN table : table[i].type = "template" => table[i].key # reader.key
    PROVE  IInv'
<1> DEFINE t == Draft'
           key == request'.key
<1>1. /\ request' \in FileRequests /\ request'.op = "export" /\ request'.pc = "put"
      /\ request'.bytes = bytes /\ request'.book = book
      /\ BookDraft(table, t, book, bytes, key)
      /\ \/ request'.fresh /\ key = lastKey + 1 /\ lastKey' = lastKey + 1
         \/ /\ ~request'.fresh /\ lastKey' = lastKey
            /\ \E i \in DOMAIN table : table[i].type = "template" /\ table[i].key = key
      /\ UNCHANGED <<rows, store, reader>>
  <2>1. StoreTypeOK
    BY DEF IInv
  <2> QED
    BY <2>1, DraftsBook
<1>2. /\ t \in Seq(FileRows)
      /\ \A i \in DOMAIN table :
            /\ i \in DOMAIN t /\ t[i].key = table[i].key /\ t[i].type = table[i].type
            /\ t[i].group = table[i].group
      /\ \A i \in DOMAIN t :
            \/ /\ i \in DOMAIN table /\ t[i] = table[i] /\ t[i].group # -book /\ t[i].key # key
            \/ /\ t[i].group = -book /\ t[i].key = key /\ t[i].bytes = bytes
               /\ t[i].type = "template" /\ t[i].active
      /\ \A i, j \in DOMAIN t : t[i].group = -book /\ t[j].group = -book => i = j
  BY <1>1 DEF BookDraft
<1> HIDE DEF t, key
<1>3. /\ lastKey \in Nat /\ lastKey' \in Nat /\ lastKey <= lastKey' /\ Workbooks \in Nat
      /\ book \in Nat /\ book > 0 /\ book <= Workbooks
      /\ \A i \in DOMAIN table : table[i].key \in 1 .. lastKey
      /\ \A i \in DOMAIN rows : rows[i].key \in 1 .. lastKey
      /\ key \in 1 .. lastKey'
  <2>1. lastKey \in Nat /\ Workbooks \in Nat
    BY RequestFacts DEF IInv
  <2>2. \A i \in DOMAIN table : table[i].key \in 1 .. lastKey
    BY DEF Sound
  <2>3. \A i \in DOMAIN rows : rows[i].key \in 1 .. lastKey
    BY DEF IInv, Sound
  <2> QED
    BY <2>1, <2>2, <2>3, <1>1
<1>4. StoreTypeOK'
  BY <1>1, <1>3 DEF IInv, StoreTypeOK
<1>5. Sound(rows)'
  BY <1>1, <1>3 DEF IInv, Sound
<1>6. Sound(Draft)'
  <2>1. \A i \in DOMAIN t : t[i].key \in 1 .. lastKey'
    BY <1>2, <1>3
  <2>2. \A i, j \in DOMAIN t : t[i].key = t[j].key => i = j
    BY <1>2 DEF Sound
  <2>3. \A i \in DOMAIN t :
            /\ t[i].type = "template" <=> t[i].group < 0
            /\ t[i].type = "template" => t[i].active /\ t[i].group >= -Workbooks
    BY <1>2, <1>3 DEF Sound
  <2>4. \A i, j \in DOMAIN t : t[i].group < 0 /\ t[i].group = t[j].group => i = j
    BY <1>2 DEF Sound
  <2> QED
    BY <2>1, <2>2, <2>3, <2>4 DEF Sound, t
<1>7. FilesKeepTheirBytes' /\ DownloadsAreOfTheirRow'
  BY <1>1 DEF IInv, FilesKeepTheirBytes, DownloadsAreOfTheirRow, Truthful
<1>8. DraftTruthful'
  <2>1. \A i \in DOMAIN t :
            t[i].type # "template" =>
                t[i].key # key /\ (t[i].key \in DOMAIN store => store[t[i].key] = t[i].bytes)
    BY <1>2 DEF Truthful
  <2> QED
    BY <2>1, <1>1 DEF DraftTruthful, Truthful, t, key
<1>9. KeyOfRequest'
  <2>1. \A i \in DOMAIN rows : rows[i].type # "template" => rows[i].key # key
    <3>1. \A i, j \in DOMAIN table : table[i].key = table[j].key => i = j
      BY DEF Sound
    <3> QED
      BY <3>1, <1>1, <1>3
  <2>2. request'.fresh => \A i \in DOMAIN rows : rows[i].key # key
    BY <1>1, <1>3
  <2> QED
    BY <2>1, <2>2, <1>1, <1>3 DEF KeyOfRequest, InFlight, key
<1>10. ExportGoesOn'
  <2>1. \A i \in DOMAIN rows :
            i \in DOMAIN t /\ t[i].key = rows[i].key /\ t[i].type = rows[i].type
    BY <1>2
  <2>2. \A i \in DOMAIN t :
            t[i].type = "template" =>
                /\ t[i].group = -book <=> t[i].key = key
                /\ t[i].key = key => t[i].bytes = bytes
                /\ t[i].group > -book => t[i].key \in DOMAIN store /\ store[t[i].key] = t[i].bytes
    <3>1. \A i \in DOMAIN t : t[i].group = -book => ~(t[i].group > -book)
      BY <1>3
    <3> QED
      BY <1>2, <3>1 DEF Truthful
  <2> QED
    BY <2>1, <2>2, <1>1 DEF ExportGoesOn, Truthful, t, key
<1>11. ExportRepairs'
  BY <1>1 DEF ExportRepairs
<1>12. ReaderSafe'
  <2> SUFFICES ASSUME reader.got = "pending", reader.type # "template"
               PROVE  /\ reader.key \in 1 .. lastKey'
                      /\ reader.key \in DOMAIN store => store[reader.key] = reader.bytes
                      /\ key # reader.key
                      /\ \A i \in DOMAIN rows : rows[i].type = "template" => rows[i].key # reader.key
                      /\ \A i \in DOMAIN t : t[i].type = "template" => t[i].key # reader.key
    BY <1>1 DEF ReaderSafe, t, key
  <2>1. /\ reader.key \in 1 .. lastKey
        /\ reader.key \in DOMAIN store => store[reader.key] = reader.bytes
        /\ \A i \in DOMAIN rows : rows[i].type = "template" => rows[i].key # reader.key
    BY DEF IInv, ReaderSafe
  <2>2. key # reader.key
    BY <2>1, <1>1, <1>3
  <2>3. \A i \in DOMAIN t : t[i].type = "template" => t[i].key # reader.key
    BY <2>2, <1>2
  <2> QED
    BY <2>1, <2>2, <2>3, <1>3
<1>13. KindsKept'
  <2>1. \A i, j \in DOMAIN table : table[i].key = table[j].key => i = j
    BY DEF Sound
  <2>2. \A i \in DOMAIN rows, j \in DOMAIN t :
            t[j].type = "template" /\ rows[i].key = t[j].key => rows[i].type = "template"
    <3> SUFFICES ASSUME NEW i \in DOMAIN rows, NEW j \in DOMAIN t,
                        t[j].type = "template", rows[i].key = t[j].key
                 PROVE  rows[i].type = "template"
      OBVIOUS
    <3>1. i \in DOMAIN table /\ table[i].key = rows[i].key /\ table[i].type = rows[i].type
      OBVIOUS
    <3>2. CASE j \in DOMAIN table /\ t[j] = table[j]
      BY <2>1, <3>1, <3>2
    <3>3. CASE t[j].key = key
      BY <2>1, <3>1, <3>3, <1>1, <1>3
    <3> QED
      BY <3>2, <3>3, <1>2
  <2> QED
    BY <2>2, <1>1 DEF KindsKept, t
<1> QED
  BY <1>4, <1>5, <1>6, <1>7, <1>8, <1>9, <1>10, <1>11, <1>12, <1>13 DEF IInv

LEMMA ExportInv ==
    ASSUME IInv, NEW c \in FileContents, Export(c)
    PROVE  IInv'
<1>1. rows \in Seq(FileRows) /\ Sound(rows) /\ Workbooks \in Nat /\ 1 \in 1 .. Workbooks
  BY RequestFacts DEF IInv
<1>2. Workbook(rows, 1, c, {})
  BY DEF Export
<1>3. \A i \in DOMAIN rows : rows[i].type # "template" => Truthful(rows[i])
  BY DEF IInv, FilesKeepTheirBytes
<1>4. \A i \in DOMAIN rows : ~(rows[i].type = "template" /\ rows[i].group > -1)
  <2>1. \A i \in DOMAIN rows : rows[i].group \in Int
    BY <1>1, RowFacts
  <2> QED
    BY <1>1, <2>1 DEF Sound
<1>5. reader.got = "pending" /\ reader.type # "template" =>
          \A i \in DOMAIN rows : rows[i].type = "template" => rows[i].key # reader.key
  BY DEF IInv, ReaderSafe
<1> QED
  BY <1>1, <1>2, <1>3, <1>4, <1>5, WorkbookInv

\* The next workbook of an export under way.
LEMMA NextWorkbook ==
    ASSUME IInv, request.pc = "write", request.op = "export", request.book < Workbooks,
           Workbook(request.table, request.book + 1, request.bytes, request.stored)
    PROVE  IInv'
<1>1. InFlight
  BY DEF InFlight
<1>2. /\ Draft \in Seq(FileRows) /\ Sound(Draft) /\ Workbooks \in Nat /\ request.book \in Nat
      /\ request.book + 1 \in 1 .. Workbooks /\ request.bytes \in FileContents
      /\ request.stored \in SUBSET Nat
  BY <1>1, RequestFacts DEF IInv, StoreTypeOK, FileRequests
<1>3. Workbook(Draft, request.book + 1, request.bytes, request.stored)
  BY DEF Draft
<1>4. \A i \in DOMAIN rows :
          i \in DOMAIN Draft /\ Draft[i].key = rows[i].key /\ Draft[i].type = rows[i].type
  BY <1>1 DEF IInv, ExportGoesOn
<1>5. \A i \in DOMAIN Draft : Draft[i].type # "template" => Truthful(Draft[i])
  BY <1>1 DEF IInv, DraftTruthful
<1>6. \A i \in DOMAIN Draft :
          Draft[i].type = "template" /\ Draft[i].group > -(request.book + 1) =>
             Draft[i].key \in DOMAIN store /\ Truthful(Draft[i])
  <2>1. \A i \in DOMAIN Draft :
            Draft[i].type = "template"
            /\ (Draft[i].group > -request.book \/ Draft[i].group = -request.book) =>
               Draft[i].key \in DOMAIN store /\ Truthful(Draft[i])
    BY <1>1 DEF IInv, ExportGoesOn
  <2>2. \A i \in DOMAIN Draft : Draft[i].group \in Int
    BY <1>2, RowFacts
  <2> QED
    BY <1>2, <2>1, <2>2
<1>7. reader.got = "pending" /\ reader.type # "template" =>
          \A i \in DOMAIN Draft : Draft[i].type = "template" => Draft[i].key # reader.key
  BY <1>1 DEF IInv, ReaderSafe
<1> HIDE DEF Draft
<1> QED
  BY <1>2, <1>3, <1>4, <1>5, <1>6, <1>7, WorkbookInv

---------------------------------------------------------------------------
(* Deletions and changes of the category *)

LEMMA DeleteInv ==
    ASSUME IInv, NEW i \in DOMAIN rows, Delete(i) \/ Reclassify(i)
    PROVE  IInv'
<1> DEFINE row == IF Delete(i) THEN [rows[i] EXCEPT !.active = FALSE]
                  ELSE [rows[i] EXCEPT !.type = "report"]
           t == [rows EXCEPT ![i] = row]
           new == [op |-> IF Delete(i) THEN "delete" ELSE "reclassify",
                   pc |-> IF Delete(i) THEN "remove" ELSE "commit", key |-> rows[i].key,
                   bytes |-> rows[i].bytes, stored |-> {}, book |-> 0, fresh |-> FALSE,
                   table |-> t]
<1>1. request' = new /\ UNCHANGED <<rows, store, lastKey, reader>>
  BY DEF Delete, Reclassify
<1>2. StoreIdle /\ rows[i].type = "source"
  BY DEF Delete, Reclassify, Deletable
<1>3. /\ rows \in Seq(FileRows) /\ Len(rows) \in Nat /\ DOMAIN rows = 1 .. Len(rows)
      /\ \A j \in DOMAIN rows :
            rows[j] \in FileRows /\ rows[j].key \in Nat /\ rows[j].bytes \in FileContents /\ rows[j].group \in Int
      /\ lastKey \in Nat
  BY RequestFacts, RowFacts DEF IInv
<1>4. /\ row \in FileRows /\ row.group = rows[i].group /\ row.bytes = rows[i].bytes
      /\ row.key = rows[i].key /\ row.type # "template"
  BY <1>2, <1>3 DEF FileRows, Types
<1> HIDE DEF row
<1>5. /\ t \in Seq(FileRows) /\ Len(t) = Len(rows)
      /\ \A j \in 1 .. Len(rows) : t[j] = IF j = i THEN row ELSE rows[j]
  BY <1>3, <1>4, ExceptSeq
<1>6. DOMAIN t = DOMAIN rows
  BY <1>3, <1>5
<1> HIDE DEF t
<1>7. \A j \in DOMAIN rows :
          /\ t[j].group = rows[j].group /\ t[j].key = rows[j].key /\ t[j].bytes = rows[j].bytes
          /\ t[j].type = "template" <=> rows[j].type = "template"
          /\ rows[j].type = "template" => t[j] = rows[j]
  BY <1>2, <1>3, <1>4, <1>5
<1>8. /\ new \in FileRequests /\ new.op \in {"delete", "reclassify"} /\ new.pc \in {"remove", "commit"}
      /\ new.pc = "remove" => new.op = "delete"
      /\ new.key = rows[i].key /\ new.table = t /\ ~new.fresh
  BY <1>3, <1>5 DEF FileRequests
<1> HIDE DEF new
<1>9. Draft' = t /\ InFlight'
  BY <1>1, <1>8 DEF Draft, InFlight
<1>10. StoreTypeOK'
  BY <1>1, <1>8 DEF IInv, StoreTypeOK
<1>11. Sound(rows)' /\ FilesKeepTheirBytes' /\ DownloadsAreOfTheirRow'
  BY <1>1 DEF IInv, Sound, FilesKeepTheirBytes, DownloadsAreOfTheirRow, Truthful
<1>12. Sound(Draft)'
  <2>1. \A j \in DOMAIN t : t[j].key \in 1 .. lastKey
    BY <1>6, <1>7 DEF IInv, Sound
  <2>2. \A j, k \in DOMAIN t : t[j].key = t[k].key => j = k
    BY <1>6, <1>7 DEF IInv, Sound
  <2>3. \A j \in DOMAIN t :
            /\ t[j].type = "template" <=> t[j].group < 0
            /\ t[j].type = "template" => t[j].active /\ t[j].group >= -Workbooks
    BY <1>6, <1>7 DEF IInv, Sound
  <2>4. \A j, k \in DOMAIN t : t[j].group < 0 /\ t[j].group = t[k].group => j = k
    BY <1>6, <1>7 DEF IInv, Sound
  <2> QED
    BY <2>1, <2>2, <2>3, <2>4, <1>1, <1>9 DEF Sound
<1>13. DraftTruthful'
  <2>1. \A j \in DOMAIN t :
            t[j].type # "template" => (t[j].key \in DOMAIN store => store[t[j].key] = t[j].bytes)
    BY <1>6, <1>7 DEF IInv, FilesKeepTheirBytes, Truthful
  <2>2. request'.pc # "put"
    BY <1>1, <1>8
  <2> QED
    BY <2>1, <2>2, <1>1, <1>9 DEF DraftTruthful, Truthful
<1>14. KeyOfRequest'
  <2>1. \A j \in DOMAIN rows : rows[j].key = rows[i].key => rows[j].type = "source"
    BY <1>2 DEF IInv, Sound
  <2>2. rows[i].key \in 1 .. lastKey
    BY DEF IInv, Sound
  <2> QED
    BY <2>1, <2>2, <1>1, <1>8 DEF KeyOfRequest
<1>15. ExportGoesOn' /\ ExportRepairs'
  BY <1>1, <1>8 DEF ExportGoesOn, ExportRepairs
<1>16. ReaderSafe'
  <2>1. request'.pc # "put"
    BY <1>1, <1>8
  <2> QED
    BY <2>1, <1>1, <1>6, <1>7, <1>9 DEF IInv, ReaderSafe
<1>17. KindsKept'
  BY <1>1, <1>6, <1>7, <1>9 DEF IInv, Sound, KindsKept
<1> QED
  BY <1>9, <1>10, <1>11, <1>12, <1>13, <1>14, <1>15, <1>16, <1>17 DEF IInv

---------------------------------------------------------------------------
(* The steps of a request *)

LEMMA PutInv ==
    ASSUME IInv, Put
    PROVE  IInv'
<1> DEFINE new == [request EXCEPT !.pc = "write",
                       !.stored = IF request.fresh THEN @ \cup {request.key} ELSE @]
<1>1. /\ request.pc = "put" /\ store' = With(request.key, request.bytes)
      /\ request' = new /\ UNCHANGED <<rows, lastKey, reader>>
  BY DEF Put
<1>2. /\ request \in FileRequests /\ request.key \in Nat /\ request.bytes \in FileContents
      /\ lastKey \in Nat /\ InFlight
  BY <1>1, RequestFacts DEF IInv, InFlight
<1>3. /\ new \in FileRequests /\ new.pc = "write" /\ new.op = request.op /\ new.key = request.key
      /\ new.bytes = request.bytes /\ new.table = request.table /\ new.book = request.book
      /\ new.fresh = request.fresh
  BY <1>2 DEF FileRequests
<1> HIDE DEF new
<1>4. Draft' = Draft /\ InFlight'
  BY <1>1, <1>3 DEF Draft, InFlight
<1>5. /\ DOMAIN store' = DOMAIN store \cup {request.key}
      /\ \A k \in DOMAIN store' : store'[k] = IF k = request.key THEN request.bytes ELSE store[k]
  BY <1>1 DEF With
<1>6. StoreTypeOK'
  BY <1>1, <1>2, <1>3, <1>5 DEF IInv, StoreTypeOK, KeyOfRequest
<1>7. Sound(rows)' /\ Sound(Draft)'
  BY <1>1, <1>2, <1>4 DEF IInv, Sound
<1>8. FilesKeepTheirBytes'
  BY <1>1, <1>5 DEF IInv, FilesKeepTheirBytes, Truthful, KeyOfRequest
<1>9. DraftTruthful'
  <2>1. \A i \in DOMAIN Draft :
            Draft[i].type # "template" =>
                (Draft[i].key \in DOMAIN store' => store'[Draft[i].key] = Draft[i].bytes)
    BY <1>1, <1>2, <1>5 DEF IInv, DraftTruthful, Truthful
  <2> QED
    BY <2>1, <1>1, <1>3, <1>4 DEF DraftTruthful, Truthful
<1>10. KeyOfRequest'
  BY <1>1, <1>2, <1>3, <1>4 DEF IInv, KeyOfRequest
<1>11. ExportGoesOn'
  <2>1. request.op = "export" =>
            /\ request.book \in 1 .. Workbooks
            /\ \A i \in DOMAIN rows :
                  i \in DOMAIN Draft /\ Draft[i].key = rows[i].key /\ Draft[i].type = rows[i].type
            /\ \A i \in DOMAIN Draft :
                  /\ Draft[i].type = "template"
                  /\ Draft[i].group > -request.book \/ Draft[i].group = -request.book
                  => Draft[i].key \in DOMAIN store' /\ store'[Draft[i].key] = Draft[i].bytes
    BY <1>1, <1>2, <1>5 DEF IInv, ExportGoesOn, Truthful
  <2> QED
    BY <2>1, <1>1, <1>3, <1>4 DEF ExportGoesOn, Truthful
<1>12. ExportRepairs' /\ DownloadsAreOfTheirRow'
  BY <1>1, <1>3 DEF IInv, ExportRepairs, DownloadsAreOfTheirRow
<1>13. ReaderSafe'
  BY <1>1, <1>2, <1>3, <1>4, <1>5 DEF IInv, ReaderSafe
<1>14. KindsKept'
  BY <1>1, <1>2, <1>4 DEF IInv, KindsKept
<1> QED
  BY <1>6, <1>7, <1>8, <1>9, <1>10, <1>11, <1>12, <1>13, <1>14 DEF IInv

\* A request that ends, fails or goes on without touching rows or objects.
LEMMA MovesOn ==
    ASSUME IInv, Goto(request'.pc), UNCHANGED <<rows, store, lastKey, reader>>,
           \/ request'.pc = "failed"
           \/ request'.pc = "cleanup" /\ request.pc = "write" /\ request.fresh
           \/ request'.pc = "commit" /\ request.pc = "deactivate"
           \/ /\ request'.pc = "commit" /\ request.pc = "write"
              /\ ~(request.op = "export" /\ request.book < Workbooks)
    PROVE  IInv'
<1>1. /\ request' \in FileRequests /\ Draft' = Draft
      /\ request'.op = request.op /\ request'.key = request.key
      /\ request'.bytes = request.bytes /\ request'.book = request.book
      /\ request'.fresh = request.fresh
  BY Goes DEF IInv
<1>2. InFlight' => InFlight /\ request'.pc = "commit" /\ request.pc # "put"
  BY DEF InFlight
<1>3. StoreTypeOK' /\ Sound(rows)' /\ (InFlight' => Sound(Draft)')
  BY <1>1, <1>2 DEF IInv, StoreTypeOK, Sound
<1>4. FilesKeepTheirBytes' /\ DownloadsAreOfTheirRow'
  BY DEF IInv, FilesKeepTheirBytes, DownloadsAreOfTheirRow, Truthful
<1>5. DraftTruthful'
  BY <1>1, <1>2 DEF IInv, DraftTruthful, Truthful
<1>6. KeyOfRequest'
  BY <1>1, <1>2 DEF IInv, KeyOfRequest
<1>7. ExportGoesOn'
  <2> SUFFICES ASSUME request.op = "export", InFlight'
               PROVE  ExportGoesOn'
    BY <1>1 DEF ExportGoesOn
  <2>1. request.pc = "write"
    BY <1>2 DEF IInv, KeyOfRequest
  <2>2. InFlight /\ request.book \in 1 .. Workbooks /\ Workbooks \in Nat
    BY <1>2, RequestFacts DEF IInv, ExportGoesOn
  <2>3. request.book = Workbooks
    BY <1>2, <2>1, <2>2
  <2> QED
    BY <1>1, <1>2, <2>1, <2>2, <2>3 DEF IInv, ExportGoesOn, Truthful
<1>8. ExportRepairs'
  BY DEF ExportRepairs
<1>9. ReaderSafe'
  BY <1>1, <1>2 DEF IInv, ReaderSafe
<1>10. KindsKept'
  BY <1>1, <1>2 DEF IInv, KindsKept
<1> QED
  BY <1>3, <1>4, <1>5, <1>6, <1>7, <1>8, <1>9, <1>10 DEF IInv

\* A request that deletes its object.
LEMMA RemovesObject ==
    ASSUME IInv, Goto(request'.pc), store' = Without(request.key), UNCHANGED <<rows, lastKey, reader>>,
           \/ request'.pc = "failed"
           \/ request'.pc = "deactivate" /\ request.pc = "remove"
    PROVE  IInv'
<1>1. /\ request' \in FileRequests /\ Draft' = Draft
      /\ request'.op = request.op /\ request'.key = request.key
      /\ request'.bytes = request.bytes /\ request'.book = request.book
      /\ request'.fresh = request.fresh
  BY Goes DEF IInv
<1>2. InFlight' => InFlight /\ request'.pc = "deactivate" /\ request.pc = "remove"
  BY DEF InFlight
<1>3. /\ DOMAIN store' \subseteq DOMAIN store
      /\ \A k \in DOMAIN store' : store'[k] = store[k]
  BY DEF Without
<1>4. StoreTypeOK'
  BY <1>1, <1>3 DEF IInv, StoreTypeOK
<1>5. Sound(rows)' /\ (InFlight' => Sound(Draft)')
  BY <1>1, <1>2 DEF IInv, Sound
<1>6. FilesKeepTheirBytes'
  BY <1>3 DEF IInv, FilesKeepTheirBytes, Truthful
<1>7. DraftTruthful'
  BY <1>1, <1>2, <1>3 DEF IInv, DraftTruthful, Truthful
<1>8. KeyOfRequest'
  BY <1>1, <1>2 DEF IInv, KeyOfRequest
<1>9. ExportGoesOn'
  BY <1>1, <1>2 DEF IInv, ExportGoesOn, KeyOfRequest
<1>10. ExportRepairs' /\ DownloadsAreOfTheirRow'
  BY DEF IInv, ExportRepairs, DownloadsAreOfTheirRow
<1>11. ReaderSafe'
  BY <1>1, <1>2, <1>3 DEF IInv, ReaderSafe
<1>12. KindsKept'
  BY <1>1, <1>2 DEF IInv, KindsKept
<1> QED
  BY <1>4, <1>5, <1>6, <1>7, <1>8, <1>9, <1>10, <1>11, <1>12 DEF IInv

LEMMA CommitInv ==
    ASSUME IInv, Commit
    PROVE  IInv'
<1>1. /\ request.pc = "commit" /\ rows' = Draft /\ Goto("done")
      /\ UNCHANGED <<store, lastKey, reader>>
  BY DEF Commit, Draft
<1>2. request \in FileRequests /\ Draft \in Seq(FileRows) /\ InFlight /\ Workbooks \in Nat /\ lastKey \in Nat
  BY <1>1, RequestFacts DEF IInv, InFlight
<1>3. request' \in FileRequests /\ request'.pc = "done" /\ request'.op = request.op
  BY <1>1, <1>2 DEF Goto, FileRequests
<1>4. StoreTypeOK'
  BY <1>1, <1>2, <1>3 DEF IInv, StoreTypeOK
<1>5. Sound(rows)' /\ ~InFlight'
  BY <1>1, <1>2, <1>3 DEF IInv, Sound, InFlight
<1>6. FilesKeepTheirBytes' /\ DownloadsAreOfTheirRow'
  BY <1>1, <1>2 DEF IInv, FilesKeepTheirBytes, DraftTruthful, Truthful, DownloadsAreOfTheirRow
<1>7. DraftTruthful' /\ KeyOfRequest' /\ ExportGoesOn'
  BY <1>3, <1>5 DEF DraftTruthful, KeyOfRequest, ExportGoesOn
<1>8. ExportRepairs'
  <2> SUFFICES ASSUME request.op = "export", NEW i \in DOMAIN Draft, Draft[i].type = "template"
               PROVE  Draft[i].key \in DOMAIN store /\ Truthful(Draft[i])
    BY <1>1, <1>3 DEF ExportRepairs, Truthful
  <2>1. Draft[i].group \in Int
    BY <1>2, RowFacts
  <2>2. Draft[i].group >= -Workbooks
    BY <1>2 DEF IInv, Sound
  <2>3. request.book = Workbooks
    BY <1>1, <1>2 DEF IInv, ExportGoesOn
  <2>4. Draft[i].group > -request.book \/ Draft[i].group = -request.book
    BY <1>2, <2>1, <2>2, <2>3
  <2> QED
    BY <1>1, <1>2, <2>4 DEF IInv, ExportGoesOn
<1>9. ReaderSafe'
  BY <1>1, <1>2, <1>3, <1>5 DEF IInv, ReaderSafe
<1>10. KindsKept'
  BY <1>5 DEF KindsKept
<1> QED
  BY <1>4, <1>5, <1>6, <1>7, <1>8, <1>9, <1>10 DEF IInv

LEMMA ServerInv ==
    ASSUME IInv, Server
    PROVE  IInv'
<1>1. request \in FileRequests
  BY RequestFacts DEF IInv
<1>2. \A pc : request.pc # pc /\ Goto(pc) => request'.pc = pc
  BY <1>1 DEF Goto, FileRequests
<1>3. CASE Put
  BY <1>3, PutInv
<1>4. CASE PutFails \/ CleanupFails \/ RemoveFails \/ DeactivateFails \/ CommitFails \/ Crash
  <2>1. Goto("failed") /\ request.pc # "failed" /\ UNCHANGED <<rows, store, lastKey, reader>>
    BY <1>4 DEF PutFails, CleanupFails, RemoveFails, DeactivateFails, CommitFails, Crash, StoreIdle
  <2>2. request'.pc = "failed"
    BY <2>1, <1>2
  <2> QED
    BY <2>1, <2>2, MovesOn
<1>5. CASE Write
  <2>1. CASE request.op = "export" /\ request.book < Workbooks
    BY <2>1, <1>5, NextWorkbook DEF Write
  <2>2. CASE ~(request.op = "export" /\ request.book < Workbooks)
    <3>1. Goto("commit") /\ request.pc = "write" /\ UNCHANGED <<rows, store, lastKey, reader>>
      BY <2>2, <1>5 DEF Write
    <3>2. request'.pc = "commit"
      BY <3>1, <1>2
    <3> QED
      BY <2>2, <3>1, <3>2, MovesOn
  <2> QED
    BY <2>1, <2>2
<1>6. CASE WriteFails
  <2>1. /\ request.pc = "write" /\ UNCHANGED <<rows, store, lastKey, reader>>
        /\ Goto(IF request.fresh THEN "cleanup" ELSE "failed")
    BY <1>6 DEF WriteFails
  <2>2. CASE request.fresh
    <3>1. Goto("cleanup") /\ request'.pc = "cleanup"
      BY <2>1, <2>2, <1>2
    <3> QED
      BY <2>1, <2>2, <3>1, MovesOn
  <2>3. CASE ~request.fresh
    <3>1. Goto("failed") /\ request'.pc = "failed"
      BY <2>1, <2>3, <1>2
    <3> QED
      BY <2>1, <3>1, MovesOn
  <2> QED
    BY <2>2, <2>3
<1>7. CASE Cleanup
  <2>1. Goto("failed") /\ request.pc = "cleanup" /\ store' = Without(request.key)
        /\ UNCHANGED <<rows, lastKey, reader>>
    BY <1>7 DEF Cleanup
  <2>2. request'.pc = "failed"
    BY <2>1, <1>2
  <2> QED
    BY <2>1, <2>2, RemovesObject
<1>8. CASE Remove
  <2>1. Goto("deactivate") /\ request.pc = "remove" /\ store' = Without(request.key)
        /\ UNCHANGED <<rows, lastKey, reader>>
    BY <1>8 DEF Remove
  <2>2. request'.pc = "deactivate"
    BY <2>1, <1>2
  <2> QED
    BY <2>1, <2>2, RemovesObject
<1>9. CASE Deactivate
  <2>1. Goto("commit") /\ request.pc = "deactivate" /\ UNCHANGED <<rows, store, lastKey, reader>>
    BY <1>9 DEF Deactivate
  <2>2. request'.pc = "commit"
    BY <2>1, <1>2
  <2> QED
    BY <2>1, <2>2, MovesOn
<1>10. CASE Commit
  BY <1>10, CommitInv
<1> QED
  BY <1>3, <1>4, <1>5, <1>6, <1>7, <1>8, <1>9, <1>10 DEF Server

---------------------------------------------------------------------------
(* Downloads *)

LEMMA LookUpInv ==
    ASSUME IInv, NEW i \in DOMAIN rows, LookUp(i)
    PROVE  IInv'
<1> DEFINE new == [type |-> rows[i].type, key |-> rows[i].key,
                   bytes |-> rows[i].bytes, got |-> "pending"]
<1>1. /\ reader' = new /\ UNCHANGED <<rows, store, lastKey, request>>
  BY DEF LookUp
<1>2. rows \in Seq(FileRows) /\ rows[i].type \in Types /\ rows[i].key \in Nat /\ rows[i].bytes \in FileContents
  BY RequestFacts, RowFacts DEF IInv
<1>3. /\ new \in Readers /\ new.type = rows[i].type /\ new.key = rows[i].key
      /\ new.bytes = rows[i].bytes /\ new.got = "pending"
  BY <1>2 DEF Readers
<1> HIDE DEF new
<1>4. StoreTypeOK' /\ Sound(rows)' /\ (InFlight' => Sound(Draft)')
  BY <1>1, <1>3 DEF IInv, StoreTypeOK, Sound, InFlight, Draft
<1>5. FilesKeepTheirBytes' /\ DraftTruthful' /\ KeyOfRequest'
  BY <1>1 DEF IInv, FilesKeepTheirBytes, DraftTruthful, KeyOfRequest, Truthful, InFlight, Draft
<1>6. ExportGoesOn' /\ ExportRepairs'
  BY <1>1 DEF IInv, ExportGoesOn, ExportRepairs, Truthful, InFlight, Draft
<1>7. DownloadsAreOfTheirRow'
  BY <1>1, <1>3 DEF DownloadsAreOfTheirRow
<1>8. ReaderSafe'
  <2> SUFFICES ASSUME rows[i].type # "template"
               PROVE  /\ rows[i].key \in 1 .. lastKey
                      /\ rows[i].key \in DOMAIN store => store[rows[i].key] = rows[i].bytes
                      /\ request.pc = "put" => request.key # rows[i].key
                      /\ \A j \in DOMAIN rows : rows[j].type = "template" => rows[j].key # rows[i].key
                      /\ InFlight => \A j \in DOMAIN Draft :
                            Draft[j].type = "template" => Draft[j].key # rows[i].key
    BY <1>1, <1>3 DEF ReaderSafe, InFlight, Draft
  <2>1. rows[i].key \in 1 .. lastKey
    BY DEF IInv, Sound
  <2>2. rows[i].key \in DOMAIN store => store[rows[i].key] = rows[i].bytes
    BY DEF IInv, FilesKeepTheirBytes, Truthful
  <2>3. request.pc = "put" => request.key # rows[i].key
    BY DEF IInv, KeyOfRequest
  <2>4. \A j \in DOMAIN rows : rows[j].type = "template" => rows[j].key # rows[i].key
    BY DEF IInv, Sound
  <2>5. InFlight => \A j \in DOMAIN Draft :
            Draft[j].type = "template" => Draft[j].key # rows[i].key
    BY DEF IInv, KindsKept
  <2> QED
    BY <2>1, <2>2, <2>3, <2>4, <2>5
<1>9. KindsKept'
  BY <1>1 DEF IInv, KindsKept, InFlight, Draft
<1> QED
  BY <1>4, <1>5, <1>6, <1>7, <1>8, <1>9 DEF IInv

LEMMA FetchInv ==
    ASSUME IInv, Fetch
    PROVE  IInv'
<1> DEFINE got == IF reader.key \in DOMAIN store THEN store[reader.key] ELSE "missing"
           new == [reader EXCEPT !.got = got]
<1>1. /\ reader.got = "pending" /\ reader' = new /\ UNCHANGED <<rows, store, lastKey, request>>
  BY DEF Fetch
<1>2. got \in FileContents \cup {"missing"} /\ got # "pending"
  BY StoreAssumption DEF IInv, StoreTypeOK, StoreAssumption
<1> HIDE DEF got
<1>3. /\ new \in Readers /\ new.type = reader.type /\ new.bytes = reader.bytes /\ new.got = got
  BY <1>2 DEF IInv, StoreTypeOK, Readers
<1> HIDE DEF new
<1>4. StoreTypeOK' /\ Sound(rows)' /\ (InFlight' => Sound(Draft)')
  BY <1>1, <1>3 DEF IInv, StoreTypeOK, Sound, InFlight, Draft
<1>5. FilesKeepTheirBytes' /\ DraftTruthful' /\ KeyOfRequest' /\ KindsKept'
  BY <1>1 DEF IInv, FilesKeepTheirBytes, DraftTruthful, KeyOfRequest, KindsKept, Truthful,
              InFlight, Draft
<1>6. ExportGoesOn' /\ ExportRepairs'
  BY <1>1 DEF IInv, ExportGoesOn, ExportRepairs, Truthful, InFlight, Draft
<1>7. reader.type # "template" => got \in {reader.bytes, "missing"}
  BY <1>1 DEF IInv, ReaderSafe, got
<1>8. DownloadsAreOfTheirRow' /\ ReaderSafe'
  BY <1>1, <1>2, <1>3, <1>7 DEF DownloadsAreOfTheirRow, ReaderSafe
<1> QED
  BY <1>4, <1>5, <1>6, <1>8 DEF IInv

---------------------------------------------------------------------------
(* The invariant *)

LEMMA InitInv == StoreInit => IInv
<1> SUFFICES ASSUME StoreInit PROVE IInv
  OBVIOUS
<1>1. PICK c \in FileContents :
         /\ request = [op |-> "none", pc |-> "done", key |-> 0, bytes |-> c,
                       table |-> <<>>, stored |-> {}, book |-> 0, fresh |-> FALSE]
         /\ reader = [type |-> "source", key |-> 0, bytes |-> c, got |-> "missing"]
  BY DEF StoreInit
<1>2. rows = <<>> /\ store = <<>> /\ lastKey = 0
  BY DEF StoreInit
<1>3. /\ rows \in Seq(FileRows) /\ DOMAIN rows = {} /\ DOMAIN store = {}
  BY <1>2
<1>4. request \in FileRequests /\ request.op = "none" /\ request.pc = "done"
  BY <1>1 DEF FileRequests
<1>5. reader \in Readers /\ reader.got = "missing"
  BY <1>1 DEF Readers, Types
<1>6. StoreTypeOK
  BY <1>2, <1>3, <1>4, <1>5 DEF StoreTypeOK
<1>7. Sound(rows) /\ ~InFlight /\ FilesKeepTheirBytes
  BY <1>3, <1>4 DEF Sound, InFlight, FilesKeepTheirBytes
<1>8. DraftTruthful /\ KeyOfRequest /\ ExportGoesOn /\ ExportRepairs /\ KindsKept
  BY <1>4, <1>7 DEF DraftTruthful, KeyOfRequest, ExportGoesOn, ExportRepairs, KindsKept
<1>9. ReaderSafe /\ DownloadsAreOfTheirRow
  BY <1>5 DEF ReaderSafe, DownloadsAreOfTheirRow
<1> QED
  BY <1>6, <1>7, <1>8, <1>9 DEF IInv

LEMMA NextInv == IInv /\ [StoreNext]_storeVars => IInv'
<1> SUFFICES ASSUME IInv, [StoreNext]_storeVars PROVE IInv'
  OBVIOUS
<1>1. CASE Owner
  <2>1. CASE \E c \in FileContents : Export(c)
    BY <2>1, ExportInv
  <2>2. CASE \E c \in FileContents, g \in {0} \cup {rows[i].group : i \in DOMAIN rows},
                type \in {"source", "report"} : Upload(c, type, g)
    BY <2>2, UploadInv
  <2>3. CASE \E c \in FileContents, g \in {0} \cup {rows[i].group : i \in DOMAIN rows} :
                /\ g # 0 => \E i \in InGroup(rows, g) : rows[i].type = "report"
                /\ GenerateFile(c, g)
    BY <2>3, GenerateInv
  <2>4. CASE \E i \in DOMAIN rows : Delete(i) \/ Reclassify(i)
    BY <2>4, DeleteInv
  <2> QED
    BY <1>1, <2>1, <2>2, <2>3, <2>4 DEF Owner
<1>2. CASE Server
  BY <1>2, ServerInv
<1>3. CASE \E i \in DOMAIN rows : LookUp(i)
  BY <1>3, LookUpInv
<1>4. CASE Fetch
  BY <1>4, FetchInv
<1>5. CASE UNCHANGED storeVars
  <2>1. UNCHANGED <<rows, store, lastKey, request, reader>>
    BY <1>5 DEF storeVars
  <2>2. StoreTypeOK' /\ Sound(rows)' /\ (InFlight' => Sound(Draft)')
    BY <2>1 DEF IInv, StoreTypeOK, Sound, InFlight, Draft
  <2>3. FilesKeepTheirBytes' /\ DraftTruthful' /\ KeyOfRequest' /\ KindsKept'
    BY <2>1 DEF IInv, FilesKeepTheirBytes, DraftTruthful, KeyOfRequest, KindsKept, Truthful,
                InFlight, Draft
  <2>4. ExportGoesOn' /\ ExportRepairs'
    BY <2>1 DEF IInv, ExportGoesOn, ExportRepairs, Truthful, InFlight, Draft
  <2>5. DownloadsAreOfTheirRow' /\ ReaderSafe'
    BY <2>1 DEF IInv, DownloadsAreOfTheirRow, ReaderSafe, InFlight, Draft
  <2> QED
    BY <2>2, <2>3, <2>4, <2>5 DEF IInv
<1> QED
  BY <1>1, <1>2, <1>3, <1>4, <1>5 DEF StoreNext

LEMMA InvariantHolds == StoreSpec => []IInv
<1>1. StoreInit => IInv
  BY InitInv
<1>2. IInv /\ [StoreNext]_storeVars => IInv'
  BY NextInv
<1> QED
  BY <1>1, <1>2, PTL DEF StoreSpec

\* The rows, the bucket and the requests under way have the types the code
\* gives them, whatever fails.
THEOREM TypesHold == StoreSpec => []StoreTypeOK
<1>1. IInv => StoreTypeOK
  BY DEF IInv
<1> QED
  BY <1>1, InvariantHolds, PTL

\* Whatever upload, export, deletion, fault or crash comes when, the object of
\* a source file or a report is missing or has the bytes of its row.
THEOREM FilesAreWhatTheirRowsSay == StoreSpec => []FilesKeepTheirBytes
<1>1. IInv => FilesKeepTheirBytes
  BY DEF IInv
<1> QED
  BY <1>1, InvariantHolds, PTL

\* A download gets the bytes of the row it looked up, or nothing, although it
\* takes no lock and the row may be deleted or replaced meanwhile.
THEOREM DownloadsGetTheirRow == StoreSpec => []DownloadsAreOfTheirRow
<1>1. IInv => DownloadsAreOfTheirRow
  BY DEF IInv
<1> QED
  BY <1>1, InvariantHolds, PTL

\* After an export that succeeded every workbook row has its object.
THEOREM ExportsRepairWorkbooks == StoreSpec => []ExportRepairs
<1>1. IInv => ExportRepairs
  BY DEF IInv
<1> QED
  BY <1>1, InvariantHolds, PTL

\* The handlers' checks touch no object.
LEMMA OwnerLeavesBucket == Owner => store' = store
<1>1. \A c : Export(c) => store' = store
  BY DEF Export, Workbook
<1>2. \A op, bytes, table : BeginPut(op, bytes, table) => store' = store
  BY DEF BeginPut
<1>3. \A c, type, g : Upload(c, type, g) => store' = store
  <2> SUFFICES ASSUME NEW c, NEW type, NEW g, Upload(c, type, g)
               PROVE  store' = store
    OBVIOUS
  <2>1. \E op, bytes, table : BeginPut(op, bytes, table)
    BY DEF Upload
  <2> QED
    BY <2>1, <1>2
<1>4. \A c, g : GenerateFile(c, g) => store' = store
  <2> SUFFICES ASSUME NEW c, NEW g, GenerateFile(c, g)
               PROVE  store' = store
    OBVIOUS
  <2>1. \E op, bytes, table : BeginPut(op, bytes, table)
    BY DEF GenerateFile
  <2> QED
    BY <2>1, <1>2
<1>5. \A i : Delete(i) \/ Reclassify(i) => store' = store
  BY DEF Delete, Reclassify
<1> QED
  BY <1>1, <1>3, <1>4, <1>5 DEF Owner

\* No step takes the object of a report away: the clean-up of a failed upload
\* and the deletion of a source go for keys no report has.
THEOREM ReportsStay == StoreSpec => ReportsKeepTheirObjects
<1> DEFINE Kept == \A i \in DOMAIN rows :
               rows[i].active /\ rows[i].type = "report" /\ rows[i].key \in DOMAIN store
               => rows[i].key \in DOMAIN store'
<1>1. IInv /\ [StoreNext]_storeVars => Kept
  <2> SUFFICES ASSUME IInv, [StoreNext]_storeVars, NEW i \in DOMAIN rows,
                      rows[i].type = "report", rows[i].key \in DOMAIN store
               PROVE  rows[i].key \in DOMAIN store'
    OBVIOUS
  <2>1. CASE store' = store
    BY <2>1
  <2>2. CASE Put
    BY <2>2 DEF Put, With
  <2>3. CASE Cleanup
    <3>1. rows[i].key # request.key
      BY <2>3 DEF Cleanup, IInv, KeyOfRequest
    <3> QED
      BY <2>3, <3>1 DEF Cleanup, Without
  <2>4. CASE Remove
    <3>1. rows[i].key # request.key
      BY <2>4 DEF Remove, IInv, KeyOfRequest
    <3> QED
      BY <2>4, <3>1 DEF Remove, Without
  <2>5. Owner => store' = store
    BY OwnerLeavesBucket
  <2>6. PutFails \/ Write \/ WriteFails \/ CleanupFails \/ RemoveFails \/ Deactivate
        \/ DeactivateFails \/ Commit \/ CommitFails \/ Crash => store' = store
    BY DEF PutFails, Write, Workbook, WriteFails, CleanupFails, RemoveFails, Deactivate,
           DeactivateFails, Commit, CommitFails, Crash
  <2>7. (\E j \in DOMAIN rows : LookUp(j)) \/ Fetch => store' = store
    BY DEF LookUp, Fetch
  <2> QED
    BY <2>1, <2>2, <2>3, <2>4, <2>5, <2>6, <2>7 DEF StoreNext, Server, storeVars
<1> QED
  BY <1>1, InvariantHolds, PTL DEF StoreSpec, ReportsKeepTheirObjects

\* Which objects an upload or a generation has stored, and that a failed one
\* has none left.
Compensating ==
    request.op \in {"upload", "generate"} =>
        /\ request.fresh /\ request.stored \subseteq {request.key}
        /\ request.pc = "put" => request.stored = {}
        /\ request.pc = "failed" => request.stored \cap DOMAIN store = {}

\* Only BeginPut makes a request an upload or a generation.
LEMMA OwnerCompensates ==
    ASSUME IInv, Owner
    PROVE  Compensating'
<1>1. lastKey \in Nat
  BY RequestFacts DEF IInv
<1>2. \A op, bytes, table : BeginPut(op, bytes, table) => Compensating'
  <2> SUFFICES ASSUME NEW op, NEW bytes, NEW table, BeginPut(op, bytes, table)
               PROVE  Compensating'
    OBVIOUS
  <2>1. request'.fresh /\ request'.stored = {} /\ request'.pc = "put"
    BY DEF BeginPut
  <2> QED
    BY <2>1 DEF Compensating
<1>3. ASSUME NEW c, Export(c) PROVE Compensating'
  <2>1. request'.op = "export"
    BY <1>3 DEF Export, Workbook
  <2> QED
    BY <2>1 DEF Compensating
<1>4. ASSUME NEW c, NEW type, NEW g, Upload(c, type, g) PROVE Compensating'
  <2>1. \E op, bytes, table : BeginPut(op, bytes, table)
    BY <1>4 DEF Upload
  <2> QED
    BY <2>1, <1>2
<1>5. ASSUME NEW c, NEW g, GenerateFile(c, g) PROVE Compensating'
  <2>1. \E op, bytes, table : BeginPut(op, bytes, table)
    BY <1>5 DEF GenerateFile
  <2> QED
    BY <2>1, <1>2
<1>6. ASSUME NEW i, Delete(i) \/ Reclassify(i) PROVE Compensating'
  <2>1. request'.op = "delete" \/ request'.op = "reclassify"
    BY <1>6 DEF Delete, Reclassify
  <2> QED
    BY <2>1 DEF Compensating
<1> QED
  BY <1>3, <1>4, <1>5, <1>6 DEF Owner

LEMMA ServerCompensates ==
    ASSUME Faults \cap {"cleanup", "commit", "crash"} = {}, IInv, Compensating, Server
    PROVE  Compensating'
<1>1. request \in FileRequests
  BY RequestFacts DEF IInv
<1>2. \A pc : request.pc # pc /\ Goto(pc) =>
          /\ request'.pc = pc /\ request'.op = request.op /\ request'.fresh = request.fresh
          /\ request'.stored = request.stored /\ request'.key = request.key
  BY <1>1 DEF Goto, FileRequests
<1>3. request.pc \in {"remove", "deactivate"} => request.op = "delete"
  BY DEF IInv, KeyOfRequest
<1>4. CASE Put
  <2>1. request.pc = "put"
    BY <1>4 DEF Put
  <2>2. /\ request'.pc = "write" /\ request'.op = request.op /\ request'.fresh = request.fresh
        /\ request'.key = request.key
        /\ request'.stored = IF request.fresh THEN request.stored \cup {request.key} ELSE request.stored
    BY <1>1, <1>4 DEF Put, FileRequests
  <2> QED
    BY <2>1, <2>2 DEF Compensating
<1>5. CASE PutFails
  <2>1. request.pc = "put" /\ Goto("failed") /\ store' = store
    BY <1>5 DEF PutFails
  <2> QED
    BY <2>1, <1>2 DEF Compensating
<1>6. CASE Write
  <2>1. CASE request.op = "export" /\ request.book < Workbooks
    <3>1. Workbook(request.table, request.book + 1, request.bytes, request.stored)
      BY <2>1, <1>6 DEF Write
    <3>2. request'.op = "export"
      BY <3>1 DEF Workbook
    <3> QED
      BY <3>2 DEF Compensating
  <2>2. CASE ~(request.op = "export" /\ request.book < Workbooks)
    <3>1. request.pc = "write" /\ Goto("commit")
      BY <2>2, <1>6 DEF Write
    <3> QED
      BY <3>1, <1>2 DEF Compensating
  <2> QED
    BY <2>1, <2>2
<1>7. CASE WriteFails
  <2>1. request.pc = "write" /\ Goto(IF request.fresh THEN "cleanup" ELSE "failed")
    BY <1>7 DEF WriteFails
  <2>2. CASE request.fresh
    BY <2>1, <2>2, <1>2 DEF Compensating
  <2>3. CASE ~request.fresh
    BY <2>1, <2>3, <1>2 DEF Compensating
  <2> QED
    BY <2>2, <2>3
<1>8. CASE Cleanup
  <2>1. request.pc = "cleanup" /\ Goto("failed") /\ DOMAIN store' = DOMAIN store \ {request.key}
    BY <1>8 DEF Cleanup, Without
  <2> QED
    BY <2>1, <1>2 DEF Compensating
<1>9. CASE Remove \/ RemoveFails \/ Deactivate \/ DeactivateFails
  <2>1. /\ request.pc \in {"remove", "deactivate"}
        /\ \E pc : request.pc # pc /\ Goto(pc)
    BY <1>9 DEF Remove, RemoveFails, Deactivate, DeactivateFails
  <2> QED
    BY <2>1, <1>2, <1>3 DEF Compensating
<1>10. CASE Commit
  <2>1. request.pc = "commit" /\ Goto("done")
    BY <1>10 DEF Commit
  <2> QED
    BY <2>1, <1>2 DEF Compensating
<1> QED
  BY <1>4, <1>5, <1>6, <1>7, <1>8, <1>9, <1>10 DEF Server, CleanupFails, CommitFails, Crash

\* As long as the process lives, the bucket lets the handler delete and the
\* commit goes through, an upload or a generation that failed has left no
\* object behind, whether storing it or writing its rows failed.
THEOREM FailedUploadsLeaveNothing ==
    ASSUME Faults \cap {"cleanup", "commit", "crash"} = {}
    PROVE  StoreSpec => []FailureCompensated
<1>1. StoreInit => Compensating
  BY DEF StoreInit, Compensating
<1>2. IInv /\ Compensating /\ [StoreNext]_storeVars => Compensating'
  <2> SUFFICES ASSUME IInv, Compensating, [StoreNext]_storeVars PROVE Compensating'
    OBVIOUS
  <2>1. CASE Owner
    BY <2>1, OwnerCompensates
  <2>2. CASE Server
    BY <2>2, ServerCompensates
  <2>3. CASE UNCHANGED <<request, store>>
    BY <2>3 DEF Compensating
  <2>4. (\E i \in DOMAIN rows : LookUp(i)) \/ Fetch \/ UNCHANGED storeVars => UNCHANGED <<request, store>>
    BY DEF LookUp, Fetch, storeVars
  <2> QED
    BY <2>1, <2>2, <2>3, <2>4 DEF StoreNext
<1>3. Compensating => FailureCompensated
  BY DEF Compensating, FailureCompensated
<1> QED
  BY <1>1, <1>2, <1>3, InvariantHolds, PTL DEF StoreSpec

=============================================================================

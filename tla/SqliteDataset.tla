-------------------------- MODULE SqliteDataset --------------------------
(***************************************************************************)
(* The SQLite edition of a release: the same CSV files imported table by   *)
(* table (cmd/build-sqlite-dataset), the prefix index materialized in      *)
(* batches of rows (cmd/build-prefix-index), the range summaries           *)
(* (cmd/build-range-summaries) and the last check (cmd/validate-database). *)
(*                                                                         *)
(* Four programs run one after the other on one database; `job` is the     *)
(* next thing they do and `lastRowID` the last row that was materialized,  *)
(* or summarized.  Each exits at its first error, and the job with it;     *)
(* nothing reads a database whose job did not reach its end.               *)
(***************************************************************************)
EXTENDS DatasetBuild

CONSTANT BatchSize      \* rows materialized per transaction, 1000

ASSUME BatchAssumption == BatchSize \in Nat \ {0}

VARIABLES job, tables, prefixRows, summaryRows, lastRowID

sqliteVars == <<job, tables, prefixRows, summaryRows, lastRowID>>

Tables     == <<"allocations", "routes", "autnums", "geofeeds">>
Indexed    == <<"allocations", "routes", "geofeeds">>
Summarized == <<"allocations", "routes">>

NoTables == [table \in ToSet(Tables) |-> <<>>]

SqliteInit ==
    /\ job = <<"import", 1>>
    /\ tables = NoTables
    /\ prefixRows = [table \in ToSet(Indexed) |-> {}]
    /\ summaryRows = <<>>
    /\ lastRowID = 0

Failed == <<"failed", 0>>
Ready  == <<"ready", 0>>

-----------------------------------------------------------------------------
\* validRow: a route needs an origin, whatever its form.
ValidRow(table, row) == table = "routes" => row.origin # NoOrigin

ImportedRows(table) == Selected(input[table], LAMBDA row : ValidRow(table, row))

\* importCSV: the valid rows in their order, so that row n gets rowid n.  A
\* table without rows fails.
ImportTable ==
    /\ job[1] = "import"
    /\ LET table == Tables[job[2]]
           rows  == ImportedRows(table)
       IN  /\ tables' = [tables EXCEPT ![table] = rows]
           /\ job' = IF rows = <<>> THEN Failed
                     ELSE IF job[2] < Len(Tables) THEN <<"import", job[2] + 1>>
                     ELSE <<"index", 1>>
    /\ UNCHANGED <<prefixRows, summaryRows, lastRowID>>

\* The range columns of a row.
RowRange(table, row) == IF table = "routes" THEN row.range ELSE row

\* The rowids of the next batch, and the last of them.
Batch(rows) == {id \in DOMAIN rows : lastRowID < id /\ id <= lastRowID + BatchSize}

\* Mutant: the next batch begins after a row that was not in this one.
LastOfBatchSkipping(batch) == (CHOOSE last \in batch : \A id \in batch : id <= last) + 1

LastOfBatch(batch) == CHOOSE last \in batch : \A id \in batch : id <= last

\* One batch of materialize.  A range that ends before it starts is an error,
\* unlike in Build, which skips the row.
MaterializeBatch ==
    /\ job[1] = "index"
    /\ LET table == Indexed[job[2]]
           rows  == tables[table]
           batch == Batch(rows)
           Bounds(id) == RowRange(table, rows[id])
       IN  IF batch = {}
           THEN /\ job' = IF job[2] < Len(Indexed) THEN <<"index", job[2] + 1>>
                          ELSE <<"summaries", 1>>
                /\ lastRowID' = 0
                /\ UNCHANGED prefixRows
           ELSE IF \E id \in batch : Bounds(id).start > Bounds(id).end
           THEN job' = Failed /\ UNCHANGED <<lastRowID, prefixRows>>
           ELSE /\ prefixRows' = [prefixRows EXCEPT ![table] = @ \cup
                       UNION {IndexEntries(ToSet(RangePrefixes(Bounds(id))), id) :
                                  id \in batch}]
                /\ lastRowID' = LastOfBatch(batch)
                /\ UNCHANGED job
    /\ UNCHANGED <<tables, summaryRows>>

NoRecords == [allocations |-> 0, routes |-> 0]

\* Mutant: the loop over a level ends before the bucket of the last address.
BucketsBeforeLast(range) ==
    {bucket \in Buckets(SummaryLevels) :
        /\ Masked(range.start, bucket.length) <= bucket.address
        /\ \/ bucket.address < Masked(range.end, bucket.length)
           \/ bucket.address = Masked(range.start, bucket.length)}

\* The buckets from that of a range's start to that of its end, at every level.
BucketsOf(range) ==
    {bucket \in Buckets(SummaryLevels) :
        /\ Masked(range.start, bucket.length) <= bucket.address
        /\ bucket.address <= Masked(range.end, bucket.length)}

\* The builder's map with one more record of this kind in each of the buckets,
\* which the map may not have yet.
CountedIn(buckets, kind) ==
    LET Item(bucket) == IF bucket \in DOMAIN summaryRows THEN summaryRows[bucket] ELSE NoRecords
    IN  [bucket \in (DOMAIN summaryRows) \cup buckets |->
            IF bucket \in buckets THEN [Item(bucket) EXCEPT ![kind] = @ + 1] ELSE Item(bucket)]

\* One row of collect, or the end of its table.  `summaryRows` is the map, and
\* the table that persist makes of it when both tables were read.
SummarizeRow ==
    /\ job[1] = "summaries"
    /\ LET table == Summarized[job[2]]
           rows  == tables[table]
           range == RowRange(table, rows[lastRowID + 1])
       IN  IF lastRowID = Len(rows)
           THEN /\ job' = IF job[2] < Len(Summarized) THEN <<"summaries", job[2] + 1>>
                          ELSE <<"validate", 0>>
                /\ lastRowID' = 0
                /\ UNCHANGED summaryRows
           ELSE IF range.start > range.end
           THEN job' = Failed /\ UNCHANGED <<lastRowID, summaryRows>>
           ELSE /\ summaryRows' = CountedIn(BucketsOf(range), table)
                /\ lastRowID' = lastRowID + 1
                /\ UNCHANGED job
    /\ UNCHANGED <<tables, prefixRows>>

\* Every table has rows, the two derived ones included.
ValidateDatabase ==
    /\ job[1] = "validate"
    /\ job' = IF /\ \A table \in ToSet(Tables) : tables[table] # <<>>
                 /\ UNION {prefixRows[table] : table \in ToSet(Indexed)} # {}
                 /\ summaryRows # <<>>
              THEN Ready ELSE Failed
    /\ UNCHANGED <<tables, prefixRows, summaryRows, lastRowID>>

\* A command of the job fails, at any point.
AbandonSqlite ==
    /\ job \notin {Failed, Ready}
    /\ job' = Failed
    /\ UNCHANGED <<tables, prefixRows, summaryRows, lastRowID>>

SqliteStep ==
    ImportTable \/ MaterializeBatch \/ SummarizeRow \/ ValidateDatabase \/ AbandonSqlite
=========================================================================

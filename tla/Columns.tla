------------------------------- MODULE Columns ------------------------------
(***************************************************************************)
(* A batch of rows on its way into Arrow columns, and the cells read back. *)
(*                                                                         *)
(* Every row must add exactly one cell to every column, whatever fields it *)
(* lacks: a column of another length makes the batch invalid, and a value  *)
(* appended without its cell moves every later list by one.  Columns are   *)
(* those whose cell is not the field itself: the timestamp, a list, an     *)
(* INET struct and the one column that has no NULL.  The code fills one    *)
(* column after the other; here each step adds one row to all of them.     *)
(* Of the other columns, plain copies of a field, it only matters which    *)
(* field they copy: Batch names it.                                        *)
(***************************************************************************)
EXTENDS Inet, Schemas

CONSTANTS
  Null,      \* an absent field, a NULL cell
  Paths,     \* AS paths that occur, the empty one too
  Prefixes,  \* prefixes that occur, [ip, mask]
  MaxRows

ASSUME NullAssumption == Null \notin Int /\ Null \notin Paths /\ Null \notin Prefixes /\ Null # "error"
                         /\ Null \notin BOOLEAN
ASSUME PathsAssumption == Paths \subseteq Seq(Nat)
ASSUME PrefixesAssumption == Prefixes \subseteq [ip : IpAddr, mask : Nat]

\* The plain fields an elem's row has, if its update carried them all.
ElemFields == {"view_name", "peer_ip", "peer_asn", "msg_type"}
RouteFields == ElemFields \cup {"origin_asn", "next_hop", "communities", "med", "local_pref",
                                "aggregator_asn"}
StateFields == ElemFields \cup {"old_state", "new_state"}

\* The fields of a row a column is built from, and the plain ones that are
\* given.  An error row has its defaults.
ErrorRow == [error |-> TRUE, timestamp_us |-> 0, as_path |-> Null, prefix |-> Null,
             atomic |-> FALSE, given |-> {"error"}]
Announces == [error : {FALSE}, timestamp_us : {0, 1}, as_path : Paths \cup {Null},
              prefix : Prefixes, atomic : BOOLEAN, given : {RouteFields}]
Withdraws == [error : {FALSE}, timestamp_us : {0, 1}, as_path : {Null},
              prefix : Prefixes, atomic : {FALSE}, given : {ElemFields}]
StateChanges == [error : {FALSE}, timestamp_us : {0, 1}, as_path : {Null},
                 prefix : {Null}, atomic : {FALSE}, given : {StateFields}]

Rows == {ErrorRow} \cup Announces \cup Withdraws \cup StateChanges

VARIABLES
  rows,    \* the rows put into the columns so far
  ts,      \* timestamp column, a sequence of cells
  list,    \* as_path column, [values, ends, valid]: cell j is values up to ends[j]
  inet,    \* prefix column, [ip_type, address, mask, valid], children and validity
  atomic   \* atomic_aggregate column

vars == <<rows, ts, list, inet, atomic>>

Init ==
  /\ rows = <<>>
  /\ ts = <<>>
  /\ list = [values |-> <<>>, ends |-> <<>>, valid |-> <<>>]
  /\ inet = [ip_type |-> <<>>, address |-> <<>>, mask |-> <<>>, valid |-> <<>>]
  /\ atomic = <<>>

\* Mutant of RowTs: any row at the epoch has no timestamp.
RowTsEpoch(row) == IF row.timestamp_us = 0 THEN Null ELSE row.timestamp_us

RowTs(row) == IF row.error /\ row.timestamp_us = 0 THEN Null ELSE row.timestamp_us

\* Mutant of WithList: a missing list adds no cell.
WithListSkipping(column, xs) ==
  IF xs = Null THEN column
  ELSE [values |-> column.values \o xs,
        ends |-> Append(column.ends, Len(column.values \o xs)),
        valid |-> Append(column.valid, TRUE)]

\* A cell closes the values appended since the last one; a missing list has none.
WithList(column, xs) ==
  LET values == IF xs = Null THEN column.values ELSE column.values \o xs
  IN [values |-> values,
      ends |-> Append(column.ends, Len(values)),
      valid |-> Append(column.valid, xs # Null)]

\* The children of a missing struct are filled with zeros.
WithInet(column, prefix) ==
  LET cell == IF prefix = Null THEN [ip_type |-> 0, address |-> 0, mask |-> 0]
              ELSE Encode(prefix.ip, prefix.mask)
  IN [ip_type |-> Append(column.ip_type, cell.ip_type),
      address |-> Append(column.address, cell.address),
      mask |-> Append(column.mask, cell.mask),
      valid |-> Append(column.valid, prefix # Null)]

AddRow ==
  /\ Len(rows) < MaxRows
  /\ \E row \in Rows :
       /\ rows' = Append(rows, row)
       /\ ts' = Append(ts, RowTs(row))
       /\ list' = WithList(list, row.as_path)
       /\ inet' = WithInet(inet, row.prefix)
       /\ atomic' = Append(atomic, row.atomic)

Spec == Init /\ [][AddRow]_vars

---------------------------------------------------------------------------
(* The cells, as the scalars and DuckDB read them *)

ListCell(j) ==
  IF ~list.valid[j] THEN Null
  ELSE SubSeq(list.values, IF j = 1 THEN 1 ELSE list.ends[j - 1] + 1, list.ends[j])

InetCell(j) ==
  IF ~inet.valid[j] THEN Null
  ELSE [ip_type |-> inet.ip_type[j], address |-> inet.address[j], mask |-> inet.mask[j]]

\* The cell of a plain column: the value of its field, known by the field's name.
PlainCell(j, from) == IF from \in rows[j].given THEN from ELSE Null

\* The cell row j has in a column of the batch.
BatchCell(column, j) ==
  CASE column.from = "timestamp_us" -> ts[j]
    [] column.from = "as_path" -> ListCell(j)
    [] column.from = "prefix" -> InetCell(j)
    [] column.from = "atomic_aggregate" -> atomic[j]
    [] OTHER -> PlainCell(j, column.from)

Lengths == {Len(ts), Len(list.ends), Len(list.valid), Len(inet.ip_type), Len(inet.address),
            Len(inet.mask), Len(inet.valid), Len(atomic)}

---------------------------------------------------------------------------
(* Properties *)

\* Every column has a cell for every row, and the path read back for a row
\* (arrow_io.rs:288-297) is the row's: an empty path stays apart from none, and
\* neither moves the lists behind it.
PathsReadBack ==
  /\ Lengths = {Len(rows)}
  /\ \A j \in DOMAIN rows : ListCell(j) = rows[j].as_path

\* An error row has NULL fields and a populated error column (README.md:71-72,
\* options.rs:131-132), in every column of both tables but the Boolean one, whose
\* cell is never NULL; any other row has its time, one at the epoch included, and
\* no error.  (The comment at arrow_io.rs:258-259 has it that an error row renders
\* as the epoch; line 262 appends a NULL.)
ErrorRowsAreNull ==
  \A j \in DOMAIN rows : \A kind \in {"rib", "updates"} : \A i \in DOMAIN ColumnsOf(kind) :
    LET column == ColumnsOf(kind)[i]
        cell == BatchCell(column, j)
    IN /\ rows[j].error => (cell = Null <=> column.from \notin {"error", "atomic_aggregate"})
       /\ ~rows[j].error =>
            /\ column.from = "timestamp_us" => cell # Null
            /\ column.from = "error" => cell = Null

\* Struct cells compare as their prefixes do (inet.rs:16-17): equal only for the
\* same address and mask, and in the order of the addresses within a family.
InetKeepsOrder ==
  \A j, k \in DOMAIN rows :
    rows[j].prefix # Null /\ rows[k].prefix # Null =>
      LET p == rows[j].prefix  q == rows[k].prefix
          c == InetCell(j)     d == InetCell(k)
      IN /\ c = d <=> p = q
         /\ p.ip.v = q.ip.v => (c.address < d.address <=> p.ip.bits < q.ip.bits)

\* The field of a row a column of that name shows.
FieldNamed(name) ==
  CASE name = "timestamp" -> "timestamp_us" [] name = "message_type" -> "msg_type" [] OTHER -> name

\* A batch has the columns its schema names, in the schema's order and types
\* (arrow_io.rs:191, 225, 272, table/mod.rs:20, 40, 59): no value appears under
\* the name of another one of its type.
ColumnsFitSchema ==
  \A kind \in Kinds :
    LET schema == SchemaOf(kind)
        columns == ColumnsOf(kind)
    IN /\ Len(columns) = Len(schema)
       /\ \A i \in DOMAIN schema :
            LET named == Column(schema[i].type, FieldNamed(schema[i].name))
            IN /\ columns[i].builder = named.builder
               /\ kind = "peers" => columns[i].from = named.from
               /\ kind # "peers" /\ rows # <<>> =>
                    BatchCell(columns[i], Len(rows)) = BatchCell(named, Len(rows))
=============================================================================

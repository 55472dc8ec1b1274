---------------------------- MODULE ColumnsProofs ---------------------------
(***************************************************************************)
(* The address field orders and tells apart the addresses of a family, and *)
(* the columns hold their rows, for batches, paths and prefixes of any     *)
(* size.                                                                   *)
(***************************************************************************)
EXTENDS Columns, TLAPS, SequenceTheorems

\* Flipping the top bit and reading the result as signed moves every IPv6
\* address down by Half.
LEMMA FlipShifts ==
  ASSUME NEW ip \in V6
  PROVE  Address(ip) = ip.bits - Half
<1>1. ip.v = 6 /\ ip.bits \in 0 .. 2 * Half - 1
  BY DEF V6
<1>2. CASE ip.bits < Half
  BY <1>1, <1>2, HalfAssumption DEF Address, AsSigned, FlipTop
<1>3. CASE ip.bits >= Half
  BY <1>1, <1>3, HalfAssumption DEF Address, AsSigned, FlipTop
<1> QED
  BY <1>1, <1>2, <1>3, HalfAssumption

\* The field is a signed integer of the width of the bits (inet.rs:12-19).
THEOREM AddressInRange ==
  ASSUME NEW ip \in IpAddr
  PROVE  Address(ip) \in -Half .. Half - 1
<1>1. CASE ip \in V4
  BY <1>1, HalfAssumption, V4Assumption DEF V4, Address
<1>2. CASE ip \in V6
  <2>1. ip.bits \in 0 .. 2 * Half - 1
    BY <1>2 DEF V6
  <2> QED
    BY <2>1, <1>2, FlipShifts, HalfAssumption
<1> QED
  BY <1>1, <1>2 DEF IpAddr

\* Stored addresses of one family are in the order of the addresses
\* (inet.rs:16-17), whatever the widths.
THEOREM OrderPreserved ==
  ASSUME NEW a \in IpAddr, NEW b \in IpAddr, a.v = b.v
  PROVE  Address(a) < Address(b) <=> a.bits < b.bits
<1>1. CASE a \in V4
  BY <1>1, V4Assumption DEF IpAddr, V4, V6, Address
<1>2. CASE a \in V6
  <2>1. b \in V6
    BY <1>2 DEF IpAddr, V4, V6
  <2>2. a.bits \in Int /\ b.bits \in Int
    BY <1>2, <2>1, HalfAssumption DEF V6
  <2> QED
    BY <2>1, <2>2, <1>2, FlipShifts, HalfAssumption
<1> QED
  BY <1>1, <1>2 DEF IpAddr

\* Two prefixes have the same cell only if they are the same prefix.
THEOREM EncodeInjective ==
  ASSUME NEW a \in IpAddr, NEW b \in IpAddr, NEW m, NEW n,
         Encode(a, m) = Encode(b, n)
  PROVE  a = b /\ m = n
<1>1. m = n /\ Address(a) = Address(b) /\ (a.v = 4 <=> b.v = 4)
  BY DEF Encode
<1>2. CASE a \in V4
  <2>1. b \in V4
    BY <1>1, <1>2 DEF IpAddr, V4, V6
  <2> QED
    BY <1>1, <1>2, <2>1 DEF V4, Address
<1>3. CASE a \in V6
  <2>1. b \in V6
    BY <1>1, <1>3 DEF IpAddr, V4, V6
  <2>2. a.bits = b.bits
    BY <1>1, <1>3, <2>1, FlipShifts, HalfAssumption DEF V6
  <2> QED
    BY <1>1, <1>3, <2>1, <2>2 DEF V6
<1> QED
  BY <1>2, <1>3 DEF IpAddr

\* The columns hold sequences of one length.
ColumnsType ==
  /\ rows \in Seq(Rows)
  /\ ts \in Seq(Int \cup {Null})
  /\ list \in [values : Seq(Nat), ends : Seq(Nat), valid : Seq(BOOLEAN)]
  /\ inet \in [ip_type : Seq(Nat), address : Seq(Int), mask : Seq(Nat), valid : Seq(BOOLEAN)]
  /\ atomic \in Seq(BOOLEAN)
  /\ Lengths = {Len(rows)}

\* The values of all lists lie one behind the other, closed by the ends.
ListInv ==
  /\ \A j \in 1 .. Len(rows) : list.ends[j] <= Len(list.values)
  /\ Len(list.values) = IF Len(rows) = 0 THEN 0 ELSE list.ends[Len(rows)]
  /\ \A j \in 1 .. Len(rows) : ListCell(j) = rows[j].as_path

\* What the struct cell of a prefix is.
Cell(prefix) == IF prefix = Null THEN Null ELSE Encode(prefix.ip, prefix.mask)

InetInv == \A j \in 1 .. Len(rows) : InetCell(j) = Cell(rows[j].prefix)

TsInv == \A j \in 1 .. Len(rows) : ts[j] = RowTs(rows[j])

IInv == ColumnsType /\ ListInv /\ InetInv /\ TsInv

\* The fields of a row.
LEMMA RowFields ==
  ASSUME NEW row \in Rows
  PROVE  /\ row.error \in BOOLEAN /\ row.atomic \in BOOLEAN
         /\ row.timestamp_us \in Int
         /\ row.error => row.timestamp_us = 0
         /\ row.as_path \in Seq(Nat) \/ row.as_path = Null
         /\ row.prefix \in [ip : IpAddr, mask : Nat] \/ row.prefix = Null
<1>1. CASE row = ErrorRow
  BY <1>1 DEF ErrorRow
<1>2. CASE row # ErrorRow
  <2>1. row.error = FALSE /\ row.atomic \in BOOLEAN
    BY <1>2, Zenon DEF Rows, Announces, Withdraws, StateChanges
  <2>2. row.timestamp_us \in {0, 1}
    BY <1>2 DEF Rows, Announces, Withdraws, StateChanges
  <2>3. row.as_path \in Paths \cup {Null}
    BY <1>2 DEF Rows, Announces, Withdraws, StateChanges
  <2>4. row.prefix \in Prefixes \cup {Null}
    BY <1>2 DEF Rows, Announces, Withdraws, StateChanges
  <2>5. row.timestamp_us \in Int
    BY <2>2
  <2>6. row.as_path \in Seq(Nat) \/ row.as_path = Null
    BY <2>3, PathsAssumption
  <2>7. row.prefix \in [ip : IpAddr, mask : Nat] \/ row.prefix = Null
    BY <2>4, PrefixesAssumption
  <2> QED
    BY <2>1, <2>5, <2>6, <2>7, Zenon
<1> QED
  BY <1>1, <1>2

\* Values appended behind a list leave it as it was.
LEMMA EarlierKept ==
  ASSUME NEW s \in Seq(Nat), NEW t \in Seq(Nat),
         NEW m \in Nat \ {0}, NEW n \in Nat, n <= Len(s)
  PROVE  SubSeq(s \o t, m, n) = SubSeq(s, m, n)
<1>1. CASE n < m
  BY <1>1, SubSeqEmpty
<1>2. CASE m <= n
  BY <1>2, SubSeqOfConcat1
<1> QED
  BY <1>1, <1>2

\* The values appended last are the ones between the last two ends.
LEMMA LastRead ==
  ASSUME NEW s \in Seq(Nat), NEW t \in Seq(Nat)
  PROVE  SubSeq(s \o t, Len(s) + 1, Len(s) + Len(t)) = t
<1>1. CASE Len(t) = 0
  <2>1. t = <<>>
    BY <1>1
  <2> QED
    BY <1>1, <2>1, SubSeqEmpty
<1>2. CASE Len(t) # 0
  <2>1. SubSeq(s \o t, Len(s) + 1, Len(s) + Len(t)) = SubSeq(t, 1, Len(t))
    BY <1>2, SubSeqOfConcat2
  <2> QED
    BY <2>1, SubSeqFull
<1> QED
  BY <1>1, <1>2

\* One row adds one cell to every column.
LEMMA TypeStep ==
  ASSUME ColumnsType, AddRow
  PROVE  ColumnsType' /\ Len(rows') = Len(rows) + 1
<1>1. PICK row \in Rows :
        /\ rows' = Append(rows, row)
        /\ ts' = Append(ts, RowTs(row))
        /\ list' = WithList(list, row.as_path)
        /\ inet' = WithInet(inet, row.prefix)
        /\ atomic' = Append(atomic, row.atomic)
  BY DEF AddRow
<1>2. rows' \in Seq(Rows) /\ Len(rows') = Len(rows) + 1
  BY <1>1 DEF ColumnsType
<1>3. ts' \in Seq(Int \cup {Null}) /\ Len(ts') = Len(ts) + 1
  BY <1>1, RowFields DEF ColumnsType, RowTs
<1>4. atomic' \in Seq(BOOLEAN) /\ Len(atomic') = Len(atomic) + 1
  BY <1>1, RowFields DEF ColumnsType
<1>5. /\ list' \in [values : Seq(Nat), ends : Seq(Nat), valid : Seq(BOOLEAN)]
      /\ Len(list'.ends) = Len(list.ends) + 1
      /\ Len(list'.valid) = Len(list.valid) + 1
  <2> DEFINE new == IF row.as_path = Null THEN list.values ELSE list.values \o row.as_path
  <2>1. new \in Seq(Nat) /\ Len(new) \in Nat
    BY RowFields, ConcatProperties DEF ColumnsType
  <2>2. list' = [values |-> new, ends |-> Append(list.ends, Len(new)),
                 valid |-> Append(list.valid, row.as_path # Null)]
    BY <1>1 DEF WithList
  <2> QED
    BY <2>1, <2>2 DEF ColumnsType
<1>6. /\ inet' \in [ip_type : Seq(Nat), address : Seq(Int), mask : Seq(Nat),
                    valid : Seq(BOOLEAN)]
      /\ Len(inet'.ip_type) = Len(inet.ip_type) + 1
      /\ Len(inet'.address) = Len(inet.address) + 1
      /\ Len(inet'.mask) = Len(inet.mask) + 1
      /\ Len(inet'.valid) = Len(inet.valid) + 1
  <2> DEFINE cell == IF row.prefix = Null THEN [ip_type |-> 0, address |-> 0, mask |-> 0]
                     ELSE Encode(row.prefix.ip, row.prefix.mask)
  <2>1. cell.ip_type \in Nat /\ cell.address \in Int /\ cell.mask \in Nat
    BY RowFields, AddressInRange, HalfAssumption DEF Encode
  <2>2. inet' = [ip_type |-> Append(inet.ip_type, cell.ip_type),
                 address |-> Append(inet.address, cell.address),
                 mask |-> Append(inet.mask, cell.mask),
                 valid |-> Append(inet.valid, row.prefix # Null)]
    BY <1>1 DEF WithInet
  <2> HIDE DEF cell
  <2> QED
    BY <2>1, <2>2 DEF ColumnsType
<1>7. Lengths' = {Len(rows')}
  <2> DEFINE n == Len(rows)
  <2>1. /\ Len(ts) = n /\ Len(list.ends) = n /\ Len(list.valid) = n /\ Len(inet.ip_type) = n
        /\ Len(inet.address) = n /\ Len(inet.mask) = n /\ Len(inet.valid) = n /\ Len(atomic) = n
    BY Zenon DEF ColumnsType, Lengths
  <2>2. /\ Len(ts') = n + 1 /\ Len(list'.ends) = n + 1 /\ Len(list'.valid) = n + 1
        /\ Len(inet'.ip_type) = n + 1 /\ Len(inet'.address) = n + 1
        /\ Len(inet'.mask) = n + 1 /\ Len(inet'.valid) = n + 1 /\ Len(atomic') = n + 1
        /\ Len(rows') = n + 1
    BY <1>2, <1>3, <1>4, <1>5, <1>6, <2>1
  <2> HIDE DEF n
  <2> QED
    BY <2>2 DEF Lengths
<1> QED
  BY <1>2, <1>3, <1>4, <1>5, <1>6, <1>7 DEF ColumnsType

\* Every list still reads as its row's path.
LEMMA ListStep ==
  ASSUME ColumnsType, ListInv, AddRow
  PROVE  ListInv'
<1>1. PICK row \in Rows :
        /\ rows' = Append(rows, row)
        /\ list' = WithList(list, row.as_path)
  BY DEF AddRow
<1> DEFINE n == Len(rows)
           xs == IF row.as_path = Null THEN <<>> ELSE row.as_path
           new == list.values \o xs
<1>2. n \in Nat /\ Len(list.ends) = n /\ Len(list.valid) = n
  BY DEF ColumnsType, Lengths
<1>3. /\ list.values \in Seq(Nat) /\ list.ends \in Seq(Nat) /\ xs \in Seq(Nat)
      /\ new \in Seq(Nat) /\ Len(new) \in Nat /\ Len(new) = Len(list.values) + Len(xs)
  BY RowFields, ConcatProperties DEF ColumnsType
<1>4. /\ list'.values = new
      /\ list'.ends = Append(list.ends, Len(new))
      /\ list'.valid = Append(list.valid, row.as_path # Null)
  BY <1>1, <1>3, ConcatEmptySeq DEF WithList
<1>5. \A j \in 1 .. n : list'.ends[j] = list.ends[j] /\ list'.valid[j] = list.valid[j]
                        /\ rows'[j] = rows[j]
  BY <1>1, <1>2, <1>4 DEF ColumnsType
<1>6. list'.ends[n + 1] = Len(new) /\ list'.valid[n + 1] = (row.as_path # Null)
      /\ rows'[n + 1] = row /\ Len(rows') = n + 1
  BY <1>1, <1>2, <1>4 DEF ColumnsType
<1>7. Len(list'.values) = list'.ends[Len(rows')]
      /\ \A j \in 1 .. n + 1 : list'.ends[j] <= Len(list'.values)
  <2>1. Len(list.values) \in Nat /\ Len(xs) \in Nat /\ \A j \in 1 .. n : list.ends[j] \in Nat
    BY <1>2, <1>3
  <2>2. ASSUME NEW j \in 1 .. n PROVE list'.ends[j] <= Len(new)
    <3> HIDE DEF n, xs, new
    <3>1. list.ends[j] <= Len(list.values)
      BY DEF ListInv, n
    <3> QED
      BY <1>3, <1>5, <2>1, <3>1
  <2>3. list'.ends[n + 1] <= Len(list'.values) /\ Len(list'.values) = list'.ends[Len(rows')]
    <3>1. Len(rows') = n + 1 /\ list'.values = new /\ list'.ends[n + 1] = Len(new)
      BY <1>4, <1>6
    <3> HIDE DEF n, xs, new
    <3> QED
      BY <1>3, <3>1
  <2> HIDE DEF n, xs, new
  <2>4. ASSUME NEW j \in 1 .. n + 1 PROVE list'.ends[j] <= Len(list'.values)
    <3>1. j \in 1 .. n \/ j = n + 1
      BY <1>2
    <3> QED
      BY <1>4, <2>2, <2>3, <3>1
  <2> QED
    BY <2>3, <2>4
<1>8. ASSUME NEW j \in 1 .. n PROVE ListCell(j)' = rows[j].as_path
  <2> DEFINE start == IF j = 1 THEN 1 ELSE list.ends[j - 1] + 1
  <2>1. start \in Nat \ {0} /\ list.ends[j] \in Nat /\ list.ends[j] <= Len(list.values)
    BY <1>2, <1>3, <1>8, SMTT(30) DEF ListInv
  <2>2. SubSeq(new, start, list.ends[j]) = SubSeq(list.values, start, list.ends[j])
    <3> HIDE DEF start, xs
    <3> QED
      BY <1>3, <2>1, EarlierKept
  <2>3. start = IF j = 1 THEN 1 ELSE list'.ends[j - 1] + 1
    BY <1>2, <1>5, <1>8
  <2>4. ListCell(j)' = ListCell(j)
    BY <1>4, <1>5, <1>8, <2>2, <2>3 DEF ListCell
  <2> QED
    BY <2>4 DEF ListInv
<1>9. ASSUME NEW j, j = n + 1 PROVE ListCell(j)' = row.as_path
  <2>1. (IF j = 1 THEN 1 ELSE list'.ends[j - 1] + 1) = Len(list.values) + 1
    BY <1>2, <1>5, <1>9 DEF ListInv
  <2>2. SubSeq(new, Len(list.values) + 1, Len(new)) = xs
    BY <1>3, LastRead
  <2>3. ListCell(j)' = IF row.as_path = Null THEN Null ELSE xs
    <3> HIDE DEF xs, new, n
    <3> QED
      BY <1>4, <1>6, <1>9, <2>1, <2>2 DEF ListCell
  <2> QED
    BY <2>3
<1>10. ASSUME NEW j \in 1 .. n + 1 PROVE ListCell(j)' = rows'[j].as_path
  <2>1. j \in 1 .. n \/ j = n + 1
    BY <1>2
  <2> HIDE DEF n
  <2> QED
    BY <1>5, <1>6, <1>8, <1>9, <2>1
<1> HIDE DEF n, xs, new
<1>11. Len(rows') # 0
  BY <1>2, <1>6
<1> QED
  BY <1>6, <1>7, <1>10, <1>11 DEF ListInv

\* Every struct and every timestamp is still its row's.
LEMMA CellStep ==
  ASSUME ColumnsType, InetInv, TsInv, AddRow
  PROVE  InetInv' /\ TsInv'
<1>1. PICK row \in Rows :
        /\ rows' = Append(rows, row)
        /\ ts' = Append(ts, RowTs(row))
        /\ inet' = WithInet(inet, row.prefix)
  BY DEF AddRow
<1> DEFINE n == Len(rows)
           cell == IF row.prefix = Null THEN [ip_type |-> 0, address |-> 0, mask |-> 0]
                   ELSE Encode(row.prefix.ip, row.prefix.mask)
<1>2. /\ n \in Nat /\ Len(ts) = n /\ Len(inet.ip_type) = n /\ Len(inet.address) = n
      /\ Len(inet.mask) = n /\ Len(inet.valid) = n
  BY DEF ColumnsType, Lengths
<1>3. /\ Len(rows') = n + 1 /\ rows'[n + 1] = row
      /\ \A j \in 1 .. n : rows'[j] = rows[j]
  BY <1>1 DEF ColumnsType
<1>4. TsInv'
  <2>1. ts'[n + 1] = RowTs(row) /\ \A j \in 1 .. n : ts'[j] = ts[j]
    BY <1>1, <1>2 DEF ColumnsType
  <2> QED
    BY <1>2, <1>3, <2>1 DEF TsInv
<1>5. /\ inet'.ip_type = Append(inet.ip_type, cell.ip_type)
      /\ inet'.address = Append(inet.address, cell.address)
      /\ inet'.mask = Append(inet.mask, cell.mask)
      /\ inet'.valid = Append(inet.valid, row.prefix # Null)
  BY <1>1 DEF WithInet
<1>6. ASSUME NEW j \in 1 .. n PROVE InetCell(j)' = Cell(rows[j].prefix)
  <2>1. /\ inet'.ip_type[j] = inet.ip_type[j] /\ inet'.address[j] = inet.address[j]
        /\ inet'.mask[j] = inet.mask[j] /\ inet'.valid[j] = inet.valid[j]
    BY <1>2, <1>5, <1>6, SMTT(30) DEF ColumnsType
  <2> QED
    BY <2>1 DEF InetCell, InetInv
<1>7. ASSUME NEW j, j = n + 1 PROVE InetCell(j)' = Cell(row.prefix)
  <2>1. /\ inet'.ip_type[j] = cell.ip_type /\ inet'.address[j] = cell.address
        /\ inet'.mask[j] = cell.mask
    <3>1. /\ inet.ip_type \in Seq(Nat) /\ inet.address \in Seq(Int)
          /\ inet.mask \in Seq(Nat)
      BY DEF ColumnsType
    <3> HIDE DEF cell, n
    <3>2. inet'.ip_type[n + 1] = cell.ip_type
      BY <1>2, <1>5, <3>1
    <3>3. inet'.address[n + 1] = cell.address
      BY <1>2, <1>5, <3>1
    <3>4. inet'.mask[n + 1] = cell.mask
      BY <1>2, <1>5, <3>1
    <3> QED
      BY <1>7, <3>2, <3>3, <3>4
  <2>2. inet'.valid[j] = (row.prefix # Null)
    <3>1. inet.valid \in Seq(BOOLEAN)
      BY DEF ColumnsType
    <3>2. Append(inet.valid, row.prefix # Null)[Len(inet.valid) + 1] = (row.prefix # Null)
      BY <3>1
    <3> QED
      BY <1>2, <1>5, <1>7, <3>2
  <2>3. CASE row.prefix = Null
    BY <2>2, <2>3 DEF InetCell, Cell
  <2>4. CASE row.prefix # Null
    BY <2>1, <2>2, <2>4 DEF InetCell, Cell, Encode
  <2> QED
    BY <2>3, <2>4
<1>8. ASSUME NEW j \in 1 .. n + 1 PROVE InetCell(j)' = Cell(rows'[j].prefix)
  <2>1. j \in 1 .. n \/ j = n + 1
    BY <1>2
  <2> HIDE DEF n
  <2> QED
    BY <1>3, <1>6, <1>7, <2>1
<1>9. InetInv'
  <2> HIDE DEF n
  <2> QED
    BY <1>3, <1>8 DEF InetInv, Cell
<1> QED
  BY <1>4, <1>9

\* An empty batch has empty columns.
LEMMA InitIInv == Init => IInv
<1> SUFFICES ASSUME Init PROVE IInv
  OBVIOUS
<1>1. ColumnsType
  BY DEF Init, ColumnsType, Lengths
<1>2. Len(rows) = 0 /\ Len(list.values) = 0
  BY DEF Init
<1> QED
  BY <1>1, <1>2 DEF IInv, ListInv, InetInv, TsInv

\* Every step keeps the columns in line with the rows.
LEMMA NextIInv == IInv /\ [AddRow]_vars => IInv'
<1> SUFFICES ASSUME IInv, [AddRow]_vars PROVE IInv'
  OBVIOUS
<1>1. CASE AddRow
  BY <1>1, TypeStep, ListStep, CellStep DEF IInv
<1>2. CASE UNCHANGED vars
  BY <1>2 DEF vars, IInv, ColumnsType, Lengths, ListInv, ListCell, InetInv, InetCell, TsInv
<1> QED
  BY <1>1, <1>2

\* The path read back for a row is the row's, whatever the rows around it lack.
THEOREM PathsKept == Spec => []PathsReadBack
<1>1. IInv => PathsReadBack
  BY DEF IInv, ColumnsType, ListInv, PathsReadBack
<1> QED
  BY InitIInv, NextIInv, <1>1, PTL DEF Spec

\* The fields an error row is given, and those other rows are.
LEMMA GivenFields ==
  ASSUME NEW row \in Rows
  PROVE  /\ row.error => row.given = {"error"} /\ row.as_path = Null /\ row.prefix = Null
         /\ ~row.error => "error" \notin row.given
<1>1. CASE row = ErrorRow
  BY <1>1 DEF ErrorRow
<1>2. CASE row # ErrorRow
  <2>1. row \in Announces \cup Withdraws \cup StateChanges
    BY <1>2 DEF Rows
  <2>2. row.error = FALSE /\ row.given \in {RouteFields, ElemFields, StateFields}
    BY <2>1 DEF Announces, Withdraws, StateChanges
  <2> QED
    BY <2>2 DEF RouteFields, ElemFields, StateFields
<1> QED
  BY <1>1, <1>2

\* An error row has NULL fields and an error, whatever the column lists hold, and
\* every other row a time and no error.
THEOREM ErrorRowsKept == Spec => []ErrorRowsAreNull
<1>1. ASSUME IInv PROVE ErrorRowsAreNull
  <2>1. ASSUME NEW j \in DOMAIN rows, NEW column
        PROVE  /\ rows[j].error =>
                    (BatchCell(column, j) = Null <=> column.from \notin {"error", "atomic_aggregate"})
               /\ ~rows[j].error =>
                    /\ column.from = "timestamp_us" => BatchCell(column, j) # Null
                    /\ column.from = "error" => BatchCell(column, j) = Null
    <3>0. rows \in Seq(Rows) /\ j \in 1 .. Len(rows)
      BY <1>1, <2>1 DEF IInv, ColumnsType
    <3>1. /\ rows[j] \in Rows /\ ts[j] = RowTs(rows[j])
          /\ ListCell(j) = rows[j].as_path /\ InetCell(j) = Cell(rows[j].prefix)
      BY <1>1, <3>0 DEF IInv, TsInv, ListInv, InetInv
    <3>2. ts[j] = Null <=> rows[j].error
      BY <3>1, RowFields, NullAssumption DEF RowTs
    <3>3. /\ rows[j].error =>
               /\ ListCell(j) = Null /\ InetCell(j) = Null
               /\ \A from : PlainCell(j, from) = Null <=> from # "error"
          /\ ~rows[j].error => PlainCell(j, "error") = Null
      <4>1. "error" # Null
        BY NullAssumption
      <4> QED
        BY <3>1, <4>1, GivenFields DEF Cell, PlainCell
    <3>4. atomic[j] # Null
      <4>1. atomic \in Seq(BOOLEAN) /\ Len(atomic) = Len(rows)
        BY <1>1 DEF IInv, ColumnsType, Lengths
      <4>2. atomic[j] \in BOOLEAN
        BY <3>0, <4>1
      <4> QED
        BY <4>2, NullAssumption
    <3> QED
      BY <3>2, <3>3, <3>4 DEF BatchCell
  <2> QED
    BY <2>1 DEF ErrorRowsAreNull
<1> QED
  BY InitIInv, NextIInv, <1>1, PTL DEF Spec

\* Struct cells compare as their prefixes do, for every width of an address.
THEOREM InetOrderKept == Spec => []InetKeepsOrder
<1>1. ASSUME IInv PROVE InetKeepsOrder
  <2>1. ASSUME NEW j \in DOMAIN rows, NEW k \in DOMAIN rows,
               rows[j].prefix # Null, rows[k].prefix # Null
        PROVE  LET p == rows[j].prefix  q == rows[k].prefix
                   c == InetCell(j)     d == InetCell(k)
               IN /\ c = d <=> p = q
                  /\ p.ip.v = q.ip.v => (c.address < d.address <=> p.ip.bits < q.ip.bits)
    <3> DEFINE p == rows[j].prefix
               q == rows[k].prefix
    <3>0. rows \in Seq(Rows) /\ j \in 1 .. Len(rows) /\ k \in 1 .. Len(rows)
      BY <1>1, <2>1 DEF IInv, ColumnsType
    <3>1. p \in [ip : IpAddr, mask : Nat] /\ q \in [ip : IpAddr, mask : Nat]
      BY <2>1, <3>0, RowFields
    <3>2. InetCell(j) = Encode(p.ip, p.mask) /\ InetCell(k) = Encode(q.ip, q.mask)
      BY <1>1, <2>1, <3>0 DEF IInv, InetInv, Cell
    <3>3. InetCell(j) = InetCell(k) <=> p = q
      BY <3>1, <3>2, EncodeInjective
    <3>4. p.ip.v = q.ip.v =>
            (Address(p.ip) < Address(q.ip) <=> p.ip.bits < q.ip.bits)
      BY <3>1, OrderPreserved
    <3>5. InetCell(j).address = Address(p.ip) /\ InetCell(k).address = Address(q.ip)
      BY <3>2 DEF Encode
    <3> QED
      BY <3>3, <3>4, <3>5
  <2> QED
    BY <2>1 DEF InetKeepsOrder
<1> QED
  BY InitIInv, NextIInv, <1>1, PTL DEF Spec

\* What the field of a schema calls for, and that a table has it, column by column.
Named(field) == Column(field.type, FieldNamed(field.name))
Fits(columns, schema) ==
  /\ Len(columns) = Len(schema)
  /\ \A i \in DOMAIN schema : columns[i] = Named(schema[i])

\* The three pairs of tables, written down apart, meet at every position.
LEMMA RibFits == Fits(RibColumns, RibSchema)
<1>1. Len(RibColumns) = 14 /\ Len(RibSchema) = 14 /\ DOMAIN RibSchema = 1 .. 14
  BY DEF RibColumns, RibSchema, Column, Field
<1>2. ASSUME NEW i \in 1 .. 14 PROVE RibColumns[i] = Named(RibSchema[i])
  BY DEF RibColumns, RibSchema, Column, Field, Named, FieldNamed
<1> QED
  BY <1>1, <1>2 DEF Fits

LEMMA UpdatesFit == Fits(UpdatesColumns, UpdatesSchema)
<1>1. Len(UpdatesColumns) = 12 /\ Len(UpdatesSchema) = 12 /\ DOMAIN UpdatesSchema = 1 .. 12
  BY DEF UpdatesColumns, UpdatesSchema, Column, Field
<1>2. ASSUME NEW i \in 1 .. 12 PROVE UpdatesColumns[i] = Named(UpdatesSchema[i])
  BY DEF UpdatesColumns, UpdatesSchema, Column, Field, Named, FieldNamed
<1> QED
  BY <1>1, <1>2 DEF Fits

LEMMA PeersFit == Fits(PeersColumns, PeersSchema)
<1>1. Len(PeersColumns) = 3 /\ Len(PeersSchema) = 3 /\ DOMAIN PeersSchema = 1 .. 3
  BY DEF PeersColumns, PeersSchema, Column, Field
<1>2. ASSUME NEW i \in 1 .. 3 PROVE PeersColumns[i] = Named(PeersSchema[i])
  BY DEF PeersColumns, PeersSchema, Column, Field, Named, FieldNamed
<1> QED
  BY <1>1, <1>2 DEF Fits

\* A batch of any rows shows under each name of its schema the cell of the field
\* of that name (arrow_io.rs:191, 225, 272).
THEOREM SchemasFit == Spec => []ColumnsFitSchema
<1>1. ASSUME NEW kind \in Kinds PROVE Fits(ColumnsOf(kind), SchemaOf(kind))
  <2>1. CASE kind = "rib"
    BY <2>1, RibFits DEF ColumnsOf, SchemaOf
  <2>2. CASE kind = "updates"
    BY <2>2, UpdatesFit DEF ColumnsOf, SchemaOf
  <2>3. CASE kind = "peers"
    BY <2>3, PeersFit DEF ColumnsOf, SchemaOf
  <2> QED
    BY <2>1, <2>2, <2>3 DEF Kinds
<1>2. ColumnsFitSchema
  BY <1>1 DEF ColumnsFitSchema, Fits, Named
<1> QED
  BY <1>2, PTL
=============================================================================

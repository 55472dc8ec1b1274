------------------------------ MODULE Schemas ------------------------------
(***************************************************************************)
(* The output schemas of read_rib, read_updates and peers, and the columns *)
(* built for them.  The two are written down apart and meet by position:   *)
(* Arrow compares their types, and cannot tell two columns of one type     *)
(* apart.                                                                  *)
(***************************************************************************)
EXTENDS Sequences

Kinds == {"rib", "updates", "peers"}

Field(name, type) == [name |-> name, type |-> type]

RibSchema ==
  <<Field("timestamp", "ts"), Field("view_name", "str"), Field("peer_ip", "inet"),
    Field("peer_asn", "u32"), Field("prefix", "inet"), Field("as_path", "list_u32"),
    Field("origin_asn", "u32"), Field("next_hop", "inet"), Field("communities", "list_str"),
    Field("med", "u32"), Field("local_pref", "u32"), Field("atomic_aggregate", "bool"),
    Field("aggregator_asn", "u32"), Field("error", "str")>>

UpdatesSchema ==
  <<Field("timestamp", "ts"), Field("peer_ip", "inet"), Field("peer_asn", "u32"),
    Field("message_type", "str"), Field("prefix", "inet"), Field("as_path", "list_u32"),
    Field("origin_asn", "u32"), Field("next_hop", "inet"), Field("communities", "list_str"),
    Field("old_state", "u16"), Field("new_state", "u16"), Field("error", "str")>>

PeersSchema ==
  <<Field("peer_ip", "inet"), Field("peer_asn", "u32"), Field("collector", "str")>>

SchemaOf(kind) ==
  CASE kind = "rib" -> RibSchema [] kind = "updates" -> UpdatesSchema [] kind = "peers" -> PeersSchema

\* A column: the builder, and the field of a row it takes its cells from.
Column(builder, from) == [builder |-> builder, from |-> from]

\* Mutant of RibColumns: two columns of one type change places.
RibColumnsSwapped ==
  <<Column("ts", "timestamp_us"), Column("str", "view_name"), Column("inet", "peer_ip"),
    Column("u32", "peer_asn"), Column("inet", "prefix"), Column("list_u32", "as_path"),
    Column("u32", "origin_asn"), Column("inet", "next_hop"), Column("list_str", "communities"),
    Column("u32", "local_pref"), Column("u32", "med"), Column("bool", "atomic_aggregate"),
    Column("u32", "aggregator_asn"), Column("str", "error")>>

RibColumns ==
  <<Column("ts", "timestamp_us"), Column("str", "view_name"), Column("inet", "peer_ip"),
    Column("u32", "peer_asn"), Column("inet", "prefix"), Column("list_u32", "as_path"),
    Column("u32", "origin_asn"), Column("inet", "next_hop"), Column("list_str", "communities"),
    Column("u32", "med"), Column("u32", "local_pref"), Column("bool", "atomic_aggregate"),
    Column("u32", "aggregator_asn"), Column("str", "error")>>

UpdatesColumns ==
  <<Column("ts", "timestamp_us"), Column("inet", "peer_ip"), Column("u32", "peer_asn"),
    Column("str", "msg_type"), Column("inet", "prefix"), Column("list_u32", "as_path"),
    Column("u32", "origin_asn"), Column("inet", "next_hop"), Column("list_str", "communities"),
    Column("u16", "old_state"), Column("u16", "new_state"), Column("str", "error")>>

PeersColumns ==
  <<Column("inet", "peer_ip"), Column("u32", "peer_asn"), Column("str", "collector")>>

ColumnsOf(kind) ==
  CASE kind = "rib" -> RibColumns [] kind = "updates" -> UpdatesColumns [] kind = "peers" -> PeersColumns
=============================================================================

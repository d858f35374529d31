------------------------------- MODULE Codec -------------------------------
(***************************************************************************)
(* Fixed-size structures and their byte layouts.  Each `serialize` of      *)
(* wal/mod.rs and storage/heap_page.rs appends the bytes of the fields in  *)
(* turn; each `deserialize` reads byte ranges written out as numbers.  The *)
(* two are given separately, so that they may disagree.  A byte is a pair: *)
(* the field value it is part of and its place in it.                      *)
(***************************************************************************)
EXTENDS Integers, Sequences

\* Fields in the order of serialize, with their widths.
ControlFileFields == <<
    <<"system_identifier", 8>>, <<"pg_control_version", 4>>, <<"catalog_version_no", 4>>,
    <<"check_point_lsn", 8>>, <<"redo_lsn", 8>>, <<"timeline", 4>>, <<"next_xid", 4>>,
    <<"next_oid", 4>>, <<"oldest_xid", 4>>, <<"oldest_commit_ts_xid", 4>>,
    <<"next_multixact_id", 4>>, <<"oldest_multixact_id", 4>>, <<"time_checkpoint", 8>> >>

\* The ranges deserialize reads, end exclusive.
ControlFileReads == [
    system_identifier |-> <<0, 8>>, pg_control_version |-> <<8, 12>>,
    catalog_version_no |-> <<12, 16>>, check_point_lsn |-> <<16, 24>>,
    redo_lsn |-> <<24, 32>>, timeline |-> <<32, 36>>, next_xid |-> <<36, 40>>,
    next_oid |-> <<40, 44>>, oldest_xid |-> <<44, 48>>,
    oldest_commit_ts_xid |-> <<48, 52>>, next_multixact_id |-> <<52, 56>>,
    oldest_multixact_id |-> <<56, 60>>, time_checkpoint |-> <<60, 68>>]

CheckpointFields == <<
    <<"next_xid", 4>>, <<"next_oid", 4>>, <<"next_multixact", 4>>, <<"oldest_xid", 4>>,
    <<"oldest_multixact", 4>>, <<"oldest_commit_ts_xid", 4>>, <<"new_commit_ts_xid", 4>>,
    <<"checkpoint_lsn", 8>>, <<"redo_lsn", 8>>, <<"timeline_id", 4>> >>

CheckpointReads == [
    next_xid |-> <<0, 4>>, next_oid |-> <<4, 8>>, next_multixact |-> <<8, 12>>,
    oldest_xid |-> <<12, 16>>, oldest_multixact |-> <<16, 20>>,
    oldest_commit_ts_xid |-> <<20, 24>>, new_commit_ts_xid |-> <<24, 28>>,
    checkpoint_lsn |-> <<28, 36>>, redo_lsn |-> <<36, 44>>, timeline_id |-> <<44, 48>>]

XLogPageHeaderFields == <<
    <<"xlp_magic", 2>>, <<"xlp_flags", 2>>, <<"xlp_tli", 4>>, <<"xlp_page_addr", 8>>,
    <<"xlp_max_block", 4>>, <<"xlp_checkpoint_copy", 8>> >>

XLogPageHeaderReads == [
    xlp_magic |-> <<0, 2>>, xlp_flags |-> <<2, 4>>, xlp_tli |-> <<4, 8>>,
    xlp_page_addr |-> <<8, 16>>, xlp_max_block |-> <<16, 20>>,
    xlp_checkpoint_copy |-> <<20, 28>>]

\* 24 bytes, the last four of which stay zero.
XLogRecordFields == <<
    <<"xl_tot_len", 4>>, <<"xl_xid", 4>>, <<"xl_info", 4>>, <<"xl_rmid", 1>>,
    <<"xl_pad", 3>>, <<"xl_crc", 4>> >>

XLogRecordReads == [
    xl_tot_len |-> <<0, 4>>, xl_xid |-> <<4, 8>>, xl_info |-> <<8, 12>>,
    xl_rmid |-> <<12, 13>>, xl_pad |-> <<13, 16>>, xl_crc |-> <<16, 20>>]

PageHeaderFields == <<
    <<"pd_lsn", 8>>, <<"pd_checksum", 4>>, <<"pd_flags", 2>>, <<"pd_lower", 2>>,
    <<"pd_upper", 2>>, <<"pd_special", 2>>, <<"pd_pagesize_version", 2>>,
    <<"pd_prune_xid", 4>> >>

PageHeaderReads == [
    pd_lsn |-> <<0, 8>>, pd_checksum |-> <<8, 12>>, pd_flags |-> <<12, 14>>,
    pd_lower |-> <<14, 16>>, pd_upper |-> <<16, 18>>, pd_special |-> <<18, 20>>,
    pd_pagesize_version |-> <<20, 22>>, pd_prune_xid |-> <<22, 26>>]

LinePointerFields == << <<"lp_offset", 2>>, <<"lp_flags", 2>> >>

LinePointerReads == [lp_offset |-> <<0, 2>>, lp_flags |-> <<2, 4>>]

-----------------------------------------------------------------------------
\* The bytes of one value, least significant first.
ToLeBytes(v, width) == [i \in 1..width |-> <<v, i>>]

\* Bytes of the fields one after the other.
SerializeFields(fields, rec) ==
    LET upto[n \in 0..Len(fields)] ==
          IF n = 0 THEN << >>
          ELSE upto[n - 1] \o ToLeBytes(rec[fields[n][1]], fields[n][2])
    IN  upto[Len(fields)]

Garbled == "garbled"

\* from_le_bytes of a range: a value only if the range is all of it.
FromLeBytes(bytes, range) ==
    LET slice == SubSeq(bytes, range[1] + 1, range[2])
        v == slice[1][1]
    IN  IF slice = ToLeBytes(v, range[2] - range[1]) THEN v ELSE Garbled

DeserializeFields(reads, bytes) == [f \in DOMAIN reads |-> FromLeBytes(bytes, reads[f])]

\* A structure whose fields all differ comes back as it was.
Agree(fields, reads) ==
    LET rec == [f \in DOMAIN reads |-> f] IN
    /\ DOMAIN reads = {fields[n][1] : n \in DOMAIN fields}
    /\ DeserializeFields(reads, SerializeFields(fields, rec)) = rec

(* What is read back is what was written: the byte ranges of each           *)
(* deserialize are where serialize puts the fields, for the control file, a *)
(* checkpoint record, the headers of log pages, log records and heap pages, *)
(* and a line pointer.                                                      *)
LayoutsAgree ==
    /\ Agree(ControlFileFields, ControlFileReads)
    /\ Agree(CheckpointFields, CheckpointReads)
    /\ Agree(XLogPageHeaderFields, XLogPageHeaderReads)
    /\ Agree(XLogRecordFields, XLogRecordReads)
    /\ Agree(PageHeaderFields, PageHeaderReads)
    /\ Agree(LinePointerFields, LinePointerReads)

=============================================================================

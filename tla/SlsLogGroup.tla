----------------------------- MODULE SlsLogGroup -----------------------------
(***************************************************************************)
(* The log group and log item handles of the C API (sls_c_api.cpp), through *)
(* which the plugin builds one PutLogs request record by record.           *)
(*                                                                         *)
(* A group keeps a running sum of the wire sizes of its logs, added when   *)
(* an item's handle is destroyed, so that the flush loop can ask for the   *)
(* group's size after every record without encoding the whole group again. *)
(* The sum is built by code of its own (a tag of one byte, a loop counting *)
(* the bytes of a varint), beside the encoder it has to agree with.        *)
(*                                                                         *)
(* Every allocation may fail; the C API swallows the exception.            *)
(***************************************************************************)
EXTENDS SlsProtobuf

CONSTANTS
  Contents,     \* the [key, value] lengths a caller adds
  Stamps,       \* the [time, time_ns] of its logs
  Labels,       \* the [topic, source] lengths of its groups
  MaxLogs,      \* bound: logs per group
  MaxContents   \* bound: contents per log

ASSUME LogGroupAssumption ==
  /\ Contents \subseteq [key : Nat, value : Nat]
  /\ Stamps \subseteq [time : Nat, time_ns : Nat]
  /\ Labels \subseteq [topic : Nat, source : Nat]
  /\ MaxLogs \in Nat /\ MaxContents \in Nat

VARIABLES
  group,         \* the LogGroup the handle owns, or NULL
  encoded_size,  \* the sum of the wire sizes of the logs counted so far
  items,         \* the indices of the logs whose item handle is open
  unsized        \* ghost: logs whose size an allocation failure kept out of the sum

vars == <<group, encoded_size, items, unsized>>

NULL == [logs |-> <<>>, topic |-> -1, source |-> -1]

Log == [time : Nat, time_ns : Nat, contents : Seq([key : Nat, value : Nat])]

Init ==
  /\ group = NULL
  /\ encoded_size = 0
  /\ items = {}
  /\ unsized = {}

-----------------------------------------------------------------------------

\* aliyun_sls_log_group_create; when an allocation fails it returns NULL and
\* nothing has changed.
GroupCreate(label) ==
  /\ group = NULL
  /\ group' = [logs |-> <<>>, topic |-> label.topic, source |-> label.source]
  /\ encoded_size' = 0
  /\ UNCHANGED <<items, unsized>>

\* aliyun_sls_log_group_destroy. An item points into its group, so a caller
\* destroys the items first.
GroupDestroy ==
  /\ group # NULL
  /\ items = {}
  /\ group' = NULL
  /\ encoded_size' = 0
  /\ unsized' = {}
  /\ UNCHANGED items

NewLog(stamp) == [time |-> stamp.time, time_ns |-> stamp.time_ns, contents |-> <<>>]

\* aliyun_sls_log_group_add_log: the log goes in before its handle is allocated.
AddLog(stamp) ==
  /\ group # NULL
  /\ Len(group.logs) < MaxLogs
  /\ group' = [group EXCEPT !.logs = Append(@, NewLog(stamp))]
  /\ items' = items \cup {Len(group.logs) + 1}
  /\ UNCHANGED <<encoded_size, unsized>>

\* ... and stays there, without a handle, when that allocation fails.
AddLogNoItem(stamp) ==
  /\ group # NULL
  /\ Len(group.logs) < MaxLogs
  /\ group' = [group EXCEPT !.logs = Append(@, NewLog(stamp))]
  /\ UNCHANGED <<encoded_size, items, unsized>>

\* Mutant of AddContent: the content goes to the newest log, not the item's.
AddContentToNewest(i, content) ==
  /\ i \in items
  /\ Len(Last(group.logs).contents) < MaxContents
  /\ group' = [group EXCEPT !.logs[Len(group.logs)].contents = Append(@, content)]
  /\ UNCHANGED <<encoded_size, items, unsized>>

\* aliyun_sls_log_item_add_content; a null key or a failed allocation returns -1
\* and changes nothing.
AddContent(i, content) ==
  /\ i \in items
  /\ Len(group.logs[i].contents) < MaxContents
  /\ group' = [group EXCEPT !.logs[i].contents = Append(@, content)]
  /\ UNCHANGED <<encoded_size, items, unsized>>

\* The bytes the loop `for (v = len; v >= 0x80; v >>= 7) ++varint_len` counts.
VarintLen[len \in Nat] == IF len >= 128 THEN 1 + VarintLen[len \div 128] ELSE 1

\* Mutant of Framed: a length is taken to fit one byte up to 128.
FramedLate(len) == 1 + VarintLen[IF len = 128 THEN 127 ELSE len] + len

\* The wire size of a length-delimited field as the C API counts it.
Framed(len) == 1 + VarintLen[len] + len

\* aliyun_sls_log_item_destroy: a log the encoder rejects adds nothing.
ItemDestroy(i) ==
  /\ i \in items
  /\ encoded_size' = IF LogEncodable(group.logs[i])
                     THEN encoded_size + Framed(LogSize(group.logs[i]))
                     ELSE encoded_size
  /\ items' = items \ {i}
  /\ UNCHANGED <<group, unsized>>

\* ... and neither does a log whose encoding cannot be allocated.
ItemDestroyUnsized(i) ==
  /\ i \in items
  /\ items' = items \ {i}
  /\ unsized' = unsized \cup {i}
  /\ UNCHANGED <<group, encoded_size>>

\* aliyun_sls_log_group_encoded_size of a live group.
EncodedSize ==
  encoded_size + (IF group.topic = 0 THEN 0 ELSE Framed(group.topic))
               + (IF group.source = 0 THEN 0 ELSE Framed(group.source))

-----------------------------------------------------------------------------

Next ==
  \/ \E label \in Labels : GroupCreate(label)
  \/ GroupDestroy
  \/ \E stamp \in Stamps : AddLog(stamp) \/ AddLogNoItem(stamp)
  \/ \E i \in items :
       \/ \E content \in Contents : AddContent(i, content)
       \/ ItemDestroy(i)
       \/ ItemDestroyUnsized(i)

Spec == Init /\ [][Next]_vars

-----------------------------------------------------------------------------

\* The logs whose size the group has counted.
Counted == {i \in DOMAIN group.logs \ (items \cup unsized) : LogEncodable(group.logs[i])}

\* The logs at the positions in S, in their order.
LogsAt(logs, S) ==
  LET kept[n \in 0 .. Len(logs)] ==
        IF n = 0 THEN <<>>
        ELSE IF n \in S THEN Append(kept[n - 1], logs[n])
        ELSE kept[n - 1]
  IN  kept[Len(logs)]

\* The size the flush loop compares with its limit is the number of bytes the
\* encoder produces for the counted logs: the hand-written framing arithmetic
\* of item_destroy and encoded_size agrees with encodeLogGroup, whatever the
\* order in which several open items are filled and destroyed.
EncodedSizeExact ==
  group # NULL =>
    EncodedSize = GroupSize([group EXCEPT !.logs = LogsAt(group.logs, Counted)])

\* Until it is destroyed a group never takes back what it counted: a counted
\* log is not written to again and keeps its size in the sum.
CountedIsFinal ==
  [][group' # NULL /\ group # NULL =>
       /\ encoded_size' >= encoded_size
       /\ \A i \in Counted : i \in Counted' /\ group'.logs[i] = group.logs[i]]_vars

=============================================================================

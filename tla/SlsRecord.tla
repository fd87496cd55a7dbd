------------------------------ MODULE SlsRecord ------------------------------
(***************************************************************************)
(* How cb_sls_flush turns one event into one log: its time stamp, and      *)
(* msgpack_object_to_sds for every key and value of its body.              *)
(*                                                                         *)
(* A value is [kind, text, parts]:                                         *)
(*   "scalar"  its text, <<>> for nil and the extension types,             *)
(*   "map"     parts: the pairs <<key, value>>,                            *)
(*   "array"   parts: the elements <<element>>.                            *)
(* An event is [sec, body]; its body is a value, or kind "none". Text is a *)
(* sequence of tokens, of which "NUL" is the zero byte: a string or binary *)
(* value may hold it, and the C API takes C strings. Any allocation may    *)
(* fail: a failing creation returns NULL, a failing concatenation returns  *)
(* NULL and leaves its string where it was, and a concatenation to NULL is *)
(* undefined behaviour.                                                    *)
(***************************************************************************)
EXTENDS Integers, Sequences, FiniteSets

CONSTANTS
  Token,     \* what text is made of
  Value,     \* the values, with every part of each
  Event,     \* the events: [sec, body]
  MaxDepth,  \* how deep a value is written out (8)
  TimeRange, \* how many values a log's time can have (2^32)
  Now,       \* what time() returns
  Failing    \* bound: the sets of allocations, by number, that fail

Kind == {"scalar", "map", "array", "none"}

ASSUME RecordAssumption ==
  /\ {"{", "}", "[", "]", ",", ":", "<nested>", "message", "NUL"} \subseteq Token
  /\ Value \subseteq [kind : Kind, text : Seq(Token), parts : Seq(Seq(Value))]
  /\ \A value \in Value : \A i \in DOMAIN value.parts :
       Len(value.parts[i]) = IF value.kind = "map" THEN 2 ELSE 1
  /\ Event \subseteq [sec : Int, body : Value]
  /\ MaxDepth \in Nat
  /\ TimeRange \in Nat /\ Now \in 1 .. TimeRange - 1
  /\ Failing \subseteq SUBSET (Nat \ {0})

VARIABLES
  event,     \* the event being converted
  next,      \* the pair of its map the loop is at
  log,       \* the log: [time, contents], None before add_log
  m,         \* memory, see Memory
  pc         \* "event", "pairs", "done"

vars == <<event, next, log, m, pc>>

\* `failing`: which allocations fail; `n`: how many were made; `live`: strings not
\* destroyed; `crashed`: a NULL string was concatenated to.
Memory == [failing : Failing, n : Nat, live : Int, crashed : BOOLEAN]

None == [time |-> -1, contents |-> <<>>]

Init ==
  /\ event \in Event
  /\ next = 1
  /\ log = None
  /\ \E failing \in Failing : m = [failing |-> failing, n |-> 0, live |-> 0, crashed |-> FALSE]
  /\ pc = "event"

-----------------------------------------------------------------------------
(* Strings. An operation returns [m, s, null]: the memory after it and the *)
(* string, if there is one.                                                *)

Fails(mem) == mem.n + 1 \in mem.failing
Counted(mem) == [mem EXCEPT !.n = @ + 1]

Null(mem) == [m |-> mem, s |-> <<>>, null |-> TRUE]

\* flb_sds_create
Create(mem, text) ==
  IF Fails(mem) THEN Null(Counted(mem))
  ELSE [m |-> [Counted(mem) EXCEPT !.live = @ + 1], s |-> text, null |-> FALSE]

\* flb_sds_destroy, which accepts NULL
Destroyed(mem, r) == IF r.null THEN mem ELSE [mem EXCEPT !.live = @ - 1]

\* flb_sds_cat
Cat(r, text) ==
  IF r.null THEN [r EXCEPT !.m.crashed = TRUE]
  ELSE IF Fails(r.m) THEN Null(Counted(r.m))
  ELSE [r EXCEPT !.m = Counted(@), !.s = @ \o text]

Open(kind) == IF kind = "map" THEN <<"{">> ELSE <<"[">>
Close(kind) == IF kind = "map" THEN <<"}">> ELSE <<"]">>

\* Mutant of Separated: the comma is left to the first part.
CommaFirst(r, i) == IF i = 1 THEN Cat(r, <<",">>) ELSE r

Separated(r, i) == IF i > 1 THEN Cat(r, <<",">>) ELSE r

\* One pass of the loop over an array, whose text so far is r: Convert is
\* msgpack_object_to_sds one level down.
AddElement(Convert, r, i, part) ==
  LET e   == Convert[<<r.m, part[1]>>]
      cat == Cat(Separated([r EXCEPT !.m = e.m], i), e.s)
  IN  IF e.null THEN Null(Destroyed(e.m, r))
      ELSE [cat EXCEPT !.m = Destroyed(@, e)]

\* One pass of the loop over a map: the value is converted whether or not the key
\* could be.
AddEntry(Convert, r, i, part) ==
  LET k   == Convert[<<r.m, part[1]>>]
      v   == Convert[<<k.m, part[2]>>]
      cat == Cat(Cat(Cat(Separated([r EXCEPT !.m = v.m], i), k.s), <<":">>), v.s)
  IN  IF k.null \/ v.null THEN Null(Destroyed(Destroyed(Destroyed(v.m, k), v), r))
      ELSE [cat EXCEPT !.m = Destroyed(Destroyed(@, k), v)]

\* The loop is left when there is no text any more.
AddPart(Convert, r, i, value) ==
  IF r.null THEN r
  ELSE IF value.kind = "map" THEN AddEntry(Convert, r, i, value.parts[i])
  ELSE AddElement(Convert, r, i, value.parts[i])

AddParts(Convert, r, value) ==
  LET pass[i \in 0 .. Len(value.parts)] ==
        IF i = 0 THEN r ELSE AddPart(Convert, pass[i - 1], i, value)
  IN  pass[Len(value.parts)]

Container(Convert, mem, value) ==
  LET whole == AddParts(Convert, Create(mem, Open(value.kind)), value)
  IN  IF whole.null THEN whole ELSE Cat(whole, Close(value.kind))

\* msgpack_object_to_sds, by the number of levels that may still be written out: none
\* at a depth over MaxDepth.
ToSds[levels \in 0 .. MaxDepth + 1] ==
  [c \in Memory \X Value |->
     IF levels = 0 THEN Create(c[1], <<"<nested>">>)
     ELSE IF c[2].kind \in {"map", "array"} THEN Container(ToSds[levels - 1], c[1], c[2])
     ELSE Create(c[1], c[2].text)]

\* At depth 0.
Sds(mem, value) == ToSds[MaxDepth + 1][<<mem, value>>]

-----------------------------------------------------------------------------
(* The event.                                                              *)

\* The cast to uint32_t.
LogTime(sec) == IF sec % TimeRange = 0 THEN Now ELSE sec % TimeRange

IsMap == event.body.kind = "map"

\* What safeString makes of a const char *: the text before its first NUL.
CString(text) == SubSeq(text, 1, Cardinality({i \in DOMAIN text : \A j \in 1 .. i : text[j] # "NUL"}))

\* aliyun_sls_log_item_add_content, whose failure is not looked at.
AddContent(mem, key, value) ==
  /\ m' = Counted(mem)
  /\ log' = [log EXCEPT !.contents =
               IF Fails(mem) THEN @
               ELSE Append(@, [key |-> CString(key), value |-> CString(value)])]

\* add_log; an event whose log cannot be added is skipped (SlsFlush).
AddLog ==
  /\ pc = "event"
  /\ log' = [None EXCEPT !.time = LogTime(event.sec)]
  /\ pc' = "pairs"
  /\ UNCHANGED <<event, next, m>>

AddMessage ==
  /\ pc = "pairs"
  /\ ~IsMap
  /\ IF event.body.kind = "none"
     THEN AddContent(m, <<"message">>, <<>>)
     ELSE LET val == Sds(m, event.body)
          IN  AddContent(Destroyed(val.m, val), <<"message">>, val.s)
  /\ pc' = "done"
  /\ UNCHANGED <<event, next>>

\* Mutant of Usable: the length of the key is not tested.
UsableIfThere(key) == ~key.null

\* The length is flb_sds_len's: a key that starts with a NUL is usable too.
Usable(key) == ~key.null /\ key.s # <<>>

\* Mutant of AfterPair: the value of an unusable pair stays.
AfterPairSkips(key, val) ==
  IF Usable(key) THEN Destroyed(Destroyed(val.m, key), val) ELSE val.m

AfterPair(key, val) == Destroyed(Destroyed(val.m, key), val)

AddPair ==
  /\ pc = "pairs"
  /\ IsMap /\ next <= Len(event.body.parts)
  /\ LET key == Sds(m, event.body.parts[next][1])
         val == Sds(key.m, event.body.parts[next][2])
     IN  IF Usable(key)
         THEN AddContent(AfterPair(key, val), key.s, val.s)
         ELSE m' = AfterPair(key, val) /\ UNCHANGED log
  /\ next' = next + 1
  /\ UNCHANGED <<event, pc>>

DestroyItem ==
  /\ pc = "pairs"
  /\ IsMap /\ next > Len(event.body.parts)
  /\ pc' = "done"
  /\ UNCHANGED <<event, next, log, m>>

Next == ~m.crashed /\ (AddLog \/ AddMessage \/ AddPair \/ DestroyItem)

Spec == Init /\ [][Next]_vars

-----------------------------------------------------------------------------
(* What a value reads as.                                                  *)

\* Texts with a separator between them.
Joined(texts, separator) ==
  LET join[i \in 0 .. Len(texts)] ==
        CASE i = 0 -> <<>>
          [] i = 1 -> texts[1]
          [] OTHER -> join[i - 1] \o separator \o texts[i]
  IN  join[Len(texts)]

\* A value in full: the parts of a container between its brackets, with commas, and
\* with "<nested>" for what is deeper than the levels that are written.
Text[levels \in 0 .. MaxDepth + 1] ==
  [value \in Value |->
     IF levels = 0 THEN <<"<nested>">>
     ELSE IF value.kind \in {"map", "array"}
     THEN LET part(i)  == [j \in DOMAIN value.parts[i] |-> Text[levels - 1][value.parts[i][j]]]
              parts    == [i \in DOMAIN value.parts |-> Joined(part(i), <<":">>)]
          IN  Open(value.kind) \o Joined(parts, <<",">>) \o Close(value.kind)
     ELSE value.text]

TextOf(value) == Text[MaxDepth + 1][value]

\* The fields of the event the loop has passed.
Passed == IF IsMap THEN 1 .. next - 1 ELSE IF pc = "done" THEN {1} ELSE {}

\* A field's key and value as the event has them.
Whole(f) ==
  IF IsMap
  THEN [key |-> TextOf(event.body.parts[f][1]), value |-> TextOf(event.body.parts[f][2])]
  ELSE [key |-> <<"message">>,
        value |-> IF event.body.kind = "none" THEN <<>> ELSE TextOf(event.body)]

\* What is a field of a log: C strings.
Field(f) == [key |-> CString(Whole(f).key), value |-> CString(Whole(f).value)]

\* The fields that have a key.
Fields == {f \in Passed : Whole(f).key # <<>>}

-----------------------------------------------------------------------------

Faults(mem) == {i \in mem.failing : i <= mem.n}

\* The log holds the event's fields, in order, each value under its own key and
\* both up to their first NUL; an allocation that fails costs one field or its
\* value, and no other one.
FieldsFaithful ==
  ~m.crashed =>
    \E field \in [DOMAIN log.contents -> Fields] :
      LET blank == {i \in DOMAIN field : log.contents[i].value # Field(field[i]).value}
          lost  == Cardinality(Fields) - Len(log.contents)
      IN  /\ \A i, j \in DOMAIN field : i < j => field[i] < field[j]
          /\ \A i \in DOMAIN field : log.contents[i].key = Field(field[i]).key
          /\ \A i \in blank : log.contents[i].value = <<>>
          /\ lost + Cardinality(blank) <= Cardinality(Faults(m))

\* A time the record can hold is the log's time, and no log is without one.
TimeFaithful ==
  pc # "event" =>
    /\ event.sec \in 1 .. TimeRange - 1 => log.time = event.sec
    /\ log.time # 0

\* A log says what its event says.
LogFaithful == FieldsFaithful /\ TimeFaithful

\* Every string is destroyed, except one for each concatenation that failed.
LeaksAtMostFaults == ~m.crashed => m.live <= Cardinality(Faults(m))

\* What encodeLog takes (SlsProtobuf): contents, each with a key.
Encodable(contents) == contents # <<>> /\ \A i \in DOMAIN contents : contents[i].key # <<>>

\* The fields whose key is cut to nothing.
NulFields == {f \in Fields : Head(Whole(f).key) = "NUL"}

\* The encoder, which rejects a whole batch for one log, takes the log of an event
\* that has a field with a key, unless such a key starts with a NUL: the test for
\* empty keys does not see what the C API makes of that one. Only failed allocations
\* make a difference, one for each field they take away.
LogEncodable ==
  pc = "done" /\ ~m.crashed =>
    /\ NulFields = {} /\ Cardinality(Fields) > Cardinality(Faults(m)) => Encodable(log.contents)
    /\ Cardinality(NulFields) > Cardinality(Faults(m)) => ~Encodable(log.contents)

Flat == \A i \in DOMAIN event.body.parts : \A j \in DOMAIN event.body.parts[i] :
          event.body.parts[i][j].kind = "scalar"

\* Only a value that is written in pieces can bring the plugin down when memory
\* runs out, or leave a string behind: a record of plain values never does.
FlatRecordSurvives ==
  IsMap /\ Flat => ~m.crashed /\ m.live = 0

\* What the failures of one record cost the plugin is bounded by their number,
\* and nothing at all for a record of plain values.
FailuresContained == LeaksAtMostFaults /\ FlatRecordSurvives

=============================================================================

---------------------------- MODULE SlsTextProofs ----------------------------
(***************************************************************************)
(* Proofs about the conversions: of records to logs (SlsRecord) and of     *)
(* strings to the notations of a request (SlsText).                        *)
(*                                                                         *)
(* Records. Every string function is shown Good: what it returns is the    *)
(* text it should be, or NULL at the cost of a failed allocation, and      *)
(* every string it leaves behind costs one too. The costs of an event's    *)
(* allocations add up, so what is wrong with its log is bounded by them.   *)
(*                                                                         *)
(* Text. An encoded string is a sequence of chunks, one per byte or group  *)
(* of bytes; Located says where each lies in the whole. A reader that      *)
(* makes of each chunk what it was written for reads the string back.      *)
(***************************************************************************)
EXTENDS SlsRecord, SlsText, SlsLemmas

-----------------------------------------------------------------------------
(* Records: what an allocation costs.                                      *)

Cost(mem) == Cardinality(Faults(mem))

LEMMA MemoryType ==
  ASSUME NEW mem \in Memory
  PROVE  /\ mem.failing \in Failing /\ mem.failing \subseteq Nat \ {0}
         /\ mem.n \in Nat /\ mem.live \in Int /\ mem.crashed \in BOOLEAN
  BY RecordAssumption DEF Memory

LEMMA FaultsFinite ==
  ASSUME NEW mem \in Memory
  PROVE  IsFiniteSet(Faults(mem)) /\ Cost(mem) \in Nat
<1>1. IsFiniteSet(1 .. mem.n)
  BY MemoryType, FS_Interval
<1>2. Faults(mem) \subseteq 1 .. mem.n
  BY MemoryType DEF Faults
<1>3. IsFiniteSet(Faults(mem))
  BY <1>1, <1>2, FS_Subset
<1> QED
  BY <1>3, FS_CardinalityType DEF Cost

\* One allocation more costs 1 if it fails and nothing else.
LEMMA CountedCosts ==
  ASSUME NEW mem \in Memory
  PROVE  /\ Counted(mem) \in Memory
         /\ Counted(mem).failing = mem.failing /\ Counted(mem).live = mem.live
         /\ Counted(mem).crashed = mem.crashed
         /\ Cost(Counted(mem)) = Cost(mem) + (IF Fails(mem) THEN 1 ELSE 0)
<1>1. /\ Counted(mem) \in Memory
      /\ Counted(mem).failing = mem.failing /\ Counted(mem).live = mem.live
      /\ Counted(mem).crashed = mem.crashed /\ Counted(mem).n = mem.n + 1
  BY DEF Counted, Memory
<1>2. CASE Fails(mem)
  <2>1. Faults(Counted(mem)) = Faults(mem) \cup {mem.n + 1} /\ mem.n + 1 \notin Faults(mem)
    BY <1>1, <1>2, MemoryType DEF Faults, Fails
  <2>2. Cost(Counted(mem)) = Cost(mem) + 1
    BY <2>1, FaultsFinite, FS_AddElement DEF Cost
  <2> QED
    BY <1>1, <1>2, <2>2
<1>3. CASE ~Fails(mem)
  <2>1. Faults(Counted(mem)) = Faults(mem)
    BY <1>1, <1>3, MemoryType DEF Faults, Fails
  <2> QED
    BY <1>1, <1>3, <2>1, FaultsFinite DEF Cost
<1> QED
  BY <1>2, <1>3

\* Of two memories of one run, nothing but the failures between them counts.
LEMMA SameCost ==
  ASSUME NEW mem, NEW other, other.failing = mem.failing, other.n = mem.n
  PROVE  Cost(other) = Cost(mem)
  BY DEF Cost, Faults

-----------------------------------------------------------------------------
(* Strings. A result r is good for a text, from a memory on, when it is    *)
(* that text or NULL; NULL costs a failure, and so does every string left  *)
(* behind. `held` strings beside r are still to be destroyed.              *)

Converted == [m : Memory, s : Seq(Token), null : BOOLEAN]

Good(r, mem, text, held) ==
  /\ r \in Converted
  /\ r.m.failing = mem.failing
  /\ r.null => r.s = <<>>
  /\ ~r.m.crashed =>
       /\ ~mem.crashed
       /\ ~r.null => r.s = text
       /\ Cost(r.m) >= Cost(mem) + (IF r.null THEN 1 ELSE 0)
       /\ r.m.live + Cost(mem) <= mem.live + Cost(r.m) + held + (IF r.null THEN 0 ELSE 1)

LEMMA CreateGood ==
  ASSUME NEW mem \in Memory, NEW text \in Seq(Token)
  PROVE  Good(Create(mem, text), mem, text, 0)
<1> DEFINE c == Counted(mem)
<1>1. c \in Memory /\ c.failing = mem.failing /\ c.live = mem.live /\ c.crashed = mem.crashed
      /\ Cost(c) = Cost(mem) + (IF Fails(mem) THEN 1 ELSE 0)
  BY CountedCosts
<1>2. Cost(mem) \in Nat /\ mem.live \in Int
  BY FaultsFinite, MemoryType
<1>3. CASE Fails(mem)
  <2>1. Create(mem, text) = [m |-> c, s |-> <<>>, null |-> TRUE]
    BY <1>3 DEF Create, Null
  <2> HIDE DEF c
  <2> QED
    BY <1>1, <1>2, <1>3, <2>1 DEF Good, Converted
<1>4. CASE ~Fails(mem)
  <2> DEFINE more == [c EXCEPT !.live = @ + 1]
  <2>1. Create(mem, text) = [m |-> more, s |-> text, null |-> FALSE]
    BY <1>4 DEF Create
  <2> HIDE DEF c
  <2>2. /\ more \in Memory /\ more.failing = mem.failing /\ more.live = mem.live + 1
        /\ more.crashed = mem.crashed /\ more.n = c.n
    BY <1>1 DEF Memory
  <2>3. Cost(more) = Cost(c)
    BY <1>1, <2>2, SameCost
  <2> HIDE DEF more
  <2> QED
    BY <1>1, <1>2, <1>4, <2>1, <2>2, <2>3 DEF Good, Converted
<1> QED
  BY <1>3, <1>4

\* What is concatenated is at the end of the text. Only as long as nothing crashed is it
\* known what it is.
LEMMA CatGood ==
  ASSUME NEW r, NEW mem \in Memory, NEW text \in Seq(Token), NEW held \in Nat,
         NEW more \in Seq(Token), NEW said \in Seq(Token), Good(r, mem, text, held),
         ~r.m.crashed => more = said
  PROVE  /\ Good(Cat(r, more), mem, text \o said, held)
         /\ Cat(r, more).m.failing = r.m.failing
         /\ ~Cat(r, more).m.crashed =>
              ~r.m.crashed /\ ~r.null /\ Cost(Cat(r, more).m) >= Cost(r.m)
<1>1. r \in Converted /\ r.m \in Memory /\ Cost(mem) \in Nat /\ Cost(r.m) \in Nat
      /\ r.m.live \in Int /\ mem.live \in Int
  BY FaultsFinite, MemoryType DEF Good, Converted
<1>2. CASE r.null
  <2> DEFINE x == [r.m EXCEPT !.crashed = TRUE]
  <2>1. Cat(r, more) = [r EXCEPT !.m = x]
    BY <1>2 DEF Cat
  <2>2. x \in Memory /\ x.crashed = TRUE /\ x.failing = r.m.failing
    BY <1>1 DEF Memory
  <2> HIDE DEF x
  <2>3. Cat(r, more).m = x
    BY <1>1, <2>1 DEF Converted
  <2> QED
    BY <1>1, <1>2, <2>1, <2>2, <2>3 DEF Good, Converted
<1>3. CASE ~r.null
  <2> DEFINE c == Counted(r.m)
             new == r.s \o more
             res == Cat(r, more)
             lost == Fails(r.m)
  <2>1. c \in Memory /\ c.failing = r.m.failing /\ c.live = r.m.live /\ c.crashed = r.m.crashed
        /\ Cost(c) = Cost(r.m) + (IF lost THEN 1 ELSE 0)
    BY <1>1, CountedCosts
  <2>2. new \in Seq(Token) /\ <<>> \in Seq(Token)
    BY <1>1, ConcatProperties DEF Converted
  <2>3. res = IF lost THEN [m |-> c, s |-> <<>>, null |-> TRUE]
              ELSE [m |-> c, s |-> new, null |-> FALSE]
    <3>1. CASE lost
      BY <1>3, <3>1 DEF Cat, Null
    <3>2. CASE ~lost
      <4>1. res = [r EXCEPT !.m = c, !.s = new]
        BY <1>3, <3>2 DEF Cat
      <4> HIDE DEF c, new, res, lost
      <4>2. [r EXCEPT !.m = c, !.s = new] \in Converted
        BY <1>1, <2>1, <2>2 DEF Converted
      <4>3. /\ res \in Converted /\ res.m = c /\ res.s = new /\ res.null = r.null
        BY <1>1, <2>1, <2>2, <4>1, <4>2 DEF Converted
      <4> QED
        BY <1>3, <3>2, <4>3 DEF Converted
    <3> QED
      BY <3>1, <3>2
  <2>4. ~r.m.crashed => new = text \o said
    BY <1>3 DEF Good
  <2> HIDE DEF c, new, res, lost
  <2>5. ~c.crashed => ~mem.crashed /\ Cost(r.m) >= Cost(mem)
                      /\ r.m.live + Cost(mem) <= mem.live + Cost(r.m) + held + 1
    BY <1>1, <1>3, <2>1 DEF Good
  <2>6. c.failing = mem.failing
    BY <2>1 DEF Good
  <2>7. res \in Converted /\ res.m = c /\ (res.null <=> lost) /\ (lost => res.s = <<>>)
        /\ (~lost => res.s = new)
    <3>1. CASE lost
      BY <2>1, <2>2, <2>3, <3>1 DEF Converted
    <3>2. CASE ~lost
      BY <2>1, <2>2, <2>3, <3>2 DEF Converted
    <3> QED
      BY <3>1, <3>2
  <2>8. ~c.crashed => /\ Cost(c) >= Cost(mem) + (IF lost THEN 1 ELSE 0)
                      /\ c.live + Cost(mem) <= mem.live + Cost(c) + held + (IF lost THEN 0 ELSE 1)
    BY <1>1, <2>1, <2>5
  <2>9. Good(res, mem, text \o said, held)
    BY <2>1, <2>4, <2>5, <2>6, <2>7, <2>8 DEF Good
  <2>10. res.m.failing = r.m.failing /\ (~res.m.crashed => ~r.m.crashed /\ Cost(res.m) >= Cost(r.m))
    BY <1>1, <2>1, <2>7
  <2> QED
    BY <1>3, <2>9, <2>10 DEF res
<1> QED
  BY <1>2, <1>3

\* r2 is r with another memory.
Moved(r2, r, mem) ==
  r2 \in Converted /\ r2.m = mem /\ r2.s = r.s /\ (r2.null <=> r.null)

LEMMA MovedIs ==
  ASSUME NEW r \in Converted, NEW mem \in Memory
  PROVE  Moved([r EXCEPT !.m = mem], r, mem)
  BY DEF Moved, Converted

LEMMA DestroyedIs ==
  ASSUME NEW mem \in Memory, NEW x
  PROVE  /\ Destroyed(mem, x) \in Memory
         /\ Destroyed(mem, x).failing = mem.failing
         /\ Destroyed(mem, x).crashed = mem.crashed
         /\ Destroyed(mem, x).live = mem.live - (IF x.null THEN 0 ELSE 1)
         /\ Cost(Destroyed(mem, x)) = Cost(mem)
<1> DEFINE d == Destroyed(mem, x)
<1>1. /\ d \in Memory /\ d.failing = mem.failing /\ d.n = mem.n /\ d.crashed = mem.crashed
      /\ d.live = mem.live - (IF x.null THEN 0 ELSE 1)
  BY DEF Destroyed, Memory
<1> HIDE DEF d
<1>2. Cost(d) = Cost(mem)
  BY <1>1, SameCost
<1> QED
  BY <1>1, <1>2 DEF d

\* A conversion while r is held: if it is there, it is held beside r.
LEMMA MeanwhileGood ==
  ASSUME NEW r, NEW mem \in Memory, NEW text \in Seq(Token), NEW held \in Nat,
         NEW e, NEW other, NEW r2,
         Good(r, mem, text, held), ~r.null, Good(e, r.m, other, 0), Moved(r2, r, e.m)
  PROVE  /\ Good(r2, mem, text, held + (IF e.null THEN 0 ELSE 1))
         /\ ~e.m.crashed => /\ ~r.m.crashed
                            /\ Cost(e.m) >= Cost(r.m) + (IF e.null THEN 1 ELSE 0)
                            /\ Cost(r.m) >= Cost(mem)
<1>1. r \in Converted /\ r.m \in Memory /\ Cost(mem) \in Nat /\ Cost(r.m) \in Nat
      /\ r.m.live \in Int /\ mem.live \in Int
  BY FaultsFinite, MemoryType DEF Good, Converted
<1>2. e \in Converted /\ e.m \in Memory /\ Cost(e.m) \in Nat /\ e.m.live \in Int
  BY FaultsFinite, MemoryType DEF Good, Converted
<1>3. r2 \in Converted /\ r2.m = e.m /\ r2.s = r.s /\ (r2.null <=> r.null)
  BY DEF Moved
<1>4. e.m.failing = mem.failing
  BY DEF Good
<1>5. ~e.m.crashed => /\ ~r.m.crashed /\ ~mem.crashed /\ r.s = text
                      /\ Cost(r.m) >= Cost(mem)
                      /\ r.m.live + Cost(mem) <= mem.live + Cost(r.m) + held + 1
  BY <1>1 DEF Good
<1> DEFINE one == IF e.null THEN 1 ELSE 0
           held2 == held + (IF e.null THEN 0 ELSE 1)
<1>6. one \in Nat /\ held2 \in Nat /\ held + 1 = held2 + one
  OBVIOUS
<1>7. ~e.m.crashed => /\ Cost(e.m) >= Cost(r.m) + one
                      /\ e.m.live + Cost(r.m) <= r.m.live + Cost(e.m) + (1 - one)
  BY <1>1, <1>2 DEF Good
<1> HIDE DEF one, held2
<1>8. ~e.m.crashed => /\ Cost(e.m) >= Cost(mem) + 0
                      /\ e.m.live + Cost(mem) <= mem.live + Cost(e.m) + held2 + 1
  <2>1. /\ Cost(mem) \in Nat /\ Cost(r.m) \in Nat /\ Cost(e.m) \in Nat
        /\ r.m.live \in Int /\ mem.live \in Int /\ e.m.live \in Int
    BY <1>1, <1>2
  <2> DEFINE cm == Cost(mem)  cr == Cost(r.m)  ce == Cost(e.m)
             lm == mem.live   lr == r.m.live   le == e.m.live
  <2>2. ~e.m.crashed => cr >= cm /\ ce >= cr + one /\ lr + cm <= lm + cr + held + 1
                        /\ le + cr <= lr + ce + (1 - one)
    BY <1>5, <1>7
  <2>3. cm \in Nat /\ cr \in Nat /\ ce \in Nat /\ lm \in Int /\ lr \in Int /\ le \in Int
    BY <2>1
  <2> HIDE DEF cm, cr, ce, lm, lr, le
  <2>4. ~e.m.crashed => ce >= cm + 0 /\ le + cm <= lm + ce + held2 + 1
    BY <1>6, <2>2, <2>3
  <2> QED
    BY <2>4 DEF cm, ce, lm, le
<1>9. Good(r2, mem, text, held2)
  BY <1>1, <1>3, <1>4, <1>5, <1>8 DEF Good
<1> QED
  BY <1>5, <1>7, <1>9 DEF one, held2

\* A string that was held is destroyed.
LEMMA ReleaseGood ==
  ASSUME NEW r, NEW mem \in Memory, NEW text, NEW held \in Nat, NEW x, NEW r2,
         Good(r, mem, text, held + (IF x.null THEN 0 ELSE 1)),
         Moved(r2, r, Destroyed(r.m, x))
  PROVE  Good(r2, mem, text, held)
<1> DEFINE d == Destroyed(r.m, x)
<1>1. r \in Converted /\ r.m \in Memory /\ Cost(mem) \in Nat /\ Cost(r.m) \in Nat
      /\ r.m.live \in Int /\ mem.live \in Int
  BY FaultsFinite, MemoryType DEF Good, Converted
<1>2. /\ d \in Memory /\ d.failing = r.m.failing /\ d.crashed = r.m.crashed
      /\ d.live = r.m.live - (IF x.null THEN 0 ELSE 1) /\ Cost(d) = Cost(r.m)
  BY <1>1, DestroyedIs
<1>3. r2 \in Converted /\ r2.m = d /\ r2.s = r.s /\ (r2.null <=> r.null)
  BY DEF Moved
<1> HIDE DEF d
<1>4. ~d.crashed => /\ ~mem.crashed /\ (~r.null => r.s = text)
                    /\ Cost(d) >= Cost(mem) + (IF r.null THEN 1 ELSE 0)
                    /\ r.m.live + Cost(mem) <= mem.live + Cost(r.m)
                         + (held + (IF x.null THEN 0 ELSE 1)) + (IF r.null THEN 0 ELSE 1)
  BY <1>2 DEF Good
<1>5. ~d.crashed => d.live + Cost(mem) <= mem.live + Cost(d) + held + (IF r.null THEN 0 ELSE 1)
  BY <1>1, <1>2, <1>4
<1>6. d.failing = mem.failing /\ (r.null => r.s = <<>>)
  BY <1>2 DEF Good
<1> QED
  BY <1>3, <1>4, <1>5, <1>6 DEF Good

\* The text so far is given up after a failure.
LEMMA AbandonGood ==
  ASSUME NEW r, NEW mem \in Memory, NEW text, NEW other, NEW held \in Nat,
         Good(r, mem, text, held), ~r.null,
         ~r.m.crashed => Cost(r.m) >= Cost(mem) + 1
  PROVE  Good(Null(Destroyed(r.m, r)), mem, other, held)
<1> DEFINE d == Destroyed(r.m, r)
           res == Null(d)
<1>1. r \in Converted /\ r.m \in Memory /\ Cost(mem) \in Nat /\ Cost(r.m) \in Nat
      /\ r.m.live \in Int /\ mem.live \in Int
  BY FaultsFinite, MemoryType DEF Good, Converted
<1>2. /\ d \in Memory /\ d.failing = r.m.failing /\ d.n = r.m.n /\ d.crashed = r.m.crashed
      /\ d.live = r.m.live - 1
  BY <1>1 DEF Destroyed, Memory
<1>3. Cost(d) = Cost(r.m)
  BY <1>2, SameCost
<1> HIDE DEF d
<1>4. res = [m |-> d, s |-> <<>>, null |-> TRUE] /\ <<>> \in Seq(Token)
  BY DEF Null
<1> HIDE DEF res
<1>5. res \in Converted /\ res.m = d /\ res.s = <<>> /\ res.null = TRUE
  BY <1>2, <1>4 DEF Converted
<1>6. d.failing = mem.failing
  BY <1>2 DEF Good
<1>7. ~d.crashed => /\ ~mem.crashed
                    /\ r.m.live + Cost(mem) <= mem.live + Cost(r.m) + held + 1
  BY <1>1, <1>2 DEF Good
<1>8. ~d.crashed => /\ Cost(d) >= Cost(mem) + 1
                    /\ d.live + Cost(mem) <= mem.live + Cost(d) + held + 0
  BY <1>1, <1>2, <1>3, <1>7
<1>9. Good(res, mem, other, held)
  BY <1>5, <1>6, <1>7, <1>8 DEF Good
<1> QED
  BY <1>9 DEF res, d

-----------------------------------------------------------------------------
(* The parts of a container.                                               *)

\* What converts every value to the text it reads as.
GoodConverter(Convert, texts) ==
  /\ Convert \in [Memory \X Value -> Converted]
  /\ texts \in [Value -> Seq(Token)]
  /\ \A mem \in Memory : \A value \in Value : Good(Convert[<<mem, value>>], mem, texts[value], 0)

Separator(text, i) == IF i > 1 THEN text \o <<",">> ELSE text

\* What part i of a value reads as, and all of them.
PartText(texts, value, i) ==
  Joined([j \in DOMAIN value.parts[i] |-> texts[value.parts[i][j]]], <<":">>)

PartTexts(texts, value) == [i \in DOMAIN value.parts |-> PartText(texts, value, i)]

LEMMA Tokens ==
  /\ <<"{">> \in Seq(Token) /\ <<"}">> \in Seq(Token) /\ <<"[">> \in Seq(Token)
  /\ <<"]">> \in Seq(Token) /\ <<",">> \in Seq(Token) /\ <<":">> \in Seq(Token)
  /\ <<"<nested>">> \in Seq(Token) /\ <<"message">> \in Seq(Token)
<1>1. {"{", "}", "[", "]", ",", ":", "<nested>", "message"} \subseteq Token
  BY RecordAssumption
<1>2. \A t \in Token : <<t>> \in Seq(Token)
  OBVIOUS
<1> QED
  BY <1>1, <1>2, Zenon

LEMMA SeparatorType ==
  ASSUME NEW text \in Seq(Token), NEW i \in Nat
  PROVE  Separator(text, i) \in Seq(Token)
  BY Tokens, ConcatProperties DEF Separator

LEMMA SeparatedGood ==
  ASSUME NEW r, NEW mem \in Memory, NEW text \in Seq(Token), NEW held \in Nat, NEW i \in Nat,
         Good(r, mem, text, held)
  PROVE  /\ Good(Separated(r, i), mem, Separator(text, i), held)
         /\ ~Separated(r, i).m.crashed => ~r.m.crashed
<1>1. CASE i > 1
  <2>1. /\ Good(Cat(r, <<",">>), mem, text \o <<",">>, held)
        /\ ~Cat(r, <<",">>).m.crashed => ~r.m.crashed
    BY Tokens, CatGood
  <2> QED
    BY <1>1, <2>1 DEF Separated, Separator
<1>2. CASE ~(i > 1)
  BY <1>2 DEF Separated, Separator
<1> QED
  BY <1>1, <1>2

LEMMA AddElementGood ==
  ASSUME NEW Convert, NEW texts, NEW r, NEW mem \in Memory, NEW text \in Seq(Token),
         NEW i \in Nat, NEW part, GoodConverter(Convert, texts),
         Good(r, mem, text, 0), ~r.null, part[1] \in Value
  PROVE  Good(AddElement(Convert, r, i, part), mem, Separator(text, i) \o texts[part[1]], 0)
<1> DEFINE e   == Convert[<<r.m, part[1]>>]
           r2  == [r EXCEPT !.m = e.m]
           sep == Separated(r2, i)
           cat == Cat(sep, e.s)
           et  == texts[part[1]]
           st  == Separator(text, i)
<1>1. AddElement(Convert, r, i, part) =
        IF e.null THEN Null(Destroyed(e.m, r)) ELSE [cat EXCEPT !.m = Destroyed(@, e)]
  BY DEF AddElement
<1>2. r.m \in Memory
  BY DEF Good, Converted
<1>3. Good(e, r.m, et, 0) /\ et \in Seq(Token)
  BY <1>2 DEF GoodConverter
<1> HIDE DEF e, et
<1>4. e.m \in Memory /\ e.s \in Seq(Token) /\ (~e.m.crashed => (~e.null => e.s = et))
  BY <1>3 DEF Good, Converted
<1>m. Moved(r2, r, e.m) /\ r2.m = e.m /\ (r2.null <=> r.null)
  BY <1>4, MovedIs DEF Moved, Good
<1> HIDE DEF r2
<1>5. /\ Good(r2, mem, text, 0 + (IF e.null THEN 0 ELSE 1))
      /\ ~e.m.crashed => /\ Cost(e.m) >= Cost(r.m) + (IF e.null THEN 1 ELSE 0)
                         /\ Cost(r.m) >= Cost(mem)
  BY <1>3, <1>m, MeanwhileGood
<1>6. CASE e.null
  <2>1. Good(r2, mem, text, 0) /\ ~r2.null
    BY <1>5, <1>6, <1>m
  <2>2. Cost(mem) \in Nat /\ Cost(r.m) \in Nat /\ Cost(r2.m) \in Nat
    BY <1>2, <2>1, FaultsFinite DEF Good, Converted
  <2>3. ~r2.m.crashed => Cost(r2.m) >= Cost(mem) + 1
    BY <1>5, <1>6, <1>m, <2>2
  <2>4. Good(Null(Destroyed(r2.m, r2)), mem, st \o et, 0)
    BY <2>1, <2>3, AbandonGood
  <2>5. Destroyed(r2.m, r2) = Destroyed(e.m, r)
    BY <1>m DEF Destroyed
  <2> QED
    BY <1>1, <1>6, <2>4, <2>5 DEF et
<1>7. CASE ~e.null
  <2>1. Good(r2, mem, text, 1)
    BY <1>5, <1>7
  <2>2. Good(sep, mem, st, 1) /\ (~sep.m.crashed => ~r2.m.crashed)
    BY <2>1, SeparatedGood
  <2>3. st \in Seq(Token)
    BY SeparatorType
  <2> HIDE DEF sep, st
  <2>4. Good(cat, mem, st \o et, 0 + (IF e.null THEN 0 ELSE 1))
    <3>1. ~sep.m.crashed => e.s = et
      BY <1>4, <1>7, <1>m, <2>2
    <3>2. Good(Cat(sep, e.s), mem, st \o et, 1)
      BY <1>3, <1>4, <2>2, <2>3, <3>1, CatGood
    <3> QED
      BY <1>7, <3>2
  <2> DEFINE res == [cat EXCEPT !.m = Destroyed(@, e)]
  <2>5. Moved(res, cat, Destroyed(cat.m, e))
    BY <2>4, MovedIs, DestroyedIs DEF Good, Converted
  <2> HIDE DEF cat, res
  <2>6. Good(res, mem, st \o et, 0)
    BY <2>4, <2>5, ReleaseGood
  <2> QED
    BY <1>1, <1>7, <2>6 DEF et, st, res
<1> QED
  BY <1>6, <1>7

LEMMA AddEntryGood ==
  ASSUME NEW Convert, NEW texts, NEW r, NEW mem \in Memory, NEW text \in Seq(Token),
         NEW i \in Nat, NEW part, GoodConverter(Convert, texts),
         Good(r, mem, text, 0), ~r.null, part[1] \in Value, part[2] \in Value
  PROVE  Good(AddEntry(Convert, r, i, part), mem,
              Separator(text, i) \o (texts[part[1]] \o <<":">> \o texts[part[2]]), 0)
<1> DEFINE k   == Convert[<<r.m, part[1]>>]
           v   == Convert[<<k.m, part[2]>>]
           r1  == [r EXCEPT !.m = k.m]
           r2  == [r EXCEPT !.m = v.m]
           sep == Separated(r2, i)
           ck  == Cat(sep, k.s)
           cc  == Cat(ck, <<":">>)
           cat == Cat(cc, v.s)
           kt  == texts[part[1]]
           vt  == texts[part[2]]
           st  == Separator(text, i)
           hk  == IF k.null THEN 0 ELSE 1
           hv  == IF v.null THEN 0 ELSE 1
<1>1. AddEntry(Convert, r, i, part) =
        IF k.null \/ v.null THEN Null(Destroyed(Destroyed(Destroyed(v.m, k), v), r))
        ELSE [cat EXCEPT !.m = Destroyed(Destroyed(@, k), v)]
  BY DEF AddEntry
<1>2. r \in Converted /\ r.m \in Memory
  BY DEF Good, Converted
<1>3. Good(k, r.m, kt, 0) /\ kt \in Seq(Token)
  BY <1>2 DEF GoodConverter
<1>4. k.m \in Memory /\ k.s \in Seq(Token) /\ (~k.m.crashed => (~k.null => k.s = kt))
  BY <1>3 DEF Good, Converted
<1>5. Good(v, k.m, vt, 0) /\ vt \in Seq(Token)
  BY <1>4 DEF GoodConverter
<1> HIDE DEF k, v, kt, vt
<1>6. v.m \in Memory /\ v.s \in Seq(Token) /\ (~v.m.crashed => (~v.null => v.s = vt))
  BY <1>5 DEF Good, Converted
<1>7. /\ Moved(r1, r, k.m) /\ r1.m = k.m /\ (r1.null <=> r.null)
      /\ Moved(r2, r1, v.m) /\ r2.m = v.m /\ (r2.null <=> r.null)
  <2>1. Moved(r1, r, k.m) /\ Moved(r2, r, v.m)
    BY <1>2, <1>4, <1>6, MovedIs
  <2> HIDE DEF r1, r2
  <2> QED
    BY <2>1 DEF Moved
<1> HIDE DEF r1, r2
<1>8. hk \in Nat /\ hv \in Nat
  OBVIOUS
<1>9. /\ Good(r1, mem, text, 0 + hk)
      /\ ~k.m.crashed => /\ Cost(k.m) >= Cost(r.m) + (IF k.null THEN 1 ELSE 0)
                         /\ Cost(r.m) >= Cost(mem)
  BY <1>3, <1>7, MeanwhileGood
<1>10. /\ Good(r2, mem, text, 0 + hk + hv)
       /\ ~v.m.crashed => /\ ~k.m.crashed
                          /\ Cost(v.m) >= Cost(k.m) + (IF v.null THEN 1 ELSE 0)
  <2>1. ~r1.null /\ Good(v, r1.m, vt, 0)
    BY <1>5, <1>7
  <2> DEFINE h == 0 + hk
  <2>2. h \in Nat /\ Good(r1, mem, text, h)
    BY <1>8, <1>9
  <2> HIDE DEF h
  <2>3. /\ Good(r2, mem, text, h + (IF v.null THEN 0 ELSE 1))
        /\ ~v.m.crashed => /\ ~r1.m.crashed
                           /\ Cost(v.m) >= Cost(r1.m) + (IF v.null THEN 1 ELSE 0)
    BY <1>7, <2>1, <2>2, MeanwhileGood
  <2> QED
    BY <1>7, <2>3 DEF h
<1>11. CASE k.null \/ v.null
  <2> DEFINE a == [r2 EXCEPT !.m = Destroyed(@, k)]
             b == [a EXCEPT !.m = Destroyed(@, v)]
  <2>1. Good(r2, mem, text, hv + hk)
    BY <1>8, <1>10
  <2>2. /\ Moved(a, r2, Destroyed(r2.m, k)) /\ Moved(b, a, Destroyed(a.m, v))
        /\ a.m = Destroyed(r2.m, k) /\ b.m = Destroyed(a.m, v) /\ (b.null <=> r.null)
        /\ b.m.crashed = v.m.crashed /\ Cost(b.m) = Cost(v.m)
    <3>1. r2 \in Converted /\ Destroyed(r2.m, k) \in Memory
      BY <1>6, <1>7, DestroyedIs DEF Moved
    <3>2. Moved(a, r2, Destroyed(r2.m, k))
      BY <3>1, MovedIs
    <3> HIDE DEF a
    <3>3. a \in Converted /\ a.m = Destroyed(r2.m, k) /\ Destroyed(a.m, v) \in Memory
      BY <3>1, <3>2, DestroyedIs DEF Moved
    <3>4. Moved(b, a, Destroyed(a.m, v))
      BY <3>3, MovedIs
    <3> HIDE DEF b
    <3>5. a.m.crashed = v.m.crashed /\ Cost(a.m) = Cost(v.m)
      <4>1. Destroyed(v.m, k).crashed = v.m.crashed /\ Cost(Destroyed(v.m, k)) = Cost(v.m)
        BY <1>6, DestroyedIs
      <4>2. a.m = Destroyed(v.m, k)
        BY <1>7, <3>3
      <4> QED
        BY <4>1, <4>2
    <3>6. Destroyed(a.m, v).crashed = a.m.crashed /\ Cost(Destroyed(a.m, v)) = Cost(a.m)
      BY <3>1, <3>3, DestroyedIs
    <3>7. b.m = Destroyed(a.m, v) /\ (b.null <=> r.null)
      BY <1>7, <3>2, <3>4 DEF Moved
    <3> QED
      BY <3>2, <3>3, <3>4, <3>5, <3>6, <3>7
  <2> HIDE DEF a, b
  <2>3. Good(a, mem, text, hv)
    <3> HIDE DEF hv
    <3>1. hv \in Nat /\ Good(r2, mem, text, hv + (IF k.null THEN 0 ELSE 1))
      BY <1>8, <2>1
    <3> QED
      BY <2>2, <3>1, ReleaseGood
  <2>4. Good(b, mem, text, 0)
    <3>1. hv = 0 + (IF v.null THEN 0 ELSE 1)
      BY <1>8
    <3>2. Good(a, mem, text, 0 + (IF v.null THEN 0 ELSE 1))
      BY <2>3, <3>1
    <3> QED
      BY <2>2, <3>2, ReleaseGood
  <2>5. Cost(mem) \in Nat /\ Cost(r.m) \in Nat /\ Cost(k.m) \in Nat /\ Cost(v.m) \in Nat
    BY <1>2, <1>4, <1>6, FaultsFinite
  <2>6. ~b.m.crashed => Cost(b.m) >= Cost(mem) + 1
    <3>1. ~v.m.crashed => Cost(v.m) >= Cost(mem) + 1
      <4>1. CASE k.null
        BY <1>9, <1>10, <2>5, <4>1
      <4>2. CASE v.null
        BY <1>9, <1>10, <2>5, <4>2
      <4> QED
        BY <1>11, <4>1, <4>2
    <3> QED
      BY <2>2, <3>1
  <2>7. Good(Null(Destroyed(b.m, b)), mem, st \o (kt \o <<":">> \o vt), 0)
    <3>1. ~b.null
      BY <2>2
    <3> QED
      BY <2>4, <2>6, <3>1, AbandonGood
  <2>8. Destroyed(b.m, b) = Destroyed(Destroyed(Destroyed(v.m, k), v), r)
    <3>1. b.m = Destroyed(Destroyed(v.m, k), v) /\ (b.null <=> r.null)
      BY <1>7, <2>2
    <3> QED
      BY <3>1 DEF Destroyed
  <2> QED
    BY <1>1, <1>11, <2>7, <2>8 DEF kt, vt
<1>12. CASE ~(k.null \/ v.null)
  <2>1. Good(r2, mem, text, 2)
    BY <1>10, <1>12
  <2>2. Good(sep, mem, st, 2) /\ (~sep.m.crashed => ~r2.m.crashed)
    BY <2>1, SeparatedGood
  <2>3. st \in Seq(Token)
    BY SeparatorType
  <2> HIDE DEF sep, st
  <2>4. ~sep.m.crashed => k.s = kt /\ v.s = vt
    BY <1>4, <1>6, <1>7, <1>10, <1>12, <2>2
  <2>5. Good(ck, mem, st \o kt, 2) /\ (~ck.m.crashed => ~sep.m.crashed)
    BY <1>3, <1>4, <2>2, <2>3, <2>4, CatGood
  <2>6. st \o kt \in Seq(Token) /\ (st \o kt) \o <<":">> \in Seq(Token)
    BY <1>3, <2>3, Tokens, ConcatProperties
  <2> HIDE DEF ck
  <2>7. Good(cc, mem, (st \o kt) \o <<":">>, 2) /\ (~cc.m.crashed => ~ck.m.crashed)
    BY <2>5, <2>6, Tokens, CatGood
  <2> HIDE DEF cc
  <2>8. Good(cat, mem, ((st \o kt) \o <<":">>) \o vt, 2)
    <3>1. ~cc.m.crashed => v.s = vt
      BY <2>4, <2>5, <2>7
    <3> QED
      BY <1>5, <1>6, <2>6, <2>7, <3>1, CatGood
  <2>9. ((st \o kt) \o <<":">>) \o vt = st \o (kt \o <<":">> \o vt)
    <3> DEFINE kc == kt \o <<":">>
    <3>1. st \in Seq(Token) /\ kt \in Seq(Token) /\ <<":">> \in Seq(Token)
      BY <1>3, <2>3, Tokens
    <3>2. (st \o kt) \o <<":">> = st \o kc
      BY ONLY <3>1, ConcatAssociative
    <3>3. st \in Seq(Token) /\ kc \in Seq(Token) /\ vt \in Seq(Token)
      BY <1>5, <3>1, ConcatProperties
    <3> HIDE DEF kc
    <3>4. (st \o kc) \o vt = st \o (kc \o vt)
      BY ONLY <3>3, ConcatAssociative
    <3> QED
      BY <3>2, <3>4 DEF kc
  <2> DEFINE a == [cat EXCEPT !.m = Destroyed(@, k)]
             b == [a EXCEPT !.m = Destroyed(@, v)]
             t == st \o (kt \o <<":">> \o vt)
  <2>10. Good(cat, mem, t, 1 + (IF k.null THEN 0 ELSE 1))
    <3>1. 1 + (IF k.null THEN 0 ELSE 1) = 2
      BY <1>12
    <3> HIDE DEF cat
    <3> QED
      BY <2>8, <2>9, <3>1
  <2>11. cat \in Converted
    BY <2>8 DEF Good
  <2>12. Moved(a, cat, Destroyed(cat.m, k)) /\ Moved(b, a, Destroyed(a.m, v))
    <3> HIDE DEF cat
    <3>1. Moved(a, cat, Destroyed(cat.m, k))
      BY <2>11, MovedIs, DestroyedIs DEF Converted
    <3> HIDE DEF a
    <3>2. a \in Converted /\ a.m \in Memory
      BY <3>1 DEF Moved, Converted
    <3> QED
      BY <3>1, <3>2, MovedIs, DestroyedIs
  <2>13. b = [cat EXCEPT !.m = Destroyed(Destroyed(@, k), v)]
    <3> HIDE DEF cat
    <3> QED
      BY <2>11 DEF Converted
  <2> HIDE DEF cat, t, a, b
  <2>14. Good(a, mem, t, 1)
    BY <2>10, <2>12, ReleaseGood
  <2>15. Good(b, mem, t, 0)
    <3>1. Good(a, mem, t, 0 + (IF v.null THEN 0 ELSE 1))
      BY <1>12, <2>14
    <3> QED
      BY <2>12, <3>1, ReleaseGood
  <2> QED
    BY <1>1, <1>12, <2>13, <2>15 DEF t, kt, vt, st
<1> QED
  BY <1>11, <1>12

\* The texts joined so far.
JoinSteps(join, texts, separator) ==
  /\ join[0] = <<>>
  /\ \A i \in 1 .. Len(texts) :
       join[i] = IF i = 1 THEN texts[1] ELSE join[i - 1] \o separator \o texts[i]

LEMMA JoinedIs ==
  ASSUME NEW X, NEW texts \in Seq(Seq(X)), NEW separator \in Seq(X)
  PROVE  \E join \in [0 .. Len(texts) -> Seq(X)] :
           JoinSteps(join, texts, separator) /\ Joined(texts, separator) = join[Len(texts)]
<1> DEFINE n == Len(texts)
           Next1(i, s) == IF i = 1 THEN texts[1] ELSE s \o separator \o texts[i]
           step == [c \in (1 .. n) \X Seq(X) |-> Next1(c[1], c[2])]
           Eq(j) == j = [i \in 0 .. n |->
                           CASE i = 0 -> <<>>
                             [] i = 1 -> texts[1]
                             [] OTHER -> j[i - 1] \o separator \o texts[i]]
           join == CHOOSE j : Eq(j)
<1>1. n \in Nat /\ \A i \in 1 .. n : texts[i] \in Seq(X)
  OBVIOUS
<1>2. \A i \in 1 .. n : \A s \in Seq(X) : Next1(i, s) \in Seq(X)
  BY <1>1, ConcatProperties
<1>3. step \in [(1 .. n) \X Seq(X) -> Seq(X)]
  <2> HIDE DEF Next1
  <2> QED
    BY <1>2
<1>4. \A i \in 1 .. n : \A s \in Seq(X) : step[<<i, s>>] = Next1(i, s)
  <2> HIDE DEF Next1
  <2> QED
    OBVIOUS
<1> HIDE DEF step
<1>5. PICK f \in [0 .. n -> Seq(X)] : BySteps(f, n, <<>>, step)
  BY <1>1, <1>3, EmptySeq, StepRecursion
<1>6. Eq(f)
  <2>1. \A i \in 0 .. n : f[i] = CASE i = 0 -> <<>>
                                   [] i = 1 -> texts[1]
                                   [] OTHER -> f[i - 1] \o separator \o texts[i]
    <3> TAKE i \in 0 .. n
    <3>1. CASE i = 0
      BY <1>5, <3>1 DEF BySteps
    <3>2. CASE i # 0
      <4>1. i \in 1 .. n /\ i - 1 \in 0 .. n
        BY <3>2
      <4>2. f[i] = Next1(i, f[i - 1])
        BY <1>4, <1>5, <4>1 DEF BySteps
      <4> QED
        BY <3>2, <4>2
    <3> QED
      BY <3>1, <3>2
  <2> QED
    BY <2>1
<1>7. Eq(join)
  <2> HIDE DEF Eq
  <2> QED
    BY <1>6
<1>8. Joined(texts, separator) = join[n]
  BY DEF Joined
<1> HIDE DEF join
<1>9. join[0] = <<>> /\ \A i \in 1 .. n : join[i] = Next1(i, join[i - 1])
  BY <1>1, <1>7
<1>10. \A i \in 0 .. n : join[i] = f[i] /\ join[i] \in Seq(X)
  <2> HIDE DEF Next1
  <2>1. \A i \in 1 .. n : join[i - 1] \in Seq(X) => join[i] = step[<<i, join[i - 1]>>]
    BY <1>4, <1>9
  <2>2. join[0] = <<>>
    BY <1>9
  <2>3. join[0] = f[0]
    BY <1>5, <2>2 DEF BySteps
  <2> QED
    BY <1>1, <1>5, <2>1, <2>3, StepsUnique
<1>11. join \in [0 .. n -> Seq(X)]
  <2>1. join = [i \in 0 .. n |-> join[i]]
    BY <1>7
  <2> QED
    BY <1>10, <2>1
<1>12. JoinSteps(join, texts, separator)
  BY <1>9 DEF JoinSteps
<1> QED
  BY <1>8, <1>11, <1>12

LEMMA ValueParts ==
  ASSUME NEW value \in Value, NEW i \in 1 .. Len(value.parts)
  PROVE  /\ value.parts \in Seq(Seq(Value)) /\ value.parts[i] \in Seq(Value)
         /\ Len(value.parts[i]) = IF value.kind = "map" THEN 2 ELSE 1
         /\ value.parts[i][1] \in Value
         /\ value.kind = "map" => value.parts[i][2] \in Value
<1>1. value.parts \in Seq(Seq(Value))
  BY RecordAssumption
<1>2. i \in DOMAIN value.parts /\ value.parts[i] \in Seq(Value)
  BY <1>1
<1>3. Len(value.parts[i]) = IF value.kind = "map" THEN 2 ELSE 1
  BY <1>2, RecordAssumption
<1> DEFINE part == value.parts[i]
<1> HIDE DEF part
<1>4. part \in Seq(Value) /\ Len(part) = IF value.kind = "map" THEN 2 ELSE 1
  BY <1>2, <1>3 DEF part
<1>5. part[1] \in Value /\ (value.kind = "map" => part[2] \in Value)
  BY <1>4
<1> QED
  BY <1>1, <1>4, <1>5 DEF part

LEMMA PartTextIs ==
  ASSUME NEW texts \in [Value -> Seq(Token)], NEW value \in Value, NEW i \in 1 .. Len(value.parts)
  PROVE  /\ PartText(texts, value, i) \in Seq(Token)
         /\ PartText(texts, value, i) =
              IF value.kind = "map"
              THEN texts[value.parts[i][1]] \o <<":">> \o texts[value.parts[i][2]]
              ELSE texts[value.parts[i][1]]
<1> DEFINE part == value.parts[i]
           n == Len(part)
           own == [j \in DOMAIN part |-> texts[part[j]]]
           S == Seq(Token)
<1>1. part \in Seq(Value) /\ n = (IF value.kind = "map" THEN 2 ELSE 1)
  BY ValueParts
<1> HIDE DEF part
<1>2. n \in {1, 2} /\ DOMAIN part = 1 .. n
  <2>1. DOMAIN part = 1 .. n
    BY <1>1, LenProperties
  <2>2. n \in {1, 2}
    <3> HIDE DEF n
    <3> QED
      BY <1>1
  <2> QED
    BY <2>1, <2>2
<1>3. own \in Seq(S) /\ Len(own) = n /\ \A j \in 1 .. n : own[j] = texts[part[j]]
  <2>1. n \in Nat /\ \A j \in 1 .. n : part[j] \in Value /\ texts[part[j]] \in S
    BY <1>1, <1>2
  <2>2. own = [j \in 1 .. n |-> texts[part[j]]]
    BY <1>2
  <2> HIDE DEF own, n, S
  <2> QED
    BY <2>1, <2>2
<1> HIDE DEF own, n
<1>4. PICK join \in [0 .. Len(own) -> S] :
        JoinSteps(join, own, <<":">>) /\ Joined(own, <<":">>) = join[Len(own)]
  BY <1>3, Tokens, JoinedIs
<1>5. join[n] \in S /\ join[1] = own[1] /\ (n = 2 => join[2] = join[1] \o <<":">> \o own[2])
  <2>1. /\ \A k \in 0 .. n : join[k] \in S
        /\ \A k \in 1 .. n : join[k] = IF k = 1 THEN own[1] ELSE join[k - 1] \o <<":">> \o own[k]
    BY <1>3, <1>4 DEF JoinSteps
  <2>2. join[n] \in S /\ join[1] = own[1]
    BY <1>2, <2>1
  <2>3. ASSUME n = 2 PROVE join[2] = join[1] \o <<":">> \o own[2]
    <3>1. 2 \in 1 .. n /\ 2 - 1 = 1 /\ 2 # 1
      BY <2>3
    <3> QED
      BY <2>1, <3>1
  <2> QED
    BY <2>2, <2>3
<1>6. Joined(own, <<":">>) = IF n = 2 THEN texts[part[1]] \o <<":">> \o texts[part[2]]
                             ELSE texts[part[1]]
  <2>1. Joined(own, <<":">>) = join[n] /\ own[1] = texts[part[1]]
    BY <1>2, <1>3, <1>4
  <2>2. CASE n = 1
    BY <1>5, <2>1, <2>2
  <2>3. CASE n = 2
    <3>1. own[2] = texts[part[2]]
      BY <1>3, <2>3
    <3> QED
      BY <1>5, <2>1, <2>3, <3>1
  <2> QED
    BY <1>2, <2>2, <2>3
<1>7. PartText(texts, value, i) = Joined(own, <<":">>)
  BY DEF PartText, own, part
<1>8. Joined(own, <<":">>) \in S /\ (n = 2 <=> value.kind = "map")
  BY <1>1, <1>3, <1>4, <1>5
<1> QED
  BY <1>6, <1>7, <1>8 DEF part

LEMMA AddPartGood ==
  ASSUME NEW Convert, NEW texts, NEW r, NEW mem \in Memory, NEW text \in Seq(Token),
         NEW value \in Value, NEW i \in 1 .. Len(value.parts),
         GoodConverter(Convert, texts), Good(r, mem, text, 0)
  PROVE  Good(AddPart(Convert, r, i, value), mem,
              Separator(text, i) \o PartText(texts, value, i), 0)
<1> DEFINE part == value.parts[i]
           pt   == PartText(texts, value, i)
           new  == Separator(text, i) \o pt
<1>1. texts \in [Value -> Seq(Token)] /\ i \in Nat
  BY DEF GoodConverter
<1>2. part[1] \in Value /\ (value.kind = "map" => part[2] \in Value)
  BY ValueParts
<1>3. pt = IF value.kind = "map" THEN texts[part[1]] \o <<":">> \o texts[part[2]]
           ELSE texts[part[1]]
  BY <1>1, PartTextIs
<1> HIDE DEF part, pt
<1>4. CASE r.null
  <2>1. AddPart(Convert, r, i, value) = r
    BY <1>4 DEF AddPart
  <2> HIDE DEF new
  <2>2. Good(r, mem, new, 0)
    BY <1>4 DEF Good
  <2> QED
    BY <2>1, <2>2 DEF new, pt
<1>5. CASE ~r.null /\ value.kind = "map"
  <2>1. AddPart(Convert, r, i, value) = AddEntry(Convert, r, i, part)
    BY <1>5 DEF AddPart, part
  <2>2. Good(AddEntry(Convert, r, i, part), mem,
             Separator(text, i) \o (texts[part[1]] \o <<":">> \o texts[part[2]]), 0)
    BY <1>1, <1>2, <1>5, AddEntryGood
  <2> QED
    BY <1>3, <1>5, <2>1, <2>2 DEF pt
<1>6. CASE ~r.null /\ value.kind # "map"
  <2>1. AddPart(Convert, r, i, value) = AddElement(Convert, r, i, part)
    BY <1>6 DEF AddPart, part
  <2>2. Good(AddElement(Convert, r, i, part), mem, Separator(text, i) \o texts[part[1]], 0)
    BY <1>1, <1>2, <1>6, AddElementGood
  <2> QED
    BY <1>3, <1>6, <2>1, <2>2 DEF pt
<1> QED
  BY <1>4, <1>5, <1>6

LEMMA AddPartType ==
  ASSUME NEW Convert, NEW texts, NEW r \in Converted, NEW value \in Value,
         NEW i \in 1 .. Len(value.parts), GoodConverter(Convert, texts)
  PROVE  AddPart(Convert, r, i, value) \in Converted
<1>1. CASE r.null
  BY <1>1 DEF AddPart
<1>2. CASE ~r.null
  <2>1. r.m \in Memory /\ r.s \in Seq(Token) /\ Cost(r.m) \in Nat /\ r.m.live \in Int
    BY FaultsFinite, MemoryType DEF Converted
  <2>2. Good(r, r.m, r.s, 0)
    BY <1>2, <2>1 DEF Good
  <2> QED
    BY <2>1, <2>2, AddPartGood DEF Good
<1> QED
  BY <1>1, <1>2

\* The passes of the loop.
PassSteps(pass, Convert, r, value) ==
  /\ pass[0] = r
  /\ \A i \in 1 .. Len(value.parts) : pass[i] = AddPart(Convert, pass[i - 1], i, value)

LEMMA AddPartsIs ==
  ASSUME NEW Convert, NEW texts, NEW r \in Converted, NEW value \in Value,
         GoodConverter(Convert, texts)
  PROVE  \E pass : /\ PassSteps(pass, Convert, r, value)
                   /\ AddParts(Convert, r, value) = pass[Len(value.parts)]
<1> DEFINE n == Len(value.parts)
           step == [c \in (1 .. n) \X Converted |-> AddPart(Convert, c[2], c[1], value)]
           Eq(q) == q = [i \in 0 .. n |-> IF i = 0 THEN r ELSE AddPart(Convert, q[i - 1], i, value)]
           pass == CHOOSE q : Eq(q)
<1>1. n \in Nat
  <2>1. value.parts \in Seq(Seq(Value))
    BY RecordAssumption
  <2> QED
    BY <2>1
<1>2. \A i \in 1 .. n : \A x \in Converted : AddPart(Convert, x, i, value) \in Converted
  BY AddPartType
<1>3. step \in [(1 .. n) \X Converted -> Converted]
  BY <1>2
<1>4. \A i \in 1 .. n : \A x \in Converted : step[<<i, x>>] = AddPart(Convert, x, i, value)
  OBVIOUS
<1> HIDE DEF step
<1>5. PICK f \in [0 .. n -> Converted] : BySteps(f, n, r, step)
  BY <1>1, <1>3, StepRecursion
<1>6. Eq(f)
  <2>1. \A i \in 0 .. n : f[i] = IF i = 0 THEN r ELSE AddPart(Convert, f[i - 1], i, value)
    <3> TAKE i \in 0 .. n
    <3>1. CASE i = 0
      BY <1>5, <3>1 DEF BySteps
    <3>2. CASE i # 0
      <4>1. i \in 1 .. n /\ i - 1 \in 0 .. n
        BY <3>2
      <4> QED
        BY <1>4, <1>5, <3>2, <4>1 DEF BySteps
    <3> QED
      BY <3>1, <3>2
  <2> QED
    BY <2>1
<1>7. Eq(pass)
  <2> HIDE DEF Eq
  <2> QED
    BY <1>6
<1>8. AddParts(Convert, r, value) = pass[n]
  BY DEF AddParts
<1> HIDE DEF pass
<1>9. PassSteps(pass, Convert, r, value)
  <2>1. \A i \in 0 .. n : pass[i] = IF i = 0 THEN r ELSE AddPart(Convert, pass[i - 1], i, value)
    BY <1>7
  <2>2. 0 \in 0 .. n /\ \A i \in 1 .. n : i \in 0 .. n /\ i # 0
    BY <1>1
  <2> QED
    BY <2>1, <2>2 DEF PassSteps
<1> QED
  BY <1>8, <1>9

LEMMA PartTextsType ==
  ASSUME NEW texts \in [Value -> Seq(Token)], NEW value \in Value
  PROVE  /\ PartTexts(texts, value) \in Seq(Seq(Token))
         /\ Len(PartTexts(texts, value)) = Len(value.parts) /\ Len(value.parts) \in Nat
         /\ \A i \in 1 .. Len(value.parts) : PartTexts(texts, value)[i] = PartText(texts, value, i)
<1> DEFINE n == Len(value.parts)
           S == Seq(Token)
<1>1. n \in Nat /\ DOMAIN value.parts = 1 .. n
  <2>1. value.parts \in Seq(Seq(Value))
    BY RecordAssumption
  <2> QED
    BY <2>1
<1>2. \A i \in 1 .. n : PartText(texts, value, i) \in S
  BY PartTextIs
<1>3. PartTexts(texts, value) = [i \in 1 .. n |-> PartText(texts, value, i)]
  BY <1>1 DEF PartTexts
<1> HIDE DEF n, S
<1>4. /\ PartTexts(texts, value) \in Seq(S) /\ Len(PartTexts(texts, value)) = n
      /\ \A i \in 1 .. n : PartTexts(texts, value)[i] = PartText(texts, value, i)
  BY <1>1, <1>2, <1>3
<1> QED
  BY <1>1, <1>4 DEF n, S

\* After every pass the text is that of the parts so far.
LEMMA AddPartsGood ==
  ASSUME NEW Convert, NEW texts, NEW r, NEW mem \in Memory, NEW text \in Seq(Token),
         NEW value \in Value, GoodConverter(Convert, texts), Good(r, mem, text, 0)
  PROVE  /\ Joined(PartTexts(texts, value), <<",">>) \in Seq(Token)
         /\ Good(AddParts(Convert, r, value), mem,
                 text \o Joined(PartTexts(texts, value), <<",">>), 0)
<1> DEFINE n == Len(value.parts)
           pts == PartTexts(texts, value)
           S == Seq(Token)
<1>1. texts \in [Value -> S]
  BY DEF GoodConverter
<1>2. /\ pts \in Seq(S) /\ Len(pts) = n /\ n \in Nat
      /\ \A i \in 1 .. n : pts[i] = PartText(texts, value, i) /\ pts[i] \in S
  <2>1. /\ pts \in Seq(S) /\ Len(pts) = n /\ n \in Nat
        /\ \A i \in 1 .. n : pts[i] = PartText(texts, value, i)
    BY <1>1, PartTextsType
  <2>2. \A i \in 1 .. n : PartText(texts, value, i) \in S
    BY <1>1, PartTextIs
  <2> QED
    BY <2>1, <2>2
<1> HIDE DEF pts
<1>0. PICK join \in [0 .. Len(pts) -> S] :
        JoinSteps(join, pts, <<",">>) /\ Joined(pts, <<",">>) = join[Len(pts)]
  BY <1>2, Tokens, JoinedIs
<1>3. /\ \A k \in 0 .. n : join[k] \in S
      /\ join[0] = <<>> /\ Joined(pts, <<",">>) = join[n]
      /\ \A k \in 1 .. n : join[k] = IF k = 1 THEN pts[1] ELSE join[k - 1] \o <<",">> \o pts[k]
  BY <1>2, <1>0 DEF JoinSteps
<1>4. PICK pass : PassSteps(pass, Convert, r, value) /\ AddParts(Convert, r, value) = pass[n]
  BY AddPartsIs DEF Good
<1> DEFINE Done(i) == Good(pass[i], mem, text \o join[i], 0)
           G == {i \in Nat : i <= n => Done(i)}
<1>5. 0 \in G
  <2>1. pass[0] = r /\ join[0] = <<>> /\ text \o <<>> = text
    BY <1>3, <1>4, ConcatEmptySeq DEF PassSteps
  <2> QED
    BY <2>1
<1>6. ASSUME NEW k \in G PROVE k + 1 \in G
  <2> SUFFICES ASSUME k + 1 <= n PROVE Done(k + 1)
    OBVIOUS
  <2> DEFINE i  == k + 1
             so == text \o join[k]
             pt == PartText(texts, value, i)
  <2>0. Done(k)
    BY <1>2
  <2>1. k \in Nat /\ k <= n /\ k \in 0 .. n /\ i \in 0 .. n /\ i \in 1 .. n /\ i \in Nat
        /\ i - 1 = k
    BY <1>2
  <2> HIDE DEF G, Done, n, S
  <2>2. join[k] \in S /\ join[i] \in S
    <3> HIDE DEF i
    <3> QED
      BY ONLY <1>3, <2>1
  <2>3. so \in S
    <3>1. join[k] \in S /\ text \in S
      BY <2>2 DEF S
    <3> QED
      BY ONLY <3>1, ConcatProperties DEF S
  <2>4. pass[i] = AddPart(Convert, pass[k], i, value)
    BY <1>4, <2>1 DEF PassSteps, n
  <2>5. pt \in S /\ pts[i] = pt
    BY <1>2, <2>1
  <2> HIDE DEF i, so, pt
  <2>6. Good(AddPart(Convert, pass[k], i, value), mem, Separator(so, i) \o pt, 0)
    <3>1. Good(pass[k], mem, so, 0)
      BY <2>0 DEF so, Done
    <3> QED
      BY <2>1, <2>3, <3>1, AddPartGood DEF pt, n, S
  <2>7. Separator(so, i) \o pt = text \o join[i]
    <3>1. CASE i = 1
      <4>0. k = 0 /\ join[0] = <<>>
        <5>1. join[0] = <<>>
          BY <1>3
        <5>2. k = 0
          BY <2>1, <3>1
        <5> QED
          BY <5>1, <5>2
      <4>1. join[i] = pt
        BY <1>3, <2>1, <2>5, <3>1
      <4>2. so = text
        BY <4>0, ConcatEmptySeq DEF so
      <4> QED
        BY <3>1, <4>1, <4>2 DEF Separator
    <3>2. CASE i # 1
      <4> DEFINE jk == join[k]
                 comma == <<",">>
                 jc == jk \o comma
      <4>0. i > 1
        BY <2>1, <3>2
      <4>1. join[i] = jc \o pt
        BY <1>3, <2>1, <2>5, <3>2
      <4>2. Separator(so, i) = so \o comma
        BY <4>0 DEF Separator
      <4>3. jk \in S /\ comma \in S /\ text \in S
        BY <2>2, Tokens DEF S
      <4> HIDE DEF jk, comma
      <4>4. jc \in S
        BY ONLY <4>3, ConcatProperties DEF S
      <4>5. (text \o jk) \o comma = text \o jc
        BY ONLY <4>3, ConcatAssociative DEF S
      <4> HIDE DEF jc
      <4>6. pt \in S /\ text \in S /\ jc \in S
        BY <2>5, <4>3, <4>4
      <4>7. (text \o jc) \o pt = text \o (jc \o pt)
        BY ONLY <4>6, ConcatAssociative DEF S
      <4> QED
        BY <4>1, <4>2, <4>5, <4>7 DEF so, jk
    <3> QED
      BY <3>1, <3>2
  <2> QED
    BY <2>4, <2>6, <2>7 DEF i, Done
<1>7. G = Nat
  <2> HIDE DEF Done
  <2>1. G \in SUBSET Nat
    OBVIOUS
  <2> HIDE DEF G
  <2> QED
    BY <1>5, <1>6, <2>1, NatSetInduction
<1>8. Done(n) /\ join[n] \in S
  <2> HIDE DEF Done, n, S
  <2>1. n \in 0 .. n /\ Done(n)
    BY <1>2, <1>7
  <2> QED
    BY <1>3, <2>1
<1> QED
  BY <1>3, <1>4, <1>8 DEF pts

ContainerText(texts, value) ==
  Open(value.kind) \o Joined(PartTexts(texts, value), <<",">>) \o Close(value.kind)

LEMMA ContainerGood ==
  ASSUME NEW Convert, NEW texts, NEW mem \in Memory, NEW value \in Value,
         GoodConverter(Convert, texts)
  PROVE  /\ ContainerText(texts, value) \in Seq(Token)
         /\ Good(Container(Convert, mem, value), mem, ContainerText(texts, value), 0)
<1> DEFINE open  == Open(value.kind)
           close == Close(value.kind)
           inner == Joined(PartTexts(texts, value), <<",">>)
           start == Create(mem, open)
           whole == AddParts(Convert, start, value)
           text  == open \o inner
<1>1. open \in Seq(Token) /\ close \in Seq(Token)
  BY Tokens DEF Open, Close
<1>2. Good(start, mem, open, 0)
  BY <1>1, CreateGood
<1>3. Container(Convert, mem, value) = IF whole.null THEN whole ELSE Cat(whole, close)
  BY DEF Container
<1>4. ContainerText(texts, value) = text \o close
  BY DEF ContainerText
<1> HIDE DEF open, close, start
<1>5. inner \in Seq(Token) /\ Good(whole, mem, text, 0)
  BY <1>1, <1>2, AddPartsGood
<1> HIDE DEF inner, whole
<1>6. text \in Seq(Token) /\ text \o close \in Seq(Token)
  BY <1>1, <1>5, ConcatProperties
<1> HIDE DEF text
<1>7. CASE whole.null
  <2>1. Good(whole, mem, text \o close, 0)
    BY <1>5, <1>7 DEF Good
  <2> QED
    BY <1>3, <1>4, <1>6, <1>7, <2>1
<1>8. CASE ~whole.null
  <2>1. Good(Cat(whole, close), mem, text \o close, 0)
    BY <1>1, <1>5, <1>6, CatGood
  <2> QED
    BY <1>3, <1>4, <1>6, <1>8, <2>1
<1> QED
  BY <1>7, <1>8

-----------------------------------------------------------------------------
(* The levels of a value.                                                  *)

Nested(value) == value.kind \in {"map", "array"}

NextText(levels, texts) ==
  [value \in Value |->
     IF levels = 0 THEN <<"<nested>">>
     ELSE IF Nested(value) THEN ContainerText(texts, value) ELSE value.text]

NextSds(levels, Convert) ==
  [c \in Memory \X Value |->
     IF levels = 0 THEN Create(c[1], <<"<nested>">>)
     ELSE IF Nested(c[2]) THEN Container(Convert, c[1], c[2]) ELSE Create(c[1], c[2].text)]

LEMMA ContainerTextType ==
  ASSUME NEW texts \in [Value -> Seq(Token)], NEW value \in Value
  PROVE  ContainerText(texts, value) \in Seq(Token)
<1> DEFINE S == Seq(Token)
           pts == PartTexts(texts, value)
           inner == Joined(pts, <<",">>)
           open  == Open(value.kind)
           close == Close(value.kind)
<1>1. open \in S /\ close \in S
  BY Tokens DEF Open, Close
<1>2. pts \in Seq(S) /\ Len(pts) \in Nat
  BY PartTextsType
<1> HIDE DEF pts, open, close
<1>3. inner \in S
  <2>1. PICK join \in [0 .. Len(pts) -> S] : inner = join[Len(pts)]
    BY <1>2, Tokens, JoinedIs
  <2>2. Len(pts) \in 0 .. Len(pts)
    BY <1>2
  <2> HIDE DEF S, inner
  <2> QED
    BY <2>1, <2>2
<1> HIDE DEF inner
<1>4. open \o inner \in S
  BY <1>1, <1>3, ConcatProperties
<1>5. (open \o inner) \o close \in S
  BY ONLY <1>1, <1>4, ConcatProperties
<1>6. ContainerText(texts, value) = (open \o inner) \o close
  BY DEF ContainerText, open, inner, close, pts
<1> QED
  BY <1>5, <1>6

LEMMA NextTextType ==
  ASSUME NEW levels, NEW texts, levels = 0 \/ texts \in [Value -> Seq(Token)]
  PROVE  NextText(levels, texts) \in [Value -> Seq(Token)]
<1> DEFINE new(value) == IF levels = 0 THEN <<"<nested>">>
                         ELSE IF Nested(value) THEN ContainerText(texts, value) ELSE value.text
<1>1. ASSUME NEW value \in Value PROVE new(value) \in Seq(Token)
  <2>1. value.text \in Seq(Token)
    BY RecordAssumption
  <2>2. levels # 0 => ContainerText(texts, value) \in Seq(Token)
    BY ContainerTextType
  <2> QED
    BY <2>1, <2>2, Tokens
<1>2. NextText(levels, texts) = [value \in Value |-> new(value)]
  BY DEF NextText
<1> HIDE DEF new
<1> QED
  BY <1>1, <1>2

LEMMA TextIs ==
  ASSUME NEW levels \in 0 .. MaxDepth + 1
  PROVE  Text[levels] \in [Value -> Seq(Token)] /\ Text[levels] = NextText(levels, Text[levels - 1])
<1> DEFINE top == MaxDepth + 1
           X == [Value -> Seq(Token)]
           start == NextText(0, 0)
           step == [c \in (1 .. top) \X X |-> NextText(c[1], c[2])]
           Eq(t) == t = [l \in 0 .. top |-> NextText(l, t[l - 1])]
           text == CHOOSE t : Eq(t)
<1>1. top \in Nat
  <2>1. MaxDepth \in Nat
    BY RecordAssumption
  <2> QED
    BY <2>1
<1>2. start \in X /\ \A x : NextText(0, x) = start
  BY NextTextType DEF NextText
<1>3. \A l \in 1 .. top : \A x \in X : NextText(l, x) \in X
  BY NextTextType
<1>4. step \in [(1 .. top) \X X -> X]
  BY <1>3
<1>5. \A l \in 1 .. top : \A x \in X : step[<<l, x>>] = NextText(l, x)
  OBVIOUS
<1> HIDE DEF top, X, start, step
<1>6. PICK f \in [0 .. top -> X] : BySteps(f, top, start, step)
  BY <1>1, <1>2, <1>4, StepRecursion
<1>7. Eq(f)
  <2>1. \A l \in 0 .. top : f[l] = NextText(l, f[l - 1])
    <3> TAKE l \in 0 .. top
    <3>1. CASE l = 0
      BY <1>2, <1>6, <3>1 DEF BySteps
    <3>2. CASE l # 0
      <4>1. l \in 1 .. top /\ l - 1 \in 0 .. top
        BY <1>1, <3>2
      <4>2. f[l] = step[<<l, f[l - 1]>>] /\ f[l - 1] \in X
        BY <1>6, <4>1 DEF BySteps
      <4> QED
        BY <1>5, <4>1, <4>2
    <3> QED
      BY <3>1, <3>2
  <2> QED
    BY <2>1
<1>8. Eq(text)
  <2> HIDE DEF Eq
  <2> QED
    BY <1>7
<1>9. Text = text
  BY DEF Text, NextText, ContainerText, PartTexts, PartText, Nested, top
<1> HIDE DEF text
<1>10. \A l \in 0 .. top : text[l] = NextText(l, text[l - 1])
  BY <1>8
<1>11. \A l \in 0 .. top : text[l] = f[l] /\ text[l] \in X
  <2>1. text[0] = f[0]
    BY <1>1, <1>2, <1>6, <1>10 DEF BySteps
  <2>2. \A l \in 1 .. top : text[l - 1] \in X => text[l] = step[<<l, text[l - 1]>>]
    BY <1>1, <1>5, <1>10
  <2> QED
    BY <1>1, <1>6, <2>1, <2>2, StepsUnique
<1> QED
  BY <1>9, <1>10, <1>11 DEF top, X

LEMMA NextSdsGood ==
  ASSUME NEW levels, NEW Convert, NEW texts, levels = 0 \/ GoodConverter(Convert, texts)
  PROVE  GoodConverter(NextSds(levels, Convert), NextText(levels, texts))
<1> DEFINE new(mem, value) ==
             IF levels = 0 THEN Create(mem, <<"<nested>">>)
             ELSE IF Nested(value) THEN Container(Convert, mem, value)
             ELSE Create(mem, value.text)
           said == NextText(levels, texts)
<1>1. said \in [Value -> Seq(Token)]
  BY NextTextType DEF GoodConverter
<1>2. ASSUME NEW mem \in Memory, NEW value \in Value
      PROVE  Good(new(mem, value), mem, said[value], 0)
  <2>1. said[value] = IF levels = 0 THEN <<"<nested>">>
                      ELSE IF Nested(value) THEN ContainerText(texts, value) ELSE value.text
    BY DEF NextText
  <2> HIDE DEF said
  <2>2. CASE levels = 0
    <3>1. Good(Create(mem, <<"<nested>">>), mem, <<"<nested>">>, 0)
      BY Tokens, CreateGood
    <3> QED
      BY <2>1, <2>2, <3>1
  <2>3. CASE levels # 0 /\ Nested(value)
    <3>1. Good(Container(Convert, mem, value), mem, ContainerText(texts, value), 0)
      BY <2>3, ContainerGood
    <3> QED
      BY <2>1, <2>3, <3>1
  <2>4. CASE levels # 0 /\ ~Nested(value)
    <3>1. value.text \in Seq(Token)
      BY RecordAssumption
    <3>2. Good(Create(mem, value.text), mem, value.text, 0)
      BY <3>1, CreateGood
    <3> QED
      BY <2>1, <2>4, <3>2
  <2> QED
    BY <2>2, <2>3, <2>4
<1>3. NextSds(levels, Convert) = [c \in Memory \X Value |-> new(c[1], c[2])]
  BY DEF NextSds
<1> HIDE DEF new, said
<1>4. ASSUME NEW mem \in Memory, NEW value \in Value
      PROVE  new(mem, value) \in Converted /\ NextSds(levels, Convert)[<<mem, value>>] = new(mem, value)
  BY <1>2, <1>3 DEF Good
<1>5. NextSds(levels, Convert) \in [Memory \X Value -> Converted]
  BY <1>3, <1>4
<1> QED
  BY <1>1, <1>2, <1>4, <1>5 DEF GoodConverter, said

LEMMA ToSdsIs ==
  ASSUME NEW levels \in 0 .. MaxDepth + 1
  PROVE  ToSds[levels] = NextSds(levels, ToSds[levels - 1])
<1> DEFINE top == MaxDepth + 1
           X == {f \in [Memory \X Value -> Converted] : \E texts : GoodConverter(f, texts)}
           start == NextSds(0, 0)
           step == [c \in (1 .. top) \X X |-> NextSds(c[1], c[2])]
           Eq(t) == t = [l \in 0 .. top |-> NextSds(l, t[l - 1])]
           sds == CHOOSE t : Eq(t)
<1>1. top \in Nat
  <2>1. MaxDepth \in Nat
    BY RecordAssumption
  <2> QED
    BY <2>1
<1>2. start \in X /\ \A x : NextSds(0, x) = start
  <2>1. GoodConverter(start, NextText(0, 0))
    BY NextSdsGood
  <2>2. \A x : NextSds(0, x) = start
    BY DEF NextSds
  <2> HIDE DEF start
  <2> QED
    BY <2>1, <2>2 DEF GoodConverter
<1>3. ASSUME NEW l \in 1 .. top, NEW x \in X PROVE NextSds(l, x) \in X
  <2>1. PICK texts : GoodConverter(x, texts)
    OBVIOUS
  <2>2. GoodConverter(NextSds(l, x), NextText(l, texts))
    BY <2>1, NextSdsGood
  <2> QED
    BY <2>2 DEF GoodConverter
<1> HIDE DEF X
<1>4. step \in [(1 .. top) \X X -> X]
  BY <1>3
<1>5. \A l \in 1 .. top : \A x \in X : step[<<l, x>>] = NextSds(l, x)
  OBVIOUS
<1> HIDE DEF top, start, step
<1>6. PICK f \in [0 .. top -> X] : BySteps(f, top, start, step)
  BY <1>1, <1>2, <1>4, StepRecursion
<1>7. Eq(f)
  <2>1. \A l \in 0 .. top : f[l] = NextSds(l, f[l - 1])
    <3> TAKE l \in 0 .. top
    <3>1. CASE l = 0
      BY <1>2, <1>6, <3>1 DEF BySteps
    <3>2. CASE l # 0
      <4>1. l \in 1 .. top /\ l - 1 \in 0 .. top
        BY <1>1, <3>2
      <4>2. f[l] = step[<<l, f[l - 1]>>] /\ f[l - 1] \in X
        BY <1>6, <4>1 DEF BySteps
      <4> QED
        BY <1>5, <4>1, <4>2
    <3> QED
      BY <3>1, <3>2
  <2> QED
    BY <2>1
<1>8. Eq(sds)
  <2> HIDE DEF Eq
  <2> QED
    BY <1>7
<1>9. ToSds = sds
  BY DEF ToSds, NextSds, Nested, top
<1> HIDE DEF sds
<1>10. \A l \in 0 .. top : sds[l] = NextSds(l, sds[l - 1])
  BY <1>8
<1> QED
  BY <1>9, <1>10 DEF top

\* msgpack_object_to_sds writes every value, or fails, whatever allocations fail.
LEMMA SdsGood ==
  ASSUME NEW mem \in Memory, NEW value \in Value
  PROVE  TextOf(value) \in Seq(Token) /\ Good(Sds(mem, value), mem, TextOf(value), 0)
<1> DEFINE top == MaxDepth + 1
           Done(l) == GoodConverter(ToSds[l], Text[l])
           G == {l \in Nat : l <= top => Done(l)}
<1>1. top \in Nat
  <2>1. MaxDepth \in Nat
    BY RecordAssumption
  <2> QED
    BY <2>1
<1>2. 0 \in G
  <2>1. 0 \in 0 .. MaxDepth + 1
    BY <1>1
  <2>2. ToSds[0] = NextSds(0, ToSds[0 - 1]) /\ Text[0] = NextText(0, Text[0 - 1])
    BY <2>1, ToSdsIs, TextIs
  <2>3. GoodConverter(NextSds(0, ToSds[0 - 1]), NextText(0, Text[0 - 1]))
    BY NextSdsGood
  <2> QED
    BY <2>2, <2>3
<1>3. ASSUME NEW k \in G PROVE k + 1 \in G
  <2> SUFFICES ASSUME k + 1 <= top PROVE Done(k + 1)
    OBVIOUS
  <2> DEFINE l == k + 1
  <2>1. l \in 0 .. MaxDepth + 1 /\ l - 1 = k
    BY <1>1
  <2>2. Done(k)
    BY <1>1
  <2> HIDE DEF l
  <2>3. ToSds[l] = NextSds(l, ToSds[k]) /\ Text[l] = NextText(l, Text[k])
    BY <2>1, ToSdsIs, TextIs
  <2>4. GoodConverter(NextSds(l, ToSds[k]), NextText(l, Text[k]))
    BY <2>2, NextSdsGood
  <2>5. Done(l)
    BY <2>3, <2>4
  <2> QED
    BY <2>5 DEF l
<1>4. G = Nat
  <2> HIDE DEF Done
  <2>1. G \in SUBSET Nat
    OBVIOUS
  <2> HIDE DEF G
  <2> QED
    BY <1>2, <1>3, <2>1, NatSetInduction
<1>5. Done(top)
  <2> HIDE DEF Done, top
  <2> QED
    BY <1>1, <1>4
<1> QED
  BY <1>5 DEF GoodConverter, Sds, TextOf

-----------------------------------------------------------------------------
(* What a log says of the fields passed so far.                            *)

Entry == [key : Seq(Token), value : Seq(Token)]

\* FieldsFaithful, of any contents and fields; say[f] is what field f says.
Blank(contents, say, field) == {i \in DOMAIN field : contents[i].value # say[field[i]].value}

ToldBy(contents, fields, cost, say, field) ==
  /\ field \in [DOMAIN contents -> fields]
  /\ \A i, j \in DOMAIN field : i < j => field[i] < field[j]
  /\ \A i \in DOMAIN field : contents[i].key = say[field[i]].key
  /\ \A i \in Blank(contents, say, field) : contents[i].value = <<>>
  /\ (Cardinality(fields) - Len(contents)) + Cardinality(Blank(contents, say, field)) <= cost

Told(contents, fields, cost, say) == \E field : ToldBy(contents, fields, cost, say, field)

LEMMA BlankType ==
  ASSUME NEW contents \in Seq(Entry), NEW say, NEW field, DOMAIN field = DOMAIN contents
  PROVE  /\ IsFiniteSet(Blank(contents, say, field))
         /\ Cardinality(Blank(contents, say, field)) \in Nat
         /\ Blank(contents, say, field) \subseteq 1 .. Len(contents)
<1>1. Blank(contents, say, field) \subseteq 1 .. Len(contents) /\ Len(contents) \in Nat
  BY DEF Blank
<1>2. IsFiniteSet(1 .. Len(contents))
  BY <1>1, FS_Interval
<1>3. IsFiniteSet(Blank(contents, say, field))
  BY <1>1, <1>2, FS_Subset
<1> QED
  BY <1>1, <1>3, FS_CardinalityType

\* Another field that is not told of costs a failure.
LEMMA ToldOfOneLess ==
  ASSUME NEW contents \in Seq(Entry), NEW fields \in SUBSET Nat, NEW cost \in Nat, NEW say,
         NEW f \in Nat, NEW more \in Nat,
         IsFiniteSet(fields), Told(contents, fields, cost, say), \A g \in fields : g < f
  PROVE  /\ more >= cost => Told(contents, fields, more, say)
         /\ more >= cost + 1 => Told(contents, fields \cup {f}, more, say)
<1>1. PICK field : ToldBy(contents, fields, cost, say, field)
  BY DEF Told
<1> DEFINE blank == Blank(contents, say, field)
           wider == fields \cup {f}
<1>2. DOMAIN field = DOMAIN contents
  BY <1>1 DEF ToldBy
<1>3. Cardinality(blank) \in Nat /\ Len(contents) \in Nat
  BY <1>2, BlankType
<1>4. Cardinality(fields) \in Nat /\ Cardinality(wider) = Cardinality(fields) + 1
  BY FS_CardinalityType, FS_AddElement
<1>5. (Cardinality(fields) - Len(contents)) + Cardinality(blank) <= cost
  BY <1>1 DEF ToldBy
<1>6. field \in [DOMAIN contents -> wider]
  BY <1>1 DEF ToldBy
<1> HIDE DEF blank, wider
<1>7. ASSUME more >= cost PROVE ToldBy(contents, fields, more, say, field)
  <2>1. (Cardinality(fields) - Len(contents)) + Cardinality(blank) <= more
    BY <1>3, <1>4, <1>5, <1>7
  <2> QED
    BY <1>1, <2>1 DEF ToldBy, blank
<1>8. ASSUME more >= cost + 1 PROVE ToldBy(contents, wider, more, say, field)
  <2>1. (Cardinality(wider) - Len(contents)) + Cardinality(blank) <= more
    BY <1>3, <1>4, <1>5, <1>8
  <2> QED
    BY <1>1, <1>6, <2>1 DEF ToldBy, blank
<1> QED
  BY <1>7, <1>8 DEF Told, wider

\* Another field that is told of costs nothing, or its value and a failure.
LEMMA ToldOfOneMore ==
  ASSUME NEW contents \in Seq(Entry), NEW fields \in SUBSET Nat, NEW cost \in Nat, NEW say,
         NEW f \in Nat, NEW more \in Nat, NEW entry \in Entry,
         IsFiniteSet(fields), Told(contents, fields, cost, say), \A g \in fields : g < f,
         entry.key = say[f].key,
         \/ entry.value = say[f].value /\ more >= cost
         \/ entry.value = <<>> /\ more >= cost + 1
  PROVE  Told(Append(contents, entry), fields \cup {f}, more, say)
<1>1. PICK field : ToldBy(contents, fields, cost, say, field)
  BY DEF Told
<1> DEFINE n      == Len(contents)
           longer == Append(contents, entry)
           wider  == fields \cup {f}
           field2 == [i \in 1 .. n + 1 |-> IF i = n + 1 THEN f ELSE field[i]]
           blank  == Blank(contents, say, field)
           blank2 == Blank(longer, say, field2)
<1>2. n \in Nat /\ DOMAIN field = 1 .. n /\ DOMAIN contents = 1 .. n
      /\ \A i \in 1 .. n : field[i] \in fields
  BY <1>1 DEF ToldBy
<1>3. Cardinality(blank) \in Nat /\ IsFiniteSet(blank) /\ blank \subseteq 1 .. n
  BY <1>2, BlankType
<1>4. Cardinality(fields) \in Nat /\ Cardinality(wider) = Cardinality(fields) + 1
  BY FS_CardinalityType, FS_AddElement
<1>5. (Cardinality(fields) - n) + Cardinality(blank) <= cost
  BY <1>1 DEF ToldBy
<1>6. /\ Len(longer) = n + 1 /\ DOMAIN longer = 1 .. n + 1
      /\ longer[n + 1] = entry /\ \A i \in 1 .. n : longer[i] = contents[i]
  <2>1. longer \in Seq(Entry)
    OBVIOUS
  <2>2. Len(longer) = n + 1 /\ longer[n + 1] = entry /\ \A i \in 1 .. n : longer[i] = contents[i]
    BY AppendProperties
  <2>3. DOMAIN longer = 1 .. n + 1
    BY <2>1, <2>2, LenProperties
  <2> QED
    BY <2>2, <2>3
<1>7. DOMAIN field2 = 1 .. n + 1 /\ field2[n + 1] = f /\ \A i \in 1 .. n : field2[i] = field[i]
  BY <1>2
<1>8. field2 \in [1 .. n + 1 -> wider]
  BY <1>2
<1> HIDE DEF longer, field2
<1>9. \A i, j \in 1 .. n + 1 : i < j => field2[i] < field2[j]
  <2> SUFFICES ASSUME NEW i \in 1 .. n + 1, NEW j \in 1 .. n + 1, i < j PROVE field2[i] < field2[j]
    OBVIOUS
  <2>1. i \in 1 .. n /\ field2[i] = field[i]
    BY <1>2, <1>7
  <2>2. CASE j = n + 1
    BY <1>2, <1>7, <2>1, <2>2
  <2>3. CASE j # n + 1
    <3>1. j \in 1 .. n /\ field2[j] = field[j]
      BY <1>2, <1>7, <2>3
    <3> QED
      BY <1>1, <1>2, <2>1, <3>1 DEF ToldBy
  <2> QED
    BY <2>2, <2>3
<1>10. \A i \in 1 .. n + 1 : longer[i].key = say[field2[i]].key
  <2> TAKE i \in 1 .. n + 1
  <2>1. CASE i = n + 1
    BY <1>6, <1>7, <2>1
  <2>2. CASE i # n + 1
    <3>1. i \in 1 .. n
      BY <1>2, <2>2
    <3> QED
      BY <1>1, <1>2, <1>6, <1>7, <3>1 DEF ToldBy
  <2> QED
    BY <2>1, <2>2
<1>11. blank2 = IF entry.value = say[f].value THEN blank ELSE blank \cup {n + 1}
  <2>1. \A i \in 1 .. n : i \in blank2 <=> i \in blank
    BY <1>2, <1>6, <1>7 DEF Blank
  <2>2. n + 1 \in blank2 <=> entry.value # say[f].value
    BY <1>2, <1>6, <1>7 DEF Blank
  <2>3. blank2 \subseteq 1 .. n + 1
    BY <1>7 DEF Blank
  <2> HIDE DEF blank2, blank
  <2>4. \A i \in 1 .. n + 1 : i \in 1 .. n \/ i = n + 1
    BY <1>2
  <2>5. blank \subseteq 1 .. n /\ n + 1 \notin 1 .. n
    BY <1>2, <1>3
  <2>6. CASE entry.value = say[f].value
    <3>1. \A i : i \in blank2 <=> i \in blank
      BY <2>1, <2>2, <2>3, <2>4, <2>5, <2>6
    <3> QED
      BY <2>6, <3>1
  <2>7. CASE entry.value # say[f].value
    <3>1. \A i : i \in blank2 <=> i \in blank \cup {n + 1}
      BY <2>1, <2>2, <2>3, <2>4, <2>5, <2>7
    <3> QED
      BY <2>7, <3>1
  <2> QED
    BY <2>6, <2>7
<1> HIDE DEF blank2
<1>12. \A i \in blank2 : longer[i].value = <<>>
  <2> SUFFICES ASSUME NEW i \in blank2 PROVE longer[i].value = <<>>
    OBVIOUS
  <2>1. CASE i \in blank
    <3>1. contents[i].value = <<>>
      BY <1>1, <2>1 DEF ToldBy
    <3> QED
      BY <1>3, <1>6, <2>1, <3>1
  <2>2. CASE i \notin blank
    <3>1. i = n + 1 /\ entry.value # say[f].value
      BY <1>11, <2>2
    <3> QED
      BY <1>6, <3>1
  <2> QED
    BY <2>1, <2>2
<1>13. (Cardinality(wider) - (n + 1)) + Cardinality(blank2) <= more
  <2>1. CASE entry.value = say[f].value
    BY <1>2, <1>3, <1>4, <1>5, <1>11, <2>1
  <2>2. CASE entry.value # say[f].value
    <3>1. n + 1 \notin blank
      BY <1>2, <1>3
    <3>2. Cardinality(blank \cup {n + 1}) = Cardinality(blank) + 1
      BY <1>3, <3>1, FS_AddElement
    <3> HIDE DEF blank
    <3> QED
      BY <1>2, <1>3, <1>4, <1>5, <1>11, <2>2, <3>2
  <2> QED
    BY <2>1, <2>2
<1>14. ToldBy(longer, wider, more, say, field2)
  BY <1>6, <1>7, <1>8, <1>9, <1>10, <1>12, <1>13 DEF ToldBy, blank2
<1> QED
  BY <1>14 DEF Told, longer

-----------------------------------------------------------------------------
(* The operations of a step.                                               *)

LEMMA ScalarSds ==
  ASSUME NEW mem \in Memory, NEW value \in Value, value.kind = "scalar"
  PROVE  LET r == Sds(mem, value)
         IN  r.m.crashed = mem.crashed /\ r.m.live = mem.live + (IF r.null THEN 0 ELSE 1)
<1> DEFINE r == Sds(mem, value)
           c == Counted(mem)
           top == MaxDepth + 1
<1>1. top \in 0 .. top /\ top # 0
  <2>1. MaxDepth \in Nat
    BY RecordAssumption
  <2> QED
    BY <2>1
<1>2. ToSds[top] = NextSds(top, ToSds[top - 1])
  BY <1>1, ToSdsIs
<1>3. r = NextSds(top, ToSds[top - 1])[<<mem, value>>]
  BY <1>2 DEF Sds
<1> HIDE DEF top
<1>4. r = Create(mem, value.text)
  BY <1>1, <1>3 DEF NextSds, Nested
<1>5. c \in Memory /\ c.live = mem.live /\ c.crashed = mem.crashed /\ mem.live \in Int
  BY CountedCosts, MemoryType
<1> HIDE DEF r, c
<1>6. CASE Fails(mem)
  <2>1. r = [m |-> c, s |-> <<>>, null |-> TRUE]
    BY <1>4, <1>6 DEF Create, Null, c
  <2> QED
    BY <1>5, <2>1 DEF r
<1>7. CASE ~Fails(mem)
  <2> DEFINE more == [c EXCEPT !.live = @ + 1]
  <2>1. r = [m |-> more, s |-> value.text, null |-> FALSE]
    BY <1>4, <1>7 DEF Create, c
  <2>2. more.live = mem.live + 1 /\ more.crashed = mem.crashed
    BY <1>5 DEF Memory
  <2> HIDE DEF more
  <2> QED
    BY <2>1, <2>2 DEF r
<1> QED
  BY <1>6, <1>7

\* A conversion after which the string is destroyed.
LEMMA ConversionGood ==
  ASSUME NEW mem \in Memory, NEW value \in Value
  PROVE  LET r == Sds(mem, value)
         IN  /\ r.m \in Memory /\ r.s \in Seq(Token)
             /\ r.null => r.s = <<>>
             /\ ~r.m.crashed =>
                  /\ ~mem.crashed
                  /\ ~r.null => r.s = TextOf(value)
                  /\ Cost(r.m) >= Cost(mem) + (IF r.null THEN 1 ELSE 0)
                  /\ r.m.live + Cost(mem) <= mem.live + Cost(r.m) + (IF r.null THEN 0 ELSE 1)
<1> DEFINE r == Sds(mem, value)
<1>1. Good(r, mem, TextOf(value), 0)
  BY SdsGood
<1> HIDE DEF r
<1>2. r.m \in Memory /\ r.s \in Seq(Token)
  BY <1>1 DEF Good, Converted
<1>3. /\ mem.live \in Int /\ r.m.live \in Int /\ Cost(mem) \in Nat /\ Cost(r.m) \in Nat
  BY <1>2, MemoryType, FaultsFinite
<1>4. r.null => r.s = <<>>
  BY <1>1 DEF Good
<1>5. ~r.m.crashed => /\ ~mem.crashed
                      /\ ~r.null => r.s = TextOf(value)
                      /\ Cost(r.m) >= Cost(mem) + (IF r.null THEN 1 ELSE 0)
                      /\ r.m.live + Cost(mem) <= mem.live + Cost(r.m) + 0 + (IF r.null THEN 0 ELSE 1)
  BY <1>1 DEF Good
<1> QED
  BY <1>2, <1>3, <1>4, <1>5 DEF r

LEMMA PairGood ==
  ASSUME NEW mem \in Memory, NEW k \in Value, NEW v \in Value
  PROVE  LET key   == Sds(mem, k)
             val   == Sds(key.m, v)
             after == AfterPair(key, val)
         IN  /\ after \in Memory /\ key.s \in Seq(Token) /\ val.s \in Seq(Token)
             /\ (key.null => key.s = <<>>) /\ (val.null => val.s = <<>>)
             /\ ~after.crashed =>
                  /\ ~mem.crashed
                  /\ ~key.null => key.s = TextOf(k)
                  /\ ~val.null => val.s = TextOf(v)
                  /\ Cost(after) >= Cost(mem)
                  /\ key.null \/ val.null => Cost(after) >= Cost(mem) + 1
                  /\ after.live + Cost(mem) <= mem.live + Cost(after)
             /\ k.kind = "scalar" /\ v.kind = "scalar" =>
                  after.crashed = mem.crashed /\ after.live = mem.live
<1> DEFINE key   == Sds(mem, k)
           val   == Sds(key.m, v)
           after == AfterPair(key, val)
           nk    == IF key.null THEN 0 ELSE 1
           nv    == IF val.null THEN 0 ELSE 1
<1>1. /\ key.m \in Memory /\ key.s \in Seq(Token) /\ (key.null => key.s = <<>>)
      /\ ~key.m.crashed =>
           /\ ~mem.crashed
           /\ ~key.null => key.s = TextOf(k)
           /\ Cost(key.m) >= Cost(mem) + (IF key.null THEN 1 ELSE 0)
           /\ key.m.live + Cost(mem) <= mem.live + Cost(key.m) + nk
  BY ConversionGood
<1>2. k.kind = "scalar" => key.m.crashed = mem.crashed /\ key.m.live = mem.live + nk
  BY ScalarSds
<1> HIDE DEF key
<1>3. /\ val.m \in Memory /\ val.s \in Seq(Token) /\ (val.null => val.s = <<>>)
      /\ ~val.m.crashed =>
           /\ ~key.m.crashed
           /\ ~val.null => val.s = TextOf(v)
           /\ Cost(val.m) >= Cost(key.m) + (IF val.null THEN 1 ELSE 0)
           /\ val.m.live + Cost(key.m) <= key.m.live + Cost(val.m) + nv
  BY <1>1, ConversionGood
<1>4. v.kind = "scalar" => val.m.crashed = key.m.crashed /\ val.m.live = key.m.live + nv
  BY <1>1, ScalarSds
<1> HIDE DEF val
<1>5. /\ after \in Memory /\ after.crashed = val.m.crashed /\ Cost(after) = Cost(val.m)
      /\ after.live = (val.m.live - nk) - nv
  <2> DEFINE d == Destroyed(val.m, key)
  <2>1. d \in Memory /\ d.crashed = val.m.crashed /\ d.live = val.m.live - nk
        /\ Cost(d) = Cost(val.m)
    BY <1>3, DestroyedIs
  <2>2. after = Destroyed(d, val)
    BY DEF AfterPair
  <2> HIDE DEF d, after
  <2>3. Destroyed(d, val) \in Memory /\ Destroyed(d, val).crashed = d.crashed
        /\ Destroyed(d, val).live = d.live - nv /\ Cost(Destroyed(d, val)) = Cost(d)
    BY <2>1, DestroyedIs
  <2> QED
    BY <2>1, <2>2, <2>3
<1>6. /\ mem.live \in Int /\ key.m.live \in Int /\ val.m.live \in Int
      /\ Cost(mem) \in Nat /\ Cost(key.m) \in Nat /\ Cost(val.m) \in Nat
      /\ nk \in Nat /\ nv \in Nat
  BY <1>1, <1>3, MemoryType, FaultsFinite
<1> DEFINE cost0 == Cost(mem)   cost1 == Cost(key.m)   cost2 == Cost(val.m)
           live0 == mem.live    live1 == key.m.live    live2 == val.m.live
<1>7. ~after.crashed => /\ ~mem.crashed /\ (~key.null => key.s = TextOf(k))
                        /\ (~val.null => val.s = TextOf(v))
                        /\ cost1 >= cost0 + (IF key.null THEN 1 ELSE 0)
                        /\ cost2 >= cost1 + (IF val.null THEN 1 ELSE 0)
                        /\ live1 + cost0 <= live0 + cost1 + nk
                        /\ live2 + cost1 <= live1 + cost2 + nv
  BY <1>1, <1>3, <1>5
<1>8. k.kind = "scalar" /\ v.kind = "scalar" =>
        after.crashed = mem.crashed /\ live1 = live0 + nk /\ live2 = live1 + nv
  BY <1>2, <1>4, <1>5
<1> DEFINE costA == Cost(after)   liveA == after.live
<1>9. costA = cost2 /\ liveA = (live2 - nk) - nv
  BY <1>5
<1>10. /\ live0 \in Int /\ live1 \in Int /\ live2 \in Int
       /\ cost0 \in Nat /\ cost1 \in Nat /\ cost2 \in Nat /\ nk \in Nat /\ nv \in Nat
  BY <1>6
<1> HIDE DEF after, nk, nv, cost0, cost1, cost2, live0, live1, live2, costA, liveA
<1>11. ~after.crashed => /\ costA >= cost0 /\ (key.null \/ val.null => costA >= cost0 + 1)
                         /\ liveA + cost0 <= live0 + costA
  BY <1>7, <1>9, <1>10
<1>12. k.kind = "scalar" /\ v.kind = "scalar" => liveA = live0
  BY <1>8, <1>9, <1>10
<1> QED
  BY <1>1, <1>3, <1>5, <1>7, <1>8, <1>11, <1>12 DEF key, val, after, cost0, live0, costA, liveA

\* What is left of a text is text; it is empty if there is none or a NUL is first.
LEMMA CStringIs ==
  ASSUME NEW text \in Seq(Token)
  PROVE  /\ CString(text) \in Seq(Token)
         /\ CString(text) = <<>> <=> text = <<>> \/ Head(text) = "NUL"
<1> DEFINE kept == {i \in DOMAIN text : \A j \in 1 .. i : text[j] # "NUL"}
           n == Cardinality(kept)
<1>1. DOMAIN text = 1 .. Len(text) /\ Len(text) \in Nat
  OBVIOUS
<1>2. IsFiniteSet(1 .. Len(text)) /\ Cardinality(1 .. Len(text)) = Len(text)
  BY <1>1, FS_Interval
<1>3. kept \subseteq 1 .. Len(text)
  BY <1>1
<1>4. IsFiniteSet(kept) /\ n \in Nat /\ n <= Len(text)
  BY <1>2, <1>3, FS_Subset, FS_CardinalityType
<1>5. kept = {} <=> text = <<>> \/ text[1] = "NUL"
  <2>1. CASE text = <<>>
    BY <1>1, <1>3, <2>1
  <2>2. CASE text # <<>> /\ text[1] = "NUL"
    <3>1. \A i \in 1 .. Len(text) : 1 \in 1 .. i
      BY <1>1
    <3> QED
      BY <1>1, <2>2, <3>1
  <2>3. CASE text # <<>> /\ text[1] # "NUL"
    <3>1. 1 \in 1 .. Len(text)
      BY <1>1, <2>3
    <3>2. \A j \in 1 .. 1 : text[j] # "NUL"
      BY <2>3
    <3> QED
      BY <1>1, <2>3, <3>1, <3>2
  <2> QED
    BY <2>1, <2>2, <2>3
<1>6. n = 0 <=> kept = {}
  BY <1>4, FS_EmptySet
<1>7. CString(text) = SubSeq(text, 1, n)
  BY DEF CString
<1> HIDE DEF kept, n
<1>8. SubSeq(text, 1, n) \in Seq(Token) /\ Len(SubSeq(text, 1, n)) = n
  BY <1>1, <1>4
<1>9. SubSeq(text, 1, n) = <<>> <=> n = 0
  BY <1>8, EmptySeq
<1>10. text # <<>> => Head(text) = text[1]
  OBVIOUS
<1> QED
  BY <1>5, <1>6, <1>7, <1>8, <1>9, <1>10

LogType == [time : Int, contents : Seq(Entry)]

LEMMA AddContentIs ==
  ASSUME NEW mem \in Memory, NEW key \in Seq(Token), NEW value \in Seq(Token),
         log \in LogType, AddContent(mem, key, value)
  PROVE  /\ m' \in Memory /\ m'.live = mem.live /\ m'.crashed = mem.crashed
         /\ log' \in LogType /\ log'.time = log.time
         /\ \/ log'.contents = log.contents /\ Cost(m') = Cost(mem) + 1
            \/ /\ log'.contents =
                     Append(log.contents, [key |-> CString(key), value |-> CString(value)])
               /\ Cost(m') = Cost(mem)
<1> DEFINE entry == [key |-> CString(key), value |-> CString(value)]
           next2 == IF Fails(mem) THEN log.contents ELSE Append(log.contents, entry)
<1>1. log.contents \in Seq(Entry) /\ entry \in Entry
  BY CStringIs DEF LogType, Entry
<1>2. next2 \in Seq(Entry)
  <2> HIDE DEF entry
  <2> QED
    BY <1>1
<1>3. log' = [log EXCEPT !.contents = next2] /\ m' = Counted(mem)
  BY DEF AddContent
<1> HIDE DEF next2, entry
<1>4. log' \in LogType /\ log'.time = log.time /\ log'.contents = next2
  BY <1>2, <1>3 DEF LogType
<1>5. /\ m' \in Memory /\ m'.live = mem.live /\ m'.crashed = mem.crashed
      /\ Cost(m') = Cost(mem) + (IF Fails(mem) THEN 1 ELSE 0)
  BY <1>3, CountedCosts
<1>6. Cost(mem) \in Nat
  BY FaultsFinite
<1>7. CASE Fails(mem)
  BY <1>4, <1>5, <1>7 DEF next2
<1>8. CASE ~Fails(mem)
  BY <1>4, <1>5, <1>6, <1>8 DEF next2, entry
<1> QED
  BY <1>7, <1>8

-----------------------------------------------------------------------------
(* Records: the invariant.                                                 *)

RecordType ==
  /\ event \in Event
  /\ next \in Nat \ {0}
  /\ log \in LogType
  /\ m \in Memory
  /\ pc \in {"event", "pairs", "done"}

RecordStage ==
  /\ pc = "event" => log = None
  /\ pc # "done" /\ ~IsMap => log.contents = <<>>
  /\ IsMap => next <= Len(event.body.parts) + 1

\* The log is that of the fields passed, and what allocations failed is all that is
\* missing and all that was left behind.
RecordInv == RecordType /\ RecordStage /\ LogFaithful /\ FailuresContained

Say == [f \in Nat |-> Field(f)]

LEMMA BodyType ==
  ASSUME event \in Event
  PROVE  event.sec \in Int /\ event.body \in Value /\ Len(event.body.parts) \in Nat
<1>1. event.sec \in Int /\ event.body \in Value
  BY RecordAssumption
<1>2. event.body.parts \in Seq(Seq(Value))
  BY <1>1, RecordAssumption
<1> QED
  BY <1>1, <1>2

LEMMA FieldsType ==
  ASSUME RecordType
  PROVE  /\ Fields \in SUBSET Nat /\ IsFiniteSet(Fields)
         /\ IsMap => \A f \in Fields : f < next
         /\ ~IsMap => Fields \subseteq {1}
<1>0. next \in Nat \ {0}
  BY DEF RecordType
<1>1. IsFiniteSet(1 .. next) /\ Fields \subseteq 1 .. next
  <2>1. IsFiniteSet(1 .. next)
    BY <1>0, FS_Interval
  <2>2. Passed \subseteq 1 .. next
    BY <1>0 DEF Passed
  <2> QED
    BY <2>1, <2>2 DEF Fields
<1>2. IsFiniteSet(Fields)
  BY <1>1, FS_Subset
<1> QED
  BY <1>1, <1>2 DEF RecordType, Fields, Passed

LEMMA WholeType ==
  ASSUME RecordType, RecordStage, NEW f \in Fields
  PROVE  Whole(f).key \in Seq(Token)
<1>1. event.body \in Value /\ Len(event.body.parts) \in Nat
  BY BodyType DEF RecordType
<1>2. CASE IsMap
  <2> DEFINE part == event.body.parts[f]
  <2>1. f \in 1 .. Len(event.body.parts)
    BY <1>1, <1>2 DEF RecordType, RecordStage, Fields, Passed
  <2>2. part[1] \in Value
    BY <1>1, <1>2, <2>1, ValueParts DEF IsMap
  <2>3. TextOf(part[1]) \in Seq(Token)
    BY <2>2, SdsGood DEF RecordType
  <2> QED
    BY <1>2, <2>3 DEF Whole
<1>3. CASE ~IsMap
  <2>1. "message" \in Token
    BY RecordAssumption
  <2> QED
    BY <1>3, <2>1 DEF Whole
<1> QED
  BY <1>2, <1>3

LEMMA FaithfulIs ==
  ASSUME RecordType
  PROVE  FieldsFaithful <=> (~m.crashed => Told(log.contents, Fields, Cost(m), Say))
<1> DEFINE Tells(field) ==
             LET blank == {i \in DOMAIN field : log.contents[i].value # Field(field[i]).value}
                 lost  == Cardinality(Fields) - Len(log.contents)
             IN  /\ \A i, j \in DOMAIN field : i < j => field[i] < field[j]
                 /\ \A i \in DOMAIN field : log.contents[i].key = Field(field[i]).key
                 /\ \A i \in blank : log.contents[i].value = <<>>
                 /\ lost + Cardinality(blank) <= Cardinality(Faults(m))
<1>1. FieldsFaithful <=> (~m.crashed => \E field \in [DOMAIN log.contents -> Fields] : Tells(field))
  BY DEF FieldsFaithful
<1>2. ASSUME NEW field \in [DOMAIN log.contents -> Fields]
      PROVE  Tells(field) <=> ToldBy(log.contents, Fields, Cost(m), Say, field)
  <2>1. \A i \in DOMAIN field : Say[field[i]] = Field(field[i])
    BY FieldsType DEF Say
  <2>2. Blank(log.contents, Say, field)
          = {i \in DOMAIN field : log.contents[i].value # Field(field[i]).value}
    BY <2>1 DEF Blank
  <2> QED
    BY <2>1, <2>2 DEF ToldBy, Cost
<1> HIDE DEF Tells
<1>3. \A field : ToldBy(log.contents, Fields, Cost(m), Say, field) =>
                   field \in [DOMAIN log.contents -> Fields]
  BY DEF ToldBy
<1> QED
  BY <1>1, <1>2, <1>3 DEF Told

LEMMA SayAgain ==
  ASSUME event' = event
  PROVE  /\ \A f : Field(f)' = Field(f) /\ Whole(f)' = Whole(f)
         /\ IsMap' = IsMap
  BY DEF Field, Whole, IsMap

LEMMA TellsFaithful ==
  ASSUME event' = event, Fields' \in SUBSET Nat,
         ~m'.crashed => Told(log'.contents, Fields', Cost(m'), Say)
  PROVE  FieldsFaithful'
<1> SUFFICES ASSUME ~m'.crashed
             PROVE  \E field \in [DOMAIN log'.contents -> Fields'] :
               LET blank == {i \in DOMAIN field : log'.contents[i].value # Field(field[i]).value}
                   lost  == Cardinality(Fields') - Len(log'.contents)
               IN  /\ \A i, j \in DOMAIN field : i < j => field[i] < field[j]
                   /\ \A i \in DOMAIN field : log'.contents[i].key = Field(field[i]).key
                   /\ \A i \in blank : log'.contents[i].value = <<>>
                   /\ lost + Cardinality(blank) <= Cardinality(Faults(m'))
  BY SayAgain DEF FieldsFaithful
<1>1. PICK field : ToldBy(log'.contents, Fields', Cost(m'), Say, field)
  BY DEF Told
<1>2. field \in [DOMAIN log'.contents -> Fields']
  BY <1>1 DEF ToldBy
<1>3. \A i \in DOMAIN field : Say[field[i]] = Field(field[i])
  BY <1>2 DEF Say
<1>4. Blank(log'.contents, Say, field)
        = {i \in DOMAIN field : log'.contents[i].value # Field(field[i]).value}
  BY <1>3 DEF Blank
<1> QED
  BY <1>1, <1>2, <1>3, <1>4 DEF ToldBy, Cost

LEMMA NothingTold ==
  ASSUME NEW cost \in Nat, NEW say
  PROVE  Told(<<>>, {}, cost, say)
<1> DEFINE field == <<>>
<1>1. DOMAIN <<>> = {} /\ Len(<<>>) = 0
  OBVIOUS
<1>2. field \in [DOMAIN <<>> -> {}]
  OBVIOUS
<1>3. Blank(<<>>, say, field) = {}
  BY <1>1 DEF Blank
<1>4. Cardinality({}) = 0 /\ DOMAIN field = {}
  BY <1>1, FS_EmptySet
<1> HIDE DEF field
<1>5. ToldBy(<<>>, {}, cost, say, field)
  <2> DEFINE blank == Blank(<<>>, say, field)
  <2>1. (Cardinality({}) - Len(<<>>)) + Cardinality(blank) <= cost
    <3>1. Cardinality(blank) = 0
      BY <1>3, <1>4
    <3> HIDE DEF blank
    <3> QED
      BY <1>1, <1>4, <3>1
  <2> QED
    BY <1>2, <1>3, <1>4, <2>1 DEF ToldBy
<1> QED
  BY <1>5 DEF Told

LEMMA RecordInit ==
  Init => RecordInv
<1> SUFFICES ASSUME Init PROVE RecordInv
  OBVIOUS
<1>1. PICK failing \in Failing : m = [failing |-> failing, n |-> 0, live |-> 0, crashed |-> FALSE]
  BY DEF Init
<1>2. m \in Memory /\ m.live = 0 /\ m.crashed = FALSE
  BY <1>1 DEF Memory
<1>3. <<>> \in Seq(Entry) /\ log.contents = <<>> /\ log = None
  BY DEF Init, None
<1>4. log \in LogType
  BY <1>3 DEF None, LogType
<1>5. RecordType
  BY <1>2, <1>4 DEF RecordType, Init
<1>6. RecordStage
  <2>1. Len(event.body.parts) \in Nat
    BY BodyType DEF Init
  <2> QED
    BY <1>3, <2>1 DEF RecordStage, Init
<1>7. Cost(m) \in Nat
  BY <1>2, FaultsFinite
<1>8. FieldsFaithful
  <2>1. Fields = {}
    BY DEF Init, Fields, Passed
  <2> QED
    BY <1>3, <1>5, <1>7, <2>1, NothingTold, FaithfulIs
<1>9. TimeFaithful
  BY DEF TimeFaithful, Init
<1>10. FailuresContained
  BY <1>2, <1>7 DEF FailuresContained, LeaksAtMostFaults, FlatRecordSurvives, Cost
<1> QED
  BY <1>5, <1>6, <1>8, <1>9, <1>10 DEF RecordInv, LogFaithful

LEMMA AddLogStep ==
  ASSUME RecordInv, AddLog
  PROVE  RecordInv'
<1>1. RecordType /\ RecordStage /\ FieldsFaithful /\ FailuresContained
  BY DEF RecordInv, LogFaithful
<1>2. event' = event /\ next' = next /\ m' = m /\ pc = "event" /\ pc' = "pairs"
      /\ log = None /\ log' = [None EXCEPT !.time = LogTime(event.sec)]
  BY <1>1 DEF AddLog, RecordStage
<1>3. event.sec \in Int /\ event.body \in Value /\ Len(event.body.parts) \in Nat
  BY <1>1, BodyType DEF RecordType
<1>4. /\ LogTime(event.sec) \in Int /\ LogTime(event.sec) # 0
      /\ event.sec \in 1 .. TimeRange - 1 => LogTime(event.sec) = event.sec
  <2>1. TimeRange \in Nat /\ Now \in 1 .. TimeRange - 1
    BY RecordAssumption
  <2>2. TimeRange > 0 /\ event.sec % TimeRange \in Int
    BY <1>3, <2>1
  <2>3. event.sec \in 1 .. TimeRange - 1 => event.sec % TimeRange = event.sec
    BY <2>1
  <2> QED
    BY <2>1, <2>2, <2>3 DEF LogTime
<1>5. /\ log' \in LogType /\ log'.time = LogTime(event.sec)
      /\ log.contents = <<>> /\ log'.contents = <<>>
  <2>1. <<>> \in Seq(Entry)
    OBVIOUS
  <2>2. log' = [time |-> LogTime(event.sec), contents |-> <<>>] /\ log.contents = <<>>
    BY <1>2 DEF None
  <2> QED
    BY <1>4, <2>1, <2>2 DEF LogType
<1>6. RecordType'
  BY <1>1, <1>2, <1>5 DEF RecordType
<1>7. RecordStage'
  BY <1>1, <1>2, <1>5 DEF RecordStage, IsMap
<1>8. FieldsFaithful'
  <2>1. Fields' = Fields
    BY <1>2, SayAgain DEF Fields, Passed, Whole, IsMap
  <2>2. ~m.crashed => Told(log.contents, Fields, Cost(m), Say)
    BY <1>1, FaithfulIs
  <2> QED
    BY <1>1, <1>2, <1>5, <2>1, <2>2, FieldsType, TellsFaithful
<1>9. TimeFaithful'
  BY <1>2, <1>4, <1>5 DEF TimeFaithful
<1>10. FailuresContained'
  BY <1>1, <1>2 DEF FailuresContained, LeaksAtMostFaults, FlatRecordSurvives, IsMap, Flat
<1> QED
  BY <1>6, <1>7, <1>8, <1>9, <1>10 DEF RecordInv, LogFaithful

LEMMA DestroyItemStep ==
  ASSUME RecordInv, DestroyItem
  PROVE  RecordInv'
<1>1. RecordType /\ RecordStage /\ FieldsFaithful /\ TimeFaithful /\ FailuresContained
  BY DEF RecordInv, LogFaithful
<1>2. event' = event /\ next' = next /\ m' = m /\ log' = log /\ pc = "pairs" /\ pc' = "done"
      /\ IsMap
  BY DEF DestroyItem
<1>3. RecordType'
  BY <1>1, <1>2 DEF RecordType
<1>4. RecordStage'
  BY <1>1, <1>2 DEF RecordStage, IsMap
<1>5. FieldsFaithful'
  <2>1. Fields' = Fields
    BY <1>2 DEF Fields, Passed, Whole, IsMap
  <2>2. ~m.crashed => Told(log.contents, Fields, Cost(m), Say)
    BY <1>1, FaithfulIs
  <2> QED
    BY <1>1, <1>2, <2>1, <2>2, FieldsType, TellsFaithful
<1>6. TimeFaithful'
  BY <1>1, <1>2 DEF TimeFaithful
<1>7. FailuresContained'
  BY <1>1, <1>2 DEF FailuresContained, LeaksAtMostFaults, FlatRecordSurvives, IsMap, Flat
<1> QED
  BY <1>3, <1>4, <1>5, <1>6, <1>7 DEF RecordInv, LogFaithful

\* A pair of the map: what AddPair does with its key and its value.
LEMMA AddPairStep ==
  ASSUME RecordInv, ~m.crashed, AddPair
  PROVE  RecordInv'
<1> DEFINE part  == event.body.parts[next]
           key   == Sds(m, part[1])
           val   == Sds(key.m, part[2])
           after == AfterPair(key, val)
           k     == TextOf(part[1])
           v     == TextOf(part[2])
           cost  == Cost(m)
           told  == log.contents
           wider == Fields \cup {next}
<1>1. RecordType /\ RecordStage /\ FieldsFaithful /\ TimeFaithful /\ FailuresContained
  BY DEF RecordInv, LogFaithful
<1>2. /\ event' = event /\ next' = next + 1 /\ pc' = pc /\ pc = "pairs"
      /\ IsMap /\ next <= Len(event.body.parts) /\ event.body.kind = "map"
  BY DEF AddPair, IsMap
<1>3. IF Usable(key) THEN AddContent(after, key.s, val.s) ELSE m' = after /\ log' = log
  BY DEF AddPair
<1>4. /\ event.body \in Value /\ Len(event.body.parts) \in Nat /\ next \in Nat \ {0}
      /\ log \in LogType /\ m \in Memory /\ told \in Seq(Entry)
  BY <1>1, BodyType DEF RecordType, LogType
<1>5. next \in 1 .. Len(event.body.parts)
  BY <1>2, <1>4
<1>6. part[1] \in Value /\ part[2] \in Value
  BY <1>2, <1>4, <1>5, ValueParts
<1>7. /\ Whole(next) = [key |-> k, value |-> v]
      /\ Say[next] = [key |-> CString(k), value |-> CString(v)]
  BY <1>2, <1>4 DEF Field, Whole, Say
<1>8. /\ after \in Memory /\ key.s \in Seq(Token) /\ val.s \in Seq(Token)
      /\ (key.null => key.s = <<>>) /\ (val.null => val.s = <<>>)
      /\ ~after.crashed =>
           /\ ~key.null => key.s = k
           /\ ~val.null => val.s = v
           /\ Cost(after) >= cost
           /\ key.null \/ val.null => Cost(after) >= cost + 1
           /\ after.live + cost <= m.live + Cost(after)
      /\ part[1].kind = "scalar" /\ part[2].kind = "scalar" =>
           after.crashed = m.crashed /\ after.live = m.live
  <2> DEFINE k0 == part[1]
             v0 == part[2]
  <2>1. k0 \in Value /\ v0 \in Value /\ m \in Memory
    BY <1>4, <1>6
  <2> HIDE DEF k0, v0
  <2>2. LET key0   == Sds(m, k0)
            val0   == Sds(key0.m, v0)
            after0 == AfterPair(key0, val0)
        IN  /\ after0 \in Memory /\ key0.s \in Seq(Token) /\ val0.s \in Seq(Token)
            /\ (key0.null => key0.s = <<>>) /\ (val0.null => val0.s = <<>>)
            /\ ~after0.crashed =>
                 /\ ~key0.null => key0.s = TextOf(k0)
                 /\ ~val0.null => val0.s = TextOf(v0)
                 /\ Cost(after0) >= Cost(m)
                 /\ key0.null \/ val0.null => Cost(after0) >= Cost(m) + 1
                 /\ after0.live + Cost(m) <= m.live + Cost(after0)
            /\ k0.kind = "scalar" /\ v0.kind = "scalar" =>
                 after0.crashed = m.crashed /\ after0.live = m.live
    BY <2>1, PairGood
  <2> QED
    BY <2>2 DEF k0, v0
<1>9. Flat => part[1].kind = "scalar" /\ part[2].kind = "scalar"
  <2>1. next \in DOMAIN event.body.parts /\ 1 \in DOMAIN part /\ 2 \in DOMAIN part
    <3>1. event.body.parts \in Seq(Seq(Value)) /\ part \in Seq(Value) /\ Len(part) = 2
      BY <1>2, <1>4, <1>5, ValueParts
    <3> HIDE DEF part
    <3> QED
      BY <1>5, <3>1
  <2> QED
    BY <2>1 DEF Flat
<1>10. Fields' = IF k # <<>> THEN wider ELSE Fields
  <2>1. Passed' = Passed \cup {next}
    BY <1>2, <1>4, SayAgain DEF Passed
  <2>2. \A f : Whole(f)' = Whole(f)
    BY <1>2, SayAgain
  <2>3. Fields' = {f \in Passed' : Whole(f).key # <<>>}
    BY <2>2 DEF Fields
  <2>4. Whole(next).key = k
    BY <1>7
  <2> HIDE DEF k
  <2>5. CASE k # <<>>
    BY <2>1, <2>3, <2>4, <2>5 DEF Fields
  <2>6. CASE k = <<>>
    BY <2>1, <2>3, <2>4, <2>6 DEF Fields
  <2> QED
    BY <2>5, <2>6
<1>11. /\ Fields \in SUBSET Nat /\ IsFiniteSet(Fields) /\ (\A f \in Fields : f < next)
       /\ Fields' \in SUBSET Nat
  BY <1>1, <1>2, <1>4, <1>10, FieldsType
<1>12. Told(told, Fields, cost, Say)
  BY <1>1, FaithfulIs
<1>13. cost \in Nat /\ Cost(after) \in Nat /\ m.live \in Int /\ after.live \in Int
  BY <1>4, <1>8, FaultsFinite, MemoryType
<1> HIDE DEF part, key, val, after, k, v, cost, told, wider
<1>14. /\ m' \in Memory /\ m'.crashed = after.crashed /\ m'.live = after.live
       /\ log' \in LogType /\ log'.time = log.time
       /\ Cost(m') \in Nat /\ Cost(m') >= Cost(after)
       /\ IF Usable(key)
          THEN \/ log'.contents = told /\ Cost(m') = Cost(after) + 1
               \/ /\ log'.contents =
                        Append(told, [key |-> CString(key.s), value |-> CString(val.s)])
                  /\ Cost(m') = Cost(after)
          ELSE log'.contents = told /\ Cost(m') = Cost(after)
  <2>1. CASE Usable(key)
    <3>1. /\ m' \in Memory /\ m'.live = after.live /\ m'.crashed = after.crashed
          /\ log' \in LogType /\ log'.time = log.time
          /\ \/ log'.contents = log.contents /\ Cost(m') = Cost(after) + 1
             \/ /\ log'.contents =
                      Append(log.contents, [key |-> CString(key.s), value |-> CString(val.s)])
                /\ Cost(m') = Cost(after)
      BY <1>3, <1>4, <1>8, <2>1, AddContentIs
    <3> QED
      BY <1>13, <2>1, <3>1 DEF told
  <2>2. CASE ~Usable(key)
    BY <1>3, <1>4, <1>8, <1>13, <2>2 DEF told
  <2> QED
    BY <2>1, <2>2
<1>15. ASSUME ~m'.crashed PROVE Told(log'.contents, Fields', Cost(m'), Say)
  <2>1. /\ ~key.null => key.s = k
        /\ ~val.null => val.s = v
        /\ Cost(after) >= cost
        /\ key.null \/ val.null => Cost(after) >= cost + 1
    BY <1>8, <1>14, <1>15
  <2>2. /\ Cost(m') >= cost => Told(told, Fields, Cost(m'), Say)
        /\ Cost(m') >= cost + 1 => Told(told, wider, Cost(m'), Say)
    BY <1>4, <1>11, <1>12, <1>13, <1>14, ToldOfOneLess DEF wider
  <2>3. Cost(m') >= cost
    BY <1>13, <1>14, <2>1
  <2>4. CASE ~Usable(key)
    <3>1. log'.contents = told /\ (key.null \/ k = <<>>)
      BY <1>14, <2>1, <2>4 DEF Usable
    <3>2. CASE key.null
      <4>1. Cost(m') >= cost + 1
        BY <1>13, <1>14, <2>1, <3>2
      <4> QED
        BY <1>10, <2>2, <2>3, <3>1, <4>1
    <3>3. CASE k = <<>>
      BY <1>10, <2>2, <2>3, <3>1, <3>3
    <3> QED
      BY <3>1, <3>2, <3>3
  <2>5. CASE Usable(key) /\ log'.contents = told /\ Cost(m') = Cost(after) + 1
    <3>1. Cost(m') >= cost + 1
      BY <1>13, <2>1, <2>5
    <3> QED
      BY <1>10, <2>2, <2>3, <2>5, <3>1
  <2>6. CASE /\ Usable(key) /\ Cost(m') = Cost(after)
             /\ log'.contents = Append(told, [key |-> CString(key.s), value |-> CString(val.s)])
    <3> DEFINE entry == [key |-> CString(key.s), value |-> CString(val.s)]
    <3>1. key.s = k /\ k # <<>>
      BY <2>1, <2>6 DEF Usable
    <3>2. entry \in Entry /\ entry.key = Say[next].key
      <4>1. CString(key.s) \in Seq(Token) /\ CString(val.s) \in Seq(Token)
        BY <1>8, CStringIs
      <4> QED
        BY <1>7, <3>1, <4>1 DEF Entry
    <3>3. \/ entry.value = Say[next].value /\ Cost(m') >= cost
          \/ entry.value = <<>> /\ Cost(m') >= cost + 1
      <4>1. CASE val.null
        <5>1. <<>> \in Seq(Token) /\ val.s = <<>>
          BY <1>8, <4>1
        <5>2. CString(val.s) = <<>>
          BY <5>1, CStringIs
        <5> QED
          BY <1>8, <1>13, <1>14, <2>1, <2>6, <4>1, <5>2
      <4>2. CASE ~val.null
        BY <1>7, <2>1, <2>3, <4>2
      <4> QED
        BY <4>1, <4>2
    <3> HIDE DEF entry
    <3>4. Told(Append(told, entry), wider, Cost(m'), Say)
      BY <1>4, <1>11, <1>12, <1>13, <1>14, <3>2, <3>3, ToldOfOneMore DEF wider
    <3> QED
      BY <1>10, <2>6, <3>1, <3>4 DEF entry
  <2> QED
    BY <1>14, <2>4, <2>5, <2>6
<1>16. RecordType'
  BY <1>1, <1>2, <1>4, <1>14 DEF RecordType
<1>17. RecordStage'
  BY <1>2, <1>4 DEF RecordStage, IsMap
<1>18. FieldsFaithful'
  BY <1>2, <1>11, <1>15, TellsFaithful
<1>19. TimeFaithful'
  BY <1>1, <1>2, <1>14 DEF TimeFaithful
<1>20. LeaksAtMostFaults'
  <2>1. m.live <= cost
    BY <1>1 DEF FailuresContained, LeaksAtMostFaults, cost, Cost
  <2>2. ~m'.crashed => m'.live <= Cost(m')
    BY <1>8, <1>13, <1>14, <2>1
  <2> QED
    BY <2>2 DEF LeaksAtMostFaults, Cost
<1>21. FlatRecordSurvives'
  <2>1. IsMap' = IsMap /\ Flat' = Flat
    BY <1>2 DEF IsMap, Flat
  <2>2. Flat => m.live = 0
    BY <1>1, <1>2 DEF FailuresContained, FlatRecordSurvives
  <2>3. Flat => ~m'.crashed /\ m'.live = 0
    BY <1>8, <1>9, <1>14, <2>2
  <2> QED
    BY <2>1, <2>3 DEF FlatRecordSurvives
<1> QED
  BY <1>16, <1>17, <1>18, <1>19, <1>20, <1>21 DEF RecordInv, LogFaithful, FailuresContained

\* A body that is not a map: what AddMessage does with all of it.
LEMMA AddMessageStep ==
  ASSUME RecordInv, ~m.crashed, AddMessage
  PROVE  RecordInv'
<1> DEFINE key   == <<"message">>
           val   == Sds(m, event.body)
           none  == event.body.kind = "none"
           after == IF none THEN m ELSE Destroyed(val.m, val)
           value == IF none THEN <<>> ELSE val.s
           cost  == Cost(m)
           text  == IF none THEN <<>> ELSE TextOf(event.body)
           entry == [key |-> CString(key), value |-> CString(value)]
<1>1. RecordType /\ RecordStage /\ FieldsFaithful /\ TimeFaithful /\ FailuresContained
  BY DEF RecordInv, LogFaithful
<1>2. event' = event /\ next' = next /\ pc' = "done" /\ pc = "pairs" /\ ~IsMap
  BY DEF AddMessage
<1>3. AddContent(after, key, value)
  BY DEF AddMessage
<1>4. event.body \in Value /\ log \in LogType /\ m \in Memory /\ log.contents = <<>>
  BY <1>1, <1>2, BodyType DEF RecordType, RecordStage
<1>5. /\ Whole(1) = [key |-> key, value |-> text] /\ key # <<>>
      /\ Say[1] = [key |-> CString(key), value |-> CString(text)]
  BY <1>2 DEF Field, Whole, Say
<1>6. /\ key \in Seq(Token) /\ <<>> \in Seq(Token)
  <2>1. "message" \in Token
    BY RecordAssumption
  <2> QED
    BY <2>1
<1>7. cost \in Nat /\ m.live \in Int
  BY <1>4, FaultsFinite, MemoryType
<1>8. /\ after \in Memory /\ value \in Seq(Token)
      /\ ~after.crashed =>
           /\ \/ value = text /\ Cost(after) >= cost
              \/ value = <<>> /\ Cost(after) >= cost + 1
           /\ after.live + cost <= m.live + Cost(after)
  <2>1. CASE none
    <3>1. after = m /\ value = <<>> /\ text = <<>>
      BY <2>1
    <3> HIDE DEF after, value, text
    <3> QED
      BY <1>4, <1>6, <1>7, <3>1
  <2>2. CASE ~none
    <3>1. /\ val.m \in Memory /\ val.s \in Seq(Token) /\ (val.null => val.s = <<>>)
          /\ ~val.m.crashed =>
               /\ ~val.null => val.s = TextOf(event.body)
               /\ Cost(val.m) >= Cost(m) + (IF val.null THEN 1 ELSE 0)
               /\ val.m.live + Cost(m) <= m.live + Cost(val.m) + (IF val.null THEN 0 ELSE 1)
      BY <1>4, ConversionGood
    <3>2. after = Destroyed(val.m, val) /\ value = val.s /\ text = TextOf(event.body)
      BY <2>2
    <3> HIDE DEF val, after, value, text
    <3>3. /\ after \in Memory /\ after.crashed = val.m.crashed /\ Cost(after) = Cost(val.m)
          /\ after.live = val.m.live - (IF val.null THEN 0 ELSE 1)
      BY <3>1, <3>2, DestroyedIs
    <3>4. val.m.live \in Int /\ Cost(val.m) \in Nat
      BY <3>1, FaultsFinite, MemoryType
    <3>5. CASE val.null
      BY <1>7, <3>1, <3>2, <3>3, <3>4, <3>5
    <3>6. CASE ~val.null
      BY <1>7, <3>1, <3>2, <3>3, <3>4, <3>6
    <3> QED
      BY <3>5, <3>6
  <2> QED
    BY <2>1, <2>2
<1>9. Cost(after) \in Nat /\ after.live \in Int
  BY <1>8, FaultsFinite, MemoryType
<1>10. Fields = {} /\ Fields' = {1}
  <2>1. Passed = {} /\ Passed' = {1}
    BY <1>2, SayAgain DEF Passed
  <2>2. \A f : Whole(f)' = Whole(f)
    BY <1>2, SayAgain
  <2>3. Fields' = {f \in Passed' : Whole(f).key # <<>>}
    BY <2>2 DEF Fields
  <2>4. Whole(1).key # <<>>
    BY <1>5
  <2> QED
    BY <2>1, <2>3, <2>4 DEF Fields
<1> HIDE DEF key, val, none, after, value, cost, text
<1>11. /\ m' \in Memory /\ m'.live = after.live /\ m'.crashed = after.crashed
       /\ log' \in LogType /\ log'.time = log.time
       /\ \/ log'.contents = <<>> /\ Cost(m') = Cost(after) + 1
          \/ log'.contents = Append(<<>>, entry) /\ Cost(m') = Cost(after)
  BY <1>3, <1>4, <1>6, <1>8, AddContentIs DEF entry
<1>12. Cost(m') \in Nat
  BY <1>11, FaultsFinite
<1>13. ASSUME ~m'.crashed PROVE Told(log'.contents, Fields', Cost(m'), Say)
  <2> DEFINE nothing == <<>>
             before  == {}
             told    == Told(nothing, before, cost, Say)
  <2>1. told
    BY <1>7, NothingTold
  <2>2. /\ nothing \in Seq(Entry) /\ before \in SUBSET Nat /\ IsFiniteSet(before)
        /\ (\A g \in before : g < 1)
    BY FS_EmptySet
  <2>3. Fields' = before \cup {1}
    BY <1>10
  <2>4. /\ \/ value = text /\ Cost(after) >= cost
           \/ value = <<>> /\ Cost(after) >= cost + 1
    BY <1>8, <1>11, <1>13
  <2>5. CASE log'.contents = <<>> /\ Cost(m') = Cost(after) + 1
    <3>1. Cost(m') >= cost + 1
      BY <1>7, <1>9, <2>4, <2>5
    <3>2. log'.contents = nothing
      BY <2>5
    <3> HIDE DEF nothing, before
    <3>3. Told(nothing, before \cup {1}, Cost(m'), Say)
      BY <1>7, <1>12, <2>1, <2>2, <3>1, ToldOfOneLess
    <3> QED
      BY <2>3, <3>2, <3>3
  <2>6. CASE log'.contents = Append(<<>>, entry) /\ Cost(m') = Cost(after)
    <3>1. entry \in Entry /\ entry.key = Say[1].key
      <4>1. CString(key) \in Seq(Token) /\ CString(value) \in Seq(Token)
        BY <1>6, <1>8, CStringIs
      <4> QED
        BY <1>5, <4>1 DEF Entry
    <3>2. \/ entry.value = Say[1].value /\ Cost(m') >= cost
          \/ entry.value = <<>> /\ Cost(m') >= cost + 1
      <4>1. CString(<<>>) = <<>>
        BY <1>6, CStringIs
      <4> QED
        BY <1>5, <2>4, <2>6, <4>1
    <3>3. log'.contents = Append(nothing, entry)
      BY <2>6
    <3> HIDE DEF nothing, before, entry
    <3>4. Told(Append(nothing, entry), before \cup {1}, Cost(m'), Say)
      BY <1>7, <1>12, <2>1, <2>2, <3>1, <3>2, ToldOfOneMore
    <3> QED
      BY <2>3, <3>3, <3>4
  <2> QED
    BY <1>11, <2>5, <2>6
<1>14. RecordType'
  BY <1>1, <1>2, <1>11 DEF RecordType
<1>15. RecordStage'
  BY <1>2 DEF RecordStage, IsMap
<1>16. FieldsFaithful'
  BY <1>2, <1>10, <1>13, TellsFaithful
<1>17. TimeFaithful'
  BY <1>1, <1>2, <1>11 DEF TimeFaithful
<1>18. LeaksAtMostFaults'
  <2>1. m.live <= cost
    BY <1>1 DEF FailuresContained, LeaksAtMostFaults, cost, Cost
  <2>2. ~m'.crashed => m'.live <= Cost(m')
    BY <1>7, <1>8, <1>9, <1>11, <1>12, <2>1
  <2> QED
    BY <2>2 DEF LeaksAtMostFaults, Cost
<1>19. FlatRecordSurvives'
  BY <1>2 DEF FlatRecordSurvives, IsMap
<1> QED
  BY <1>14, <1>15, <1>16, <1>17, <1>18, <1>19 DEF RecordInv, LogFaithful, FailuresContained

-----------------------------------------------------------------------------
(* Records: the theorems.                                                  *)

LEMMA RecordStutter ==
  ASSUME RecordInv, UNCHANGED vars
  PROVE  RecordInv'
<1>1. RecordType /\ RecordStage /\ FieldsFaithful /\ TimeFaithful /\ FailuresContained
  BY DEF RecordInv, LogFaithful
<1>2. event' = event /\ next' = next /\ log' = log /\ m' = m /\ pc' = pc
  BY DEF vars
<1>3. RecordType' /\ RecordStage'
  BY <1>1, <1>2 DEF RecordType, RecordStage, IsMap
<1>4. FieldsFaithful'
  <2>1. Fields' = Fields
    BY <1>2 DEF Fields, Passed, Whole, IsMap
  <2>2. ~m.crashed => Told(log.contents, Fields, Cost(m), Say)
    BY <1>1, FaithfulIs
  <2> QED
    BY <1>1, <1>2, <2>1, <2>2, FieldsType, TellsFaithful
<1>5. TimeFaithful' /\ FailuresContained'
  BY <1>1, <1>2 DEF TimeFaithful, FailuresContained, LeaksAtMostFaults, FlatRecordSurvives,
                    IsMap, Flat
<1> QED
  BY <1>3, <1>4, <1>5 DEF RecordInv, LogFaithful

LEMMA RecordStep ==
  RecordInv /\ [Next]_vars => RecordInv'
<1> SUFFICES ASSUME RecordInv, [Next]_vars PROVE RecordInv'
  OBVIOUS
<1>1. CASE ~m.crashed /\ AddLog
  BY <1>1, AddLogStep
<1>2. CASE ~m.crashed /\ AddMessage
  BY <1>2, AddMessageStep
<1>3. CASE ~m.crashed /\ AddPair
  BY <1>3, AddPairStep
<1>4. CASE ~m.crashed /\ DestroyItem
  BY <1>4, DestroyItemStep
<1>5. CASE UNCHANGED vars
  BY <1>5, RecordStutter
<1> QED
  BY <1>1, <1>2, <1>3, <1>4, <1>5 DEF Next

\* The inductive invariant of a record's conversion (P cb_sls_flush, the loop over a
\* record's pairs).
THEOREM RecordInvariant == Spec => []RecordInv
<1> QED
  BY RecordInit, RecordStep, PTL DEF Spec

\* Whatever is in an event, however deep its values are and whichever allocations fail,
\* its log holds its fields in order, each value as it is written out under its own key,
\* both up to their first NUL, all but at most one field or value for each failure; its
\* time is the event's, and never 0.
THEOREM RecordLogFaithful == Spec => []LogFaithful
<1>1. RecordInv => LogFaithful
  BY DEF RecordInv
<1> QED
  BY <1>1, RecordInvariant, PTL

\* Fields with a key that are told of are not cut to nothing, or some are.
LEMMA EncodableIs ==
  ASSUME RecordInv, ~m.crashed
  PROVE  /\ NulFields = {} /\ Cardinality(Fields) > Cardinality(Faults(m)) => Encodable(log.contents)
         /\ Cardinality(NulFields) > Cardinality(Faults(m)) => ~Encodable(log.contents)
<1> DEFINE told   == log.contents
           cost   == Cost(m)
           nul    == NulFields
           others == Fields \ nul
<1>1. RecordType /\ RecordStage /\ told \in Seq(Entry) /\ m \in Memory
  BY DEF RecordInv, RecordType, LogType
<1>2. PICK field : ToldBy(told, Fields, cost, Say, field)
  BY <1>1, FaithfulIs DEF RecordInv, LogFaithful, Told
<1>3. field \in [1 .. Len(told) -> Fields] /\ Len(told) \in Nat
  BY <1>1, <1>2 DEF ToldBy
<1>4. Fields \in SUBSET Nat /\ IsFiniteSet(Fields)
  BY <1>1, FieldsType
<1>5. cost \in Nat /\ cost = Cardinality(Faults(m))
  BY <1>1, FaultsFinite DEF Cost
<1>6. /\ Cardinality(Fields) \in Nat
      /\ Cardinality(Blank(told, Say, field)) \in Nat
      /\ (Cardinality(Fields) - Len(told)) + Cardinality(Blank(told, Say, field)) <= cost
  BY <1>1, <1>2, <1>3, <1>4, BlankType, FS_CardinalityType DEF ToldBy
<1>7. \A i \in 1 .. Len(told) : told[i].key = <<>> <=> field[i] \in nul
  <2> SUFFICES ASSUME NEW i \in 1 .. Len(told) PROVE told[i].key = <<>> <=> field[i] \in nul
    OBVIOUS
  <2> DEFINE text == Whole(field[i]).key
  <2>1. field[i] \in Fields /\ field[i] \in Nat
    BY <1>3, <1>4
  <2>2. told[i].key = CString(text)
    BY <1>2, <1>3, <2>1 DEF ToldBy, Say, Field
  <2>3. text \in Seq(Token) /\ text # <<>>
    BY <1>1, <2>1, WholeType DEF Fields
  <2>4. field[i] \in nul <=> Head(text) = "NUL"
    BY <2>1 DEF NulFields
  <2> HIDE DEF text
  <2> QED
    BY <2>2, <2>3, <2>4, CStringIs
<1>8. Encodable(told) <=> told # <<>> /\ \A i \in 1 .. Len(told) : field[i] \notin nul
  BY <1>1, <1>7 DEF Encodable
<1>9. ASSUME nul = {}, Cardinality(Fields) > cost PROVE Encodable(told)
  <2>1. Len(told) # 0
    BY <1>3, <1>5, <1>6, <1>9
  <2> QED
    BY <1>1, <1>8, <1>9, <2>1
<1>10. ASSUME Cardinality(nul) > cost, Encodable(told) PROVE FALSE
  <2>1. nul \subseteq Fields /\ others \subseteq Fields
    BY DEF NulFields
  <2>2. IsFiniteSet(nul) /\ IsFiniteSet(others)
    BY <1>4, <2>1, FS_Subset
  <2>3. Cardinality(Fields) = Cardinality(others) + Cardinality(nul)
    <3>1. Cardinality(others \cup nul) =
            Cardinality(others) + Cardinality(nul) - Cardinality(others \cap nul)
      BY <2>2, FS_Union
    <3>2. others \cup nul = Fields /\ others \cap nul = {}
      BY <2>1
    <3>3. Cardinality(others) \in Nat /\ Cardinality(nul) \in Nat /\ Cardinality({}) = 0
      BY <2>2, FS_EmptySet, FS_CardinalityType
    <3>4. Cardinality(Fields) = Cardinality(others) + Cardinality(nul) - Cardinality({})
      BY <3>1, <3>2
    <3> HIDE DEF others, nul
    <3> QED
      BY <3>3, <3>4
  <2>4. Len(told) <= Cardinality(others)
    <3>1. field \in [1 .. Len(told) -> others]
      BY <1>3, <1>8, <1>10
    <3>2. \A i, j \in 1 .. Len(told) : field[i] = field[j] => i = j
      <4> SUFFICES ASSUME NEW i \in 1 .. Len(told), NEW j \in 1 .. Len(told), field[i] = field[j]
                   PROVE  i = j
        OBVIOUS
      <4>1. field[i] \in Nat /\ field[j] \in Nat /\ i \in Nat /\ j \in Nat
        <5>1. field[i] \in Fields /\ field[j] \in Fields
          BY <1>3
        <5>2. field[i] \in Nat /\ field[j] \in Nat
          BY <1>4, <5>1
        <5>3. i \in Nat /\ j \in Nat
          BY <1>3
        <5> QED
          BY <5>2, <5>3
      <4>2. ~(i < j) /\ ~(j < i)
        <5>1. i < j => field[i] < field[j]
          BY <1>2, <1>3 DEF ToldBy
        <5>2. j < i => field[j] < field[i]
          BY <1>2, <1>3 DEF ToldBy
        <5> QED
          BY <4>1, <5>1, <5>2
      <4> QED
        BY <4>1, <4>2
    <3>3. IsFiniteSet(1 .. Len(told)) /\ Cardinality(1 .. Len(told)) = Len(told)
      BY <1>3, FS_Interval
    <3>4. field \in Injection(1 .. Len(told), others)
      BY <3>1, <3>2 DEF Injection, IsInjective
    <3> QED
      BY <2>2, <3>3, <3>4, FS_Injection
  <2>5. Cardinality(nul) \in Nat /\ Cardinality(others) \in Nat
    BY <2>2, FS_CardinalityType
  <2> QED
    BY <1>3, <1>5, <1>6, <1>10, <2>3, <2>4, <2>5
<1> QED
  BY <1>5, <1>9, <1>10

\* When the encoder takes the log of an event: if a field has a key and none begins with
\* a NUL, and not if one does, up to the fields failed allocations take away, for
\* events of any size and depth.
THEOREM RecordLogEncodable == Spec => []LogEncodable
<1>1. RecordInv => LogEncodable
  BY EncodableIs DEF LogEncodable
<1> QED
  BY <1>1, RecordInvariant, PTL

\* Whichever allocations fail, the conversion of an event leaves behind at most one
\* string for each failure, and that of a record of plain values none; nor does the
\* latter ever concatenate to a string that could not be allocated.
THEOREM RecordFailuresContained == Spec => []FailuresContained
<1>1. RecordInv => FailuresContained
  BY DEF RecordInv
<1> QED
  BY <1>1, RecordInvariant, PTL

-----------------------------------------------------------------------------
(* Text: strings made of chunks. FlattenSeq puts them one after the other. *)

\* The chunks written so far.
PartSteps(part, chunks) ==
  part[0] = <<>> /\ \A k \in 1 .. Len(chunks) : part[k] = part[k - 1] \o chunks[k]

\* FlattenSeq is made up one chunk at a time.
LEMMA FlattenIs ==
  ASSUME NEW X, NEW chunks \in Seq(Seq(X))
  PROVE  \E part \in [0 .. Len(chunks) -> Seq(X)] :
           PartSteps(part, chunks) /\ FlattenSeq(chunks) = part[Len(chunks)]
<1> DEFINE n == Len(chunks)
           Longer(k, s) == s \o chunks[k]
           stride == [c \in (1 .. n) \X Seq(X) |-> Longer(c[1], c[2])]
           Eq(q) == q = [i \in 1 .. n |-> IF i = 1 THEN chunks[i] ELSE q[i - 1] \o chunks[i]]
           flat == CHOOSE q : Eq(q)
           part == [i \in 0 .. n |-> IF i = 0 THEN <<>> ELSE flat[i]]
<1>0. n \in Nat
  OBVIOUS
<1>1. \A k \in 1 .. n : chunks[k] \in Seq(X)
  OBVIOUS
<1>2. \A k \in 1 .. n : \A s \in Seq(X) : Longer(k, s) \in Seq(X)
  BY <1>1, ConcatProperties
<1>3. /\ stride \in [(1 .. n) \X Seq(X) -> Seq(X)]
      /\ \A k \in 1 .. n : \A s \in Seq(X) : stride[<<k, s>>] = Longer(k, s)
  <2> HIDE DEF Longer
  <2> QED
    BY <1>2
<1> HIDE DEF stride
<1>4. PICK f \in [0 .. n -> Seq(X)] : BySteps(f, n, <<>>, stride)
  BY <1>0, <1>3, EmptySeq, StepRecursion
<1>5. \A k \in 1 .. n : f[k] = f[k - 1] \o chunks[k] /\ f[k - 1] \in Seq(X)
  <2> TAKE k \in 1 .. n
  <2>0. k - 1 \in 0 .. n
    OBVIOUS
  <2>1. f[k - 1] \in Seq(X)
    BY <1>4, <2>0
  <2>2. f[k] = stride[<<k, f[k - 1]>>]
    BY <1>4 DEF BySteps
  <2>3. f[k] = Longer(k, f[k - 1])
    BY <1>3, <2>1, <2>2
  <2> QED
    BY <2>1, <2>3
<1>6. n # 0 => f[1] = chunks[1]
  <2> SUFFICES ASSUME n # 0 PROVE f[1] = chunks[1]
    OBVIOUS
  <2>0. 1 \in 1 .. n /\ 1 - 1 = 0
    BY <1>0
  <2>1. f[1] = f[0] \o chunks[1] /\ f[0] = <<>>
    BY <1>4, <1>5, <2>0 DEF BySteps
  <2> QED
    BY <1>1, <2>1, ConcatEmptySeq
<1>7. Eq(flat)
  <2> DEFINE g == [i \in 1 .. n |-> f[i]]
  <2>1. ASSUME NEW i \in 1 .. n
        PROVE  g[i] = IF i = 1 THEN chunks[i] ELSE g[i - 1] \o chunks[i]
    <3>1. CASE i = 1
      BY <1>6, <3>1
    <3>2. CASE i # 1
      <4>1. i - 1 \in 1 .. n
        BY <3>2
      <4> QED
        BY <1>5, <3>2, <4>1
    <3> QED
      BY <3>1, <3>2
  <2>2. Eq(g)
    BY <2>1
  <2> HIDE DEF Eq, g
  <2> QED
    BY <2>2
<1>8. FlattenSeq(chunks) = IF n = 0 THEN chunks ELSE flat[n]
  BY DEF FlattenSeq
<1> HIDE DEF flat
<1>9. \A i \in 1 .. n : flat[i] = IF i = 1 THEN chunks[i] ELSE flat[i - 1] \o chunks[i]
  BY <1>7
<1>10. PartSteps(part, chunks)
  <2>1. part[0] = <<>>
    BY <1>0
  <2>2. ASSUME NEW k \in 1 .. n PROVE part[k] = part[k - 1] \o chunks[k]
    <3>1. CASE k = 1
      <4>1. part[k] = chunks[k] /\ part[k - 1] = <<>>
        BY <1>0, <1>9, <3>1
      <4> QED
        BY <1>1, <4>1, ConcatEmptySeq
    <3>2. CASE k # 1
      <4>1. k \in 0 .. n /\ k - 1 \in 0 .. n /\ k # 0 /\ k - 1 # 0
        BY <3>2
      <4> QED
        BY <1>9, <3>2, <4>1
    <3> QED
      BY <3>1, <3>2
  <2> QED
    BY <2>1, <2>2 DEF PartSteps
<1>11. \A i \in 0 .. n : part[i] = f[i] /\ part[i] \in Seq(X)
  <2>1. \A k \in 1 .. n : part[k - 1] \in Seq(X) => part[k] = stride[<<k, part[k - 1]>>]
    BY <1>3, <1>10 DEF PartSteps
  <2>2. part[0] = f[0]
    BY <1>0, <1>4 DEF BySteps
  <2> HIDE DEF part
  <2> QED
    BY <1>0, <1>4, <2>1, <2>2, StepsUnique
<1>12. part \in [0 .. n -> Seq(X)]
  BY <1>11
<1>13. FlattenSeq(chunks) = part[n]
  <2>1. CASE n = 0
    <3>1. chunks = <<>>
      BY <2>1
    <3> QED
      BY <1>8, <2>1, <3>1
  <2>2. CASE n # 0
    BY <1>0, <1>8, <2>2
  <2> QED
    BY <2>1, <2>2
<1> QED
  BY <1>10, <1>12, <1>13

\* Where each chunk starts; at[Len(chunks)] is where the last one ends.
Located(at, chunks, flat) ==
  /\ at \in [0 .. Len(chunks) -> Nat \ {0}]
  /\ at[0] = 1 /\ at[Len(chunks)] = Len(flat) + 1
  /\ \A k \in 1 .. Len(chunks) :
       /\ at[k] = at[k - 1] + Len(chunks[k])
       /\ at[k] <= Len(flat) + 1
       /\ \A j \in 1 .. Len(chunks[k]) : flat[at[k - 1] + j - 1] = chunks[k][j]
  /\ \A i \in 1 .. Len(flat) :
       \E k \in 1 .. Len(chunks) : \E j \in 1 .. Len(chunks[k]) : i = at[k - 1] + j - 1

\* Every chunk, and no more, is in what FlattenSeq makes of them.
LEMMA FlattenLocated ==
  ASSUME NEW X, NEW chunks \in Seq(Seq(X))
  PROVE  /\ FlattenSeq(chunks) \in Seq(X)
         /\ \E at : Located(at, chunks, FlattenSeq(chunks))
<1> DEFINE n == Len(chunks)
           size(k) == Len(chunks[k])
<1>0. n \in Nat
  OBVIOUS
<1>1. \A k \in 1 .. n : chunks[k] \in Seq(X)
  OBVIOUS
<1>2. PICK part \in [0 .. n -> Seq(X)] : PartSteps(part, chunks) /\ FlattenSeq(chunks) = part[n]
  BY FlattenIs
<1> DEFINE at == [k \in 0 .. n |-> Len(part[k]) + 1]
           Done(t) == /\ \A k \in 1 .. t : at[k] <= at[t]
                      /\ \A k \in 1 .. t : \A j \in 1 .. size(k) :
                           part[t][at[k - 1] + j - 1] = chunks[k][j]
                      /\ \A i \in 1 .. at[t] - 1 :
                           \E k \in 1 .. t : \E j \in 1 .. size(k) : i = at[k - 1] + j - 1
           G == {t \in Nat : t <= n => Done(t)}
<1>3. \A k \in 0 .. n : at[k] = Len(part[k]) + 1 /\ part[k] \in Seq(X) /\ at[k] \in Nat \ {0}
  <2> TAKE k \in 0 .. n
  <2>1. part[k] \in Seq(X)
    BY <1>2
  <2> QED
    BY <2>1
<1>4. \A k \in 1 .. n : size(k) \in Nat
  BY <1>1
<1>5. part[0] = <<>> /\ at[0] = 1
  BY <1>0, <1>2 DEF PartSteps
<1> HIDE DEF at, size
<1>6. \A k \in 1 .. n : k - 1 \in 0 .. n /\ k \in 0 .. n
  OBVIOUS
<1>7. ASSUME NEW k \in 1 .. n
      PROVE  /\ at[k] = at[k - 1] + size(k)
             /\ \A i \in 1 .. at[k - 1] - 1 : part[k][i] = part[k - 1][i]
             /\ \A j \in 1 .. size(k) : part[k][at[k - 1] + j - 1] = chunks[k][j]
  <2> DEFINE a == part[k - 1]   b == chunks[k]   c == part[k]
             la == Len(a)   lb == Len(b)   start == at[k - 1]
  <2>1. a \in Seq(X) /\ b \in Seq(X) /\ c = a \o b
    BY <1>1, <1>2, <1>3, <1>6 DEF PartSteps
  <2>2. start = la + 1 /\ at[k] = Len(c) + 1 /\ size(k) = lb
    BY <1>3, <1>6 DEF size
  <2> HIDE DEF a, b, c, start
  <2>3. la \in Nat /\ lb \in Nat
    BY <2>1
  <2>4. Len(c) = la + lb /\ \A i \in 1 .. la + lb : c[i] = IF i <= la THEN a[i] ELSE b[i - la]
    BY <2>1, ConcatProperties
  <2> HIDE DEF la, lb
  <2>5. at[k] = start + size(k)
    BY <2>2, <2>3, <2>4
  <2>6. \A i \in 1 .. start - 1 : c[i] = a[i]
    BY <2>2, <2>3, <2>4
  <2>7. ASSUME NEW j \in 1 .. size(k) PROVE c[start + j - 1] = b[j]
    <3>1. start + j - 1 \in 1 .. la + lb /\ ~(start + j - 1 <= la) /\ (start + j - 1) - la = j
      BY <2>2, <2>3
    <3> QED
      BY <2>4, <3>1
  <2> QED
    BY <2>5, <2>6, <2>7 DEF a, b, c, start
<1>8. 0 \in G
  BY <1>5
<1>9. ASSUME NEW t \in G PROVE t + 1 \in G
  <2> SUFFICES ASSUME t + 1 <= n PROVE Done(t + 1)
    <3> HIDE DEF Done
    <3> QED
      OBVIOUS
  <2> DEFINE u == t + 1
  <2>0. t \in Nat /\ t <= n /\ Done(t)
    <3> HIDE DEF Done
    <3> QED
      BY <1>0
  <2>1. t \in Nat /\ u \in 1 .. n /\ u - 1 = t /\ t \in 0 .. n /\ Done(t)
    <3> HIDE DEF Done
    <3> QED
      BY <1>0, <2>0
  <2>2. \A k \in 1 .. u : k = u \/ k \in 1 .. t
    BY <2>1
  <2>3. \A k \in 1 .. t : k \in 1 .. n /\ k \in 1 .. u
    BY <2>1
  <2>4. u \in 1 .. u
    BY <2>1
  <2> HIDE DEF u
  <2>5. /\ at[u] = at[t] + size(u) /\ at[t] \in Nat \ {0} /\ at[u] \in Nat \ {0} /\ size(u) \in Nat
    BY <1>3, <1>4, <1>7, <1>6, <2>1
  <2>6. \A k \in 1 .. u : at[k] <= at[u]
    <3> TAKE k \in 1 .. u
    <3>1. CASE k \in 1 .. t
      <4>1. at[k] \in Nat /\ at[k] <= at[t]
        BY <1>3, <1>6, <2>1, <2>3, <3>1
      <4> QED
        BY <2>5, <4>1
    <3>2. CASE k = u
      BY <2>5, <3>2
    <3> QED
      BY <2>2, <3>1, <3>2
  <2>7. ASSUME NEW k \in 1 .. u, NEW j \in 1 .. size(k)
        PROVE  part[u][at[k - 1] + j - 1] = chunks[k][j]
    <3>1. CASE k \in 1 .. t
      <4> DEFINE i == at[k - 1] + j - 1
      <4>1. part[t][i] = chunks[k][j]
        BY <2>1, <3>1
      <4>2. i \in 1 .. at[t] - 1
        <5>1. /\ at[k - 1] \in Nat \ {0} /\ at[k] = at[k - 1] + size(k) /\ size(k) \in Nat
              /\ at[k] <= at[t]
          BY <1>3, <1>4, <1>6, <1>7, <2>1, <2>3, <3>1
        <5> DEFINE start == at[k - 1]   last == at[k]   end == at[t]   len == size(k)
        <5>2. /\ start \in Nat \ {0} /\ last = start + len /\ len \in Nat /\ last <= end
              /\ end \in Nat \ {0} /\ j \in 1 .. len
          BY <2>5, <5>1
        <5> HIDE DEF start, last, end, len
        <5>3. start + j - 1 \in 1 .. end - 1
          BY <5>2
        <5> QED
          BY <5>3 DEF start, end
      <4> HIDE DEF i
      <4>3. part[u][i] = part[t][i]
        BY <1>7, <2>1, <4>2
      <4> QED
        BY <4>1, <4>3 DEF i
    <3>2. CASE k = u
      BY <1>7, <2>1, <3>2
    <3> QED
      BY <2>2, <3>1, <3>2
  <2>8. ASSUME NEW i \in 1 .. at[u] - 1
        PROVE  \E k \in 1 .. u : \E j \in 1 .. size(k) : i = at[k - 1] + j - 1
    <3>1. CASE i <= at[t] - 1
      <4>1. i \in 1 .. at[t] - 1
        BY <2>5, <3>1
      <4>2. PICK k \in 1 .. t : \E j \in 1 .. size(k) : i = at[k - 1] + j - 1
        BY <2>1, <4>1
      <4> QED
        BY <2>3, <4>2
    <3>2. CASE i > at[t] - 1
      <4> DEFINE j == i - (at[t] - 1)
      <4>1. j \in 1 .. size(u) /\ i = at[t] + j - 1
        <5> DEFINE start == at[t]   last == at[u]   len == size(u)
        <5>1. start \in Nat /\ len \in Nat /\ last = start + len
          BY <2>5
        <5>2. i \in Nat /\ i > start - 1 /\ i <= last - 1 /\ j = i - (start - 1)
          BY <2>5, <3>2
        <5> HIDE DEF start, last, len, j
        <5>3. j \in Nat /\ j >= 1 /\ j <= len
          BY <5>1, <5>2
        <5>4. i = start + j - 1
          BY <5>1, <5>2
        <5> QED
          BY <5>3, <5>4 DEF start, len
      <4>2. i = at[u - 1] + j - 1
        BY <2>1, <4>1
      <4> HIDE DEF j
      <4> QED
        BY <2>4, <4>1, <4>2
    <3>3. i <= at[t] - 1 \/ i > at[t] - 1
      <4> DEFINE start == at[t]   end == at[u]
      <4>1. start \in Nat /\ end \in Nat
        BY <2>5
      <4> HIDE DEF start, end
      <4>2. i \in 1 .. end - 1
        BY DEF end
      <4>3. i \in Nat
        BY <4>1, <4>2
      <4>4. i <= start - 1 \/ i > start - 1
        BY <4>1, <4>3
      <4> QED
        BY <4>4 DEF start
    <3> QED
      BY <3>1, <3>2, <3>3
  <2>9. Done(u)
    BY <2>6, <2>7, <2>8
  <2> QED
    BY <2>9 DEF u
<1>10. G = Nat
  <2> HIDE DEF Done
  <2>1. G \in SUBSET Nat
    OBVIOUS
  <2> HIDE DEF G
  <2> QED
    BY <1>8, <1>9, <2>1, NatSetInduction
<1>11. Done(n)
  <2> HIDE DEF Done
  <2> QED
    BY <1>0, <1>10
<1>12. n \in 0 .. n /\ at[n] = Len(part[n]) + 1 /\ part[n] \in Seq(X) /\ Len(part[n]) \in Nat
  <2>1. n \in 0 .. n
    BY <1>0
  <2> QED
    BY <1>3, <2>1
<1>13. at[n] - 1 = Len(part[n])
  BY <1>12
<1>14. at \in [0 .. n -> Nat \ {0}]
  BY <1>3 DEF at
<1>15. Located(at, chunks, part[n])
  BY <1>5, <1>7, <1>11, <1>12, <1>13, <1>14 DEF Located, size
<1> QED
  BY <1>2, <1>12, <1>15

-----------------------------------------------------------------------------
(* Text: what a reader makes of a string.                                  *)

Reading == [byte : Int, width : Nat]

\* Within the string.
Within(reading) == \A i \in 1 .. Len(reading) : i + reading[i].width <= Len(reading) + 1

\* What is read from each position on.
Reads(from, reading, rest) ==
  /\ from[Len(reading) + 1] = rest
  /\ \A i \in 1 .. Len(reading) :
       from[i] = IF reading[i].width = 0 THEN <<>>
                 ELSE <<reading[i].byte>> \o from[i + reading[i].width]

\* Read has its recursive function: what is read from each position on.
LEMMA ReadFrom ==
  ASSUME NEW reading \in Seq(Reading), NEW rest \in Seq(Int), Within(reading)
  PROVE  \E from : Reads(from, reading, rest) /\ Read(reading, rest) = from[1]
<1> DEFINE n == Len(reading)
           byte(i) == reading[i].byte
           width(i) == reading[i].width
           Entry1(f, i) == IF width(i) = 0 THEN <<>> ELSE <<byte(i)>> \o f[i + width(i)]
           Solved(t) == \E f \in [n + 1 - t .. n + 1 -> Seq(Int)] :
                          f[n + 1] = rest /\ \A i \in n + 1 - t .. n : f[i] = Entry1(f, i)
           G == {t \in Nat : t <= n => Solved(t)}
<1>0. n \in Nat
  OBVIOUS
<1>1. \A i \in 1 .. n : width(i) \in Nat /\ byte(i) \in Int /\ i + width(i) <= n + 1
  <2> TAKE i \in 1 .. n
  <2>1. reading[i] \in Reading
    OBVIOUS
  <2>2. i + width(i) <= n + 1
    BY DEF Within
  <2> QED
    BY <2>1, <2>2 DEF Reading
<1>2. Read(reading, rest) =
        (CHOOSE f : f = [i \in 1 .. n + 1 |-> IF i > n THEN rest
                                             ELSE IF width(i) = 0 THEN <<>>
                                             ELSE <<byte(i)>> \o f[i + width(i)]])[1]
  BY DEF Read
<1>3. \A from : Reads(from, reading, rest) <=>
                  from[n + 1] = rest /\ \A i \in 1 .. n : from[i] = Entry1(from, i)
  BY DEF Reads
<1> HIDE DEF byte, width, n
<1>4. 0 \in G
  <2> DEFINE f == [i \in n + 1 .. n + 1 |-> rest]
  <2>1. f \in [n + 1 .. n + 1 -> Seq(Int)] /\ f[n + 1] = rest
    BY <1>0
  <2>2. n + 1 - 0 = n + 1 /\ \A i \in n + 1 .. n : FALSE
    BY <1>0
  <2> HIDE DEF f
  <2>3. Solved(0)
    BY <2>1, <2>2
  <2> HIDE DEF Solved
  <2> QED
    BY <2>3
<1>5. ASSUME NEW t \in G PROVE t + 1 \in G
  <2> SUFFICES ASSUME t + 1 <= n PROVE Solved(t + 1)
    <3> HIDE DEF Solved
    <3> QED
      OBVIOUS
  <2>1. t \in Nat /\ Solved(t)
    <3> HIDE DEF Solved
    <3> QED
      BY <1>0
  <2> DEFINE p == n - t
  <2>2. p \in 1 .. n /\ n + 1 - t = p + 1 /\ n + 1 - (t + 1) = p
    BY <1>0, <2>1
  <2>3. PICK f \in [p + 1 .. n + 1 -> Seq(Int)] :
          f[n + 1] = rest /\ \A i \in p + 1 .. n : f[i] = Entry1(f, i)
    BY <2>1, <2>2
  <2> HIDE DEF p
  <2> DEFINE first == Entry1(f, p)
             g     == [i \in p .. n + 1 |-> IF i = p THEN first ELSE f[i]]
  <2>4. first \in Seq(Int)
    <3>1. CASE width(p) = 0
      BY <3>1
    <3>2. CASE width(p) # 0
      <4>1. p + width(p) \in p + 1 .. n + 1
        <5> DEFINE w == width(p)
        <5>1. w \in Nat /\ w # 0 /\ p + w <= n + 1
          BY <1>1, <2>2, <3>2
        <5> HIDE DEF w
        <5>2. p + w \in p + 1 .. n + 1
          BY <1>0, <2>2, <5>1
        <5> QED
          BY <5>2 DEF w
      <4> DEFINE b == <<byte(p)>>   rest2 == f[p + width(p)]
      <4>2. b \in Seq(Int) /\ rest2 \in Seq(Int)
        BY <1>1, <2>2, <2>3, <4>1
      <4>3. first = b \o rest2
        BY <3>2
      <4> HIDE DEF b, rest2, first
      <4> QED
        BY <4>2, <4>3, ConcatProperties
    <3> QED
      BY <3>1, <3>2
  <2>5. \A i \in p + 1 .. n + 1 : i \in p .. n + 1 /\ i # p
    BY <1>0, <2>2
  <2>6. /\ g \in [p .. n + 1 -> Seq(Int)]
        /\ g[p] = first /\ \A i \in p + 1 .. n + 1 : g[i] = f[i]
    <3> HIDE DEF first
    <3>1. ASSUME NEW i \in p .. n + 1 PROVE (IF i = p THEN first ELSE f[i]) \in Seq(Int)
      <4>1. i # p => i \in p + 1 .. n + 1
        BY <2>2
      <4> QED
        BY <2>3, <2>4, <4>1
    <3>2. p \in p .. n + 1
      BY <1>0, <2>2
    <3> QED
      BY <2>5, <3>1, <3>2
  <2> HIDE DEF g
  <2>7. ASSUME NEW i \in p .. n PROVE g[i] = Entry1(g, i)
    <3>1. i \in 1 .. n /\ i + width(i) <= n + 1 /\ width(i) \in Nat
      BY <1>1, <2>2
    <3>2. Entry1(g, i) = Entry1(f, i)
      <4>1. CASE width(i) = 0
        BY <4>1
      <4>2. CASE width(i) # 0
        <5> DEFINE w == width(i)
        <5>0. w \in Nat /\ w # 0 /\ i + w <= n + 1
          BY <3>1, <4>2
        <5> HIDE DEF w
        <5>1. i + w \in p + 1 .. n + 1
          BY <1>0, <2>2, <5>0
        <5> USE DEF w
        <5>2. g[i + width(i)] = f[i + width(i)]
          BY <2>6, <5>1
        <5> QED
          BY <5>2
      <4> QED
        BY <4>1, <4>2
    <3>3. CASE i = p
      <4>1. g[i] = Entry1(f, i)
        BY <2>6, <3>3
      <4> QED
        BY <3>2, <4>1
    <3>4. CASE i # p
      <4>1. i \in p + 1 .. n /\ i \in p + 1 .. n + 1
        BY <1>0, <2>2, <3>4
      <4>2. g[i] = f[i] /\ f[i] = Entry1(f, i)
        BY <2>3, <2>6, <4>1
      <4> QED
        BY <3>2, <4>2
    <3> QED
      BY <3>3, <3>4
  <2>8. g[n + 1] = rest
    <3>1. n + 1 \in p + 1 .. n + 1
      BY <1>0, <2>2
    <3> QED
      BY <2>3, <2>6, <3>1
  <2> HIDE DEF Entry1, first
  <2> QED
    BY <2>2, <2>6, <2>7, <2>8
<1>6. G = Nat
  <2> HIDE DEF Solved
  <2>1. G \in SUBSET Nat
    OBVIOUS
  <2> HIDE DEF G
  <2> QED
    BY <1>4, <1>5, <2>1, NatSetInduction
<1>7. Solved(n)
  <2> HIDE DEF Solved
  <2> QED
    BY <1>0, <1>6
<1>8. PICK f \in [1 .. n + 1 -> Seq(Int)] :
        f[n + 1] = rest /\ \A i \in 1 .. n : f[i] = Entry1(f, i)
  <2>1. n + 1 - n = 1
    BY <1>0
  <2> HIDE DEF Entry1
  <2> QED
    BY <1>7, <2>1
<1> DEFINE Eq(q) == q = [i \in 1 .. n + 1 |-> IF i > n THEN rest
                                              ELSE IF width(i) = 0 THEN <<>>
                                              ELSE <<byte(i)>> \o q[i + width(i)]]
           from == CHOOSE q : Eq(q)
<1>9. Eq(f)
  <2>1. ASSUME NEW i \in 1 .. n + 1
        PROVE  f[i] = IF i > n THEN rest ELSE IF width(i) = 0 THEN <<>>
                      ELSE <<byte(i)>> \o f[i + width(i)]
    <3>1. CASE i > n
      <4>1. i = n + 1
        BY <1>0, <3>1
      <4> QED
        BY <1>8, <3>1, <4>1
    <3>2. CASE ~(i > n)
      <4>1. i \in 1 .. n
        BY <1>0, <3>2
      <4> QED
        BY <1>8, <3>2, <4>1
    <3> QED
      BY <3>1, <3>2
  <2> QED
    BY <1>8, <2>1
<1>10. Eq(from)
  <2> HIDE DEF Eq
  <2> QED
    BY <1>9
<1>11. Read(reading, rest) = from[1]
  BY <1>2
<1> HIDE DEF from
<1>12. from[n + 1] = rest /\ \A i \in 1 .. n : from[i] = Entry1(from, i)
  <2>1. n + 1 \in 1 .. n + 1 /\ n + 1 > n
    BY <1>0
  <2>2. \A i \in 1 .. n : i \in 1 .. n + 1 /\ ~(i > n)
    BY <1>0
  <2> QED
    BY <1>10, <2>1, <2>2
<1>13. Reads(from, reading, rest)
  BY <1>3, <1>12
<1> QED
  BY <1>11, <1>13

\* at[k - 1] is where the reading finds byte k of s; the reader stops after the last one.
Found(at, reading, rest, s) ==
  /\ at \in [0 .. Len(s) -> Nat \ {0}]
  /\ at[0] = 1
  /\ \A k \in 1 .. Len(s) :
       /\ at[k - 1] <= Len(reading)
       /\ reading[at[k - 1]].byte = s[k]
       /\ reading[at[k - 1]].width > 0
       /\ at[k] = at[k - 1] + reading[at[k - 1]].width
  /\ \/ at[Len(s)] = Len(reading) + 1 /\ rest = <<>>
     \/ at[Len(s)] <= Len(reading) /\ reading[at[Len(s)]].width = 0

\* A reader that finds byte k of s at at[k - 1], and goes on to at[k], reads s.
LEMMA FoundReads ==
  ASSUME NEW reading \in Seq(Reading), NEW rest \in Seq(Int), NEW s \in Seq(Int), NEW at,
         Within(reading), Found(at, reading, rest, s)
  PROVE  Read(reading, rest) = s
<1>1. PICK from : Reads(from, reading, rest) /\ Read(reading, rest) = from[1]
  BY ReadFrom
<1> DEFINE n == Len(s)
           top == Len(reading)
           Done(t) == from[at[n - t]] = SubSeq(s, n - t + 1, n)
           G == {t \in Nat : t <= n => Done(t)}
<1>2. n \in Nat /\ top \in Nat
  OBVIOUS
<1>3. \A k \in 1 .. n : /\ at[k - 1] \in 1 .. top
                        /\ reading[at[k - 1]].byte = s[k] /\ reading[at[k - 1]].width # 0
                        /\ at[k] = at[k - 1] + reading[at[k - 1]].width
  <2> TAKE k \in 1 .. n
  <2>1. k - 1 \in 0 .. n
    OBVIOUS
  <2>2. at[k - 1] \in Nat \ {0} /\ at[k - 1] <= top
    BY <2>1 DEF Found
  <2> DEFINE r == reading[at[k - 1]]
  <2>3. r \in Reading
    BY <2>2
  <2> HIDE DEF r
  <2>4. r.width \in Nat
    BY <2>3 DEF Reading
  <2>5. r.width > 0 /\ r.byte = s[k] /\ at[k] = at[k - 1] + r.width
    BY DEF Found, r
  <2>7. r.width # 0
    BY <2>4, <2>5
  <2>6. at[k - 1] \in 1 .. top
    BY <1>1, <2>2
  <2> QED
    BY <2>5, <2>6, <2>7 DEF r
<1>4. /\ from[top + 1] = rest
      /\ \A i \in 1 .. top : reading[i].width = 0 => from[i] = <<>>
      /\ \A i \in 1 .. top :
           reading[i].width # 0 => from[i] = <<reading[i].byte>> \o from[i + reading[i].width]
  BY <1>1 DEF Reads
<1>5. 0 \in G
  <2>1. SubSeq(s, n + 1, n) = <<>>
    <3>1. n + 1 \in Int /\ n \in Int /\ n < n + 1
      BY <1>2
    <3> HIDE DEF n
    <3> QED
      BY <3>1, SubSeqEmpty
  <2>2. at[n] \in Nat \ {0}
    <3>1. at \in [0 .. n -> Nat \ {0}] /\ n \in 0 .. n
      BY <1>2 DEF Found
    <3> QED
      BY <3>1
  <2>3. from[at[n]] = <<>>
    <3>1. CASE at[n] = top + 1 /\ rest = <<>>
      BY <1>4, <3>1
    <3>2. CASE at[n] <= top /\ reading[at[n]].width = 0
      <4>1. at[n] \in 1 .. top
        BY <1>2, <2>2, <3>2
      <4> QED
        BY <1>4, <3>2, <4>1
    <3> QED
      BY <3>1, <3>2 DEF Found
  <2>4. n - 0 = n /\ n - 0 + 1 = n + 1
    BY <1>2
  <2>5. Done(0)
    BY <2>1, <2>3, <2>4
  <2> HIDE DEF Done
  <2> QED
    BY <2>5
<1>6. ASSUME NEW t \in G PROVE t + 1 \in G
  <2> SUFFICES ASSUME t + 1 <= n PROVE Done(t + 1)
    <3> HIDE DEF Done
    <3> QED
      OBVIOUS
  <2>1. t \in Nat /\ Done(t)
    <3> HIDE DEF Done
    <3> QED
      BY <1>2
  <2> DEFINE k == n - t
  <2>2. k \in 1 .. n /\ n - (t + 1) = k - 1 /\ n - (t + 1) + 1 = k
    BY <1>2, <2>1
  <2>3. from[at[k]] = SubSeq(s, k + 1, n)
    BY <2>1
  <2> HIDE DEF k
  <2>4. from[at[k - 1]] = <<s[k]>> \o SubSeq(s, k + 1, n)
    <3> DEFINE p == at[k - 1]   w == reading[p].width   q == at[k]
    <3>1. p \in 1 .. top /\ reading[p].byte = s[k] /\ w # 0 /\ q = p + w
      BY <1>3, <2>2
    <3> HIDE DEF p, q
    <3>2. from[p] = <<reading[p].byte>> \o from[p + w]
      BY <1>4, <3>1
    <3>3. from[q] = SubSeq(s, k + 1, n)
      BY <2>3 DEF q
    <3>4. from[p] = <<s[k]>> \o SubSeq(s, k + 1, n)
      BY <3>1, <3>2, <3>3
    <3> QED
      BY <3>4 DEF p
  <2>5. SubSeq(s, k, n) = <<s[k]>> \o SubSeq(s, k + 1, n)
    <3>1. k \in 1 .. Len(s) /\ n \in k .. Len(s)
      BY <1>2, <2>2
    <3> QED
      BY <3>1, SubSeqRecursiveFirst
  <2> HIDE DEF n
  <2> QED
    BY <2>2, <2>4, <2>5
<1>7. G = Nat
  <2> HIDE DEF Done
  <2>1. G \in SUBSET Nat
    OBVIOUS
  <2> HIDE DEF G
  <2> QED
    BY <1>5, <1>6, <2>1, NatSetInduction
<1>8. Done(n)
  <2> HIDE DEF Done
  <2> QED
    BY <1>2, <1>7
<1>9. n - n = 0 /\ n - n + 1 = 1
  BY <1>2
<1>10. from[at[0]] = SubSeq(s, 1, Len(s)) /\ at[0] = 1
  BY <1>8, <1>9 DEF Found
<1> QED
  BY <1>1, <1>10, SubSeqFull

Chunks == Seq(Seq(Int))

LEMMA ChunksType ==
  ASSUME NEW chunks \in Chunks
  PROVE  /\ Len(chunks) \in Nat /\ DOMAIN chunks = 1 .. Len(chunks)
         /\ \A k \in 1 .. Len(chunks) : chunks[k] \in Seq(Int) /\ Len(chunks[k]) \in Nat
<1>1. \A k \in 1 .. Len(chunks) : chunks[k] \in Seq(Int)
  BY DEF Chunks
<1> QED
  BY <1>1 DEF Chunks

\* Chunk k is read as byte k of s.
ReadAs(reading, at, chunks, s) ==
  /\ Len(chunks) = Len(s)
  /\ \A k \in 1 .. Len(s) : /\ Len(chunks[k]) # 0
                             /\ reading[at[k - 1]] = [byte |-> s[k], width |-> Len(chunks[k])]

\* So does one that makes of every chunk the byte it was written for.
LEMMA ChunksRead ==
  ASSUME NEW reading \in Seq(Reading), NEW rest \in Seq(Int), NEW s \in Seq(Int),
         NEW chunks \in Chunks, NEW flat \in Seq(Int), NEW at,
         Within(reading), Located(at, chunks, flat), ReadAs(reading, at, chunks, s),
         \/ Len(reading) = Len(flat) /\ rest = <<>>
         \/ Len(reading) > Len(flat) /\ reading[Len(flat) + 1].width = 0
  PROVE  Read(reading, rest) = s
<1> DEFINE n == Len(s)   len == Len(flat)   top == Len(reading)   size(k) == Len(chunks[k])
<1>1. n \in Nat /\ len \in Nat /\ top \in Nat /\ len <= top
  <2>1. n \in Nat /\ len \in Nat /\ top \in Nat
    OBVIOUS
  <2> HIDE DEF n, len, top
  <2>2. top = len \/ top > len
    BY DEF len, top
  <2> QED
    BY <2>1, <2>2
<1>2. \A k \in 1 .. n : size(k) \in Nat \ {0}
  <2>1. Len(chunks) = n /\ \A k \in 1 .. n : size(k) # 0
    BY DEF ReadAs
  <2>2. \A k \in 1 .. Len(chunks) : size(k) \in Nat
    BY ChunksType
  <2> QED
    BY <2>1, <2>2
<1>3. /\ at \in [0 .. n -> Nat \ {0}] /\ at[0] = 1 /\ at[n] = len + 1
      /\ \A k \in 1 .. n : at[k] = at[k - 1] + size(k) /\ at[k] <= len + 1
  BY DEF Located, ReadAs
<1>4. \A k \in 1 .. n : reading[at[k - 1]].byte = s[k] /\ reading[at[k - 1]].width = size(k)
  <2> TAKE k \in 1 .. n
  <2>1. reading[at[k - 1]] = [byte |-> s[k], width |-> size(k)]
    BY DEF ReadAs
  <2> QED
    BY <2>1
<1>5. \/ at[n] = top + 1 /\ rest = <<>>
      \/ at[n] <= top /\ reading[at[n]].width = 0
  <2>1. CASE top = len /\ rest = <<>>
    BY <1>3, <2>1
  <2>2. CASE top > len /\ reading[len + 1].width = 0
    <3> DEFINE w == reading[len + 1].width
    <3>1. w = 0 /\ at[n] = len + 1 /\ top > len
      BY <1>3, <2>2
    <3>2. len + 1 <= top
      <4> HIDE DEF len, top
      <4> QED
        BY <1>1, <3>1
    <3> QED
      BY <3>1, <3>2
  <2> QED
    BY <2>1, <2>2
<1> HIDE DEF size
<1>6. Found(at, reading, rest, s)
  <2>1. ASSUME NEW k \in 1 .. n PROVE at[k - 1] <= top
    <3> DEFINE a == at[k - 1]   b == at[k]
    <3>1. k - 1 \in 0 .. n
      OBVIOUS
    <3> DEFINE w == size(k)
    <3>2. a \in Nat \ {0} /\ b = a + w /\ b <= len + 1 /\ w \in Nat \ {0}
      BY <1>2, <1>3, <3>1
    <3> HIDE DEF a, b, w, len, top
    <3>3. a <= top
      BY <1>1, <3>2
    <3> QED
      BY <3>3 DEF a
  <2>2. ASSUME NEW k \in 1 .. n PROVE reading[at[k - 1]].width > 0
    <3> DEFINE w == reading[at[k - 1]].width
    <3>1. w = size(k) /\ w \in Nat \ {0}
      BY <1>2, <1>4
    <3> HIDE DEF w
    <3>2. w > 0
      BY <3>1
    <3> QED
      BY <3>2 DEF w
  <2> QED
    BY <1>3, <1>4, <1>5, <2>1, <2>2 DEF Found
<1> QED
  BY <1>6, FoundReads

-----------------------------------------------------------------------------
(* Text: percent encoding.                                                 *)

LEMMA HexDigits ==
  ASSUME NEW d \in 0 .. 15
  PROVE  /\ Digit(d, Upper) \in (48 .. 57) \cup (65 .. 70) /\ HexValue(Digit(d, Upper)) = d
         /\ Digit(d, Lower) \in (48 .. 57) \cup (97 .. 102) /\ HexValue(Digit(d, Lower)) = d
<1>1. CASE d < 10
  BY <1>1 DEF Digit, HexValue, Upper, Lower
<1>2. CASE ~(d < 10)
  BY <1>2 DEF Digit, HexValue, Upper, Lower
<1> QED
  BY <1>1, <1>2

LEMMA HexValueType ==
  ASSUME NEW digit \in Int
  PROVE  HexValue(digit) \in Int
<1>1. CASE digit \in 48 .. 57
  BY <1>1 DEF HexValue
<1>2. CASE digit \in 65 .. 70
  BY <1>2 DEF HexValue
<1>3. CASE digit \in 97 .. 102
  BY <1>3 DEF HexValue
<1>4. CASE digit \notin 48 .. 57 /\ digit \notin 65 .. 70 /\ digit \notin 97 .. 102
  BY <1>4 DEF HexValue
<1> QED
  BY <1>1, <1>2, <1>3, <1>4

LEMMA Nibbles ==
  ASSUME NEW b \in 0 .. 255
  PROVE  b \div 16 \in 0 .. 15 /\ b % 16 \in 0 .. 15 /\ 16 * (b \div 16) + (b % 16) = b
  OBVIOUS

LEMMA UrlByteIs ==
  ASSUME NEW b \in 0 .. 255
  PROVE  LET c == UrlByte(b)
         IN  /\ c \in Seq(Int) /\ Len(c) # 0
             /\ \A j \in 1 .. Len(c) : c[j] \in Unreserved \cup {37}
             /\ \/ c = <<b>> /\ b # 37
                \/ Len(c) = 3 /\ c[1] = 37 /\ 16 * HexValue(c[2]) + HexValue(c[3]) = b
<1>1. CASE b \in Unreserved
  <2>1. UrlByte(b) = <<b>>
    BY <1>1 DEF UrlByte
  <2>2. b # 37
    BY <1>1 DEF Unreserved
  <2> QED
    BY <1>1, <2>1, <2>2
<1>2. CASE b \notin Unreserved
  <2> DEFINE high == Digit(b \div 16, Upper)   low == Digit(b % 16, Upper)
  <2>1. /\ high \in (48 .. 57) \cup (65 .. 70) /\ HexValue(high) = b \div 16
        /\ low \in (48 .. 57) \cup (65 .. 70) /\ HexValue(low) = b % 16
    BY Nibbles, HexDigits
  <2>2. UrlByte(b) = <<37, high, low>>
    BY <1>2 DEF UrlByte
  <2> HIDE DEF high, low
  <2>3. high \in Unreserved /\ low \in Unreserved /\ high \in Int /\ low \in Int
    BY <2>1 DEF Unreserved
  <2>4. 16 * HexValue(high) + HexValue(low) = b
    BY <2>1, Nibbles
  <2> QED
    BY <2>2, <2>3, <2>4
<1> QED
  BY <1>1, <1>2

\* What UrlDecode finds at position i.
UrlReading(s, i) ==
  CASE s[i] # 37 -> [byte |-> s[i], width |-> 1]
    [] s[i] = 37 /\ i + 2 <= Len(s) ->
         [byte |-> 16 * HexValue(s[i + 1]) + HexValue(s[i + 2]), width |-> 3]
    [] OTHER -> Malformed

LEMMA UrlReadingType ==
  ASSUME NEW s \in Seq(Int), NEW i \in 1 .. Len(s)
  PROVE  UrlReading(s, i) \in Reading /\ i + UrlReading(s, i).width <= Len(s) + 1
<1>0. Len(s) \in Nat /\ s[i] \in Int
  OBVIOUS
<1>1. CASE s[i] # 37
  <2>1. UrlReading(s, i) = [byte |-> s[i], width |-> 1]
    BY <1>1 DEF UrlReading
  <2> QED
    BY <1>0, <2>1 DEF Reading
<1>2. CASE s[i] = 37 /\ i + 2 <= Len(s)
  <2> DEFINE v == 16 * HexValue(s[i + 1]) + HexValue(s[i + 2])
  <2>1. UrlReading(s, i) = [byte |-> v, width |-> 3]
    BY <1>2 DEF UrlReading
  <2>2. v \in Int
    <3>1. s[i + 1] \in Int /\ s[i + 2] \in Int
      BY <1>0, <1>2
    <3>2. HexValue(s[i + 1]) \in Int /\ HexValue(s[i + 2]) \in Int
      BY <3>1, HexValueType
    <3> QED
      BY <3>2
  <2> HIDE DEF v
  <2> QED
    BY <1>0, <1>2, <2>1, <2>2 DEF Reading
<1>3. CASE s[i] = 37 /\ ~(i + 2 <= Len(s))
  <2>1. UrlReading(s, i) = Malformed
    BY <1>3 DEF UrlReading
  <2> QED
    BY <1>0, <2>1 DEF Reading, Malformed
<1> QED
  BY <1>1, <1>2, <1>3

\* What UrlDecode finds at each position.
UrlReadings(s) == [i \in DOMAIN s |-> UrlReading(s, i)]

LEMMA UrlReadingsType ==
  ASSUME NEW s \in Seq(Int)
  PROVE  /\ UrlReadings(s) \in Seq(Reading) /\ Len(UrlReadings(s)) = Len(s)
         /\ Within(UrlReadings(s))
         /\ \A i \in 1 .. Len(s) : UrlReadings(s)[i] = UrlReading(s, i)
<1> DEFINE n == Len(s)   r == UrlReadings(s)
<1>1. n \in Nat /\ r = [i \in 1 .. n |-> UrlReading(s, i)]
  BY DEF UrlReadings
<1>2. \A i \in 1 .. n : UrlReading(s, i) \in Reading /\ i + UrlReading(s, i).width <= n + 1
  BY UrlReadingType
<1> HIDE DEF n, r
<1>3. r \in Seq(Reading) /\ Len(r) = n /\ \A i \in 1 .. n : r[i] = UrlReading(s, i)
  BY <1>1, <1>2
<1>4. Within(r)
  BY <1>2, <1>3 DEF Within
<1> QED
  BY <1>3, <1>4 DEF n, r

\* c is in t from position p on.
Lies(c, t, p) ==
  p + Len(c) <= Len(t) + 1 /\ \A j \in 1 .. Len(c) : t[p + j - 1] = c[j]

\* A string, its chunks and where they are.
MadeOf(flat, chunks, at) ==
  chunks \in Chunks /\ flat \in Seq(Int) /\ Located(at, chunks, flat)

\* Where a chunk is, and its bytes.
LEMMA ChunkAt ==
  ASSUME NEW flat, NEW chunks, NEW at, MadeOf(flat, chunks, at), NEW k \in 1 .. Len(chunks)
  PROVE  chunks[k] \in Seq(Int) /\ at[k - 1] \in Nat \ {0} /\ Lies(chunks[k], flat, at[k - 1])
<1>1. chunks \in Chunks /\ Located(at, chunks, flat)
  BY DEF MadeOf
<1>2. Len(chunks) \in Nat /\ chunks[k] \in Seq(Int)
  BY <1>1, ChunksType
<1>3. k - 1 \in 0 .. Len(chunks)
  BY <1>2
<1>4. at[k - 1] \in Nat \ {0}
  BY <1>1, <1>3 DEF Located
<1>5. /\ at[k] = at[k - 1] + Len(chunks[k]) /\ at[k] <= Len(flat) + 1
      /\ \A j \in 1 .. Len(chunks[k]) : flat[at[k - 1] + j - 1] = chunks[k][j]
  BY <1>1 DEF Located
<1>6. at[k - 1] + Len(chunks[k]) <= Len(flat) + 1
  BY <1>5
<1> QED
  BY <1>2, <1>4, <1>5, <1>6 DEF Lies

\* UrlDecode makes of UrlByte(b) the byte b.
LEMMA UrlChunkRead ==
  ASSUME NEW b \in 0 .. 255, NEW flat \in Seq(Int), NEW p \in Nat \ {0},
         p + Len(UrlByte(b)) <= Len(flat) + 1,
         \A j \in 1 .. Len(UrlByte(b)) : flat[p + j - 1] = UrlByte(b)[j]
  PROVE  /\ p \in 1 .. Len(flat)
         /\ UrlReading(flat, p) = [byte |-> b, width |-> Len(UrlByte(b))]
<1> DEFINE c == UrlByte(b)   len == Len(flat)   w == Len(c)
<1>1. \/ c = <<b>> /\ b # 37
      \/ Len(c) = 3 /\ c[1] = 37 /\ 16 * HexValue(c[2]) + HexValue(c[3]) = b
  BY UrlByteIs
<1>2. p + w <= len + 1 /\ len \in Nat /\ \A j \in 1 .. w : flat[p + j - 1] = c[j]
  OBVIOUS
<1> HIDE DEF c
<1>3. CASE c = <<b>> /\ b # 37
  <2>1. w = 1 /\ c[1] = b
    BY <1>3
  <2>2. flat[p + 1 - 1] = c[1] /\ p + 1 - 1 = p
    BY <1>2, <2>1
  <2> HIDE DEF w, len
  <2>3. p \in 1 .. len
    BY <1>2, <2>1
  <2>4. UrlReading(flat, p) = [byte |-> b, width |-> w]
    BY <1>3, <2>1, <2>2 DEF UrlReading
  <2> QED
    BY <2>3, <2>4 DEF c, w, len
<1>4. CASE Len(c) = 3 /\ c[1] = 37 /\ 16 * HexValue(c[2]) + HexValue(c[3]) = b
  <2>1. w = 3
    BY <1>4
  <2>2. /\ flat[p + 1 - 1] = c[1] /\ p + 1 - 1 = p
        /\ flat[p + 2 - 1] = c[2] /\ p + 2 - 1 = p + 1
        /\ flat[p + 3 - 1] = c[3] /\ p + 3 - 1 = p + 2
    BY <1>2, <2>1
  <2>3. flat[p] = 37 /\ flat[p + 1] = c[2] /\ flat[p + 2] = c[3]
    BY <1>4, <2>2
  <2> HIDE DEF w, len
  <2>4. p \in 1 .. len /\ p + 2 <= len
    BY <1>2, <2>1
  <2>5. UrlReading(flat, p) = [byte |-> b, width |-> w]
    BY <1>4, <2>1, <2>3, <2>4 DEF UrlReading, len
  <2> QED
    BY <2>4, <2>5 DEF c, w, len
<1> QED
  BY <1>1, <1>3, <1>4

LEMMA InputIs ==
  ASSUME input \in Seq(0 .. 255)
  PROVE  /\ Len(input) \in Nat /\ DOMAIN input = 1 .. Len(input) /\ input \in Seq(Int)
         /\ \A k \in 1 .. Len(input) : input[k] \in 0 .. 255
<1>1. 0 .. 255 \subseteq Int
  OBVIOUS
<1>2. input \in Seq(Int)
  BY <1>1, SeqMonotonic
<1>3. Len(input) \in Nat /\ DOMAIN input = 1 .. Len(input)
  BY <1>2, LenProperties
<1>4. \A k \in 1 .. Len(input) : input[k] \in 0 .. 255
  BY ElementOfSeq
<1> QED
  BY <1>2, <1>3, <1>4

\* What urlEncode writes is read back.
LEMMA UrlIsReadBack ==
  ASSUME input \in Seq(0 .. 255)
  PROVE  UrlReadsBack
<1> DEFINE n       == Len(input)
           chunks  == [i \in DOMAIN input |-> UrlByte(input[i])]
           flat    == UrlEncode(input)
           reading == UrlReadings(flat)
<1>1. n \in Nat /\ DOMAIN input = 1 .. n /\ input \in Seq(Int)
      /\ \A k \in 1 .. n : input[k] \in 0 .. 255
  BY InputIs
<1>2. chunks \in Chunks /\ Len(chunks) = n /\ \A k \in 1 .. n : chunks[k] = UrlByte(input[k])
  <2>1. \A k \in 1 .. n : UrlByte(input[k]) \in Seq(Int)
    BY <1>1, UrlByteIs
  <2>2. chunks = [k \in 1 .. n |-> UrlByte(input[k])]
    BY <1>1
  <2> HIDE DEF n
  <2>3. chunks \in Seq(Seq(Int)) /\ Len(chunks) = n
    BY <1>1, <2>1, <2>2
  <2> QED
    BY <2>2, <2>3 DEF Chunks
<1>3. flat = FlattenSeq(chunks)
  BY DEF UrlEncode
<1>4. UrlDecode(flat) = Read(reading, <<>>)
  BY DEF UrlDecode, UrlReading, UrlReadings
<1> HIDE DEF chunks, flat, reading
<1>5. flat \in Seq(Int) /\ \E at : Located(at, chunks, flat)
  <2>1. chunks \in Seq(Seq(Int))
    BY <1>2 DEF Chunks
  <2> QED
    BY <1>3, <2>1, FlattenLocated
<1>6. PICK at : Located(at, chunks, flat)
  BY <1>5
<1>7. Range(flat) \subseteq Unreserved \cup {37}
  <2>1. ASSUME NEW i \in 1 .. Len(flat) PROVE flat[i] \in Unreserved \cup {37}
    <3>1. PICK k \in 1 .. n : \E j \in 1 .. Len(chunks[k]) : i = at[k - 1] + j - 1
      BY <1>2, <1>6 DEF Located
    <3>2. PICK j \in 1 .. Len(chunks[k]) : i = at[k - 1] + j - 1
      BY <3>1
    <3>3. flat[i] = chunks[k][j]
      BY <1>2, <1>6, <3>2 DEF Located
    <3>4. chunks[k] = UrlByte(input[k]) /\ input[k] \in 0 .. 255
      BY <1>1, <1>2
    <3>5. chunks[k][j] \in Unreserved \cup {37}
      BY <3>2, <3>4, UrlByteIs
    <3> QED
      BY <3>3, <3>5
  <2>2. flat \in [1 .. Len(flat) -> Int]
    BY <1>5
  <2> QED
    BY <2>1, <2>2 DEF Range
<1>8. ReadAs(reading, at, chunks, input)
  <2>1. ASSUME NEW k \in 1 .. n
        PROVE  /\ Len(chunks[k]) # 0
               /\ reading[at[k - 1]] = [byte |-> input[k], width |-> Len(chunks[k])]
    <3> DEFINE b == input[k]   p == at[k - 1]
    <3>1. chunks[k] = UrlByte(b) /\ b \in 0 .. 255 /\ k \in 1 .. Len(chunks)
      BY <1>1, <1>2
    <3> HIDE DEF b
    <3>2. /\ p \in Nat \ {0} /\ p + Len(UrlByte(b)) <= Len(flat) + 1
          /\ \A j \in 1 .. Len(UrlByte(b)) : flat[p + j - 1] = UrlByte(b)[j]
      <4>1. MadeOf(flat, chunks, at)
        BY <1>2, <1>5, <1>6 DEF MadeOf
      <4>2. at[k - 1] \in Nat \ {0} /\ Lies(chunks[k], flat, at[k - 1])
        BY ONLY <3>1, <4>1, ChunkAt
      <4> QED
        BY <3>1, <4>2 DEF Lies
    <3> HIDE DEF p
    <3>3. /\ p \in 1 .. Len(flat)
          /\ UrlReading(flat, p) = [byte |-> b, width |-> Len(UrlByte(b))]
      BY <1>5, <3>1, <3>2, UrlChunkRead
    <3>4. reading[p] = UrlReading(flat, p)
      BY <1>5, <3>3, UrlReadingsType DEF reading
    <3>5. Len(UrlByte(b)) # 0
      BY <3>1, UrlByteIs
    <3> QED
      BY <3>1, <3>3, <3>4, <3>5 DEF b, p
  <2> QED
    BY <1>2, <2>1 DEF ReadAs
<1>9. Read(reading, <<>>) = input
  <2>1. <<>> \in Seq(Int)
    OBVIOUS
  <2>2. reading \in Seq(Reading) /\ Len(reading) = Len(flat) /\ Within(reading)
    BY <1>5, UrlReadingsType DEF reading
  <2> QED
    BY <1>1, <1>2, <1>5, <1>6, <1>8, <2>1, <2>2, ChunksRead
<1> QED
  BY <1>4, <1>7, <1>9 DEF UrlReadsBack, flat

-----------------------------------------------------------------------------
(* Text: JSON strings.                                                     *)

LEMMA ShortIs ==
  /\ DOMAIN Short = {8, 9, 10, 12, 13}
  /\ Short[8] = 98 /\ Short[9] = 116 /\ Short[10] = 110 /\ Short[12] = 102 /\ Short[13] = 114
  BY DEF Short

LEMMA ShortUnique ==
  ASSUME NEW b \in DOMAIN Short
  PROVE  /\ b \in 8 .. 13 /\ Short[b] \in Int \ {Quote, Backslash, 117}
         /\ (CHOOSE a \in DOMAIN Short : Short[a] = Short[b]) = b
<1> DEFINE c == CHOOSE a \in DOMAIN Short : Short[a] = Short[b]
<1>1. b \in {8, 9, 10, 12, 13} /\ Short[b] \in {98, 116, 110, 102, 114}
  BY ShortIs
<1>2. \A a \in DOMAIN Short : Short[a] = Short[b] => a = b
  BY <1>1, ShortIs
<1>3. c \in DOMAIN Short /\ Short[c] = Short[b]
  OBVIOUS
<1> HIDE DEF c
<1>4. c = b
  BY <1>2, <1>3
<1> QED
  BY <1>1, <1>4 DEF Quote, Backslash, c

\* The ways a byte is written.
Plain(b, c) == c = <<b>> /\ b \notin {Quote, Backslash} /\ b >= 32
Escaped(b, c) == c = <<Backslash, b>> /\ b \in {Quote, Backslash}
Shortened(b, c) == b \in DOMAIN Short /\ c = <<Backslash, Short[b]>>
InHex(b, c) ==
  /\ b < 32 /\ Len(c) = 6
  /\ c[1] = Backslash /\ c[2] = 117 /\ c[3] = 48 /\ c[4] = 48
  /\ c[5] \in Int /\ c[6] \in Int /\ c[5] # Quote /\ c[6] # Quote
  /\ HexValue(c[5]) \in Int /\ HexValue(c[6]) \in Int
  /\ 16 * HexValue(c[5]) + HexValue(c[6]) = b

\* jsonEscape writes a byte in one of four ways.
LEMMA JsonByteIs ==
  ASSUME NEW b \in 0 .. 255
  PROVE  LET c == JsonByte(b)
         IN  /\ c \in Seq(Int) /\ Len(c) # 0
             /\ Plain(b, c) \/ Escaped(b, c) \/ Shortened(b, c) \/ InHex(b, c)
<1> DEFINE c == JsonByte(b)
<1>1. CASE b \in {Quote, Backslash}
  <2>1. b \notin DOMAIN Short /\ ~(b < 32)
    BY <1>1, ShortIs DEF Quote, Backslash
  <2>2. c = <<Backslash, b>>
    BY <1>1, <2>1 DEF JsonByte
  <2> HIDE DEF c
  <2> QED
    BY <1>1, <2>2 DEF Escaped, Backslash, c
<1>2. CASE b \in DOMAIN Short
  <2>1. b \notin {Quote, Backslash}
    BY <1>2, ShortIs DEF Quote, Backslash
  <2>2. c = <<Backslash, Short[b]>>
    BY <1>2, <2>1 DEF JsonByte
  <2>3. Short[b] \in Int
    BY <1>2, ShortUnique
  <2> HIDE DEF c
  <2> QED
    BY <1>2, <2>2, <2>3 DEF Shortened, Backslash, c
<1>3. CASE b < 32 /\ b \notin DOMAIN Short
  <2> DEFINE high == Digit(b \div 16, Lower)   low == Digit(b % 16, Lower)
  <2>1. /\ high \in (48 .. 57) \cup (97 .. 102) /\ HexValue(high) = b \div 16
        /\ low \in (48 .. 57) \cup (97 .. 102) /\ HexValue(low) = b % 16
    BY Nibbles, HexDigits
  <2>2. b \notin {Quote, Backslash}
    BY <1>3 DEF Quote, Backslash
  <2>3. c = <<Backslash, 117, 48, 48, high, low>>
    BY <1>3, <2>2 DEF JsonByte
  <2> HIDE DEF high, low, c
  <2>4. HexValue(high) \in Int /\ HexValue(low) \in Int /\ 16 * HexValue(high) + HexValue(low) = b
    BY <2>1, Nibbles
  <2>5. high \in Int /\ low \in Int /\ high # Quote /\ low # Quote
    BY <2>1 DEF Quote
  <2>6. /\ c \in Seq(Int) /\ Len(c) = 6
        /\ c[1] = Backslash /\ c[2] = 117 /\ c[3] = 48 /\ c[4] = 48 /\ c[5] = high /\ c[6] = low
    BY <2>3, <2>5 DEF Backslash
  <2>7. InHex(b, c)
    BY <1>3, <2>4, <2>5, <2>6 DEF InHex
  <2> QED
    BY <2>6, <2>7 DEF c
<1>4. CASE b \notin {Quote, Backslash} /\ b \notin DOMAIN Short /\ ~(b < 32)
  <2>1. c = <<b>>
    BY <1>4 DEF JsonByte
  <2> HIDE DEF c
  <2> QED
    BY <1>4, <2>1 DEF Plain, c
<1> QED
  BY <1>1, <1>2, <1>3, <1>4

IsShort(y) == \E b \in DOMAIN Short : Short[b] = y
Unshort(y) == CHOOSE b \in DOMAIN Short : Short[b] = y

\* What JsonRead finds at position i.
JsonReading(s, i) ==
  CASE s[i] = Quote -> Stop
    [] s[i] \notin {Quote, Backslash} -> [byte |-> s[i], width |-> 1]
    [] s[i] = Backslash /\ i < Len(s) /\ s[i + 1] \in {Quote, Backslash} ->
         [byte |-> s[i + 1], width |-> 2]
    [] s[i] = Backslash /\ i < Len(s) /\ IsShort(s[i + 1]) ->
         [byte |-> Unshort(s[i + 1]), width |-> 2]
    [] s[i] = Backslash /\ i + 5 <= Len(s) /\ s[i + 1] = 117 ->
         [byte |-> 4096 * HexValue(s[i + 2]) + 256 * HexValue(s[i + 3])
                   + 16 * HexValue(s[i + 4]) + HexValue(s[i + 5]), width |-> 6]
    [] OTHER -> Malformed

LEMMA JsonReadingIs ==
  ASSUME NEW s, NEW i, s[i] = Backslash, i < Len(s)
  PROVE  /\ s[i + 1] \in {Quote, Backslash} =>
              JsonReading(s, i) = [byte |-> s[i + 1], width |-> 2]
         /\ IsShort(s[i + 1]) => JsonReading(s, i) = [byte |-> Unshort(s[i + 1]), width |-> 2]
<1> DEFINE x == s[i]   y == s[i + 1]   n == Len(s)
           hex == 4096 * HexValue(s[i + 2]) + 256 * HexValue(s[i + 3])
                    + 16 * HexValue(s[i + 4]) + HexValue(s[i + 5])
<1>1. JsonReading(s, i) =
        CASE x = Quote -> Stop
          [] x \notin {Quote, Backslash} -> [byte |-> x, width |-> 1]
          [] x = Backslash /\ i < n /\ y \in {Quote, Backslash} -> [byte |-> y, width |-> 2]
          [] x = Backslash /\ i < n /\ IsShort(y) -> [byte |-> Unshort(y), width |-> 2]
          [] x = Backslash /\ i + 5 <= n /\ y = 117 -> [byte |-> hex, width |-> 6]
          [] OTHER -> Malformed
  BY DEF JsonReading
<1>2. x = Backslash /\ x # Quote /\ i < n
  BY DEF Quote, Backslash
<1>3. IsShort(y) => y \notin {Quote, Backslash, 117}
  BY ShortUnique DEF IsShort
<1>4. y \in {Quote, Backslash} => y # 117
  BY DEF Quote, Backslash
<1> HIDE DEF x, y, n, hex
<1>5. CASE y \in {Quote, Backslash}
  BY <1>1, <1>2, <1>3, <1>4, <1>5 DEF y
<1>6. CASE y \notin {Quote, Backslash}
  BY <1>1, <1>2, <1>3, <1>6 DEF y
<1> QED
  BY <1>5, <1>6

JsonReadings(s) == [i \in DOMAIN s |-> JsonReading(s, i)]

LEMMA JsonReadingType ==
  ASSUME NEW s \in Seq(Int), NEW i \in 1 .. Len(s)
  PROVE  JsonReading(s, i) \in Reading /\ i + JsonReading(s, i).width <= Len(s) + 1
<1> DEFINE r == JsonReading(s, i)   n == Len(s)   x == s[i]   y == s[i + 1]
           short == IsShort(y)
           unshort == Unshort(y)
           hex == 4096 * HexValue(s[i + 2]) + 256 * HexValue(s[i + 3])
                    + 16 * HexValue(s[i + 4]) + HexValue(s[i + 5])
<1>1. n \in Nat /\ x \in Int /\ (i < n => y \in Int) /\ i \in Nat /\ i <= n
  OBVIOUS
<1>2. short => unshort \in Int
  <2>1. short => unshort \in DOMAIN Short
    BY DEF IsShort, Unshort
  <2> QED
    BY <2>1, ShortIs
<1>3. i + 5 <= n => hex \in Int
  <2> SUFFICES ASSUME i + 5 <= n PROVE hex \in Int
    OBVIOUS
  <2>1. s[i + 2] \in Int /\ s[i + 3] \in Int /\ s[i + 4] \in Int /\ s[i + 5] \in Int
    BY <1>1
  <2>2. /\ HexValue(s[i + 2]) \in Int /\ HexValue(s[i + 3]) \in Int
        /\ HexValue(s[i + 4]) \in Int /\ HexValue(s[i + 5]) \in Int
    BY <2>1, HexValueType
  <2> DEFINE h2 == HexValue(s[i + 2])   h3 == HexValue(s[i + 3])
             h4 == HexValue(s[i + 4])   h5 == HexValue(s[i + 5])
  <2>3. h2 \in Int /\ h3 \in Int /\ h4 \in Int /\ h5 \in Int
    BY <2>2
  <2> HIDE DEF h2, h3, h4, h5
  <2>4. 4096 * h2 + 256 * h3 + 16 * h4 + h5 \in Int
    BY <2>3
  <2> QED
    BY <2>4 DEF h2, h3, h4, h5
<1>4. r = CASE x = Quote -> Stop
            [] x \notin {Quote, Backslash} -> [byte |-> x, width |-> 1]
            [] x = Backslash /\ i < n /\ y \in {Quote, Backslash} -> [byte |-> y, width |-> 2]
            [] x = Backslash /\ i < n /\ short -> [byte |-> unshort, width |-> 2]
            [] x = Backslash /\ i + 5 <= n /\ y = 117 -> [byte |-> hex, width |-> 6]
            [] OTHER -> Malformed
  BY DEF JsonReading
<1> HIDE DEF r, n, x, y, short, unshort, hex
<1>5. \/ r = Stop
      \/ r = [byte |-> x, width |-> 1]
      \/ i < n /\ r = [byte |-> y, width |-> 2]
      \/ i < n /\ short /\ r = [byte |-> unshort, width |-> 2]
      \/ i + 5 <= n /\ r = [byte |-> hex, width |-> 6]
      \/ r = Malformed
  BY <1>4
<1>6. r.byte \in Int /\ r.width \in Nat /\ r = [byte |-> r.byte, width |-> r.width]
      /\ i + r.width <= n + 1
  <2>1. CASE r = Stop \/ r = Malformed
    BY <1>1, <2>1 DEF Stop, Malformed
  <2>2. CASE r = [byte |-> x, width |-> 1]
    BY <1>1, <1>2, <2>2
  <2>3. CASE i < n /\ r = [byte |-> y, width |-> 2]
    BY <1>1, <1>2, <2>3
  <2>4. CASE i < n /\ short /\ r = [byte |-> unshort, width |-> 2]
    BY <1>1, <1>2, <1>3, <2>4
  <2>5. CASE i + 5 <= n /\ r = [byte |-> hex, width |-> 6]
    BY <1>1, <1>3, <2>5
  <2> QED
    BY <1>5, <2>1, <2>2, <2>3, <2>4, <2>5
<1>7. r \in Reading
  BY <1>6 DEF Reading
<1> QED
  BY <1>6, <1>7 DEF r, n

LEMMA JsonReadingsType ==
  ASSUME NEW s \in Seq(Int)
  PROVE  /\ JsonReadings(s) \in Seq(Reading) /\ Len(JsonReadings(s)) = Len(s)
         /\ Within(JsonReadings(s))
         /\ \A i \in 1 .. Len(s) : JsonReadings(s)[i] = JsonReading(s, i)
<1> DEFINE n == Len(s)   r == JsonReadings(s)
<1>1. n \in Nat /\ r = [i \in 1 .. n |-> JsonReading(s, i)]
  BY DEF JsonReadings
<1>2. \A i \in 1 .. n : JsonReading(s, i) \in Reading /\ i + JsonReading(s, i).width <= n + 1
  BY JsonReadingType
<1> HIDE DEF n, r
<1>3. r \in Seq(Reading) /\ Len(r) = n /\ \A i \in 1 .. n : r[i] = JsonReading(s, i)
  BY <1>1, <1>2
<1>4. Within(r)
  BY <1>2, <1>3 DEF Within
<1> QED
  BY <1>3, <1>4 DEF n, r

\* The bytes of a chunk are where the chunk lies.
LEMMA LiesAt ==
  ASSUME NEW c \in Seq(Int), NEW t \in Seq(Int), NEW p \in Nat \ {0}, Lies(c, t, p), Len(c) # 0
  PROVE  /\ p \in 1 .. Len(t) /\ t[p] = c[1]
         /\ Len(c) >= 2 => p < Len(t) /\ t[p + 1] = c[2]
         /\ Len(c) >= 6 => /\ p + 5 <= Len(t)
                           /\ t[p + 2] = c[3] /\ t[p + 3] = c[4]
                           /\ t[p + 4] = c[5] /\ t[p + 5] = c[6]
<1> DEFINE w == Len(c)   n == Len(t)
<1>1. w \in Nat \ {0} /\ n \in Nat /\ p + w <= n + 1
  BY DEF Lies
<1>2. \A j \in 1 .. w : t[p + j - 1] = c[j]
  BY DEF Lies
<1> HIDE DEF w, n
<1>3. p \in 1 .. n /\ (w >= 2 => p < n) /\ (w >= 6 => p + 5 <= n)
  BY <1>1
<1>4. t[p] = c[1]
  <2>1. 1 \in 1 .. w /\ p + 1 - 1 = p
    BY <1>1
  <2>2. t[p + 1 - 1] = c[1]
    BY <1>2, <2>1
  <2> QED
    BY <2>1, <2>2
<1>5. ASSUME NEW j \in Nat, j < w PROVE t[p + j] = c[j + 1]
  <2> DEFINE i == j + 1
  <2>1. i \in 1 .. w /\ p + i - 1 = p + j
    BY <1>1, <1>5
  <2>2. t[p + i - 1] = c[i]
    BY <1>2, <2>1
  <2> QED
    BY <2>1, <2>2
<1>6. /\ w >= 2 => t[p + 1] = c[2]
      /\ w >= 6 => /\ t[p + 2] = c[3] /\ t[p + 3] = c[4]
                   /\ t[p + 4] = c[5] /\ t[p + 5] = c[6]
  <2>1. /\ w >= 2 => t[p + 1] = c[1 + 1]
        /\ w >= 6 => /\ t[p + 2] = c[2 + 1] /\ t[p + 3] = c[3 + 1]
                     /\ t[p + 4] = c[4 + 1] /\ t[p + 5] = c[5 + 1]
    BY <1>1, <1>5
  <2>2. 1 + 1 = 2 /\ 2 + 1 = 3 /\ 3 + 1 = 4 /\ 4 + 1 = 5 /\ 5 + 1 = 6
    OBVIOUS
  <2> QED
    BY <2>1, <2>2
<1> QED
  BY <1>3, <1>4, <1>6 DEF w, n

\* JsonRead makes of JsonByte(b) the byte b.
LEMMA JsonChunkRead ==
  ASSUME NEW b \in 0 .. 255, NEW t \in Seq(Int), NEW p \in Nat \ {0}, Lies(JsonByte(b), t, p)
  PROVE  p \in 1 .. Len(t) /\ JsonReading(t, p) = [byte |-> b, width |-> Len(JsonByte(b))]
<1> DEFINE c == JsonByte(b)
<1>1. /\ c \in Seq(Int) /\ Len(c) # 0
      /\ Plain(b, c) \/ Escaped(b, c) \/ Shortened(b, c) \/ InHex(b, c)
  BY JsonByteIs
<1> HIDE DEF c
<1>2. /\ p \in 1 .. Len(t) /\ t[p] = c[1]
      /\ Len(c) >= 2 => p < Len(t) /\ t[p + 1] = c[2]
      /\ Len(c) >= 6 => /\ p + 5 <= Len(t)
                        /\ t[p + 2] = c[3] /\ t[p + 3] = c[4]
                        /\ t[p + 4] = c[5] /\ t[p + 5] = c[6]
  BY <1>1, LiesAt DEF c
<1>3. CASE Plain(b, c)
  <2>1. Len(c) = 1 /\ c[1] = b /\ b \notin {Quote, Backslash}
    BY <1>3 DEF Plain
  <2>2. JsonReading(t, p) = [byte |-> b, width |-> 1]
    BY <1>2, <2>1 DEF JsonReading
  <2> QED
    BY <1>2, <2>1, <2>2 DEF c
<1>4. CASE Escaped(b, c)
  <2>1. Len(c) = 2 /\ c[1] = Backslash /\ c[2] = b /\ b \in {Quote, Backslash}
    BY <1>4 DEF Escaped
  <2>2. t[p] = Backslash /\ p < Len(t) /\ t[p + 1] = b /\ Backslash # Quote
    BY <1>2, <2>1 DEF Quote, Backslash
  <2>3. JsonReading(t, p) = [byte |-> b, width |-> 2]
    BY <2>1, <2>2, JsonReadingIs
  <2> QED
    BY <1>2, <2>1, <2>3 DEF c
<1>5. CASE Shortened(b, c)
  <2>1. Len(c) = 2 /\ c[1] = Backslash /\ c[2] = Short[b] /\ b \in DOMAIN Short
    BY <1>5 DEF Shortened
  <2>2. t[p] = Backslash /\ p < Len(t) /\ t[p + 1] = Short[b] /\ Backslash # Quote
    BY <1>2, <2>1 DEF Quote, Backslash
  <2>3. /\ t[p + 1] \notin {Quote, Backslash, 117}
        /\ IsShort(t[p + 1]) /\ Unshort(t[p + 1]) = b
    BY <2>1, <2>2, ShortUnique DEF IsShort, Unshort
  <2>4. JsonReading(t, p) = [byte |-> Unshort(t[p + 1]), width |-> 2]
    BY <2>2, <2>3, JsonReadingIs
  <2>5. JsonReading(t, p) = [byte |-> b, width |-> 2]
    BY <2>2, <2>3, <2>4
  <2> QED
    BY <1>2, <2>1, <2>5 DEF c
<1>6. CASE InHex(b, c)
  <2>1. /\ Len(c) = 6 /\ c[1] = Backslash /\ c[2] = 117 /\ c[3] = 48 /\ c[4] = 48
        /\ HexValue(c[5]) \in Int /\ HexValue(c[6]) \in Int
        /\ 16 * HexValue(c[5]) + HexValue(c[6]) = b
    BY <1>6 DEF InHex
  <2>2. /\ t[p] = Backslash /\ p < Len(t) /\ p + 5 <= Len(t) /\ t[p + 1] = 117 /\ Backslash # Quote
        /\ t[p + 2] = 48 /\ t[p + 3] = 48 /\ t[p + 4] = c[5] /\ t[p + 5] = c[6]
    BY <1>2, <2>1 DEF Quote, Backslash
  <2>3. HexValue(48) = 0
    BY DEF HexValue
  <2>4. 117 \notin {Quote, Backslash} /\ ~IsShort(117)
    BY ShortUnique DEF Quote, Backslash, IsShort
  <2> DEFINE hex == 4096 * HexValue(t[p + 2]) + 256 * HexValue(t[p + 3])
                      + 16 * HexValue(t[p + 4]) + HexValue(t[p + 5])
  <2>5. JsonReading(t, p) = [byte |-> hex, width |-> 6]
    <3> DEFINE x == t[p]   y == t[p + 1]
    <3>1. JsonReading(t, p) =
            CASE x = Quote -> Stop
              [] x \notin {Quote, Backslash} -> [byte |-> x, width |-> 1]
              [] x = Backslash /\ p < Len(t) /\ y \in {Quote, Backslash} -> [byte |-> y, width |-> 2]
              [] x = Backslash /\ p < Len(t) /\ IsShort(y) -> [byte |-> Unshort(y), width |-> 2]
              [] x = Backslash /\ p + 5 <= Len(t) /\ y = 117 -> [byte |-> hex, width |-> 6]
              [] OTHER -> Malformed
      BY DEF JsonReading
    <3>2. x = Backslash /\ x # Quote /\ p + 5 <= Len(t) /\ y = 117
      BY <2>2
    <3> HIDE DEF x, y, hex
    <3> QED
      BY <2>4, <3>1, <3>2
  <2>6. hex = b
    BY <2>1, <2>2, <2>3
  <2> QED
    BY <1>2, <2>1, <2>5, <2>6 DEF c
<1> QED
  BY <1>1, <1>3, <1>4, <1>5, <1>6

\* The chunks of what jsonEscape writes of the input.
EscapedBy(chunks, at) ==
  /\ Len(chunks) = Len(input) /\ \A k \in 1 .. Len(input) : chunks[k] = JsonByte(input[k])
  /\ Located(at, chunks, JsonEscape(input))

\* An escaped string has its chunks.
LEMMA EscapeIs ==
  ASSUME input \in Seq(0 .. 255)
  PROVE  /\ JsonEscape(input) \in Seq(Int)
         /\ \E chunks \in Chunks : \E at : EscapedBy(chunks, at)
<1> DEFINE n      == Len(input)
           chunks == [i \in DOMAIN input |-> JsonByte(input[i])]
           flat   == JsonEscape(input)
<1>1. n \in Nat /\ DOMAIN input = 1 .. n /\ input \in Seq(Int)
      /\ \A k \in 1 .. n : input[k] \in 0 .. 255
  BY InputIs
<1>2. chunks \in Chunks /\ Len(chunks) = n /\ \A k \in 1 .. n : chunks[k] = JsonByte(input[k])
  <2>1. \A k \in 1 .. n : JsonByte(input[k]) \in Seq(Int)
    BY <1>1, JsonByteIs
  <2>2. chunks = [k \in 1 .. n |-> JsonByte(input[k])]
    BY <1>1
  <2> HIDE DEF n
  <2>3. chunks \in Seq(Seq(Int)) /\ Len(chunks) = n
    BY <1>1, <2>1, <2>2
  <2> QED
    BY <2>2, <2>3 DEF Chunks
<1>3. flat = FlattenSeq(chunks)
  BY DEF JsonEscape
<1> HIDE DEF chunks, flat
<1>4. flat \in Seq(Int) /\ \E at : Located(at, chunks, flat)
  <2>1. chunks \in Seq(Seq(Int))
    BY <1>2 DEF Chunks
  <2> QED
    BY <1>3, <2>1, FlattenLocated
<1>5. PICK at : Located(at, chunks, flat)
  BY <1>4
<1>6. EscapedBy(chunks, at)
  BY <1>2, <1>5 DEF EscapedBy, flat
<1> QED
  BY <1>2, <1>4, <1>6 DEF flat

\* A chunk of the input is in every text that goes on from what jsonEscape writes.
Continues(t, flat) ==
  /\ Len(t) > Len(flat) /\ t[Len(flat) + 1] = Quote
  /\ \A i \in 1 .. Len(flat) : t[i] = flat[i]

\* The chunks of an escaped string lie in whatever continues it with a quote.
LEMMA ChunkLies ==
  ASSUME NEW chunks \in Chunks, NEW at, NEW t \in Seq(Int), NEW k \in 1 .. Len(input),
         input \in Seq(0 .. 255), EscapedBy(chunks, at), Continues(t, JsonEscape(input))
  PROVE  /\ input[k] \in 0 .. 255 /\ chunks[k] = JsonByte(input[k])
         /\ at[k - 1] \in Nat \ {0} /\ Lies(JsonByte(input[k]), t, at[k - 1])
<1> DEFINE flat == JsonEscape(input)   c == chunks[k]   p == at[k - 1]   w == Len(c)
           len == Len(flat)   top == Len(t)
<1>1. input[k] \in 0 .. 255
  BY InputIs
<1>2. c = JsonByte(input[k]) /\ k \in 1 .. Len(chunks) /\ Located(at, chunks, flat)
  BY DEF EscapedBy
<1>3. flat \in Seq(Int)
  BY EscapeIs
<1> HIDE DEF flat
<1>4. /\ c \in Seq(Int) /\ p \in Nat \ {0} /\ p + w <= len + 1
      /\ \A j \in 1 .. w : flat[p + j - 1] = c[j]
  <2>1. MadeOf(flat, chunks, at) /\ k \in 1 .. Len(chunks)
    BY <1>2, <1>3 DEF MadeOf
  <2>2. chunks[k] \in Seq(Int) /\ at[k - 1] \in Nat \ {0} /\ Lies(chunks[k], flat, at[k - 1])
    BY ONLY <2>1, ChunkAt
  <2> QED
    BY <2>2 DEF Lies
<1>5. len \in Nat /\ top \in Nat /\ w \in Nat
  BY <1>3, <1>4
<1>6. top > len /\ \A i \in 1 .. len : t[i] = flat[i]
  BY DEF Continues, flat
<1> HIDE DEF c, p, w, len, top
<1>7. p + w <= top + 1
  BY <1>4, <1>5, <1>6
<1>8. ASSUME NEW j \in 1 .. w PROVE t[p + j - 1] = c[j]
  <2>1. p + j - 1 \in 1 .. len
    BY <1>4, <1>5
  <2> QED
    BY <1>4, <1>6, <2>1
<1>9. Lies(c, t, p)
  BY <1>7, <1>8 DEF Lies, w, top
<1> QED
  BY <1>1, <1>2, <1>4, <1>9 DEF c, p

\* JsonRead reads an escaped string that is followed by a quote, and stops there.
LEMMA JsonReadsOn ==
  ASSUME NEW t \in Seq(Int), input \in Seq(0 .. 255), Continues(t, JsonEscape(input))
  PROVE  Read(JsonReadings(t), <<256>>) = input
<1> DEFINE flat == JsonEscape(input)   reading == JsonReadings(t)
<1>1. flat \in Seq(Int)
  BY EscapeIs
<1>2. PICK chunks \in Chunks : \E at : EscapedBy(chunks, at)
  BY EscapeIs
<1>3. PICK at : EscapedBy(chunks, at)
  BY <1>2
<1>4. /\ reading \in Seq(Reading) /\ Len(reading) = Len(t) /\ Within(reading)
      /\ \A i \in 1 .. Len(t) : reading[i] = JsonReading(t, i)
  BY JsonReadingsType
<1> HIDE DEF reading
<1>5. ReadAs(reading, at, chunks, input)
  <2>1. ASSUME NEW k \in 1 .. Len(input)
        PROVE  /\ Len(chunks[k]) # 0
               /\ reading[at[k - 1]] = [byte |-> input[k], width |-> Len(chunks[k])]
    <3> DEFINE b == input[k]   p == at[k - 1]
    <3>1. /\ b \in 0 .. 255 /\ chunks[k] = JsonByte(b)
          /\ p \in Nat \ {0} /\ Lies(JsonByte(b), t, p)
      BY <1>3, ChunkLies
    <3> HIDE DEF b, p
    <3>2. p \in 1 .. Len(t) /\ JsonReading(t, p) = [byte |-> b, width |-> Len(JsonByte(b))]
      BY <3>1, JsonChunkRead
    <3>3. reading[p] = JsonReading(t, p)
      BY <1>4, <3>2
    <3>4. Len(JsonByte(b)) # 0
      BY <3>1, JsonByteIs
    <3> QED
      BY <3>1, <3>2, <3>3, <3>4 DEF b, p
  <2>2. Len(chunks) = Len(input)
    BY <1>3 DEF EscapedBy
  <2> QED
    BY <2>1, <2>2 DEF ReadAs
<1>6. Len(reading) > Len(flat) /\ reading[Len(flat) + 1].width = 0
  <2> DEFINE q == Len(flat) + 1
  <2>1. t[q] = Quote /\ Len(t) > Len(flat)
    BY DEF Continues
  <2>2. q \in 1 .. Len(t)
    BY <1>1, <2>1
  <2> HIDE DEF q
  <2>3. JsonReading(t, q) = Stop
    BY <2>1 DEF JsonReading, Quote, Backslash
  <2>4. reading[q].width = 0
    BY <1>4, <2>2, <2>3 DEF Stop
  <2> QED
    BY <1>4, <2>1, <2>4 DEF q
<1>7. Located(at, chunks, flat)
  BY <1>3 DEF EscapedBy
<1>8. <<256>> \in Seq(Int) /\ input \in Seq(Int)
  BY InputIs
<1> HIDE DEF flat
<1> DEFINE rest == <<256>>
<1> HIDE DEF rest
<1>9. Read(reading, rest) = input
  BY <1>1, <1>4, <1>5, <1>6, <1>7, <1>8, ChunksRead DEF rest
<1> QED
  BY <1>9 DEF rest, reading

\* What jsonEscape writes is read back.
LEMMA JsonIsReadBack ==
  ASSUME input \in Seq(0 .. 255)
  PROVE  JsonReadsBack
<1> DEFINE flat == JsonEscape(input)   end == <<Quote>>   t == flat \o end
<1>1. flat \in Seq(Int) /\ end \in Seq(Int) /\ Len(end) = 1 /\ end[1] = Quote
  BY EscapeIs DEF Quote
<1>2. JsonRead(t) = Read(JsonReadings(t), <<256>>)
  BY DEF JsonRead, JsonReadings, JsonReading, IsShort, Unshort
<1>3. JsonReadsBack <=> JsonRead(t) = input
  BY DEF JsonReadsBack
<1> HIDE DEF flat, end
<1>4. /\ t \in Seq(Int) /\ Len(t) = Len(flat) + 1
      /\ \A i \in 1 .. Len(flat) + 1 : t[i] = IF i <= Len(flat) THEN flat[i] ELSE end[i - Len(flat)]
  <2>1. /\ flat \o end \in Seq(Int) /\ Len(flat \o end) = Len(flat) + Len(end)
        /\ \A i \in 1 .. Len(flat) + Len(end) :
             (flat \o end)[i] = IF i <= Len(flat) THEN flat[i] ELSE end[i - Len(flat)]
    BY <1>1, ConcatProperties
  <2>2. Len(end) = 1
    BY <1>1
  <2> QED
    BY <2>1, <2>2
<1> HIDE DEF t
<1>5. Continues(t, flat)
  <2> DEFINE n == Len(flat)
  <2>1. n \in Nat
    BY <1>1
  <2> HIDE DEF n
  <2>2. Len(t) = n + 1 /\ \A i \in 1 .. n + 1 : t[i] = IF i <= n THEN flat[i] ELSE end[i - n]
    BY <1>4 DEF n
  <2>3. Len(t) > n /\ \A i \in 1 .. n : t[i] = flat[i]
    BY <2>1, <2>2
  <2>4. t[n + 1] = Quote
    <3>1. n + 1 \in 1 .. n + 1 /\ ~(n + 1 <= n) /\ (n + 1) - n = 1
      BY <2>1
    <3> QED
      BY <1>1, <2>2, <3>1
  <2> QED
    BY <2>3, <2>4 DEF Continues, n
<1>6. Read(JsonReadings(t), <<256>>) = input
  BY <1>4, <1>5, JsonReadsOn DEF flat
<1> QED
  BY <1>2, <1>3, <1>6

\* A quote jsonEscape writes comes after a backslash.
LEMMA QuotesEscaped ==
  ASSUME input \in Seq(0 .. 255), NEW i \in 1 .. Len(JsonEscape(input)),
         JsonEscape(input)[i] = Quote
  PROVE  i > 1 /\ JsonEscape(input)[i - 1] = Backslash
<1> DEFINE flat == JsonEscape(input)
<1>1. PICK chunks \in Chunks : \E at : EscapedBy(chunks, at)
  BY EscapeIs
<1>2. PICK at : EscapedBy(chunks, at)
  BY <1>1
<1>3. Located(at, chunks, flat) /\ Len(chunks) = Len(input) /\ flat \in Seq(Int)
  BY <1>2, EscapeIs DEF EscapedBy
<1>4. i \in 1 .. Len(flat) /\ flat[i] = Quote
  OBVIOUS
<1> HIDE DEF flat
<1>5. PICK k \in 1 .. Len(input) : \E j \in 1 .. Len(chunks[k]) : i = at[k - 1] + j - 1
  BY <1>3, <1>4 DEF Located
<1>6. PICK j \in 1 .. Len(chunks[k]) : i = at[k - 1] + j - 1
  BY <1>5
<1> DEFINE b == input[k]   c == JsonByte(b)   p == at[k - 1]
<1>7. chunks[k] = c /\ b \in 0 .. 255
  BY <1>2, InputIs DEF EscapedBy
<1>8. /\ p \in Nat \ {0} /\ \A l \in 1 .. Len(c) : flat[p + l - 1] = c[l]
  <2>1. MadeOf(flat, chunks, at) /\ k \in 1 .. Len(chunks)
    BY <1>3 DEF MadeOf
  <2>2. at[k - 1] \in Nat \ {0} /\ Lies(chunks[k], flat, at[k - 1])
    BY ONLY <2>1, ChunkAt
  <2>3. /\ at[k - 1] \in Nat \ {0}
        /\ \A l \in 1 .. Len(chunks[k]) : flat[at[k - 1] + l - 1] = chunks[k][l]
    BY <2>2 DEF Lies
  <2>4. chunks[k] = c
    BY <1>7
  <2> QED
    BY ONLY <2>3, <2>4
<1>9. /\ c \in Seq(Int)
      /\ Plain(b, c) \/ Escaped(b, c) \/ Shortened(b, c) \/ InHex(b, c)
  BY <1>7, JsonByteIs
<1>10. j \in 1 .. Len(c) /\ i = p + j - 1
  BY <1>6, <1>7
<1> HIDE DEF b, c, p
<1>11. c[j] = Quote
  BY <1>4, <1>8, <1>10
<1>12. j = 2 /\ c[1] = Backslash
  <2>1. CASE Plain(b, c)
    BY <1>10, <1>11, <2>1 DEF Plain
  <2>2. CASE Escaped(b, c)
    <3>1. Len(c) = 2 /\ c[1] = Backslash
      BY <2>2 DEF Escaped
    <3>2. j = 1 \/ j = 2
      BY <1>10, <3>1
    <3> QED
      BY <1>11, <3>1, <3>2 DEF Quote, Backslash
  <2>3. CASE Shortened(b, c)
    <3>1. Len(c) = 2 /\ c[1] = Backslash /\ c[2] # Quote
      BY <2>3, ShortUnique DEF Shortened
    <3>2. j = 1 \/ j = 2
      BY <1>10, <3>1
    <3> QED
      BY <1>11, <3>1, <3>2 DEF Quote, Backslash
  <2>4. CASE InHex(b, c)
    <3>1. /\ Len(c) = 6 /\ c[1] = Backslash /\ c[2] = 117 /\ c[3] = 48 /\ c[4] = 48
          /\ c[5] # Quote /\ c[6] # Quote
      BY <2>4 DEF InHex
    <3>2. j = 1 \/ j = 2 \/ j = 3 \/ j = 4 \/ j = 5 \/ j = 6
      BY <1>10, <3>1
    <3> QED
      BY <1>11, <3>1, <3>2 DEF Quote, Backslash
  <2> QED
    BY <1>9, <2>1, <2>2, <2>3, <2>4
<1>13. i - 1 = p + 1 - 1 /\ 1 \in 1 .. Len(c) /\ i > 1
  BY <1>8, <1>9, <1>10, <1>12
<1>14. flat[p + 1 - 1] = Backslash
  BY <1>8, <1>12, <1>13
<1> QED
  BY <1>13, <1>14 DEF flat

-----------------------------------------------------------------------------
(* Text: what extractJsonString makes of an answer.                        *)

\* What Copied finds at each position.
CopyReading(s, i) ==
  CASE s[i] = Quote \/ (s[i] = Backslash /\ i = Len(s)) -> Stop
    [] s[i] = Backslash /\ i < Len(s) -> [byte |-> s[i + 1], width |-> 2]
    [] OTHER -> [byte |-> s[i], width |-> 1]

CopyReadings(s) == [i \in DOMAIN s |-> CopyReading(s, i)]

LEMMA CopyReadingIs ==
  ASSUME NEW s \in Seq(Int), NEW i \in 1 .. Len(s)
  PROVE  /\ s[i] = Quote => CopyReading(s, i) = Stop
         /\ s[i] = Backslash /\ i = Len(s) => CopyReading(s, i) = Stop
         /\ s[i] = Backslash /\ i < Len(s) => CopyReading(s, i) = [byte |-> s[i + 1], width |-> 2]
         /\ s[i] \notin {Quote, Backslash} => CopyReading(s, i) = [byte |-> s[i], width |-> 1]
<1>1. Len(s) \in Nat /\ Quote # Backslash
  BY DEF Quote, Backslash
<1>2. CASE s[i] = Quote
  BY <1>1, <1>2 DEF CopyReading
<1>3. CASE s[i] = Backslash /\ i = Len(s)
  BY <1>1, <1>3 DEF CopyReading
<1>4. CASE s[i] = Backslash /\ i < Len(s)
  BY <1>1, <1>4 DEF CopyReading
<1>5. CASE s[i] \notin {Quote, Backslash}
  BY <1>5 DEF CopyReading
<1> QED
  BY <1>1, <1>2, <1>3, <1>4, <1>5

LEMMA CopyReadingsType ==
  ASSUME NEW s \in Seq(Int)
  PROVE  /\ CopyReadings(s) \in Seq(Reading) /\ Len(CopyReadings(s)) = Len(s)
         /\ Within(CopyReadings(s))
         /\ \A i \in 1 .. Len(s) : CopyReadings(s)[i] = CopyReading(s, i)
<1> DEFINE n == Len(s)   r == CopyReadings(s)
<1>1. n \in Nat /\ r = [i \in 1 .. n |-> CopyReading(s, i)]
  BY DEF CopyReadings
<1>2. ASSUME NEW i \in 1 .. n
      PROVE  CopyReading(s, i) \in Reading /\ i + CopyReading(s, i).width <= n + 1
  <2> DEFINE x == CopyReading(s, i)   y == s[i]   z == s[i + 1]
  <2>1. /\ y = Quote => x = Stop
        /\ y = Backslash /\ i = n => x = Stop
        /\ y = Backslash /\ i < n => x = [byte |-> z, width |-> 2]
        /\ y \notin {Quote, Backslash} => x = [byte |-> y, width |-> 1]
    BY CopyReadingIs
  <2>2. y \in Int /\ (i < n => z \in Int) /\ i <= n /\ i \in Nat
    BY <1>1
  <2> HIDE DEF x, y, z, n
  <2>3. \/ x = Stop
        \/ i < n /\ x = [byte |-> z, width |-> 2]
        \/ x = [byte |-> y, width |-> 1]
    BY <1>1, <2>1, <2>2
  <2> QED
    BY <1>1, <2>2, <2>3 DEF Stop, Reading, x
<1> HIDE DEF n, r
<1>3. r \in Seq(Reading) /\ Len(r) = n /\ \A i \in 1 .. n : r[i] = CopyReading(s, i)
  BY <1>1, <1>2
<1>4. Within(r)
  BY <1>2, <1>3 DEF Within
<1> QED
  BY <1>3, <1>4 DEF n, r

\* The copy of extractJsonString makes of JsonByte(b) the byte b, control characters aside.
LEMMA CopyChunkRead ==
  ASSUME NEW b \in 32 .. 255, NEW t \in Seq(Int), NEW p \in Nat \ {0}, Lies(JsonByte(b), t, p)
  PROVE  p \in 1 .. Len(t) /\ CopyReading(t, p) = [byte |-> b, width |-> Len(JsonByte(b))]
<1> DEFINE c == JsonByte(b)
<1>0. b \in 0 .. 255 /\ b >= 32
  OBVIOUS
<1>1. /\ c \in Seq(Int) /\ Len(c) # 0
      /\ Plain(b, c) \/ Escaped(b, c) \/ Shortened(b, c) \/ InHex(b, c)
  BY <1>0, JsonByteIs
<1> HIDE DEF c
<1>2. /\ p \in 1 .. Len(t) /\ t[p] = c[1]
      /\ Len(c) >= 2 => p < Len(t) /\ t[p + 1] = c[2]
  BY <1>1, LiesAt DEF c
<1>3. ~Shortened(b, c) /\ ~InHex(b, c)
  <2>1. b \notin DOMAIN Short
    BY <1>0, ShortIs
  <2>2. ~(b < 32)
    BY <1>0
  <2> QED
    BY <2>1, <2>2 DEF Shortened, InHex
<1>4. CASE Plain(b, c)
  <2>1. Len(c) = 1 /\ c[1] = b /\ b \notin {Quote, Backslash}
    BY <1>4 DEF Plain
  <2>2. CopyReading(t, p) = [byte |-> b, width |-> 1]
    BY <1>2, <2>1, CopyReadingIs
  <2> QED
    BY <1>2, <2>1, <2>2 DEF c
<1>5. CASE Escaped(b, c)
  <2>1. Len(c) = 2 /\ c[1] = Backslash /\ c[2] = b
    BY <1>5 DEF Escaped
  <2>2. CopyReading(t, p) = [byte |-> b, width |-> 2]
    BY <1>2, <2>1, CopyReadingIs
  <2> QED
    BY <1>2, <2>1, <2>2 DEF c
<1> QED
  BY <1>1, <1>3, <1>4, <1>5

\* It copies an escaped string that is followed by a quote, and stops there.
LEMMA CopiesOn ==
  ASSUME NEW t \in Seq(Int), input \in Seq(0 .. 255), Continues(t, JsonEscape(input)),
         \A i \in DOMAIN input : input[i] >= 32
  PROVE  Copied(t) = input
<1> DEFINE flat == JsonEscape(input)   reading == CopyReadings(t)
<1>1. flat \in Seq(Int)
  BY EscapeIs
<1>2. PICK chunks \in Chunks : \E at : EscapedBy(chunks, at)
  BY EscapeIs
<1>3. PICK at : EscapedBy(chunks, at)
  BY <1>2
<1>4. /\ reading \in Seq(Reading) /\ Len(reading) = Len(t) /\ Within(reading)
      /\ \A i \in 1 .. Len(t) : reading[i] = CopyReading(t, i)
  BY CopyReadingsType
<1>5. Copied(t) = Read(reading, <<>>)
  BY DEF Copied, CopyReadings, CopyReading
<1> HIDE DEF reading
<1>6. ReadAs(reading, at, chunks, input)
  <2>1. ASSUME NEW k \in 1 .. Len(input)
        PROVE  /\ Len(chunks[k]) # 0
               /\ reading[at[k - 1]] = [byte |-> input[k], width |-> Len(chunks[k])]
    <3> DEFINE b == input[k]   p == at[k - 1]
    <3>1. /\ b \in 0 .. 255 /\ chunks[k] = JsonByte(b)
          /\ p \in Nat \ {0} /\ Lies(JsonByte(b), t, p)
      BY <1>3, ChunkLies
    <3>2. b >= 32
      BY InputIs
    <3> HIDE DEF b, p
    <3>3. b \in 32 .. 255
      BY <3>1, <3>2
    <3>4. p \in 1 .. Len(t) /\ CopyReading(t, p) = [byte |-> b, width |-> Len(JsonByte(b))]
      BY <3>1, <3>3, CopyChunkRead
    <3>5. reading[p] = CopyReading(t, p)
      BY <1>4, <3>4
    <3>6. Len(JsonByte(b)) # 0
      BY <3>1, JsonByteIs
    <3> QED
      BY <3>1, <3>4, <3>5, <3>6 DEF b, p
  <2>2. Len(chunks) = Len(input)
    BY <1>3 DEF EscapedBy
  <2> QED
    BY <2>1, <2>2 DEF ReadAs
<1>7. Len(reading) > Len(flat) /\ reading[Len(flat) + 1].width = 0
  <2> DEFINE q == Len(flat) + 1
  <2>1. t[q] = Quote /\ Len(t) > Len(flat)
    BY DEF Continues
  <2>2. q \in 1 .. Len(t)
    BY <1>1, <2>1
  <2> HIDE DEF q
  <2>3. CopyReading(t, q) = Stop
    BY <2>1, <2>2, CopyReadingIs
  <2>4. reading[q].width = 0
    BY <1>4, <2>2, <2>3 DEF Stop
  <2> QED
    BY <1>4, <2>1, <2>4 DEF q
<1>8. Located(at, chunks, flat)
  BY <1>3 DEF EscapedBy
<1>9. input \in Seq(Int) /\ <<>> \in Seq(Int)
  BY InputIs
<1> HIDE DEF flat
<1>10. Read(reading, <<>>) = input
  BY <1>1, <1>4, <1>6, <1>7, <1>8, <1>9, ChunksRead
<1> QED
  BY <1>5, <1>10

\* It copies a byte that is followed by a quote.
LEMMA CopiesOne ==
  ASSUME NEW t \in Seq(Int), NEW x \in Int, x \notin {Quote, Backslash},
         Len(t) >= 2, t[1] = x, t[2] = Quote
  PROVE  Copied(t) = <<x>>
<1> DEFINE reading == CopyReadings(t)   s == <<x>>   at == [k \in 0 .. 1 |-> k + 1]
           none == <<>>
<1>1. /\ reading \in Seq(Reading) /\ Len(reading) = Len(t) /\ Within(reading)
      /\ \A i \in 1 .. Len(t) : reading[i] = CopyReading(t, i)
  BY CopyReadingsType
<1>2. Copied(t) = Read(reading, none)
  BY DEF Copied, CopyReadings, CopyReading
<1> HIDE DEF reading
<1>3. 1 \in 1 .. Len(t) /\ 2 \in 1 .. Len(t) /\ Len(t) \in Nat
  OBVIOUS
<1>4. reading[1] = [byte |-> x, width |-> 1] /\ reading[2] = Stop
  BY <1>1, <1>3, CopyReadingIs
<1>5. s \in Seq(Int) /\ Len(s) = 1 /\ s[1] = x /\ none \in Seq(Int)
  OBVIOUS
<1>6. /\ at \in [0 .. 1 -> Nat \ {0}] /\ at[0] = 1 /\ at[1] = 2
  OBVIOUS
<1> HIDE DEF s, at, none
<1>7. Found(at, reading, none, s)
  <2>1. ASSUME NEW k \in 1 .. Len(s)
        PROVE  /\ at[k - 1] <= Len(reading)
               /\ reading[at[k - 1]].byte = s[k]
               /\ reading[at[k - 1]].width > 0
               /\ at[k] = at[k - 1] + reading[at[k - 1]].width
    <3>1. k = 1 /\ k - 1 = 0
      BY <1>5
    <3>2. at[k - 1] = 1 /\ at[k] = 2 /\ s[k] = x
      BY <1>5, <1>6, <3>1
    <3>3. reading[1].byte = x /\ reading[1].width = 1 /\ 1 <= Len(reading)
      BY <1>1, <1>3, <1>4
    <3> QED
      BY <3>2, <3>3
  <2>2. at[Len(s)] <= Len(reading) /\ reading[at[Len(s)]].width = 0
    BY <1>1, <1>4, <1>5, <1>6 DEF Stop
  <2> QED
    BY <1>5, <1>6, <2>1, <2>2 DEF Found
<1>8. Read(reading, none) = s
  BY <1>1, <1>5, <1>7, FoundReads
<1> QED
  BY <1>2, <1>8 DEF s

\* pattern is in body at position i.
Occurs(body, pattern, i) ==
  /\ i + Len(pattern) <= Len(body) + 1
  /\ \A j \in 1 .. Len(pattern) : body[i + j - 1] = pattern[j]

\* SubSeq compares a pattern byte by byte.
LEMMA OccursIs ==
  ASSUME NEW body \in Seq(Int), NEW pattern \in Seq(Int), NEW i \in Nat \ {0},
         i + Len(pattern) <= Len(body) + 1
  PROVE  SubSeq(body, i, i + Len(pattern) - 1) = pattern <=> Occurs(body, pattern, i)
<1> DEFINE n == Len(pattern)   top == Len(body)   last == i + n - 1   s == SubSeq(body, i, last)
<1>1. n \in Nat /\ top \in Nat /\ last \in Int /\ last - i + 1 = n /\ last <= top
      /\ (IF i <= last THEN last - i + 1 ELSE 0) = n
  <2>1. n \in Nat /\ top \in Nat /\ i + n <= top + 1
    OBVIOUS
  <2> HIDE DEF n, top
  <2> QED
    BY <2>1
<1> HIDE DEF n, top, last
<1>2. \A j \in i .. last : body[j] \in Int
  <2>1. \A j \in i .. last : j \in 1 .. top
    BY <1>1
  <2> QED
    BY <2>1 DEF top
<1>3. s \in Seq(Int) /\ Len(s) = n /\ \A j \in 1 .. n : s[j] = body[i + j - 1]
  <2>1. /\ s \in Seq(Int) /\ Len(s) = IF i <= last THEN last - i + 1 ELSE 0
        /\ \A j \in 1 .. last - i + 1 : s[j] = body[i + j - 1]
    BY <1>1, <1>2, SubSeqProperties
  <2> HIDE DEF s
  <2> QED
    BY <1>1, <2>1
<1> HIDE DEF s
<1>4. s = pattern <=> \A j \in 1 .. n : s[j] = pattern[j]
  BY <1>3, SeqEqual DEF n
<1>5. s = pattern <=> Occurs(body, pattern, i)
  BY <1>3, <1>4 DEF Occurs, n
<1> QED
  BY <1>5 DEF s, last, n

\* The first occurrence is found.
LEMMA AfterIs ==
  ASSUME NEW body \in Seq(Int), NEW pattern \in Seq(Int), NEW from \in Nat \ {0},
         NEW i \in Nat, i >= from, Occurs(body, pattern, i),
         \A j \in from .. i - 1 : ~Occurs(body, pattern, j)
  PROVE  After(body, pattern, from) = i + Len(pattern)
<1> DEFINE n == Len(pattern)   top == Len(body)
           places == {j \in from .. top - n + 1 : SubSeq(body, j, j + n - 1) = pattern}
           first == CHOOSE j \in places : \A l \in places : j <= l
<1>1. n \in Nat /\ top \in Nat /\ i + n <= top + 1
  BY DEF Occurs
<1>2. After(body, pattern, from) = IF places = {} THEN 0 ELSE n + first
  BY DEF After
<1>3. \A j \in from .. top - n + 1 : j \in places <=> Occurs(body, pattern, j)
  <2> TAKE j \in from .. top - n + 1
  <2>1. j \in Nat \ {0} /\ j + n <= top + 1
    <3> HIDE DEF n, top
    <3> QED
      BY <1>1
  <2>2. SubSeq(body, j, j + n - 1) = pattern <=> Occurs(body, pattern, j)
    BY <2>1, OccursIs
  <2> QED
    BY <2>2
<1>4. places \subseteq from .. top - n + 1
  OBVIOUS
<1> HIDE DEF n, top
<1>5. i \in from .. top - n + 1
  BY <1>1
<1> HIDE DEF places
<1>6. i \in places
  BY <1>3, <1>5
<1>7. \A l \in places : i <= l
  <2> TAKE l \in places
  <2>1. l \in from .. top - n + 1 /\ Occurs(body, pattern, l)
    BY <1>3, <1>4
  <2>2. l \notin from .. i - 1
    BY <2>1
  <2> QED
    BY <1>1, <2>1, <2>2
<1>8. first \in places /\ \A l \in places : first <= l
  BY <1>6, <1>7
<1> HIDE DEF first
<1>9. first <= i /\ i <= first /\ first \in Int
  BY <1>1, <1>4, <1>6, <1>7, <1>8
<1>10. first = i
  BY <1>9
<1> QED
  BY <1>1, <1>2, <1>6, <1>10 DEF n

\* A byte of a concatenation.
LEMMA ConcatAt ==
  ASSUME NEW s \in Seq(Int), NEW t \in Seq(Int)
  PROVE  /\ s \o t \in Seq(Int) /\ Len(s \o t) = Len(s) + Len(t)
         /\ \A i \in 1 .. Len(s) : (s \o t)[i] = s[i]
         /\ \A j \in 1 .. Len(t) : (s \o t)[Len(s) + j] = t[j]
<1> DEFINE n == Len(s)   k == Len(t)   c == s \o t
<1>1. /\ c \in Seq(Int) /\ Len(c) = n + k
      /\ \A i \in 1 .. n + k : c[i] = IF i <= n THEN s[i] ELSE t[i - n]
  BY ConcatProperties
<1>2. n \in Nat /\ k \in Nat
  OBVIOUS
<1> HIDE DEF n, k, c
<1>3. \A i \in 1 .. n : c[i] = s[i]
  BY <1>1, <1>2
<1>4. ASSUME NEW j \in 1 .. k PROVE c[n + j] = t[j]
  <2>1. n + j \in 1 .. n + k /\ ~(n + j <= n) /\ (n + j) - n = j
    BY <1>2
  <2> QED
    BY <1>1, <2>1
<1> QED
  BY <1>1, <1>3, <1>4 DEF n, k, c

\* One byte more, and three: a key or a value of one byte in its quotes.
LEMMA OneMore ==
  ASSUME NEW s \in Seq(Int), NEW x \in Int
  PROVE  /\ s \o <<x>> \in Seq(Int) /\ Len(s \o <<x>>) = Len(s) + 1
         /\ \A i \in 1 .. Len(s) : (s \o <<x>>)[i] = s[i]
         /\ (s \o <<x>>)[Len(s) + 1] = x
<1> DEFINE t == <<x>>
<1>1. t \in Seq(Int) /\ Len(t) = 1 /\ t[1] = x /\ 1 \in 1 .. Len(t)
  OBVIOUS
<1> HIDE DEF t
<1>2. /\ s \o t \in Seq(Int) /\ Len(s \o t) = Len(s) + 1
      /\ \A i \in 1 .. Len(s) : (s \o t)[i] = s[i]
      /\ (s \o t)[Len(s) + 1] = t[1]
  <2>1. s \in Seq(Int) /\ t \in Seq(Int)
    BY <1>1
  <2>2. /\ s \o t \in Seq(Int) /\ Len(s \o t) = Len(s) + Len(t)
        /\ \A i \in 1 .. Len(s) : (s \o t)[i] = s[i]
        /\ \A j \in 1 .. Len(t) : (s \o t)[Len(s) + j] = t[j]
    BY ONLY <2>1, ConcatAt
  <2> QED
    BY <1>1, <2>2
<1> QED
  BY <1>1, <1>2 DEF t

LEMMA QuotedIs ==
  ASSUME NEW s \in Seq(Int)
  PROVE  /\ Quoted(s) \in Seq(Int) /\ Len(Quoted(s)) = Len(s) + 2
         /\ Quoted(s)[1] = Quote /\ Quoted(s)[Len(s) + 2] = Quote
         /\ \A i \in 1 .. Len(s) : Quoted(s)[1 + i] = s[i]
<1> DEFINE q == <<Quote>>   t == q \o s
<1>1. q \in Seq(Int) /\ Len(q) = 1 /\ q[1] = Quote /\ Quote \in Int
  BY DEF Quote
<1>2. Quoted(s) = t \o <<Quote>>
  BY DEF Quoted
<1>3. Len(s) \in Nat
  OBVIOUS
<1> HIDE DEF q
<1>4. /\ t \in Seq(Int) /\ Len(t) = 1 + Len(s) /\ t[1] = Quote
      /\ \A i \in 1 .. Len(s) : t[1 + i] = s[i]
  <2>1. /\ t \in Seq(Int) /\ Len(t) = Len(q) + Len(s)
        /\ \A i \in 1 .. Len(q) : t[i] = q[i]
        /\ \A i \in 1 .. Len(s) : t[Len(q) + i] = s[i]
    BY <1>1, ConcatAt
  <2> HIDE DEF t
  <2>2. 1 \in 1 .. Len(q)
    BY <1>1
  <2> QED
    BY <1>1, <2>1, <2>2
<1> HIDE DEF t
<1> DEFINE u == t \o <<Quote>>
<1>5. /\ u \in Seq(Int) /\ Len(u) = Len(t) + 1
      /\ \A i \in 1 .. Len(t) : u[i] = t[i]
      /\ u[Len(t) + 1] = Quote
  BY <1>1, <1>4, OneMore
<1> HIDE DEF u
<1> DEFINE n == Len(s)
<1> HIDE DEF n
<1>6. Len(t) = 1 + n /\ n \in Nat /\ Len(t) + 1 = n + 2
      /\ \A i \in 1 .. n : 1 + i \in 1 .. Len(t)
  BY <1>3, <1>4 DEF n
<1>7. Len(u) = n + 2 /\ u[n + 2] = Quote
  BY <1>5, <1>6
<1>8. u[1] = Quote /\ \A i \in 1 .. n : u[1 + i] = s[i]
  <2>1. 1 \in 1 .. Len(t)
    BY <1>6
  <2>2. \A i \in 1 .. n : u[1 + i] = t[1 + i]
    BY <1>5, <1>6
  <2> QED
    BY <1>4, <1>5, <2>1, <2>2 DEF n
<1> QED
  BY <1>2, <1>5, <1>7, <1>8 DEF n, u

LEMMA ThreeMore ==
  ASSUME NEW s \in Seq(Int), NEW x \in Int
  PROVE  /\ s \o Quoted(<<x>>) \in Seq(Int) /\ Len(s \o Quoted(<<x>>)) = Len(s) + 3
         /\ \A i \in 1 .. Len(s) : (s \o Quoted(<<x>>))[i] = s[i]
         /\ (s \o Quoted(<<x>>))[Len(s) + 1] = Quote
         /\ (s \o Quoted(<<x>>))[Len(s) + 2] = x
         /\ (s \o Quoted(<<x>>))[Len(s) + 3] = Quote
<1> DEFINE y == <<x>>   t == Quoted(y)
<1>1. y \in Seq(Int) /\ Len(y) = 1 /\ y[1] = x /\ 1 \in 1 .. Len(y)
  OBVIOUS
<1> HIDE DEF y
<1>2. t \in Seq(Int) /\ Len(t) = 3 /\ t[1] = Quote /\ t[2] = x /\ t[3] = Quote
  <2>1. /\ t \in Seq(Int) /\ Len(t) = Len(y) + 2 /\ t[1] = Quote /\ t[Len(y) + 2] = Quote
        /\ \A i \in 1 .. Len(y) : t[1 + i] = y[i]
    BY <1>1, QuotedIs
  <2> HIDE DEF t
  <2>2. Len(y) + 2 = 3 /\ 1 + 1 = 2
    BY <1>1
  <2> QED
    BY <1>1, <2>1, <2>2
<1> HIDE DEF t
<1>3. /\ s \o t \in Seq(Int) /\ Len(s \o t) = Len(s) + Len(t)
      /\ \A i \in 1 .. Len(s) : (s \o t)[i] = s[i]
      /\ \A j \in 1 .. Len(t) : (s \o t)[Len(s) + j] = t[j]
  BY <1>2, ConcatAt
<1>4. 1 \in 1 .. Len(t) /\ 2 \in 1 .. Len(t) /\ 3 \in 1 .. Len(t)
  BY <1>2
<1>5. /\ s \o t \in Seq(Int) /\ Len(s \o t) = Len(s) + 3
      /\ \A i \in 1 .. Len(s) : (s \o t)[i] = s[i]
      /\ (s \o t)[Len(s) + 1] = Quote /\ (s \o t)[Len(s) + 2] = x /\ (s \o t)[Len(s) + 3] = Quote
  BY <1>2, <1>3, <1>4
<1> QED
  BY <1>5 DEF t, y

\* The answer, byte by byte: q is where the message's closing quote is.
LEMMA ErrorIs ==
  ASSUME NEW e \in Seq(Int)
  PROVE  LET body == Error(e, <<88>>)
             q    == Len(e) + 7
         IN  /\ body \in Seq(Int) /\ Len(body) = q + 9
             /\ body[1] = 123 /\ body[2] = Quote /\ body[3] = 109 /\ body[4] = Quote
             /\ body[5] = Colon /\ body[6] = Quote
             /\ \A i \in 1 .. Len(e) : body[6 + i] = e[i]
             /\ body[q] = Quote /\ body[q + 1] = 44
             /\ body[q + 2] = Quote /\ body[q + 3] = 99 /\ body[q + 4] = Quote
             /\ body[q + 5] = Colon
             /\ body[q + 6] = Quote /\ body[q + 7] = 88 /\ body[q + 8] = Quote
<1> DEFINE s1 == <<123>>
           s2 == s1 \o Quoted(<<109>>)
           s3 == s2 \o <<Colon>>
           s4 == s3 \o Quoted(e)
           s5 == s4 \o <<44>>
           s6 == s5 \o Quoted(<<99>>)
           s7 == s6 \o <<Colon>>
           s8 == s7 \o Quoted(<<88>>)
           s9 == s8 \o <<125>>
           n  == Len(e)
           q  == n + 7
<1>1. Error(e, <<88>>) = s9
  BY DEF Error
<1>2. n \in Nat /\ Colon \in Int
  BY DEF Colon
<1>3. s1 \in Seq(Int) /\ Len(s1) = 1 /\ s1[1] = 123
  OBVIOUS
<1> HIDE DEF s1, n
<1>4. /\ s2 \in Seq(Int) /\ Len(s2) = 4
      /\ s2[1] = 123 /\ s2[2] = Quote /\ s2[3] = 109 /\ s2[4] = Quote
  <2>0. s1 \in Seq(Int) /\ 109 \in Int
    BY <1>3
  <2>1. /\ s2 \in Seq(Int) /\ Len(s2) = Len(s1) + 3 /\ (\A i \in 1 .. Len(s1) : s2[i] = s1[i])
        /\ s2[Len(s1) + 1] = Quote /\ s2[Len(s1) + 2] = 109 /\ s2[Len(s1) + 3] = Quote
    BY ONLY <2>0, ThreeMore
  <2> HIDE DEF s2
  <2> QED
    BY <1>3, <2>1
<1> HIDE DEF s2
<1>5. /\ s3 \in Seq(Int) /\ Len(s3) = 5
      /\ s3[1] = 123 /\ s3[2] = Quote /\ s3[3] = 109 /\ s3[4] = Quote /\ s3[5] = Colon
  <2>0. s2 \in Seq(Int) /\ Colon \in Int
    BY <1>2, <1>4
  <2>1. /\ s3 \in Seq(Int) /\ Len(s3) = Len(s2) + 1 /\ (\A i \in 1 .. Len(s2) : s3[i] = s2[i])
        /\ s3[Len(s2) + 1] = Colon
    BY ONLY <2>0, OneMore
  <2> HIDE DEF s3
  <2> QED
    BY <1>4, <2>1
<1> HIDE DEF s3
<1>6. /\ s4 \in Seq(Int) /\ Len(s4) = q
      /\ (\A i \in 1 .. 5 : s4[i] = s3[i]) /\ s4[6] = Quote
      /\ (\A i \in 1 .. n : s4[6 + i] = e[i]) /\ s4[q] = Quote
  <2> DEFINE t == Quoted(e)
  <2>1. /\ t \in Seq(Int) /\ Len(t) = n + 2 /\ t[1] = Quote /\ t[n + 2] = Quote
        /\ \A i \in 1 .. n : t[1 + i] = e[i]
    BY QuotedIs DEF n
  <2> HIDE DEF t
  <2>2. /\ s4 \in Seq(Int) /\ Len(s4) = Len(s3) + Len(t)
        /\ \A i \in 1 .. Len(s3) : s4[i] = s3[i]
        /\ \A j \in 1 .. Len(t) : s4[Len(s3) + j] = t[j]
    <3>1. s3 \in Seq(Int) /\ t \in Seq(Int)
      BY <1>5, <2>1
    <3>2. s4 = s3 \o t
      BY DEF t
    <3> HIDE DEF s4
    <3> QED
      BY ONLY <3>1, <3>2, ConcatAt
  <2> HIDE DEF s4
  <2>3. Len(s4) = q /\ \A j \in 1 .. n + 2 : s4[5 + j] = t[j]
    BY <1>2, <1>5, <2>1, <2>2
  <2>4. s4[6] = Quote /\ s4[q] = Quote
    <3>1. 1 \in 1 .. n + 2 /\ n + 2 \in 1 .. n + 2 /\ 5 + 1 = 6 /\ 5 + (n + 2) = q
      BY <1>2
    <3>2. s4[5 + 1] = t[1] /\ s4[5 + (n + 2)] = t[n + 2]
      BY <2>3, <3>1
    <3> QED
      BY <2>1, <3>1, <3>2
  <2>5. ASSUME NEW i \in 1 .. n PROVE s4[6 + i] = e[i]
    <3>1. 1 + i \in 1 .. n + 2 /\ 5 + (1 + i) = 6 + i
      BY <1>2
    <3>2. s4[5 + (1 + i)] = t[1 + i]
      BY <2>3, <3>1
    <3> QED
      BY <2>1, <3>1, <3>2
  <2>6. \A i \in 1 .. 5 : s4[i] = s3[i]
    BY <1>5, <2>2
  <2> QED
    BY <2>2, <2>3, <2>4, <2>5, <2>6
<1>7. q \in Nat /\ q >= 7 /\ \A i \in 1 .. n : 6 + i \in 1 .. q
  BY <1>2
<1> HIDE DEF s4, q
<1>8. /\ s5 \in Seq(Int) /\ Len(s5) = q + 1 /\ (\A i \in 1 .. q : s5[i] = s4[i])
      /\ s5[q + 1] = 44
  BY <1>6, OneMore
<1> HIDE DEF s5
<1>9. /\ s6 \in Seq(Int) /\ Len(s6) = q + 4 /\ (\A i \in 1 .. q + 1 : s6[i] = s5[i])
      /\ s6[q + 2] = Quote /\ s6[q + 3] = 99 /\ s6[q + 4] = Quote
  <2>0. s5 \in Seq(Int) /\ 99 \in Int
    BY <1>8
  <2>1. /\ s6 \in Seq(Int) /\ Len(s6) = Len(s5) + 3 /\ (\A i \in 1 .. Len(s5) : s6[i] = s5[i])
        /\ s6[Len(s5) + 1] = Quote /\ s6[Len(s5) + 2] = 99 /\ s6[Len(s5) + 3] = Quote
    BY ONLY <2>0, ThreeMore
  <2> HIDE DEF s6
  <2>2. Len(s5) + 1 = q + 2 /\ Len(s5) + 2 = q + 3 /\ Len(s5) + 3 = q + 4
    BY <1>7, <1>8
  <2> QED
    BY <1>8, <2>1, <2>2
<1> HIDE DEF s6
<1>10. /\ s7 \in Seq(Int) /\ Len(s7) = q + 5 /\ (\A i \in 1 .. q + 4 : s7[i] = s6[i])
       /\ s7[q + 5] = Colon
  <2>0. s6 \in Seq(Int) /\ Colon \in Int
    BY <1>2, <1>9
  <2>1. /\ s7 \in Seq(Int) /\ Len(s7) = Len(s6) + 1 /\ (\A i \in 1 .. Len(s6) : s7[i] = s6[i])
        /\ s7[Len(s6) + 1] = Colon
    BY ONLY <2>0, OneMore
  <2> HIDE DEF s7
  <2>2. Len(s6) + 1 = q + 5
    BY <1>7, <1>9
  <2> QED
    BY <1>9, <2>1, <2>2
<1> HIDE DEF s7
<1>11. /\ s8 \in Seq(Int) /\ Len(s8) = q + 8 /\ (\A i \in 1 .. q + 5 : s8[i] = s7[i])
       /\ s8[q + 6] = Quote /\ s8[q + 7] = 88 /\ s8[q + 8] = Quote
  <2>0. s7 \in Seq(Int) /\ 88 \in Int
    BY <1>10
  <2>1. /\ s8 \in Seq(Int) /\ Len(s8) = Len(s7) + 3 /\ (\A i \in 1 .. Len(s7) : s8[i] = s7[i])
        /\ s8[Len(s7) + 1] = Quote /\ s8[Len(s7) + 2] = 88 /\ s8[Len(s7) + 3] = Quote
    BY ONLY <2>0, ThreeMore
  <2> HIDE DEF s8
  <2>2. Len(s7) + 1 = q + 6 /\ Len(s7) + 2 = q + 7 /\ Len(s7) + 3 = q + 8
    BY <1>7, <1>10
  <2> QED
    BY <1>10, <2>1, <2>2
<1> HIDE DEF s8
<1>12. s9 \in Seq(Int) /\ Len(s9) = q + 9 /\ \A i \in 1 .. q + 8 : s9[i] = s8[i]
  <2>1. s9 \in Seq(Int) /\ Len(s9) = Len(s8) + 1 /\ \A i \in 1 .. Len(s8) : s9[i] = s8[i]
    BY <1>11, OneMore
  <2> HIDE DEF s9
  <2>2. Len(s8) + 1 = q + 9
    BY <1>7, <1>11
  <2> QED
    BY <1>11, <2>1, <2>2
<1> HIDE DEF s9
<1>13. \A i \in 1 .. q : s9[i] = s4[i]
  BY <1>7, <1>8, <1>9, <1>10, <1>11, <1>12
<1>14. s9[q + 1] = 44
  BY <1>7, <1>8, <1>9, <1>10, <1>11, <1>12
<1>15. s9[q + 2] = Quote /\ s9[q + 3] = 99 /\ s9[q + 4] = Quote
  BY <1>7, <1>9, <1>10, <1>11, <1>12
<1>16. s9[q + 5] = Colon
  BY <1>7, <1>10, <1>11, <1>12
<1>17. s9[q + 6] = Quote /\ s9[q + 7] = 88 /\ s9[q + 8] = Quote
  BY <1>7, <1>11, <1>12
<1>18. /\ s9[1] = 123 /\ s9[2] = Quote /\ s9[3] = 109 /\ s9[4] = Quote /\ s9[5] = Colon
       /\ s9[6] = Quote /\ s9[q] = Quote
  <2>1. 1 \in 1 .. q /\ 2 \in 1 .. q /\ 3 \in 1 .. q /\ 4 \in 1 .. q /\ 5 \in 1 .. q
        /\ 6 \in 1 .. q /\ q \in 1 .. q
    BY <1>7
  <2> QED
    BY <1>5, <1>6, <1>13, <2>1
<1>19. \A i \in 1 .. n : s9[6 + i] = e[i]
  BY <1>6, <1>7, <1>13
<1> QED
  BY <1>1, <1>12, <1>14, <1>15, <1>16, <1>17, <1>18, <1>19 DEF n, q

\* Searching for one byte.
LEMMA AfterByte ==
  ASSUME NEW body \in Seq(Int), NEW x \in Int, NEW from \in Nat \ {0}, NEW i \in Nat,
         i >= from, i <= Len(body), body[i] = x, \A j \in from .. i - 1 : body[j] # x
  PROVE  After(body, <<x>>, from) = i + 1
<1> DEFINE pattern == <<x>>
<1>1. pattern \in Seq(Int) /\ Len(pattern) = 1 /\ pattern[1] = x
  OBVIOUS
<1> HIDE DEF pattern
<1>2. \A j \in Nat : Occurs(body, pattern, j) <=> j <= Len(body) /\ body[j] = x
  <2> TAKE j \in Nat
  <2>1. j + 1 <= Len(body) + 1 <=> j <= Len(body)
    OBVIOUS
  <2>2. (\A k \in 1 .. 1 : body[j + k - 1] = pattern[k]) <=> body[j] = x
    <3>1. \A k \in 1 .. 1 : k = 1 /\ j + k - 1 = j
      OBVIOUS
    <3>2. 1 \in 1 .. 1
      OBVIOUS
    <3> QED
      BY <1>1, <3>1, <3>2
  <2> QED
    BY <1>1, <2>1, <2>2 DEF Occurs
<1>3. Occurs(body, pattern, i)
  BY <1>2
<1>4. \A j \in from .. i - 1 : ~Occurs(body, pattern, j)
  <2> TAKE j \in from .. i - 1
  <2>1. j \in Nat /\ body[j] # x
    OBVIOUS
  <2> QED
    BY <1>2, <2>1
<1>5. After(body, pattern, from) = i + Len(pattern)
  BY <1>1, <1>3, <1>4, AfterIs
<1> QED
  BY <1>1, <1>5 DEF pattern

\* Where a key in its quotes is.
LEMMA OccursKey ==
  ASSUME NEW body \in Seq(Int), NEW x \in Int, NEW i \in Nat
  PROVE  /\ Quoted(<<x>>) \in Seq(Int) /\ Len(Quoted(<<x>>)) = 3
         /\ Occurs(body, Quoted(<<x>>), i)
              <=> i + 2 <= Len(body) /\ body[i] = Quote /\ body[i + 1] = x /\ body[i + 2] = Quote
<1> DEFINE y == <<x>>   key == Quoted(y)
<1>1. y \in Seq(Int) /\ Len(y) = 1 /\ y[1] = x /\ 1 \in 1 .. Len(y)
  OBVIOUS
<1> HIDE DEF y
<1>2. key \in Seq(Int) /\ Len(key) = 3 /\ key[1] = Quote /\ key[2] = x /\ key[3] = Quote
  <2>1. /\ key \in Seq(Int) /\ Len(key) = Len(y) + 2 /\ key[1] = Quote /\ key[Len(y) + 2] = Quote
        /\ \A l \in 1 .. Len(y) : key[1 + l] = y[l]
    BY <1>1, QuotedIs
  <2> HIDE DEF key
  <2>2. Len(y) + 2 = 3 /\ 1 + 1 = 2
    BY <1>1
  <2> QED
    BY <1>1, <2>1, <2>2
<1> HIDE DEF key
<1>3. (\A j \in 1 .. 3 : body[i + j - 1] = key[j])
        <=> body[i] = Quote /\ body[i + 1] = x /\ body[i + 2] = Quote
  <2>1. i + 1 - 1 = i /\ i + 2 - 1 = i + 1 /\ i + 3 - 1 = i + 2
    OBVIOUS
  <2>2. \A j \in 1 .. 3 : j = 1 \/ j = 2 \/ j = 3
    OBVIOUS
  <2>3. 1 \in 1 .. 3 /\ 2 \in 1 .. 3 /\ 3 \in 1 .. 3
    OBVIOUS
  <2> QED
    BY <1>2, <2>1, <2>2, <2>3
<1>4. i + 3 <= Len(body) + 1 <=> i + 2 <= Len(body)
  OBVIOUS
<1>5. Occurs(body, key, i)
        <=> i + 2 <= Len(body) /\ body[i] = Quote /\ body[i + 1] = x /\ body[i + 2] = Quote
  BY <1>2, <1>3, <1>4 DEF Occurs
<1> QED
  BY <1>2, <1>5 DEF key, y

\* ErrorIs, of any answer: e is its message, q where that ends.
Answer(body, e, q) ==
  /\ body \in Seq(Int) /\ Len(body) = q + 9
  /\ body[1] = 123 /\ body[2] = Quote /\ body[3] = 109 /\ body[4] = Quote
  /\ body[5] = Colon /\ body[6] = Quote
  /\ \A i \in 1 .. Len(e) : body[6 + i] = e[i]
  /\ body[q] = Quote /\ body[q + 1] = 44
  /\ body[q + 2] = Quote /\ body[q + 3] = 99 /\ body[q + 4] = Quote
  /\ body[q + 5] = Colon
  /\ body[q + 6] = Quote /\ body[q + 7] = 88 /\ body[q + 8] = Quote

\* The key of the code is found at its place or, where a message ends in an escaped
\* quote and a c, at the end of the message: which is as good.
LEMMA CodeKeyFound ==
  ASSUME input \in Seq(0 .. 255), NEW body, NEW q \in Nat, q = Len(JsonEscape(input)) + 7,
         Answer(body, JsonEscape(input), q)
  PROVE  LET found == After(body, Quoted(<<99>>), 1) IN found = q + 1 \/ found = q + 5
<1> DEFINE e == JsonEscape(input)   key == Quoted(<<99>>)
           Here(i) == Occurs(body, key, i)
           T == {i \in Nat \ {0} : Here(i)}
<1>1. e \in Seq(Int) /\ body \in Seq(Int) /\ Len(body) = q + 9 /\ Len(e) \in Nat
  BY EscapeIs DEF Answer
<1>2. /\ key \in Seq(Int) /\ Len(key) = 3
      /\ \A i \in Nat : Here(i) <=> /\ i + 2 <= Len(body) /\ body[i] = Quote
                                    /\ body[i + 1] = 99 /\ body[i + 2] = Quote
  <2>1. body \in Seq(Int) /\ 99 \in Int
    BY <1>1
  <2> QED
    BY ONLY <2>1, OccursKey
<1>3. q >= 7 /\ q + 2 \in Nat \ {0}
  BY <1>1
<1> HIDE DEF key, Here
<1>4. Here(q + 2)
  <2>1. body[q + 2] = Quote /\ body[q + 3] = 99 /\ body[q + 4] = Quote
    BY DEF Answer
  <2>2. (q + 2) + 1 = q + 3 /\ (q + 2) + 2 = q + 4 /\ (q + 2) + 2 <= Len(body) /\ q + 2 \in Nat
    BY <1>1, <1>3
  <2> QED
    BY <1>2, <2>1, <2>2
<1>5. PICK i \in T : \A j \in T : i <= j
  <2>1. T \subseteq Nat /\ T # {}
    BY <1>3, <1>4
  <2> HIDE DEF T
  <2> QED
    BY <2>1, Least
<1>6. i \in Nat \ {0} /\ i <= q + 2 /\ Here(i)
  BY <1>3, <1>4, <1>5
<1>7. body[i] = Quote /\ body[i + 1] = 99 /\ body[i + 2] = Quote
  BY <1>2, <1>6
<1>8. i >= 6
  <2>1. body[1] = 123 /\ body[3] = 109 /\ body[5] = Colon
    BY DEF Answer
  <2>2. i # 1 /\ i # 3 /\ i # 5
    BY <1>7, <2>1 DEF Quote, Colon
  <2>3. i # 2
    <3> SUFFICES ASSUME i = 2 PROVE FALSE
      OBVIOUS
    <3>1. i + 1 = 3
      OBVIOUS
    <3> QED
      BY <1>7, <2>1, <3>1
  <2>4. i # 4
    <3> SUFFICES ASSUME i = 4 PROVE FALSE
      OBVIOUS
    <3>1. i + 1 = 5
      OBVIOUS
    <3> QED
      BY <1>7, <2>1, <3>1 DEF Colon
  <2> QED
    BY <1>6, <2>2, <2>3, <2>4
<1>9. ~(i + 2 < q)
  <2> SUFFICES ASSUME i + 2 < q PROVE FALSE
    OBVIOUS
  <2> DEFINE j == i - 4   l == j - 1
  <2>1. j \in 1 .. Len(e) /\ l \in 1 .. Len(e) /\ 6 + j = i + 2 /\ 6 + l = i + 1
    <3> DEFINE n == Len(e)
    <3>1. n \in Nat /\ q = n + 7
      BY <1>1
    <3> HIDE DEF n
    <3>2. j \in 1 .. n /\ l \in 1 .. n /\ 6 + j = i + 2 /\ 6 + l = i + 1
      BY <1>6, <1>8, <3>1
    <3> QED
      BY <3>2 DEF n
  <2> HIDE DEF j
  <2>2. \A k \in 1 .. Len(e) : body[6 + k] = e[k]
    BY DEF Answer
  <2>3. e[j] = Quote /\ e[l] = 99
    BY <1>7, <2>1, <2>2
  <2>4. e[j - 1] = Backslash
    BY <2>1, <2>3, QuotesEscaped
  <2> QED
    BY <2>3, <2>4 DEF Backslash
<1>10. i # q - 1 /\ i # q /\ i # q + 1
  <2>1. body[q] = Quote /\ body[q + 1] = 44
    BY DEF Answer
  <2>2. i # q + 1
    BY <1>7, <2>1 DEF Quote
  <2>3. i # q
    BY <1>7, <2>1
  <2>4. i # q - 1
    <3> SUFFICES ASSUME i = q - 1 PROVE FALSE
      OBVIOUS
    <3>1. i + 1 = q
      OBVIOUS
    <3> QED
      BY <1>7, <2>1, <3>1 DEF Quote
  <2> QED
    BY <2>2, <2>3, <2>4
<1>11. i = q - 2 \/ i = q + 2
  <2>1. i \in Nat /\ i <= q + 2 /\ q \in Nat
    BY <1>6
  <2> QED
    BY ONLY <1>9, <1>10, <2>1
<1>12. After(body, key, 1) = i + 3
  <2>1. \A j \in 1 .. i - 1 : ~Occurs(body, key, j)
    <3> TAKE j \in 1 .. i - 1
    <3>1. j \in Nat \ {0} /\ ~(i <= j)
      BY <1>6
    <3> QED
      BY <1>5, <3>1 DEF Here
  <2>2. 1 \in Nat \ {0} /\ i \in Nat /\ i >= 1 /\ Occurs(body, key, i)
    BY <1>6 DEF Here
  <2>3. After(body, key, 1) = i + Len(key)
    <3>1. body \in Seq(Int) /\ key \in Seq(Int)
      BY <1>1, <1>2
    <3> QED
      BY ONLY <2>1, <2>2, <3>1, AfterIs
  <2> QED
    BY <1>2, <2>3
<1> QED
  BY <1>3, <1>6, <1>11, <1>12 DEF key

\* The code is found, whatever the message.
LEMMA CodeExtracted ==
  ASSUME input \in Seq(0 .. 255), NEW body, NEW q \in Nat, q = Len(JsonEscape(input)) + 7,
         Answer(body, JsonEscape(input), q)
  PROVE  ExtractJsonString(body, <<99>>) = <<88>>
<1> DEFINE found == After(body, Quoted(<<99>>), 1)
           value == After(body, <<Quote>>, After(body, <<Colon>>, found))
           t     == SubSeq(body, value, Len(body))
<1>1. body \in Seq(Int) /\ Len(body) = q + 9 /\ Quote \in Int /\ Colon \in Int /\ q >= 7
  <2>1. Len(JsonEscape(input)) \in Nat
    BY EscapeIs
  <2> QED
    BY <2>1 DEF Answer, Quote, Colon
<1>2. ExtractJsonString(body, <<99>>) = IF value = 0 THEN <<>> ELSE Copied(t)
  BY DEF ExtractJsonString
<1>3. found = q + 1 \/ found = q + 5
  BY CodeKeyFound
<1> HIDE DEF found
<1>4. After(body, <<Colon>>, found) = q + 6
  <2> DEFINE i == q + 5
  <2>0. body[i] = Colon
    BY DEF Answer
  <2>1. i \in Nat /\ i <= Len(body) /\ i >= found /\ found \in Nat \ {0}
    BY <1>1, <1>3
  <2>2. ASSUME NEW j \in found .. i - 1 PROVE body[j] # Colon
    <3>1. j = q + 1 \/ j = q + 2 \/ j = q + 3 \/ j = q + 4
      BY <1>3
    <3>2. /\ body[q + 1] = 44 /\ body[q + 2] = Quote /\ body[q + 3] = 99 /\ body[q + 4] = Quote
      BY DEF Answer
    <3> QED
      BY <3>1, <3>2 DEF Quote, Colon
  <2>3. i + 1 = q + 6
    OBVIOUS
  <2> HIDE DEF i
  <2>4. After(body, <<Colon>>, found) = i + 1
    <3>1. body \in Seq(Int) /\ Colon \in Int
      BY <1>1
    <3> QED
      BY ONLY <2>0, <2>1, <2>2, <3>1, AfterByte
  <2> QED
    BY <2>3, <2>4
<1>5. value = q + 7
  <2> DEFINE i == q + 6
  <2>0. body[i] = Quote
    BY DEF Answer
  <2>1. i \in Nat \ {0} /\ i <= Len(body) /\ i >= i /\ i \in Nat
    BY <1>1
  <2>2. \A j \in i .. i - 1 : body[j] # Quote
    BY <2>1
  <2>3. i + 1 = q + 7
    OBVIOUS
  <2> HIDE DEF i
  <2>4. After(body, <<Quote>>, i) = i + 1
    <3>1. body \in Seq(Int) /\ Quote \in Int
      BY <1>1
    <3> QED
      BY ONLY <2>0, <2>1, <2>2, <3>1, AfterByte
  <2> QED
    BY <1>4, <2>3, <2>4 DEF i
<1> HIDE DEF value
<1>6. t \in Seq(Int) /\ Len(t) = 3 /\ t[1] = 88 /\ t[2] = Quote
  <2> DEFINE i == q + 7   last == q + 9
  <2>1. i \in Int /\ last \in Int /\ (IF i <= last THEN last - i + 1 ELSE 0) = 3 /\ last - i + 1 = 3
        /\ 1 \in 1 .. last - i + 1 /\ 2 \in 1 .. last - i + 1
    OBVIOUS
  <2>2. \A j \in i .. last : body[j] \in Int
    <3>1. \A j \in i .. last : j \in 1 .. Len(body)
      BY <1>1
    <3> QED
      BY <1>1, <3>1
  <2>3. i + 1 - 1 = q + 7 /\ i + 2 - 1 = q + 8
    OBVIOUS
  <2>4. body[q + 7] = 88 /\ body[q + 8] = Quote
    BY DEF Answer
  <2>5. t = SubSeq(body, i, last)
    BY <1>1, <1>5
  <2> HIDE DEF i, last, t
  <2>6. /\ t \in Seq(Int) /\ Len(t) = (IF i <= last THEN last - i + 1 ELSE 0)
        /\ \A j \in 1 .. last - i + 1 : t[j] = body[i + j - 1]
    BY <2>1, <2>2, <2>5, SubSeqProperties
  <2>7. t[1] = body[i + 1 - 1] /\ t[2] = body[i + 2 - 1]
    BY <2>1, <2>6
  <2> QED
    BY <2>1, <2>3, <2>4, <2>6, <2>7
<1> HIDE DEF t
<1>7. Copied(t) = <<88>>
  <2>1. 88 \in Int /\ 88 \notin {Quote, Backslash} /\ Len(t) >= 2
    BY <1>6 DEF Quote, Backslash
  <2> QED
    BY <1>6, <2>1, CopiesOne
<1> QED
  BY <1>2, <1>5, <1>7

\* The message is read back.
LEMMA MessageExtracted ==
  ASSUME input \in Seq(0 .. 255), NEW body, NEW q \in Nat, q = Len(JsonEscape(input)) + 7,
         Answer(body, JsonEscape(input), q), \A i \in DOMAIN input : input[i] >= 32
  PROVE  ExtractJsonString(body, <<109>>) = input
<1> DEFINE e     == JsonEscape(input)
           found == After(body, Quoted(<<109>>), 1)
           value == After(body, <<Quote>>, After(body, <<Colon>>, found))
           t     == SubSeq(body, value, Len(body))
<1>1. /\ body \in Seq(Int) /\ Len(body) = q + 9 /\ Quote \in Int /\ Colon \in Int /\ q >= 7
      /\ e \in Seq(Int) /\ Len(e) \in Nat
  <2>1. Len(JsonEscape(input)) \in Nat /\ JsonEscape(input) \in Seq(Int)
    BY EscapeIs
  <2> QED
    BY <2>1 DEF Answer, Quote, Colon
<1>2. ExtractJsonString(body, <<109>>) = IF value = 0 THEN <<>> ELSE Copied(t)
  BY DEF ExtractJsonString
<1>3. /\ body[1] = 123 /\ body[2] = Quote /\ body[3] = 109 /\ body[4] = Quote
      /\ body[5] = Colon /\ body[6] = Quote /\ body[q] = Quote
      /\ \A i \in 1 .. Len(e) : body[6 + i] = e[i]
  BY DEF Answer
<1>4. found = 5
  <2> DEFINE key == Quoted(<<109>>)
  <2>1. /\ key \in Seq(Int) /\ Len(key) = 3
        /\ \A i \in Nat : Occurs(body, key, i) <=> /\ i + 2 <= Len(body) /\ body[i] = Quote
                                                   /\ body[i + 1] = 109 /\ body[i + 2] = Quote
    <3>1. body \in Seq(Int) /\ 109 \in Int
      BY <1>1
    <3> QED
      BY ONLY <3>1, OccursKey
  <2> HIDE DEF key
  <2>2. 2 + 1 = 3 /\ 2 + 2 = 4 /\ 2 + 2 <= Len(body) /\ 2 \in Nat /\ 1 \in Nat
    BY <1>1
  <2>3. Occurs(body, key, 2)
    BY <1>3, <2>1, <2>2
  <2>4. ~Occurs(body, key, 1)
    BY <1>3, <2>1, <2>2 DEF Quote
  <2>5. \A j \in 1 .. 2 - 1 : ~Occurs(body, key, j)
    <3>1. \A j \in 1 .. 2 - 1 : j = 1
      OBVIOUS
    <3> QED
      BY <2>4, <3>1
  <2>6. After(body, key, 1) = 2 + Len(key)
    <3>1. 1 \in Nat \ {0} /\ 2 \in Nat /\ 2 >= 1
      OBVIOUS
    <3>2. body \in Seq(Int) /\ key \in Seq(Int)
      BY <1>1, <2>1
    <3> QED
      BY ONLY <2>3, <2>5, <3>1, <3>2, AfterIs
  <2>7. After(body, key, 1) = 5
    <3>1. Len(key) = 3 /\ 2 + 3 = 5
      BY <2>1
    <3> QED
      BY ONLY <2>6, <3>1
  <2> QED
    BY <2>7 DEF key
<1> HIDE DEF found
<1>5. After(body, <<Colon>>, found) = 6
  <2>1. 5 \in Nat /\ 5 \in Nat \ {0} /\ 5 >= 5 /\ 5 <= Len(body) /\ 5 + 1 = 6 /\ \A j \in 5 .. 5 - 1 : FALSE
    BY <1>1
  <2>2. After(body, <<Colon>>, 5) = 5 + 1
    <3>1. body \in Seq(Int) /\ Colon \in Int /\ body[5] = Colon
      BY <1>1, <1>3
    <3>2. \A j \in 5 .. 5 - 1 : body[j] # Colon
      BY <2>1
    <3> QED
      BY ONLY <2>1, <3>1, <3>2, AfterByte
  <2> QED
    BY <1>4, <2>1, <2>2
<1>6. value = 7
  <2>1. 6 \in Nat /\ 6 \in Nat \ {0} /\ 6 >= 6 /\ 6 <= Len(body) /\ 6 + 1 = 7 /\ \A j \in 6 .. 6 - 1 : FALSE
    BY <1>1
  <2>2. After(body, <<Quote>>, 6) = 6 + 1
    <3>1. body \in Seq(Int) /\ Quote \in Int /\ body[6] = Quote
      BY <1>1, <1>3
    <3>2. \A j \in 6 .. 6 - 1 : body[j] # Quote
      BY <2>1
    <3> QED
      BY ONLY <2>1, <3>1, <3>2, AfterByte
  <2> QED
    BY <1>5, <2>1, <2>2
<1> HIDE DEF value, e
<1>7. t \in Seq(Int) /\ Len(t) = q + 3 /\ \A i \in 1 .. q + 3 : t[i] = body[6 + i]
  <2> DEFINE first == 7   last == q + 9
  <2>1. first \in Int /\ last \in Int /\ (IF first <= last THEN last - first + 1 ELSE 0) = q + 3
        /\ last - first + 1 = q + 3 /\ \A j \in 1 .. q + 3 : first + j - 1 = 6 + j
    OBVIOUS
  <2>2. \A j \in first .. last : body[j] \in Int
    <3>1. \A j \in first .. last : j \in 1 .. Len(body)
      BY <1>1
    <3> QED
      BY <1>1, <3>1
  <2>3. t = SubSeq(body, first, last)
    BY <1>1, <1>6
  <2> HIDE DEF first, last, t
  <2>4. /\ t \in Seq(Int) /\ Len(t) = (IF first <= last THEN last - first + 1 ELSE 0)
        /\ \A j \in 1 .. last - first + 1 : t[j] = body[first + j - 1]
    BY <2>1, <2>2, <2>3, SubSeqProperties
  <2> QED
    BY <2>1, <2>4
<1> HIDE DEF t
<1>8. Continues(t, e)
  <2> DEFINE n == Len(e)
  <2>1. n \in Nat /\ q = n + 7
    BY <1>1 DEF e
  <2> HIDE DEF n
  <2>2. Len(t) > n /\ n + 1 \in 1 .. q + 3 /\ 6 + (n + 1) = q
    BY <1>7, <2>1
  <2>3. t[n + 1] = Quote
    <3>1. t[n + 1] = body[6 + (n + 1)]
      BY <1>7, <2>2
    <3> QED
      BY <1>3, <2>2, <3>1
  <2>4. ASSUME NEW i \in 1 .. n PROVE t[i] = e[i]
    <3>1. i \in 1 .. q + 3
      BY <2>1
    <3>2. t[i] = body[6 + i]
      BY <1>7, <3>1
    <3>3. body[6 + i] = e[i]
      BY <1>3 DEF n
    <3> QED
      BY <3>2, <3>3
  <2> QED
    BY <2>2, <2>3, <2>4 DEF Continues, n
<1>9. Copied(t) = input
  BY <1>7, <1>8, CopiesOn DEF e
<1> QED
  BY <1>2, <1>6, <1>9

\* What extractJsonString makes of an error answer.
LEMMA ExtractIsReadBack ==
  ASSUME input \in Seq(0 .. 255)
  PROVE  ExtractReadsBack
<1> DEFINE e == JsonEscape(input)   body == Error(e, <<88>>)   q == Len(e) + 7
<1>1. e \in Seq(Int) /\ q \in Nat
  BY EscapeIs
<1>2. Answer(body, e, q)
  <2> HIDE DEF e
  <2> QED
    BY <1>1, ErrorIs DEF Answer
<1> HIDE DEF body
<1>3. ExtractJsonString(body, <<99>>) = <<88>>
  BY <1>1, <1>2, CodeExtracted
<1>4. (\A i \in DOMAIN input : input[i] >= 32) => ExtractJsonString(body, <<109>>) = input
  BY <1>1, <1>2, MessageExtracted
<1> QED
  BY <1>3, <1>4 DEF ExtractReadsBack, body

-----------------------------------------------------------------------------
(* Text: base64. Three octets a, b and c are written as four digits:       *)
(* a \div 4, 16 * (a % 4) + b \div 16, 4 * (b % 16) + c \div 64, c % 64.   *)

Triple(a, b, c) == 65536 * a + 256 * b + c

\* Each digit of a group depends on two octets at most.
Split(a, b, c, t) ==
  /\ t \div 262144 = a \div 4
  /\ (t \div 4096) % 64 = 16 * (a % 4) + (b \div 16)
  /\ (t \div 64) % 64 = 4 * (b % 16) + (c \div 64)
  /\ t % 64 = c % 64

LEMMA Sextets ==
  ASSUME NEW a \in 0 .. 255, NEW b \in 0 .. 255, NEW c \in 0 .. 255
  PROVE  Split(a, b, c, Triple(a, b, c))
<1> DEFINE t == Triple(a, b, c)
<1>0. t = 65536 * a + 256 * b + c
  BY DEF Triple
<1>1. /\ a = 4 * (a \div 4) + (a % 4) /\ a \div 4 \in 0 .. 63 /\ a % 4 \in 0 .. 3
      /\ b = 16 * (b \div 16) + (b % 16) /\ b \div 16 \in 0 .. 15 /\ b % 16 \in 0 .. 15
      /\ c = 64 * (c \div 64) + (c % 64) /\ c \div 64 \in 0 .. 3 /\ c % 64 \in 0 .. 63
  OBVIOUS
<1> DEFINE a1 == a \div 4    a0 == a % 4
           b1 == b \div 16   b0 == b % 16
           c1 == c \div 64   c0 == c % 64
<1>2. /\ a = 4 * a1 + a0 /\ a1 \in 0 .. 63 /\ a0 \in 0 .. 3
      /\ b = 16 * b1 + b0 /\ b1 \in 0 .. 15 /\ b0 \in 0 .. 15
      /\ c = 64 * c1 + c0 /\ c1 \in 0 .. 3 /\ c0 \in 0 .. 63
  BY <1>1
<1> HIDE DEF a1, a0, b1, b0, c1, c0, t
<1>3. t \div 262144 = a1
  <2> DEFINE v == 65536 * a0 + 256 * b + c
  <2>1. v \in Nat /\ v < 262144
    BY <1>2
  <2>2. t = 262144 * a1 + v
    <3>1. 65536 * a = 262144 * a1 + 65536 * a0 /\ a1 \in Nat /\ a0 \in Nat
      BY <1>0, <1>2
    <3> QED
      BY <1>0, <3>1
  <2> HIDE DEF v
  <2> QED
    BY <1>2, <2>1, <2>2
<1>4. (t \div 4096) % 64 = 16 * a0 + b1
  <2>1. /\ t = 4096 * (64 * a1 + (16 * a0 + b1)) + (256 * b0 + c)
        /\ 256 * b0 + c \in 0 .. 4095 /\ 16 * a0 + b1 \in 0 .. 63
    BY <1>0, <1>2
  <2>2. t \div 4096 = 64 * a1 + (16 * a0 + b1)
    BY <1>2, <2>1
  <2> QED
    BY <1>2, <2>1, <2>2
<1>5. (t \div 64) % 64 = 4 * b0 + c1
  <2> DEFINE u == 16 * a + b1   v == 4 * b0 + c1
  <2>1. u \in Nat /\ v \in 0 .. 63
    BY <1>2
  <2>2. t = 64 * (64 * u + v) + c0
    BY <1>0, <1>2
  <2> HIDE DEF u, v
  <2>3. t \div 64 = 64 * u + v
    BY <1>2, <2>1, <2>2
  <2>4. (64 * u + v) % 64 = v
    BY <2>1
  <2> QED
    BY <2>3, <2>4 DEF v
<1>6. t % 64 = c0
  <2>1. t = 64 * (1024 * a + 4 * b + c1) + c0
    BY <1>0, <1>2
  <2> QED
    BY <1>2, <2>1
<1> QED
  BY <1>3, <1>4, <1>5, <1>6 DEF Split, t, a1, a0, b1, b0, c1, c0

\* An octet of a string, 0 past its end.
LEMMA OctetIs ==
  ASSUME NEW s, s \in Seq(0 .. 255), NEW i \in Nat \ {0}
  PROVE  /\ Octet(s, i) \in 0 .. 255
         /\ i <= Len(s) => Octet(s, i) = s[i]
         /\ i > Len(s) => Octet(s, i) = 0
<1>1. Len(s) \in Nat /\ \A k \in 1 .. Len(s) : s[k] \in 0 .. 255
  BY LenProperties, ElementOfSeq
<1> QED
  BY <1>1 DEF Octet

\* The digits of the octets a, b and c, padding of them missing.
DigitsOf(d, a, b, c, padding) ==
  /\ d[1] = a \div 4
  /\ d[2] = 16 * (a % 4) + (b \div 16)
  /\ d[3] = IF padding = 2 THEN 64 ELSE 4 * (b % 16) + (c \div 64)
  /\ d[4] = IF padding # 0 THEN 64 ELSE c % 64

\* The digits of a group.
LEMMA GroupIs ==
  ASSUME NEW s \in Seq(0 .. 255), NEW i \in 1 .. Len(s)
  PROVE  DigitsOf(Group(s, i), s[i], Octet(s, i + 1), Octet(s, i + 2), Padding(i, Len(s)))
<1> DEFINE a == Octet(s, i)   b == Octet(s, i + 1)   c == Octet(s, i + 2)
           p == Padding(i, Len(s))
           t == Triple(a, b, c)
           digits == <<t \div 262144, (t \div 4096) % 64, (t \div 64) % 64, t % 64>>
<1>1. a \in 0 .. 255 /\ b \in 0 .. 255 /\ c \in 0 .. 255 /\ a = s[i]
  <2>1. i \in Nat \ {0} /\ i + 1 \in Nat \ {0} /\ i + 2 \in Nat \ {0} /\ i <= Len(s)
    OBVIOUS
  <2> QED
    BY <2>1, OctetIs
<1>2. p \in 0 .. 2
  BY DEF Padding
<1>3. Group(s, i) = [k \in 1 .. 4 |-> IF k > 4 - p THEN 64 ELSE digits[k]]
  BY DEF Group, Triple
<1>4. /\ digits[1] = a \div 4
      /\ digits[2] = 16 * (a % 4) + (b \div 16)
      /\ digits[3] = 4 * (b % 16) + (c \div 64)
      /\ digits[4] = c % 64
  <2> HIDE DEF a, b, c, t
  <2>1. Split(a, b, c, t)
    BY <1>1, Sextets DEF t
  <2> QED
    BY <2>1 DEF Split
<1> HIDE DEF a, b, c, p, digits
<1>5. /\ Group(s, i)[1] = digits[1] /\ Group(s, i)[2] = digits[2]
      /\ Group(s, i)[3] = IF p = 2 THEN 64 ELSE digits[3]
      /\ Group(s, i)[4] = IF p # 0 THEN 64 ELSE digits[4]
  BY <1>2, <1>3
<1> QED
  BY <1>1, <1>4, <1>5 DEF DigitsOf, a, b, c, p

\* The octets that are not missing.
Present(a, b, c, padding) ==
  IF padding = 2 THEN <<a>> ELSE IF padding = 1 THEN <<a, b>> ELSE <<a, b, c>>

IsPresent(octets, a, b, c, padding) ==
  /\ octets \in Seq(Int) /\ Len(octets) = 3 - padding
  /\ \A j \in 1 .. 3 - padding : octets[j] = IF j = 1 THEN a ELSE IF j = 2 THEN b ELSE c

\* How many octets those are, and which.
LEMMA PresentIs ==
  ASSUME NEW a \in Int, NEW b \in Int, NEW c \in Int, NEW padding \in 0 .. 2
  PROVE  IsPresent(Present(a, b, c, padding), a, b, c, padding)
<1>1. CASE padding = 2
  <2>1. Present(a, b, c, padding) = <<a>> /\ 3 - padding = 1
    BY <1>1 DEF Present
  <2>2. <<a>> \in Seq(Int) /\ Len(<<a>>) = 1 /\ <<a>>[1] = a /\ \A j \in 1 .. 1 : j = 1
    OBVIOUS
  <2> QED
    BY <2>1, <2>2 DEF IsPresent
<1>2. CASE padding = 1
  <2>1. Present(a, b, c, padding) = <<a, b>> /\ 3 - padding = 2
    BY <1>2 DEF Present
  <2>2. /\ <<a, b>> \in Seq(Int) /\ Len(<<a, b>>) = 2 /\ <<a, b>>[1] = a /\ <<a, b>>[2] = b
        /\ \A j \in 1 .. 2 : j = 1 \/ j = 2
    OBVIOUS
  <2> QED
    BY <2>1, <2>2 DEF IsPresent
<1>3. CASE padding = 0
  <2>1. Present(a, b, c, padding) = <<a, b, c>> /\ 3 - padding = 3
    BY <1>3 DEF Present
  <2>2. /\ <<a, b, c>> \in Seq(Int) /\ Len(<<a, b, c>>) = 3
        /\ <<a, b, c>>[1] = a /\ <<a, b, c>>[2] = b /\ <<a, b, c>>[3] = c
        /\ \A j \in 1 .. 3 : j = 1 \/ j = 2 \/ j = 3
    OBVIOUS
  <2> QED
    BY <2>1, <2>2 DEF IsPresent
<1> QED
  BY <1>1, <1>2, <1>3

DigitsAt(d, q, digits) ==
  d[q] = digits[1] /\ d[q + 1] = digits[2] /\ d[q + 2] = digits[3] /\ d[q + 3] = digits[4]

\* Missing octets are written as 0.
WrittenFor(d, q, a, b, c, padding) ==
  /\ a \in 0 .. 255 /\ b \in 0 .. 255 /\ c \in 0 .. 255 /\ q \in Nat
  /\ padding \in 0 .. 2 /\ (padding # 0 => c = 0) /\ (padding = 2 => b = 0)
  /\ \E digits : DigitsOf(digits, a, b, c, padding) /\ DigitsAt(d, q, digits)

\* Four digits d[q] .. d[q + 3] are read as the octets they were written for.
LEMMA OctetsAre ==
  ASSUME NEW a, NEW b, NEW c, NEW padding, NEW d, NEW q, WrittenFor(d, q, a, b, c, padding)
  PROVE  Octets(d, q) = Present(a, b, c, padding)
<1> DEFINE a1 == a \div 4    a0 == a % 4
           b1 == b \div 16   b0 == b % 16
           c1 == c \div 64   c0 == c % 64
           first  == 4 * d[q] + (d[q + 1] \div 16)
           second == 16 * (d[q + 1] % 16) + (d[q + 2] \div 4)
           third  == 64 * (d[q + 2] % 4) + d[q + 3]
<1>0. /\ a \in 0 .. 255 /\ b \in 0 .. 255 /\ c \in 0 .. 255 /\ q \in Nat
      /\ padding \in 0 .. 2 /\ (padding # 0 => c = 0) /\ (padding = 2 => b = 0)
  BY DEF WrittenFor
<1>1. /\ a = 4 * a1 + a0 /\ a1 \in 0 .. 63 /\ a0 \in 0 .. 3
      /\ b = 16 * b1 + b0 /\ b1 \in 0 .. 15 /\ b0 \in 0 .. 15
      /\ c = 64 * c1 + c0 /\ c1 \in 0 .. 3 /\ c0 \in 0 .. 63
  BY <1>0
<1>2. /\ d[q] = a1 /\ d[q + 1] = 16 * a0 + b1
      /\ d[q + 2] = IF padding = 2 THEN 64 ELSE 4 * b0 + c1
      /\ d[q + 3] = IF padding # 0 THEN 64 ELSE c0
  BY DEF WrittenFor, DigitsOf, DigitsAt
<1>3. Octets(d, q) =
        IF d[q + 2] = 64 THEN (IF d[q + 1] % 16 = 0 /\ d[q + 3] = 64 THEN <<first>> ELSE <<256>>)
        ELSE IF d[q + 3] = 64 THEN (IF d[q + 2] % 4 = 0 THEN <<first, second>> ELSE <<256>>)
        ELSE <<first, second, third>>
  BY DEF Octets
<1>4. b = 0 => b1 = 0 /\ b0 = 0
  OBVIOUS
<1>5. c = 0 => c1 = 0 /\ c0 = 0
  OBVIOUS
<1> HIDE DEF a1, a0, b1, b0, c1, c0
<1>6. (16 * a0 + b1) \div 16 = a0 /\ (16 * a0 + b1) % 16 = b1
  BY <1>1
<1>7. (4 * b0 + c1) \div 4 = b0 /\ (4 * b0 + c1) % 4 = c1 /\ 4 * b0 + c1 # 64
  BY <1>1
<1>8. first = a
  BY <1>1, <1>2, <1>6
<1>9. padding # 2 => second = b
  BY <1>1, <1>2, <1>6, <1>7
<1>10. padding = 0 => third = c
  BY <1>1, <1>2, <1>7
<1> HIDE DEF first, second, third
<1>11. CASE padding = 2
  <2>1. d[q + 2] = 64 /\ d[q + 3] = 64
    BY <1>2, <1>11
  <2>2. d[q + 1] % 16 = 0
    BY <1>0, <1>2, <1>4, <1>6, <1>11
  <2> QED
    BY <1>3, <1>8, <1>11, <2>1, <2>2 DEF Present
<1>12. CASE padding = 1
  <2>1. d[q + 2] # 64 /\ d[q + 3] = 64
    BY <1>2, <1>7, <1>12
  <2>2. d[q + 2] % 4 = 0
    BY <1>0, <1>2, <1>5, <1>7, <1>12
  <2> QED
    BY <1>3, <1>8, <1>9, <1>12, <2>1, <2>2 DEF Present
<1>13. CASE padding = 0
  <2>1. d[q + 2] # 64 /\ d[q + 3] # 64
    BY <1>1, <1>2, <1>7, <1>13
  <2> QED
    BY <1>3, <1>8, <1>9, <1>10, <1>13, <2>1 DEF Present
<1> QED
  BY <1>0, <1>11, <1>12, <1>13

\* The group of an octet, and the octets of a group.
LEMMA Thirds ==
  ASSUME NEW n \in Nat, NEW groups, groups = (n + 2) \div 3
  PROVE  /\ groups \in Nat /\ n <= 3 * groups
         /\ \A g \in 1 .. groups : 3 * g - 2 \in 1 .. n
         /\ \A i \in 1 .. n : (i + 2) \div 3 \in 1 .. groups
<1>1. groups \in Nat /\ 3 * groups <= n + 2 /\ n + 2 < 3 * groups + 3
  OBVIOUS
<1>2. ASSUME NEW i \in 1 .. n PROVE (i + 2) \div 3 \in 1 .. groups
  <2> DEFINE g == (i + 2) \div 3
  <2>1. g \in Nat /\ 3 * g <= i + 2 /\ i + 2 < 3 * g + 3
    OBVIOUS
  <2> HIDE DEF g
  <2> QED
    BY <1>1, <2>1 DEF g
<1> QED
  BY <1>1, <1>2

\* Group g of the encoding.
LEMMA GroupAt ==
  ASSUME NEW s \in Seq(0 .. 255), NEW g \in 1 .. (Len(s) + 2) \div 3
  PROVE  \A k \in 1 .. 4 : Base64Encode(s)[(4 * g - 3) + (k - 1)] = Group(s, 3 * g - 2)[k]
<1> DEFINE groups == (Len(s) + 2) \div 3
<1>1. groups \in Nat /\ g \in 1 .. groups
  BY LenProperties
<1>2. Base64Encode(s) =
        [n \in 1 .. 4 * groups |-> Group(s, 1 + 3 * ((n - 1) \div 4))[((n - 1) % 4) + 1]]
  BY DEF Base64Encode
<1> HIDE DEF groups
<1> TAKE k \in 1 .. 4
<1> DEFINE n == (4 * g - 3) + (k - 1)
<1>3. n \in 1 .. 4 * groups /\ n - 1 = 4 * (g - 1) + (k - 1)
  BY <1>1
<1>4. (n - 1) \div 4 = g - 1 /\ (n - 1) % 4 = k - 1
  <2> DEFINE h == g - 1   j == k - 1
  <2>1. h \in Nat /\ j \in 0 .. 3 /\ n - 1 = 4 * h + j
    BY <1>1, <1>3
  <2> HIDE DEF h, j, n
  <2>2. (4 * h + j) \div 4 = h /\ (4 * h + j) % 4 = j
    BY <2>1, SMTT(30)
  <2>3. (n - 1) \div 4 = h /\ (n - 1) % 4 = j
    BY <2>1, <2>2
  <2> QED
    BY <2>3 DEF h, j
<1>5. 1 + 3 * (g - 1) = 3 * g - 2 /\ (k - 1) + 1 = k
  BY <1>1
<1> HIDE DEF n
<1>6. Base64Encode(s)[n] = Group(s, 1 + 3 * ((n - 1) \div 4))[((n - 1) % 4) + 1]
  BY <1>2, <1>3
<1> QED
  BY <1>4, <1>5, <1>6 DEF n

\* What the decoder makes of group g: the octets the group was made of.
LEMMA GroupRead ==
  ASSUME NEW s \in Seq(0 .. 255), NEW g \in 1 .. (Len(s) + 2) \div 3, NEW c,
         c = Octets(Base64Encode(s), 4 * g - 3)
  PROVE  /\ c \in Seq(Int)
         /\ Len(c) = IF 3 * g <= Len(s) THEN 3 ELSE Len(s) - (3 * g - 3)
         /\ \A j \in 1 .. Len(c) : c[j] = s[(3 * g - 2) + (j - 1)]
<1> DEFINE len == Len(s)   i == 3 * g - 2   q == 4 * g - 3
           padding == Padding(i, len)
           one == s[i]   two == Octet(s, i + 1)   three == Octet(s, i + 2)
           d == Base64Encode(s)   digits == Group(s, i)
<1>1. len \in Nat /\ g \in Nat \ {0} /\ q \in Nat /\ i \in 1 .. len
  <2>1. len \in Nat
    BY LenProperties
  <2> HIDE DEF len
  <2>2. g \in 1 .. (len + 2) \div 3 /\ (len + 2) \div 3 \in Nat
    BY <2>1 DEF len
  <2>3. 3 * g - 2 \in 1 .. len
    BY <2>1, <2>2, Thirds
  <2> QED
    BY <2>1, <2>2, <2>3
<1>2. /\ one \in 0 .. 255 /\ two \in 0 .. 255 /\ three \in 0 .. 255
      /\ i + 1 <= len => two = s[i + 1]
      /\ i + 2 <= len => three = s[i + 2]
      /\ i + 1 > len => two = 0
      /\ i + 2 > len => three = 0
  <2>1. one \in 0 .. 255
    BY <1>1, ElementOfSeq
  <2>2. i + 1 \in Nat \ {0} /\ i + 2 \in Nat \ {0}
    BY <1>1
  <2> HIDE DEF i
  <2> QED
    BY <2>1, <2>2, OctetIs
<1>3. padding = IF i + 1 > len THEN 2 ELSE IF i + 2 > len THEN 1 ELSE 0
  BY DEF Padding
<1>4. DigitsOf(digits, one, two, three, padding)
  <2> HIDE DEF i
  <2> QED
    BY <1>1, GroupIs
<1>5. DigitsAt(d, q, digits)
  <2>1. \A k \in 1 .. 4 : d[q + (k - 1)] = digits[k]
    BY GroupAt
  <2>2. q + (1 - 1) = q /\ q + (2 - 1) = q + 1 /\ q + (3 - 1) = q + 2 /\ q + (4 - 1) = q + 3
    BY <1>1
  <2> HIDE DEF q, d, digits
  <2>3. 1 \in 1 .. 4 /\ 2 \in 1 .. 4 /\ 3 \in 1 .. 4 /\ 4 \in 1 .. 4
    OBVIOUS
  <2> QED
    BY <2>1, <2>2, <2>3 DEF DigitsAt
<1>6. c = Octets(d, q)
  OBVIOUS
<1>7. Len(s) = len /\ 3 * g = i + 2 /\ 3 * g - 3 = i - 1 /\ 3 * g - 2 = i
  BY <1>1
<1> HIDE DEF len, i, q, padding, one, two, three, d, digits
<1>8. c = Present(one, two, three, padding)
  <2>1. WrittenFor(d, q, one, two, three, padding)
    BY <1>1, <1>2, <1>3, <1>4, <1>5 DEF WrittenFor
  <2> QED
    BY ONLY <1>6, <2>1, OctetsAre
<1>9. s[i + (1 - 1)] = one /\ i + (2 - 1) = i + 1 /\ i + (3 - 1) = i + 2
  BY <1>1 DEF one
<1>10. one \in Int /\ two \in Int /\ three \in Int
  BY <1>2
<1>11. IsPresent(c, one, two, three, padding) /\ padding \in 0 .. 2
  <2>1. padding \in 0 .. 2
    BY <1>3
  <2> QED
    BY ONLY <1>8, <1>10, <2>1, PresentIs
<1>12. /\ c \in Seq(Int)
       /\ Len(c) = IF i + 2 <= len THEN 3 ELSE len - (i - 1)
       /\ \A j \in 1 .. Len(c) : c[j] = s[i + (j - 1)]
  <2>1. Len(c) = IF i + 2 <= len THEN 3 ELSE len - (i - 1)
    BY <1>1, <1>3, <1>11 DEF IsPresent
  <2>2. ASSUME NEW j \in 1 .. Len(c) PROVE c[j] = s[i + (j - 1)]
    <3>1. j \in 1 .. 3 - padding
      BY <1>11 DEF IsPresent
    <3>2. j = 1 \/ (j = 2 /\ i + 1 <= len) \/ (j = 3 /\ i + 2 <= len)
      BY <1>1, <1>3, <3>1
    <3> QED
      BY <1>2, <1>9, <1>11, <3>1, <3>2 DEF IsPresent
  <2> QED
    BY <1>11, <2>1, <2>2 DEF IsPresent
<1> QED
  BY <1>7, <1>12

\* Decoding puts the octets of all groups one after the other.
LEMMA Base64IsReadBack ==
  ASSUME input \in Seq(0 .. 255)
  PROVE  Base64ReadsBack
<1> DEFINE n      == Len(input)
           groups == (n + 2) \div 3
           d      == Base64Encode(input)
           octets(g) == Octets(d, 4 * g - 3)
           chunks == [g \in 1 .. groups |-> octets(g)]
           flat   == FlattenSeq(chunks)
<1>1. n \in Nat /\ DOMAIN input = 1 .. n /\ input \in Seq(Int)
  BY InputIs
<1>2. /\ groups \in Nat /\ n <= 3 * groups
      /\ \A g \in 1 .. groups : 3 * g - 2 \in 1 .. n
      /\ \A i \in 1 .. n : (i + 2) \div 3 \in 1 .. groups
  <2> HIDE DEF n
  <2> QED
    BY <1>1, Thirds
<1>3. /\ \A g \in 1 .. groups : octets(g) \in Seq(Int)
      /\ \A g \in 1 .. groups : Len(octets(g)) = IF 3 * g <= n THEN 3 ELSE n - (3 * g - 3)
      /\ \A g \in 1 .. groups : \A j \in 1 .. Len(octets(g)) :
           octets(g)[j] = input[(3 * g - 2) + (j - 1)]
  BY GroupRead
<1>4. Len(d) = 4 * groups /\ Len(d) % 4 = 0 /\ Len(d) \div 4 = groups
  <2>1. \E f : d = [k \in 1 .. 4 * groups |-> f[k]]
    <3> DEFINE f == [k \in 1 .. 4 * groups |-> Group(input, 1 + 3 * ((k - 1) \div 4))[((k - 1) % 4) + 1]]
    <3>1. d = [k \in 1 .. 4 * groups |-> f[k]]
      BY DEF Base64Encode
    <3> QED
      BY <3>1
  <2> HIDE DEF groups, d
  <2>2. Len(d) = 4 * groups
    BY <1>2, <2>1
  <2> QED
    BY <1>2, <2>2
<1>5. Base64Decode(d) = flat
  BY <1>4 DEF Base64Decode
<1> HIDE DEF n, groups, d, octets
<1>6. chunks \in Seq(Seq(Int)) /\ Len(chunks) = groups /\ \A g \in 1 .. groups : chunks[g] = octets(g)
  <2>1. groups \in Nat /\ \A g \in 1 .. groups : octets(g) \in Seq(Int)
    BY <1>2, <1>3
  <2>2. chunks = [g \in 1 .. groups |-> octets(g)]
    OBVIOUS
  <2> QED
    BY ONLY <2>1, <2>2
<1> HIDE DEF chunks
<1>7. flat \in Seq(Int) /\ \E at : Located(at, chunks, flat)
  BY <1>6, FlattenLocated
<1>8. chunks \in Chunks
  BY <1>6 DEF Chunks
<1> HIDE DEF flat
<1>9. PICK at : Located(at, chunks, flat)
  BY <1>7
<1> DEFINE End(g) == IF 3 * g <= n THEN 3 * g + 1 ELSE n + 1
           G == {g \in Nat : g <= groups => at[g] = End(g)}
<1>10. 0 \in G
  BY <1>1, <1>9 DEF Located
<1>11. ASSUME NEW g \in G PROVE g + 1 \in G
  <2> SUFFICES ASSUME g + 1 <= groups PROVE at[g + 1] = End(g + 1)
    OBVIOUS
  <2>1. g \in Nat /\ g + 1 \in 1 .. groups /\ g <= groups /\ (g + 1) - 1 = g
    BY <1>2
  <2>2. at[g] = End(g)
    BY <2>1
  <2>3. 3 * (g + 1) - 2 \in 1 .. n
    BY <1>2, <2>1
  <2>4. at[g + 1] = at[g] + Len(chunks[g + 1])
    BY <1>6, <1>9, <2>1 DEF Located
  <2>5. Len(chunks[g + 1]) = IF 3 * (g + 1) <= n THEN 3 ELSE n - (3 * (g + 1) - 3)
    BY <1>3, <1>6, <2>1
  <2> HIDE DEF G
  <2> QED
    BY <1>1, <2>1, <2>2, <2>3, <2>4, <2>5
<1>12. \A g \in 0 .. groups : at[g] = End(g)
  <2>1. G \subseteq Nat
    OBVIOUS
  <2> HIDE DEF G
  <2>2. \A g \in Nat : g \in G
    BY <1>10, <1>11, <2>1, NatSetInduction
  <2> QED
    BY <1>2, <2>2 DEF G
<1>13. Len(flat) = n
  <2>1. at[groups] = Len(flat) + 1 /\ Len(flat) \in Nat
    BY <1>6, <1>7, <1>9 DEF Located
  <2>2. groups \in 0 .. groups /\ at[groups] = End(groups)
    BY <1>2, <1>12
  <2> QED
    BY <1>1, <1>2, <2>1, <2>2
<1>14. ASSUME NEW i \in 1 .. n PROVE flat[i] = input[i]
  <2> DEFINE g == (i + 2) \div 3   j == i - (3 * g - 3)
  <2>1. g \in 1 .. groups
    BY <1>2
  <2>2. g \in Nat /\ 3 * g <= i + 2 /\ i + 2 < 3 * g + 3
    BY <1>1
  <2> HIDE DEF g
  <2>3. j \in 1 .. 3 /\ i = (3 * g - 2) + (j - 1)
    BY <1>1, <2>2
  <2>4. g - 1 \in 0 .. groups /\ at[g - 1] = 3 * g - 2
    <3>1. 3 * g - 2 \in 1 .. n /\ g - 1 \in 0 .. groups
      BY <1>2, <2>1
    <3>2. at[g - 1] = End(g - 1)
      BY <1>12, <3>1
    <3> QED
      BY <1>1, <2>2, <3>1, <3>2
  <2>5. j \in 1 .. Len(octets(g))
    <3>1. Len(octets(g)) = IF 3 * g <= n THEN 3 ELSE n - (3 * g - 3)
      BY <1>3, <2>1
    <3> QED
      BY <1>1, <2>2, <2>3, <3>1
  <2> HIDE DEF j
  <2>6. flat[at[g - 1] + j - 1] = octets(g)[j]
    <3>1. g \in 1 .. Len(chunks) /\ chunks[g] = octets(g)
      BY <1>6, <2>1
    <3>2. \A k \in 1 .. Len(chunks[g]) : flat[at[g - 1] + k - 1] = chunks[g][k]
      <4>1. MadeOf(flat, chunks, at)
        BY <1>7, <1>8, <1>9 DEF MadeOf
      <4>2. Lies(chunks[g], flat, at[g - 1])
        BY ONLY <3>1, <4>1, ChunkAt
      <4> QED
        BY <4>2 DEF Lies
    <3> QED
      BY <2>5, <3>1, <3>2
  <2>7. octets(g)[j] = input[(3 * g - 2) + (j - 1)]
    BY <1>3, <2>1, <2>5
  <2>8. at[g - 1] + j - 1 = i
    BY <2>2, <2>3, <2>4
  <2> QED
    BY <2>3, <2>6, <2>7, <2>8
<1>15. flat = input
  BY <1>1, <1>7, <1>13, <1>14, SeqEqual
<1> QED
  BY <1>4, <1>5, <1>15 DEF Base64ReadsBack, d

-----------------------------------------------------------------------------
(* Text: the theorems. A string grows a byte at a time, and is one of      *)
(* bytes.                                                                  *)

LEMMA InputBytes == StringSpec => [](input \in Seq(0 .. 255))
<1>1. StringInit => input \in Seq(0 .. 255)
  BY DEF StringInit
<1>2. input \in Seq(0 .. 255) /\ [AddByte]_input => (input \in Seq(0 .. 255))'
  <2> SUFFICES ASSUME input \in Seq(0 .. 255), AddByte PROVE (input \in Seq(0 .. 255))'
    OBVIOUS
  <2>1. PICK b \in Byte : input' = Append(input, b)
    BY DEF AddByte
  <2>2. b \in 0 .. 255
    BY TextAssumption
  <2> QED
    BY <2>1, <2>2, AppendProperties
<1> QED
  BY <1>1, <1>2, PTL DEF StringSpec

\* What urlEncode, base64Encode and jsonEscape write is read back, by a reader of the
\* format, as the string it was given; the bytes of a percent-encoded string are
\* unreserved ones and "%", the digits of base64 come in fours. For strings of any
\* length over any bytes.
THEOREM TextEncodersReadBack == StringSpec => []EncodersReadBack
<1>1. input \in Seq(0 .. 255) => EncodersReadBack
  BY UrlIsReadBack, Base64IsReadBack, JsonIsReadBack DEF EncodersReadBack
<1> QED
  BY <1>1, InputBytes, PTL

\* extractJsonString finds the code of an error answer whatever its message says, and
\* copies the message out as it was, without control characters. For messages of any
\* length over any bytes.
THEOREM TextExtractReadsBack == StringSpec => []ExtractReadsBack
<1>1. input \in Seq(0 .. 255) => ExtractReadsBack
  BY ExtractIsReadBack
<1> QED
  BY <1>1, InputBytes, PTL

=============================================================================

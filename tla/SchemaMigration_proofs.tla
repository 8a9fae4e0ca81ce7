------------------------ MODULE SchemaMigration_proofs ------------------------
(***************************************************************************)
(* The migration, for any number of shares, versions and deaths of the     *)
(* process.  Whatever a database lacks of today's schema, the statement    *)
(* that supplies it is still to be executed; so when none is left the      *)
(* schema is today's.  With MySQL this holds of the plan made from any     *)
(* database that an interrupted start may have left.  A start that nothing *)
(* interrupts succeeds, and with SQLite every start: each statement finds  *)
(* what it needs.                                                          *)
(***************************************************************************)
EXTENDS SchemaMigration, SequenceTheorems, WellFoundedInduction, TLAPS

\* A sequence of statements has operation o on table t.
Has(s, o, t) == \E i \in DOMAIN s : s[i].op = o /\ s[i].on = t

\* No foreign key is dropped behind the first new primary key.
KeysFirst(s) == \A i, j \in DOMAIN s : i < j /\ s[i].op = "rekey" => s[j].op # "dropfk"

-----------------------------------------------------------------------------
\* Sequences of statements

LEMMA HasConcat ==
  ASSUME NEW s \in Seq(Statement), NEW u \in Seq(Statement)
  PROVE  /\ s \o u \in Seq(Statement)
         /\ \A o, t : Has(s \o u, o, t) <=> Has(s, o, t) \/ Has(u, o, t)
<1>1. /\ s \o u \in Seq(Statement) /\ Len(s \o u) = Len(s) + Len(u)
      /\ \A i \in 1..Len(s) + Len(u) :
           (s \o u)[i] = IF i <= Len(s) THEN s[i] ELSE u[i - Len(s)]
  BY ConcatProperties
<1>2. /\ DOMAIN s = 1..Len(s) /\ DOMAIN u = 1..Len(u) /\ DOMAIN (s \o u) = 1..Len(s) + Len(u)
      /\ Len(s) \in Nat /\ Len(u) \in Nat
  BY <1>1
<1>3. ASSUME NEW o, NEW t
      PROVE  Has(s \o u, o, t) <=> Has(s, o, t) \/ Has(u, o, t)
  <2>1. ASSUME NEW i \in DOMAIN s PROVE i \in DOMAIN (s \o u) /\ (s \o u)[i] = s[i]
    BY <1>1, <1>2
  <2>2. ASSUME NEW i \in DOMAIN u
        PROVE  Len(s) + i \in DOMAIN (s \o u) /\ (s \o u)[Len(s) + i] = u[i]
    <3>1. Len(s) + i \in 1..Len(s) + Len(u) /\ ~(Len(s) + i <= Len(s)) /\ Len(s) + i - Len(s) = i
      BY <1>2
    <3> QED BY <1>1, <1>2, <3>1
  <2>3. ASSUME NEW i \in DOMAIN (s \o u)
        PROVE  \/ i \in DOMAIN s /\ (s \o u)[i] = s[i]
               \/ i - Len(s) \in DOMAIN u /\ (s \o u)[i] = u[i - Len(s)]
    BY <1>1, <1>2
  <2>4. Has(s, o, t) => Has(s \o u, o, t)
    BY <2>1, Zenon DEF Has
  <2>5. ASSUME Has(u, o, t) PROVE Has(s \o u, o, t)
    <3>1. PICK i \in DOMAIN u : u[i].op = o /\ u[i].on = t
      BY <2>5, Zenon DEF Has
    <3>2. Len(s) + i \in DOMAIN (s \o u) /\ (s \o u)[Len(s) + i] = u[i]
      BY <2>2
    <3> QED BY <3>1, <3>2, Zenon DEF Has
  <2>6. Has(s \o u, o, t) => Has(s, o, t) \/ Has(u, o, t)
    BY <2>3, Zenon DEF Has
  <2> QED BY <2>4, <2>5, <2>6
<1> QED BY <1>1, <1>3

LEMMA KeysConcat ==
  ASSUME NEW s \in Seq(Statement), NEW u \in Seq(Statement), KeysFirst(s), KeysFirst(u),
         (\A t : ~Has(s, "rekey", t)) \/ (\A t : ~Has(u, "dropfk", t))
  PROVE  KeysFirst(s \o u)
<1>1. /\ Len(s \o u) = Len(s) + Len(u) /\ s \o u \in Seq(Statement)
      /\ \A i \in 1..Len(s) + Len(u) :
           (s \o u)[i] = IF i <= Len(s) THEN s[i] ELSE u[i - Len(s)]
  BY ConcatProperties
<1>2. /\ DOMAIN s = 1..Len(s) /\ DOMAIN u = 1..Len(u) /\ DOMAIN (s \o u) = 1..Len(s) + Len(u)
      /\ Len(s) \in Nat /\ Len(u) \in Nat
  BY <1>1
<1>3. SUFFICES ASSUME NEW i \in DOMAIN (s \o u), NEW j \in DOMAIN (s \o u),
                      i < j, (s \o u)[i].op = "rekey"
               PROVE  (s \o u)[j].op # "dropfk"
  BY DEF KeysFirst
<1>4. CASE j <= Len(s)
  <2>1. i \in DOMAIN s /\ j \in DOMAIN s /\ (s \o u)[i] = s[i] /\ (s \o u)[j] = s[j]
    BY <1>1, <1>2, <1>3, <1>4
  <2> QED BY <1>3, <2>1 DEF KeysFirst
<1>5. CASE i > Len(s)
  <2>1. /\ i - Len(s) \in DOMAIN u /\ j - Len(s) \in DOMAIN u /\ i - Len(s) < j - Len(s)
        /\ (s \o u)[i] = u[i - Len(s)] /\ (s \o u)[j] = u[j - Len(s)]
    BY <1>1, <1>2, <1>3, <1>5
  <2> QED BY <1>3, <2>1 DEF KeysFirst
<1>6. CASE i <= Len(s) /\ j > Len(s)
  <2>1. /\ i \in DOMAIN s /\ (s \o u)[i] = s[i]
        /\ j - Len(s) \in DOMAIN u /\ (s \o u)[j] = u[j - Len(s)]
    BY <1>1, <1>2, <1>3, <1>6
  <2> QED BY <1>3, <2>1 DEF Has
<1> QED BY <1>2, <1>4, <1>5, <1>6

LEMMA HasTail ==
  ASSUME NEW s \in Seq(Statement), s # <<>>
  PROVE  /\ Head(s) \in Statement /\ Tail(s) \in Seq(Statement)
         /\ Has(s, Head(s).op, Head(s).on)
         /\ \A o, t : Has(Tail(s), o, t) => Has(s, o, t)
         /\ \A o, t : Has(s, o, t) =>
              Has(Tail(s), o, t) \/ (Head(s).op = o /\ Head(s).on = t)
         /\ KeysFirst(s) => /\ KeysFirst(Tail(s))
                            /\ Head(s).op = "rekey" => \A t : ~Has(Tail(s), "dropfk", t)
<1>1. /\ Head(s) \in Statement /\ Tail(s) \in Seq(Statement) /\ Len(Tail(s)) = Len(s) - 1
      /\ \A i \in 1..Len(Tail(s)) : Tail(s)[i] = s[i + 1]
  BY HeadTailProperties
<1>2. /\ DOMAIN s = 1..Len(s) /\ DOMAIN Tail(s) = 1..Len(s) - 1 /\ Len(s) \in Nat \ {0}
      /\ Head(s) = s[1]
  BY <1>1
<1>3. ASSUME NEW i \in DOMAIN Tail(s)
      PROVE  i + 1 \in DOMAIN s /\ Tail(s)[i] = s[i + 1] /\ 1 < i + 1
  BY <1>1, <1>2
<1>4. ASSUME NEW i \in DOMAIN s, i # 1
      PROVE  i - 1 \in DOMAIN Tail(s) /\ Tail(s)[i - 1] = s[i]
  BY <1>1, <1>2, <1>4
<1>5. 1 \in DOMAIN s
  BY <1>2
<1>6. \A o, t : Has(Tail(s), o, t) => Has(s, o, t)
  BY <1>3 DEF Has
<1>7. \A o, t : Has(s, o, t) => Has(Tail(s), o, t) \/ (Head(s).op = o /\ Head(s).on = t)
  BY <1>2, <1>4 DEF Has
<1>8. ASSUME KeysFirst(s)
      PROVE  /\ KeysFirst(Tail(s))
             /\ Head(s).op = "rekey" => \A t : ~Has(Tail(s), "dropfk", t)
  <2>1. \A i, j \in DOMAIN Tail(s) : i < j => i + 1 < j + 1
    BY <1>2
  <2> QED BY <1>2, <1>3, <1>5, <1>8, <2>1 DEF KeysFirst, Has
<1> QED BY <1>1, <1>2, <1>5, <1>6, <1>7, <1>8 DEF Has

LEMMA HasOnTables ==
  ASSUME NEW s \in Seq(Statement), NEW o, NEW t, Has(s, o, t)
  PROVE  t \in Tables
<1>1. PICK i \in DOMAIN s : s[i].on = t
  BY DEF Has
<1>2. s[i] \in Statement
  OBVIOUS
<1> QED BY <1>1, <1>2 DEF Statement

LEMMA DoFacts ==
  ASSUME NEW o \in {"rename", "dropfk", "rekey", "addcols", "fill", "finish", "create", "token",
                    "dedupe", "unique", "raise"}, NEW t \in Tables
  PROVE  /\ Do(o, t) \in Seq(Statement) /\ KeysFirst(Do(o, t))
         /\ \A p, u : Has(Do(o, t), p, u) <=> p = o /\ u = t
<1>1. [op |-> o, on |-> t] \in Statement
  BY DEF Statement
<1>2. DOMAIN Do(o, t) = {1} /\ Do(o, t)[1] = [op |-> o, on |-> t]
  BY DEF Do
<1>3. Do(o, t) \in Seq(Statement)
  BY <1>1 DEF Do
<1> QED BY <1>1, <1>2, <1>3 DEF Has, KeysFirst

LEMMA WhenFacts ==
  ASSUME NEW s \in Seq(Statement), KeysFirst(s), NEW b \in BOOLEAN
  PROVE  /\ When(b, s) \in Seq(Statement) /\ KeysFirst(When(b, s))
         /\ \A p, u : Has(When(b, s), p, u) <=> b /\ Has(s, p, u)
<1>1. DOMAIN <<>> = {} /\ <<>> \in Seq(Statement)
  OBVIOUS
<1>2. CASE b
  BY <1>2 DEF When
<1>3. CASE ~b
  BY <1>1, <1>3 DEF When, Has, KeysFirst
<1> QED BY <1>2, <1>3

LEMMA FourFacts ==
  ASSUME NEW a \in Seq(Statement), NEW b \in Seq(Statement),
         NEW c \in Seq(Statement), NEW d \in Seq(Statement)
  PROVE  /\ a \o b \o c \o d \in Seq(Statement)
         /\ \A o, t : Has(a \o b \o c \o d, o, t)
                        <=> Has(a, o, t) \/ Has(b, o, t) \/ Has(c, o, t) \/ Has(d, o, t)
<1>1. a \o b \in Seq(Statement) /\ \A o, t : Has(a \o b, o, t) <=> Has(a, o, t) \/ Has(b, o, t)
  BY HasConcat
<1>2. /\ a \o b \o c \in Seq(Statement)
      /\ \A o, t : Has(a \o b \o c, o, t) <=> Has(a \o b, o, t) \/ Has(c, o, t)
  BY <1>1, HasConcat
<1>3. /\ a \o b \o c \o d \in Seq(Statement)
      /\ \A o, t : Has(a \o b \o c \o d, o, t) <=> Has(a \o b \o c, o, t) \/ Has(d, o, t)
  BY <1>2, HasConcat
<1> QED BY <1>1, <1>2, <1>3

-----------------------------------------------------------------------------
\* The plan of MySQL

MysqlOps == {"rename", "dropfk", "rekey", "addcols", "fill", "finish", "create", "token",
             "dedupe", "unique", "raise"}
\* Operations on a table that is there.
TableOps == {"dropfk", "rekey", "addcols", "fill", "finish", "token", "unique"}

\* What is so of a database at every moment.
FormInv(d) ==
  /\ \A t \in Tables : d.table[t] # NoTable =>
       /\ d.table[t].fk => d.table[t].id = "uuid" /\ t # Artifacts
       /\ t # Shares => d.table[t].token /\ d.table[t].unique
  /\ d.table[Shares] = NoTable => d.shares = {}
  /\ d.table[Shares] # NoTable /\ d.table[Shares].unique => ~Duplicates(d.shares)

\* What a database lacks, the statements supply.
Supplied(d, s) ==
  \A t \in Tables :
    IF d.table[t] = NoTable THEN Has(s, "create", t)
    ELSE /\ d.table[t].name = "legacy" => Has(s, "rename", Artifacts)
         /\ d.table[t].id = "uuid" => Has(s, "rekey", t)
         /\ d.table[t].fk => Has(s, "dropfk", t)
         /\ d.table[t].creator # "two" => Has(s, "finish", t) \/ Has(s, "raise", Artifacts)
         /\ ~d.table[t].workspace => Has(s, "addcols", t) \/ Has(s, "raise", Artifacts)
         /\ ~d.table[t].token => Has(s, "token", t)
         /\ ~d.table[t].unique => Has(s, "unique", t)

MysqlInv(d, s) ==
  /\ s \in Seq(Statement)
  /\ KeysFirst(s)
  /\ Supplied(d, s)
  /\ \A o, t : Has(s, o, t) => o \in MysqlOps /\ (o \in TableOps => d.table[t] # NoTable)

\* The parts of the plan for one table.
OldIds(d)      == Having(d, "id", {"uuid"})
OldCreators(d) == Having(d, "creator", {"one"})
DropKeyOf(d, t) == When(t \in OldIds(d) \ {Artifacts}, Do("dropfk", t))
RekeyOf(d, t)   == When(t \in OldIds(d), Do("rekey", t))
AddOf(d, t)     == When(t \in OldCreators(d) \cup Having(d, "workspace", {FALSE}), Do("addcols", t))
FillOf(d, t)    == When(t \in OldCreators(d), Do("fill", t) \o Do("finish", t))
SplitOf(d, t)   == AddOf(d, t) \o FillOf(d, t)
CreateOf(t)     == Do("create", t)

LEMMA TableFacts ==
  /\ Tables = {TableSeq[1], TableSeq[2], TableSeq[3], TableSeq[4]}
  /\ Artifacts \in Tables /\ Shares \in Tables /\ Artifacts # Shares
BY DEF Tables, TableSeq, Artifacts, Shares

LEMMA IdentityPlanFacts ==
  ASSUME NEW d
  PROVE  /\ IdentityPlan(d) \in Seq(Statement) /\ KeysFirst(IdentityPlan(d))
         /\ \A o, t : Has(IdentityPlan(d), o, t) <=>
              \/ o = "dropfk" /\ t \in (OldIds(d) \cap Tables) \ {Artifacts}
              \/ o = "rekey" /\ t \in OldIds(d) \cap Tables
<1> DEFINE drops  == DropKeyOf(d, TableSeq[1]) \o DropKeyOf(d, TableSeq[2])
                       \o DropKeyOf(d, TableSeq[3]) \o DropKeyOf(d, TableSeq[4])
           rekeys == RekeyOf(d, TableSeq[1]) \o RekeyOf(d, TableSeq[2])
                       \o RekeyOf(d, TableSeq[3]) \o RekeyOf(d, TableSeq[4])
<1>1. IdentityPlan(d) = drops \o rekeys
  BY DEF IdentityPlan, ForEach, DropKeyOf, RekeyOf, OldIds
<1>2. ASSUME NEW t \in Tables
      PROVE  /\ DropKeyOf(d, t) \in Seq(Statement) /\ RekeyOf(d, t) \in Seq(Statement)
             /\ \A o, u : Has(DropKeyOf(d, t), o, u) <=>
                            t \in OldIds(d) \ {Artifacts} /\ o = "dropfk" /\ u = t
             /\ \A o, u : Has(RekeyOf(d, t), o, u) <=> t \in OldIds(d) /\ o = "rekey" /\ u = t
  <2> DEFINE b == t \in OldIds(d) \ {Artifacts}
             c == t \in OldIds(d)
  <2>1. b \in BOOLEAN /\ c \in BOOLEAN
    OBVIOUS
  <2>2. DropKeyOf(d, t) = When(b, Do("dropfk", t)) /\ RekeyOf(d, t) = When(c, Do("rekey", t))
    BY DEF DropKeyOf, RekeyOf
  <2>3. /\ Do("dropfk", t) \in Seq(Statement) /\ KeysFirst(Do("dropfk", t))
        /\ \A o, u : Has(Do("dropfk", t), o, u) <=> o = "dropfk" /\ u = t
    BY DoFacts
  <2>4. /\ Do("rekey", t) \in Seq(Statement) /\ KeysFirst(Do("rekey", t))
        /\ \A o, u : Has(Do("rekey", t), o, u) <=> o = "rekey" /\ u = t
    BY DoFacts
  <2> HIDE DEF b, c
  <2>5. /\ When(b, Do("dropfk", t)) \in Seq(Statement)
        /\ \A o, u : Has(When(b, Do("dropfk", t)), o, u) <=> b /\ o = "dropfk" /\ u = t
    BY <2>1, <2>3, WhenFacts
  <2>6. /\ When(c, Do("rekey", t)) \in Seq(Statement)
        /\ \A o, u : Has(When(c, Do("rekey", t)), o, u) <=> c /\ o = "rekey" /\ u = t
    BY <2>1, <2>4, WhenFacts
  <2> QED BY <2>2, <2>5, <2>6 DEF b, c
<1>3. /\ drops \in Seq(Statement)
      /\ \A o, u : Has(drops, o, u) <=> o = "dropfk" /\ u \in (OldIds(d) \cap Tables) \ {Artifacts}
  <2> HIDE DEF drops
  <2>1. /\ drops \in Seq(Statement)
        /\ \A o, u : Has(drops, o, u) <=>
             \/ Has(DropKeyOf(d, TableSeq[1]), o, u) \/ Has(DropKeyOf(d, TableSeq[2]), o, u)
             \/ Has(DropKeyOf(d, TableSeq[3]), o, u) \/ Has(DropKeyOf(d, TableSeq[4]), o, u)
    BY <1>2, TableFacts, FourFacts DEF drops
  <2> QED BY <1>2, <2>1, TableFacts
<1>4. /\ rekeys \in Seq(Statement)
      /\ \A o, u : Has(rekeys, o, u) <=> o = "rekey" /\ u \in OldIds(d) \cap Tables
  <2> HIDE DEF rekeys
  <2>1. /\ rekeys \in Seq(Statement)
        /\ \A o, u : Has(rekeys, o, u) <=>
             \/ Has(RekeyOf(d, TableSeq[1]), o, u) \/ Has(RekeyOf(d, TableSeq[2]), o, u)
             \/ Has(RekeyOf(d, TableSeq[3]), o, u) \/ Has(RekeyOf(d, TableSeq[4]), o, u)
    BY <1>2, TableFacts, FourFacts DEF rekeys
  <2> QED BY <1>2, <2>1, TableFacts
<1> HIDE DEF drops, rekeys
<1>5. KeysFirst(drops) /\ KeysFirst(rekeys)
  <2>1. \A i \in DOMAIN drops : drops[i].op # "rekey"
    BY <1>3, Zenon DEF Has
  <2>2. \A i \in DOMAIN rekeys : rekeys[i].op # "dropfk"
    BY <1>4, Zenon DEF Has
  <2> QED BY <2>1, <2>2 DEF KeysFirst
<1>6. KeysFirst(drops \o rekeys)
  BY <1>3, <1>4, <1>5, KeysConcat
<1> QED BY <1>1, <1>3, <1>4, <1>6, HasConcat

LEMMA CreatorPlanFacts ==
  ASSUME NEW d
  PROVE  /\ CreatorPlan(d) \in Seq(Statement) /\ KeysFirst(CreatorPlan(d))
         /\ \A o, t : Has(CreatorPlan(d), o, t) <=>
              IF MixedCreators(d) THEN o = "raise" /\ t = Artifacts
              ELSE \/ o = "addcols" /\ t \in Tables
                        /\ t \in OldCreators(d) \cup Having(d, "workspace", {FALSE})
                   \/ o \in {"fill", "finish"} /\ t \in OldCreators(d) \cap Tables
<1> DEFINE splits == SplitOf(d, TableSeq[1]) \o SplitOf(d, TableSeq[2])
                       \o SplitOf(d, TableSeq[3]) \o SplitOf(d, TableSeq[4])
<1>1. CreatorPlan(d) = IF MixedCreators(d) THEN Do("raise", Artifacts) ELSE splits
  BY DEF CreatorPlan, ForEach, SplitOf, AddOf, FillOf, OldCreators
<1>2. ASSUME NEW t \in Tables
      PROVE  /\ SplitOf(d, t) \in Seq(Statement)
             /\ \A o, u : Has(SplitOf(d, t), o, u) <=>
                  \/ /\ t \in OldCreators(d) \cup Having(d, "workspace", {FALSE})
                     /\ o = "addcols" /\ u = t
                  \/ t \in OldCreators(d) /\ o \in {"fill", "finish"} /\ u = t
  <2>1. /\ AddOf(d, t) \in Seq(Statement)
        /\ \A o, u : Has(AddOf(d, t), o, u) <=>
             /\ t \in OldCreators(d) \cup Having(d, "workspace", {FALSE})
             /\ o = "addcols" /\ u = t
    <3> DEFINE b == t \in OldCreators(d) \cup Having(d, "workspace", {FALSE})
    <3>1. b \in BOOLEAN
      OBVIOUS
    <3>2. AddOf(d, t) = When(b, Do("addcols", t))
      BY DEF AddOf
    <3>3. /\ Do("addcols", t) \in Seq(Statement) /\ KeysFirst(Do("addcols", t))
          /\ \A o, u : Has(Do("addcols", t), o, u) <=> o = "addcols" /\ u = t
      BY DoFacts
    <3> HIDE DEF b
    <3>4. /\ When(b, Do("addcols", t)) \in Seq(Statement)
          /\ \A o, u : Has(When(b, Do("addcols", t)), o, u) <=> b /\ o = "addcols" /\ u = t
      BY <3>1, <3>3, WhenFacts
    <3> QED BY <3>2, <3>4 DEF b
  <2>2. /\ Do("fill", t) \in Seq(Statement) /\ Do("finish", t) \in Seq(Statement)
        /\ \A o, u : Has(Do("fill", t), o, u) <=> o = "fill" /\ u = t
        /\ \A o, u : Has(Do("finish", t), o, u) <=> o = "finish" /\ u = t
    BY DoFacts
  <2>3. /\ Do("fill", t) \o Do("finish", t) \in Seq(Statement)
        /\ \A o, u : Has(Do("fill", t) \o Do("finish", t), o, u) <=> o \in {"fill", "finish"} /\ u = t
    BY <2>2, HasConcat
  <2>4. /\ FillOf(d, t) \in Seq(Statement)
        /\ \A o, u : Has(FillOf(d, t), o, u) <=>
             t \in OldCreators(d) /\ o \in {"fill", "finish"} /\ u = t
    <3>1. <<>> \in Seq(Statement) /\ \A o, u : ~Has(<<>>, o, u)
      BY DEF Has
    <3> QED BY <2>3, <3>1 DEF FillOf, When
  <2> QED BY <2>1, <2>4, HasConcat DEF SplitOf
<1>3. /\ splits \in Seq(Statement)
      /\ \A o, u : Has(splits, o, u) <=>
           \/ /\ u \in Tables /\ u \in OldCreators(d) \cup Having(d, "workspace", {FALSE})
              /\ o = "addcols"
           \/ u \in OldCreators(d) \cap Tables /\ o \in {"fill", "finish"}
  <2> HIDE DEF splits
  <2>1. /\ splits \in Seq(Statement)
        /\ \A o, u : Has(splits, o, u) <=>
             \/ Has(SplitOf(d, TableSeq[1]), o, u) \/ Has(SplitOf(d, TableSeq[2]), o, u)
             \/ Has(SplitOf(d, TableSeq[3]), o, u) \/ Has(SplitOf(d, TableSeq[4]), o, u)
    BY <1>2, TableFacts, FourFacts DEF splits
  <2>2. ASSUME NEW o, NEW u
        PROVE  Has(splits, o, u) <=> \E t \in Tables : Has(SplitOf(d, t), o, u)
    BY <2>1, TableFacts
  <2> QED BY <1>2, <2>1, <2>2
<1> HIDE DEF splits
<1>4. KeysFirst(splits)
  <2>1. \A i \in DOMAIN splits : splits[i].op # "rekey"
    BY <1>3, Zenon DEF Has
  <2> QED BY <2>1 DEF KeysFirst
<1>5. /\ Do("raise", Artifacts) \in Seq(Statement) /\ KeysFirst(Do("raise", Artifacts))
      /\ \A o, u : Has(Do("raise", Artifacts), o, u) <=> o = "raise" /\ u = Artifacts
  BY DoFacts, TableFacts
<1> QED BY <1>1, <1>3, <1>4, <1>5

LEMMA MysqlPlanFacts ==
  ASSUME NEW d
  PROVE  /\ MysqlPlan(d) \in Seq(Statement) /\ KeysFirst(MysqlPlan(d))
         /\ \A o, t : Has(MysqlPlan(d), o, t) <=>
              \/ o = "rename" /\ t = Artifacts /\ Having(d, "name", {"legacy"}) # {}
              \/ Has(IdentityPlan(d), o, t)
              \/ Has(CreatorPlan(d), o, t)
              \/ o = "create" /\ t \in Tables
              \/ o = "token" /\ t = Shares /\ Shares \in Having(d, "token", {FALSE})
              \/ o \in {"dedupe", "unique"} /\ t = Shares /\ Shares \in Having(d, "unique", {FALSE})
<1> DEFINE old    == Having(d, "name", {"legacy"}) # {}
           bare   == Shares \in Having(d, "token", {FALSE})
           double == Shares \in Having(d, "unique", {FALSE})
           renames == When(old, Do("rename", Artifacts))
           creates == CreateOf(TableSeq[1]) \o CreateOf(TableSeq[2])
                        \o CreateOf(TableSeq[3]) \o CreateOf(TableSeq[4])
           tokens  == When(bare, Do("token", Shares))
           uniques == When(double, Do("dedupe", Shares) \o Do("unique", Shares))
<1>1. MysqlPlan(d) = renames \o IdentityPlan(d) \o CreatorPlan(d) \o creates \o tokens \o uniques
  BY DEF MysqlPlan, ForEach, CreateOf
<1>2. old \in BOOLEAN /\ bare \in BOOLEAN /\ double \in BOOLEAN
  OBVIOUS
<1>3. /\ renames \in Seq(Statement) /\ KeysFirst(renames)
      /\ \A o, t : Has(renames, o, t) <=> old /\ o = "rename" /\ t = Artifacts
  <2> HIDE DEF old
  <2>1. /\ Do("rename", Artifacts) \in Seq(Statement) /\ KeysFirst(Do("rename", Artifacts))
        /\ \A o, t : Has(Do("rename", Artifacts), o, t) <=> o = "rename" /\ t = Artifacts
    <3>1. Artifacts \in Tables
      BY TableFacts
    <3> QED BY <3>1, DoFacts
  <2> QED BY <1>2, <2>1, WhenFacts
<1>4. /\ tokens \in Seq(Statement) /\ KeysFirst(tokens)
      /\ \A o, t : Has(tokens, o, t) <=> bare /\ o = "token" /\ t = Shares
  <2> HIDE DEF bare
  <2>1. /\ Do("token", Shares) \in Seq(Statement) /\ KeysFirst(Do("token", Shares))
        /\ \A o, t : Has(Do("token", Shares), o, t) <=> o = "token" /\ t = Shares
    <3>1. Shares \in Tables
      BY TableFacts
    <3> QED BY <3>1, DoFacts
  <2> QED BY <1>2, <2>1, WhenFacts
<1>5. /\ uniques \in Seq(Statement) /\ KeysFirst(uniques)
      /\ \A o, t : Has(uniques, o, t) <=> double /\ o \in {"dedupe", "unique"} /\ t = Shares
  <2> HIDE DEF double
  <2> DEFINE both == Do("dedupe", Shares) \o Do("unique", Shares)
  <2>1. /\ Do("dedupe", Shares) \in Seq(Statement) /\ KeysFirst(Do("dedupe", Shares))
        /\ \A o, t : Has(Do("dedupe", Shares), o, t) <=> o = "dedupe" /\ t = Shares
    BY DoFacts, TableFacts
  <2>2. /\ Do("unique", Shares) \in Seq(Statement) /\ KeysFirst(Do("unique", Shares))
        /\ \A o, t : Has(Do("unique", Shares), o, t) <=> o = "unique" /\ t = Shares
    BY DoFacts, TableFacts
  <2>3. both \in Seq(Statement) /\ \A o, t : Has(both, o, t) <=> o \in {"dedupe", "unique"} /\ t = Shares
    BY <2>1, <2>2, HasConcat
  <2>4. \A t : ~Has(Do("dedupe", Shares), "rekey", t)
    BY <2>1
  <2>5. KeysFirst(both)
    BY <2>1, <2>2, <2>4, KeysConcat
  <2> HIDE DEF both
  <2>6. /\ When(double, both) \in Seq(Statement) /\ KeysFirst(When(double, both))
        /\ \A o, t : Has(When(double, both), o, t) <=> double /\ Has(both, o, t)
    BY <1>2, <2>3, <2>5, WhenFacts
  <2> QED BY <2>3, <2>6 DEF both
<1>6. /\ creates \in Seq(Statement) /\ KeysFirst(creates)
      /\ \A o, t : Has(creates, o, t) <=> o = "create" /\ t \in Tables
  <2>1. ASSUME NEW t \in Tables
        PROVE  /\ CreateOf(t) \in Seq(Statement)
               /\ \A o, u : Has(CreateOf(t), o, u) <=> o = "create" /\ u = t
    BY DoFacts DEF CreateOf
  <2> HIDE DEF creates
  <2>2. /\ creates \in Seq(Statement)
        /\ \A o, u : Has(creates, o, u) <=>
             \/ Has(CreateOf(TableSeq[1]), o, u) \/ Has(CreateOf(TableSeq[2]), o, u)
             \/ Has(CreateOf(TableSeq[3]), o, u) \/ Has(CreateOf(TableSeq[4]), o, u)
    BY <2>1, TableFacts, FourFacts DEF creates
  <2>3. \A o, u : Has(creates, o, u) <=> o = "create" /\ u \in Tables
    BY <2>1, <2>2, TableFacts
  <2>4. \A i \in DOMAIN creates : creates[i].op # "rekey"
    BY <2>3, Zenon DEF Has
  <2> QED BY <2>2, <2>3, <2>4 DEF KeysFirst
<1> HIDE DEF old, bare, double, renames, creates, tokens, uniques
<1> DEFINE p2 == renames \o IdentityPlan(d)
           p3 == p2 \o CreatorPlan(d)
           p4 == p3 \o creates
           p5 == p4 \o tokens
<1>7. /\ p2 \in Seq(Statement) /\ KeysFirst(p2)
      /\ \A o, t : Has(p2, o, t) <=> Has(renames, o, t) \/ Has(IdentityPlan(d), o, t)
  <2>1. \A t : ~Has(renames, "rekey", t)
    BY <1>3
  <2> QED BY <1>3, <2>1, IdentityPlanFacts, HasConcat, KeysConcat
<1> HIDE DEF p2
<1>8. /\ p3 \in Seq(Statement) /\ KeysFirst(p3)
      /\ \A o, t : Has(p3, o, t) <=> Has(p2, o, t) \/ Has(CreatorPlan(d), o, t)
  <2>1. \A t : ~Has(CreatorPlan(d), "dropfk", t)
    BY CreatorPlanFacts
  <2>2. CreatorPlan(d) \in Seq(Statement) /\ KeysFirst(CreatorPlan(d))
    BY CreatorPlanFacts
  <2> QED BY <1>7, <2>1, <2>2, HasConcat, KeysConcat
<1> HIDE DEF p3
<1>9. /\ p4 \in Seq(Statement) /\ KeysFirst(p4)
      /\ \A o, t : Has(p4, o, t) <=> Has(p3, o, t) \/ Has(creates, o, t)
  <2>1. \A t : ~Has(creates, "dropfk", t)
    BY <1>6
  <2> QED BY <1>6, <1>8, <2>1, HasConcat, KeysConcat
<1> HIDE DEF p4
<1>10. /\ p5 \in Seq(Statement) /\ KeysFirst(p5)
       /\ \A o, t : Has(p5, o, t) <=> Has(p4, o, t) \/ Has(tokens, o, t)
  <2>1. \A t : ~Has(tokens, "dropfk", t)
    BY <1>4
  <2> QED BY <1>4, <1>9, <2>1, HasConcat, KeysConcat
<1> HIDE DEF p5
<1>11. /\ p5 \o uniques \in Seq(Statement) /\ KeysFirst(p5 \o uniques)
       /\ \A o, t : Has(p5 \o uniques, o, t) <=> Has(p5, o, t) \/ Has(uniques, o, t)
  <2>1. \A t : ~Has(uniques, "dropfk", t)
    BY <1>5
  <2> QED BY <1>5, <1>10, <2>1, HasConcat, KeysConcat
<1>12. MysqlPlan(d) = p5 \o uniques
  BY <1>1 DEF p2, p3, p4, p5
<1>13. ASSUME NEW o, NEW t
       PROVE  Has(MysqlPlan(d), o, t) <=>
                \/ old /\ o = "rename" /\ t = Artifacts
                \/ Has(IdentityPlan(d), o, t) \/ Has(CreatorPlan(d), o, t)
                \/ o = "create" /\ t \in Tables
                \/ bare /\ o = "token" /\ t = Shares
                \/ double /\ o \in {"dedupe", "unique"} /\ t = Shares
  BY <1>3, <1>4, <1>5, <1>6, <1>7, <1>8, <1>9, <1>10, <1>11, <1>12
<1> QED BY <1>11, <1>12, <1>13 DEF old, bare, double

\* The plan supplies all that the database lacks.
LEMMA PlanSupplies ==
  ASSUME NEW d \in Database, FormInv(d)
  PROVE  MysqlInv(d, MysqlPlan(d))
<1> DEFINE s == MysqlPlan(d)
<1>1. s \in Seq(Statement) /\ KeysFirst(s)
  BY MysqlPlanFacts
<1>2. ASSUME NEW t \in Tables, d.table[t] = NoTable PROVE Has(s, "create", t)
  BY MysqlPlanFacts
<1>3. ASSUME NEW t \in Tables, d.table[t] # NoTable
      PROVE  /\ d.table[t].name = "legacy" => Has(s, "rename", Artifacts)
             /\ d.table[t].id = "uuid" => Has(s, "rekey", t)
             /\ d.table[t].fk => Has(s, "dropfk", t)
             /\ d.table[t].creator # "two" => Has(s, "finish", t) \/ Has(s, "raise", Artifacts)
             /\ ~d.table[t].workspace => Has(s, "addcols", t) \/ Has(s, "raise", Artifacts)
             /\ ~d.table[t].token => Has(s, "token", t)
             /\ ~d.table[t].unique => Has(s, "unique", t)
  <2>1. d.table[t] \in Layout
    BY <1>3 DEF Database
  <2>2. t \in Present(d)
    BY <1>3 DEF Present
  <2>3. d.table[t].name = "legacy" => Has(s, "rename", Artifacts)
    BY <2>2, MysqlPlanFacts DEF Having
  <2>4. d.table[t].id = "uuid" => Has(s, "rekey", t)
    BY <2>2, MysqlPlanFacts, IdentityPlanFacts DEF Having, OldIds
  <2>5. d.table[t].fk => Has(s, "dropfk", t)
    BY <1>3, <2>2, MysqlPlanFacts, IdentityPlanFacts DEF Having, OldIds, FormInv
  <2>6. MixedCreators(d) => Has(s, "raise", Artifacts)
    BY MysqlPlanFacts, CreatorPlanFacts
  <2>7. ASSUME ~MixedCreators(d), d.table[t].creator # "two" PROVE Has(s, "finish", t)
    <3>1. d.table[t].creator \in {"one", "added", "filled"}
      BY <2>1, <2>7 DEF Layout
    <3>2. t \notin Having(d, "creator", {"added", "filled", "two"})
      BY <2>2, <2>7, <3>1 DEF MixedCreators, Having
    <3>3. t \in OldCreators(d)
      BY <2>2, <3>1, <3>2 DEF OldCreators, Having
    <3> QED BY <2>7, <3>3, MysqlPlanFacts, CreatorPlanFacts
  <2>8. ASSUME ~MixedCreators(d), ~d.table[t].workspace PROVE Has(s, "addcols", t)
    <3>1. t \in Having(d, "workspace", {FALSE})
      BY <2>1, <2>2, <2>8 DEF Having, Layout
    <3> QED BY <2>8, <3>1, MysqlPlanFacts, CreatorPlanFacts
  <2>9. ~d.table[t].token => Has(s, "token", t)
    BY <1>3, <2>1, <2>2, MysqlPlanFacts DEF Having, FormInv, Layout
  <2>10. ~d.table[t].unique => Has(s, "unique", t)
    BY <1>3, <2>1, <2>2, MysqlPlanFacts DEF Having, FormInv, Layout
  <2> QED BY <2>3, <2>4, <2>5, <2>6, <2>7, <2>8, <2>9, <2>10
<1>4. Supplied(d, s)
  BY <1>2, <1>3 DEF Supplied
<1>5. ASSUME NEW o, NEW t, Has(s, o, t)
      PROVE  o \in MysqlOps /\ (o \in TableOps => d.table[t] # NoTable)
  <2>1. Having(d, "token", {FALSE}) \subseteq Present(d) /\ Having(d, "unique", {FALSE}) \subseteq Present(d)
        /\ Having(d, "workspace", {FALSE}) \subseteq Present(d)
        /\ OldIds(d) \subseteq Present(d) /\ OldCreators(d) \subseteq Present(d)
    BY DEF Having, OldIds, OldCreators
  <2>2. o \in TableOps => t \in Present(d)
    BY <1>5, <2>1, MysqlPlanFacts, IdentityPlanFacts, CreatorPlanFacts DEF TableOps
  <2>3. o \in MysqlOps
    BY <1>5, MysqlPlanFacts, IdentityPlanFacts, CreatorPlanFacts DEF MysqlOps
  <2> QED BY <2>2, <2>3 DEF Present
<1> QED BY <1>1, <1>4, <1>5 DEF MysqlInv

-----------------------------------------------------------------------------
\* What the statements do to a database

\* e is d but for table t, which is m.
OneChange(d, e, t, m) ==
  /\ e \in Database /\ m \in Layout
  /\ e.table[t] = m
  /\ \A u \in Tables \ {t} : e.table[u] = d.table[u]
  /\ e.shares = d.shares /\ e.ordered = d.ordered

LEMMA ChangeFacts ==
  ASSUME NEW d \in Database, NEW t \in Tables, NEW m \in Layout,
         NEW e, e = [d EXCEPT !.table = [d.table EXCEPT ![t] = m]]
  PROVE  OneChange(d, e, t, m)
<1>1. d.table \in [Tables -> Layout \cup {NoTable}]
  BY DEF Database
<1>2. /\ e.table = [d.table EXCEPT ![t] = m] /\ e.shares = d.shares /\ e.ordered = d.ordered
      /\ e \in Database
  BY <1>1 DEF Database
<1> QED BY <1>1, <1>2 DEF OneChange

LEMMA SetFk ==
  ASSUME NEW d \in Database, NEW t \in Tables, d.table[t] \in Layout
  PROVE  OneChange(d, Set(d, t, "fk", FALSE), t, [d.table[t] EXCEPT !.fk = FALSE])
<1> DEFINE m == [d.table[t] EXCEPT !.fk = FALSE]
<1>1. m \in Layout
  BY DEF Layout
<1>2. Set(d, t, "fk", FALSE) = [d EXCEPT !.table = [d.table EXCEPT ![t] = m]]
  BY DEF Set, Database
<1> QED BY <1>1, <1>2, ChangeFacts

LEMMA SetId ==
  ASSUME NEW d \in Database, NEW t \in Tables, d.table[t] \in Layout
  PROVE  OneChange(d, Set(d, t, "id", "row"), t, [d.table[t] EXCEPT !.id = "row"])
<1> DEFINE m == [d.table[t] EXCEPT !.id = "row"]
<1>1. m \in Layout
  BY DEF Layout
<1>2. Set(d, t, "id", "row") = [d EXCEPT !.table = [d.table EXCEPT ![t] = m]]
  BY DEF Set, Database
<1> QED BY <1>1, <1>2, ChangeFacts

LEMMA SetWorkspace ==
  ASSUME NEW d \in Database, NEW t \in Tables, d.table[t] \in Layout
  PROVE  OneChange(d, Set(d, t, "workspace", TRUE), t, [d.table[t] EXCEPT !.workspace = TRUE])
<1> DEFINE m == [d.table[t] EXCEPT !.workspace = TRUE]
<1>1. m \in Layout
  BY DEF Layout
<1>2. Set(d, t, "workspace", TRUE) = [d EXCEPT !.table = [d.table EXCEPT ![t] = m]]
  BY DEF Set, Database
<1> QED BY <1>1, <1>2, ChangeFacts

LEMMA SetCreator ==
  ASSUME NEW d \in Database, NEW t \in Tables, d.table[t] \in Layout, NEW v \in {"added", "filled", "two"}
  PROVE  OneChange(d, Set(d, t, "creator", v), t, [d.table[t] EXCEPT !.creator = v])
<1> DEFINE m == [d.table[t] EXCEPT !.creator = v]
<1>1. m \in Layout
  BY DEF Layout
<1>2. Set(d, t, "creator", v) = [d EXCEPT !.table = [d.table EXCEPT ![t] = m]]
  BY DEF Set, Database
<1> QED BY <1>1, <1>2, ChangeFacts

LEMMA SetToken ==
  ASSUME NEW d \in Database, NEW t \in Tables, d.table[t] \in Layout
  PROVE  OneChange(d, Set(d, t, "token", TRUE), t, [d.table[t] EXCEPT !.token = TRUE])
<1> DEFINE m == [d.table[t] EXCEPT !.token = TRUE]
<1>1. m \in Layout
  BY DEF Layout
<1>2. Set(d, t, "token", TRUE) = [d EXCEPT !.table = [d.table EXCEPT ![t] = m]]
  BY DEF Set, Database
<1> QED BY <1>1, <1>2, ChangeFacts

LEMMA SetUnique ==
  ASSUME NEW d \in Database, NEW t \in Tables, d.table[t] \in Layout
  PROVE  OneChange(d, Set(d, t, "unique", TRUE), t, [d.table[t] EXCEPT !.unique = TRUE])
<1> DEFINE m == [d.table[t] EXCEPT !.unique = TRUE]
<1>1. m \in Layout
  BY DEF Layout
<1>2. Set(d, t, "unique", TRUE) = [d EXCEPT !.table = [d.table EXCEPT ![t] = m]]
  BY DEF Set, Database
<1> QED BY <1>1, <1>2, ChangeFacts

\* Table layout m has all that l has, and what o supplies.
Better(l, m, o) ==
  /\ m.name = "legacy" => l.name = "legacy"
  /\ m.id = "uuid" => l.id = "uuid" /\ o # "rekey"
  /\ m.fk => l.fk /\ o # "dropfk" /\ m.id = "uuid"
  /\ m.creator # "two" => l.creator # "two" /\ o # "finish"
  /\ ~m.workspace => ~l.workspace /\ o # "addcols"
  /\ ~m.token => ~l.token /\ o # "token"
  /\ ~m.unique => ~l.unique /\ o # "unique"

LEMMA BetterFacts ==
  ASSUME NEW l \in Layout, l.fk => l.id = "uuid"
  PROVE  /\ Better(l, [l EXCEPT !.fk = FALSE], "dropfk")
         /\ ~l.fk => Better(l, [l EXCEPT !.id = "row"], "rekey")
         /\ Better(l, [l EXCEPT !.workspace = TRUE], "addcols")
         /\ l.creator = "one" =>
              Better(l, [[l EXCEPT !.workspace = TRUE] EXCEPT !.creator = "added"], "addcols")
         /\ l.creator # "two" => Better(l, [l EXCEPT !.creator = "filled"], "fill")
         /\ Better(l, [l EXCEPT !.creator = "two"], "finish")
         /\ Better(l, [l EXCEPT !.token = TRUE], "token")
         /\ Better(l, [l EXCEPT !.unique = TRUE], "unique")
BY DEF Better, Layout

\* A statement that changes one table for the better.
LEMMA OneTable ==
  ASSUME NEW d \in Database, NEW e, NEW s, NEW t \in Tables, NEW m,
         FormInv(d), MysqlInv(d, s), s # <<>>,
         Head(s).on = t, Head(s).op \notin {"rename", "raise"},
         d.table[t] \in Layout, OneChange(d, e, t, m),
         Better(d.table[t], m, Head(s).op),
         m.unique => d.table[t].unique \/ ~Duplicates(d.shares)
  PROVE  e \in Database /\ FormInv(e) /\ MysqlInv(e, Tail(s))
<1>0. /\ e \in Database /\ e.table[t] = m /\ m \in Layout /\ m # NoTable /\ d.table[t] # NoTable
      /\ \A u \in Tables \ {t} : e.table[u] = d.table[u]
      /\ e.shares = d.shares
  BY MigrationAssumption DEF OneChange
<1>1. s \in Seq(Statement) /\ KeysFirst(s) /\ Supplied(d, s)
  BY DEF MysqlInv
<1>2. /\ Tail(s) \in Seq(Statement) /\ KeysFirst(Tail(s))
      /\ \A o, u : Has(Tail(s), o, u) => Has(s, o, u)
      /\ \A o, u : Has(s, o, u) => Has(Tail(s), o, u) \/ (Head(s).op = o /\ Head(s).on = u)
  BY <1>1, HasTail
<1>3. FormInv(e)
  <2>2. ASSUME NEW u \in Tables, e.table[u] # NoTable
        PROVE  /\ e.table[u].fk => e.table[u].id = "uuid" /\ u # Artifacts
               /\ u # Shares => e.table[u].token /\ e.table[u].unique
    <3>1. CASE u = t
      BY <1>0, <3>1 DEF FormInv, Better
    <3>2. CASE u # t
      BY <1>0, <2>2, <3>2 DEF FormInv
    <3> QED BY <3>1, <3>2
  <2>3. e.table[Shares] = NoTable => e.shares = {}
    BY <1>0, TableFacts DEF FormInv
  <2>4. e.table[Shares] # NoTable /\ e.table[Shares].unique => ~Duplicates(e.shares)
    <3>1. CASE t = Shares
      BY <1>0, <3>1 DEF FormInv
    <3>2. CASE t # Shares
      BY <1>0, <3>2, TableFacts DEF FormInv
    <3> QED BY <3>1, <3>2
  <2> QED BY <2>2, <2>3, <2>4 DEF FormInv
<1>4. \A u \in Tables : e.table[u] = NoTable <=> d.table[u] = NoTable
  BY <1>0
<1>5. ASSUME NEW u \in Tables
      PROVE IF e.table[u] = NoTable THEN Has(Tail(s), "create", u)
            ELSE /\ e.table[u].name = "legacy" => Has(Tail(s), "rename", Artifacts)
                 /\ e.table[u].id = "uuid" => Has(Tail(s), "rekey", u)
                 /\ e.table[u].fk => Has(Tail(s), "dropfk", u)
                 /\ e.table[u].creator # "two" =>
                      Has(Tail(s), "finish", u) \/ Has(Tail(s), "raise", Artifacts)
                 /\ ~e.table[u].workspace =>
                      Has(Tail(s), "addcols", u) \/ Has(Tail(s), "raise", Artifacts)
                 /\ ~e.table[u].token => Has(Tail(s), "token", u)
                 /\ ~e.table[u].unique => Has(Tail(s), "unique", u)
  <2>1. CASE u = t
    BY <1>0, <1>1, <1>2, <2>1 DEF Supplied, Better
  <2>2. CASE u # t
    BY <1>0, <1>1, <1>2, <2>2 DEF Supplied
  <2> QED BY <2>1, <2>2
<1>6. Supplied(e, Tail(s))
  BY <1>5 DEF Supplied
<1>7. ASSUME NEW o, NEW u, Has(Tail(s), o, u)
      PROVE  o \in MysqlOps /\ (o \in TableOps => e.table[u] # NoTable)
  <2>1. o \in MysqlOps /\ (o \in TableOps => d.table[u] # NoTable)
    BY <1>2, <1>7 DEF MysqlInv
  <2>2. u \in Tables
    BY <1>2, <1>7, HasOnTables
  <2> QED BY <1>4, <2>1, <2>2
<1> QED BY <1>0, <1>2, <1>3, <1>6, <1>7 DEF MysqlInv

\* Two statements that do not change any table's columns otherwise.
LEMMA RenameStep ==
  ASSUME NEW d \in Database, NEW s, FormInv(d), MysqlInv(d, s), s # <<>>,
         Head(s).op = "rename", NEW e, e = Renamed(d)
  PROVE  e \in Database /\ e.shares = d.shares /\ e.ordered = d.ordered
         /\ FormInv(e) /\ MysqlInv(e, Tail(s))
<1>1. s \in Seq(Statement) /\ KeysFirst(s) /\ Supplied(d, s)
  BY DEF MysqlInv
<1>2. /\ Tail(s) \in Seq(Statement) /\ KeysFirst(Tail(s))
      /\ \A o, u : Has(Tail(s), o, u) => Has(s, o, u)
      /\ \A o, u : Has(s, o, u) => Has(Tail(s), o, u) \/ (Head(s).op = o /\ Head(s).on = u)
  BY <1>1, HasTail
<1>3. /\ d.table \in [Tables -> Layout \cup {NoTable}]
      /\ e = [d EXCEPT !.table = [t \in Tables |-> IF d.table[t] = NoTable THEN NoTable
                                                   ELSE [d.table[t] EXCEPT !.name = "dsh"]]]
  BY DEF Renamed, Database
<1>4. /\ e.shares = d.shares /\ e.ordered = d.ordered
      /\ e.table = [t \in Tables |-> IF d.table[t] = NoTable THEN NoTable
                                     ELSE [d.table[t] EXCEPT !.name = "dsh"]]
  BY <1>3 DEF Database
<1>5. ASSUME NEW t \in Tables, d.table[t] # NoTable
      PROVE  /\ e.table[t] \in Layout /\ d.table[t] \in Layout /\ e.table[t].name = "dsh"
             /\ e.table[t].id = d.table[t].id /\ e.table[t].fk = d.table[t].fk
             /\ e.table[t].creator = d.table[t].creator
             /\ e.table[t].workspace = d.table[t].workspace
             /\ e.table[t].token = d.table[t].token /\ e.table[t].unique = d.table[t].unique
  <2>1. d.table[t] \in Layout /\ e.table[t] = [d.table[t] EXCEPT !.name = "dsh"]
    BY <1>3, <1>4, <1>5
  <2> QED BY <2>1 DEF Layout
<1>6. \A t \in Tables : e.table[t] = NoTable <=> d.table[t] = NoTable
  BY <1>4, <1>5, MigrationAssumption
<1>7. e \in Database
  <2>1. e.table \in [Tables -> Layout \cup {NoTable}]
    BY <1>4, <1>5
  <2> QED BY <1>3, <1>4, <2>1 DEF Database
<1>8. FormInv(e)
  BY <1>4, <1>5, <1>6, TableFacts DEF FormInv
<1>9. Supplied(e, Tail(s))
  BY <1>1, <1>2, <1>5, <1>6 DEF Supplied
<1>10. ASSUME NEW o, NEW u, Has(Tail(s), o, u)
       PROVE  o \in MysqlOps /\ (o \in TableOps => e.table[u] # NoTable)
  <2>1. o \in MysqlOps /\ (o \in TableOps => d.table[u] # NoTable)
    BY <1>2, <1>10 DEF MysqlInv
  <2> QED BY <1>2, <1>6, <1>10, <2>1, HasOnTables
<1> QED BY <1>2, <1>4, <1>7, <1>8, <1>9, <1>10 DEF MysqlInv

LEMMA FreshFacts ==
  ASSUME NEW t \in Tables
  PROVE  /\ Fresh(t) \in Layout /\ Fresh(t) # NoTable
         /\ Fresh(t).name = "dsh" /\ Fresh(t).id = "row" /\ Fresh(t).fk = FALSE
         /\ Fresh(t).creator = "two" /\ Fresh(t).workspace = TRUE /\ Fresh(t).token = TRUE
         /\ Fresh(t).unique <=> t # Shares \/ backend = "mysql"
<1> DEFINE b == t # Shares \/ backend = "mysql"
<1>1. b \in BOOLEAN
  OBVIOUS
<1>2. Fresh(t) = [name |-> "dsh", id |-> "row", fk |-> FALSE, creator |-> "two",
                  workspace |-> TRUE, token |-> TRUE, unique |-> b]
  BY DEF Fresh
<1> HIDE DEF b
<1>3. /\ Fresh(t) \in Layout
      /\ Fresh(t).name = "dsh" /\ Fresh(t).id = "row" /\ Fresh(t).fk = FALSE
      /\ Fresh(t).creator = "two" /\ Fresh(t).workspace = TRUE /\ Fresh(t).token = TRUE
      /\ Fresh(t).unique = b
  BY <1>1, <1>2 DEF Layout
<1> QED BY <1>3, MigrationAssumption DEF b

LEMMA CreateStep ==
  ASSUME NEW d \in Database, NEW s, FormInv(d), MysqlInv(d, s), s # <<>>, backend = "mysql",
         Head(s).op = "create", NEW t \in Tables, Head(s).on = t,
         NEW e, e = IF d.table[t] = NoTable THEN [d EXCEPT !.table[t] = Fresh(t)] ELSE d
  PROVE  e \in Database /\ e.shares = d.shares /\ e.ordered = d.ordered
         /\ FormInv(e) /\ MysqlInv(e, Tail(s))
<1>1. s \in Seq(Statement) /\ KeysFirst(s) /\ Supplied(d, s)
  BY DEF MysqlInv
<1>2. /\ Tail(s) \in Seq(Statement) /\ KeysFirst(Tail(s))
      /\ \A o, u : Has(Tail(s), o, u) => Has(s, o, u)
      /\ \A o, u : Has(s, o, u) => Has(Tail(s), o, u) \/ (Head(s).op = o /\ Head(s).on = u)
  BY <1>1, HasTail
<1>3. /\ Fresh(t) \in Layout /\ Fresh(t) # NoTable
      /\ Fresh(t).name = "dsh" /\ Fresh(t).id = "row" /\ Fresh(t).fk = FALSE
      /\ Fresh(t).creator = "two" /\ Fresh(t).workspace = TRUE /\ Fresh(t).token = TRUE
      /\ Fresh(t).unique
  BY FreshFacts
<1>4. /\ e \in Database /\ e.shares = d.shares /\ e.ordered = d.ordered
      /\ \A u \in Tables \ {t} : e.table[u] = d.table[u]
      /\ d.table[t] # NoTable => e.table[t] = d.table[t]
      /\ d.table[t] = NoTable => e.table[t] = Fresh(t)
  BY <1>3 DEF Database
<1>5. FormInv(e)
  <2>1. CASE d.table[t] # NoTable
    BY <1>4, <2>1, TableFacts DEF FormInv
  <2>2. CASE d.table[t] = NoTable
    <3>1. ~Duplicates({})
      BY DEF Duplicates
    <3>2. ASSUME NEW u \in Tables, e.table[u] # NoTable
          PROVE  /\ e.table[u].fk => e.table[u].id = "uuid" /\ u # Artifacts
                 /\ u # Shares => e.table[u].token /\ e.table[u].unique
      <4>1. CASE u = t
        BY <1>3, <1>4, <2>2, <4>1
      <4>2. CASE u # t
        BY <1>4, <3>2, <4>2 DEF FormInv
      <4> QED BY <4>1, <4>2
    <3>3. /\ e.table[Shares] = NoTable => e.shares = {}
          /\ e.table[Shares] # NoTable /\ e.table[Shares].unique => ~Duplicates(e.shares)
      <4>1. CASE t = Shares
        <5>1. e.shares = {}
          BY <1>4, <2>2, <4>1 DEF FormInv
        <5> QED BY <3>1, <5>1
      <4>2. CASE t # Shares
        BY <1>4, <4>2, TableFacts DEF FormInv
      <4> QED BY <4>1, <4>2
    <3> QED BY <3>2, <3>3 DEF FormInv
  <2> QED BY <2>1, <2>2
<1>6. Supplied(e, Tail(s))
  <2>1. ASSUME NEW u \in Tables, u = t, d.table[t] = NoTable
        PROVE  e.table[u] = Fresh(u) /\ e.table[u] # NoTable
    BY <1>3, <1>4, <2>1
  <2>2. ASSUME NEW u \in Tables, u # t \/ d.table[t] # NoTable
        PROVE  e.table[u] = d.table[u]
    BY <1>4, <2>2
  <2>3. ASSUME NEW u \in Tables, u = t, d.table[t] # NoTable
        PROVE  e.table[u] # NoTable
    BY <2>2, <2>3
  <2> QED BY <1>1, <1>2, <1>3, <2>1, <2>2, <2>3 DEF Supplied
<1>7. ASSUME NEW o, NEW u, Has(Tail(s), o, u)
      PROVE  o \in MysqlOps /\ (o \in TableOps => e.table[u] # NoTable)
  <2>1. o \in MysqlOps /\ (o \in TableOps => d.table[u] # NoTable)
    BY <1>2, <1>7 DEF MysqlInv
  <2>2. u \in Tables
    BY <1>2, <1>7, HasOnTables
  <2> QED BY <1>4, <2>1, <2>2
<1> QED BY <1>2, <1>4, <1>5, <1>6, <1>7 DEF MysqlInv

LEMMA DedupeStep ==
  ASSUME NEW d \in Database, NEW s, FormInv(d), MysqlInv(d, s), s # <<>>,
         Head(s).op = "dedupe", NEW S \in SUBSET d.shares, NEW e, e = [d EXCEPT !.shares = S]
  PROVE  e \in Database /\ FormInv(e) /\ MysqlInv(e, Tail(s))
<1>1. s \in Seq(Statement) /\ KeysFirst(s) /\ Supplied(d, s)
  BY DEF MysqlInv
<1>2. /\ Tail(s) \in Seq(Statement) /\ KeysFirst(Tail(s))
      /\ \A o, u : Has(Tail(s), o, u) => Has(s, o, u)
      /\ \A o, u : Has(s, o, u) => Has(Tail(s), o, u) \/ (Head(s).op = o /\ Head(s).on = u)
  BY <1>1, HasTail
<1>3. e \in Database /\ e.shares = S /\ e.table = d.table
  BY DEF Database
<1>4. FormInv(e)
  <2>1. ~Duplicates(d.shares) => ~Duplicates(S)
    BY DEF Duplicates
  <2>2. d.shares = {} => S = {}
    OBVIOUS
  <2> QED BY <1>3, <2>1, <2>2 DEF FormInv
<1>5. Supplied(e, Tail(s))
  BY <1>1, <1>2, <1>3 DEF Supplied
<1> QED BY <1>2, <1>3, <1>4, <1>5 DEF MysqlInv

\* A share stays, unless it is one of several of its version.
Kept(d, e) ==
  \/ e.shares = d.shares /\ (e.ordered => d.ordered)
  \/ e.shares \in Deduplicated(d) /\ e.ordered = d.ordered

\* No statement of MySQL's plan loses what the invariant says.
LEMMA MysqlStep ==
  ASSUME backend = "mysql", NEW d \in Database, NEW s, FormInv(d), MysqlInv(d, s), s # <<>>,
         Works(d, Head(s)), NEW e \in Results(d, Head(s))
  PROVE  e \in Database /\ FormInv(e) /\ MysqlInv(e, Tail(s)) /\ Kept(d, e)
<1> DEFINE h == Head(s)
           t == Head(s).on
<1>1. /\ h \in Statement /\ t \in Tables /\ Has(s, h.op, t) /\ h.op \in MysqlOps
      /\ h.op \in TableOps => d.table[t] # NoTable
      /\ KeysFirst(s) => (h.op = "rekey" => \A u : ~Has(Tail(s), "dropfk", u))
  <2>1. s \in Seq(Statement)
    BY DEF MysqlInv
  <2>2. h \in Statement /\ Has(s, h.op, t)
    BY <2>1, HasTail
  <2> QED BY <2>1, <2>2, HasTail DEF MysqlInv, Statement
<1>2. h.op \in TableOps => d.table[t] \in Layout
  BY <1>1 DEF Database
<1>3. h.op \in TableOps => (d.table[t].fk => d.table[t].id = "uuid")
  BY <1>1 DEF FormInv
<1> HIDE DEF h, t
<1>4. CASE h.op = "rename"
  <2>1. e = Renamed(d)
    BY <1>4 DEF Results, h
  <2> QED BY <1>4, <2>1, RenameStep DEF h, Kept
<1>5. CASE h.op = "create"
  <2>1. e = IF d.table[t] = NoTable THEN [d EXCEPT !.table[t] = Fresh(t)] ELSE d
    BY <1>5 DEF Results, h, t
  <2> QED BY <1>1, <1>5, <2>1, CreateStep DEF h, t, Kept
<1>6. CASE h.op = "dedupe"
  <2>1. PICK S \in Deduplicated(d) : e = [d EXCEPT !.shares = S]
    BY <1>6 DEF Results, h
  <2>2. S \in SUBSET d.shares
    BY <2>1 DEF Deduplicated, LatestShares
  <2>3. e.shares = S /\ e.ordered = d.ordered
    BY <2>1 DEF Database
  <2> QED BY <1>6, <2>1, <2>2, <2>3, DedupeStep DEF h, Kept
<1>7. CASE h.op = "raise"
  BY <1>7 DEF Works, h
<1>8. CASE h.op = "dropfk"
  <2> DEFINE m == [d.table[t] EXCEPT !.fk = FALSE]
  <2>1. e = Set(d, t, "fk", FALSE)
    BY <1>8 DEF Results, h, t
  <2>2. d.table[t] \in Layout /\ OneChange(d, e, t, m)
    BY <1>1, <1>2, <1>8, <2>1, SetFk DEF TableOps
  <2>4. Better(d.table[t], m, h.op)
    BY <1>3, <1>8, <2>2, BetterFacts DEF TableOps
  <2>5. m.unique => d.table[t].unique
    BY <2>2 DEF Layout
  <2> HIDE DEF m
  <2>6. Head(s).on = t /\ Head(s).op \notin {"rename", "raise"} /\ t \in Tables
    BY <1>1, <1>8 DEF h, t
  <2>7. e \in Database /\ FormInv(e) /\ MysqlInv(e, Tail(s))
    BY <2>2, <2>4, <2>5, <2>6, OneTable DEF h
  <2> QED BY <2>2, <2>7 DEF Kept, OneChange
<1>9. CASE h.op = "rekey"
  <2> DEFINE m == [d.table[t] EXCEPT !.id = "row"]
             f == Set(d, t, "id", "row")
  <2>1. e = [f EXCEPT !.ordered = @ /\ t # Shares]
    BY <1>9 DEF Results, h, t
  <2>2. d.table[t] \in Layout /\ OneChange(d, f, t, m)
    BY <1>1, <1>2, <1>9, SetId DEF TableOps
  <2> HIDE DEF f
  <2>3. e \in Database /\ e.table = f.table /\ e.shares = f.shares /\ (e.ordered => f.ordered)
    BY <2>1, <2>2 DEF Database, OneChange
  <2>4. ~d.table[t].fk
    <3>1. d.table[t].fk => Has(s, "dropfk", t)
      BY <1>1, <1>9 DEF MysqlInv, Supplied, TableOps
    <3>2. KeysFirst(s) /\ s \in Seq(Statement)
      BY DEF MysqlInv
    <3>3. ~Has(Tail(s), "dropfk", t) /\ Head(s).op # "dropfk"
      BY <1>1, <1>9, <3>2 DEF h
    <3> QED BY <3>1, <3>2, <3>3, HasTail
  <2>5. Better(d.table[t], m, h.op)
    BY <1>9, <2>2, <2>4, BetterFacts
  <2>6. m.unique => d.table[t].unique
    BY <2>2 DEF Layout
  <2> HIDE DEF m
  <2>7. FormInv(f) /\ MysqlInv(f, Tail(s)) /\ f.shares = d.shares /\ f.ordered = d.ordered
    <3>1. Head(s).on = t /\ Head(s).op \notin {"rename", "raise"} /\ t \in Tables
      BY <1>1, <1>9 DEF h, t
    <3>2. FormInv(f) /\ MysqlInv(f, Tail(s))
      BY <2>2, <2>5, <2>6, <3>1, OneTable DEF h
    <3>3. f.shares = d.shares /\ f.ordered = d.ordered
      BY <2>2 DEF OneChange
    <3> QED BY <3>2, <3>3
  <2>8. FormInv(e) /\ MysqlInv(e, Tail(s))
    BY <2>3, <2>7 DEF FormInv, MysqlInv, Supplied
  <2> QED BY <2>3, <2>7, <2>8 DEF Kept
<1>10. CASE h.op = "addcols"
  <2> DEFINE l == d.table[t]
             k == [l EXCEPT !.workspace = TRUE]
             m == IF l.creator = "one" THEN [k EXCEPT !.creator = "added"] ELSE k
             f == Set(d, t, "workspace", TRUE)
             g == Set(f, t, "creator", "added")
  <2>1. l \in Layout /\ OneChange(d, f, t, k)
    BY <1>1, <1>2, <1>10, SetWorkspace DEF TableOps
  <2>2. k \in Layout /\ f \in Database /\ f.table[t] = k /\ k.creator = l.creator
    BY <2>1 DEF OneChange, Layout
  <2>3. e = IF f.table[t].creator = "one" THEN g ELSE f
    BY <1>10 DEF Results, h, t
  <2>4. OneChange(f, g, t, [k EXCEPT !.creator = "added"])
    <3> HIDE DEF f, k
    <3>1. OneChange(f, Set(f, t, "creator", "added"), t, [f.table[t] EXCEPT !.creator = "added"])
      BY <1>1, <2>2, SetCreator
    <3> QED BY <2>2, <3>1
  <2> HIDE DEF f, g
  <2>5. OneChange(d, e, t, m)
    BY <2>1, <2>2, <2>3, <2>4 DEF OneChange
  <2>6. Better(l, m, h.op)
    BY <1>3, <1>10, <2>1, BetterFacts DEF TableOps
  <2>7. m.unique => l.unique
    BY <2>1 DEF Layout
  <2> HIDE DEF m
  <2> HIDE DEF l
  <2>8. Head(s).on = t /\ Head(s).op \notin {"rename", "raise"} /\ t \in Tables
    BY <1>1, <1>10 DEF h, t
  <2>9. e \in Database /\ FormInv(e) /\ MysqlInv(e, Tail(s))
    BY <2>1, <2>5, <2>6, <2>7, <2>8, OneTable DEF h, l
  <2> QED BY <2>5, <2>9 DEF Kept, OneChange
<1>11. CASE h.op = "fill"
  <2> DEFINE m == [d.table[t] EXCEPT !.creator = "filled"]
  <2>1. e = Set(d, t, "creator", "filled")
    BY <1>11 DEF Results, h, t
  <2>2. d.table[t] \in Layout /\ OneChange(d, e, t, m)
    BY <1>1, <1>2, <1>11, <2>1, SetCreator DEF TableOps
  <2>3. d.table[t].creator # "two"
    BY <1>11 DEF Works, h, t
  <2>4. Better(d.table[t], m, h.op)
    BY <1>3, <1>11, <2>2, <2>3, BetterFacts DEF TableOps
  <2>5. m.unique => d.table[t].unique
    BY <2>2 DEF Layout
  <2> HIDE DEF m
  <2>6. Head(s).on = t /\ Head(s).op \notin {"rename", "raise"} /\ t \in Tables
    BY <1>1, <1>11 DEF h, t
  <2>7. e \in Database /\ FormInv(e) /\ MysqlInv(e, Tail(s))
    BY <2>2, <2>4, <2>5, <2>6, OneTable DEF h
  <2> QED BY <2>2, <2>7 DEF Kept, OneChange
<1>12. CASE h.op = "finish"
  <2> DEFINE m == [d.table[t] EXCEPT !.creator = "two"]
  <2>1. e = Set(d, t, "creator", "two")
    BY <1>12 DEF Results, h, t
  <2>2. d.table[t] \in Layout /\ OneChange(d, e, t, m)
    BY <1>1, <1>2, <1>12, <2>1, SetCreator DEF TableOps
  <2>4. Better(d.table[t], m, h.op)
    BY <1>3, <1>12, <2>2, BetterFacts DEF TableOps
  <2>5. m.unique => d.table[t].unique
    BY <2>2 DEF Layout
  <2> HIDE DEF m
  <2>6. Head(s).on = t /\ Head(s).op \notin {"rename", "raise"} /\ t \in Tables
    BY <1>1, <1>12 DEF h, t
  <2>7. e \in Database /\ FormInv(e) /\ MysqlInv(e, Tail(s))
    BY <2>2, <2>4, <2>5, <2>6, OneTable DEF h
  <2> QED BY <2>2, <2>7 DEF Kept, OneChange
<1>13. CASE h.op = "token"
  <2> DEFINE m == [d.table[t] EXCEPT !.token = TRUE]
  <2>1. e = Set(d, t, "token", TRUE)
    BY <1>13 DEF Results, h, t
  <2>2. d.table[t] \in Layout /\ OneChange(d, e, t, m)
    BY <1>1, <1>2, <1>13, <2>1, SetToken DEF TableOps
  <2>4. Better(d.table[t], m, h.op)
    BY <1>3, <1>13, <2>2, BetterFacts DEF TableOps
  <2>5. m.unique => d.table[t].unique
    BY <2>2 DEF Layout
  <2> HIDE DEF m
  <2>6. Head(s).on = t /\ Head(s).op \notin {"rename", "raise"} /\ t \in Tables
    BY <1>1, <1>13 DEF h, t
  <2>7. e \in Database /\ FormInv(e) /\ MysqlInv(e, Tail(s))
    BY <2>2, <2>4, <2>5, <2>6, OneTable DEF h
  <2> QED BY <2>2, <2>7 DEF Kept, OneChange
<1>14. CASE h.op = "unique"
  <2> DEFINE m == [d.table[t] EXCEPT !.unique = TRUE]
  <2>1. e = Set(d, t, "unique", TRUE)
    BY <1>14 DEF Results, h, t
  <2>2. d.table[t] \in Layout /\ OneChange(d, e, t, m)
    BY <1>1, <1>2, <1>14, <2>1, SetUnique DEF TableOps
  <2>4. Better(d.table[t], m, h.op)
    BY <1>3, <1>14, <2>2, BetterFacts DEF TableOps
  <2>5. m.unique => d.table[t].unique \/ ~Duplicates(d.shares)
    BY <1>14 DEF Works, h
  <2> HIDE DEF m
  <2>6. Head(s).on = t /\ Head(s).op \notin {"rename", "raise"} /\ t \in Tables
    BY <1>1, <1>14 DEF h, t
  <2>7. e \in Database /\ FormInv(e) /\ MysqlInv(e, Tail(s))
    BY <2>2, <2>4, <2>5, <2>6, OneTable DEF h
  <2> QED BY <2>2, <2>7 DEF Kept, OneChange
<1> QED BY <1>1, <1>4, <1>5, <1>6, <1>7, <1>8, <1>9, <1>10, <1>11, <1>12, <1>13, <1>14
     DEF MysqlOps

-----------------------------------------------------------------------------
\* SQLite: its plan is the same six steps for every database

SqliteOps == <<"rename", "ids", "creators", "tables", "token", "uniqueness">>

\* What a table is like behind the first n steps.
SqliteLayout(l, t, n) ==
  /\ l.fk = FALSE /\ l.creator \in {"one", "two"}
  /\ t # Shares => l.token /\ l.unique
  /\ t # Artifacts => l.workspace
  /\ n >= 1 => l.name = "dsh"
  /\ n >= 2 => l.id = "row"
  /\ n >= 3 => l.creator = "two" /\ l.workspace
  /\ n >= 5 => l.token
  /\ n >= 6 => l.unique

\* What the database is like, when the migration started from base.
SqliteInv(d, base, n) ==
  /\ d.ordered
  /\ \A t \in Tables : d.table[t] # NoTable => SqliteLayout(d.table[t], t, n)
  /\ n >= 4 => \A t \in Tables : d.table[t] # NoTable
  /\ d.shares = IF n = 6 THEN LatestShares(base.shares) ELSE base.shares

LEMMA OneMore ==
  ASSUME NEW s \in Seq(Statement), NEW h \in Statement
  PROVE  /\ s \o <<h>> \in Seq(Statement) /\ Len(s \o <<h>>) = Len(s) + 1
         /\ \A i \in 1..Len(s) : (s \o <<h>>)[i] = s[i]
         /\ (s \o <<h>>)[Len(s) + 1] = h
<1>1. s \o <<h>> = Append(s, h)
  BY AppendIsConcat
<1> QED BY <1>1, AppendProperties

LEMMA SqlitePlanFacts ==
  /\ SqlitePlan \in Seq(Statement) /\ Len(SqlitePlan) = 6
  /\ \A i \in 1..6 : SqlitePlan[i].op = SqliteOps[i]
  /\ SqlitePlan[5].on = Shares /\ SqlitePlan[6].on = Shares
<1> DEFINE h1 == [op |-> "rename", on |-> Artifacts]
           h2 == [op |-> "ids", on |-> Artifacts]
           h3 == [op |-> "creators", on |-> Artifacts]
           h4 == [op |-> "tables", on |-> Artifacts]
           h5 == [op |-> "token", on |-> Shares]
           h6 == [op |-> "uniqueness", on |-> Shares]
           p1 == <<h1>>
           p2 == p1 \o <<h2>>
           p3 == p2 \o <<h3>>
           p4 == p3 \o <<h4>>
           p5 == p4 \o <<h5>>
           p6 == p5 \o <<h6>>
<1>1. SqlitePlan = p6
  BY DEF SqlitePlan, Do
<1>2. h1 \in Statement /\ h1.op = "rename" /\ h1.on = Artifacts
  BY TableFacts DEF Statement
<1>3. h2 \in Statement /\ h2.op = "ids" /\ h2.on = Artifacts
  BY TableFacts DEF Statement
<1>4. h3 \in Statement /\ h3.op = "creators" /\ h3.on = Artifacts
  BY TableFacts DEF Statement
<1>5. h4 \in Statement /\ h4.op = "tables" /\ h4.on = Artifacts
  BY TableFacts DEF Statement
<1>6. h5 \in Statement /\ h5.op = "token" /\ h5.on = Shares
  BY TableFacts DEF Statement
<1>7. h6 \in Statement /\ h6.op = "uniqueness" /\ h6.on = Shares
  BY TableFacts DEF Statement
<1> HIDE DEF h1, h2, h3, h4, h5, h6
<1>8. p1 \in Seq(Statement) /\ Len(p1) = 1 /\ p1[1] = h1
  BY <1>2
<1>9. p2 = p1 \o <<h2>>
  OBVIOUS
<1> HIDE DEF p2
<1>11. p3 = p2 \o <<h3>>
  OBVIOUS
<1> HIDE DEF p3
<1>13. p4 = p3 \o <<h4>>
  OBVIOUS
<1> HIDE DEF p4
<1>15. p5 = p4 \o <<h5>>
  OBVIOUS
<1> HIDE DEF p5
<1>17. p6 = p5 \o <<h6>>
  OBVIOUS
<1> HIDE DEF p6
<1> HIDE DEF p1
<1>10. p2 \in Seq(Statement) /\ Len(p2) = 2
      /\ p2[1] = h1 /\ p2[2] = h2
  <2> DEFINE n == Len(p1)
  <2>1. p1 \in Seq(Statement) /\ h2 \in Statement /\ n = 1
    BY <1>8, <1>3
  <2>2. /\ p2 \in Seq(Statement) /\ Len(p2) = n + 1
        /\ \A i \in 1..n : p2[i] = p1[i]
        /\ p2[n + 1] = h2
    BY <1>9, <2>1, OneMore
  <2> HIDE DEF n
  <2>3. p2 \in Seq(Statement) /\ Len(p2) = 2 /\ p2[2] = h2
    BY <2>1, <2>2
  <2>4. \A i \in 1..1 : p2[i] = p1[i]
    BY <2>1, <2>2
  <2>5. p2[1] = p1[1]
    BY <2>4
  <2> QED BY <1>8, <2>3, <2>5
<1>12. p3 \in Seq(Statement) /\ Len(p3) = 3
      /\ p3[1] = h1 /\ p3[2] = h2 /\ p3[3] = h3
  <2> DEFINE n == Len(p2)
  <2>1. p2 \in Seq(Statement) /\ h3 \in Statement /\ n = 2
    BY <1>10, <1>4
  <2>2. /\ p3 \in Seq(Statement) /\ Len(p3) = n + 1
        /\ \A i \in 1..n : p3[i] = p2[i]
        /\ p3[n + 1] = h3
    BY <1>11, <2>1, OneMore
  <2> HIDE DEF n
  <2>3. p3 \in Seq(Statement) /\ Len(p3) = 3 /\ p3[3] = h3
    BY <2>1, <2>2
  <2>4. \A i \in 1..2 : p3[i] = p2[i]
    BY <2>1, <2>2
  <2>5. p3[1] = p2[1] /\ p3[2] = p2[2]
    BY <2>4
  <2> QED BY <1>10, <2>3, <2>5
<1>14. p4 \in Seq(Statement) /\ Len(p4) = 4
      /\ p4[1] = h1 /\ p4[2] = h2 /\ p4[3] = h3 /\ p4[4] = h4
  <2> DEFINE n == Len(p3)
  <2>1. p3 \in Seq(Statement) /\ h4 \in Statement /\ n = 3
    BY <1>12, <1>5
  <2>2. /\ p4 \in Seq(Statement) /\ Len(p4) = n + 1
        /\ \A i \in 1..n : p4[i] = p3[i]
        /\ p4[n + 1] = h4
    BY <1>13, <2>1, OneMore
  <2> HIDE DEF n
  <2>3. p4 \in Seq(Statement) /\ Len(p4) = 4 /\ p4[4] = h4
    BY <2>1, <2>2
  <2>4. \A i \in 1..3 : p4[i] = p3[i]
    BY <2>1, <2>2
  <2>5. p4[1] = p3[1] /\ p4[2] = p3[2] /\ p4[3] = p3[3]
    BY <2>4
  <2> QED BY <1>12, <2>3, <2>5
<1>16. p5 \in Seq(Statement) /\ Len(p5) = 5
      /\ p5[1] = h1 /\ p5[2] = h2 /\ p5[3] = h3 /\ p5[4] = h4 /\ p5[5] = h5
  <2> DEFINE n == Len(p4)
  <2>4. p4 \in Seq(Statement) /\ h5 \in Statement /\ n = 4
    BY <1>14, <1>6
  <2>5. /\ p5 \in Seq(Statement) /\ Len(p5) = n + 1
        /\ \A i \in 1..n : p5[i] = p4[i]
        /\ p5[n + 1] = h5
    BY <1>15, <2>4, OneMore
  <2> HIDE DEF n
  <2>1. p5 \in Seq(Statement) /\ Len(p5) = 5 /\ p5[5] = h5
    BY <2>4, <2>5
  <2>2. \A i \in 1..4 : p5[i] = p4[i]
    BY <2>4, <2>5
  <2>3. p5[1] = p4[1] /\ p5[2] = p4[2] /\ p5[3] = p4[3] /\ p5[4] = p4[4]
    BY <2>2
  <2> QED BY <1>14, <2>1, <2>3
<1>18. p6 \in Seq(Statement) /\ Len(p6) = 6
      /\ p6[1] = h1 /\ p6[2] = h2 /\ p6[3] = h3 /\ p6[4] = h4 /\ p6[5] = h5 /\ p6[6] = h6
  <2> DEFINE n == Len(p5)
  <2>4. p5 \in Seq(Statement) /\ h6 \in Statement /\ n = 5
    BY <1>16, <1>7
  <2>5. /\ p6 \in Seq(Statement) /\ Len(p6) = n + 1
        /\ \A i \in 1..n : p6[i] = p5[i]
        /\ p6[n + 1] = h6
    BY <1>17, <2>4, OneMore
  <2> HIDE DEF n
  <2>1. p6 \in Seq(Statement) /\ Len(p6) = 6 /\ p6[6] = h6
    BY <2>4, <2>5
  <2>2. \A i \in 1..5 : p6[i] = p5[i]
    BY <2>4, <2>5
  <2>3. p6[1] = p5[1] /\ p6[2] = p5[2] /\ p6[3] = p5[3] /\ p6[4] = p5[4] /\ p6[5] = p5[5]
    BY <2>2
  <2> QED BY <1>16, <2>1, <2>3
<1>19. /\ SqliteOps[1] = "rename" /\ SqliteOps[2] = "ids" /\ SqliteOps[3] = "creators"
       /\ SqliteOps[4] = "tables" /\ SqliteOps[5] = "token" /\ SqliteOps[6] = "uniqueness"
  BY DEF SqliteOps
<1>20. \A i \in 1..6 : i = 1 \/ i = 2 \/ i = 3 \/ i = 4 \/ i = 5 \/ i = 6
  OBVIOUS
<1>21. /\ p6[1].op = SqliteOps[1] /\ p6[2].op = SqliteOps[2] /\ p6[3].op = SqliteOps[3]
       /\ p6[4].op = SqliteOps[4] /\ p6[5].op = SqliteOps[5] /\ p6[6].op = SqliteOps[6]
  BY <1>2, <1>3, <1>4, <1>5, <1>6, <1>7, <1>18, <1>19
<1>22. \A i \in 1..6 : p6[i].op = SqliteOps[i]
  BY <1>20, <1>21
<1> QED BY <1>1, <1>6, <1>7, <1>18, <1>22

LEMMA RestFacts ==
  ASSUME NEW n \in 0..6, NEW rest, rest = SubSeq(SqlitePlan, n + 1, 6)
  PROVE  /\ rest \in Seq(Statement)
         /\ rest = <<>> <=> n = 6
         /\ n < 6 => Head(rest).op = SqliteOps[n + 1] /\ Tail(rest) = SubSeq(SqlitePlan, n + 2, 6)
         /\ n \in {4, 5} => Head(rest).on = Shares
<1>1. ASSUME NEW i \in n + 1..6 PROVE SqlitePlan[i] \in Statement
  <2>1. i \in 1..Len(SqlitePlan)
    BY SqlitePlanFacts
  <2> QED BY <2>1, SqlitePlanFacts, ElementOfSeq
<1>2. rest \in Seq(Statement) /\ Len(rest) = IF n + 1 <= 6 THEN 6 - (n + 1) + 1 ELSE 0
  <2> DEFINE m == n + 1
             k == 6
  <2>1. m \in Int /\ k \in Int
    OBVIOUS
  <2>2. \A i \in m..k : SqlitePlan[i] \in Statement
    BY <1>1
  <2> HIDE DEF m, k
  <2>3. /\ SubSeq(SqlitePlan, m, k) \in Seq(Statement)
        /\ Len(SubSeq(SqlitePlan, m, k)) = IF m <= k THEN k - m + 1 ELSE 0
    BY <2>1, <2>2, SubSeqProperties
  <2> QED BY <2>3 DEF m, k
<1>3. CASE n = 6
  <2>1. Len(rest) = 0
    BY <1>2, <1>3
  <2>2. rest = <<>>
    BY <1>2, <2>1, EmptySeq
  <2> QED BY <1>2, <1>3, <2>2
<1>4. CASE n < 6
  <2>1. n + 1 \in 1..Len(SqlitePlan) /\ 6 \in n + 1..Len(SqlitePlan)
    BY <1>4, SqlitePlanFacts
  <2>2. Head(rest) = SqlitePlan[n + 1] /\ Tail(rest) = SubSeq(SqlitePlan, n + 1 + 1, 6)
    BY <2>1, SqlitePlanFacts, HeadTailOfSubSeq
  <2>3. rest # <<>>
    <3>1. Len(rest) > 0
      BY <1>2, <1>4
    <3>2. ASSUME rest = <<>> PROVE FALSE
      <4>1. Len(rest) = Len(<<>>)
        BY <3>2, Zenon
      <4>2. Len(<<>>) = 0
        OBVIOUS
      <4> QED BY <3>1, <4>1, <4>2
    <3> QED BY <3>2
  <2>4. n + 1 + 1 = n + 2 /\ n + 1 \in 1..6
    BY <1>4
  <2>5. n = 4 => n + 1 = 5
    OBVIOUS
  <2>6. n = 5 => n + 1 = 6
    OBVIOUS
  <2>7. Head(rest).op = SqliteOps[n + 1]
    BY <2>2, <2>4, SqlitePlanFacts
  <2>8. Tail(rest) = SubSeq(SqlitePlan, n + 2, 6)
    BY <2>2, <2>4
  <2>9. n \in {4, 5} => Head(rest).on = Shares
    BY <2>2, <2>5, <2>6, SqlitePlanFacts
  <2>10. (rest = <<>>) <=> n = 6
    BY <1>4, <2>3
  <2> QED BY <1>2, <2>7, <2>8, <2>9, <2>10
<1>5. n = 6 \/ n < 6
  OBVIOUS
<1> QED BY <1>3, <1>4, <1>5

LEMMA CreatedFacts ==
  ASSUME NEW d \in Database, NEW e, e = Created(d)
  PROVE  /\ e \in Database /\ e.shares = d.shares /\ e.ordered = d.ordered
         /\ \A t \in Tables : e.table[t] = IF d.table[t] = NoTable THEN Fresh(t) ELSE d.table[t]
<1> DEFINE new == [t \in Tables |-> IF d.table[t] = NoTable THEN Fresh(t) ELSE d.table[t]]
<1>1. e = [d EXCEPT !.table = new] /\ d.table \in [Tables -> Layout \cup {NoTable}]
  BY DEF Created, Database
<1>2. new \in [Tables -> Layout \cup {NoTable}]
  BY <1>1, FreshFacts
<1>3. e.table = new /\ e.shares = d.shares /\ e.ordered = d.ordered /\ e \in Database
  <2> HIDE DEF new
  <2> QED BY <1>1, <1>2 DEF Database
<1> QED BY <1>3

LEMMA RebuiltFacts ==
  ASSUME NEW d \in Database, NEW old \in SUBSET Tables, NEW e, e = Rebuilt(d, old)
  PROVE  /\ e \in Database /\ e.shares = d.shares /\ e.ordered = d.ordered
         /\ \A t \in Tables : e.table[t] = IF t \in old \/ d.table[t] = NoTable THEN Fresh(t)
                                           ELSE d.table[t]
<1> DEFINE less == [t \in Tables |-> IF t \in old THEN NoTable ELSE d.table[t]]
           f    == [d EXCEPT !.table = less]
<1>1. e = Created(f) /\ d.table \in [Tables -> Layout \cup {NoTable}]
  BY DEF Rebuilt, Database
<1>2. less \in [Tables -> Layout \cup {NoTable}]
  BY <1>1
<1>3. f.table = less /\ f.shares = d.shares /\ f.ordered = d.ordered /\ f \in Database
  <2> HIDE DEF less
  <2> QED BY <1>1, <1>2 DEF Database
<1> HIDE DEF f
<1>4. /\ e \in Database /\ e.shares = d.shares /\ e.ordered = d.ordered
      /\ \A t \in Tables : e.table[t] = IF f.table[t] = NoTable THEN Fresh(t) ELSE f.table[t]
  BY <1>1, <1>3, CreatedFacts
<1> QED BY <1>3, <1>4

LEMMA FreshIsSqlite ==
  ASSUME backend = "sqlite", NEW t \in Tables, NEW n \in 0..5
  PROVE  SqliteLayout(Fresh(t), t, n) /\ Fresh(t) # NoTable
<1>1. /\ Fresh(t).name = "dsh" /\ Fresh(t).id = "row" /\ Fresh(t).fk = FALSE
      /\ Fresh(t).creator = "two" /\ Fresh(t).workspace = TRUE /\ Fresh(t).token = TRUE
      /\ t # Shares => Fresh(t).unique
      /\ Fresh(t) # NoTable
  BY FreshFacts
<1> QED BY <1>1 DEF SqliteLayout

\* Each of the six steps does its part.
LEMMA SqliteStep ==
  ASSUME backend = "sqlite", NEW d \in Database, NEW base \in Database, NEW n \in 0..5,
         SqliteInv(d, base, n), NEW h, h.op = SqliteOps[n + 1], n \in {4, 5} => h.on = Shares,
         Works(d, h), NEW e \in Results(d, h)
  PROVE  e \in Database /\ SqliteInv(e, base, n + 1)
<1>1. \A t \in Tables : d.table[t] # NoTable => d.table[t] \in Layout
  BY DEF Database
<1>2. CASE n = 0
  <2>1. h.op = "rename"
    BY <1>2 DEF SqliteOps
  <2>2. e = Renamed(d)
    BY <2>1 DEF Results
  <2> DEFINE new == [t \in Tables |-> IF d.table[t] = NoTable THEN NoTable
                                      ELSE [d.table[t] EXCEPT !.name = "dsh"]]
  <2>3. d.table \in [Tables -> Layout \cup {NoTable}] /\ e = [d EXCEPT !.table = new]
    BY <2>2 DEF Renamed, Database
  <2>4. \A l \in Layout : [l EXCEPT !.name = "dsh"] \in Layout
    BY DEF Layout
  <2>5. new \in [Tables -> Layout \cup {NoTable}]
    BY <2>3, <2>4
  <2>6. e.table = new /\ e.shares = d.shares /\ e.ordered = d.ordered /\ e \in Database
    <3> HIDE DEF new
    <3> QED BY <2>3, <2>5 DEF Database
  <2>7. ASSUME NEW t \in Tables, e.table[t] # NoTable
        PROVE  SqliteLayout(e.table[t], t, 1)
    <3>1. d.table[t] \in Layout /\ e.table[t] = [d.table[t] EXCEPT !.name = "dsh"]
      BY <1>1, <2>6, <2>7
    <3>2. SqliteLayout(d.table[t], t, 0)
      BY <1>2, <3>1, MigrationAssumption DEF SqliteInv
    <3> QED BY <3>1, <3>2 DEF SqliteLayout, Layout
  <2> QED BY <1>2, <2>6, <2>7 DEF SqliteInv
<1>3. CASE n = 1
  <2> DEFINE old == Having(d, "id", {"uuid"})
  <2>1. h.op = "ids"
    BY <1>3 DEF SqliteOps
  <2>2. e = IF old = {} THEN d ELSE Rebuilt(d, old)
    BY <2>1 DEF Results
  <2>3. old \in SUBSET Tables /\ \A t \in Tables : t \in old <=> d.table[t] # NoTable /\ d.table[t].id = "uuid"
    BY DEF Having, Present
  <2> HIDE DEF old
  <2>4. /\ e \in Database /\ e.shares = d.shares /\ e.ordered = d.ordered
        /\ \A t \in Tables : e.table[t] # NoTable =>
             e.table[t] = Fresh(t) \/ (t \notin old /\ e.table[t] = d.table[t])
    BY <2>2, <2>3, RebuiltFacts
  <2>5. ASSUME NEW t \in Tables, e.table[t] # NoTable
        PROVE  SqliteLayout(e.table[t], t, 2)
    <3>1. CASE e.table[t] = Fresh(t)
      BY <3>1, FreshIsSqlite
    <3>2. CASE t \notin old /\ e.table[t] = d.table[t]
      <4>1. SqliteLayout(d.table[t], t, 1) /\ d.table[t] \in Layout
        BY <1>1, <1>3, <2>5, <3>2 DEF SqliteInv
      <4>2. d.table[t].id = "row"
        BY <2>3, <2>5, <3>2, <4>1 DEF Layout
      <4> QED BY <3>2, <4>1, <4>2 DEF SqliteLayout
    <3> QED BY <2>4, <2>5, <3>1, <3>2
  <2> QED BY <1>3, <2>4, <2>5 DEF SqliteInv
<1>4. CASE n = 2
  <2> DEFINE old == Having(d, "creator", {"one", "added", "filled"})
  <2>1. h.op = "creators"
    BY <1>4 DEF SqliteOps
  <2>2. e = IF old # {} THEN Rebuilt(d, old)
            ELSE IF d.table[Artifacts] = NoTable THEN d
            ELSE Set(d, Artifacts, "workspace", TRUE)
    BY <2>1 DEF Results
  <2>3. \A t \in Tables : d.table[t] # NoTable => SqliteLayout(d.table[t], t, 2)
    BY <1>4 DEF SqliteInv
  <2>4. old \in SUBSET Tables /\ \A t \in Tables : t \in old <=> d.table[t] # NoTable /\ d.table[t].creator = "one"
    BY <2>3 DEF Having, Present, SqliteLayout
  <2>5. ~MixedCreators(d)
    BY <2>1 DEF Works
  <2>6. CASE old # {}
    <3>1. \A t \in Tables : d.table[t] # NoTable => t \in old
      BY <2>3, <2>5, <2>6 DEF MixedCreators, Having, Present, SqliteLayout
    <3> HIDE DEF old
    <3>2. /\ e \in Database /\ e.shares = d.shares /\ e.ordered = d.ordered
          /\ \A t \in Tables : e.table[t] = Fresh(t)
      BY <2>2, <2>4, <2>6, <3>1, RebuiltFacts
    <3>3. \A t \in Tables : SqliteLayout(e.table[t], t, 3)
      BY <3>2, FreshIsSqlite
    <3> QED BY <1>4, <3>2, <3>3 DEF SqliteInv
  <2>7. CASE old = {}
    <3>1. \A t \in Tables : d.table[t] # NoTable => d.table[t].creator = "two"
      BY <2>3, <2>4, <2>7 DEF SqliteLayout
    <3> HIDE DEF old
    <3>2. CASE d.table[Artifacts] = NoTable
      <4>1. e = d
        BY <2>2, <2>7, <3>2
      <4>2. ASSUME NEW t \in Tables, d.table[t] # NoTable PROVE SqliteLayout(d.table[t], t, 3)
        BY <2>3, <3>1, <3>2, <4>2 DEF SqliteLayout
      <4> QED BY <1>4, <4>1, <4>2 DEF SqliteInv
    <3>3. CASE d.table[Artifacts] # NoTable
      <4>1. e = Set(d, Artifacts, "workspace", TRUE)
        BY <2>2, <2>7, <3>3
      <4>2. OneChange(d, e, Artifacts, [d.table[Artifacts] EXCEPT !.workspace = TRUE])
        BY <1>1, <3>3, <4>1, SetWorkspace, TableFacts
      <4>3. ASSUME NEW t \in Tables, e.table[t] # NoTable PROVE SqliteLayout(e.table[t], t, 3)
        <5>1. CASE t = Artifacts
          BY <1>1, <2>3, <3>1, <3>3, <4>2, <5>1 DEF OneChange, SqliteLayout, Layout
        <5>2. CASE t # Artifacts
          BY <2>3, <3>1, <4>2, <4>3, <5>2 DEF OneChange, SqliteLayout
        <5> QED BY <5>1, <5>2
      <4> QED BY <1>4, <4>2, <4>3 DEF SqliteInv, OneChange
    <3> QED BY <3>2, <3>3
  <2> QED BY <2>6, <2>7
<1>5. CASE n = 3
  <2>1. h.op = "tables"
    BY <1>5 DEF SqliteOps
  <2>2. e = Created(d)
    BY <2>1 DEF Results
  <2>3. /\ e \in Database /\ e.shares = d.shares /\ e.ordered = d.ordered
        /\ \A t \in Tables : e.table[t] = IF d.table[t] = NoTable THEN Fresh(t) ELSE d.table[t]
    BY <2>2, CreatedFacts
  <2>4. ASSUME NEW t \in Tables PROVE SqliteLayout(e.table[t], t, 4) /\ e.table[t] # NoTable
    <3>1. CASE d.table[t] = NoTable
      BY <2>3, <3>1, FreshIsSqlite
    <3>2. CASE d.table[t] # NoTable
      BY <1>5, <2>3, <3>2 DEF SqliteInv, SqliteLayout
    <3> QED BY <3>1, <3>2
  <2> QED BY <1>5, <2>3, <2>4 DEF SqliteInv
<1>6. CASE n = 4
  <2>1. h.op = "token" /\ h.on = Shares
    BY <1>6 DEF SqliteOps
  <2>2. e = Set(d, Shares, "token", TRUE)
    BY <2>1 DEF Results
  <2>3. \A t \in Tables : d.table[t] \in Layout /\ SqliteLayout(d.table[t], t, 4)
    BY <1>1, <1>6 DEF SqliteInv
  <2>4. OneChange(d, e, Shares, [d.table[Shares] EXCEPT !.token = TRUE])
    BY <2>2, <2>3, SetToken, TableFacts
  <2>5. ASSUME NEW t \in Tables PROVE SqliteLayout(e.table[t], t, 5) /\ e.table[t] # NoTable
    <3>1. CASE t = Shares
      BY <2>3, <2>4, <3>1, MigrationAssumption DEF OneChange, SqliteLayout, Layout
    <3>2. CASE t # Shares
      BY <2>3, <2>4, <3>2, MigrationAssumption DEF OneChange, SqliteLayout
    <3> QED BY <3>1, <3>2
  <2> QED BY <1>6, <2>4, <2>5 DEF SqliteInv, OneChange
<1>7. CASE n = 5
  <2>1. h.op = "uniqueness" /\ h.on = Shares
    BY <1>7 DEF SqliteOps
  <2>2. PICK S \in Deduplicated(d) : e = Set([d EXCEPT !.shares = S], Shares, "unique", TRUE)
    BY <2>1 DEF Results
  <2>3. S = LatestShares(d.shares)
    BY <2>2 DEF Deduplicated, SqliteInv
  <2> DEFINE f == [d EXCEPT !.shares = S]
  <2>4. f \in Database /\ f.table = d.table /\ f.shares = S /\ f.ordered = d.ordered
    BY <2>3 DEF Database, LatestShares
  <2>5. e = Set(f, Shares, "unique", TRUE)
    BY <2>2
  <2> HIDE DEF f
  <2>6. \A t \in Tables : f.table[t] \in Layout /\ SqliteLayout(f.table[t], t, 5)
    BY <1>1, <1>7, <2>4 DEF SqliteInv
  <2>7. OneChange(f, e, Shares, [f.table[Shares] EXCEPT !.unique = TRUE])
    BY <2>4, <2>5, <2>6, SetUnique, TableFacts
  <2>8. ASSUME NEW t \in Tables PROVE SqliteLayout(e.table[t], t, 6) /\ e.table[t] # NoTable
    <3>1. CASE t = Shares
      BY <2>6, <2>7, <3>1, MigrationAssumption DEF OneChange, SqliteLayout, Layout
    <3>2. CASE t # Shares
      BY <2>6, <2>7, <3>2, MigrationAssumption DEF OneChange, SqliteLayout
    <3> QED BY <3>1, <3>2
  <2>9. base.shares = d.shares
    BY <1>7 DEF SqliteInv
  <2> QED BY <1>7, <2>3, <2>4, <2>7, <2>8, <2>9 DEF SqliteInv, OneChange
<1> QED BY <1>2, <1>3, <1>4, <1>5, <1>6, <1>7

-----------------------------------------------------------------------------
\* The shares that stay

\* VersionKeepsShare, of d instead of what is on disk.
KeepInv(d) ==
  \A s \in DOMAIN versionOf :
    \E k \in d.shares : versionOf[k] = versionOf[s] /\ (d.ordered => k >= s)

\* Each share's version has a latest share.
LEMMA LatestExists ==
  ASSUME NEW S \in SUBSET (1..MaxShares), NEW s \in S
  PROVE  \E m \in LatestShares(S) : versionOf[m] = versionOf[s] /\ m >= s
<1> DEFINE same == {k \in S : versionOf[k] = versionOf[s]}
           T == {n \in Nat : \E k \in same : n = MaxShares - k}
<1>1. MaxShares \in Nat /\ \A k \in S : k \in 1..MaxShares
  BY MigrationAssumption
<1>2. \A k \in same : k \in 1..MaxShares /\ MaxShares - k \in Nat
  BY <1>1
<1>3. s \in same
  OBVIOUS
<1>4. T \subseteq Nat /\ T # {}
  BY <1>2, <1>3
<1>5. PICK x \in T : \A y \in T : ~(<<y, x>> \in OpToRel(<, Nat))
  <2> HIDE DEF T
  <2> QED BY <1>4, NatLessThanWellFounded, WFMin
<1>6. \A y \in T : ~(y < x)
  BY <1>4, <1>5 DEF OpToRel
<1>7. PICK m \in same : x = MaxShares - m
  OBVIOUS
<1>8. ASSUME NEW k \in same PROVE k <= m
  <2>1. MaxShares - k \in T
    BY <1>2
  <2>2. ~(MaxShares - k < MaxShares - m)
    BY <1>6, <1>7, <2>1
  <2> QED BY <1>1, <1>2, <2>2
<1>9. m \in LatestShares(S)
  BY <1>8 DEF LatestShares
<1>10. m >= s
  BY <1>1, <1>2, <1>3, <1>8
<1> QED BY <1>9, <1>10

LEMMA LatestIsUnique ==
  ASSUME NEW S \in SUBSET (1..MaxShares)
  PROVE  ~Duplicates(LatestShares(S)) /\ LatestShares(S) \subseteq S
<1>1. ASSUME NEW s \in LatestShares(S), NEW k \in LatestShares(S), versionOf[s] = versionOf[k]
      PROVE  s = k
  <2>1. s \in 1..MaxShares /\ k \in 1..MaxShares /\ s <= k /\ k <= s
    BY <1>1 DEF LatestShares
  <2> QED BY <2>1, MigrationAssumption
<1> QED BY <1>1 DEF Duplicates, LatestShares

LEMMA KeptKeeps ==
  ASSUME NEW d \in Database, NEW e, KeepInv(d), Kept(d, e), DOMAIN versionOf \subseteq Nat
  PROVE  KeepInv(e)
<1> SUFFICES ASSUME NEW s \in DOMAIN versionOf
             PROVE  \E k \in e.shares : versionOf[k] = versionOf[s] /\ (e.ordered => k >= s)
  BY DEF KeepInv
<1>1. PICK k \in d.shares : versionOf[k] = versionOf[s] /\ (d.ordered => k >= s)
  BY DEF KeepInv
<1>2. CASE e.shares = d.shares /\ (e.ordered => d.ordered)
  BY <1>1, <1>2
<1>3. CASE e.shares \in Deduplicated(d) /\ e.ordered = d.ordered
  <2>1. CASE d.ordered
    <3>1. e.shares = LatestShares(d.shares) /\ d.shares \in SUBSET (1..MaxShares)
      BY <1>3, <2>1 DEF Deduplicated, Database
    <3>2. PICK m \in LatestShares(d.shares) : versionOf[m] = versionOf[k] /\ m >= k
      BY <3>1, LatestExists
    <3>3. m \in Nat /\ k \in Nat
      BY <3>1, <3>2 DEF LatestShares
    <3>4. m \in e.shares /\ versionOf[m] = versionOf[s]
      BY <1>1, <3>1, <3>2
    <3>5. m >= s
      <4>1. s \in Nat
        OBVIOUS
      <4> QED BY <1>1, <2>1, <3>2, <3>3, <4>1
    <3> QED BY <3>4, <3>5
  <2>2. CASE ~d.ordered
    BY <1>1, <1>3, <2>2 DEF Deduplicated
  <2> QED BY <2>1, <2>2
<1> QED BY <1>2, <1>3 DEF Kept

-----------------------------------------------------------------------------
\* The process

MysqlPart ==
  backend = "mysql" =>
    /\ FormInv(disk) /\ KeepInv(work)
    /\ pc = "migrate" => FormInv(work) /\ MysqlInv(work, todo)

SqlitePart ==
  backend = "sqlite" =>
    /\ SqliteInv(disk, disk, 0)
    /\ pc = "migrate" =>
         \E n \in 0..6 : todo = SubSeq(SqlitePlan, n + 1, 6) /\ SqliteInv(work, disk, n)

MigrationInv == TypeOK /\ KeepInv(disk) /\ ServesCurrentSchema /\ MysqlPart /\ SqlitePart

\* What has no deficiency is today's schema.
LEMMA IsCurrent ==
  ASSUME NEW d \in Database,
         \A t \in Tables :
           /\ d.table[t] # NoTable
           /\ d.table[t].name = "dsh" /\ d.table[t].id = "row" /\ ~d.table[t].fk
           /\ d.table[t].creator = "two" /\ d.table[t].workspace /\ d.table[t].token
           /\ d.table[t].unique
  PROVE  d.table = Current
<1>1. d.table \in [Tables -> Layout \cup {NoTable}]
  BY DEF Database
<1>2. ASSUME NEW t \in Tables PROVE d.table[t] = Current[t]
  <2>1. d.table[t] \in Layout
    BY <1>1
  <2>2. Current[t] = [name |-> "dsh", id |-> "row", fk |-> FALSE, creator |-> "two",
                      workspace |-> TRUE, token |-> TRUE, unique |-> TRUE]
    BY DEF Current, Fresh
  <2>3. /\ d.table[t].fk = FALSE /\ d.table[t].workspace = TRUE /\ d.table[t].token = TRUE
        /\ d.table[t].unique = TRUE
    BY <2>1 DEF Layout
  <2> QED BY <2>1, <2>2, <2>3 DEF Layout
<1>3. Current = [t \in Tables |-> Current[t]]
  BY DEF Current
<1> QED BY <1>1, <1>2, <1>3

\* When MySQL's plan is done.
LEMMA MysqlDone ==
  ASSUME NEW d \in Database, FormInv(d), MysqlInv(d, <<>>)
  PROVE  d.table = Current /\ ~Duplicates(d.shares)
<1>1. \A o, t : ~Has(<<>>, o, t)
  BY DEF Has
<1>2. ASSUME NEW t \in Tables
      PROVE  /\ d.table[t] # NoTable
             /\ d.table[t].name = "dsh" /\ d.table[t].id = "row" /\ ~d.table[t].fk
             /\ d.table[t].creator = "two" /\ d.table[t].workspace /\ d.table[t].token
             /\ d.table[t].unique
  <2>1. d.table[t] # NoTable
    BY <1>1 DEF MysqlInv, Supplied
  <2>2. d.table[t] \in Layout
    BY <2>1 DEF Database
  <2>3. d.table[t].name # "legacy" /\ d.table[t].id # "uuid" /\ d.table[t].creator = "two"
    BY <1>1, <2>1 DEF MysqlInv, Supplied
  <2>4. ~d.table[t].fk
    BY <1>1, <2>1 DEF MysqlInv, Supplied
  <2>5. d.table[t].workspace
    BY <1>1, <2>1 DEF MysqlInv, Supplied
  <2>6. d.table[t].token /\ d.table[t].unique
    BY <1>1, <2>1 DEF MysqlInv, Supplied
  <2>7. d.table[t].name = "dsh" /\ d.table[t].id = "row"
    BY <2>2, <2>3 DEF Layout
  <2> QED BY <2>1, <2>3, <2>4, <2>5, <2>6, <2>7
<1>3. d.table = Current
  BY <1>2, IsCurrent
<1>4. ~Duplicates(d.shares)
  BY <1>2, TableFacts DEF FormInv
<1> QED BY <1>3, <1>4

\* When SQLite's is.
LEMMA SqliteDone ==
  ASSUME NEW d \in Database, NEW base \in Database, base.ordered, SqliteInv(d, base, 6)
  PROVE  /\ d = Migrated(base) /\ ~Duplicates(d.shares)
         /\ Kept(base, d) /\ SqliteInv(d, d, 0)
<1>1. \A t \in Tables : d.table[t] # NoTable /\ SqliteLayout(d.table[t], t, 6)
  BY DEF SqliteInv
<1>2. ASSUME NEW t \in Tables
      PROVE  /\ d.table[t] # NoTable
             /\ d.table[t].name = "dsh" /\ d.table[t].id = "row" /\ ~d.table[t].fk
             /\ d.table[t].creator = "two" /\ d.table[t].workspace /\ d.table[t].token
             /\ d.table[t].unique
  BY <1>1 DEF SqliteLayout
<1>3. d.table = Current
  BY <1>2, IsCurrent
<1>4. d.ordered /\ d.shares = LatestShares(base.shares)
  BY DEF SqliteInv
<1>5. d.ordered = TRUE /\ base.ordered = TRUE
  BY <1>4 DEF Database
<1>6. d = Migrated(base)
  BY <1>3, <1>4, <1>5 DEF Migrated, Database
<1>7. ~Duplicates(d.shares)
  BY <1>4, LatestIsUnique DEF Database
<1>8. Kept(base, d)
  BY <1>4, <1>5 DEF Kept, Deduplicated
<1>9. ASSUME NEW t \in Tables PROVE SqliteLayout(d.table[t], t, 0)
  BY <1>1 DEF SqliteLayout
<1>10. SqliteInv(d, d, 0)
  BY <1>4, <1>9 DEF SqliteInv
<1> QED BY <1>6, <1>7, <1>8, <1>10

LEMMA InitKeeps == Init => MigrationInv
<1> SUFFICES ASSUME Init PROVE MigrationInv
  OBVIOUS
<1>1. PICK n \in 0..MaxShares : versionOf \in [1..n -> Versions]
  BY DEF Init
<1>2. PICK present \in {{}, Tables \ {"dsh_uploads"}, Tables},
           old \in [name : {"legacy", "dsh"}, id : {"uuid", "row"}, creator : {"one", "two"},
                   workspace : BOOLEAN, token : BOOLEAN, unique : BOOLEAN] :
       /\ Shares \in present \/ versionOf = <<>>
       /\ disk = [table |-> [t \in Tables |->
                    IF t \notin present THEN NoTable
                    ELSE [name |-> old.name, id |-> old.id,
                          fk |-> backend = "mysql" /\ old.id = "uuid" /\ t # Artifacts,
                          creator |-> old.creator,
                          workspace |-> t # Artifacts \/ old.workspace,
                          token |-> t # Shares \/ old.token,
                          unique |-> t # Shares \/ old.unique]],
                  shares |-> DOMAIN versionOf,
                  ordered |-> TRUE]
       /\ old.unique => ~Duplicates(disk.shares)
  BY DEF Init
<1> DEFINE row(t) == [name |-> old.name, id |-> old.id,
                      fk |-> backend = "mysql" /\ old.id = "uuid" /\ t # Artifacts,
                      creator |-> old.creator,
                      workspace |-> t # Artifacts \/ old.workspace,
                      token |-> t # Shares \/ old.token,
                      unique |-> t # Shares \/ old.unique]
<1>3. backend \in {"sqlite", "mysql"} /\ work = disk /\ todo = <<>> /\ pc = "down" /\ crashes = 0
  BY DEF Init
<1>4. disk.shares = DOMAIN versionOf /\ disk.ordered = TRUE
  BY <1>2
<1>5. \A t \in Tables : disk.table[t] = IF t \in present THEN row(t) ELSE NoTable
  BY <1>2
<1>6. \A t \in Tables :
        /\ row(t) \in Layout /\ row(t) # NoTable
        /\ row(t).fk = (backend = "mysql" /\ old.id = "uuid" /\ t # Artifacts)
        /\ row(t).id = old.id /\ row(t).creator \in {"one", "two"}
        /\ row(t).workspace = (t # Artifacts \/ old.workspace)
        /\ row(t).token = (t # Shares \/ old.token)
        /\ row(t).unique = (t # Shares \/ old.unique)
  <2> SUFFICES ASSUME NEW t \in Tables
               PROVE  /\ row(t) \in Layout /\ row(t) # NoTable
                      /\ row(t).fk = (backend = "mysql" /\ old.id = "uuid" /\ t # Artifacts)
                      /\ row(t).id = old.id /\ row(t).creator \in {"one", "two"}
                      /\ row(t).workspace = (t # Artifacts \/ old.workspace)
                      /\ row(t).token = (t # Shares \/ old.token)
                      /\ row(t).unique = (t # Shares \/ old.unique)
    OBVIOUS
  <2> DEFINE fk == backend = "mysql" /\ old.id = "uuid" /\ t # Artifacts
             ws == t # Artifacts \/ old.workspace
             tk == t # Shares \/ old.token
             un == t # Shares \/ old.unique
  <2>1. fk \in BOOLEAN /\ ws \in BOOLEAN /\ tk \in BOOLEAN /\ un \in BOOLEAN
    OBVIOUS
  <2>2. /\ old.name \in {"legacy", "dsh"} /\ old.id \in {"uuid", "row"}
        /\ old.creator \in {"one", "two"}
    OBVIOUS
  <2>3. row(t) = [name |-> old.name, id |-> old.id, fk |-> fk, creator |-> old.creator,
                  workspace |-> ws, token |-> tk, unique |-> un]
    OBVIOUS
  <2>4. /\ row(t).fk = fk /\ row(t).workspace = ws /\ row(t).token = tk /\ row(t).unique = un
        /\ row(t).id = old.id /\ row(t).creator = old.creator
    BY Zenon
  <2> HIDE DEF fk, ws, tk, un, row
  <2>5. row(t) \in Layout
    BY <2>1, <2>2, <2>3 DEF Layout
  <2>6. row(t) # NoTable
    BY <2>5, MigrationAssumption
  <2> USE DEF fk, ws, tk, un
  <2> QED BY <2>2, <2>4, <2>5, <2>6
<1>7. DOMAIN versionOf = 1..n /\ DOMAIN versionOf \in SUBSET (1..MaxShares) /\ DOMAIN versionOf \subseteq Nat
  BY <1>1, MigrationAssumption
<1> HIDE DEF row
<1>8. disk \in Database
  <2> DEFINE tables == [t \in Tables |-> IF t \in present THEN row(t) ELSE NoTable]
  <2>1. disk = [table |-> tables, shares |-> DOMAIN versionOf, ordered |-> TRUE]
    BY <1>2 DEF row
  <2>2. tables \in [Tables -> Layout \cup {NoTable}]
    BY <1>6
  <2> HIDE DEF tables
  <2> QED BY <1>7, <2>1, <2>2 DEF Database
<1>9. TypeOK
  BY <1>1, <1>3, <1>8, MigrationAssumption DEF TypeOK
<1>10. KeepInv(disk)
  <2>1. \A s \in DOMAIN versionOf : s >= s
    BY <1>7
  <2> QED BY <1>4, <2>1 DEF KeepInv
<1>11. FormInv(disk)
  <2>1. \A t \in Tables : disk.table[t] # NoTable =>
          /\ disk.table[t].fk => disk.table[t].id = "uuid" /\ t # Artifacts
          /\ t # Shares => disk.table[t].token /\ disk.table[t].unique
    BY <1>5, <1>6
  <2>2. disk.table[Shares] = NoTable => disk.shares = {}
    <3>1. SUFFICES ASSUME disk.table[Shares] = NoTable PROVE disk.shares = {}
      OBVIOUS
    <3>2. Shares \notin present
      BY <1>5, <1>6, <3>1, TableFacts
    <3>3. versionOf = <<>>
      BY <1>2, <3>2
    <3> QED BY <1>4, <3>3
  <2>3. disk.table[Shares] # NoTable /\ disk.table[Shares].unique => ~Duplicates(disk.shares)
    BY <1>2, <1>5, <1>6, TableFacts
  <2> QED BY <2>1, <2>2, <2>3 DEF FormInv
<1>12. ASSUME backend = "sqlite" PROVE SqliteInv(disk, disk, 0)
  <2>1. \A t \in Tables : disk.table[t] # NoTable =>
          /\ disk.table[t].fk = FALSE /\ disk.table[t].creator \in {"one", "two"}
          /\ t # Shares => disk.table[t].token /\ disk.table[t].unique
          /\ t # Artifacts => disk.table[t].workspace
    BY <1>5, <1>6, <1>12
  <2> QED BY <1>4, <2>1 DEF SqliteInv, SqliteLayout
<1> QED BY <1>3, <1>9, <1>10, <1>11, <1>12
     DEF MigrationInv, ServesCurrentSchema, MysqlPart, SqlitePart

\* The plan is for what is on disk, which is what the transaction sees first.
LEMMA StartKeeps == MigrationInv /\ Start => MigrationInv'
<1> SUFFICES ASSUME MigrationInv, Start PROVE MigrationInv'
  OBVIOUS
<1>1. /\ UNCHANGED <<backend, versionOf, disk, work, crashes>>
      /\ work = disk /\ disk \in Database /\ backend \in {"sqlite", "mysql"}
  BY DEF MigrationInv, TypeOK, Start
<1>2. KeepInv(disk)'
  BY <1>1 DEF MigrationInv, KeepInv
<1>3. CASE backend = "mysql" /\ MixedIds(disk)
  <2>1. pc' = "refused" /\ todo' = <<>>
    BY <1>3 DEF Start
  <2>2. TypeOK'
    BY <1>1, <2>1 DEF MigrationInv, TypeOK
  <2>3. FormInv(disk)' /\ KeepInv(work)'
    BY <1>1, <1>3 DEF MigrationInv, MysqlPart, FormInv, KeepInv, Duplicates
  <2> QED BY <1>1, <1>2, <1>3, <2>1, <2>2, <2>3
       DEF MigrationInv, ServesCurrentSchema, MysqlPart, SqlitePart
<1>4. CASE backend = "mysql" /\ ~MixedIds(disk)
  <2>1. pc' = "migrate" /\ todo' = MysqlPlan(disk)
    BY <1>4 DEF Start
  <2>2. FormInv(disk) /\ MysqlInv(disk, MysqlPlan(disk))
    BY <1>1, <1>4, PlanSupplies DEF MigrationInv, MysqlPart
  <2> DEFINE plan == MysqlPlan(disk)
  <2> HIDE DEF plan
  <2>3. MysqlInv(disk, plan) /\ todo' = plan /\ plan \in Seq(Statement)
    BY <2>1, <2>2 DEF plan, MysqlInv
  <2>4. TypeOK'
    BY <1>1, <2>1, <2>3 DEF MigrationInv, TypeOK
  <2>5. FormInv(disk)' /\ FormInv(work)' /\ KeepInv(work)'
    BY <1>1, <1>4, <2>2 DEF MigrationInv, MysqlPart, FormInv, KeepInv, Duplicates
  <2>6. MysqlInv(work', todo')
    BY <1>1, <2>3
  <2> QED BY <1>1, <1>2, <1>4, <2>1, <2>4, <2>5, <2>6
       DEF MigrationInv, ServesCurrentSchema, MysqlPart, SqlitePart
<1>5. CASE backend = "sqlite"
  <2>1. pc' = "migrate" /\ todo' = SqlitePlan
    BY <1>5 DEF Start
  <2>2. TypeOK'
    BY <1>1, <2>1, SqlitePlanFacts DEF MigrationInv, TypeOK
  <2>3. SqliteInv(disk, disk, 0)
    BY <1>5 DEF MigrationInv, SqlitePart
  <2>4. SqliteInv(disk, disk, 0)'
    BY <1>1, <2>3 DEF SqliteInv, LatestShares
  <2>5. SqliteInv(work, disk, 0)'
    BY <1>1, <2>3 DEF SqliteInv, LatestShares
  <2>6. SqlitePlan = SubSeq(SqlitePlan, 0 + 1, 6)
    <3>1. SqlitePlan = SubSeq(SqlitePlan, 1, Len(SqlitePlan))
      BY SqlitePlanFacts, SubSeqFull
    <3> QED BY <3>1, SqlitePlanFacts
  <2>7. (\E n \in 0..6 : todo = SubSeq(SqlitePlan, n + 1, 6) /\ SqliteInv(work, disk, n))'
    <3>1. 0 \in 0..6
      OBVIOUS
    <3> QED BY <2>1, <2>5, <2>6, <3>1
  <2> QED BY <1>1, <1>2, <1>5, <2>1, <2>2, <2>4, <2>7
       DEF MigrationInv, ServesCurrentSchema, MysqlPart, SqlitePart
<1> QED BY <1>1, <1>3, <1>4, <1>5

\* A statement of either plan keeps its part of the invariant.
LEMMA ExecuteKeeps == MigrationInv /\ Execute => MigrationInv'
<1> SUFFICES ASSUME MigrationInv, Execute PROVE MigrationInv'
  OBVIOUS
<1>1. /\ pc = "migrate" /\ todo # <<>> /\ Works(work, Head(todo))
      /\ work' \in Results(work, Head(todo)) /\ todo' = Tail(todo)
      /\ disk' = IF Commits(Head(todo)) THEN work' ELSE disk
      /\ UNCHANGED <<backend, versionOf, pc, crashes>>
  BY DEF Execute
<1>2. /\ TypeOK /\ disk \in Database /\ work \in Database /\ todo \in Seq(Statement)
      /\ backend \in {"sqlite", "mysql"} /\ DOMAIN versionOf \subseteq Nat
  BY DEF MigrationInv, TypeOK
<1>3. todo' \in Seq(Statement)
  BY <1>1, <1>2, HeadTailProperties
<1>4. PICK e \in Results(work, Head(todo)) : work' = e
  BY <1>1
<1>5. CASE backend = "mysql"
  <2>1. FormInv(disk) /\ KeepInv(disk) /\ KeepInv(work) /\ FormInv(work) /\ MysqlInv(work, todo)
    BY <1>1, <1>5 DEF MigrationInv, MysqlPart
  <2>2. e \in Database /\ FormInv(e) /\ MysqlInv(e, Tail(todo)) /\ Kept(work, e)
    BY <1>1, <1>2, <1>4, <1>5, <2>1, MysqlStep
  <2>3. KeepInv(e)
    BY <1>2, <2>1, <2>2, KeptKeeps
  <2>4. disk' = e \/ disk' = disk
    BY <1>1, <1>4
  <2>5. TypeOK'
    BY <1>1, <1>2, <1>3, <1>4, <2>2, <2>4 DEF TypeOK
  <2>6. KeepInv(work)' /\ KeepInv(disk)'
    BY <1>1, <1>4, <2>1, <2>3, <2>4 DEF KeepInv
  <2>7. FormInv(work)'
    BY <1>1, <1>4, <2>2 DEF FormInv, Duplicates
  <2>8. FormInv(disk)'
    BY <1>1, <2>1, <2>2, <2>4 DEF FormInv, Duplicates
  <2>9. MysqlInv(work, todo)'
    BY <1>1, <1>4, <2>2
  <2> QED BY <1>1, <1>5, <2>5, <2>6, <2>7, <2>8, <2>9
       DEF MigrationInv, ServesCurrentSchema, MysqlPart, SqlitePart
<1>6. CASE backend = "sqlite"
  <2>1. /\ SqliteInv(disk, disk, 0)
        /\ \E n \in 0..6 : todo = SubSeq(SqlitePlan, n + 1, 6) /\ SqliteInv(work, disk, n)
    BY <1>1, <1>6 DEF MigrationInv, SqlitePart
  <2>2. PICK n \in 0..6 : todo = SubSeq(SqlitePlan, n + 1, 6) /\ SqliteInv(work, disk, n)
    BY <2>1
  <2>3. disk' = disk
    BY <1>1, <1>6 DEF Commits
  <2>4. n \in 0..5
    <3>1. n # 6
      BY <1>1, <2>2, RestFacts
    <3> QED BY <3>1
  <2>5. /\ Head(todo).op = SqliteOps[n + 1] /\ Tail(todo) = SubSeq(SqlitePlan, n + 2, 6)
        /\ n \in {4, 5} => Head(todo).on = Shares
    <3> DEFINE rest == todo
    <3>1. rest = SubSeq(SqlitePlan, n + 1, 6)
      BY <2>2
    <3> HIDE DEF rest
    <3>2. n < 6 => Head(rest).op = SqliteOps[n + 1] /\ Tail(rest) = SubSeq(SqlitePlan, n + 2, 6)
      BY <3>1, RestFacts
    <3>3. n \in {4, 5} => Head(rest).on = Shares
      BY <3>1, RestFacts
    <3>4. n < 6
      BY <2>4
    <3> QED BY <3>2, <3>3, <3>4 DEF rest
  <2>6. e \in Database /\ SqliteInv(e, disk, n + 1)
    BY <1>1, <1>2, <1>4, <1>6, <2>2, <2>4, <2>5, SqliteStep
  <2>7. n + 1 \in 0..6 /\ n + 1 + 1 = n + 2
    BY <2>4
  <2>8. TypeOK'
    BY <1>1, <1>2, <1>3, <1>4, <2>3, <2>6 DEF TypeOK
  <2>9. KeepInv(disk)'
    BY <1>1, <2>3 DEF MigrationInv, KeepInv
  <2>10. SqliteInv(disk, disk, 0)'
    BY <1>1, <2>1, <2>3 DEF SqliteInv, LatestShares
  <2>11. (todo = SubSeq(SqlitePlan, n + 1 + 1, 6) /\ SqliteInv(work, disk, n + 1))'
    <3>1. todo' = SubSeq(SqlitePlan, n + 1 + 1, 6)
      BY <1>1, <2>5, <2>7
    <3>2. SqliteInv(work, disk, n + 1)'
      BY <1>1, <1>4, <2>3, <2>6 DEF SqliteInv, LatestShares
    <3> QED BY <3>1, <3>2
  <2>12. (\E m \in 0..6 : todo = SubSeq(SqlitePlan, m + 1, 6) /\ SqliteInv(work, disk, m))'
    BY <2>7, <2>11
  <2> QED BY <1>1, <1>6, <2>8, <2>9, <2>10, <2>12
       DEF MigrationInv, ServesCurrentSchema, MysqlPart, SqlitePart
<1> QED BY <1>2, <1>5, <1>6

\* A failed statement and a death leave what is on disk.
LEMMA StopKeeps == MigrationInv /\ (Fail \/ Crash) => MigrationInv'
<1> SUFFICES ASSUME MigrationInv, Fail \/ Crash PROVE MigrationInv'
  OBVIOUS
<1>1. /\ pc' \in {"refused", "down"} /\ work' = disk /\ todo' = <<>>
      /\ UNCHANGED <<backend, versionOf, disk>>
  BY DEF Fail, Crash
<1>2. crashes' \in 0..MaxCrashes
  BY MigrationAssumption DEF MigrationInv, TypeOK, Fail, Crash
<1>3. TypeOK'
  BY <1>1, <1>2 DEF MigrationInv, TypeOK
<1>4. KeepInv(disk)' /\ KeepInv(work)'
  BY <1>1 DEF MigrationInv, KeepInv
<1>5. backend = "mysql" => FormInv(disk)'
  BY <1>1 DEF MigrationInv, MysqlPart, FormInv, Duplicates
<1>6. backend = "sqlite" => SqliteInv(disk, disk, 0)'
  BY <1>1 DEF MigrationInv, SqlitePart, SqliteInv, LatestShares
<1> QED BY <1>1, <1>3, <1>4, <1>5, <1>6
     DEF MigrationInv, ServesCurrentSchema, MysqlPart, SqlitePart

\* No statement is left: nothing is lacking.
LEMMA CommitFacts ==
  ASSUME MigrationInv, Commit
  PROVE  /\ disk' = work /\ work.table = Current /\ ~Duplicates(work.shares) /\ KeepInv(work)
         /\ backend = "mysql" => FormInv(work)
         /\ backend = "sqlite" => work = Migrated(disk) /\ SqliteInv(work, work, 0)
<1>1. /\ pc = "migrate" /\ todo = <<>> /\ disk' = work /\ KeepInv(disk)
      /\ disk \in Database /\ work \in Database /\ backend \in {"sqlite", "mysql"}
      /\ DOMAIN versionOf \subseteq Nat
  BY DEF Commit, MigrationInv, TypeOK
<1>2. CASE backend = "mysql"
  <2>1. FormInv(work) /\ MysqlInv(work, <<>>) /\ KeepInv(work)
    BY <1>1, <1>2 DEF MigrationInv, MysqlPart
  <2>2. work.table = Current /\ ~Duplicates(work.shares)
    BY <1>1, <2>1, MysqlDone
  <2> QED BY <1>1, <1>2, <2>1, <2>2
<1>3. CASE backend = "sqlite"
  <2>1. PICK n \in 0..6 : todo = SubSeq(SqlitePlan, n + 1, 6) /\ SqliteInv(work, disk, n)
    BY <1>1, <1>3 DEF MigrationInv, SqlitePart
  <2>2. n = 6
    BY <1>1, <2>1, RestFacts
  <2>3. disk.ordered /\ SqliteInv(work, disk, 6)
    BY <1>3, <2>1, <2>2 DEF MigrationInv, SqlitePart, SqliteInv
  <2>4. /\ work = Migrated(disk) /\ ~Duplicates(work.shares)
        /\ Kept(disk, work) /\ SqliteInv(work, work, 0)
    BY <1>1, <2>3, SqliteDone
  <2>5. KeepInv(work)
    BY <1>1, <2>4, KeptKeeps
  <2>6. work.table = Current
    BY <2>4 DEF Migrated
  <2> QED BY <1>1, <1>3, <2>4, <2>5, <2>6
<1> QED BY <1>1, <1>2, <1>3

LEMMA CommitKeeps == MigrationInv /\ Commit => MigrationInv'
<1> SUFFICES ASSUME MigrationInv, Commit PROVE MigrationInv'
  OBVIOUS
<1>1. /\ pc' = "up" /\ disk' = work /\ todo = <<>>
      /\ UNCHANGED <<backend, versionOf, work, todo, crashes>>
  BY DEF Commit
<1>2. /\ work.table = Current /\ ~Duplicates(work.shares) /\ KeepInv(work)
      /\ backend = "mysql" => FormInv(work)
      /\ backend = "sqlite" => SqliteInv(work, work, 0)
  BY CommitFacts
<1>3. TypeOK'
  BY <1>1 DEF MigrationInv, TypeOK
<1>4. KeepInv(disk)' /\ KeepInv(work)'
  BY <1>1, <1>2 DEF KeepInv
<1>5. Current' = Current
  BY <1>1 DEF Current, Fresh
<1>6. (~Duplicates(disk.shares))'
  BY <1>1, <1>2 DEF Duplicates
<1>7. ServesCurrentSchema'
  BY <1>1, <1>2, <1>5, <1>6 DEF ServesCurrentSchema
<1>8. backend = "mysql" => FormInv(disk)'
  BY <1>1, <1>2 DEF FormInv, Duplicates
<1>9. backend = "sqlite" => SqliteInv(disk, disk, 0)'
  BY <1>1, <1>2 DEF SqliteInv, LatestShares
<1> QED BY <1>1, <1>3, <1>4, <1>7, <1>8, <1>9 DEF MigrationInv, MysqlPart, SqlitePart

LEMMA StepKeeps == MigrationInv /\ [Next]_vars => MigrationInv'
<1> SUFFICES ASSUME MigrationInv, [Next]_vars PROVE MigrationInv'
  OBVIOUS
<1>1. CASE Start \/ Execute \/ Fail \/ Commit \/ Crash
  BY <1>1, StartKeeps, ExecuteKeeps, StopKeeps, CommitKeeps
<1>2. CASE UNCHANGED vars
  <2>1. UNCHANGED <<backend, versionOf, disk, work, todo, pc, crashes>>
    BY <1>2 DEF vars
  <2>2. TypeOK'
    BY <2>1 DEF MigrationInv, TypeOK
  <2>3. KeepInv(disk)' /\ (backend = "mysql" => KeepInv(work)')
    BY <2>1 DEF MigrationInv, MysqlPart, KeepInv
  <2>4. ServesCurrentSchema'
    BY <2>1 DEF MigrationInv, ServesCurrentSchema, Current, Fresh, Duplicates
  <2>5. MysqlPart'
    BY <2>1, <2>3 DEF MigrationInv, MysqlPart, FormInv, Duplicates
  <2>6. SqlitePart'
    BY <2>1 DEF MigrationInv, SqlitePart, SqliteInv, LatestShares
  <2> QED BY <2>2, <2>3, <2>4, <2>5, <2>6 DEF MigrationInv
<1> QED BY <1>1, <1>2 DEF Next

-----------------------------------------------------------------------------
\* What a database lacks is supplied by a statement still to come, at any moment
\* of any number of starts and deaths.
THEOREM MigrationInvariant == Spec => []MigrationInv
BY InitKeeps, StepKeeps, PTL DEF Spec

\* Every database the migration leaves is one of the layouts it knows.
THEOREM MigrationTypeCorrect == Spec => []TypeOK
<1>1. MigrationInv => TypeOK
  BY DEF MigrationInv
<1> QED BY <1>1, MigrationInvariant, PTL

\* The Hub serves on today's schema only, with one share per version, whatever
\* schema was found and however many starts were interrupted.
THEOREM OnlyCurrentServes == Spec => []ServesCurrentSchema
<1>1. MigrationInv => ServesCurrentSchema
  BY DEF MigrationInv
<1> QED BY <1>1, MigrationInvariant, PTL

\* No interrupted migration loses the last share of a version.
THEOREM VersionsKeepShares == Spec => []VersionKeepsShare
<1>1. MigrationInv => VersionKeepsShare
  BY DEF MigrationInv, KeepInv, VersionKeepsShare
<1> QED BY <1>1, MigrationInvariant, PTL

\* With SQLite the committed database changes in one step, from what was found
\* to today's schema.
THEOREM SqliteMigratesAtOnce == Spec => SqliteIsAtomic
<1>1. MigrationInv /\ [Next]_vars => [backend = "sqlite" => disk' = Migrated(disk)]_disk
  <2> SUFFICES ASSUME MigrationInv, [Next]_vars, disk' # disk, backend = "sqlite"
               PROVE  disk' = Migrated(disk)
    OBVIOUS
  <2>1. Commit
    BY DEF Next, vars, Start, Execute, Fail, Crash, Commits
  <2> QED BY <2>1, CommitFacts
<1> QED BY <1>1, MigrationInvariant, PTL DEF Spec, SqliteIsAtomic

-----------------------------------------------------------------------------
(***************************************************************************)
(* The first start.  Each statement of MySQL's plan finds the table as it  *)
(* needs it, or behind a statement of the plan that sees to it.            *)
(***************************************************************************)

\* A statement before the i-th has operation o on table t.
Ahead(s, i, o, t) == \E j \in DOMAIN s : j < i /\ s[j].op = o /\ s[j].on = t

\* Operations that fail when they are done again.
Once == {"dropfk", "rekey", "fill", "finish"}

\* The i-th statement, o on t, will work when its turn comes.
Fits(d, s, i, o, t) ==
  /\ o # "raise"
  /\ o \in Once => ~Ahead(s, i, o, t)
  /\ o = "dropfk" => d.table[t].fk
  /\ o = "rekey" => d.table[t].id = "uuid"
  /\ o = "fill" =>
       /\ ~Ahead(s, i, "finish", t)
       /\ \/ d.table[t].creator = "added"
          \/ d.table[t].creator = "one" /\ Ahead(s, i, "addcols", t)
  /\ o = "finish" => d.table[t].creator = "filled" \/ Ahead(s, i, "fill", t)
  /\ o = "unique" => ~Duplicates(d.shares) \/ Ahead(s, i, "dedupe", t)

Ready(d, s) == \A i \in DOMAIN s : Fits(d, s, i, s[i].op, s[i].on)

LEMMA AheadTail ==
  ASSUME NEW s \in Seq(Statement), s # <<>>, NEW i \in DOMAIN Tail(s)
  PROVE  /\ i + 1 \in DOMAIN s /\ Tail(s)[i] = s[i + 1]
         /\ \A o, t : Ahead(s, i + 1, o, t) <=>
              (Head(s).op = o /\ Head(s).on = t) \/ Ahead(Tail(s), i, o, t)
<1>1. /\ Tail(s) \in Seq(Statement) /\ Len(Tail(s)) = Len(s) - 1
      /\ \A k \in 1..Len(Tail(s)) : Tail(s)[k] = s[k + 1]
  BY HeadTailProperties
<1>2. /\ DOMAIN s = 1..Len(s) /\ DOMAIN Tail(s) = 1..Len(s) - 1 /\ Len(s) \in Nat \ {0}
      /\ Head(s) = s[1]
  BY <1>1
<1>3. i + 1 \in DOMAIN s /\ Tail(s)[i] = s[i + 1]
  BY <1>1, <1>2
<1>4. ASSUME NEW o, NEW t, Ahead(s, i + 1, o, t)
      PROVE  (Head(s).op = o /\ Head(s).on = t) \/ Ahead(Tail(s), i, o, t)
  <2>1. PICK j \in DOMAIN s : j < i + 1 /\ s[j].op = o /\ s[j].on = t
    BY <1>4 DEF Ahead
  <2>2. CASE j = 1
    BY <1>2, <2>1, <2>2
  <2>3. CASE j # 1
    <3>1. j - 1 \in DOMAIN Tail(s) /\ j - 1 < i /\ Tail(s)[j - 1] = s[j]
      BY <1>1, <1>2, <2>1, <2>3
    <3> QED BY <2>1, <3>1 DEF Ahead
  <2> QED BY <2>2, <2>3
<1>5. ASSUME NEW o, NEW t, Head(s).op = o, Head(s).on = t
      PROVE  Ahead(s, i + 1, o, t)
  <2>1. 1 \in DOMAIN s /\ 1 < i + 1
    BY <1>2
  <2> QED BY <1>2, <1>5, <2>1 DEF Ahead
<1>6. ASSUME NEW o, NEW t, Ahead(Tail(s), i, o, t)
      PROVE  Ahead(s, i + 1, o, t)
  <2>1. PICK j \in DOMAIN Tail(s) : j < i /\ Tail(s)[j].op = o /\ Tail(s)[j].on = t
    BY <1>6 DEF Ahead
  <2>2. j + 1 \in DOMAIN s /\ j + 1 < i + 1 /\ Tail(s)[j] = s[j + 1]
    BY <1>1, <1>2, <2>1
  <2> QED BY <2>1, <2>2 DEF Ahead
<1> QED BY <1>3, <1>4, <1>5, <1>6

LEMMA AheadConcat ==
  ASSUME NEW s \in Seq(Statement), NEW u \in Seq(Statement), NEW i \in DOMAIN (s \o u)
  PROVE  /\ i \in DOMAIN s =>
              /\ (s \o u)[i] = s[i]
              /\ \A o, t : Ahead(s \o u, i, o, t) <=> Ahead(s, i, o, t)
         /\ i \notin DOMAIN s =>
              /\ i - Len(s) \in DOMAIN u /\ (s \o u)[i] = u[i - Len(s)]
              /\ \A o, t : Ahead(s \o u, i, o, t) <=> Has(s, o, t) \/ Ahead(u, i - Len(s), o, t)
<1>1. /\ s \o u \in Seq(Statement) /\ Len(s \o u) = Len(s) + Len(u)
      /\ \A k \in 1..Len(s) + Len(u) :
           (s \o u)[k] = IF k <= Len(s) THEN s[k] ELSE u[k - Len(s)]
  BY ConcatProperties
<1>2. /\ DOMAIN s = 1..Len(s) /\ DOMAIN u = 1..Len(u) /\ DOMAIN (s \o u) = 1..Len(s) + Len(u)
      /\ Len(s) \in Nat /\ Len(u) \in Nat
  BY <1>1
<1>3. ASSUME NEW j \in DOMAIN s PROVE j \in DOMAIN (s \o u) /\ (s \o u)[j] = s[j]
  BY <1>1, <1>2
<1>4. ASSUME NEW j \in DOMAIN u
      PROVE  Len(s) + j \in DOMAIN (s \o u) /\ (s \o u)[Len(s) + j] = u[j]
  <2>1. Len(s) + j \in 1..Len(s) + Len(u) /\ ~(Len(s) + j <= Len(s)) /\ Len(s) + j - Len(s) = j
    BY <1>2
  <2> QED BY <1>1, <1>2, <2>1
<1>5. ASSUME NEW j \in DOMAIN (s \o u), j \notin DOMAIN s
      PROVE  j - Len(s) \in DOMAIN u /\ (s \o u)[j] = u[j - Len(s)]
  BY <1>1, <1>2, <1>5
<1>6. CASE i \in DOMAIN s
  <2>1. \A j \in DOMAIN (s \o u) : j < i => j \in DOMAIN s
    BY <1>2, <1>6
  <2> QED BY <1>3, <1>6, <2>1 DEF Ahead
<1>7. CASE i \notin DOMAIN s
  <2>1. \A j \in DOMAIN s : j < i
    BY <1>2, <1>7
  <2>2. ASSUME NEW o, NEW t, Ahead(s \o u, i, o, t)
        PROVE  Has(s, o, t) \/ Ahead(u, i - Len(s), o, t)
    <3>1. PICK j \in DOMAIN (s \o u) : j < i /\ (s \o u)[j].op = o /\ (s \o u)[j].on = t
      BY <2>2 DEF Ahead
    <3>2. CASE j \in DOMAIN s
      BY <1>3, <3>1, <3>2 DEF Has
    <3>3. CASE j \notin DOMAIN s
      <4>1. j - Len(s) < i - Len(s)
        BY <1>2, <3>1
      <4> QED BY <1>5, <3>1, <3>3, <4>1 DEF Ahead
    <3> QED BY <3>2, <3>3
  <2>3. ASSUME NEW o, NEW t, Has(s, o, t)
        PROVE  Ahead(s \o u, i, o, t)
    BY <1>3, <2>1, <2>3 DEF Ahead, Has
  <2>4. ASSUME NEW o, NEW t, Ahead(u, i - Len(s), o, t)
        PROVE  Ahead(s \o u, i, o, t)
    <3>1. PICK j \in DOMAIN u : j < i - Len(s) /\ u[j].op = o /\ u[j].on = t
      BY <2>4 DEF Ahead
    <3>2. Len(s) + j < i
      BY <1>2, <3>1
    <3> QED BY <1>4, <3>1, <3>2 DEF Ahead
  <2> QED BY <1>5, <1>7, <2>2, <2>3, <2>4
<1> QED BY <1>6, <1>7

-----------------------------------------------------------------------------
\* What a statement does to what the others need

Effect(d, e, h) ==
  /\ \A t \in Tables : d.table[t] # NoTable =>
       /\ d.table[t].fk => e.table[t].fk \/ (h.op = "dropfk" /\ h.on = t)
       /\ d.table[t].id = "uuid" => e.table[t].id = "uuid" \/ (h.op = "rekey" /\ h.on = t)
       /\ d.table[t].creator = "one" =>
            IF h.op = "addcols" /\ h.on = t THEN e.table[t].creator = "added"
            ELSE e.table[t].creator = "one" \/ (h.op \in {"fill", "finish"} /\ h.on = t)
       /\ d.table[t].creator \in {"added", "filled"} =>
            \/ e.table[t].creator = d.table[t].creator
            \/ h.op \in {"fill", "finish"} /\ h.on = t
       /\ h.op = "fill" /\ h.on = t => e.table[t].creator = "filled"
  /\ ~Duplicates(d.shares) \/ h.op = "dedupe" => ~Duplicates(e.shares)

\* When the head of a plan that fits has been executed, the rest fits.
LEMMA ReadyStep ==
  ASSUME NEW d, NEW e, NEW s, MysqlInv(d, s), s # <<>>, Ready(d, s), Effect(d, e, Head(s))
  PROVE  Ready(e, Tail(s))
<1> DEFINE h == Head(s)
<1>1. s \in Seq(Statement)
  BY DEF MysqlInv
<1> SUFFICES ASSUME NEW i \in DOMAIN Tail(s)
             PROVE  Fits(e, Tail(s), i, Tail(s)[i].op, Tail(s)[i].on)
  BY DEF Ready
<1> DEFINE o == Tail(s)[i].op
           t == Tail(s)[i].on
<1>2. /\ i + 1 \in DOMAIN s /\ Tail(s)[i] = s[i + 1]
      /\ \A p, u : Ahead(s, i + 1, p, u) <=> (h.op = p /\ h.on = u) \/ Ahead(Tail(s), i, p, u)
  BY <1>1, AheadTail
<1>3. Fits(d, s, i + 1, o, t)
  BY <1>2 DEF Ready
<1>4. Has(s, o, t)
  BY <1>2 DEF Has
<1>5. t \in Tables /\ (o \in TableOps => d.table[t] # NoTable)
  BY <1>1, <1>4, HasOnTables DEF MysqlInv
<1> HIDE DEF o, t, h
<1>6. o # "raise" /\ (o \in Once => ~Ahead(s, i + 1, o, t))
  BY <1>3 DEF Fits
<1>7. o \in Once => ~Ahead(Tail(s), i, o, t) /\ ~(h.op = o /\ h.on = t)
  BY <1>2, <1>6
<1>8. Effect(d, e, h)
  BY DEF h
<1>9. o = "dropfk" => e.table[t].fk
  BY <1>3, <1>5, <1>7, <1>8 DEF Fits, Effect, TableOps, Once
<1>10. o = "rekey" => e.table[t].id = "uuid"
  BY <1>3, <1>5, <1>7, <1>8 DEF Fits, Effect, TableOps, Once
<1>11. ASSUME o = "fill"
       PROVE  /\ ~Ahead(Tail(s), i, "finish", t)
              /\ \/ e.table[t].creator = "added"
                 \/ e.table[t].creator = "one" /\ Ahead(Tail(s), i, "addcols", t)
  <2>1. /\ ~Ahead(s, i + 1, "finish", t) /\ d.table[t] # NoTable
        /\ \/ d.table[t].creator = "added"
           \/ d.table[t].creator = "one" /\ Ahead(s, i + 1, "addcols", t)
    BY <1>3, <1>5, <1>11 DEF Fits, TableOps
  <2>2. ~Ahead(Tail(s), i, "finish", t) /\ ~(h.op \in {"fill", "finish"} /\ h.on = t)
    BY <1>2, <1>7, <1>11, <2>1 DEF Once
  <2>3. CASE d.table[t].creator = "added"
    BY <1>5, <1>8, <2>1, <2>2, <2>3 DEF Effect
  <2>4. CASE d.table[t].creator = "one" /\ Ahead(s, i + 1, "addcols", t)
    <3>1. (h.op = "addcols" /\ h.on = t) \/ Ahead(Tail(s), i, "addcols", t)
      BY <1>2, <2>4
    <3>2. IF h.op = "addcols" /\ h.on = t THEN e.table[t].creator = "added"
          ELSE e.table[t].creator = "one"
      BY <1>5, <1>8, <2>1, <2>2, <2>4 DEF Effect
    <3> QED BY <2>2, <3>1, <3>2
  <2> QED BY <2>1, <2>3, <2>4
<1>12. ASSUME o = "finish"
       PROVE  e.table[t].creator = "filled" \/ Ahead(Tail(s), i, "fill", t)
  <2>1. d.table[t] # NoTable /\ (d.table[t].creator = "filled" \/ Ahead(s, i + 1, "fill", t))
    BY <1>3, <1>5, <1>12 DEF Fits, TableOps
  <2>2. ~(h.op = "finish" /\ h.on = t)
    BY <1>7, <1>12 DEF Once
  <2>3. h.op = "fill" /\ h.on = t => e.table[t].creator = "filled"
    BY <1>5, <1>8, <2>1 DEF Effect
  <2>4. CASE d.table[t].creator = "filled"
    BY <1>5, <1>8, <2>1, <2>2, <2>3, <2>4 DEF Effect
  <2>5. CASE Ahead(s, i + 1, "fill", t)
    BY <1>2, <2>3, <2>5
  <2> QED BY <2>1, <2>4, <2>5
<1>13. ASSUME o = "unique"
       PROVE  ~Duplicates(e.shares) \/ Ahead(Tail(s), i, "dedupe", t)
  <2>1. ~Duplicates(d.shares) \/ h.op = "dedupe" \/ Ahead(Tail(s), i, "dedupe", t)
    BY <1>2, <1>3, <1>13 DEF Fits
  <2> QED BY <1>8, <2>1 DEF Effect
<1>14. Fits(e, Tail(s), i, o, t)
  BY <1>6, <1>7, <1>9, <1>10, <1>11, <1>12, <1>13 DEF Fits
<1> QED BY <1>14 DEF o, t

\* The head of a plan that fits works.
LEMMA ReadyWorks ==
  ASSUME NEW d, NEW s, MysqlInv(d, s), s # <<>>, Ready(d, s)
  PROVE  Works(d, Head(s))
<1> DEFINE h == Head(s)
<1>1. s \in Seq(Statement)
  BY DEF MysqlInv
<1>2. 1 \in DOMAIN s /\ h = s[1] /\ \A o, t : ~Ahead(s, 1, o, t)
  <2>1. DOMAIN s = 1..Len(s) /\ Len(s) \in Nat \ {0} /\ h = s[1]
    BY <1>1
  <2> QED BY <2>1 DEF Ahead
<1>3. Fits(d, s, 1, h.op, h.on)
  BY <1>2 DEF Ready
<1>4. h.op \in MysqlOps
  BY <1>1, HasTail DEF MysqlInv
<1> HIDE DEF h
<1>5. /\ h.op # "raise"
      /\ h.op = "dropfk" => d.table[h.on].fk
      /\ h.op = "rekey" => d.table[h.on].id = "uuid"
      /\ h.op = "fill" => d.table[h.on].creator = "added"
      /\ h.op = "finish" => d.table[h.on].creator = "filled"
      /\ h.op = "unique" => ~Duplicates(d.shares)
  BY <1>2, <1>3 DEF Fits
<1>6. Works(d, h)
  BY <1>4, <1>5 DEF Works, MysqlOps
<1> QED BY <1>6 DEF h

-----------------------------------------------------------------------------
\* A plan that fits the database it is made for

\* All the statements of s are on table t.
OnlyOn(s, t) == \A o, u : Has(s, o, u) => u = t

LEMMA ReadyConcat ==
  ASSUME NEW d, NEW s \in Seq(Statement), NEW u \in Seq(Statement), Ready(d, s), Ready(d, u),
         \A o \in Once : \A t : Has(s, o, t) => ~Has(u, o, t),
         \A t : Has(s, "finish", t) => ~Has(u, "fill", t)
  PROVE  Ready(d, s \o u)
<1> DEFINE v == s \o u
<1> SUFFICES ASSUME NEW i \in DOMAIN v PROVE Fits(d, v, i, v[i].op, v[i].on)
  BY DEF Ready
<1>1. CASE i \in DOMAIN s
  <2>1. v[i] = s[i] /\ \A o, t : Ahead(v, i, o, t) <=> Ahead(s, i, o, t)
    BY <1>1, AheadConcat
  <2>2. Fits(d, s, i, s[i].op, s[i].on)
    BY <1>1 DEF Ready
  <2> HIDE DEF v
  <2> QED BY <2>1, <2>2 DEF Fits
<1>2. CASE i \notin DOMAIN s
  <2> DEFINE j == i - Len(s)
             o == u[j].op
             t == u[j].on
  <2>1. /\ j \in DOMAIN u /\ v[i] = u[j]
        /\ \A p, q : Ahead(v, i, p, q) <=> Has(s, p, q) \/ Ahead(u, j, p, q)
    BY <1>2, AheadConcat
  <2>2. Fits(d, u, j, o, t) /\ Has(u, o, t)
    BY <2>1 DEF Ready, Has
  <2>3. o \in Once => ~Has(s, o, t)
    BY <2>2
  <2>4. o = "fill" => ~Has(s, "finish", t)
    BY <2>2
  <2> HIDE DEF v, j
  <2>5. v[i].op = o /\ v[i].on = t
    BY <2>1
  <2> HIDE DEF o, t
  <2>6. Fits(d, v, i, o, t)
    BY <2>1, <2>2, <2>3, <2>4 DEF Fits
  <2> QED BY <2>5, <2>6
<1> QED BY <1>1, <1>2

LEMMA ReadyOn ==
  ASSUME NEW d, NEW s \in Seq(Statement), NEW u \in Seq(Statement), NEW S,
         Ready(d, s), Ready(d, u), NEW q,
         \A o, t : Has(s, o, t) => t \in S, OnlyOn(u, q), q \notin S
  PROVE  Ready(d, s \o u)
BY ReadyConcat DEF OnlyOn

\* One part of the plan for each table.
LEMMA ReadyFour ==
  ASSUME NEW d, NEW a \in Seq(Statement), NEW b \in Seq(Statement),
         NEW c \in Seq(Statement), NEW e \in Seq(Statement),
         Ready(d, a), Ready(d, b), Ready(d, c), Ready(d, e),
         OnlyOn(a, TableSeq[1]), OnlyOn(b, TableSeq[2]),
         OnlyOn(c, TableSeq[3]), OnlyOn(e, TableSeq[4])
  PROVE  Ready(d, a \o b \o c \o e)
<1>1. /\ TableSeq[1] # TableSeq[2] /\ TableSeq[1] # TableSeq[3] /\ TableSeq[1] # TableSeq[4]
      /\ TableSeq[2] # TableSeq[3] /\ TableSeq[2] # TableSeq[4] /\ TableSeq[3] # TableSeq[4]
  BY DEF TableSeq, Artifacts, Shares
<1> DEFINE t1 == TableSeq[1]
           t2 == TableSeq[2]
           t3 == TableSeq[3]
           t4 == TableSeq[4]
<1> HIDE DEF t1, t2, t3, t4
<1>2. \A o, t : Has(a, o, t) => t \in {t1}
  BY DEF OnlyOn, t1
<1>3. Ready(d, a \o b)
  <2>1. OnlyOn(b, t2) /\ t2 \notin {t1}
    BY <1>1 DEF t1, t2
  <2> QED BY <1>2, <2>1, ReadyOn
<1>4. a \o b \in Seq(Statement) /\ \A o, t : Has(a \o b, o, t) => t \in {t1, t2}
  <2>1. a \o b \in Seq(Statement) /\ \A o, t : Has(a \o b, o, t) <=> Has(a, o, t) \/ Has(b, o, t)
    BY HasConcat
  <2>2. \A o, t : Has(b, o, t) => t = t2
    BY DEF OnlyOn, t2
  <2> QED BY <1>2, <2>1, <2>2
<1>5. Ready(d, (a \o b) \o c)
  <2>1. OnlyOn(c, t3) /\ t3 \notin {t1, t2}
    BY <1>1 DEF t1, t2, t3
  <2> QED BY <1>3, <1>4, <2>1, ReadyOn
<1>6. (a \o b) \o c \in Seq(Statement) /\ \A o, t : Has((a \o b) \o c, o, t) => t \in {t1, t2, t3}
  <2>1. /\ (a \o b) \o c \in Seq(Statement)
        /\ \A o, t : Has((a \o b) \o c, o, t) <=> Has(a \o b, o, t) \/ Has(c, o, t)
    BY <1>4, HasConcat
  <2>2. \A o, t : Has(c, o, t) => t = t3
    BY DEF OnlyOn, t3
  <2> QED BY <1>4, <2>1, <2>2
<1>7. Ready(d, ((a \o b) \o c) \o e)
  <2>1. OnlyOn(e, t4) /\ t4 \notin {t1, t2, t3}
    BY <1>1 DEF t1, t2, t3, t4
  <2> QED BY <1>5, <1>6, <2>1, ReadyOn
<1> QED BY <1>7

LEMMA ReadyDo ==
  ASSUME NEW d, NEW o \in {"rename", "dropfk", "rekey", "addcols", "create", "token", "dedupe"},
         NEW t \in Tables,
         o = "dropfk" => d.table[t].fk,
         o = "rekey" => d.table[t].id = "uuid"
  PROVE  Ready(d, Do(o, t))
<1>1. DOMAIN Do(o, t) = {1} /\ Do(o, t)[1].op = o /\ Do(o, t)[1].on = t
  BY DEF Do
<1>2. \A p, u : ~Ahead(Do(o, t), 1, p, u)
  BY <1>1 DEF Ahead
<1>3. Fits(d, Do(o, t), 1, o, t)
  BY <1>2 DEF Fits
<1> QED BY <1>1, <1>3 DEF Ready

LEMMA ReadyWhen ==
  ASSUME NEW d, NEW s, NEW b \in BOOLEAN, b => Ready(d, s)
  PROVE  Ready(d, When(b, s))
<1>1. Ready(d, <<>>)
  BY DEF Ready
<1> QED BY <1>1 DEF When

\* The three statements that split the creator column of a table.
LEMMA ReadySplit ==
  ASSUME NEW d, NEW t \in Tables, d.table[t].creator = "one"
  PROVE  Ready(d, Do("addcols", t) \o (Do("fill", t) \o Do("finish", t)))
<1> DEFINE v == <<[op |-> "addcols", on |-> t], [op |-> "fill", on |-> t], [op |-> "finish", on |-> t]>>
<1>1. v = Do("addcols", t) \o (Do("fill", t) \o Do("finish", t))
  BY DEF Do
<1>2. /\ DOMAIN v = {1, 2, 3} /\ v[1].op = "addcols" /\ v[2].op = "fill" /\ v[3].op = "finish"
      /\ v[1].on = t /\ v[2].on = t /\ v[3].on = t
  OBVIOUS
<1> HIDE DEF v
<1>3. Fits(d, v, 1, "addcols", t)
  BY <1>2 DEF Fits, Once, Ahead
<1>4. Fits(d, v, 2, "fill", t)
  <2>1. Ahead(v, 2, "addcols", t) /\ ~Ahead(v, 2, "fill", t) /\ ~Ahead(v, 2, "finish", t)
    BY <1>2 DEF Ahead
  <2> QED BY <2>1 DEF Fits, Once
<1>5. Fits(d, v, 3, "finish", t)
  <2>1. Ahead(v, 3, "fill", t) /\ ~Ahead(v, 3, "finish", t)
    BY <1>2 DEF Ahead
  <2> QED BY <2>1 DEF Fits, Once
<1>6. Ready(d, v)
  BY <1>2, <1>3, <1>4, <1>5 DEF Ready
<1> QED BY <1>1, <1>6

LEMMA ReadyUnique ==
  ASSUME NEW d, NEW t \in Tables
  PROVE  Ready(d, Do("dedupe", t) \o Do("unique", t))
<1> DEFINE v == <<[op |-> "dedupe", on |-> t], [op |-> "unique", on |-> t]>>
<1>1. v = Do("dedupe", t) \o Do("unique", t)
  BY DEF Do
<1>2. DOMAIN v = {1, 2} /\ v[1].op = "dedupe" /\ v[2].op = "unique" /\ v[1].on = t /\ v[2].on = t
  OBVIOUS
<1> HIDE DEF v
<1>3. Fits(d, v, 1, "dedupe", t)
  BY DEF Fits, Once
<1>4. Fits(d, v, 2, "unique", t)
  <2>1. Ahead(v, 2, "dedupe", t)
    BY <1>2 DEF Ahead
  <2> QED BY <2>1 DEF Fits, Once
<1>5. Ready(d, v)
  BY <1>2, <1>3, <1>4 DEF Ready
<1> QED BY <1>1, <1>5

\* The schemas that a start may find without a start before it.
Uniform(d) ==
  /\ ~MixedIds(d) /\ ~MixedCreators(d)
  /\ \A t \in Tables : d.table[t] # NoTable =>
       /\ d.table[t].creator \in {"one", "two"}
       /\ backend = "mysql" => (d.table[t].fk <=> d.table[t].id = "uuid" /\ t # Artifacts)

\* A statement that is done under a condition, as a plan.
LEMMA WhenDo ==
  ASSUME NEW o \in {"rename", "dropfk", "rekey", "addcols", "create", "token"},
         NEW t \in Tables, NEW b \in BOOLEAN
  PROVE  /\ When(b, Do(o, t)) \in Seq(Statement)
         /\ \A p, u : Has(When(b, Do(o, t)), p, u) <=> b /\ p = o /\ u = t
<1>1. /\ Do(o, t) \in Seq(Statement) /\ KeysFirst(Do(o, t))
      /\ \A p, u : Has(Do(o, t), p, u) <=> p = o /\ u = t
  BY DoFacts
<1> QED BY <1>1, WhenFacts

LEMMA DropKeyReady ==
  ASSUME NEW d, Uniform(d), backend = "mysql", NEW t \in Tables
  PROVE  /\ DropKeyOf(d, t) \in Seq(Statement)
         /\ \A o, u : Has(DropKeyOf(d, t), o, u) => o = "dropfk" /\ u = t
         /\ Ready(d, DropKeyOf(d, t))
<1> DEFINE b == t \in OldIds(d) \ {Artifacts}
<1>1. b \in BOOLEAN /\ DropKeyOf(d, t) = When(b, Do("dropfk", t))
  BY DEF DropKeyOf
<1>2. b => d.table[t].fk
  BY DEF Uniform, OldIds, Having, Present
<1> HIDE DEF b
<1>3. b => Ready(d, Do("dropfk", t))
  BY <1>2, ReadyDo
<1>4. Ready(d, When(b, Do("dropfk", t)))
  BY <1>1, <1>3, ReadyWhen
<1>5. /\ When(b, Do("dropfk", t)) \in Seq(Statement)
      /\ \A o, u : Has(When(b, Do("dropfk", t)), o, u) <=> b /\ o = "dropfk" /\ u = t
  BY <1>1, WhenDo
<1> QED BY <1>1, <1>4, <1>5

LEMMA RekeyReady ==
  ASSUME NEW d, NEW t \in Tables
  PROVE  /\ RekeyOf(d, t) \in Seq(Statement)
         /\ \A o, u : Has(RekeyOf(d, t), o, u) => o = "rekey" /\ u = t
         /\ Ready(d, RekeyOf(d, t))
<1> DEFINE b == t \in OldIds(d)
<1>1. b \in BOOLEAN /\ RekeyOf(d, t) = When(b, Do("rekey", t))
  BY DEF RekeyOf
<1>2. b => d.table[t].id = "uuid"
  BY DEF OldIds, Having, Present
<1> HIDE DEF b
<1>3. b => Ready(d, Do("rekey", t))
  BY <1>2, ReadyDo
<1>4. Ready(d, When(b, Do("rekey", t)))
  BY <1>1, <1>3, ReadyWhen
<1>5. /\ When(b, Do("rekey", t)) \in Seq(Statement)
      /\ \A o, u : Has(When(b, Do("rekey", t)), o, u) <=> b /\ o = "rekey" /\ u = t
  BY <1>1, WhenDo
<1> QED BY <1>1, <1>4, <1>5

LEMMA IdentityReady ==
  ASSUME NEW d, Uniform(d), backend = "mysql"
  PROVE  Ready(d, IdentityPlan(d))
<1> DEFINE drops  == DropKeyOf(d, TableSeq[1]) \o DropKeyOf(d, TableSeq[2])
                       \o DropKeyOf(d, TableSeq[3]) \o DropKeyOf(d, TableSeq[4])
           rekeys == RekeyOf(d, TableSeq[1]) \o RekeyOf(d, TableSeq[2])
                       \o RekeyOf(d, TableSeq[3]) \o RekeyOf(d, TableSeq[4])
<1>1. IdentityPlan(d) = drops \o rekeys
  BY DEF IdentityPlan, ForEach, DropKeyOf, RekeyOf, OldIds
<1>2. drops \in Seq(Statement) /\ Ready(d, drops) /\ \A o, u : Has(drops, o, u) => o = "dropfk"
  <2>1. \A t \in Tables : /\ DropKeyOf(d, t) \in Seq(Statement)
                          /\ Ready(d, DropKeyOf(d, t)) /\ OnlyOn(DropKeyOf(d, t), t)
                          /\ \A o, u : Has(DropKeyOf(d, t), o, u) => o = "dropfk"
    BY DropKeyReady DEF OnlyOn
  <2> HIDE DEF drops
  <2>2. /\ drops \in Seq(Statement)
        /\ \A o, u : Has(drops, o, u) <=>
             \/ Has(DropKeyOf(d, TableSeq[1]), o, u) \/ Has(DropKeyOf(d, TableSeq[2]), o, u)
             \/ Has(DropKeyOf(d, TableSeq[3]), o, u) \/ Has(DropKeyOf(d, TableSeq[4]), o, u)
    BY <2>1, TableFacts, FourFacts DEF drops
  <2>3. Ready(d, drops)
    BY <2>1, TableFacts, ReadyFour DEF drops
  <2> QED BY <2>1, <2>2, <2>3, TableFacts
<1>3. rekeys \in Seq(Statement) /\ Ready(d, rekeys) /\ \A o, u : Has(rekeys, o, u) => o = "rekey"
  <2>1. \A t \in Tables : /\ RekeyOf(d, t) \in Seq(Statement)
                          /\ Ready(d, RekeyOf(d, t)) /\ OnlyOn(RekeyOf(d, t), t)
                          /\ \A o, u : Has(RekeyOf(d, t), o, u) => o = "rekey"
    BY RekeyReady DEF OnlyOn
  <2> HIDE DEF rekeys
  <2>2. /\ rekeys \in Seq(Statement)
        /\ \A o, u : Has(rekeys, o, u) <=>
             \/ Has(RekeyOf(d, TableSeq[1]), o, u) \/ Has(RekeyOf(d, TableSeq[2]), o, u)
             \/ Has(RekeyOf(d, TableSeq[3]), o, u) \/ Has(RekeyOf(d, TableSeq[4]), o, u)
    BY <2>1, TableFacts, FourFacts DEF rekeys
  <2>3. Ready(d, rekeys)
    BY <2>1, TableFacts, ReadyFour DEF rekeys
  <2> QED BY <2>1, <2>2, <2>3, TableFacts
<1> HIDE DEF drops, rekeys
<1>4. Ready(d, drops \o rekeys)
  <2>1. \A o \in Once : \A t : Has(drops, o, t) => ~Has(rekeys, o, t)
    BY <1>2, <1>3
  <2>2. \A t : Has(drops, "finish", t) => ~Has(rekeys, "fill", t)
    BY <1>2
  <2> QED BY <1>2, <1>3, <2>1, <2>2, ReadyConcat
<1> QED BY <1>1, <1>4

LEMMA SplitReady ==
  ASSUME NEW d, NEW t \in Tables
  PROVE  /\ SplitOf(d, t) \in Seq(Statement)
         /\ \A o, u : Has(SplitOf(d, t), o, u) => o \in {"addcols", "fill", "finish"} /\ u = t
         /\ Ready(d, SplitOf(d, t))
<1>1. /\ Do("addcols", t) \in Seq(Statement) /\ Do("fill", t) \in Seq(Statement)
      /\ Do("finish", t) \in Seq(Statement)
      /\ \A o, u : Has(Do("addcols", t), o, u) <=> o = "addcols" /\ u = t
      /\ \A o, u : Has(Do("fill", t), o, u) <=> o = "fill" /\ u = t
      /\ \A o, u : Has(Do("finish", t), o, u) <=> o = "finish" /\ u = t
  BY DoFacts
<1>2. CASE t \in OldCreators(d)
  <2> DEFINE tail == Do("fill", t) \o Do("finish", t)
  <2>1. SplitOf(d, t) = Do("addcols", t) \o tail
    BY <1>2 DEF SplitOf, AddOf, FillOf, When
  <2>2. tail \in Seq(Statement) /\ \A o, u : Has(tail, o, u) => o \in {"fill", "finish"} /\ u = t
    BY <1>1, HasConcat
  <2>3. d.table[t].creator = "one"
    BY <1>2 DEF OldCreators, Having
  <2>4. Ready(d, Do("addcols", t) \o tail)
    BY <2>3, ReadySplit
  <2> HIDE DEF tail
  <2>5. /\ Do("addcols", t) \o tail \in Seq(Statement)
        /\ \A o, u : Has(Do("addcols", t) \o tail, o, u) <=> Has(Do("addcols", t), o, u) \/ Has(tail, o, u)
    BY <1>1, <2>2, HasConcat
  <2> QED BY <1>1, <2>1, <2>2, <2>4, <2>5
<1>3. CASE t \notin OldCreators(d)
  <2> DEFINE b == t \in OldCreators(d) \cup Having(d, "workspace", {FALSE})
  <2>1. b \in BOOLEAN
    OBVIOUS
  <2>2. AddOf(d, t) = When(b, Do("addcols", t)) /\ FillOf(d, t) = <<>>
    BY <1>3 DEF AddOf, FillOf, When
  <2> HIDE DEF b
  <2>3. /\ When(b, Do("addcols", t)) \in Seq(Statement)
        /\ \A o, u : Has(When(b, Do("addcols", t)), o, u) <=> b /\ o = "addcols" /\ u = t
    BY <2>1, WhenDo
  <2>4. Ready(d, When(b, Do("addcols", t)))
    <3>1. Ready(d, Do("addcols", t))
      BY ReadyDo
    <3> QED BY <2>1, <3>1, ReadyWhen
  <2>5. SplitOf(d, t) = When(b, Do("addcols", t))
    BY <2>2, <2>3, ConcatEmptySeq DEF SplitOf
  <2> QED BY <2>3, <2>4, <2>5
<1> QED BY <1>2, <1>3

LEMMA CreatorReady ==
  ASSUME NEW d, Uniform(d)
  PROVE  Ready(d, CreatorPlan(d))
<1>1. CreatorPlan(d) = SplitOf(d, TableSeq[1]) \o SplitOf(d, TableSeq[2])
                         \o SplitOf(d, TableSeq[3]) \o SplitOf(d, TableSeq[4])
  BY DEF CreatorPlan, ForEach, SplitOf, AddOf, FillOf, OldCreators, Uniform
<1>2. \A t \in Tables : /\ SplitOf(d, t) \in Seq(Statement)
                        /\ Ready(d, SplitOf(d, t)) /\ OnlyOn(SplitOf(d, t), t)
  BY SplitReady DEF OnlyOn
<1> QED BY <1>1, <1>2, TableFacts, ReadyFour

\* The plan made from such a schema fits it.
LEMMA PlanReady ==
  ASSUME NEW d, Uniform(d), backend = "mysql"
  PROVE  Ready(d, MysqlPlan(d))
<1> DEFINE old    == Having(d, "name", {"legacy"}) # {}
           bare   == Shares \in Having(d, "token", {FALSE})
           double == Shares \in Having(d, "unique", {FALSE})
           renames == When(old, Do("rename", Artifacts))
           creates == CreateOf(TableSeq[1]) \o CreateOf(TableSeq[2])
                        \o CreateOf(TableSeq[3]) \o CreateOf(TableSeq[4])
           tokens  == When(bare, Do("token", Shares))
           pair    == Do("dedupe", Shares) \o Do("unique", Shares)
           uniques == When(double, pair)
           ids     == IdentityPlan(d)
           splits  == CreatorPlan(d)
<1>1. MysqlPlan(d) = renames \o ids \o splits \o creates \o tokens \o uniques
  BY DEF MysqlPlan, ForEach, CreateOf
<1>2. old \in BOOLEAN /\ bare \in BOOLEAN /\ double \in BOOLEAN
      /\ Artifacts \in Tables /\ Shares \in Tables
  BY TableFacts
<1>3. ids \in Seq(Statement) /\ Ready(d, ids) /\ \A o, t : Has(ids, o, t) => o \in {"dropfk", "rekey"}
  BY IdentityReady, IdentityPlanFacts
<1>4. /\ splits \in Seq(Statement) /\ Ready(d, splits)
      /\ \A o, t : Has(splits, o, t) => o \in {"addcols", "fill", "finish"}
  <2>1. ~MixedCreators(d)
    BY DEF Uniform
  <2> QED BY <2>1, CreatorReady, CreatorPlanFacts
<1> HIDE DEF old, bare, double, ids, splits
<1>5. renames \in Seq(Statement) /\ Ready(d, renames) /\ \A o, t : Has(renames, o, t) => o = "rename"
  <2>1. Ready(d, Do("rename", Artifacts))
    BY <1>2, ReadyDo
  <2>2. /\ renames \in Seq(Statement)
        /\ \A p, u : Has(renames, p, u) <=> old /\ p = "rename" /\ u = Artifacts
    <3>1. ASSUME NEW b \in BOOLEAN, NEW t \in Tables
          PROVE  /\ When(b, Do("rename", t)) \in Seq(Statement)
                 /\ \A p, u : Has(When(b, Do("rename", t)), p, u) <=> b /\ p = "rename" /\ u = t
      BY WhenDo
    <3> QED BY <1>2, <3>1
  <2> QED BY <1>2, <2>1, <2>2, ReadyWhen
<1>6. creates \in Seq(Statement) /\ Ready(d, creates) /\ \A o, t : Has(creates, o, t) => o = "create"
  <2>1. ASSUME NEW t \in Tables
        PROVE  /\ CreateOf(t) \in Seq(Statement) /\ Ready(d, CreateOf(t)) /\ OnlyOn(CreateOf(t), t)
               /\ \A o, u : Has(CreateOf(t), o, u) => o = "create"
    <3>1. Ready(d, Do("create", t))
      BY ReadyDo
    <3>2. Do("create", t) \in Seq(Statement) /\ \A o, u : Has(Do("create", t), o, u) <=> o = "create" /\ u = t
      BY DoFacts
    <3> QED BY <3>1, <3>2 DEF CreateOf, OnlyOn
  <2> HIDE DEF creates
  <2>2. /\ creates \in Seq(Statement)
        /\ \A o, u : Has(creates, o, u) <=>
             \/ Has(CreateOf(TableSeq[1]), o, u) \/ Has(CreateOf(TableSeq[2]), o, u)
             \/ Has(CreateOf(TableSeq[3]), o, u) \/ Has(CreateOf(TableSeq[4]), o, u)
    BY <2>1, TableFacts, FourFacts DEF creates
  <2>3. Ready(d, creates)
    BY <2>1, TableFacts, ReadyFour DEF creates
  <2> QED BY <2>1, <2>2, <2>3, TableFacts
<1>7. tokens \in Seq(Statement) /\ Ready(d, tokens) /\ \A o, t : Has(tokens, o, t) => o = "token"
  <2>1. Ready(d, Do("token", Shares))
    BY <1>2, ReadyDo
  <2>2. /\ tokens \in Seq(Statement)
        /\ \A p, u : Has(tokens, p, u) <=> bare /\ p = "token" /\ u = Shares
    <3>1. ASSUME NEW b \in BOOLEAN, NEW t \in Tables
          PROVE  /\ When(b, Do("token", t)) \in Seq(Statement)
                 /\ \A p, u : Has(When(b, Do("token", t)), p, u) <=> b /\ p = "token" /\ u = t
      BY WhenDo
    <3> QED BY <1>2, <3>1
  <2> QED BY <1>2, <2>1, <2>2, ReadyWhen
<1>8. /\ uniques \in Seq(Statement) /\ Ready(d, uniques)
      /\ \A o, t : Has(uniques, o, t) => o \in {"dedupe", "unique"}
  <2>1. /\ Do("dedupe", Shares) \in Seq(Statement)
        /\ \A o, t : Has(Do("dedupe", Shares), o, t) <=> o = "dedupe" /\ t = Shares
    BY <1>2, DoFacts
  <2>2. /\ Do("unique", Shares) \in Seq(Statement)
        /\ \A o, t : Has(Do("unique", Shares), o, t) <=> o = "unique" /\ t = Shares
    BY <1>2, DoFacts
  <2>3. pair \in Seq(Statement) /\ \A o, t : Has(pair, o, t) => o \in {"dedupe", "unique"}
    BY <2>1, <2>2, HasConcat
  <2>4. Ready(d, pair)
    BY <1>2, ReadyUnique
  <2> HIDE DEF pair
  <2>5. Ready(d, uniques)
    BY <1>2, <2>4, ReadyWhen
  <2>6. <<>> \in Seq(Statement) /\ \A o, t : ~Has(<<>>, o, t)
    BY DEF Has
  <2> QED BY <2>3, <2>5, <2>6 DEF When
<1> HIDE DEF renames, creates, tokens, uniques
<1> DEFINE p2 == renames \o ids
           p3 == p2 \o splits
           p4 == p3 \o creates
           p5 == p4 \o tokens
<1>9. p2 \in Seq(Statement) /\ Ready(d, p2)
      /\ \A o, t : Has(p2, o, t) => o \in {"rename", "dropfk", "rekey"}
  <2>1. /\ \A o \in Once : \A t : Has(renames, o, t) => ~Has(ids, o, t)
        /\ \A t : Has(renames, "finish", t) => ~Has(ids, "fill", t)
    BY <1>5 DEF Once
  <2> QED BY <1>3, <1>5, <2>1, ReadyConcat, HasConcat
<1> HIDE DEF p2
<1>10. p3 \in Seq(Statement) /\ Ready(d, p3)
       /\ \A o, t : Has(p3, o, t) =>
            o \in {"rename", "dropfk", "rekey", "addcols", "fill", "finish"}
  <2>1. /\ \A o \in Once : \A t : Has(p2, o, t) => ~Has(splits, o, t)
        /\ \A t : Has(p2, "finish", t) => ~Has(splits, "fill", t)
    BY <1>4, <1>9 DEF Once
  <2> QED BY <1>4, <1>9, <2>1, ReadyConcat, HasConcat
<1> HIDE DEF p3
<1>11. p4 \in Seq(Statement) /\ Ready(d, p4)
  <2>1. /\ \A o \in Once : \A t : Has(p3, o, t) => ~Has(creates, o, t)
        /\ \A t : Has(p3, "finish", t) => ~Has(creates, "fill", t)
    BY <1>6 DEF Once
  <2> QED BY <1>6, <1>10, <2>1, ReadyConcat, HasConcat
<1> HIDE DEF p4
<1>12. p5 \in Seq(Statement) /\ Ready(d, p5)
  <2>1. /\ \A o \in Once : \A t : Has(p4, o, t) => ~Has(tokens, o, t)
        /\ \A t : Has(p4, "finish", t) => ~Has(tokens, "fill", t)
    BY <1>7 DEF Once
  <2> QED BY <1>7, <1>11, <2>1, ReadyConcat, HasConcat
<1> HIDE DEF p5
<1>13. Ready(d, p5 \o uniques)
  <2>1. /\ \A o \in Once : \A t : Has(p5, o, t) => ~Has(uniques, o, t)
        /\ \A t : Has(p5, "finish", t) => ~Has(uniques, "fill", t)
    BY <1>8 DEF Once
  <2> QED BY <1>8, <1>12, <2>1, ReadyConcat
<1> QED BY <1>1, <1>13 DEF p2, p3, p4, p5

-----------------------------------------------------------------------------
\* What each statement does

\* A statement that changes one table only.
LEMMA EffectOne ==
  ASSUME NEW d, NEW e, NEW h, NEW t \in Tables, NEW m, d.table[t] \in Layout, OneChange(d, e, t, m),
         h.on = t, h.op # "dedupe",
         d.table[t].fk => m.fk \/ h.op = "dropfk",
         d.table[t].id = "uuid" => m.id = "uuid" \/ h.op = "rekey",
         d.table[t].creator = "one" =>
           IF h.op = "addcols" THEN m.creator = "added"
           ELSE m.creator = "one" \/ h.op \in {"fill", "finish"},
         d.table[t].creator \in {"added", "filled"} =>
           m.creator = d.table[t].creator \/ h.op \in {"fill", "finish"},
         h.op = "fill" => m.creator = "filled"
  PROVE  Effect(d, e, h)
<1>1. e.table[t] = m /\ e.shares = d.shares /\ \A u \in Tables \ {t} : e.table[u] = d.table[u]
  BY DEF OneChange
<1>2. ASSUME NEW u \in Tables, d.table[u] # NoTable
      PROVE  /\ d.table[u].fk => e.table[u].fk \/ (h.op = "dropfk" /\ h.on = u)
             /\ d.table[u].id = "uuid" => e.table[u].id = "uuid" \/ (h.op = "rekey" /\ h.on = u)
             /\ d.table[u].creator = "one" =>
                  IF h.op = "addcols" /\ h.on = u THEN e.table[u].creator = "added"
                  ELSE e.table[u].creator = "one" \/ (h.op \in {"fill", "finish"} /\ h.on = u)
             /\ d.table[u].creator \in {"added", "filled"} =>
                  \/ e.table[u].creator = d.table[u].creator
                  \/ h.op \in {"fill", "finish"} /\ h.on = u
             /\ h.op = "fill" /\ h.on = u => e.table[u].creator = "filled"
  <2>1. CASE u = t
    BY <1>1, <2>1
  <2>2. CASE u # t
    BY <1>1, <2>2
  <2> QED BY <2>1, <2>2
<1> QED BY <1>1, <1>2 DEF Effect

LEMMA Effects ==
  ASSUME NEW d \in Database, NEW s, FormInv(d), MysqlInv(d, s), s # <<>>,
         backend = "mysql",
         Works(d, Head(s)), NEW e \in Results(d, Head(s))
  PROVE  Effect(d, e, Head(s))
<1> DEFINE h == Head(s)
           t == Head(s).on
           l == d.table[t]
<1>1. /\ h \in Statement /\ t \in Tables /\ h.op \in MysqlOps /\ h.on = t
      /\ h.op \in TableOps => l # NoTable
  <2>1. s \in Seq(Statement)
    BY DEF MysqlInv
  <2>2. h \in Statement /\ Has(s, h.op, t)
    BY <2>1, HasTail
  <2> QED BY <2>1, <2>2 DEF MysqlInv, Statement
<1>2. h.op \in TableOps => l \in Layout
  BY <1>1 DEF Database
<1>3. e \in Results(d, h) /\ Works(d, h)
  OBVIOUS
<1> SUFFICES Effect(d, e, h)
  OBVIOUS
<1>4. t = h.on /\ l = d.table[t]
  OBVIOUS
<1> HIDE DEF h, t, l
<1>5. CASE h.op = "rename"
  <2>1. e = Renamed(d)
    BY <1>3, <1>5 DEF Results
  <2>2. /\ e.shares = d.shares
        /\ e.table = [u \in Tables |-> IF d.table[u] = NoTable THEN NoTable
                                       ELSE [d.table[u] EXCEPT !.name = "dsh"]]
    BY <2>1 DEF Renamed, Database
  <2>3. ASSUME NEW u \in Tables, d.table[u] # NoTable
        PROVE  /\ e.table[u].fk = d.table[u].fk /\ e.table[u].id = d.table[u].id
               /\ e.table[u].creator = d.table[u].creator
    <3>1. d.table[u] \in Layout /\ e.table[u] = [d.table[u] EXCEPT !.name = "dsh"]
      BY <2>2, <2>3 DEF Database
    <3> QED BY <3>1 DEF Layout
  <2> QED BY <1>5, <2>2, <2>3 DEF Effect
<1>6. CASE h.op = "create"
  <2>1. e = IF d.table[t] = NoTable THEN [d EXCEPT !.table[t] = Fresh(t)] ELSE d
    BY <1>3, <1>4, <1>6 DEF Results
  <2>2. e.shares = d.shares /\ \A u \in Tables : d.table[u] # NoTable => e.table[u] = d.table[u]
    BY <1>1, <2>1 DEF Database
  <2> QED BY <1>6, <2>2 DEF Effect
<1>7. CASE h.op = "dedupe"
  <2>1. PICK S \in Deduplicated(d) : e = [d EXCEPT !.shares = S]
    BY <1>3, <1>7 DEF Results
  <2>2. e.shares = S /\ e.table = d.table
    BY <2>1 DEF Database
  <2>3. ~Duplicates(S)
    <3>1. CASE d.ordered
      <4>1. S = LatestShares(d.shares)
        BY <2>1, <3>1 DEF Deduplicated
      <4>2. d.shares \in SUBSET (1..MaxShares)
        BY DEF Database
      <4> QED BY <4>1, <4>2, LatestIsUnique
    <3>2. CASE ~d.ordered
      BY <2>1, <3>2 DEF Deduplicated
    <3> QED BY <3>1, <3>2
  <2> QED BY <1>7, <2>2, <2>3 DEF Effect
<1>8. CASE h.op = "raise"
  BY <1>3, <1>8 DEF Works
<1>9. CASE h.op = "dropfk"
  <2> DEFINE m == [l EXCEPT !.fk = FALSE]
  <2>1. e = Set(d, t, "fk", FALSE) /\ l \in Layout
    BY <1>1, <1>2, <1>3, <1>4, <1>9 DEF Results, TableOps
  <2>2. OneChange(d, e, t, m) /\ m.id = l.id /\ m.creator = l.creator
    BY <1>1, <1>4, <2>1, SetFk DEF Layout
  <2> HIDE DEF m
  <2> QED BY <1>1, <1>4, <1>9, <2>1, <2>2, EffectOne
<1>10. CASE h.op = "rekey"
  <2> DEFINE m == [l EXCEPT !.id = "row"]
             f == Set(d, t, "id", "row")
  <2>1. e = [f EXCEPT !.ordered = @ /\ t # Shares] /\ l \in Layout
    BY <1>1, <1>2, <1>3, <1>4, <1>10 DEF Results, TableOps
  <2>2. OneChange(d, f, t, m) /\ m.fk = l.fk /\ m.creator = l.creator
    BY <1>1, <1>4, <2>1, SetId DEF Layout
  <2> HIDE DEF m, f
  <2>3. e.table = f.table /\ e.shares = f.shares
    BY <2>1, <2>2 DEF Database, OneChange
  <2>4. Effect(d, f, h)
    BY <1>1, <1>4, <1>10, <2>1, <2>2, EffectOne
  <2> QED BY <2>3, <2>4 DEF Effect
<1>11. CASE h.op = "addcols"
  <2> DEFINE k == [l EXCEPT !.workspace = TRUE]
             m == [k EXCEPT !.creator = "added"]
             f == Set(d, t, "workspace", TRUE)
             g == Set(f, t, "creator", "added")
  <2>1. /\ e = IF f.table[t].creator = "one" THEN g ELSE f
        /\ l \in Layout
    BY <1>1, <1>2, <1>3, <1>4, <1>11 DEF Results, TableOps
  <2>2. OneChange(d, f, t, k)
    BY <1>1, <1>4, <2>1, SetWorkspace
  <2>3. k \in Layout /\ k.fk = l.fk /\ k.id = l.id /\ k.creator = l.creator
    BY <2>1 DEF Layout
  <2>4. /\ f \in Database /\ f.table[t] = k
        /\ m \in Layout /\ m.fk = l.fk /\ m.id = l.id /\ m.creator = "added"
    BY <2>2, <2>3 DEF OneChange, Layout
  <2>5. OneChange(f, g, t, m)
    <3> HIDE DEF f, k
    <3>1. OneChange(f, Set(f, t, "creator", "added"), t, [f.table[t] EXCEPT !.creator = "added"])
      BY <1>1, <2>3, <2>4, SetCreator
    <3> QED BY <2>4, <3>1
  <2> HIDE DEF k, m, f, g
  <2>6. OneChange(d, g, t, m)
    BY <2>2, <2>5 DEF OneChange
  <2>7. CASE l.creator = "one"
    <3>1. e = g
      BY <2>1, <2>3, <2>4, <2>7
    <3> QED BY <1>1, <1>4, <1>11, <2>1, <2>4, <2>6, <2>7, <3>1, EffectOne
  <2>8. CASE l.creator # "one"
    <3>1. e = f
      BY <2>1, <2>3, <2>4, <2>8
    <3> QED BY <1>1, <1>4, <1>11, <2>1, <2>2, <2>3, <2>8, <3>1, EffectOne
  <2> QED BY <2>7, <2>8
<1>12. CASE h.op = "fill"
  <2> DEFINE m == [l EXCEPT !.creator = "filled"]
  <2>1. e = Set(d, t, "creator", "filled") /\ l \in Layout
    BY <1>1, <1>2, <1>3, <1>4, <1>12 DEF Results, TableOps
  <2>2. OneChange(d, e, t, m) /\ m.id = l.id /\ m.fk = l.fk /\ m.creator = "filled"
    BY <1>1, <1>4, <2>1, SetCreator DEF Layout
  <2> HIDE DEF m
  <2> QED BY <1>1, <1>4, <1>12, <2>1, <2>2, EffectOne
<1>13. CASE h.op = "finish"
  <2> DEFINE m == [l EXCEPT !.creator = "two"]
  <2>1. e = Set(d, t, "creator", "two") /\ l \in Layout
    BY <1>1, <1>2, <1>3, <1>4, <1>13 DEF Results, TableOps
  <2>2. OneChange(d, e, t, m) /\ m.id = l.id /\ m.fk = l.fk
    BY <1>1, <1>4, <2>1, SetCreator DEF Layout
  <2> HIDE DEF m
  <2> QED BY <1>1, <1>4, <1>13, <2>1, <2>2, EffectOne
<1>14. CASE h.op = "token"
  <2> DEFINE m == [l EXCEPT !.token = TRUE]
  <2>1. e = Set(d, t, "token", TRUE) /\ l \in Layout
    BY <1>1, <1>2, <1>3, <1>4, <1>14 DEF Results, TableOps
  <2>2. OneChange(d, e, t, m) /\ m.id = l.id /\ m.fk = l.fk /\ m.creator = l.creator
    BY <1>1, <1>4, <2>1, SetToken DEF Layout
  <2> HIDE DEF m
  <2> QED BY <1>1, <1>4, <1>14, <2>1, <2>2, EffectOne
<1>15. CASE h.op = "unique"
  <2> DEFINE m == [l EXCEPT !.unique = TRUE]
  <2>1. e = Set(d, t, "unique", TRUE) /\ l \in Layout
    BY <1>1, <1>2, <1>3, <1>4, <1>15 DEF Results, TableOps
  <2>2. OneChange(d, e, t, m) /\ m.id = l.id /\ m.fk = l.fk /\ m.creator = l.creator
    BY <1>1, <1>4, <2>1, SetUnique DEF Layout
  <2> HIDE DEF m
  <2> QED BY <1>1, <1>4, <1>15, <2>1, <2>2, EffectOne
<1> QED BY <1>1, <1>5, <1>6, <1>7, <1>8, <1>9, <1>10, <1>11, <1>12, <1>13, <1>14, <1>15
     DEF MysqlOps

-----------------------------------------------------------------------------
\* SQLite's steps find no mixture either: the table that is there is as old as the
\* others when its turn comes, and as new afterwards.

SqliteFits(d, n) == (n <= 1 => ~MixedIds(d)) /\ (n <= 2 => ~MixedCreators(d))

LEMMA SqliteWorks ==
  ASSUME NEW d, NEW n \in 0..5, SqliteFits(d, n), NEW h, h.op = SqliteOps[n + 1]
  PROVE  Works(d, h)
<1>1. CASE n = 0
  BY <1>1 DEF SqliteOps, Works
<1>2. CASE n = 1
  BY <1>2 DEF SqliteOps, Works, SqliteFits
<1>3. CASE n = 2
  BY <1>3 DEF SqliteOps, Works, SqliteFits
<1>4. CASE n = 3
  BY <1>4 DEF SqliteOps, Works
<1>5. CASE n = 4
  BY <1>5 DEF SqliteOps, Works
<1>6. CASE n = 5
  BY <1>6 DEF SqliteOps, Works
<1> QED BY <1>1, <1>2, <1>3, <1>4, <1>5, <1>6

LEMMA SqliteFitsStep ==
  ASSUME NEW d \in Database, NEW n \in 0..5, SqliteFits(d, n),
         NEW h, h.op = SqliteOps[n + 1], NEW e \in Results(d, h)
  PROVE  SqliteFits(e, n + 1)
<1>1. CASE n = 0
  <2>1. h.op = "rename"
    BY <1>1 DEF SqliteOps
  <2>2. e = Renamed(d)
    BY <2>1 DEF Results
  <2>3. e.table = [t \in Tables |-> IF d.table[t] = NoTable THEN NoTable
                                    ELSE [d.table[t] EXCEPT !.name = "dsh"]]
    BY <2>2 DEF Renamed, Database
  <2>4. ASSUME NEW t \in Tables
        PROVE  /\ e.table[t] = NoTable <=> d.table[t] = NoTable
               /\ d.table[t] # NoTable =>
                    e.table[t].id = d.table[t].id /\ e.table[t].creator = d.table[t].creator
    <3>1. CASE d.table[t] = NoTable
      BY <2>3, <3>1
    <3>2. CASE d.table[t] # NoTable
      <4>1. d.table[t] \in Layout /\ e.table[t] = [d.table[t] EXCEPT !.name = "dsh"]
        BY <2>3, <3>2 DEF Database
      <4>2. e.table[t] \in Layout
        BY <4>1 DEF Layout
      <4> QED BY <3>2, <4>1, <4>2, MigrationAssumption DEF Layout
    <3> QED BY <3>1, <3>2
  <2>5. \A v : Having(e, "id", v) = Having(d, "id", v) /\ Having(e, "creator", v) = Having(d, "creator", v)
    <3>1. Present(e) = Present(d)
      BY <2>4 DEF Present
    <3> QED BY <2>4, <3>1 DEF Having, Present
  <2>6. ~MixedIds(e) /\ ~MixedCreators(e)
    BY <1>1, <2>5 DEF SqliteFits, MixedIds, MixedCreators
  <2> QED BY <2>6 DEF SqliteFits
<1>2. CASE n = 1
  <2> DEFINE old == Having(d, "id", {"uuid"})
  <2>1. h.op = "ids"
    BY <1>2 DEF SqliteOps
  <2>2. e = IF old = {} THEN d ELSE Rebuilt(d, old)
    BY <2>1 DEF Results
  <2>3. old \in SUBSET Tables /\ ~MixedIds(d) /\ ~MixedCreators(d)
    BY <1>2 DEF Having, Present, SqliteFits
  <2>4. CASE old = {}
    BY <1>2, <2>2, <2>3, <2>4 DEF SqliteFits
  <2>5. CASE old # {}
    <3>1. \A t \in Tables : d.table[t] # NoTable => t \in old
      BY <2>3, <2>5 DEF MixedIds, Having, Present, Database, Layout
    <3> HIDE DEF old
    <3>2. \A t \in Tables : e.table[t] = Fresh(t)
      BY <2>2, <2>3, <2>5, <3>1, RebuiltFacts
    <3>3. \A t \in Tables : e.table[t].creator = "two"
      BY <3>2, FreshFacts
    <3>4. ~MixedCreators(e)
      BY <3>3 DEF MixedCreators, Having, Present
    <3> QED BY <1>2, <3>4 DEF SqliteFits
  <2> QED BY <2>4, <2>5
<1>3. CASE n \in 2..5
  BY <1>3 DEF SqliteFits
<1> QED BY <1>1, <1>2, <1>3

-----------------------------------------------------------------------------
\* With SQLite no start fails, the first or a later one.

SqliteRuns ==
  backend = "sqlite" =>
    /\ pc # "refused" /\ SqliteFits(disk, 0)
    /\ pc = "migrate" =>
         \E n \in 0..6 : todo = SubSeq(SqlitePlan, n + 1, 6) /\ SqliteFits(work, n)

\* With MySQL the first does not.
FirstRuns ==
  backend = "mysql" /\ crashes = 0 =>
    /\ pc # "refused"
    /\ pc = "down" => Uniform(disk)
    /\ pc = "migrate" => Ready(work, todo)

StartInv == SqliteRuns /\ FirstRuns

LEMMA StartInit == Init => StartInv
<1> SUFFICES ASSUME Init PROVE Uniform(disk)
  BY DEF Init, StartInv, SqliteRuns, FirstRuns, SqliteFits, Uniform
<1>1. PICK present \in {{}, Tables \ {"dsh_uploads"}, Tables},
           old \in [name : {"legacy", "dsh"}, id : {"uuid", "row"}, creator : {"one", "two"},
                   workspace : BOOLEAN, token : BOOLEAN, unique : BOOLEAN] :
         disk = [table |-> [t \in Tables |->
                    IF t \notin present THEN NoTable
                    ELSE [name |-> old.name, id |-> old.id,
                          fk |-> backend = "mysql" /\ old.id = "uuid" /\ t # Artifacts,
                          creator |-> old.creator,
                          workspace |-> t # Artifacts \/ old.workspace,
                          token |-> t # Shares \/ old.token,
                          unique |-> t # Shares \/ old.unique]],
                  shares |-> DOMAIN versionOf,
                  ordered |-> TRUE]
  BY DEF Init
<1>2. ASSUME NEW t \in Tables, disk.table[t] # NoTable
      PROVE  /\ disk.table[t].id = old.id /\ disk.table[t].creator = old.creator
             /\ disk.table[t].fk = (backend = "mysql" /\ old.id = "uuid" /\ t # Artifacts)
  BY <1>1, <1>2
<1>3. old.id \in {"uuid", "row"} /\ old.creator \in {"one", "two"}
  OBVIOUS
<1>4. ~MixedIds(disk)
  BY <1>2 DEF MixedIds, Having, Present
<1>5. ~MixedCreators(disk)
  BY <1>2, <1>3 DEF MixedCreators, Having, Present
<1>6. ASSUME NEW t \in Tables, disk.table[t] # NoTable
      PROVE  /\ disk.table[t].creator \in {"one", "two"}
             /\ backend = "mysql" => (disk.table[t].fk <=> disk.table[t].id = "uuid" /\ t # Artifacts)
  BY <1>2, <1>3, <1>6
<1> QED BY <1>4, <1>5, <1>6 DEF Uniform

\* The plan is made for what is on disk.
LEMMA StartStart == MigrationInv /\ StartInv /\ Start => StartInv'
<1> SUFFICES ASSUME MigrationInv, StartInv, Start PROVE StartInv'
  OBVIOUS
<1>1. /\ UNCHANGED <<backend, versionOf, disk, work, crashes>> /\ work = disk
      /\ pc \in {"down", "refused"} /\ backend \in {"sqlite", "mysql"}
  BY DEF MigrationInv, TypeOK, Start
<1>2. ASSUME backend = "mysql", crashes' = 0
      PROVE  pc' = "migrate" /\ Ready(work, todo)'
  <2>1. Uniform(disk)
    BY <1>1, <1>2 DEF StartInv, FirstRuns
  <2>2. pc' = "migrate" /\ todo' = MysqlPlan(disk)
    BY <1>2, <2>1 DEF Start, Uniform
  <2>3. Ready(disk, MysqlPlan(disk))
    BY <1>2, <2>1, PlanReady
  <2> DEFINE plan == MysqlPlan(disk)
  <2>4. todo' = plan /\ Ready(disk, plan)
    BY <2>2, <2>3
  <2> HIDE DEF plan
  <2>5. Ready(work, todo)'
    BY <1>1, <2>4 DEF Ready, Fits, Ahead, Duplicates
  <2> QED BY <2>2, <2>5
<1>3. FirstRuns'
  BY <1>1, <1>2 DEF FirstRuns
<1>4. ASSUME backend = "sqlite" PROVE SqliteRuns'
  <2>1. SqlitePlan = SubSeq(SqlitePlan, 0 + 1, 6)
    <3>1. SqlitePlan = SubSeq(SqlitePlan, 1, Len(SqlitePlan))
      BY SqlitePlanFacts, SubSeqFull
    <3> QED BY <3>1, SqlitePlanFacts
  <2>2. pc' = "migrate" /\ todo' = SqlitePlan
    BY <1>4 DEF Start
  <2>3. SqliteFits(disk, 0)' /\ SqliteFits(work, 0)'
    BY <1>1, <1>4 DEF StartInv, SqliteRuns, SqliteFits, MixedIds, MixedCreators, Having, Present
  <2>4. 0 \in 0..6
    OBVIOUS
  <2>5. (\E n \in 0..6 : todo = SubSeq(SqlitePlan, n + 1, 6) /\ SqliteFits(work, n))'
    BY <2>1, <2>2, <2>3, <2>4
  <2> QED BY <2>2, <2>3, <2>5 DEF SqliteRuns
<1>5. SqliteRuns'
  BY <1>1, <1>4 DEF SqliteRuns
<1> QED BY <1>3, <1>5 DEF StartInv

\* What is left of SQLite's plan.
LEMMA SqliteRest ==
  ASSUME NEW n \in 0..6, todo = SubSeq(SqlitePlan, n + 1, 6), todo # <<>>
  PROVE  /\ n \in 0..5 /\ Head(todo).op = SqliteOps[n + 1]
         /\ Tail(todo) = SubSeq(SqlitePlan, n + 2, 6)
<1> DEFINE rest == todo
<1>1. rest = SubSeq(SqlitePlan, n + 1, 6) /\ rest # <<>>
  OBVIOUS
<1> HIDE DEF rest
<1>2. n # 6
  BY <1>1, RestFacts
<1>3. n \in 0..5 /\ n < 6
  BY <1>2
<1>4. Head(rest).op = SqliteOps[n + 1] /\ Tail(rest) = SubSeq(SqlitePlan, n + 2, 6)
  BY <1>1, <1>3, RestFacts
<1> QED BY <1>3, <1>4 DEF rest

\* The next statement of SQLite's plan works, and of MySQL's in the first start.
LEMMA StartWorks ==
  ASSUME MigrationInv, StartInv, pc = "migrate", todo # <<>>,
         backend = "sqlite" \/ crashes = 0
  PROVE  Works(work, Head(todo))
<1>1. CASE backend = "mysql"
  BY <1>1, ReadyWorks DEF MigrationInv, MysqlPart, StartInv, FirstRuns
<1>2. CASE backend = "sqlite"
  <2>1. PICK n \in 0..6 : todo = SubSeq(SqlitePlan, n + 1, 6) /\ SqliteFits(work, n)
    BY <1>2 DEF StartInv, SqliteRuns
  <2>2. n \in 0..5 /\ Head(todo).op = SqliteOps[n + 1]
    BY <2>1, SqliteRest
  <2> QED BY <2>1, <2>2, SqliteWorks
<1> QED BY <1>1, <1>2 DEF MigrationInv, TypeOK

LEMMA StartExecute == MigrationInv /\ StartInv /\ Execute => StartInv'
<1> SUFFICES ASSUME MigrationInv, StartInv, Execute PROVE StartInv'
  OBVIOUS
<1>1. /\ pc = "migrate" /\ todo # <<>> /\ Works(work, Head(todo))
      /\ todo' = Tail(todo) /\ disk' = IF Commits(Head(todo)) THEN work' ELSE disk
      /\ UNCHANGED <<backend, versionOf, pc, crashes>>
      /\ work \in Database /\ backend \in {"sqlite", "mysql"}
  BY DEF Execute, MigrationInv, TypeOK
<1>2. PICK e \in Results(work, Head(todo)) : work' = e
  BY DEF Execute
<1>3. ASSUME backend = "mysql", crashes = 0 PROVE Ready(work, todo)'
  <2>1. FormInv(work) /\ MysqlInv(work, todo) /\ Ready(work, todo)
    BY <1>1, <1>3 DEF MigrationInv, MysqlPart, StartInv, FirstRuns
  <2>2. Effect(work, e, Head(todo))
    BY <1>1, <1>3, <2>1, Effects
  <2>3. Ready(e, Tail(todo))
    BY <1>1, <2>1, <2>2, ReadyStep
  <2> QED BY <1>1, <1>2, <2>3 DEF Ready, Fits, Ahead, Duplicates
<1>4. FirstRuns'
  BY <1>1, <1>3 DEF FirstRuns
<1>5. ASSUME backend = "sqlite" PROVE SqliteRuns'
  <2>1. PICK n \in 0..6 : todo = SubSeq(SqlitePlan, n + 1, 6) /\ SqliteFits(work, n)
    BY <1>1, <1>5 DEF StartInv, SqliteRuns
  <2>2. n \in 0..5 /\ Head(todo).op = SqliteOps[n + 1] /\ Tail(todo) = SubSeq(SqlitePlan, n + 2, 6)
    BY <1>1, <2>1, SqliteRest
  <2>3. n + 1 \in 0..6 /\ n + 1 + 1 = n + 2
    BY <2>2
  <2>4. SqliteFits(e, n + 1)
    BY <1>1, <2>1, <2>2, SqliteFitsStep
  <2>5. SqliteFits(work, n + 1)'
    BY <1>2, <2>4 DEF SqliteFits, MixedIds, MixedCreators, Having, Present
  <2>6. todo' = SubSeq(SqlitePlan, n + 1 + 1, 6)
    BY <1>1, <2>2, <2>3
  <2>7. (\E m \in 0..6 : todo = SubSeq(SqlitePlan, m + 1, 6) /\ SqliteFits(work, m))'
    BY <2>3, <2>5, <2>6
  <2>8. disk' = disk
    BY <1>1, <1>5 DEF Commits
  <2>9. SqliteFits(disk, 0)'
    BY <1>5, <2>8 DEF StartInv, SqliteRuns, SqliteFits, MixedIds, MixedCreators, Having, Present
  <2> QED BY <1>1, <2>7, <2>9 DEF SqliteRuns
<1>6. SqliteRuns'
  BY <1>1, <1>5 DEF SqliteRuns
<1> QED BY <1>4, <1>6 DEF StartInv

\* What is committed is today's schema: the next start finds no mixture.
LEMMA StartCommit == MigrationInv /\ StartInv /\ Commit => StartInv'
<1> SUFFICES ASSUME MigrationInv, StartInv, Commit PROVE StartInv'
  OBVIOUS
<1>1. pc' = "up" /\ disk' = work /\ work.table = Current
  BY CommitFacts DEF Commit
<1>2. \A t \in Tables : Current[t].id = "row" /\ Current[t].creator = "two"
  BY DEF Current, Fresh
<1>3. ~MixedIds(work) /\ ~MixedCreators(work)
  BY <1>1, <1>2 DEF MixedIds, MixedCreators, Having, Present
<1>4. SqliteFits(disk, 0)'
  BY <1>1, <1>3 DEF SqliteFits, MixedIds, MixedCreators, Having, Present
<1> QED BY <1>1, <1>4 DEF StartInv, SqliteRuns, FirstRuns

LEMMA StartStep == MigrationInv /\ StartInv /\ [Next]_vars => StartInv'
<1> SUFFICES ASSUME MigrationInv, StartInv, [Next]_vars PROVE StartInv'
  OBVIOUS
<1>1. CASE Start
  BY <1>1, StartStart
<1>2. CASE Execute
  BY <1>2, StartExecute
<1>3. CASE Fail
  <2>1. /\ backend = "mysql" /\ crashes # 0
        /\ UNCHANGED <<backend, crashes>>
    BY <1>3, StartWorks DEF Fail, MigrationInv, TypeOK
  <2> QED BY <2>1 DEF StartInv, SqliteRuns, FirstRuns
<1>4. CASE Commit
  BY <1>4, StartCommit
<1>5. CASE Crash
  <2>1. crashes' # 0 /\ pc' = "down" /\ UNCHANGED <<backend, disk>>
    BY <1>5 DEF Crash, MigrationInv, TypeOK
  <2>2. SqliteFits(disk, 0)' <=> SqliteFits(disk, 0)
    BY <2>1 DEF SqliteFits, MixedIds, MixedCreators, Having, Present
  <2> QED BY <2>1, <2>2 DEF StartInv, SqliteRuns, FirstRuns
<1>6. CASE UNCHANGED vars
  <2>1. UNCHANGED <<backend, versionOf, disk, work, todo, pc, crashes>>
    BY <1>6 DEF vars
  <2>2. Uniform(disk)' <=> Uniform(disk)
    BY <2>1 DEF Uniform, MixedIds, MixedCreators, Having, Present
  <2>3. Ready(work, todo)' <=> Ready(work, todo)
    BY <2>1 DEF Ready, Fits, Ahead, Duplicates
  <2>4. /\ \A n : SqliteFits(work, n)' <=> SqliteFits(work, n)
        /\ SqliteFits(disk, 0)' <=> SqliteFits(disk, 0)
    BY <2>1 DEF SqliteFits, MixedIds, MixedCreators, Having, Present
  <2>5. SqliteRuns'
    BY <2>1, <2>4 DEF StartInv, SqliteRuns
  <2>6. FirstRuns'
    BY <2>1, <2>2, <2>3 DEF StartInv, FirstRuns
  <2> QED BY <2>5, <2>6 DEF StartInv
<1> QED BY <1>1, <1>2, <1>3, <1>4, <1>5, <1>6 DEF Next

\* The plan in execution fits the database, whichever of the starts this covers.
LEMMA StartInvariant == Spec => []StartInv
BY StartInit, StartStep, MigrationInvariant, PTL DEF Spec

\* A start that nothing interrupts succeeds, on the schema of every release: no
\* statement of the plan meets a table other than it needs, and no check raises.
THEOREM FirstStartWorks == Spec => []FirstStartSucceeds
<1>1. MigrationInv /\ StartInv => FirstStartSucceeds
  BY DEF MigrationInv, TypeOK, StartInv, SqliteRuns, FirstRuns, FirstStartSucceeds
<1> QED BY <1>1, StartInvariant, MigrationInvariant, PTL

\* With SQLite no start fails, wherever the process died before.
SqliteNeverRefuses == backend = "sqlite" => pc # "refused"

\* The safety half of SqliteComesUp: what SQLite finds on disk, at the first start
\* and after a crash, is what an earlier release left or today's schema, and the
\* migration raises on neither.
THEOREM SqliteStartsSucceed == Spec => []SqliteNeverRefuses
<1>1. StartInv => SqliteNeverRefuses
  BY DEF StartInv, SqliteRuns, SqliteNeverRefuses
<1> QED BY <1>1, StartInvariant, PTL

=============================================================================

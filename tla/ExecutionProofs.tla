--------------------------- MODULE ExecutionProofs ---------------------------
(* How commands are executed and answered.  Every row of a batch is applied     *)
(* once and in order, and the application is told which were, however the batch *)
(* is run and whenever the connection is lost.  The answers of the statements   *)
(* of one connection are read once, in their order and by their owner.          *)
EXTENDS BatchExecution, StatementResults, SequenceLemmas

-----------------------------------------------------------------------------
(* What the values are is left open: a sequence of rows is one whose ids rise.  *)
IsSequence(s) == Len(s) \in Nat /\ s = [i \in 1..Len(s) |-> s[i]]
Rising(s) ==
  /\ IsSequence(s)
  /\ \A i \in 1..Len(s) : s[i].id \in Nat
  /\ \A i, j \in 1..Len(s) : i < j => s[i].id < s[j].id
RowList(s) == Rising(s) /\ \A i \in 1..Len(s) : s[i].bad \in BOOLEAN
Below(t, n) == \A i \in 1..Len(t) : t[i].id < n
AppliedIn(t, id) == \E i \in 1..Len(t) : t[i].id = id

Counted ==
  [kind : {"batch"}, counts : Seq(Nat), ids : Seq(Nat), idx : {0}, failed : {FALSE},
   expected : Nat, rewritten : {FALSE}]
WayNames == {"single", "multi", "values", "semicolon", "aggregate", "bulk"}
Execution ==
  [way : Seq(WayNames), at : Nat, info : {NoInformation} \cup Counted, failed : BOOLEAN, begun : Nat]
IsTold(t) == t = [rows |-> t.rows, how |-> t.how, counts |-> t.counts, way |-> t.way]

BatchTypeOK ==
  /\ RowList(batch) /\ RowList(told.rows) /\ IsTold(told) /\ Rising(table)
  /\ exec \in Execution /\ ran \in BOOLEAN

(* Between two executions the table ends before the first row that has not run. *)
Waiting ==
  exec = Idle =>
    /\ ran \/ batch = << >> => Below(table, NextId)
    /\ ~ran /\ batch # << >> => Below(table, batch[1].id)
    /\ ran => batch # << >>

(* During one it ends before row e.at, and the rows until then are accounted    *)
(* for: unless an error was kept or lost, each is applied and counted.          *)
Loses(e) == conf.side = "server" /\ conf.continueBatchOnError /\ Head(e.way) = "single"
AtRow(e, t) == e.at \in 1..Len(batch) /\ Below(t, batch[e.at].id)
Info(e) ==
  /\ e.at = 1 => e.info = NoInformation /\ ~e.failed
  /\ Head(e.way) = "bulk" => e.at = 1
  /\ e.info # NoInformation => e.info.expected = Len(batch)
  /\ ~conf.continueBatchOnError => ~e.failed
AllDone(e, t) ==
  ~e.failed /\ ~Loses(e) =>
    /\ \A i \in 1..Len(batch) : i < e.at => AppliedIn(t, batch[i].id) /\ ~batch[i].bad
    /\ e.at > 1 => e.info # NoInformation
    /\ e.at > 1 /\ Head(e.way) # "values" => Len(e.info.counts) = e.at - 1
GoodDone(e, t) ==
  conf.continueBatchOnError /\ Head(e.way) = "single" /\ alive =>
    \A i \in 1..Len(batch) : i < e.at => (AppliedIn(t, batch[i].id) <=> ~batch[i].bad)
Advanced(e, t) == AtRow(e, t) /\ Info(e) /\ AllDone(e, t) /\ GoodDone(e, t)
UnderWay ==
  exec # Idle =>
    /\ batch # << >> /\ ~ran /\ told.rows = batch /\ told.how = "nothing"
    /\ Advanced(exec, table)

BatchInv == BatchTypeOK /\ Waiting /\ UnderWay /\ OutcomeIsTold

-----------------------------------------------------------------------------
(* The rows of a packet are an interval; its last row and its first bad one      *)
(* are chosen as a greatest and a least number.                                  *)
LEMMA GreatestNumber ==
  ASSUME NEW n \in Nat, NEW T, T \subseteq 0..n, T # {}
  PROVE  \E x \in T : \A y \in T : y <= x
<1>1. PICK D : D = {n - x : x \in T}
  OBVIOUS
<1>2. D \subseteq Nat /\ D # {}
  <2>1. ASSUME NEW d \in D PROVE d \in Nat
    <3>1. PICK x \in T : d = n - x
      BY <1>1
    <3>2. x \in 0..n
      OBVIOUS
    <3> QED
      BY ONLY <3>1, <3>2, n \in Nat
  <2>2. D # {}
    BY <1>1
  <2> QED
    BY <2>1, <2>2
<1>3. PICK d \in D : \A e \in D : d <= e
  BY ONLY <1>2, LeastNumber
<1>4. PICK x \in T : d = n - x
  BY <1>1
<1>5. ASSUME NEW y \in T PROVE y <= x
  <2>1. d <= n - y
    BY <1>1, <1>3
  <2>2. x \in Nat /\ y \in Nat
    OBVIOUS
  <2> QED
    BY <1>4, <2>1, <2>2
<1> QED
  BY <1>4, <1>5

(* A packet takes at least its first row and ends with a row of the batch.       *)
LEMMA PacketEnds ==
  ASSUME Len(batch) \in Nat, NEW a \in 1..Len(batch)
  PROVE  PacketEnd(a) \in a..Len(batch)
<1>1. PICK F : F = {b \in a .. Len(batch) : \A k \in a + 1 .. b :
                      /\ batch[k].holder.length # -1 => LengthOf(a, k) < MaxPacket
                      /\ batch[k].holder.length = -1 => k = b}
  OBVIOUS
<1>2. a \in F
  BY <1>1
<1>3. F \subseteq 0..Len(batch) /\ F \subseteq a..Len(batch)
  BY <1>1
<1>4. \E x \in F : \A y \in F : y <= x
  BY ONLY <1>2, <1>3, Len(batch) \in Nat, GreatestNumber
<1>5. PacketEnd(a) = CHOOSE b \in F : \A c \in F : c <= b
  BY <1>1 DEF PacketEnd
<1> QED
  BY <1>3, <1>4, <1>5

(* The first of the rows that the server refuses.                                *)
LEMMA FirstBad ==
  ASSUME NEW n \in Nat, NEW T, T \subseteq 1..n, T # {},
         NEW f, f = CHOOSE i \in T : \A j \in T : i <= j
  PROVE  f \in T /\ \A j \in T : f <= j
<1>1. T \subseteq Nat
  OBVIOUS
<1>2. \E x \in T : \A y \in T : x <= y
  BY ONLY <1>1, T # {}, LeastNumber
<1> QED
  BY <1>2

-----------------------------------------------------------------------------
(* Sequences of anything.                                                        *)
LEMMA SequenceIsSeq ==
  ASSUME NEW s, IsSequence(s), NEW S, \A i \in 1..Len(s) : s[i] \in S
  PROVE  s \in Seq(S)
<1>1. PICK n \in Nat : n = Len(s)
  BY DEF IsSequence
<1>2. s = [i \in 1..n |-> s[i]]
  BY <1>1 DEF IsSequence
<1>3. s \in [1..n -> S]
  BY <1>1, <1>2
<1> QED
  BY <1>3

LEMMA SeqIsSequence ==
  ASSUME NEW S, NEW s \in Seq(S)
  PROVE  IsSequence(s) /\ DOMAIN s = 1..Len(s)
BY DEF IsSequence

LEMMA SequenceDomain ==
  ASSUME NEW s, IsSequence(s)
  PROVE  /\ DOMAIN s = 1..Len(s) /\ Len(s) \in Nat
         /\ s # << >> => Len(s) \in 1..Len(s) /\ 1 \in 1..Len(s)
<1>1. PICK S : S = {s[i] : i \in 1..Len(s)}
  OBVIOUS
<1>2. s \in Seq(S)
  BY <1>1, SequenceIsSeq
<1> QED
  BY <1>2

LEMMA EmptySequence ==
  IsSequence(<< >>) /\ Len(<< >>) = 0
BY DEF IsSequence

(* The table after one more step: what was there, then the new rows.             *)
LEMMA Joined ==
  ASSUME NEW s, IsSequence(s), NEW t, IsSequence(t)
  PROVE  /\ IsSequence(s \o t) /\ Len(s \o t) = Len(s) + Len(t)
         /\ \A i \in 1..Len(s) : (s \o t)[i] = s[i]
         /\ \A i \in 1..Len(t) : (s \o t)[Len(s) + i] = t[i]
<1>1. PICK S : S = {s[i] : i \in 1..Len(s)} \cup {t[i] : i \in 1..Len(t)}
  OBVIOUS
<1>2. s \in Seq(S) /\ t \in Seq(S)
  BY <1>1, SequenceIsSeq
<1>3. s \o t \in Seq(S) /\ Len(s \o t) = Len(s) + Len(t)
  BY <1>2
<1>4. IsSequence(s \o t)
  BY <1>3, SeqIsSequence
<1>5. \A i \in 1..Len(s) : (s \o t)[i] = s[i]
  BY <1>2
<1>6. \A i \in 1..Len(t) : (s \o t)[Len(s) + i] = t[i]
  BY <1>2
<1> QED
  BY <1>3, <1>4, <1>5, <1>6

LEMMA Appended ==
  ASSUME NEW s, IsSequence(s), NEW x
  PROVE  /\ IsSequence(Append(s, x)) /\ Len(Append(s, x)) = Len(s) + 1
         /\ \A i \in 1..Len(s) : Append(s, x)[i] = s[i]
         /\ Append(s, x)[Len(s) + 1] = x
<1>1. PICK S : S = {s[i] : i \in 1..Len(s)} \cup {x}
  OBVIOUS
<1>2. s \in Seq(S) /\ x \in S
  BY <1>1, SequenceIsSeq
<1>3. Append(s, x) \in Seq(S) /\ Len(Append(s, x)) = Len(s) + 1
  BY <1>2
<1>4. IsSequence(Append(s, x))
  BY <1>3, SeqIsSequence
<1> QED
  BY <1>2, <1>3, <1>4

(* Rows a to b of a batch are put behind a table that ends before row a.         *)
LEMMA Grown ==
  ASSUME NEW B, RowList(B), NEW t, Rising(t), NEW a \in 1..Len(B), NEW b \in a - 1..Len(B),
         Below(t, B[a].id),
         NEW u, IsSequence(u), Len(u) = b - a + 1,
         \A i \in 1..Len(u) : u[i].id = B[a + i - 1].id,
         NEW r, r = t \o u
  PROVE  /\ Rising(r)
         /\ b < Len(B) => Below(r, B[b + 1].id)
         /\ Below(r, B[Len(B)].id + 1)
         /\ \A i \in 1..Len(B) : AppliedIn(r, B[i].id) <=> (AppliedIn(t, B[i].id) \/ i \in a..b)
<1>1. IsSequence(t) /\ Len(t) \in Nat /\ Len(B) \in Nat /\ Len(u) \in Nat
  BY DEF Rising, RowList, IsSequence
<1>2. /\ IsSequence(r) /\ Len(r) = Len(t) + Len(u)
      /\ \A i \in 1..Len(t) : r[i] = t[i]
      /\ \A i \in 1..Len(u) : r[Len(t) + i] = u[i]
  BY ONLY <1>1, IsSequence(u), r = t \o u, Joined
<1>3. ASSUME NEW k \in 1..Len(r), k > Len(t)
      PROVE  a + (k - Len(t)) - 1 \in a..b /\ r[k].id = B[a + (k - Len(t)) - 1].id
  <2>1. PICK i : i = k - Len(t)
    OBVIOUS
  <2>2. i \in 1..Len(u) /\ k = Len(t) + i
    BY <1>1, <1>2, <1>3, <2>1, SMTT(30)
  <2>3. r[k].id = B[a + i - 1].id
    BY <1>2, <2>2
  <2> QED
    BY <1>1, <2>1, <2>2, <2>3
<1>4. \A i, j \in 1..Len(B) : i < j => B[i].id < B[j].id
  BY DEF RowList, Rising
<1>5. \A i \in 1..Len(B) : B[i].id \in Nat
  BY DEF RowList, Rising
<1>6. ASSUME NEW k \in 1..Len(t)
      PROVE  k \in 1..Len(r) /\ r[k].id = t[k].id /\ t[k].id \in Nat /\ t[k].id < B[a].id
  BY <1>1, <1>2 DEF Rising, Below
<1>7. a..b \subseteq 1..Len(B) /\ a \in Nat /\ b \in Int
  BY <1>1
<1>8. ASSUME NEW k \in 1..Len(r) PROVE r[k].id \in Nat
  <2>1. CASE k \in 1..Len(t)
    BY <1>6, <2>1
  <2>2. CASE k > Len(t)
    BY <1>3, <1>5, <1>7, <2>2
  <2> QED
    BY <1>1, <2>1, <2>2
<1>9. ASSUME NEW k \in 1..Len(r), NEW l \in 1..Len(r), k < l PROVE r[k].id < r[l].id
  <2>1. CASE l \in 1..Len(t)
    <3>1. k \in 1..Len(t)
      BY <1>1, <1>9, <2>1
    <3> QED
      BY <1>6, <1>9, <2>1, <3>1 DEF Rising
  <2>2. CASE l > Len(t)
    <3>1. PICK m : m = a + (l - Len(t)) - 1
      OBVIOUS
    <3>2. m \in a..b /\ r[l].id = B[m].id /\ m \in 1..Len(B)
      BY <1>3, <1>7, <2>2, <3>1
    <3>3. CASE k \in 1..Len(t)
      <4>1. r[k].id < B[a].id /\ r[k].id \in Nat
        BY <1>6, <3>3
      <4>2. m = a \/ a < m
        BY <3>2, <1>7
      <4>3. B[a].id <= B[m].id /\ B[a].id \in Nat /\ B[m].id \in Nat
        BY <1>4, <1>5, <3>2, <4>2, SMTT(30)
      <4> QED
        BY ONLY <4>1, <4>3, <3>2
    <3>4. CASE k > Len(t)
      <4>1. PICK p : p = a + (k - Len(t)) - 1
        OBVIOUS
      <4>2. p \in a..b /\ r[k].id = B[p].id /\ p \in 1..Len(B)
        BY <1>3, <1>7, <3>4, <4>1
      <4>3. p < m
        BY ONLY <1>1, <1>7, <1>9, <3>1, <4>1, k \in 1..Len(r), l \in 1..Len(r), SMTT(30)
      <4> QED
        BY <1>4, <3>2, <4>2, <4>3
    <3> QED
      BY <1>1, <3>3, <3>4
  <2> QED
    BY <1>1, <2>1, <2>2
<1>10. Rising(r)
  BY ONLY <1>2, <1>8, <1>9 DEF Rising
<1>11. ASSUME b < Len(B), NEW k \in 1..Len(r) PROVE r[k].id < B[b + 1].id
  <2>1. b + 1 \in 1..Len(B) /\ a <= b + 1
    BY <1>1, <1>7, <1>11
  <2>2. CASE k \in 1..Len(t)
    <3>1. a = b + 1 \/ a < b + 1
      BY <1>7, <2>1
    <3>2. B[a].id <= B[b + 1].id /\ B[a].id \in Nat /\ B[b + 1].id \in Nat
      BY <1>4, <1>5, <2>1, <3>1
    <3>3. r[k].id < B[a].id /\ r[k].id \in Nat
      BY <1>6, <2>2
    <3> QED
      BY ONLY <3>2, <3>3, SMTT(30)
  <2>3. CASE k > Len(t)
    <3>1. PICK m : m = a + (k - Len(t)) - 1
      OBVIOUS
    <3>2. m \in a..b /\ r[k].id = B[m].id /\ m \in 1..Len(B)
      BY <1>3, <1>7, <2>3, <3>1
    <3> QED
      BY <1>4, <1>7, <2>1, <3>2
  <2> QED
    BY <1>1, <2>2, <2>3
<1>12. ASSUME NEW k \in 1..Len(r) PROVE r[k].id < B[Len(B)].id + 1
  <2>1. Len(B) \in 1..Len(B)
    BY <1>1
  <2>2. ASSUME NEW m \in 1..Len(B), r[k].id <= B[m].id PROVE r[k].id < B[Len(B)].id + 1
    <3>1. m = Len(B) \/ m < Len(B)
      BY <1>1
    <3>2. B[m].id \in Nat /\ B[Len(B)].id \in Nat /\ r[k].id \in Nat
      BY <1>5, <1>8, <2>1
    <3>3. m < Len(B) => B[m].id < B[Len(B)].id
      BY <1>4, <2>1
    <3> QED
      BY ONLY <2>2, <3>1, <3>2, <3>3
  <2>3. CASE k \in 1..Len(t)
    <3>1. r[k].id \in Nat /\ r[k].id < B[a].id /\ B[a].id \in Nat
      BY <1>5, <1>6, <2>3
    <3>2. r[k].id <= B[a].id
      BY ONLY <3>1
    <3> QED
      BY ONLY <2>2, <3>2, a \in 1..Len(B)
  <2>4. CASE k > Len(t)
    <3>1. PICK m : m = a + (k - Len(t)) - 1
      OBVIOUS
    <3>2. m \in a..b /\ r[k].id = B[m].id /\ m \in 1..Len(B)
      BY <1>3, <1>7, <2>4, <3>1
    <3>3. B[m].id \in Nat
      BY <1>5, <3>2
    <3>4. r[k].id <= B[m].id
      BY ONLY <3>2, <3>3
    <3> QED
      BY ONLY <2>2, <3>2, <3>4
  <2> QED
    BY <1>1, <2>3, <2>4, SMTT(30)
<1>13. ASSUME NEW i \in 1..Len(B)
       PROVE  AppliedIn(r, B[i].id) <=> (AppliedIn(t, B[i].id) \/ i \in a..b)
  <2>1. ASSUME AppliedIn(t, B[i].id) PROVE AppliedIn(r, B[i].id)
    BY <1>6, <2>1 DEF AppliedIn
  <2>2. ASSUME i \in a..b PROVE AppliedIn(r, B[i].id)
    <3>1. PICK k : k = i - a + 1
      OBVIOUS
    <3>2. k \in 1..Len(u) /\ i = a + k - 1
      BY <1>7, <2>2, <3>1
    <3>3. r[Len(t) + k].id = B[i].id
      BY <1>2, <3>2
    <3>4. Len(t) + k \in 1..Len(r)
      BY <1>1, <1>2, <3>2
    <3> QED
      BY <3>3, <3>4 DEF AppliedIn
  <2>3. ASSUME AppliedIn(r, B[i].id) PROVE AppliedIn(t, B[i].id) \/ i \in a..b
    <3>1. PICK k \in 1..Len(r) : r[k].id = B[i].id
      BY <2>3 DEF AppliedIn
    <3>2. CASE k \in 1..Len(t)
      BY <1>6, <3>1, <3>2 DEF AppliedIn
    <3>3. CASE k > Len(t)
      <4>1. PICK m : m = a + (k - Len(t)) - 1
        OBVIOUS
      <4>2. m \in a..b /\ B[i].id = B[m].id /\ m \in 1..Len(B)
        BY <1>3, <1>7, <3>1, <3>3, <4>1
      <4>3. /\ i < m => B[i].id < B[m].id
            /\ m < i => B[m].id < B[i].id
            /\ B[i].id \in Nat /\ B[m].id \in Nat
        BY <1>4, <1>5, <4>2
      <4>4. i = m
        BY ONLY <4>2, <4>3, i \in 1..Len(B), <1>1
      <4> QED
        BY <4>2, <4>4
    <3> QED
      BY <1>1, <3>2, <3>3
  <2> QED
    BY <2>1, <2>2, <2>3
<1> QED
  BY <1>10, <1>11, <1>12, <1>13 DEF Below

(* The server applies rows a to b.                                               *)
LEMMA ApplyGrows ==
  ASSUME RowList(batch), Rising(table), NEW a \in 1..Len(batch), NEW b \in a - 1..Len(batch),
         Below(table, batch[a].id), NEW form, Apply(a, b, form)
  PROVE  /\ Rising(table')
         /\ b < Len(batch) => Below(table', batch[b + 1].id)
         /\ Below(table', batch[Len(batch)].id + 1)
         /\ \A i \in 1..Len(batch) :
              AppliedIn(table', batch[i].id) <=> (AppliedIn(table, batch[i].id) \/ i \in a..b)
<1>1. PICK u : u = [i \in 1 .. b - a + 1 |->
                      [id |-> batch[a + i - 1].id, value |-> ValueSent(batch[a + i - 1], form)]]
  OBVIOUS
<1>2. table' = table \o u
  BY <1>1 DEF Apply
<1>3. b - a + 1 \in Nat
  BY DEF RowList, Rising, IsSequence
<1>4. PICK S : S = {u[i] : i \in 1..b - a + 1}
  OBVIOUS
<1>5. u \in [1..b - a + 1 -> S]
  BY <1>1, <1>4
<1>6. u \in Seq(S) /\ Len(u) = b - a + 1
  BY <1>3, <1>5
<1>7. IsSequence(u)
  BY <1>6, SeqIsSequence
<1>8. \A i \in 1..Len(u) : u[i].id = batch[a + i - 1].id
  BY <1>1, <1>6
<1> QED
  BY ONLY RowList(batch), Rising(table), a \in 1..Len(batch), b \in a - 1..Len(batch),
     Below(table, batch[a].id), <1>2, <1>6, <1>7, <1>8, Grown

(* A row that the table ends before is not in it.                                *)
LEMMA NotYet ==
  ASSUME NEW B, RowList(B), NEW t, Rising(t), NEW a \in 1..Len(B), Below(t, B[a].id),
         NEW j \in 1..Len(B), a <= j
  PROVE  ~AppliedIn(t, B[j].id)
<1>1. Len(B) \in Nat /\ B[a].id \in Nat /\ B[j].id \in Nat /\ (a < j => B[a].id < B[j].id)
  BY DEF RowList, Rising, IsSequence
<1>2. B[a].id <= B[j].id
  BY <1>1
<1>3. ASSUME NEW i \in 1..Len(t), t[i].id = B[j].id PROVE FALSE
  <2>1. t[i].id \in Nat /\ t[i].id < B[a].id
    BY DEF Rising, Below
  <2> QED
    BY <1>1, <1>2, <1>3, <2>1
<1> QED
  BY <1>3 DEF AppliedIn

(* A table that ends before a row ends before the next id that is given.         *)
LEMMA BelowLast ==
  ASSUME NEW B, RowList(B), NEW t, Rising(t), NEW a \in 1..Len(B), Below(t, B[a].id)
  PROVE  Below(t, B[Len(B)].id + 1)
<1>1. Len(B) \in Nat /\ Len(B) \in 1..Len(B)
  BY DEF RowList, Rising, IsSequence
<1>2. B[a].id \in Nat /\ B[Len(B)].id \in Nat /\ B[a].id <= B[Len(B)].id
  <2>1. a = Len(B) \/ a < Len(B)
    BY <1>1
  <2> QED
    BY <1>1, <2>1 DEF RowList, Rising
<1>3. ASSUME NEW i \in 1..Len(t) PROVE t[i].id < B[Len(B)].id + 1
  <2>1. t[i].id \in Nat /\ t[i].id < B[a].id
    BY DEF Rising, Below
  <2> QED
    BY <1>2, <2>1
<1> QED
  BY <1>3 DEF Below

-----------------------------------------------------------------------------
(* The counts grow by one for an answer.                                         *)
LEMMA BegunCounted ==
  ASSUME Len(batch) \in Nat, NEW i \in {NoInformation} \cup Counted,
         i # NoInformation => i.expected = Len(batch), NEW r, r = Begun(i)
  PROVE  /\ r \in Counted /\ r.expected = Len(batch)
         /\ i = NoInformation => Len(r.counts) = 0
         /\ i # NoInformation => r.counts = i.counts
<1>1. CASE i = NoInformation
  <2>1. r = NewInformation("batch", Len(batch))
    BY <1>1 DEF Begun
  <2>2. PICK z : z = << >>
    OBVIOUS
  <2>3. z \in Seq(Nat) /\ Len(z) = 0
    BY <2>2
  <2>4. r = [kind |-> "batch", counts |-> z, ids |-> z, idx |-> 0,
             failed |-> FALSE, expected |-> Len(batch), rewritten |-> FALSE]
    BY <2>1, <2>2 DEF NewInformation
  <2>5. r \in Counted
    BY ONLY <2>3, <2>4, Len(batch) \in Nat DEF Counted
  <2>6. r.expected = Len(batch) /\ r.counts = z
    BY ONLY <2>4
  <2> QED
    BY ONLY <1>1, <2>3, <2>5, <2>6
<1>2. CASE i # NoInformation
  BY <1>2 DEF Begun
<1> QED
  BY <1>1, <1>2

LEMMA CountedIsInformation == \A i \in Counted : i # NoInformation
BY DEF Counted, NoInformation

LEMMA NotedCounted ==
  ASSUME Len(batch) \in Nat, NEW i \in {NoInformation} \cup Counted,
         i # NoInformation => i.expected = Len(batch), NEW c \in Nat, NEW r, r = Noted(i, c)
  PROVE  /\ r \in Counted /\ r.expected = Len(batch) /\ Len(r.counts) > 0
         /\ i = NoInformation => Len(r.counts) = 1
         /\ i # NoInformation => Len(r.counts) = Len(i.counts) + 1
<1>1. PICK b : b = Begun(i)
  OBVIOUS
<1>2. /\ b \in Counted /\ b.expected = Len(batch)
      /\ i = NoInformation => Len(b.counts) = 0
      /\ i # NoInformation => b.counts = i.counts
  BY ONLY <1>1, BegunCounted, Len(batch) \in Nat, i \in {NoInformation} \cup Counted,
     i # NoInformation => i.expected = Len(batch)
<1>3. r = AddSuccessStat(b, c, 0)
  BY <1>1 DEF Noted
<1>4. b.kind = "batch" /\ b.counts \in Seq(Nat) /\ b.ids \in Seq(Nat)
  BY <1>2 DEF Counted
<1>5. r = [b EXCEPT !.counts = Append(@, c), !.ids = Append(@, 0)]
  BY <1>3, <1>4 DEF AddSuccessStat
<1>6. /\ Append(b.counts, c) \in Seq(Nat) /\ Append(b.ids, 0) \in Seq(Nat)
      /\ Len(Append(b.counts, c)) = Len(b.counts) + 1 /\ Len(b.counts) \in Nat
  BY <1>4
<1>7. r \in Counted /\ r.expected = b.expected /\ r.counts = Append(b.counts, c)
  BY <1>2, <1>5, <1>6 DEF Counted
<1> QED
  BY ONLY <1>2, <1>6, <1>7, SMTT(30)

LEMMA NotedEachCounted ==
  ASSUME Len(batch) \in Nat, NEW i \in {NoInformation} \cup Counted,
         i # NoInformation => i.expected = Len(batch), NEW n \in Nat, NEW r, r = NotedEach(i, n)
  PROVE  /\ r \in Counted /\ r.expected = Len(batch)
         /\ i = NoInformation => Len(r.counts) = n
         /\ i # NoInformation => Len(r.counts) = Len(i.counts) + n
<1>1. PICK b : b = Begun(i)
  OBVIOUS
<1>2. /\ b \in Counted /\ b.expected = Len(batch)
      /\ i = NoInformation => Len(b.counts) = 0
      /\ i # NoInformation => b.counts = i.counts
  BY ONLY <1>1, BegunCounted, Len(batch) \in Nat, i \in {NoInformation} \cup Counted,
     i # NoInformation => i.expected = Len(batch)
<1>3. PICK p, q : p = [k \in 1 .. n |-> 1] /\ q = [k \in 1 .. n |-> 0]
  OBVIOUS
<1>4. p \in [1..n -> Nat] /\ q \in [1..n -> Nat]
  BY <1>3
<1>5. p \in Seq(Nat) /\ q \in Seq(Nat) /\ Len(p) = n
  BY <1>4
<1>6. r = [b EXCEPT !.counts = @ \o p, !.ids = @ \o q]
  BY <1>1, <1>3 DEF NotedEach
<1>7. b.counts \in Seq(Nat) /\ b.ids \in Seq(Nat)
  BY <1>2 DEF Counted
<1>8. /\ b.counts \o p \in Seq(Nat) /\ b.ids \o q \in Seq(Nat)
      /\ Len(b.counts \o p) = Len(b.counts) + n /\ Len(b.counts) \in Nat
  <2>1. \A s, t \in Seq(Nat) : s \o t \in Seq(Nat) /\ Len(s \o t) = Len(s) + Len(t) /\ Len(s) \in Nat
    OBVIOUS
  <2> QED
    BY ONLY <1>5, <1>7, <2>1
<1>9. r \in Counted /\ r.expected = b.expected /\ r.counts = b.counts \o p
  BY <1>2, <1>6, <1>8 DEF Counted
<1>10. Len(r.counts) = Len(b.counts) + n
  BY ONLY <1>8, <1>9
<1>11. ASSUME i = NoInformation PROVE Len(r.counts) = n
  BY ONLY <1>2, <1>10, <1>11, n \in Nat
<1>12. ASSUME i # NoInformation PROVE Len(r.counts) = Len(i.counts) + n
  BY ONLY <1>2, <1>10, <1>12
<1> QED
  BY ONLY <1>2, <1>9, <1>11, <1>12

(* As many counts as rows are handed out as they are.                            *)
LEMMA CountsAsNoted ==
  ASSUME NEW r \in Counted, Len(r.counts) = r.expected
  PROVE  /\ DOMAIN GetUpdateCounts(r) = 1..r.expected /\ Len(GetUpdateCounts(r)) = r.expected
         /\ \A k \in 1..r.expected : GetUpdateCounts(r)[k] # EXECUTE_FAILED
<1>1. ~r.rewritten /\ r.counts \in Seq(Nat) /\ r.expected \in Nat
  BY DEF Counted
<1>2. PICK z : z = [k \in 1 .. 0 |-> EXECUTE_FAILED]
  OBVIOUS
<1>3. GetUpdateCounts(r) = r.counts \o z
  BY <1>1, <1>2 DEF GetUpdateCounts
<1>4. z \in [1..0 -> Nat]
  BY <1>2
<1>5. z \in Seq(Nat) /\ Len(z) = 0
  BY <1>4
<1>6. r.counts \o z \in Seq(Nat) /\ Len(r.counts \o z) = Len(r.counts)
  BY <1>1, <1>5
<1>7. PICK c \in Seq(Nat) : c = r.counts \o z /\ Len(c) = r.expected
  BY <1>6
<1>8. \A k \in 1..Len(c) : c[k] \in Nat
  BY ONLY c \in Seq(Nat)
<1>9. \A k \in 1..Len(c) : c[k] # EXECUTE_FAILED
  BY <1>8 DEF EXECUTE_FAILED
<1> QED
  BY <1>3, <1>7, <1>9

(* The counts of a rewritten batch: one for each row, none of them a failure.    *)
LEMMA CountsRewritten ==
  ASSUME NEW q \in Counted, Len(q.counts) > 0, NEW r, r = [q EXCEPT !.rewritten = TRUE]
  PROVE  /\ DOMAIN GetUpdateCounts(r) = 1..q.expected /\ Len(GetUpdateCounts(r)) = q.expected
         /\ \A k \in 1..q.expected : GetUpdateCounts(r)[k] # EXECUTE_FAILED
<1>1. q.counts \in Seq(Nat) /\ q.expected \in Nat /\ ~q.failed
  BY DEF Counted
<1>2. r.rewritten /\ r.counts = q.counts /\ r.expected = q.expected /\ ~r.failed
  BY DEF Counted
<1>3. PICK one : one = CASE r.failed -> EXECUTE_FAILED
                         [] ~r.failed /\ r.expected = 1 -> r.counts[1]
                         [] OTHER -> IF \E k \in DOMAIN r.counts : r.counts[k] # 0
                                     THEN SUCCESS_NO_INFO ELSE 0
  OBVIOUS
<1>4. q.counts[1] \in Nat
  BY <1>1
<1>5. one # EXECUTE_FAILED
  <2>1. CASE r.expected = 1
    BY <1>2, <1>3, <1>4, <2>1 DEF EXECUTE_FAILED
  <2>2. CASE r.expected # 1
    BY <1>2, <1>3, <2>2 DEF EXECUTE_FAILED, SUCCESS_NO_INFO
  <2> QED
    BY <2>1, <2>2
<1>6. GetUpdateCounts(r) = [k \in 1..q.expected |-> one]
  BY <1>2, <1>3 DEF GetUpdateCounts
<1>7. PICK c : c = [k \in 1..q.expected |-> one]
  OBVIOUS
<1>8. c \in [1..q.expected -> {one}]
  BY <1>7
<1>9. c \in Seq({one}) /\ Len(c) = q.expected
  BY <1>1, <1>8
<1> QED
  BY <1>5, <1>6, <1>7, <1>9

-----------------------------------------------------------------------------
(* Applied and AppliedIn say the same of a table that is a sequence.             *)
LEMMA AppliedNow ==
  ASSUME IsSequence(table'), NEW id
  PROVE  (\E i \in DOMAIN table' : table'[i].id = id) <=> AppliedIn(table', id)
BY SequenceDomain DEF AppliedIn

(* What every end of an execution leaves.                                        *)
LEMMA FinishStands ==
  ASSUME BatchInv, exec # Idle, NEW how, NEW info, Finish(how, info), Rising(table'),
         Below(table', batch[Len(batch)].id + 1)
  PROVE  /\ BatchTypeOK' /\ Waiting' /\ UnderWay'
         /\ told'.rows = batch /\ told'.how = how /\ told'.way = Head(exec.way)
         /\ told'.counts = (IF how = "counts" THEN GetUpdateCounts(info) ELSE << >>)
         /\ conf' = conf /\ alive' = alive
<1>1. RowList(batch) /\ RowList(told.rows) /\ IsTold(told)
  BY DEF BatchInv, BatchTypeOK
<1>2. told.rows = batch /\ batch # << >>
  BY DEF BatchInv, UnderWay
<1>3. told' = [told EXCEPT !.how = how, !.way = Head(exec.way),
                 !.counts = IF how = "counts" THEN GetUpdateCounts(info) ELSE << >>]
  BY DEF Finish
<1>4. /\ told'.rows = batch /\ told'.how = how /\ told'.way = Head(exec.way)
      /\ told'.counts = (IF how = "counts" THEN GetUpdateCounts(info) ELSE << >>)
      /\ IsTold(told')
  BY ONLY <1>1, <1>2, <1>3 DEF IsTold
<1>5. /\ exec' = Idle /\ ran' = (conf.side # "text") /\ conf' = conf /\ alive' = alive
      /\ batch' = IF conf.side = "text" THEN << >> ELSE batch
  BY DEF Finish
<1>6. RowList(<< >>)
  BY EmptySequence DEF RowList, Rising
<1>7. RowList(batch') /\ RowList(told'.rows)
  BY ONLY <1>1, <1>4, <1>5, <1>6
<1>8. Idle \in Execution
  <2>1. PICK z : z = << >>
    OBVIOUS
  <2>2. z \in Seq(WayNames)
    BY <2>1
  <2>3. Idle = [way |-> z, at |-> 0, info |-> NoInformation, failed |-> FALSE, begun |-> 0]
    BY <2>1 DEF Idle
  <2> QED
    BY ONLY <2>2, <2>3 DEF Execution
<1>9. BatchTypeOK'
  BY ONLY <1>4, <1>5, <1>7, <1>8, Rising(table') DEF BatchTypeOK
<1>10. Waiting'
  <2>1. NextId' = batch[Len(batch)].id + 1
    BY ONLY <1>2, <1>4, <1>5 DEF NextId
  <2>2. Below(table', NextId')
    BY ONLY <2>1, Below(table', batch[Len(batch)].id + 1)
  <2>3. ran' \/ batch' = << >>
    BY ONLY <1>5
  <2>4. ran' => batch' # << >>
    BY ONLY <1>2, <1>5
  <2> QED
    BY ONLY <2>2, <2>3, <2>4 DEF Waiting
<1>11. UnderWay'
  BY ONLY <1>5 DEF UnderWay, Idle
<1> QED
  BY ONLY <1>4, <1>5, <1>9, <1>10, <1>11

(* An execution that ends with an exception: rows n on are not applied.          *)
LEMMA ThrownIsTold ==
  ASSUME BatchInv, exec # Idle, NEW info, Finish("thrown", info), Rising(table'),
         Below(table', batch[Len(batch)].id + 1),
         ~conf.continueBatchOnError =>
           \E n \in 1..Len(batch) + 1 :
             /\ \A i \in 1..Len(batch) : i < n => ~batch[i].bad
             /\ n <= Len(batch) => Below(table', batch[n].id),
         conf.continueBatchOnError /\ Head(exec.way) = "single" /\ alive =>
           \A i \in 1..Len(batch) : AppliedIn(table', batch[i].id) <=> ~batch[i].bad
  PROVE  BatchInv'
<1>1. /\ BatchTypeOK' /\ Waiting' /\ UnderWay'
      /\ told'.rows = batch /\ told'.how = "thrown" /\ told'.way = Head(exec.way)
      /\ conf' = conf /\ alive' = alive
  BY FinishStands
<1>2. RowList(batch) /\ IsSequence(table') /\ DOMAIN batch = 1..Len(batch) /\ Len(batch) \in Nat
  BY SequenceDomain DEF BatchInv, BatchTypeOK, RowList, Rising
<1>3. \A id : (\E i \in DOMAIN table' : table'[i].id = id) <=> AppliedIn(table', id)
  BY ONLY <1>2, AppliedNow
<1>4. SuccessIsTheTruth'
  BY ONLY <1>1 DEF SuccessIsTheTruth
<1>5. ASSUME ~conf.continueBatchOnError, NEW i \in DOMAIN batch, NEW j \in DOMAIN batch, batch[i].bad, i <= j
      PROVE  ~AppliedIn(table', batch[j].id)
  <2>1. PICK n \in 1..Len(batch) + 1 :
          /\ \A k \in 1..Len(batch) : k < n => ~batch[k].bad
          /\ n <= Len(batch) => Below(table', batch[n].id)
    BY <1>5
  <2>2. i \in 1..Len(batch) /\ j \in 1..Len(batch)
    BY ONLY <1>2, <1>5
  <2>3. ~(i < n)
    BY <1>5, <2>1, <2>2
  <2>4. n \in 1..Len(batch) /\ n <= j /\ Below(table', batch[n].id)
    BY ONLY <1>2, <1>5, <2>1, <2>2, <2>3
  <2> QED
    BY ONLY <1>2, <2>2, <2>4, Rising(table'), NotYet
<1>6. ASSUME conf.continueBatchOnError, Head(exec.way) = "single", alive, NEW i \in DOMAIN batch
      PROVE  AppliedIn(table', batch[i].id) = ~batch[i].bad
  <2>1. AppliedIn(table', batch[i].id) <=> ~batch[i].bad
    BY <1>2, <1>6
  <2>2. AppliedIn(table', batch[i].id) \in BOOLEAN
    BY DEF AppliedIn
  <2> QED
    BY ONLY <2>1, <2>2
<1>7. FailureIsHandled'
  <2>1. ASSUME ~conf'.continueBatchOnError, NEW i \in DOMAIN batch, NEW j \in DOMAIN batch, batch[i].bad, i <= j
        PROVE  ~(\E k \in DOMAIN table' : table'[k].id = batch[j].id)
    BY ONLY <1>1, <1>3, <1>5, <2>1
  <2>2. ASSUME conf'.continueBatchOnError, told'.way = "single", alive', NEW i \in DOMAIN batch
        PROVE  (\E k \in DOMAIN table' : table'[k].id = batch[i].id) = ~batch[i].bad
    <3>1. AppliedIn(table', batch[i].id) = ~batch[i].bad
      BY ONLY <1>1, <1>6, <2>2
    <3>2. (\E k \in DOMAIN table' : table'[k].id = batch[i].id) <=> AppliedIn(table', batch[i].id)
      BY ONLY <1>3
    <3> QED
      BY ONLY <3>1, <3>2
  <2> QED
    BY ONLY <1>1, <2>1, <2>2 DEF FailureIsHandled, Applied
<1> QED
  BY ONLY <1>1, <1>4, <1>7 DEF BatchInv, OutcomeIsTold

(* An execution that ends well has applied every row and counted it.             *)
LEMMA CountsAreTold ==
  ASSUME BatchInv, exec # Idle, NEW info, Finish("counts", info), Rising(table'),
         Below(table', batch[Len(batch)].id + 1),
         ~Loses(exec) =>
           /\ Len(GetUpdateCounts(info)) = Len(batch)
           /\ \A i \in 1..Len(batch) : GetUpdateCounts(info)[i] # EXECUTE_FAILED
           /\ \A i \in 1..Len(batch) : AppliedIn(table', batch[i].id)
  PROVE  BatchInv'
<1>1. /\ BatchTypeOK' /\ Waiting' /\ UnderWay'
      /\ told'.rows = batch /\ told'.how = "counts" /\ told'.way = Head(exec.way)
      /\ told'.counts = GetUpdateCounts(info)
      /\ conf' = conf /\ alive' = alive
  BY FinishStands
<1>2. RowList(batch) /\ IsSequence(table') /\ DOMAIN batch = 1..Len(batch) /\ Len(batch) \in Nat
  BY SequenceDomain DEF BatchInv, BatchTypeOK, RowList, Rising
<1>3. \A id : (\E i \in DOMAIN table' : table'[i].id = id) <=> AppliedIn(table', id)
  BY ONLY <1>2, AppliedNow
<1>4. LosesErrors' <=> Loses(exec)
  BY ONLY <1>1 DEF LosesErrors, Loses
<1>5. ASSUME ~LosesErrors'
      PROVE  /\ Len(told'.counts) = Len(told'.rows)
             /\ \A i \in DOMAIN told'.rows :
                  /\ \E k \in DOMAIN table' : table'[k].id = told'.rows[i].id
                  /\ told'.counts[i] # EXECUTE_FAILED
  BY <1>1, <1>2, <1>3, <1>4, <1>5
<1>6. SuccessIsTheTruth'
  BY ONLY <1>1, <1>5 DEF SuccessIsTheTruth, Applied
<1>7. FailureIsHandled'
  BY ONLY <1>1 DEF FailureIsHandled
<1> QED
  BY ONLY <1>1, <1>6, <1>7 DEF BatchInv, OutcomeIsTold

(* Only the loop that loses its errors ends with nothing to tell.                *)
LEMMA NullIsTold ==
  ASSUME BatchInv, exec # Idle, NEW info, Finish("null", info), Rising(table'),
         Below(table', batch[Len(batch)].id + 1), Loses(exec)
  PROVE  BatchInv'
<1>1. /\ BatchTypeOK' /\ Waiting' /\ UnderWay'
      /\ told'.how = "null" /\ told'.way = Head(exec.way) /\ conf' = conf
  BY FinishStands
<1>2. LosesErrors'
  BY ONLY <1>1, Loses(exec) DEF LosesErrors, Loses
<1>3. SuccessIsTheTruth' /\ FailureIsHandled'
  BY ONLY <1>1, <1>2 DEF SuccessIsTheTruth, FailureIsHandled
<1> QED
  BY ONLY <1>1, <1>3 DEF BatchInv, OutcomeIsTold

(* A step that does not end the execution keeps the rows accounted for.          *)
LEMMA ContinueKeeps ==
  ASSUME BatchInv, exec # Idle, NEW e \in Execution, Continue(e), Rising(table'), Advanced(e, table')
  PROVE  BatchInv'
<1>1. exec' = e /\ UNCHANGED <<conf, batch, alive, ran, told>>
  BY DEF Continue
<1>2. BatchTypeOK'
  BY <1>1 DEF BatchInv, BatchTypeOK
<1>3. batch # << >> /\ ~ran /\ told.rows = batch /\ told.how = "nothing"
  BY DEF BatchInv, UnderWay
<1>4. e # Idle
  BY DEF Advanced, AtRow, Idle
<1>5. Waiting'
  BY <1>1, <1>4 DEF Waiting, Idle
<1>6. Advanced(exec, table)'
  <2>1. AtRow(exec, table)'
    BY <1>1 DEF Advanced, AtRow, Below
  <2>2. Info(exec)'
    BY <1>1 DEF Advanced, Info, NoInformation
  <2>3. AllDone(exec, table)'
    BY <1>1 DEF Advanced, AllDone, AppliedIn, Loses, NoInformation
  <2>4. GoodDone(exec, table)'
    BY <1>1 DEF Advanced, GoodDone, AppliedIn
  <2> QED
    BY <2>1, <2>2, <2>3, <2>4 DEF Advanced
<1>7. UnderWay'
  BY <1>1, <1>3, <1>6 DEF UnderWay
<1>8. OutcomeIsTold'
  BY <1>1, <1>3 DEF OutcomeIsTold, SuccessIsTheTruth, FailureIsHandled
<1> QED
  BY <1>2, <1>5, <1>7, <1>8 DEF BatchInv

-----------------------------------------------------------------------------
(* What is known while a batch runs.                                             *)
LEMMA WayFacts ==
  ASSUME BatchInv, exec # Idle
  PROVE  /\ RowList(batch) /\ Rising(table) /\ Len(batch) \in Nat /\ exec \in Execution
         /\ exec.at \in 1..Len(batch) /\ Below(table, batch[exec.at].id)
         /\ exec.info \in {NoInformation} \cup Counted
         /\ exec.info # NoInformation => exec.info.expected = Len(batch)
         /\ exec.failed \in BOOLEAN /\ (~conf.continueBatchOnError => ~exec.failed)
         /\ exec.at = 1 => exec.info = NoInformation /\ ~exec.failed
         /\ AllDone(exec, table) /\ GoodDone(exec, table)
<1>1. RowList(batch) /\ Rising(table) /\ exec \in Execution
  BY DEF BatchInv, BatchTypeOK
<1>2. Advanced(exec, table)
  BY DEF BatchInv, UnderWay
<1>3. Len(batch) \in Nat
  BY ONLY <1>1 DEF RowList, Rising, IsSequence
<1>4. exec.info \in {NoInformation} \cup Counted /\ exec.failed \in BOOLEAN
  BY ONLY <1>1 DEF Execution
<1> QED
  BY ONLY <1>1, <1>2, <1>3, <1>4 DEF Advanced, AtRow, Info

(* A table that ends before a row ends before every later one.                   *)
LEMMA BelowLater ==
  ASSUME NEW B, RowList(B), NEW t, Rising(t), NEW a \in 1..Len(B), Below(t, B[a].id),
         NEW b \in 1..Len(B), a <= b
  PROVE  Below(t, B[b].id)
<1>1. B[a].id \in Nat /\ B[b].id \in Nat /\ (a < b => B[a].id < B[b].id) /\ Len(B) \in Nat
  BY DEF RowList, Rising, IsSequence
<1>2. B[a].id <= B[b].id
  BY <1>1
<1>3. ASSUME NEW i \in 1..Len(t) PROVE t[i].id < B[b].id
  <2>1. t[i].id \in Nat /\ t[i].id < B[a].id
    BY DEF Rising, Below
  <2> QED
    BY ONLY <1>1, <1>2, <2>1
<1> QED
  BY <1>3 DEF Below

(* The batch is given up before row e.at is applied.                             *)
LEMMA ThrownHere ==
  ASSUME BatchInv, exec # Idle, NEW info, Finish("thrown", info), table' = table,
         ~(conf.continueBatchOnError /\ Head(exec.way) = "single" /\ alive)
  PROVE  BatchInv'
<1>1. /\ RowList(batch) /\ Rising(table) /\ Len(batch) \in Nat
      /\ exec.at \in 1..Len(batch) /\ Below(table, batch[exec.at].id)
      /\ ~conf.continueBatchOnError => ~exec.failed
      /\ AllDone(exec, table)
  BY WayFacts
<1>2. Rising(table') /\ Below(table', batch[Len(batch)].id + 1)
  BY <1>1, BelowLast
<1>3. ASSUME ~conf.continueBatchOnError
      PROVE  \E n \in 1..Len(batch) + 1 :
               /\ \A i \in 1..Len(batch) : i < n => ~batch[i].bad
               /\ n <= Len(batch) => Below(table', batch[n].id)
  <2>1. ~Loses(exec) /\ ~exec.failed
    BY ONLY <1>1, <1>3 DEF Loses
  <2>2. \A i \in 1..Len(batch) : i < exec.at => ~batch[i].bad
    BY ONLY <1>1, <2>1 DEF AllDone
  <2>3. exec.at \in 1..Len(batch) + 1 /\ Below(table', batch[exec.at].id)
    BY <1>1
  <2> QED
    BY ONLY <2>2, <2>3
<1> QED
  BY <1>2, <1>3, ThrownIsTold

(* A row that is sent alone and applied.                                         *)
LEMMA RowGoesIn ==
  ASSUME BatchInv, exec # Idle, Head(exec.way) \in {"single", "multi"}, alive, ~batch[exec.at].bad,
         NEW form, Apply(exec.at, exec.at, form),
         NEW e, e = [exec EXCEPT !.info = Noted(@, 1)], AfterRow(e)
  PROVE  BatchInv'
<1>1. /\ RowList(batch) /\ Rising(table) /\ Len(batch) \in Nat /\ exec \in Execution
      /\ exec.at \in 1..Len(batch) /\ Below(table, batch[exec.at].id)
      /\ exec.info \in {NoInformation} \cup Counted
      /\ exec.info # NoInformation => exec.info.expected = Len(batch)
      /\ exec.failed \in BOOLEAN /\ (~conf.continueBatchOnError => ~exec.failed)
      /\ exec.at = 1 => exec.info = NoInformation /\ ~exec.failed
      /\ AllDone(exec, table) /\ GoodDone(exec, table)
  BY WayFacts
<1>2. PICK a \in 1..Len(batch) : a = exec.at
  BY <1>1
<1>3. a \in a - 1..Len(batch)
  BY <1>1, <1>2
<1>4. /\ Rising(table') /\ (a < Len(batch) => Below(table', batch[a + 1].id))
      /\ Below(table', batch[Len(batch)].id + 1)
      /\ \A i \in 1..Len(batch) :
           AppliedIn(table', batch[i].id) <=> (AppliedIn(table, batch[i].id) \/ i \in a..a)
  BY <1>1, <1>2, <1>3, ApplyGrows
<1>5. PICK q : q = Noted(exec.info, 1)
  OBVIOUS
<1>6. /\ q \in Counted /\ q.expected = Len(batch) /\ q # NoInformation
      /\ exec.info = NoInformation => Len(q.counts) = 1
      /\ exec.info # NoInformation => Len(q.counts) = Len(exec.info.counts) + 1
  BY ONLY <1>1, <1>5, 1 \in Nat, NotedCounted, CountedIsInformation
<1>7. /\ e \in Execution /\ e.at = a /\ e.way = exec.way /\ e.failed = exec.failed /\ e.info = q
  BY <1>1, <1>2, <1>5, <1>6 DEF Execution
<1>8. ASSUME ~exec.failed, ~Loses(exec)
      PROVE  /\ \A i \in 1..Len(batch) : i < a + 1 => AppliedIn(table', batch[i].id) /\ ~batch[i].bad
             /\ Len(q.counts) = a
  <2>1. /\ \A i \in 1..Len(batch) : i < a => AppliedIn(table, batch[i].id) /\ ~batch[i].bad
        /\ a > 1 => exec.info # NoInformation /\ Len(exec.info.counts) = a - 1
    BY <1>1, <1>2, <1>8 DEF AllDone
  <2>2. ASSUME NEW i \in 1..Len(batch), i < a + 1
        PROVE  AppliedIn(table', batch[i].id) /\ ~batch[i].bad
    <3>1. i < a \/ (i = a /\ i \in a..a)
      BY <1>1, <2>2
    <3> QED
      BY <1>2, <1>4, <2>1, <3>1
  <2>3. Len(q.counts) = a
    <3>1. CASE a = 1
      BY <1>1, <1>2, <1>6, <3>1
    <3>2. CASE a > 1
      BY <1>6, <2>1, <3>2
    <3> QED
      BY <3>1, <3>2
  <2> QED
    BY <2>2, <2>3
<1>9. ASSUME conf.continueBatchOnError, Head(exec.way) = "single", NEW i \in 1..Len(batch), i < a + 1
      PROVE  AppliedIn(table', batch[i].id) <=> ~batch[i].bad
  <2>1. CASE i = a
    <3>1. i \in a..a
      BY <2>1
    <3> QED
      BY <1>2, <1>4, <2>1, <3>1
  <2>2. CASE i # a
    <3>1. i < a /\ i \notin a..a
      BY <1>9, <2>2
    <3>2. AppliedIn(table, batch[i].id) <=> ~batch[i].bad
      BY <1>1, <1>2, <1>9, <3>1 DEF GoodDone
    <3> QED
      BY <1>4, <3>1, <3>2
  <2> QED
    BY <2>1, <2>2
<1>10. CASE a < Len(batch)
  <2>1. PICK f : f = [e EXCEPT !.at = @ + 1]
    OBVIOUS
  <2>2. Continue(f)
    BY <1>7, <1>10, <2>1 DEF AfterRow
  <2>3. /\ f \in Execution /\ f.at = a + 1 /\ f.way = exec.way /\ f.failed = exec.failed /\ f.info = q
    <3>1. a + 1 \in Nat
      BY <1>1
    <3> QED
      BY ONLY <1>7, <2>1, <3>1 DEF Execution
  <2>4. a + 1 \in 1..Len(batch) /\ a + 1 # 1 /\ a + 1 > 1 /\ (a + 1) - 1 = a
    BY <1>1, <1>10
  <2>5. AtRow(f, table')
    BY ONLY <1>4, <1>10, <2>3, <2>4 DEF AtRow
  <2>6. Info(f)
    BY <1>1, <1>6, <2>3, <2>4 DEF Info
  <2>7. Loses(f) <=> Loses(exec)
    BY ONLY <2>3 DEF Loses
  <2>8. AllDone(f, table')
    BY ONLY <1>6, <1>8, <2>3, <2>4, <2>7 DEF AllDone
  <2>9. GoodDone(f, table')
    BY ONLY <1>9, <2>3 DEF GoodDone
  <2> QED
    BY <1>4, <2>2, <2>3, <2>5, <2>6, <2>8, <2>9, ContinueKeeps DEF Advanced
<1>11. CASE a = Len(batch)
  <2>1. EndOfLoop(e)
    BY <1>7, <1>11 DEF AfterRow
  <2>2. \A i \in 1..Len(batch) : i < a + 1
    BY <1>11
  <2>3. CASE exec.failed
    <3>1. Finish("thrown", e.info)
      BY <1>7, <2>1, <2>3 DEF EndOfLoop
    <3>2. conf.continueBatchOnError
      BY <1>1, <2>3
    <3>3. Head(exec.way) = "single" => \A i \in 1..Len(batch) : AppliedIn(table', batch[i].id) <=> ~batch[i].bad
      BY ONLY <1>9, <2>2, <3>2
    <3> QED
      BY <1>4, <3>1, <3>2, <3>3, ThrownIsTold
  <2>4. CASE ~exec.failed
    <3>1. Finish("counts", q)
      BY <1>6, <1>7, <2>1, <2>4 DEF EndOfLoop
    <3>2. ASSUME ~Loses(exec)
          PROVE  /\ Len(GetUpdateCounts(q)) = Len(batch)
                 /\ \A i \in 1..Len(batch) : GetUpdateCounts(q)[i] # EXECUTE_FAILED
                 /\ \A i \in 1..Len(batch) : AppliedIn(table', batch[i].id)
      <4>1. \A i \in 1..Len(batch) : AppliedIn(table', batch[i].id)
        BY ONLY <1>8, <2>2, <2>4, <3>2
      <4>2. Len(q.counts) = q.expected
        BY ONLY <1>6, <1>8, <1>11, <2>4, <3>2
      <4> QED
        BY ONLY <1>6, <4>1, <4>2, CountsAsNoted
    <3> QED
      BY <1>4, <3>1, <3>2, CountsAreTold
  <2> QED
    BY <2>3, <2>4
<1> QED
  BY <1>1, <1>10, <1>11

(* A row whose error the loop goes on after.                                     *)
LEMMA RowIsPassed ==
  ASSUME BatchInv, exec # Idle, Head(exec.way) = "single", ~(alive /\ ~batch[exec.at].bad),
         ApplyNothing, conf.continueBatchOnError,
         NEW e, e = [exec EXCEPT !.failed = @ \/ KeepsError], AfterRow(e)
  PROVE  BatchInv'
<1>1. /\ RowList(batch) /\ Rising(table) /\ Len(batch) \in Nat /\ exec \in Execution
      /\ exec.at \in 1..Len(batch) /\ Below(table, batch[exec.at].id)
      /\ exec.info # NoInformation => exec.info.expected = Len(batch)
      /\ exec.failed \in BOOLEAN
      /\ GoodDone(exec, table)
  BY WayFacts
<1>2. PICK a \in 1..Len(batch) : a = exec.at
  BY <1>1
<1>3. table' = table
  BY DEF ApplyNothing
<1>4. /\ e \in Execution /\ e.at = a /\ e.way = exec.way /\ e.info = exec.info
      /\ e.failed = (exec.failed \/ KeepsError)
  BY <1>1, <1>2 DEF Execution, KeepsError
<1>5. ~e.failed => Loses(exec) /\ Loses(e)
  BY <1>4 DEF Loses, KeepsError
<1>6. ASSUME alive, NEW i \in 1..Len(batch), i < a + 1
      PROVE  AppliedIn(table, batch[i].id) <=> ~batch[i].bad
  <2>1. CASE i = a
    <3>1. batch[i].bad
      BY <1>2, <1>6, <2>1
    <3>2. ~AppliedIn(table, batch[i].id)
      <4>1. Below(table, batch[a].id) /\ a <= i
        BY <1>1, <1>2, <2>1
      <4> QED
        BY ONLY <1>1, <4>1, a \in 1..Len(batch), i \in 1..Len(batch), NotYet
    <3> QED
      BY <3>1, <3>2
  <2>2. CASE i # a
    <3>1. i < a
      BY <1>6, <2>2
    <3> QED
      BY <1>1, <1>2, <1>6, <3>1 DEF GoodDone
  <2> QED
    BY <2>1, <2>2
<1>7. Below(table, batch[Len(batch)].id + 1)
  BY ONLY <1>1, BelowLast
<1>8. CASE a < Len(batch)
  <2>1. PICK f : f = [e EXCEPT !.at = @ + 1]
    OBVIOUS
  <2>2. Continue(f)
    BY <1>4, <1>8, <2>1 DEF AfterRow
  <2>3. /\ f \in Execution /\ f.at = a + 1 /\ f.way = exec.way /\ f.failed = e.failed /\ f.info = exec.info
    <3>1. a + 1 \in Nat
      BY <1>1
    <3> QED
      BY ONLY <1>4, <2>1, <3>1 DEF Execution
  <2>4. a + 1 \in 1..Len(batch) /\ a + 1 # 1 /\ a <= a + 1
    BY <1>1, <1>8
  <2>5. Below(table, batch[a + 1].id)
    BY ONLY <1>1, <1>2, <2>4, BelowLater
  <2>6. AtRow(f, table')
    BY ONLY <1>3, <2>3, <2>4, <2>5 DEF AtRow
  <2>7. Info(f)
    BY ONLY <1>1, <2>3, <2>4, Head(exec.way) = "single", conf.continueBatchOnError DEF Info
  <2>8. AllDone(f, table')
    BY ONLY <1>4, <1>5, <2>3 DEF AllDone, Loses
  <2>9. GoodDone(f, table')
    BY ONLY <1>3, <1>6, <2>3 DEF GoodDone
  <2> QED
    BY <1>1, <1>3, <2>2, <2>3, <2>6, <2>7, <2>8, <2>9, ContinueKeeps DEF Advanced
<1>9. CASE a = Len(batch)
  <2>1. EndOfLoop(e)
    BY <1>4, <1>9 DEF AfterRow
  <2>2. Rising(table') /\ Below(table', batch[Len(batch)].id + 1)
    BY ONLY <1>1, <1>3, <1>7
  <2>3. CASE e.failed
    <3>1. Finish("thrown", e.info)
      BY <2>1, <2>3 DEF EndOfLoop
    <3>2. \A i \in 1..Len(batch) : i < a + 1
      BY <1>9
    <3>3. alive => \A i \in 1..Len(batch) : AppliedIn(table', batch[i].id) <=> ~batch[i].bad
      BY ONLY <1>3, <1>6, <3>2
    <3> QED
      BY <2>2, <3>1, <3>3, ThrownIsTold
  <2>4. CASE ~e.failed /\ e.info = NoInformation
    <3>1. Finish("null", e.info)
      BY <2>1, <2>4 DEF EndOfLoop
    <3> QED
      BY <1>5, <2>2, <2>4, <3>1, NullIsTold
  <2>5. CASE ~e.failed /\ e.info # NoInformation
    <3>1. Finish("counts", e.info)
      BY <2>1, <2>5 DEF EndOfLoop
    <3> QED
      BY <1>5, <2>2, <2>5, <3>1, CountsAreTold
  <2> QED
    BY <2>3, <2>4, <2>5
<1> QED
  BY <1>1, <1>8, <1>9

LEMMA RunSingleInv == ASSUME BatchInv, RunSingle PROVE BatchInv'
<1>1. exec # Idle /\ Head(exec.way) = "single"
  BY DEF RunSingle, Running
<1>2. CASE alive /\ ~batch[exec.at].bad
  <2>1. PICK e : e = [exec EXCEPT !.info = Noted(@, 1)]
    OBVIOUS
  <2>2. Apply(exec.at, exec.at, Form) /\ AfterRow(e)
    BY <1>2, <2>1 DEF RunSingle
  <2> QED
    BY <1>1, <1>2, <2>1, <2>2, RowGoesIn
<1>3. CASE ~(alive /\ ~batch[exec.at].bad) /\ conf.continueBatchOnError
  <2>1. PICK e : e = [exec EXCEPT !.failed = @ \/ KeepsError]
    OBVIOUS
  <2>2. ApplyNothing /\ AfterRow(e)
    BY <1>3, <2>1 DEF RunSingle
  <2> QED
    BY <1>1, <1>3, <2>1, <2>2, RowIsPassed
<1>4. CASE ~(alive /\ ~batch[exec.at].bad) /\ ~conf.continueBatchOnError
  <2>1. ApplyNothing /\ Finish("thrown", exec.info)
    BY <1>4 DEF RunSingle
  <2>2. table' = table
    BY <2>1 DEF ApplyNothing
  <2> QED
    BY <1>1, <1>4, <2>1, <2>2, ThrownHere
<1> QED
  BY <1>2, <1>3, <1>4

LEMMA RunMultiInv == ASSUME BatchInv, RunMulti PROVE BatchInv'
<1>1. exec # Idle /\ Head(exec.way) = "multi"
  BY DEF RunMulti, Running
<1>2. CASE alive /\ ~batch[exec.at].bad
  <2>1. PICK e : e = [exec EXCEPT !.info = Noted(@, 1)]
    OBVIOUS
  <2>2. Apply(exec.at, exec.at, Form) /\ AfterRow(e)
    BY <1>2, <2>1 DEF RunMulti
  <2> QED
    BY <1>1, <1>2, <2>1, <2>2, RowGoesIn
<1>3. CASE ~(alive /\ ~batch[exec.at].bad)
  <2>1. ApplyNothing /\ Finish("thrown", exec.info)
    BY <1>3 DEF RunMulti
  <2>2. table' = table
    BY <2>1 DEF ApplyNothing
  <2> QED
    BY <1>1, <2>1, <2>2, ThrownHere
<1> QED
  BY <1>2, <1>3

(* A packet of rows that is applied as a whole.                                  *)
LEMMA PacketGoesIn ==
  ASSUME BatchInv, exec # Idle, Head(exec.way) \in {"values", "semicolon", "aggregate", "bulk"},
         NEW b \in exec.at..Len(batch), Head(exec.way) = "bulk" => b = Len(batch),
         \A i \in exec.at..b : ~batch[i].bad,
         NEW form, Apply(exec.at, b, form),
         NEW q \in Counted, q.expected = Len(batch), Len(q.counts) > 0,
         Head(exec.way) \notin {"values", "bulk"} /\ ~exec.failed => Len(q.counts) = b,
         NEW e, e = [exec EXCEPT !.info = q], AfterPacket(e, b)
  PROVE  BatchInv'
<1>1. /\ RowList(batch) /\ Rising(table) /\ Len(batch) \in Nat /\ exec \in Execution
      /\ exec.at \in 1..Len(batch) /\ Below(table, batch[exec.at].id)
      /\ exec.failed \in BOOLEAN /\ (~conf.continueBatchOnError => ~exec.failed)
      /\ AllDone(exec, table)
  BY WayFacts
<1>2. PICK a \in 1..Len(batch) : a = exec.at
  BY <1>1
<1>3. b \in a - 1..Len(batch) /\ b \in 1..Len(batch) /\ b \in Nat /\ a <= b
  BY <1>1, <1>2
<1>4. /\ Rising(table') /\ (b < Len(batch) => Below(table', batch[b + 1].id))
      /\ Below(table', batch[Len(batch)].id + 1)
      /\ \A i \in 1..Len(batch) :
           AppliedIn(table', batch[i].id) <=> (AppliedIn(table, batch[i].id) \/ i \in a..b)
  BY <1>1, <1>2, <1>3, ApplyGrows
<1>5. ~Loses(exec) /\ Head(exec.way) # "single" /\ q # NoInformation
  BY CountedIsInformation DEF Loses
<1>6. /\ e \in Execution /\ e.at = a /\ e.way = exec.way /\ e.failed = exec.failed /\ e.info = q
  BY <1>1, <1>2 DEF Execution
<1>7. ASSUME ~exec.failed, NEW i \in 1..Len(batch), i < b + 1
      PROVE  AppliedIn(table', batch[i].id) /\ ~batch[i].bad
  <2>1. CASE i < a
    <3>1. AppliedIn(table, batch[i].id) /\ ~batch[i].bad
      BY <1>1, <1>2, <1>5, <1>7, <2>1 DEF AllDone
    <3> QED
      BY <1>4, <3>1
  <2>2. CASE i >= a
    <3>1. i \in a..b
      BY <1>3, <1>7, <2>2
    <3> QED
      BY <1>2, <1>4, <3>1
  <2> QED
    BY <1>3, <2>1, <2>2
<1>8. CASE b < Len(batch)
  <2>1. PICK f : f = [e EXCEPT !.at = b + 1]
    OBVIOUS
  <2>2. Continue(f)
    BY <1>8, <2>1 DEF AfterPacket
  <2>3. /\ f \in Execution /\ f.at = b + 1 /\ f.way = exec.way /\ f.failed = exec.failed /\ f.info = q
    <3>1. b + 1 \in Nat
      BY <1>3
    <3> QED
      BY ONLY <1>6, <2>1, <3>1 DEF Execution
  <2>4. b + 1 \in 1..Len(batch) /\ b + 1 # 1 /\ (b + 1) - 1 = b /\ b # Len(batch)
    BY <1>1, <1>3, <1>8
  <2>5. AtRow(f, table')
    BY ONLY <1>4, <1>8, <2>3, <2>4 DEF AtRow
  <2>6. Head(exec.way) # "bulk"
    BY <2>4
  <2>7. Info(f)
    BY <1>1, <2>3, <2>4, <2>6 DEF Info
  <2>8. ~exec.failed /\ Head(exec.way) # "values" => Len(q.counts) = b
    BY <2>6
  <2>9. AllDone(f, table')
    BY ONLY <1>5, <1>7, <2>3, <2>4, <2>8 DEF AllDone
  <2>10. GoodDone(f, table')
    BY ONLY <1>5, <2>3 DEF GoodDone
  <2> QED
    BY <1>4, <2>2, <2>3, <2>5, <2>7, <2>9, <2>10, ContinueKeeps DEF Advanced
<1>9. CASE b = Len(batch)
  <2>1. PICK w : w = (Head(e.way) \in {"values", "bulk"})
    OBVIOUS
  <2>2. PICK g : g = [e EXCEPT !.info.rewritten = w]
    OBVIOUS
  <2>3. EndOfLoop(g)
    BY <1>9, <2>1, <2>2 DEF AfterPacket
  <2>4. PICK r : r = [q EXCEPT !.rewritten = w]
    OBVIOUS
  <2>5. g.failed = exec.failed /\ g.info = r
    BY ONLY <1>6, <2>2, <2>4 DEF Execution
  <2>6. r # NoInformation
    BY ONLY q \in Counted, <2>4 DEF Counted, NoInformation
  <2>7. CASE exec.failed
    <3>1. Finish("thrown", g.info)
      BY <2>3, <2>5, <2>7 DEF EndOfLoop
    <3> QED
      BY <1>1, <1>4, <1>5, <2>7, <3>1, ThrownIsTold
  <2>8. CASE ~exec.failed
    <3>1. Finish("counts", r)
      BY <2>3, <2>5, <2>6, <2>8 DEF EndOfLoop
    <3>2. \A i \in 1..Len(batch) : AppliedIn(table', batch[i].id)
      <4>1. \A i \in 1..Len(batch) : i < b + 1
        BY <1>9
      <4> QED
        BY ONLY <1>7, <2>8, <4>1
    <3>3. /\ Len(GetUpdateCounts(r)) = Len(batch)
          /\ \A i \in 1..Len(batch) : GetUpdateCounts(r)[i] # EXECUTE_FAILED
      <4>1. CASE w
        <5>1. r = [q EXCEPT !.rewritten = TRUE]
          BY <2>1, <2>4, <4>1
        <5> QED
          BY ONLY <5>1, q \in Counted, q.expected = Len(batch), Len(q.counts) > 0, CountsRewritten
      <4>2. CASE ~w
        <5>1. r \in Counted /\ r.counts = q.counts /\ r.expected = q.expected
          <6>1. w = FALSE
            BY ONLY <2>1, <4>2
          <6>2. r = [q EXCEPT !.rewritten = FALSE]
            BY ONLY <2>4, <6>1
          <6> QED
            BY ONLY <6>2, q \in Counted DEF Counted
        <5>2. Len(q.counts) = q.expected
          BY <1>6, <1>9, <2>1, <2>8, <4>2
        <5> QED
          BY ONLY <5>1, <5>2, q \in Counted, q.expected = Len(batch), CountsAsNoted
      <4> QED
        BY <4>1, <4>2
    <3> QED
      BY <1>4, <3>1, <3>2, <3>3, CountsAreTold
  <2> QED
    BY <2>7, <2>8
<1> QED
  BY <1>1, <1>3, <1>8, <1>9

LEMMA RunValuesInv == ASSUME BatchInv, RunValues PROVE BatchInv'
<1>1. exec # Idle /\ Head(exec.way) = "values"
  BY DEF RunValues, Running
<1>2. /\ Len(batch) \in Nat /\ exec.at \in 1..Len(batch)
      /\ exec.info \in {NoInformation} \cup Counted
      /\ exec.info # NoInformation => exec.info.expected = Len(batch)
  BY <1>1, WayFacts
<1>3. PICK b : b = PacketEnd(exec.at)
  OBVIOUS
<1>4. b \in exec.at..Len(batch)
  BY ONLY <1>2, <1>3, PacketEnds
<1>5. CASE alive /\ \A i \in exec.at..b : ~batch[i].bad
  <2>1. PICK q : q = Noted(exec.info, b - exec.at + 1)
    OBVIOUS
  <2>2. PICK e : e = [exec EXCEPT !.info = q]
    OBVIOUS
  <2>3. Apply(exec.at, b, "text") /\ AfterPacket(e, b)
    BY <1>3, <1>5, <2>1, <2>2 DEF RunValues
  <2>4. b - exec.at + 1 \in Nat
    BY <1>2, <1>4
  <2>5. q \in Counted /\ q.expected = Len(batch) /\ Len(q.counts) > 0
    BY ONLY <1>2, <2>1, <2>4, NotedCounted
  <2> QED
    BY <1>1, <1>4, <1>5, <2>2, <2>3, <2>5, PacketGoesIn
<1>6. CASE ~(alive /\ \A i \in exec.at..b : ~batch[i].bad)
  <2>1. ApplyNothing /\ Finish("thrown", exec.info)
    BY <1>3, <1>6 DEF RunValues
  <2>2. table' = table
    BY <2>1 DEF ApplyNothing
  <2> QED
    BY <1>1, <2>1, <2>2, ThrownHere
<1> QED
  BY <1>5, <1>6

(* The server has applied the rows before the first that it refuses.             *)
LEMMA ThrownAtBad ==
  ASSUME BatchInv, exec # Idle, Head(exec.way) # "single", NEW info, Finish("thrown", info),
         NEW b \in exec.at..Len(batch), NEW bad, bad = {i \in exec.at..b : batch[i].bad}, bad # {},
         NEW f, f = CHOOSE i \in bad : \A j \in bad : i <= j,
         NEW form, Apply(exec.at, f - 1, form)
  PROVE  BatchInv'
<1>1. /\ RowList(batch) /\ Rising(table) /\ Len(batch) \in Nat
      /\ exec.at \in 1..Len(batch) /\ Below(table, batch[exec.at].id)
      /\ ~conf.continueBatchOnError => ~exec.failed
      /\ AllDone(exec, table)
  BY WayFacts
<1>2. bad \subseteq exec.at..b /\ exec.at..b \subseteq 1..Len(batch)
  <2>1. exec.at..b \subseteq 1..Len(batch)
    BY ONLY <1>1, b \in exec.at..Len(batch)
  <2>2. bad \subseteq exec.at..b
    OBVIOUS
  <2> QED
    BY ONLY <2>1, <2>2
<1>3. f \in bad /\ \A j \in bad : f <= j
  <2>1. bad \subseteq 1..Len(batch)
    BY ONLY <1>2
  <2> QED
    BY ONLY <1>1, <2>1, bad # {}, f = CHOOSE i \in bad : \A j \in bad : i <= j, FirstBad
<1>4. f \in exec.at..b /\ batch[f].bad /\ f \in 1..Len(batch)
  BY <1>2, <1>3
<1>5. f - 1 \in exec.at - 1..Len(batch) /\ f - 1 < Len(batch) /\ (f - 1) + 1 = f
  BY ONLY <1>1, <1>4
<1>6. /\ Rising(table') /\ Below(table', batch[f].id)
      /\ Below(table', batch[Len(batch)].id + 1)
  <2>1. PICK s : s = f - 1
    OBVIOUS
  <2>2. s \in exec.at - 1..Len(batch) /\ s < Len(batch) /\ s + 1 = f /\ Apply(exec.at, s, form)
    BY <1>5, <2>1
  <2> QED
    BY ONLY <1>1, <2>2, ApplyGrows
<1>7. ASSUME ~conf.continueBatchOnError, NEW i \in 1..Len(batch), i < f PROVE ~batch[i].bad
  <2>1. CASE i < exec.at
    <3>1. ~exec.failed /\ ~Loses(exec)
      BY <1>1, <1>7 DEF Loses
    <3> QED
      BY ONLY <1>1, <2>1, <3>1, i \in 1..Len(batch) DEF AllDone
  <2>2. CASE i >= exec.at
    <3>1. i \in exec.at..b
      BY <1>1, <1>4, <1>7, <2>2
    <3>2. i \notin bad
      <4>1. ~(f <= i)
        BY ONLY <1>4, <1>7
      <4> QED
        BY ONLY <1>3, <4>1
    <3> QED
      BY <3>1, <3>2
  <2> QED
    BY <1>1, <2>1, <2>2
<1>8. f \in 1..Len(batch) + 1
  BY <1>1, <1>4
<1>9. ~conf.continueBatchOnError =>
        \E n \in 1..Len(batch) + 1 :
          /\ \A i \in 1..Len(batch) : i < n => ~batch[i].bad
          /\ n <= Len(batch) => Below(table', batch[n].id)
  BY ONLY <1>6, <1>7, <1>8
<1> QED
  BY <1>6, <1>9, ThrownIsTold

(* An aggregate goes on with the next packet.                                    *)
LEMMA PacketIsPassed ==
  ASSUME BatchInv, exec # Idle, Head(exec.way) = "aggregate", conf.continueBatchOnError,
         NEW b \in exec.at..Len(batch), b < Len(batch),
         Rising(table'), Below(table', batch[b + 1].id),
         NEW e, e = [exec EXCEPT !.at = b + 1, !.failed = TRUE], Continue(e)
  PROVE  BatchInv'
<1>1. /\ Len(batch) \in Nat /\ exec \in Execution /\ exec.at \in 1..Len(batch)
      /\ exec.info # NoInformation => exec.info.expected = Len(batch)
  BY WayFacts
<1>2. b + 1 \in 1..Len(batch) /\ b + 1 # 1 /\ b + 1 \in Nat
  BY <1>1
<1>3. e \in Execution /\ e.at = b + 1 /\ e.failed /\ e.way = exec.way /\ e.info = exec.info
  BY ONLY <1>1, <1>2, e = [exec EXCEPT !.at = b + 1, !.failed = TRUE] DEF Execution
<1>4. AtRow(e, table')
  BY ONLY <1>2, <1>3, Below(table', batch[b + 1].id) DEF AtRow
<1>5. Info(e)
  BY ONLY <1>1, <1>2, <1>3, Head(exec.way) = "aggregate", conf.continueBatchOnError DEF Info
<1>6. AllDone(e, table') /\ GoodDone(e, table')
  BY ONLY <1>3, Head(exec.way) = "aggregate" DEF AllDone, GoodDone
<1> QED
  BY <1>3, <1>4, <1>5, <1>6, ContinueKeeps DEF Advanced

LEMMA RunSemicolonInv ==
  ASSUME BatchInv, NEW way \in {"semicolon", "aggregate"}, RunSemicolon(way)
  PROVE  BatchInv'
<1>1. exec # Idle /\ Head(exec.way) = way /\ Head(exec.way) # "single"
  BY DEF RunSemicolon, Running
<1>2. /\ RowList(batch) /\ Rising(table) /\ Len(batch) \in Nat
      /\ exec.at \in 1..Len(batch) /\ Below(table, batch[exec.at].id)
      /\ exec.info \in {NoInformation} \cup Counted
      /\ exec.info # NoInformation => exec.info.expected = Len(batch)
      /\ exec.at = 1 => exec.info = NoInformation
      /\ AllDone(exec, table)
  BY <1>1, WayFacts
<1>3. PICK b : b = PacketEnd(exec.at)
  OBVIOUS
<1>4. b \in exec.at..Len(batch)
  BY ONLY <1>2, <1>3, PacketEnds
<1>5. PICK bad : bad = {i \in exec.at..b : batch[i].bad}
  OBVIOUS
<1>6. PICK f : f = CHOOSE i \in bad : \A j \in bad : i <= j
  OBVIOUS
<1>7. CASE alive /\ bad = {}
  <2>1. PICK q : q = NotedEach(exec.info, b - exec.at + 1)
    OBVIOUS
  <2>2. PICK e : e = [exec EXCEPT !.info = q]
    OBVIOUS
  <2>3. Apply(exec.at, b, "text") /\ AfterPacket(e, b)
    BY <1>3, <1>5, <1>7, <2>1, <2>2 DEF RunSemicolon
  <2>4. b - exec.at + 1 \in Nat /\ b - exec.at + 1 > 0
    BY <1>2, <1>4
  <2>5. /\ q \in Counted /\ q.expected = Len(batch)
        /\ exec.info = NoInformation => Len(q.counts) = b - exec.at + 1
        /\ exec.info # NoInformation => Len(q.counts) = Len(exec.info.counts) + (b - exec.at + 1)
    <3>1. PICK n \in Nat : n = b - exec.at + 1
      BY ONLY <2>4
    <3>2. PICK i \in {NoInformation} \cup Counted : i = exec.info
      BY ONLY <1>2
    <3>3. q = NotedEach(i, n) /\ (i # NoInformation => i.expected = Len(batch)) /\ Len(batch) \in Nat
      BY ONLY <1>2, <2>1, <3>1, <3>2
    <3>4. /\ q \in Counted /\ q.expected = Len(batch)
          /\ i = NoInformation => Len(q.counts) = n
          /\ i # NoInformation => Len(q.counts) = Len(i.counts) + n
      BY ONLY <3>3, NotedEachCounted, i \in {NoInformation} \cup Counted, n \in Nat, ZenonT(40)
    <3>5. ASSUME exec.info = NoInformation PROVE Len(q.counts) = b - exec.at + 1
      BY ONLY <3>1, <3>2, <3>4, <3>5
    <3>6. ASSUME exec.info # NoInformation PROVE Len(q.counts) = Len(exec.info.counts) + (b - exec.at + 1)
      BY ONLY <3>1, <3>2, <3>4, <3>6
    <3> QED
      BY ONLY <3>4, <3>5, <3>6
  <2>6. exec.info # NoInformation => Len(exec.info.counts) \in Nat
    BY ONLY <1>2 DEF Counted
  <2>7. Len(q.counts) > 0
    BY <2>4, <2>5, <2>6
  <2>8. ~exec.failed => Len(q.counts) = b
    <3>1. ASSUME ~exec.failed, exec.at > 1
          PROVE  exec.info # NoInformation /\ Len(exec.info.counts) = exec.at - 1
      BY <1>1, <1>2, <3>1 DEF AllDone, Loses
    <3>2. ASSUME ~exec.failed, exec.at = 1 PROVE Len(q.counts) = b
      BY <1>2, <1>4, <2>5, <3>2
    <3>3. ASSUME ~exec.failed, exec.at > 1 PROVE Len(q.counts) = b
      BY <1>2, <1>4, <2>5, <3>1, <3>3
    <3> QED
      BY <1>2, <3>2, <3>3
  <2>9. \A i \in exec.at..b : ~batch[i].bad
    BY <1>5, <1>7
  <2> QED
    BY <1>1, <1>4, <2>2, <2>3, <2>5, <2>7, <2>8, <2>9, PacketGoesIn
<1>8. CASE /\ ~(alive /\ bad = {}) /\ way = "aggregate" /\ conf.continueBatchOnError
           /\ b < Len(batch)
  <2>1. PICK e : e = [exec EXCEPT !.at = b + 1, !.failed = TRUE]
    OBVIOUS
  <2>2. Continue(e)
    BY <1>3, <1>5, <1>8, <2>1 DEF RunSemicolon
  <2>3. b + 1 \in 1..Len(batch) /\ exec.at <= b + 1
    BY <1>2, <1>4, <1>8
  <2>4. Rising(table') /\ Below(table', batch[b + 1].id)
    <3>1. CASE ~alive
      <4>1. table' = table
        BY <3>1 DEF RunSemicolon, ApplyNothing
      <4> QED
        BY <1>2, <2>3, <4>1, BelowLater
    <3>2. CASE alive
      <4>1. bad # {}
        BY <1>8, <3>2
      <4>2. Apply(exec.at, f - 1, "text")
        BY <1>3, <1>5, <1>6, <3>2, <4>1 DEF RunSemicolon
      <4>3. bad \subseteq 1..Len(batch)
        BY <1>2, <1>4, <1>5
      <4>4. f \in bad
        BY ONLY <1>2, <1>6, <4>1, <4>3, FirstBad
      <4>5. f \in exec.at..b
        BY <1>5, <4>4
      <4>6. PICK s : s = f - 1
        OBVIOUS
      <4>7. s \in exec.at - 1..Len(batch) /\ s < Len(batch) /\ s + 1 = f
        BY <1>2, <1>4, <4>5, <4>6
      <4>8. Rising(table') /\ Below(table', batch[f].id)
        <5>1. Apply(exec.at, s, "text")
          BY <4>2, <4>6
        <5> QED
          BY ONLY <1>2, <4>7, <5>1, ApplyGrows
      <4>9. f \in 1..Len(batch) /\ f <= b + 1
        BY <1>2, <1>4, <4>5
      <4> QED
        BY ONLY <1>2, <2>3, <4>8, <4>9, BelowLater
    <3> QED
      BY <3>1, <3>2
  <2> QED
    BY <1>1, <1>4, <1>8, <2>1, <2>2, <2>4, PacketIsPassed
<1>9. CASE /\ ~(alive /\ bad = {})
           /\ ~(way = "aggregate" /\ conf.continueBatchOnError /\ b < Len(batch))
  <2>1. Finish("thrown", exec.info)
    BY <1>3, <1>5, <1>9 DEF RunSemicolon
  <2>2. CASE ~alive
    <3>1. table' = table
      BY <2>2 DEF RunSemicolon, ApplyNothing
    <3> QED
      BY <1>1, <2>1, <3>1, ThrownHere
  <2>3. CASE alive
    <3>1. bad # {}
      BY <1>9, <2>3
    <3>2. Apply(exec.at, f - 1, "text")
      BY <1>3, <1>5, <1>6, <2>3, <3>1 DEF RunSemicolon
    <3> QED
      BY <1>1, <1>4, <1>5, <1>6, <2>1, <3>1, <3>2, ThrownAtBad
  <2> QED
    BY <2>2, <2>3
<1> QED
  BY <1>7, <1>8, <1>9

LEMMA RunBulkInv == ASSUME BatchInv, RunBulk PROVE BatchInv'
<1>1. exec # Idle /\ Head(exec.way) = "bulk" /\ exec.way # << >>
  BY DEF RunBulk, Running
<1>2. /\ RowList(batch) /\ Rising(table) /\ Len(batch) \in Nat /\ exec \in Execution
      /\ exec.at \in 1..Len(batch) /\ Below(table, batch[exec.at].id)
      /\ exec.info \in {NoInformation} \cup Counted
      /\ exec.info # NoInformation => exec.info.expected = Len(batch)
  BY <1>1, WayFacts
<1>3. exec.at = 1 /\ exec.info = NoInformation /\ ~exec.failed
  BY <1>1 DEF BatchInv, UnderWay, Advanced, Info
<1>4. DOMAIN batch = 1..Len(batch)
  BY ONLY <1>2, SequenceDomain DEF RowList, Rising
<1>5. PICK bad : bad = {i \in DOMAIN batch : batch[i].bad}
  OBVIOUS
<1>6. bad = {i \in exec.at..Len(batch) : batch[i].bad}
  BY ONLY <1>3, <1>4, <1>5
<1>7. PICK f : f = CHOOSE i \in bad : \A j \in bad : i <= j
  OBVIOUS
<1>8. Len(batch) \in exec.at..Len(batch)
  BY ONLY <1>2
<1>9. PICK next : next = [exec EXCEPT !.way = Tail(@)]
  OBVIOUS
<1>10. PICK q : q = Noted(exec.info, Len(batch))
  OBVIOUS
<1>11. PICK e : e = [exec EXCEPT !.info = q]
  OBVIOUS
<1>12. \/ Continue(next) /\ ApplyNothing
       \/ bad = {} /\ Apply(1, Len(batch), "bulk") /\ AfterPacket(e, Len(batch))
       \/ ApplyNothing /\ Finish("thrown", exec.info)
       \/ bad # {} /\ Apply(1, f - 1, "bulk") /\ Finish("thrown", exec.info)
  BY <1>5, <1>7, <1>9, <1>10, <1>11 DEF RunBulk
<1>13. CASE Continue(next) /\ ApplyNothing
  <2>1. table' = table
    BY <1>13 DEF ApplyNothing
  <2>2. Tail(exec.way) \in Seq(WayNames)
    BY <1>1, <1>2 DEF Execution
  <2>3. next \in Execution /\ next.at = 1 /\ next.info = NoInformation /\ ~next.failed
    BY ONLY <1>2, <1>3, <1>9, <2>2 DEF Execution
  <2>4. AtRow(next, table')
    BY ONLY <1>2, <1>3, <2>1, <2>3 DEF AtRow
  <2>5. Info(next)
    BY ONLY <2>3 DEF Info
  <2>6. AllDone(next, table') /\ GoodDone(next, table')
    BY ONLY <1>2, <2>3 DEF AllDone, GoodDone
  <2> QED
    BY <1>1, <1>2, <1>13, <2>1, <2>3, <2>4, <2>5, <2>6, ContinueKeeps DEF Advanced
<1>14. CASE bad = {} /\ Apply(1, Len(batch), "bulk") /\ AfterPacket(e, Len(batch))
  <2>1. q \in Counted /\ q.expected = Len(batch) /\ Len(q.counts) > 0
    BY ONLY <1>2, <1>10, NotedCounted
  <2>2. \A i \in exec.at..Len(batch) : ~batch[i].bad
    BY <1>6, <1>14
  <2>3. Apply(exec.at, Len(batch), "bulk")
    BY <1>3, <1>14
  <2> QED
    BY <1>1, <1>8, <1>11, <1>14, <2>1, <2>2, <2>3, PacketGoesIn
<1>15. CASE ApplyNothing /\ Finish("thrown", exec.info)
  <2>1. table' = table
    BY <1>15 DEF ApplyNothing
  <2> QED
    BY <1>1, <1>15, <2>1, ThrownHere
<1>16. CASE bad # {} /\ Apply(1, f - 1, "bulk") /\ Finish("thrown", exec.info)
  <2>1. Apply(exec.at, f - 1, "bulk")
    BY <1>3, <1>16
  <2> QED
    BY <1>1, <1>6, <1>7, <1>8, <1>16, <2>1, ThrownAtBad
<1> QED
  BY <1>12, <1>13, <1>14, <1>15, <1>16

LEMMA LoseInv == ASSUME BatchInv, Lose PROVE BatchInv'
<1>1. exec # Idle /\ ~alive' /\ UNCHANGED <<conf, batch, exec, table, ran, told>>
  BY DEF Lose
<1>2. BatchTypeOK' /\ Waiting'
  BY <1>1 DEF BatchInv, BatchTypeOK, Waiting, NextId
<1>3. UnderWay'
  BY <1>1 DEF BatchInv, UnderWay, Advanced, AtRow, Info, AllDone, GoodDone, Loses
<1>4. OutcomeIsTold'
  BY <1>1 DEF BatchInv, UnderWay, OutcomeIsTold, SuccessIsTheTruth, FailureIsHandled
<1> QED
  BY <1>2, <1>3, <1>4 DEF BatchInv

-----------------------------------------------------------------------------
(* Between two executions: what was told stays true.                             *)
LEMMA StillTold ==
  ASSUME OutcomeIsTold, UNCHANGED <<conf, told, table, alive>>
  PROVE  OutcomeIsTold'
<1>1. SuccessIsTheTruth'
  BY DEF OutcomeIsTold, SuccessIsTheTruth, LosesErrors, Applied
<1>2. FailureIsHandled'
  <2>1. conf' = conf /\ told' = told /\ table' = table /\ alive' = alive /\ FailureIsHandled
    BY DEF OutcomeIsTold
  <2>2. ASSUME told.how = "thrown", ~conf.continueBatchOnError, NEW i \in DOMAIN told.rows,
               NEW j \in DOMAIN told.rows, told.rows[i].bad, i <= j
        PROVE  ~(\E k \in DOMAIN table : table[k].id = told.rows[j].id)
    BY ONLY <2>1, <2>2 DEF FailureIsHandled, Applied
  <2>3. ASSUME told.how = "thrown", conf.continueBatchOnError, told.way = "single", alive,
               NEW i \in DOMAIN told.rows
        PROVE  (\E k \in DOMAIN table : table[k].id = told.rows[i].id) = ~told.rows[i].bad
    BY ONLY <2>1, <2>3 DEF FailureIsHandled, Applied
  <2> QED
    BY ONLY <2>1, <2>2, <2>3, ZenonT(90) DEF FailureIsHandled, Applied
<1> QED
  BY <1>1, <1>2 DEF OutcomeIsTold

(* The id the next row gets is above those of the batch.                         *)
LEMMA NextIdRises ==
  ASSUME RowList(batch), RowList(told.rows)
  PROVE  /\ NextId \in Nat
         /\ \A i \in 1..Len(batch) : batch[i].id < NextId
<1>1. /\ Len(batch) \in Nat /\ Len(told.rows) \in Nat
      /\ batch # << >> => Len(batch) \in 1..Len(batch)
      /\ told.rows # << >> => Len(told.rows) \in 1..Len(told.rows)
  BY SequenceDomain DEF RowList, Rising
<1>2. /\ \A i \in 1..Len(batch) : batch[i].id \in Nat
      /\ \A i \in 1..Len(told.rows) : told.rows[i].id \in Nat
      /\ \A i, j \in 1..Len(batch) : i < j => batch[i].id < batch[j].id
  BY DEF RowList, Rising
<1>3. NextId \in Nat
  BY <1>1, <1>2 DEF NextId
<1>4. ASSUME NEW i \in 1..Len(batch) PROVE batch[i].id < NextId
  <2>1. batch # << >> /\ Len(batch) \in 1..Len(batch)
    BY <1>1, EmptySequence
  <2>2. NextId = batch[Len(batch)].id + 1
    BY <2>1 DEF NextId
  <2>3. batch[i].id \in Nat /\ batch[Len(batch)].id \in Nat
    BY <1>2, <2>1
  <2>4. i = Len(batch) \/ i < Len(batch)
    BY <1>1
  <2>5. batch[i].id <= batch[Len(batch)].id
    BY <1>2, <2>1, <2>3, <2>4
  <2> QED
    BY ONLY <2>2, <2>3, <2>5
<1> QED
  BY <1>3, <1>4

LEMMA AddBatchInv ==
  ASSUME BatchInv, NEW bad \in BOOLEAN, NEW joinable \in BOOLEAN, AddBatch(bad, joinable)
  PROVE  BatchInv'
<1>1. PICK row : /\ row.id = NextId /\ row.bad = bad
                 /\ batch' = Append(batch, row)
  BY DEF AddBatch
<1>2. exec = Idle /\ ~ran /\ UNCHANGED <<conf, exec, table, alive, ran, told>>
  BY DEF AddBatch
<1>3. RowList(batch) /\ RowList(told.rows) /\ IsSequence(batch) /\ Len(batch) \in Nat
  BY DEF BatchInv, BatchTypeOK, RowList, Rising, IsSequence
<1>4. NextId \in Nat /\ \A i \in 1..Len(batch) : batch[i].id < NextId
  BY <1>3, NextIdRises
<1>5. PICK b : b = Append(batch, row)
  OBVIOUS
<1>6. /\ IsSequence(b) /\ Len(b) = Len(batch) + 1
      /\ \A i \in 1..Len(batch) : b[i] = batch[i]
      /\ b[Len(batch) + 1] = row
  BY ONLY <1>3, <1>5, Appended
<1>7. ASSUME NEW i \in 1..Len(b)
      PROVE  b[i].id \in Nat /\ b[i].bad \in BOOLEAN
  <2>1. CASE i \in 1..Len(batch)
    BY <1>3, <1>6, <2>1 DEF RowList, Rising
  <2>2. CASE i = Len(batch) + 1
    BY <1>1, <1>4, <1>6, <2>2
  <2> QED
    BY <1>3, <1>6, <2>1, <2>2
<1>8. ASSUME NEW i \in 1..Len(b), NEW j \in 1..Len(b), i < j PROVE b[i].id < b[j].id
  <2>1. i \in 1..Len(batch)
    BY <1>3, <1>6, <1>8
  <2>2. CASE j \in 1..Len(batch)
    BY <1>3, <1>6, <1>8, <2>1, <2>2 DEF RowList, Rising
  <2>3. CASE j = Len(batch) + 1
    BY <1>1, <1>4, <1>6, <2>1, <2>3
  <2> QED
    BY <1>3, <1>6, <2>2, <2>3
<1>9. RowList(batch')
  BY ONLY <1>1, <1>5, <1>6, <1>7, <1>8 DEF RowList, Rising
<1>10. BatchTypeOK'
  BY <1>2, <1>9 DEF BatchInv, BatchTypeOK
<1>11. batch' # << >>
  <2>1. Len(batch') # 0
    BY <1>1, <1>3, <1>5, <1>6
  <2> QED
    BY ONLY <2>1, EmptySequence
<1>12. Below(table, b[1].id)
  <2>1. CASE batch = << >>
    <3>1. Len(batch) + 1 = 1
      BY ONLY <2>1, EmptySequence
    <3>2. b[1].id = NextId
      BY <1>1, <1>6, <3>1
    <3>3. Below(table, NextId)
      BY <1>2, <2>1 DEF BatchInv, Waiting
    <3> QED
      BY ONLY <3>2, <3>3
  <2>2. CASE batch # << >>
    <3>1. 1 \in 1..Len(batch)
      BY ONLY <1>3, <2>2, SequenceDomain
    <3>2. b[1] = batch[1]
      BY <1>6, <3>1
    <3>3. Below(table, batch[1].id)
      BY <1>2, <2>2 DEF BatchInv, Waiting
    <3> QED
      BY ONLY <3>2, <3>3
  <2> QED
    BY <2>1, <2>2
<1>13. Waiting'
  BY ONLY <1>1, <1>2, <1>5, <1>11, <1>12 DEF Waiting, Below
<1>14. UnderWay'
  BY ONLY <1>2 DEF UnderWay, Idle
<1>15. OutcomeIsTold'
  BY <1>2, StillTold DEF BatchInv
<1> QED
  BY ONLY <1>10, <1>13, <1>14, <1>15 DEF BatchInv

LEMMA ClearBatchInv == ASSUME BatchInv, ClearBatch PROVE BatchInv'
<1>1. /\ exec = Idle /\ batch # << >> /\ batch' = << >> /\ ~ran' /\ ran' \in BOOLEAN
      /\ told' = [told EXCEPT !.rows = batch, !.how = "cleared", !.counts = << >>]
      /\ UNCHANGED <<conf, exec, table, alive>>
  BY DEF ClearBatch
<1>2. RowList(batch) /\ IsTold(told) /\ Rising(table) /\ exec \in Execution
  BY DEF BatchInv, BatchTypeOK
<1>3. told'.rows = batch /\ told'.how = "cleared" /\ IsTold(told')
  BY ONLY <1>1, <1>2 DEF IsTold
<1>4. RowList(<< >>)
  BY EmptySequence DEF RowList, Rising
<1>5. BatchTypeOK'
  BY ONLY <1>1, <1>2, <1>3, <1>4 DEF BatchTypeOK
<1>6. NextId' = batch[Len(batch)].id + 1
  BY ONLY <1>1, <1>3 DEF NextId
<1>7. Below(table, batch[Len(batch)].id + 1)
  <2>1. CASE ran
    BY <1>1, <2>1 DEF BatchInv, Waiting, NextId
  <2>2. CASE ~ran
    <3>1. Below(table, batch[1].id)
      BY <1>1, <2>2 DEF BatchInv, Waiting
    <3>2. 1 \in 1..Len(batch)
      BY ONLY <1>1, <1>2, SequenceDomain DEF RowList, Rising
    <3> QED
      BY ONLY <1>2, <3>1, <3>2, BelowLast
  <2> QED
    BY <2>1, <2>2
<1>8. Waiting'
  <2>1. Below(table', NextId')
    BY ONLY <1>1, <1>6, <1>7
  <2> QED
    BY ONLY <1>1, <2>1 DEF Waiting
<1>9. UnderWay'
  BY ONLY <1>1 DEF UnderWay, Idle
<1>10. OutcomeIsTold'
  BY ONLY <1>3 DEF OutcomeIsTold, SuccessIsTheTruth, FailureIsHandled
<1> QED
  BY ONLY <1>5, <1>8, <1>9, <1>10 DEF BatchInv

LEMMA WaysAreNamed == Ways \in Seq(WayNames)
<1>1. \A x \in WayNames : <<x>> \in Seq(WayNames)
  OBVIOUS
<1>2. \A s \in Seq(WayNames), x \in WayNames : Append(s, x) \in Seq(WayNames)
  OBVIOUS
<1>3. OneByOne \in WayNames
  BY DEF OneByOne, WayNames
<1>4. "bulk" \in WayNames /\ "values" \in WayNames /\ "aggregate" \in WayNames /\ "semicolon" \in WayNames
  BY DEF WayNames
<1>5. << >> \in Seq(WayNames)
  OBVIOUS
<1>6. TryBulk \in Seq(WayNames)
  BY ONLY <1>1, <1>4, <1>5 DEF TryBulk
<1>7. ClientWays \in Seq(WayNames)
  BY ONLY <1>1, <1>2, <1>3, <1>4, <1>6 DEF ClientWays
<1>8. ServerWays \in Seq(WayNames) /\ StatementWays \in Seq(WayNames)
  BY ONLY <1>1, <1>2, <1>3, <1>4, <1>6 DEF ServerWays, StatementWays
<1> QED
  BY ONLY <1>7, <1>8 DEF Ways

LEMMA ExecuteBatchInv == ASSUME BatchInv, ExecuteBatch PROVE BatchInv'
<1>1. /\ exec = Idle /\ batch # << >> /\ ~ran
      /\ exec' = [way |-> Ways, at |-> 1, info |-> NoInformation, failed |-> FALSE,
                  begun |-> Len(table)]
      /\ told' = [NotTold EXCEPT !.rows = batch]
      /\ UNCHANGED <<conf, batch, table, alive, ran>>
  BY DEF ExecuteBatch
<1>2. RowList(batch) /\ Rising(table) /\ ran \in BOOLEAN /\ Len(table) \in Nat
  BY DEF BatchInv, BatchTypeOK, Rising, IsSequence
<1>3. told'.rows = batch /\ told'.how = "nothing" /\ IsTold(told')
  BY ONLY <1>1 DEF NotTold, IsTold
<1>4. PICK e : e = exec'
  OBVIOUS
<1>5. e \in Execution /\ e.at = 1 /\ e.info = NoInformation /\ ~e.failed
  BY ONLY <1>1, <1>2, <1>4, WaysAreNamed DEF Execution
<1>6. BatchTypeOK'
  BY ONLY <1>1, <1>2, <1>3, <1>4, <1>5 DEF BatchTypeOK
<1>7. exec' # Idle
  BY ONLY <1>4, <1>5 DEF Idle
<1>8. Waiting'
  BY ONLY <1>7 DEF Waiting, Idle, NoInformation
<1>9. 1 \in 1..Len(batch) /\ Len(batch) \in Nat
  BY ONLY <1>1, <1>2, SequenceDomain DEF RowList, Rising
<1>10. Below(table, batch[1].id)
  BY <1>1 DEF BatchInv, Waiting
<1>11. AtRow(exec, table)'
  BY ONLY <1>1, <1>4, <1>5, <1>9, <1>10 DEF AtRow, Below
<1>12. Info(exec)'
  BY ONLY <1>4, <1>5 DEF Info, NoInformation
<1>13. AllDone(exec, table)' /\ GoodDone(exec, table)'
  BY ONLY <1>1, <1>4, <1>5, <1>9 DEF AllDone, GoodDone
<1>14. UnderWay'
  BY ONLY <1>1, <1>3, <1>11, <1>12, <1>13 DEF UnderWay, Advanced
<1>15. OutcomeIsTold'
  BY ONLY <1>3 DEF OutcomeIsTold, SuccessIsTheTruth, FailureIsHandled
<1> QED
  BY ONLY <1>6, <1>8, <1>14, <1>15 DEF BatchInv

(* Nothing the invariant speaks of changes.                                      *)
LEMMA SameBatch ==
  ASSUME BatchInv, UNCHANGED <<conf, batch, exec, table, alive, ran, told>>
  PROVE  BatchInv'
<1>1. BatchTypeOK' /\ Waiting'
  BY DEF BatchInv, BatchTypeOK, Waiting, NextId
<1>2. UnderWay'
  BY DEF BatchInv, UnderWay, Advanced, AtRow, Info, AllDone, GoodDone, Loses
<1>3. OutcomeIsTold'
  BY StillTold DEF BatchInv
<1> QED
  BY <1>1, <1>2, <1>3 DEF BatchInv

LEMMA BatchBegins == BatchInit => BatchInv
<1> SUFFICES ASSUME BatchInit PROVE BatchInv
  OBVIOUS
<1>1. PICK z : z = << >>
  OBVIOUS
<1>2. RowList(z) /\ Rising(z) /\ Len(z) = 0 /\ z \in Seq(WayNames)
  BY <1>1, EmptySequence DEF RowList, Rising
<1>3. /\ batch = z /\ table = z /\ ran = FALSE
      /\ told = [rows |-> z, how |-> "nothing", counts |-> z, way |-> "none"]
      /\ exec = Idle
      /\ Idle = [way |-> z, at |-> 0, info |-> NoInformation, failed |-> FALSE, begun |-> 0]
  BY <1>1 DEF BatchInit, NotTold, Idle
<1>4. exec \in Execution
  BY ONLY <1>2, <1>3 DEF Execution
<1>5. BatchTypeOK
  BY ONLY <1>2, <1>3, <1>4 DEF BatchTypeOK, IsTold
<1>6. Waiting
  BY ONLY <1>1, <1>2, <1>3 DEF Waiting, Below
<1>7. UnderWay
  BY ONLY <1>3 DEF UnderWay
<1>8. OutcomeIsTold
  BY ONLY <1>3 DEF OutcomeIsTold, SuccessIsTheTruth, FailureIsHandled
<1> QED
  BY ONLY <1>5, <1>6, <1>7, <1>8 DEF BatchInv

LEMMA BatchStep == ASSUME BatchInv, [BatchNext]_batchVars PROVE BatchInv'
<1>1. ASSUME NEW h \in query.holders, SetParameter(h) PROVE BatchInv'
  BY <1>1, SameBatch DEF SetParameter
<1>2. CASE ClearParameters
  BY <1>2, SameBatch DEF ClearParameters
<1>3. CASE ClearBatch
  BY <1>3, ClearBatchInv
<1>4. CASE ExecuteBatch
  BY <1>4, ExecuteBatchInv
<1>5. ASSUME NEW bad \in BOOLEAN, NEW joinable \in BOOLEAN, AddBatch(bad, joinable) PROVE BatchInv'
  BY <1>5, AddBatchInv
<1>6. CASE RunSingle
  BY <1>6, RunSingleInv
<1>7. CASE RunMulti
  BY <1>7, RunMultiInv
<1>8. CASE RunValues
  BY <1>8, RunValuesInv
<1>9. CASE RunBulk
  BY <1>9, RunBulkInv
<1>10. ASSUME NEW way \in {"semicolon", "aggregate"}, RunSemicolon(way) PROVE BatchInv'
  BY <1>10, RunSemicolonInv
<1>11. CASE Lose
  BY <1>11, LoseInv
<1>12. CASE UNCHANGED batchVars
  BY <1>12, SameBatch DEF batchVars
<1> QED
  BY <1>1, <1>2, <1>3, <1>4, <1>5, <1>6, <1>7, <1>8, <1>9, <1>10, <1>11, <1>12 DEF BatchNext

LEMMA BatchAlways == BatchSpec => []BatchInv
<1>1. BatchInit => BatchInv
  BY BatchBegins
<1>2. BatchInv /\ [BatchNext]_batchVars => BatchInv'
  BY BatchStep
<1> QED
  BY <1>1, <1>2, PTL DEF BatchSpec

(* However a batch is run (row by row, rewritten, joined by semicolons, in bulk   *)
(* with another way to fall back on), for every mix of options, refused rows and  *)
(* lost connections the server applies each row at most once and in the order in  *)
(* which addBatch was called.                                                     *)
THEOREM RowsGoInOnce == BatchSpec => []RowsOnceInOrder
<1>1. BatchInv => RowsOnceInOrder
  <2> SUFFICES ASSUME BatchInv PROVE RowsOnceInOrder
    OBVIOUS
  <2>1. Rising(table)
    BY DEF BatchInv, BatchTypeOK
  <2>2. DOMAIN table = 1..Len(table)
    BY <2>1, SequenceDomain DEF Rising
  <2> QED
    BY ONLY <2>1, <2>2 DEF Rising, RowsOnceInOrder
<1> QED
  BY <1>1, BatchAlways, PTL

(* What executeBatch returns or throws is true of the server: update counts mean   *)
(* that every row was applied and counted, an exception that no row after a        *)
(* refused one was, or under continueBatchOnError that all the others were.        *)
THEOREM BatchTellsItsOutcome == BatchSpec => []OutcomeIsTold
<1>1. BatchInv => OutcomeIsTold
  BY DEF BatchInv
<1> QED
  BY <1>1, BatchAlways, PTL

-----------------------------------------------------------------------------
(* The answers of the statements of a connection.  The lemmas ...At say what an *)
(* operation of StatementResults makes of a connection seen from the statement  *)
(* that it is about; Inv is the inductive invariant, for every statement what   *)
(* it learned of the answers it read, and of the wire whose answers are on it;  *)
(* one lemma ...Step per call shows that Inv comes back.                        *)
(*                                                                              *)
(* At is a connection seen from one statement: its Results r, its result sets   *)
(* S, the wire and the flags; of the other statements it is c.                  *)
Others(f, s, r) == [t \in Stmts |-> IF t = s THEN r ELSE f[t]]
At(c, s, r, S, w, m, a, x) ==
  [wire |-> w, more |-> m, active |-> a, res |-> Others(c.res, s, r), sets |-> Others(c.sets, s, S),
   raised |-> x, fault |-> "none", closed |-> c.closed]
Yes == TRUE
No == FALSE
Rec(f, inWire, caching, cmd, ahead, current, released) ==
  [made |-> Yes, fetchSize |-> f, inWire |-> inWire, caching |-> caching, cmd |-> cmd,
   exec |-> ahead, current |-> current, released |-> released]
PutRes(d, s, r) == [d EXCEPT !.res[s] = r]
PutSets(d, s, S) == [d EXCEPT !.sets[s] = S]

(* TRUE and FALSE as names: the provers meet them as members of records.        *)
LEMMA YesNo == Yes = TRUE /\ No = FALSE
BY DEF Yes, No

(* Both are Booleans.                                                           *)
LEMMA Booleans == Yes \in BOOLEAN /\ No \in BOOLEAN
BY DEF Yes, No

(* No statement is called Nobody or Gone.                                       *)
LEMMA NobodyIsApart == Nobody \notin Stmts /\ Gone \notin Stmts /\ Nobody # Gone
BY ResultsAssumption DEF Nobody, Gone

(* A function changed at one statement.                                         *)
LEMMA OthersAre ==
  ASSUME NEW f, NEW s, NEW r,
         s \in Stmts
  PROVE  /\ Others(f, s, r)[s] = r /\ \A t \in Stmts : t # s => Others(f, s, r)[t] = f[t]
         /\ DOMAIN Others(f, s, r) = Stmts
BY DEF Others

(* The fields of a connection seen from one statement.                          *)
LEMMA AtIs ==
  ASSUME NEW c, NEW s, NEW r, NEW S, NEW w, NEW m, NEW a, NEW x, NEW d,
         s \in Stmts, d = At(c, s, r, S, w, m, a, x)
  PROVE  /\ d.wire = w /\ d.more = m /\ d.active = a /\ d.res[s] = r /\ d.sets[s] = S /\ d.raised = x
         /\ d.fault = "none" /\ d.closed = c.closed
         /\ \A t \in Stmts : t # s => d.res[t] = c.res[t] /\ d.sets[t] = c.sets[t]
BY OthersAre DEF At

(* The fields of a Results.                                                     *)
LEMMA RecIs ==
  ASSUME NEW f, NEW inWire, NEW caching, NEW cmd, NEW ahead, NEW current, NEW released, NEW r,
         r = Rec(f, inWire, caching, cmd, ahead, current, released)
  PROVE  /\ r.made = Yes /\ r.fetchSize = f /\ r.inWire = inWire /\ r.caching = caching /\ r.cmd = cmd /\ r.exec = ahead
         /\ r.current = current /\ r.released = released
BY DEF Rec

(* A new Results, or new result sets, at the statement in view.                 *)
LEMMA PutAt ==
  ASSUME NEW c, NEW s, NEW r, NEW S, NEW w, NEW m, NEW a, NEW x, NEW q, NEW Q,
         s \in Stmts
  PROVE  /\ PutRes(At(c, s, r, S, w, m, a, x), s, q) = At(c, s, q, S, w, m, a, x)
         /\ PutSets(At(c, s, r, S, w, m, a, x), s, Q) = At(c, s, r, Q, w, m, a, x)
<1>1. PICK R : R = Others(c.res, s, r)
  OBVIOUS
<1>2. PICK T : T = Others(c.sets, s, S)
  OBVIOUS
<1>3. [R EXCEPT ![s] = q] = Others(c.res, s, q)
  BY <1>1 DEF Others
<1>4. [T EXCEPT ![s] = Q] = Others(c.sets, s, Q)
  BY <1>2 DEF Others
<1>5. At(c, s, r, S, w, m, a, x) = [wire |-> w, more |-> m, active |-> a, res |-> R, sets |-> T,
                                    raised |-> x, fault |-> "none", closed |-> c.closed]
  BY <1>1, <1>2 DEF At
<1>6. PutRes(At(c, s, r, S, w, m, a, x), s, q) = At(c, s, q, S, w, m, a, x)
  BY ONLY <1>2, <1>3, <1>5 DEF At, PutRes
<1>7. PutSets(At(c, s, r, S, w, m, a, x), s, Q) = At(c, s, r, Q, w, m, a, x)
  BY ONLY <1>1, <1>4, <1>5 DEF At, PutSets
<1> QED
  BY <1>6, <1>7

(* removeActiveStreamingResult, of the statement in view.                       *)
LEMMA RemoveActiveAt ==
  ASSUME NEW c, NEW s, NEW f, NEW inWire, NEW caching, NEW cmd, NEW ahead, NEW current, NEW released,
         NEW S, NEW w, NEW m, NEW a, NEW x,
         s \in Stmts, a \in {s, Nobody}
  PROVE  RemoveActive(At(c, s, Rec(f, inWire, caching, cmd, ahead, current, released), S, w, m, a, x))
           = At(c, s, Rec(IF a = s THEN 0 ELSE f, inWire, caching, cmd, ahead, current, released), S, w, m, Nobody, x)
<1>0. PICK r : r = Rec(f, inWire, caching, cmd, ahead, current, released)
  OBVIOUS
<1>1. PICK d : d = At(c, s, r, S, w, m, a, x)
  OBVIOUS
<1>2. d.active = a /\ d.res[s] = r
  BY <1>1, AtIs
<1>3. CASE a = s
  <2>1. PICK q : q = Rec(0, inWire, caching, cmd, ahead, current, released)
    OBVIOUS
  <2>2. [r EXCEPT !.fetchSize = 0] = q
    BY <1>0, <2>1 DEF Rec
  <2>3. PICK e : e = PutRes(d, s, q)
    OBVIOUS
  <2>4. RemoveActive(d) = [e EXCEPT !.active = Nobody]
    BY ONLY <1>2, <1>3, <2>2, <2>3, s \in Stmts DEF RemoveActive, PutRes
  <2>5. e = At(c, s, q, S, w, m, a, x)
    BY <1>1, <2>3, PutAt
  <2>6. [e EXCEPT !.active = Nobody] = At(c, s, q, S, w, m, Nobody, x)
    BY <2>5 DEF At
  <2> QED
    BY <1>0, <1>1, <1>3, <2>1, <2>4, <2>6
<1>4. CASE a = Nobody
  BY <1>0, <1>1, <1>2, <1>4, NobodyIsApart DEF RemoveActive
<1> QED
  BY <1>3, <1>4

(* The beginning of addStats, addStatsError and addResultSet.                   *)
LEMMA NoteWireAt ==
  ASSUME NEW c, NEW s, NEW f, NEW inWire, NEW caching, NEW cmd, NEW ahead, NEW current, NEW released,
         NEW S, NEW w, NEW m, NEW a, NEW x, NEW more, NEW b,
         s \in Stmts, inWire \in BOOLEAN, a \in {s, Nobody}, more \in BOOLEAN,
         b = IF inWire /\ ~more /\ f = 0 THEN Nobody ELSE a
  PROVE  NoteWire(At(c, s, Rec(f, inWire, caching, cmd, ahead, current, released), S, w, m, a, x), s, more)
              = At(c, s, Rec(f, more, caching, cmd, ahead, current, released), S, w, m, b, x)
<1>0. PICK r : r = Rec(f, inWire, caching, cmd, ahead, current, released)
  OBVIOUS
<1>1. PICK d : d = At(c, s, r, S, w, m, a, x)
  OBVIOUS
<1>3. PICK e : e = At(c, s, r, S, w, m, b, x)
  OBVIOUS
<1>4. d.res[s].inWire = inWire /\ d.res[s].fetchSize = f /\ e.res[s] = r
  BY <1>0, <1>1, <1>3, AtIs, RecIs
<1>5. (IF inWire /\ ~more /\ f = 0 THEN RemoveActive(d) ELSE d) = e
  BY <1>0, <1>1, <1>3, RemoveActiveAt
<1>6. NoteWire(d, s, more) = [e EXCEPT !.res[s].inWire = more]
  BY <1>4, <1>5 DEF NoteWire
<1>7. PICK q : q = Rec(f, more, caching, cmd, ahead, current, released)
  OBVIOUS
<1>8. [r EXCEPT !.inWire = more] = q
  BY <1>0, <1>7 DEF Rec
<1>9. [e EXCEPT !.res[s].inWire = more] = PutRes(e, s, q)
  BY ONLY <1>4, <1>8 DEF PutRes
<1>10. PutRes(e, s, q) = At(c, s, q, S, w, m, b, x)
  BY <1>3, PutAt
<1> QED
  BY <1>0, <1>1, <1>6, <1>7, <1>9, <1>10

-----------------------------------------------------------------------------
(* What a command's information becomes with an answer of each kind.            *)
Listed(cmd) == IF cmd.kind = "none" THEN NewInformation("multiple", 1) ELSE cmd
OkNoted(cmd, more) ==
  IF cmd.kind = "none" /\ ~more THEN SingleInformation(0, 1) ELSE AddSuccessStat(Listed(cmd), 1, 0)
ErrNoted(cmd) ==
  IF cmd.kind = "none" /\ ~No THEN SingleInformation(0, EXECUTE_FAILED) ELSE AddErrorStat(Listed(cmd))
SetNoted(cmd, more) ==
  IF cmd.kind = "none" /\ ~more THEN SingleInformation(0, RESULT_SET_VALUE) ELSE AddResultSetStat(Listed(cmd))

(* The end of addStats, addStatsError and addResultSet.                         *)
LEMMA NoteAnswerAt ==
  ASSUME NEW c, NEW s, NEW f, NEW inWire, NEW caching, NEW cmd, NEW ahead, NEW current, NEW released,
         NEW S, NEW w, NEW m, NEW a, NEW x, NEW single, NEW added, NEW more,
         s \in Stmts, more \in BOOLEAN
  PROVE  NoteAnswer(At(c, s, Rec(f, inWire, caching, cmd, ahead, current, released), S, w, m, a, x), s, single, added, more)
           = At(c, s, Rec(f, inWire, caching, IF cmd.kind = "none" /\ ~more THEN single ELSE added, ahead, current, released),
                S, w, m, a, x)
<1>0. PICK r : r = Rec(f, inWire, caching, cmd, ahead, current, released)
  OBVIOUS
<1>1. PICK d : d = At(c, s, r, S, w, m, a, x)
  OBVIOUS
<1>2. d.res[s] = r /\ r.cmd = cmd
  BY <1>0, <1>1, AtIs, RecIs
<1>3. PICK i : i = IF cmd.kind = "none" /\ ~more THEN single ELSE added
  OBVIOUS
<1>4. PICK q : q = Rec(f, inWire, caching, i, ahead, current, released)
  OBVIOUS
<1>5. [r EXCEPT !.cmd = i] = q
  BY <1>0, <1>4 DEF Rec
<1>6. NoteAnswer(d, s, single, added, more) = [d EXCEPT !.res[s].cmd = i]
  BY ONLY <1>2, <1>3 DEF NoteAnswer
<1>7. [d EXCEPT !.res[s].cmd = i] = PutRes(d, s, q)
  BY ONLY <1>2, <1>5 DEF PutRes
<1>8. PutRes(d, s, q) = At(c, s, q, S, w, m, a, x)
  BY <1>1, PutAt
<1> QED
  BY <1>0, <1>1, <1>3, <1>4, <1>6, <1>7, <1>8

(* addStats.                                                                    *)
LEMMA AddStatsAt ==
  ASSUME NEW c, NEW s, NEW f, NEW inWire, NEW caching, NEW cmd, NEW ahead, NEW current, NEW released,
         NEW S, NEW w, NEW m, NEW a, NEW x, NEW more, NEW b,
         s \in Stmts, inWire \in BOOLEAN, a \in {s, Nobody}, more \in BOOLEAN,
         b = IF inWire /\ ~more /\ f = 0 THEN Nobody ELSE a
  PROVE  AddStats(At(c, s, Rec(f, inWire, caching, cmd, ahead, current, released), S, w, m, a, x), s, more)
           = At(c, s, Rec(f, more, caching, OkNoted(cmd, more), ahead, current, released), S, w, m, b, x)
<1>1. PICK d : d = At(c, s, Rec(f, inWire, caching, cmd, ahead, current, released), S, w, m, a, x)
  OBVIOUS
<1>2. PICK n : n = NoteWire(d, s, more)
  OBVIOUS
<1>3. n = At(c, s, Rec(f, more, caching, cmd, ahead, current, released), S, w, m, b, x)
  BY <1>1, <1>2, NoteWireAt
<1>4. n.res[s].cmd = cmd
  BY <1>3, AtIs, RecIs
<1>5. ListOf(n, s) = Listed(cmd)
  BY <1>4 DEF ListOf, Listed
<1>6. AddStats(d, s, more) = NoteAnswer(n, s, SingleInformation(0, 1), AddSuccessStat(Listed(cmd), 1, 0), more)
  BY <1>2, <1>5 DEF AddStats
<1> QED
  BY <1>1, <1>3, <1>6, NoteAnswerAt DEF OkNoted

(* addStatsError: nothing comes after an error.                                 *)
LEMMA AddStatsErrorAt ==
  ASSUME NEW c, NEW s, NEW f, NEW inWire, NEW caching, NEW cmd, NEW ahead, NEW current, NEW released,
         NEW S, NEW w, NEW m, NEW a, NEW x, NEW b,
         s \in Stmts, inWire \in BOOLEAN, a \in {s, Nobody},
         b = IF inWire /\ ~No /\ f = 0 THEN Nobody ELSE a
  PROVE  AddStatsError(At(c, s, Rec(f, inWire, caching, cmd, ahead, current, released), S, w, m, a, x), s)
           = At(c, s, Rec(f, No, caching, ErrNoted(cmd), ahead, current, released), S, w, m, b, x)
<1>1. PICK d : d = At(c, s, Rec(f, inWire, caching, cmd, ahead, current, released), S, w, m, a, x)
  OBVIOUS
<1>2. PICK n : n = NoteWire(d, s, No)
  OBVIOUS
<1>3. n = At(c, s, Rec(f, No, caching, cmd, ahead, current, released), S, w, m, b, x)
  BY <1>1, <1>2, NoteWireAt, Booleans
<1>4. n.res[s].cmd = cmd
  BY <1>3, AtIs, RecIs
<1>5. ListOf(n, s) = Listed(cmd)
  BY <1>4 DEF ListOf, Listed
<1>6. AddStatsError(d, s) = NoteAnswer(n, s, SingleInformation(0, EXECUTE_FAILED), AddErrorStat(Listed(cmd)), No)
  BY ONLY <1>2, <1>5 DEF AddStatsError, No
<1> QED
  BY <1>1, <1>3, <1>6, NoteAnswerAt, Booleans DEF ErrNoted

(* readOkPacket.                                                                *)
LEMMA ReadOkPacketAt ==
  ASSUME NEW c, NEW s, NEW f, NEW inWire, NEW caching, NEW cmd, NEW ahead, NEW current, NEW released,
         NEW S, NEW w, NEW m, NEW a, NEW x, NEW more, NEW b,
         s \in Stmts, inWire \in BOOLEAN, a \in {s, Nobody}, more \in BOOLEAN, more <=> w # <<>>,
         b = IF inWire /\ ~more /\ f = 0 THEN Nobody ELSE a
  PROVE  ReadOkPacket(At(c, s, Rec(f, inWire, caching, cmd, ahead, current, released), S, w, m, a, x), s)
           = At(c, s, Rec(f, more, caching, OkNoted(cmd, more), ahead, current, released), S, w, more, b, x)
<1>0. PICK r : r = Rec(f, inWire, caching, cmd, ahead, current, released)
  OBVIOUS
<1>1. PICK d : d = At(c, s, r, S, w, m, a, x)
  OBVIOUS
<1>2. d.wire = w
  BY <1>1, AtIs
<1>3. PICK e : e = At(c, s, r, S, w, more, a, x)
  OBVIOUS
<1>4. [d EXCEPT !.more = more] = e
  BY ONLY <1>1, <1>3 DEF At
<1>5. more = (d.wire # <<>>)
  BY ONLY <1>2, more \in BOOLEAN, more <=> w # <<>>
<1>6. ReadOkPacket(d, s) = AddStats(e, s, more)
  BY ONLY <1>4, <1>5 DEF ReadOkPacket
<1> QED
  BY ONLY <1>0, <1>1, <1>3, <1>6, AddStatsAt, s \in Stmts, inWire \in BOOLEAN, a \in {s, Nobody}, more \in BOOLEAN,
          b = IF inWire /\ ~more /\ f = 0 THEN Nobody ELSE a

(* readErrorPacket: nobody is active any more.                                  *)
LEMMA ReadErrorPacketAt ==
  ASSUME NEW c, NEW s, NEW inWire, NEW caching, NEW cmd, NEW ahead, NEW current, NEW released, NEW S,
         NEW w, NEW m, NEW a, NEW x,
         s \in Stmts, inWire \in BOOLEAN, a \in {s, Nobody}
  PROVE  ReadErrorPacket(At(c, s, Rec(0, inWire, caching, cmd, ahead, current, released), S, w, m, a, x), s)
           = At(c, s, Rec(0, No, caching, ErrNoted(cmd), ahead, current, released), S, w, No, Nobody, Yes)
<1>0. PICK r : r = Rec(0, inWire, caching, cmd, ahead, current, released)
  OBVIOUS
<1>1. PICK d : d = At(c, s, r, S, w, m, a, x)
  OBVIOUS
<1>2. PICK e : e = At(c, s, r, S, w, No, a, x)
  OBVIOUS
<1>3. [d EXCEPT !.more = FALSE] = e
  <2>1. [d EXCEPT !.more = No] = e
    BY <1>1, <1>2 DEF At
  <2> QED
    BY ONLY <2>1 DEF No
<1>4. PICK q : q = Rec(0, No, caching, ErrNoted(cmd), ahead, current, released)
  OBVIOUS
<1>5. PICK z : z = 0
  OBVIOUS
<1>a. PICK b : b = IF inWire /\ ~No /\ z = 0 THEN Nobody ELSE a
  OBVIOUS
<1>6. AddStatsError(e, s) = At(c, s, q, S, w, No, b, x)
  <2>1. q = Rec(z, No, caching, ErrNoted(cmd), ahead, current, released) /\ r = Rec(z, inWire, caching, cmd, ahead, current, released)
    BY <1>0, <1>4, <1>5
  <2> QED
    BY ONLY <2>1, <1>2, <1>a, AddStatsErrorAt, s \in Stmts, inWire \in BOOLEAN, a \in {s, Nobody}
<1>7. b \in {s, Nobody}
  BY <1>a
<1>8. RemoveActive(At(c, s, q, S, w, No, b, x)) = At(c, s, q, S, w, No, Nobody, x)
  BY <1>4, <1>7, RemoveActiveAt
<1>9. PICK g : g = At(c, s, q, S, w, No, Nobody, x)
  OBVIOUS
<1>10. ReadErrorPacket(d, s) = [g EXCEPT !.raised = TRUE]
  BY ONLY <1>3, <1>6, <1>8, <1>9 DEF ReadErrorPacket
<1>11. [g EXCEPT !.raised = TRUE] = At(c, s, q, S, w, No, Nobody, Yes)
  <2>1. [g EXCEPT !.raised = Yes] = At(c, s, q, S, w, No, Nobody, Yes)
    BY <1>9 DEF At
  <2> QED
    BY ONLY <2>1 DEF Yes
<1> QED
  BY <1>0, <1>1, <1>4, <1>10, <1>11

-----------------------------------------------------------------------------
(* A result set as it is made, and as it is when its rows are read or it is     *)
(* closed.                                                                      *)
NewSet(rows, size) == [left |-> IF size = 0 THEN 0 ELSE rows, isEof |-> size = 0, isClosed |-> FALSE, fetchSize |-> size]
SetRecords == [left : Int, isEof : BOOLEAN, isClosed : BOOLEAN, fetchSize : Nat]
IsSet(e) == e \in SetRecords
AllSets(S) == S \in Seq(SetRecords)

(* The fields of a result set.                                                  *)
LEMMA SetIs ==
  ASSUME NEW e, IsSet(e)
  PROVE  /\ e = [left |-> e.left, isEof |-> e.isEof, isClosed |-> e.isClosed, fetchSize |-> e.fetchSize]
         /\ e.left \in Int /\ e.isEof \in BOOLEAN /\ e.isClosed \in BOOLEAN /\ e.fetchSize \in Nat
BY DEF IsSet, SetRecords

(* A result set is new: read to its end unless it is streamed.                  *)
LEMMA NewSetIs ==
  ASSUME NEW rows, NEW size, rows \in Int, size \in Nat
  PROVE  /\ IsSet(NewSet(rows, size)) /\ (NewSet(rows, size).isEof <=> size = 0)
         /\ NewSet(rows, size).left \in Int
<1>1. PICK l \in Int : l = IF size = 0 THEN 0 ELSE rows
  OBVIOUS
<1>2. PICK e \in BOOLEAN : e = (size = 0)
  OBVIOUS
<1>3. NewSet(rows, size) = [left |-> l, isEof |-> e, isClosed |-> No, fetchSize |-> size]
  BY <1>1, <1>2 DEF NewSet, No
<1>4. PICK n : n = [left |-> l, isEof |-> e, isClosed |-> No, fetchSize |-> size]
  OBVIOUS
<1>5. n \in SetRecords /\ n.isEof = e /\ n.left = l
  BY <1>4, YesNo DEF SetRecords
<1> QED
  BY <1>2, <1>3, <1>4, <1>5 DEF IsSet

(* One more result set.                                                         *)
LEMMA SequenceOfSets ==
  ASSUME NEW S, NEW e,
         AllSets(S), IsSet(e)
  PROVE  /\ Len(Append(S, e)) = Len(S) + 1 /\ Append(S, e)[Len(S) + 1] = e
         /\ \A k \in 1..Len(S) : Append(S, e)[k] = S[k]
         /\ AllSets(Append(S, e))
BY DEF AllSets, IsSet

(* readResultSet makes the result set, and the statement active if it streams.  *)
LEMMA MakeSetAt ==
  ASSUME NEW c, NEW s, NEW r, NEW S, NEW w, NEW m, NEW a, NEW x, NEW rows, NEW size, NEW more, NEW b,
         s \in Stmts, more \in BOOLEAN, more <=> w # <<>> /\ size = 0, b = IF size = 0 THEN a ELSE s
  PROVE  MakeSet(At(c, s, r, S, w, m, a, x), s, rows, size) = At(c, s, r, Append(S, NewSet(rows, size)), w, more, b, x)
<1>1. PICK d : d = At(c, s, r, S, w, m, a, x)
  OBVIOUS
<1>2. d.wire = w /\ d.sets[s] = S
  BY <1>1, AtIs
<1>3. PICK Q : Q = Append(S, NewSet(rows, size))
  OBVIOUS
<1>4. PICK e : e = PutSets(d, s, Q)
  OBVIOUS
<1>5. e = At(c, s, r, Q, w, m, a, x)
  BY <1>1, <1>4, PutAt
<1>6. PICK h : h = [e EXCEPT !.more = more]
  OBVIOUS
<1>7. h = At(c, s, r, Q, w, more, a, x)
  BY ONLY <1>5, <1>6 DEF At
<1>8. h.active = a
  BY <1>7, AtIs
<1>9. (d.wire # <<>> /\ size = 0) = more
  BY ONLY <1>2, more \in BOOLEAN, more <=> w # <<>> /\ size = 0
<1>10. MakeSet(d, s, rows, size) = [h EXCEPT !.active = b]
  BY ONLY <1>2, <1>3, <1>4, <1>6, <1>8, <1>9, b = IF size = 0 THEN a ELSE s DEF MakeSet, PutSets, NewSet
<1>11. [h EXCEPT !.active = b] = At(c, s, r, Q, w, more, b, x)
  BY ONLY <1>7 DEF At
<1> QED
  BY ONLY <1>1, <1>3, <1>10, <1>11

(* addResultSet, of a set that is read to its end if the rest is kept.          *)
LEMMA AddResultSetAt ==
  ASSUME NEW c, NEW s, NEW f, NEW inWire, NEW caching, NEW cmd, NEW ahead, NEW current, NEW released,
         NEW S, NEW w, NEW m, NEW a, NEW x, NEW more, NEW k, NEW b,
         s \in Stmts, inWire \in BOOLEAN, caching \in BOOLEAN, a \in {s, Nobody}, more \in BOOLEAN,
         caching => S[k].isEof,
         b = IF inWire /\ ~more /\ f = 0 THEN Nobody ELSE a
  PROVE  AddResultSet(At(c, s, Rec(f, inWire, caching, cmd, ahead, current, released), S, w, m, a, x), s, k, more)
           = At(c, s, Rec(f, more, caching, SetNoted(cmd, more), Append(ahead, k), current, released), S, w, m, b, x)
<1>1. PICK d : d = At(c, s, Rec(f, inWire, caching, cmd, ahead, current, released), S, w, m, a, x)
  OBVIOUS
<1>3. PICK r : r = Rec(f, more, caching, cmd, ahead, current, released)
  OBVIOUS
<1>4. PICK n : n = At(c, s, r, S, w, m, b, x)
  OBVIOUS
<1>5. NoteWire(d, s, more) = n
  BY <1>1, <1>3, <1>4, NoteWireAt
<1>6. n.res[s] = r /\ r.exec = ahead
  BY <1>3, <1>4, AtIs, RecIs
<1>7. PICK ex : ex = Append(ahead, k)
  OBVIOUS
<1>8. PICK q : q = Rec(f, more, caching, cmd, ex, current, released)
  OBVIOUS
<1>9. [r EXCEPT !.exec = ex] = q
  BY <1>3, <1>8 DEF Rec
<1>10. PICK e : e = At(c, s, q, S, w, m, b, x)
  OBVIOUS
<1>11. [n EXCEPT !.res[s].exec = Append(@, k)] = e
  <2>1. [n EXCEPT !.res[s].exec = Append(@, k)] = PutRes(n, s, q)
    BY ONLY <1>6, <1>7, <1>9 DEF PutRes
  <2> QED
    BY <1>4, <1>10, <2>1, PutAt
<1>12. e.res[s].caching = caching /\ e.sets[s] = S /\ e.res[s].cmd = cmd
  BY <1>8, <1>10, AtIs, RecIs
<1>13. Cached(e, s, k) = e
  BY <1>12 DEF Cached, ReadRest
<1>14. AddResultSet(d, s, k, more) = NoteResultSet(e, s, more)
  BY ONLY <1>5, <1>11, <1>13 DEF AddResultSet
<1>15. NoteResultSet(e, s, more) =
         NoteAnswer(e, s, SingleInformation(0, RESULT_SET_VALUE), AddResultSetStat(Listed(cmd)), more)
  BY <1>12 DEF NoteResultSet, ListOf, Listed
<1> QED
  BY <1>1, <1>7, <1>8, <1>10, <1>14, <1>15, NoteAnswerAt DEF SetNoted

(* The end of readResultSet: who has more to come is active.                    *)
LEMMA NoteSetAt ==
  ASSUME NEW c, NEW s, NEW f, NEW inWire, NEW caching, NEW cmd, NEW ahead, NEW current, NEW released,
         NEW S, NEW w, NEW m, NEW a, NEW x, NEW pending, NEW g, NEW n,
         s \in Stmts, f \in Nat, inWire \in BOOLEAN, caching \in BOOLEAN, m \in BOOLEAN, pending \in BOOLEAN,
         a \in {s, Nobody}, pending <=> m \/ f > 0, n = Len(S), caching => S[n].isEof,
         g = IF pending THEN s ELSE IF inWire THEN Nobody ELSE a
  PROVE  NoteSet(At(c, s, Rec(f, inWire, caching, cmd, ahead, current, released), S, w, m, a, x), s)
           = At(c, s, Rec(f, pending, caching, SetNoted(cmd, pending), Append(ahead, n), current, released), S, w, m, g, x)
<1>1. PICK d : d = At(c, s, Rec(f, inWire, caching, cmd, ahead, current, released), S, w, m, a, x)
  OBVIOUS
<1>2. d.more = m /\ d.res[s].fetchSize = f /\ d.sets[s] = S
  BY <1>1, AtIs, RecIs
<1>3. Pending(d, s) = pending
  BY <1>2 DEF Pending
<1>4. PICK b : b = IF inWire /\ ~pending /\ f = 0 THEN Nobody ELSE a
  OBVIOUS
<1>5. PICK q : q = Rec(f, pending, caching, SetNoted(cmd, pending), Append(ahead, n), current, released)
  OBVIOUS
<1>6. PICK e : e = At(c, s, q, S, w, m, b, x)
  OBVIOUS
<1>7. AddResultSet(d, s, n, pending) = e
  BY ONLY <1>1, <1>4, <1>5, <1>6, AddResultSetAt, s \in Stmts, inWire \in BOOLEAN, caching \in BOOLEAN,
          a \in {s, Nobody}, pending \in BOOLEAN, caching => S[n].isEof
<1>8. e.active = b
  BY <1>6, AtIs
<1>9. g = IF pending THEN s ELSE b
  BY <1>4
<1>10. NoteSet(d, s) = [e EXCEPT !.active = g]
  BY ONLY <1>2, <1>3, <1>7, <1>8, <1>9, n = Len(S) DEF NoteSet
<1>11. [e EXCEPT !.active = g] = At(c, s, q, S, w, m, g, x)
  BY ONLY <1>6 DEF At
<1> QED
  BY ONLY <1>1, <1>5, <1>10, <1>11

(* readResultSet without a fetch size: the set has all its rows.                *)
LEMMA ReadResultSetAt ==
  ASSUME NEW c, NEW s, NEW inWire, NEW caching, NEW cmd, NEW ahead, NEW current, NEW released, NEW S,
         NEW w, NEW m, NEW a, NEW x, NEW more, NEW rows, NEW b, NEW n,
         s \in Stmts, inWire \in BOOLEAN, caching \in BOOLEAN, AllSets(S), a \in {s, Nobody},
         more \in BOOLEAN, more <=> w # <<>>, n = Len(S) + 1, rows \in Int,
         b = IF more THEN s ELSE IF inWire THEN Nobody ELSE a
  PROVE  ReadResultSet(At(c, s, Rec(0, inWire, caching, cmd, ahead, current, released), S, w, m, a, x), s, rows)
           = At(c, s, Rec(0, more, caching, SetNoted(cmd, more), Append(ahead, n), current, released),
                Append(S, NewSet(rows, 0)), w, more, b, x)
<1>0. PICK r : r = Rec(0, inWire, caching, cmd, ahead, current, released)
  OBVIOUS
<1>1. PICK d : d = At(c, s, r, S, w, m, a, x)
  OBVIOUS
<1>2. d.res[s].fetchSize = 0
  BY <1>0, <1>1, AtIs, RecIs
<1>3. PICK Q : Q = Append(S, NewSet(rows, 0))
  OBVIOUS
<1>4. n = Len(Q) /\ Q[n] = NewSet(rows, 0) /\ NewSet(rows, 0).isEof
  BY <1>3, SequenceOfSets, NewSetIs
<1>5. PICK e : e = At(c, s, r, Q, w, more, a, x)
  OBVIOUS
<1>6. MakeSet(d, s, rows, 0) = e
  BY ONLY <1>1, <1>3, <1>5, MakeSetAt, s \in Stmts, more \in BOOLEAN, more <=> w # <<>>
<1>7. ReadResultSet(d, s, rows) = NoteSet(e, s)
  BY <1>2, <1>6 DEF ReadResultSet
<1>8. more <=> more \/ 0 > 0
  OBVIOUS
<1>9. NoteSet(e, s) = At(c, s, Rec(0, more, caching, SetNoted(cmd, more), Append(ahead, n), current, released), Q, w, more, b, x)
  BY ONLY <1>0, <1>4, <1>5, <1>8, NoteSetAt, s \in Stmts, inWire \in BOOLEAN, caching \in BOOLEAN,
          a \in {s, Nobody}, more \in BOOLEAN, 0 \in Nat, b = IF more THEN s ELSE IF inWire THEN Nobody ELSE a
<1> QED
  BY ONLY <1>0, <1>1, <1>3, <1>7, <1>9

-----------------------------------------------------------------------------
(* An answer on the wire, and the ones after it.                                *)
First(w, p, v) == w # <<>> /\ p = Head(w) /\ v = Tail(w)

(* nextResult where there is one, for a statement without a fetch size.         *)
LEMMA ReadPacketIs ==
  ASSUME NEW c, NEW s, NEW r, NEW S, NEW w, NEW m, NEW a, NEW x, NEW v, NEW p,
         s \in Stmts, First(w, p, v)
  PROVE  /\ p = OkPart => ReadPacket(At(c, s, r, S, w, m, a, x), s) = ReadOkPacket(At(c, s, r, S, v, m, a, x), s)
         /\ p = ErrPart => ReadPacket(At(c, s, r, S, w, m, a, x), s) = ReadErrorPacket(At(c, s, r, S, v, m, a, x), s)
         /\ p # OkPart /\ p # ErrPart =>
              ReadPacket(At(c, s, r, S, w, m, a, x), s) = ReadResultSet(At(c, s, r, S, v, m, a, x), s, p)
<1>1. PICK b : b = At(c, s, r, S, w, m, a, x)
  OBVIOUS
<1>2. b.wire = w
  BY <1>1, AtIs
<1>3. PICK e : e = At(c, s, r, S, v, m, a, x)
  OBVIOUS
<1>4. [b EXCEPT !.wire = v] = e
  BY ONLY <1>1, <1>3 DEF At
<1>5. ReadPacket(b, s) = ReadPart(e, s, p)
  BY ONLY <1>2, <1>4, First(w, p, v) DEF ReadPacket, First
<1>6. /\ p = OkPart => ReadPart(e, s, p) = ReadOkPacket(e, s)
      /\ p = ErrPart => ReadPart(e, s, p) = ReadErrorPacket(e, s)
      /\ p # OkPart /\ p # ErrPart => ReadPart(e, s, p) = ReadResultSet(e, s, p)
  BY DEF ReadPart, OkPart, ErrPart
<1> QED
  BY ONLY <1>1, <1>3, <1>5, <1>6

(* readPacket meets an update count.                                            *)
LEMMA ReadOkAt ==
  ASSUME NEW c, NEW s, NEW inWire, NEW caching, NEW cmd, NEW ahead, NEW current, NEW released, NEW S,
         NEW w, NEW m, NEW a, NEW x, NEW v, NEW p, NEW more, NEW b, NEW n,
         s \in Stmts, inWire \in BOOLEAN, caching \in BOOLEAN, AllSets(S), a \in {s, Nobody}, First(w, p, v),
         more \in BOOLEAN, more <=> v # <<>>, p = OkPart, b = IF inWire /\ ~more THEN Nobody ELSE a
  PROVE  ReadPacket(At(c, s, Rec(0, inWire, caching, cmd, ahead, current, released), S, w, m, a, x), s)
           = At(c, s, Rec(0, more, caching, OkNoted(cmd, more), ahead, current, released), S, v, more, b, x)
<1>0. PICK r : r = Rec(0, inWire, caching, cmd, ahead, current, released)
  OBVIOUS
<1>1. PICK e : e = At(c, s, r, S, v, m, a, x)
  OBVIOUS
<1>2. ReadPacket(At(c, s, r, S, w, m, a, x), s) = ReadOkPacket(e, s)
  BY ONLY <1>1, ReadPacketIs, s \in Stmts, First(w, p, v), p = OkPart
<1>3. b = IF inWire /\ ~more /\ 0 = 0 THEN Nobody ELSE a
  OBVIOUS
<1> QED
  BY ONLY <1>0, <1>1, <1>2, <1>3, ReadOkPacketAt, s \in Stmts, inWire \in BOOLEAN, a \in {s, Nobody},
          more \in BOOLEAN, more <=> v # <<>>

(* readPacket meets an error.                                                   *)
LEMMA ReadErrorAt ==
  ASSUME NEW c, NEW s, NEW inWire, NEW caching, NEW cmd, NEW ahead, NEW current, NEW released, NEW S,
         NEW w, NEW m, NEW a, NEW x, NEW v, NEW p,
         s \in Stmts, inWire \in BOOLEAN, caching \in BOOLEAN, AllSets(S), a \in {s, Nobody}, First(w, p, v), p = ErrPart
  PROVE  ReadPacket(At(c, s, Rec(0, inWire, caching, cmd, ahead, current, released), S, w, m, a, x), s)
           = At(c, s, Rec(0, No, caching, ErrNoted(cmd), ahead, current, released), S, v, No, Nobody, Yes)
<1>0. PICK r : r = Rec(0, inWire, caching, cmd, ahead, current, released)
  OBVIOUS
<1>1. PICK e : e = At(c, s, r, S, v, m, a, x)
  OBVIOUS
<1>2. ReadPacket(At(c, s, r, S, w, m, a, x), s) = ReadErrorPacket(e, s)
  BY <1>1, ReadPacketIs
<1> QED
  BY ONLY <1>0, <1>1, <1>2, ReadErrorPacketAt, s \in Stmts, inWire \in BOOLEAN, a \in {s, Nobody}

(* readPacket meets a result set that is not streamed.                          *)
LEMMA ReadSetAt ==
  ASSUME NEW c, NEW s, NEW inWire, NEW caching, NEW cmd, NEW ahead, NEW current, NEW released, NEW S,
         NEW w, NEW m, NEW a, NEW x, NEW v, NEW p, NEW more, NEW b, NEW n,
         s \in Stmts, inWire \in BOOLEAN, caching \in BOOLEAN, AllSets(S), a \in {s, Nobody}, First(w, p, v),
         more \in BOOLEAN, more <=> v # <<>>, p \in Int, p # OkPart, p # ErrPart, n = Len(S) + 1,
         b = IF more THEN s ELSE IF inWire THEN Nobody ELSE a
  PROVE  ReadPacket(At(c, s, Rec(0, inWire, caching, cmd, ahead, current, released), S, w, m, a, x), s)
           = At(c, s, Rec(0, more, caching, SetNoted(cmd, more), Append(ahead, n), current, released),
                Append(S, NewSet(p, 0)), v, more, b, x)
<1>0. PICK r : r = Rec(0, inWire, caching, cmd, ahead, current, released)
  OBVIOUS
<1>1. PICK e : e = At(c, s, r, S, v, m, a, x)
  OBVIOUS
<1>2. ReadPacket(At(c, s, r, S, w, m, a, x), s) = ReadResultSet(e, s, p)
  BY <1>1, ReadPacketIs
<1> QED
  BY ONLY <1>0, <1>1, <1>2, ReadResultSetAt, s \in Stmts, inWire \in BOOLEAN, caching \in BOOLEAN, AllSets(S), a \in {s, Nobody},
          more \in BOOLEAN, more <=> v # <<>>, p \in Int, n = Len(S) + 1, b = IF more THEN s ELSE IF inWire THEN Nobody ELSE a

(* moveToNextResult does nothing unless the next answer is an error.            *)
LEMMA NextResultIs ==
  ASSUME NEW c, NEW s, NEW r, NEW S, NEW w, NEW m, NEW a, NEW x, NEW v, NEW p,
         s \in Stmts, First(w, p, v), p # ErrPart
  PROVE  NextResult(At(c, s, r, S, w, m, a, x), s) = ReadPacket(At(c, s, r, S, w, m, a, x), s)
<1>1. PICK b : b = At(c, s, r, S, w, m, a, x)
  OBVIOUS
<1>2. b.wire = w
  BY <1>1, AtIs
<1>3. MoveToNextResult(b, s) = b
  BY ONLY <1>2, First(w, p, v), p # ErrPart DEF MoveToNextResult, First
<1>4. NextResult(b, s) = ReadPacket(b, s)
  BY ONLY <1>2, <1>3, First(w, p, v) DEF NextResult, First
<1> QED
  BY ONLY <1>1, <1>4

(* getResult of an update count.                                                *)
LEMMA NextOkAt ==
  ASSUME NEW c, NEW s, NEW caching, NEW cmd, NEW ahead, NEW current, NEW released, NEW S,
         NEW w, NEW m, NEW a, NEW v, NEW p, NEW more, NEW b, NEW n,
         s \in Stmts, caching \in BOOLEAN, AllSets(S), a \in {s, Nobody}, First(w, p, v),
         more \in BOOLEAN, more <=> v # <<>>, p = OkPart, b = IF ~more THEN Nobody ELSE a
  PROVE  NextResult(At(c, s, Rec(0, Yes, caching, cmd, ahead, current, released), S, w, m, a, No), s)
           = At(c, s, Rec(0, more, caching, OkNoted(cmd, more), ahead, current, released), S, v, more, b, No)
<1>1. PICK e : e = At(c, s, Rec(0, Yes, caching, cmd, ahead, current, released), S, w, m, a, No)
  OBVIOUS
<1>2. p # ErrPart
  BY DEF OkPart, ErrPart
<1>3. NextResult(e, s) = ReadPacket(e, s)
  BY <1>1, <1>2, NextResultIs
<1>4. b = IF Yes /\ ~more THEN Nobody ELSE a
  BY YesNo
<1> QED
  BY ONLY <1>1, <1>3, <1>4, ReadOkAt, Booleans, s \in Stmts, caching \in BOOLEAN, AllSets(S), a \in {s, Nobody}, First(w, p, v), more \in BOOLEAN, more <=> v # <<>>, p = OkPart

(* getResult of a result set.                                                   *)
LEMMA NextSetAt ==
  ASSUME NEW c, NEW s, NEW caching, NEW cmd, NEW ahead, NEW current, NEW released, NEW S,
         NEW w, NEW m, NEW a, NEW v, NEW p, NEW more, NEW b, NEW n,
         s \in Stmts, caching \in BOOLEAN, AllSets(S), a \in {s, Nobody}, First(w, p, v),
         more \in BOOLEAN, more <=> v # <<>>, p \in Int, p # OkPart, p # ErrPart, n = Len(S) + 1,
         b = IF more THEN s ELSE Nobody
  PROVE  NextResult(At(c, s, Rec(0, Yes, caching, cmd, ahead, current, released), S, w, m, a, No), s)
           = At(c, s, Rec(0, more, caching, SetNoted(cmd, more), Append(ahead, n), current, released),
                Append(S, NewSet(p, 0)), v, more, b, No)
<1>1. PICK e : e = At(c, s, Rec(0, Yes, caching, cmd, ahead, current, released), S, w, m, a, No)
  OBVIOUS
<1>2. p # ErrPart
  OBVIOUS
<1>3. NextResult(e, s) = ReadPacket(e, s)
  BY <1>1, <1>2, NextResultIs
<1>4. b = IF more THEN s ELSE IF Yes THEN Nobody ELSE a
  BY YesNo
<1> QED
  BY ONLY <1>1, <1>3, <1>4, ReadSetAt, Booleans, s \in Stmts, caching \in BOOLEAN, AllSets(S), a \in {s, Nobody}, First(w, p, v), more \in BOOLEAN, more <=> v # <<>>, p \in Int, p # OkPart, p # ErrPart, n = Len(S) + 1

(* getResult of an error, which both it and moveToNextResult note.              *)
LEMMA NextErrorAt ==
  ASSUME NEW c, NEW s, NEW caching, NEW cmd, NEW ahead, NEW current, NEW released, NEW S,
         NEW w, NEW m, NEW a, NEW v, NEW p,
         s \in Stmts, caching \in BOOLEAN, AllSets(S), a \in {s, Nobody}, First(w, p, v), p = ErrPart
  PROVE  NextResult(At(c, s, Rec(0, Yes, caching, cmd, ahead, current, released), S, w, m, a, No), s)
           = At(c, s, Rec(0, No, caching, ErrNoted(ErrNoted(cmd)), ahead, current, released), S, v, No, Nobody, Yes)
<1>1. PICK e : e = At(c, s, Rec(0, Yes, caching, cmd, ahead, current, released), S, w, m, a, No)
  OBVIOUS
<1>2. e.wire = w
  BY <1>1, AtIs
<1>3. PICK q : q = Rec(0, No, caching, ErrNoted(cmd), ahead, current, released)
  OBVIOUS
<1>4. PICK h : h = At(c, s, q, S, w, No, Nobody, Yes)
  OBVIOUS
<1>5. ReadErrorPacket(e, s) = h
  BY ONLY <1>1, <1>3, <1>4, ReadErrorPacketAt, Booleans, s \in Stmts, a \in {s, Nobody}
<1>6. PICK g : g = At(c, s, q, S, w, No, Nobody, No)
  OBVIOUS
<1>7. [h EXCEPT !.raised = FALSE] = g
  <2>1. [h EXCEPT !.raised = No] = g
    BY ONLY <1>4, <1>6 DEF At
  <2> QED
    BY ONLY <2>1 DEF No
<1>8. MoveToNextResult(e, s) = g
  BY ONLY <1>2, <1>5, <1>7, First(w, p, v), p = ErrPart DEF MoveToNextResult, First
<1>9. NextResult(e, s) = ReadPacket(g, s)
  BY ONLY <1>2, <1>8, First(w, p, v) DEF NextResult, First
<1>10. ReadPacket(g, s) = At(c, s, Rec(0, No, caching, ErrNoted(ErrNoted(cmd)), ahead, current, released), S, v, No, Nobody, Yes)
  BY ONLY <1>3, <1>6, ReadErrorAt, Booleans, s \in Stmts, caching \in BOOLEAN, AllSets(S), Nobody \in {s, Nobody}, First(w, p, v), p = ErrPart
<1> QED
  BY ONLY <1>1, <1>9, <1>10

-----------------------------------------------------------------------------
(* The rows of a stream: it is the only set of its statement, and nothing else  *)
(* is on the wire.                                                              *)
Fetched(e) == [left |-> e.left - e.fetchSize, isEof |-> e.isEof, isClosed |-> e.isClosed, fetchSize |-> e.fetchSize]
Drained(e) == [left |-> 0, isEof |-> Yes, isClosed |-> e.isClosed, fetchSize |-> e.fetchSize]
Shut(e) == [left |-> e.left, isEof |-> e.isEof, isClosed |-> Yes, fetchSize |-> e.fetchSize]
Changed(S, k, e) == [S EXCEPT ![k] = e]

(* A batch of rows fetched, the rest read, the result set closed.               *)
LEMMA SetChanges ==
  ASSUME NEW e, IsSet(e)
  PROVE  /\ IsSet(Fetched(e)) /\ Fetched(e).isEof = e.isEof
         /\ IsSet(Drained(e)) /\ Drained(e).isEof = Yes
         /\ IsSet(Shut(e)) /\ Shut(e).isEof = e.isEof /\ Shut(e).isClosed = Yes
<1>1. e.left \in Int /\ e.isEof \in BOOLEAN /\ e.isClosed \in BOOLEAN /\ e.fetchSize \in Nat
  BY SetIs
<1>2. PICK l, f, o, z : l = e.left /\ f = e.fetchSize /\ o = e.isEof /\ z = e.isClosed
  OBVIOUS
<1>3. l \in Int /\ f \in Nat /\ o \in BOOLEAN /\ z \in BOOLEAN /\ l - f \in Int /\ 0 \in Int
  BY <1>1, <1>2
<1>4. /\ Fetched(e) = [left |-> l - f, isEof |-> o, isClosed |-> z, fetchSize |-> f]
      /\ Drained(e) = [left |-> 0, isEof |-> Yes, isClosed |-> z, fetchSize |-> f]
      /\ Shut(e) = [left |-> l, isEof |-> o, isClosed |-> Yes, fetchSize |-> f]
  BY <1>2 DEF Fetched, Drained, Shut
<1>5. IsSet(Fetched(e)) /\ Fetched(e).isEof = o
  BY ONLY <1>3, <1>4 DEF IsSet, SetRecords
<1>6. IsSet(Drained(e)) /\ Drained(e).isEof = Yes
  BY ONLY <1>3, <1>4, Booleans DEF IsSet, SetRecords
<1>7. IsSet(Shut(e)) /\ Shut(e).isEof = o /\ Shut(e).isClosed = Yes
  BY ONLY <1>3, <1>4, Booleans DEF IsSet, SetRecords
<1> QED
  BY <1>2, <1>5, <1>6, <1>7

(* A member of a sequence of result sets.                                       *)
LEMMA OneOf ==
  ASSUME NEW S, NEW k, AllSets(S), k \in 1..Len(S)
  PROVE  IsSet(S[k]) /\ DOMAIN S = 1..Len(S) /\ Len(S) \in Nat
BY DEF AllSets, IsSet

(* One result set changes.                                                      *)
LEMMA ChangedIs ==
  ASSUME NEW S, NEW k, NEW e, NEW Q,
         AllSets(S), k \in 1..Len(S), IsSet(e), Q = Changed(S, k, e)
  PROVE  /\ AllSets(Q) /\ Len(Q) = Len(S) /\ Q[k] = e /\ \A j \in 1..Len(S) : j # k => Q[j] = S[j]
         /\ DOMAIN Q = 1..Len(S)
BY DEF Changed, AllSets, IsSet

(* The end of a stream: the connection is free.                                 *)
LEMMA EndOfRowsAt ==
  ASSUME NEW c, NEW s, NEW f, NEW inWire, NEW caching, NEW cmd, NEW ahead, NEW current, NEW released,
         NEW S, NEW k, NEW m, NEW x,
         s \in Stmts, AllSets(S), k \in 1..Len(S)
  PROVE  EndOfRows(At(c, s, Rec(f, inWire, caching, cmd, ahead, current, released), S, <<>>, m, s, x), s, k)
           = At(c, s, Rec(0, inWire, caching, cmd, ahead, current, released), Changed(S, k, Drained(S[k])), <<>>, No, Nobody, x)
<1>0. PICK r : r = Rec(f, inWire, caching, cmd, ahead, current, released)
  OBVIOUS
<1>1. PICK d : d = At(c, s, r, S, <<>>, m, s, x)
  OBVIOUS
<1>2. d.wire = <<>> /\ d.sets[s] = S
  BY <1>1, AtIs
<1>3. /\ S[k] = [left |-> S[k].left, isEof |-> S[k].isEof, isClosed |-> S[k].isClosed, fetchSize |-> S[k].fetchSize]
      /\ DOMAIN S = 1..Len(S)
  BY OneOf, SetIs
<1>4. PICK Q : Q = Changed(S, k, Drained(S[k]))
  OBVIOUS
<1>5. PICK P : P = [S EXCEPT ![k].isEof = Yes]
  OBVIOUS
<1>6. P[k] = [left |-> S[k].left, isEof |-> Yes, isClosed |-> S[k].isClosed, fetchSize |-> S[k].fetchSize]
  BY ONLY <1>3, <1>5, k \in 1..Len(S)
<1>7. [P EXCEPT ![k].left = 0] = Q
  <2>1. [P[k] EXCEPT !.left = 0] = Drained(S[k])
    BY <1>6 DEF Drained
  <2>2. [P EXCEPT ![k] = Drained(S[k])] = Q
    BY <1>4, <1>5 DEF Changed
  <2> QED
    BY ONLY <2>1, <2>2
<1>8. PICK g : g = PutSets(d, s, P)
  OBVIOUS
<1>9. g = At(c, s, r, P, <<>>, m, s, x)
  BY <1>1, <1>8, PutAt
<1>10. g.sets[s] = P
  BY <1>9, AtIs
<1>11. PICK h : h = PutSets(g, s, Q)
  OBVIOUS
<1>12. h = At(c, s, r, Q, <<>>, m, s, x)
  BY <1>9, <1>11, PutAt
<1>13. [d EXCEPT !.sets[s][k].isEof = TRUE] = g
  BY ONLY <1>2, <1>5, <1>8 DEF PutSets, Yes
<1>14. [g EXCEPT !.sets[s][k].left = 0] = h
  BY ONLY <1>7, <1>10, <1>11 DEF PutSets
<1>15. PICK e : e = At(c, s, r, Q, <<>>, No, s, x)
  OBVIOUS
<1>16. [h EXCEPT !.more = FALSE] = e
  <2>1. [h EXCEPT !.more = No] = e
    BY <1>12, <1>15 DEF At
  <2> QED
    BY ONLY <2>1 DEF No
<1>17. [d EXCEPT !.sets[s][k].isEof = TRUE, !.sets[s][k].left = 0, !.more = d.wire # <<>>] = e
  BY ONLY <1>2, <1>13, <1>14, <1>16
<1>18. e.more = FALSE
  BY <1>15, AtIs, YesNo
<1>19. EndOfRows(d, s, k) = RemoveActive(e)
  BY ONLY <1>17, <1>18 DEF EndOfRows
<1> QED
  BY <1>0, <1>1, <1>4, <1>15, <1>19, RemoveActiveAt

(* fetchRemaining, of a set that is read and of one that is not.                *)
LEMMA ReadRestAt ==
  ASSUME NEW c, NEW s, NEW f, NEW inWire, NEW caching, NEW cmd, NEW ahead, NEW current, NEW released,
         NEW S, NEW k, NEW w, NEW m, NEW a, NEW x,
         s \in Stmts, AllSets(S), k \in 1..Len(S)
  PROVE  /\ S[k].isEof =>
              ReadRest(At(c, s, Rec(f, inWire, caching, cmd, ahead, current, released), S, w, m, a, x), s, k)
                = At(c, s, Rec(f, inWire, caching, cmd, ahead, current, released), S, w, m, a, x)
         /\ ~S[k].isEof /\ w = <<>> /\ a = s =>
              ReadRest(At(c, s, Rec(f, inWire, caching, cmd, ahead, current, released), S, w, m, a, x), s, k)
                = At(c, s, Rec(0, inWire, caching, cmd, ahead, current, released), Changed(S, k, Drained(S[k])), <<>>, No, Nobody, x)
<1>1. PICK d : d = At(c, s, Rec(f, inWire, caching, cmd, ahead, current, released), S, w, m, a, x)
  OBVIOUS
<1>2. d.sets[s] = S
  BY <1>1, AtIs
<1>3. S[k].isEof => ReadRest(d, s, k) = d
  BY <1>2 DEF ReadRest
<1>4. ~S[k].isEof => ReadRest(d, s, k) = EndOfRows(d, s, k)
  BY <1>2 DEF ReadRest
<1> QED
  BY <1>1, <1>3, <1>4, EndOfRowsAt

Closing(d, s, k) == [d EXCEPT !.sets[s][k].isClosed = TRUE, !.res[s].released = IF @ = k THEN 0 ELSE @]

(* The end of realClose.                                                        *)
LEMMA CloseEnds ==
  ASSUME NEW c, NEW s, NEW f, NEW inWire, NEW caching, NEW cmd, NEW ahead, NEW current, NEW released,
         NEW S, NEW k, NEW w, NEW m, NEW a, NEW x, NEW d,
         s \in Stmts, AllSets(S), k \in 1..Len(S),
         d = At(c, s, Rec(f, inWire, caching, cmd, ahead, current, released), S, w, m, a, x)
  PROVE  Closing(d, s, k)
           = At(c, s, Rec(f, inWire, caching, cmd, ahead, current, IF released = k THEN 0 ELSE released),
                Changed(S, k, Shut(S[k])), w, m, a, x)
<1>0. PICK r : r = Rec(f, inWire, caching, cmd, ahead, current, released)
  OBVIOUS
<1>2. d.sets[s] = S
  BY <1>0, AtIs
<1>3. /\ S[k] = [left |-> S[k].left, isEof |-> S[k].isEof, isClosed |-> S[k].isClosed, fetchSize |-> S[k].fetchSize]
      /\ DOMAIN S = 1..Len(S)
  BY OneOf, SetIs
<1>4. PICK Q : Q = Changed(S, k, Shut(S[k]))
  OBVIOUS
<1>5. [S EXCEPT ![k].isClosed = TRUE] = Q
  <2>0. [S[k] EXCEPT !.isClosed = Yes] = Shut(S[k])
    BY ONLY <1>3 DEF Shut
  <2>1. [S[k] EXCEPT !.isClosed = TRUE] = Shut(S[k])
    BY ONLY <2>0 DEF Yes
  <2> QED
    BY ONLY <1>4, <2>1 DEF Changed
<1>6. PICK g : g = PutSets(d, s, Q)
  OBVIOUS
<1>7. g = At(c, s, r, Q, w, m, a, x)
  BY <1>0, <1>6, PutAt
<1>8. g.res[s] = r /\ r.released = released
  BY <1>0, <1>7, AtIs, RecIs
<1>9. PICK left : left = IF released = k THEN 0 ELSE released
  OBVIOUS
<1>10. PICK q : q = Rec(f, inWire, caching, cmd, ahead, current, left)
  OBVIOUS
<1>11. [r EXCEPT !.released = left] = q
  BY <1>0, <1>10 DEF Rec
<1>12. [d EXCEPT !.sets[s][k].isClosed = TRUE] = g
  BY ONLY <1>2, <1>5, <1>6 DEF PutSets
<1>13. [g EXCEPT !.res[s].released = IF @ = k THEN 0 ELSE @] = PutRes(g, s, q)
  BY ONLY <1>8, <1>9, <1>11 DEF PutRes
<1>14. PutRes(g, s, q) = At(c, s, q, Q, w, m, a, x)
  BY ONLY <1>7, PutAt, s \in Stmts
<1>15. Closing(d, s, k)
         = [g EXCEPT !.res[s].released = IF @ = k THEN 0 ELSE @]
  BY ONLY <1>12 DEF Closing
<1> QED
  BY ONLY <1>4, <1>9, <1>10, <1>13, <1>14, <1>15

(* realClose: an unread stream is read first, which takes the mutex.            *)
LEMMA CloseSetAt ==
  ASSUME NEW c, NEW s, NEW f, NEW inWire, NEW caching, NEW cmd, NEW ahead, NEW current, NEW released,
         NEW S, NEW k, NEW w, NEW m, NEW a, NEW x, NEW locked, NEW left,
         s \in Stmts, AllSets(S), k \in 1..Len(S), locked \in BOOLEAN,
         left = IF released = k THEN 0 ELSE released
  PROVE  /\ S[k].isEof =>
              CloseSet(At(c, s, Rec(f, inWire, caching, cmd, ahead, current, released), S, w, m, a, x), s, k, locked)
                = At(c, s, Rec(f, inWire, caching, cmd, ahead, current, left), Changed(S, k, Shut(S[k])), w, m, a, x)
         /\ ~S[k].isEof /\ w = <<>> /\ a = s /\ ~locked =>
              CloseSet(At(c, s, Rec(f, inWire, caching, cmd, ahead, current, released), S, w, m, a, x), s, k, locked)
                = At(c, s, Rec(0, inWire, caching, cmd, ahead, current, left),
                     Changed(Changed(S, k, Drained(S[k])), k, Shut(Drained(S[k]))), <<>>, No, Nobody, x)
<1>1. PICK b : b = At(c, s, Rec(f, inWire, caching, cmd, ahead, current, released), S, w, m, a, x)
  OBVIOUS
<1>2. b.sets[s] = S
  BY <1>1, AtIs
<1>3. PICK d : d = ReadRest(b, s, k)
  OBVIOUS
<1>4. ~(locked /\ ~S[k].isEof) =>
        CloseSet(b, s, k, locked) = Closing(d, s, k)
  BY ONLY <1>2, <1>3 DEF CloseSet, Closing
<1>5. ASSUME S[k].isEof
      PROVE  CloseSet(b, s, k, locked)
               = At(c, s, Rec(f, inWire, caching, cmd, ahead, current, left), Changed(S, k, Shut(S[k])), w, m, a, x)
  <2>1. d = b
    BY <1>1, <1>3, <1>5, ReadRestAt
  <2>2. Closing(d, s, k)
          = At(c, s, Rec(f, inWire, caching, cmd, ahead, current, left), Changed(S, k, Shut(S[k])), w, m, a, x)
    BY <1>1, <2>1, CloseEnds
  <2> QED
    BY ONLY <1>4, <1>5, <2>2
<1>6. ASSUME ~S[k].isEof, w = <<>>, a = s, ~locked
      PROVE  CloseSet(b, s, k, locked)
               = At(c, s, Rec(0, inWire, caching, cmd, ahead, current, left),
                    Changed(Changed(S, k, Drained(S[k])), k, Shut(Drained(S[k]))), <<>>, No, Nobody, x)
  <2>1. PICK Q : Q = Changed(S, k, Drained(S[k]))
    OBVIOUS
  <2>2. d = At(c, s, Rec(0, inWire, caching, cmd, ahead, current, released), Q, <<>>, No, Nobody, x)
    BY <1>1, <1>3, <1>6, <2>1, ReadRestAt
  <2>3. IsSet(S[k])
    BY OneOf
  <2>4. IsSet(Drained(S[k]))
    BY <2>3, SetChanges
  <2>5. AllSets(Q) /\ Len(Q) = Len(S) /\ Q[k] = Drained(S[k])
    BY <2>1, <2>4, ChangedIs
  <2>6. Closing(d, s, k)
          = At(c, s, Rec(0, inWire, caching, cmd, ahead, current, left), Changed(Q, k, Shut(Q[k])), <<>>, No, Nobody, x)
    BY <2>2, <2>5, CloseEnds
  <2> QED
    BY ONLY <1>4, <1>6, <2>1, <2>5, <2>6
<1> QED
  BY <1>1, <1>5, <1>6

(* A stream's next rows.                                                        *)
LEMMA AddStreamingRowAt ==
  ASSUME NEW c, NEW s, NEW f, NEW inWire, NEW caching, NEW cmd, NEW ahead, NEW current, NEW released,
         NEW S, NEW k, NEW m, NEW x, NEW d,
         s \in Stmts, AllSets(S), k \in 1..Len(S),
         d = AddStreamingRow(At(c, s, Rec(f, inWire, caching, cmd, ahead, current, released), S, <<>>, m, s, x), s, k)
  PROVE  /\ S[k].left >= S[k].fetchSize =>
              d = At(c, s, Rec(f, inWire, caching, cmd, ahead, current, released), Changed(S, k, Fetched(S[k])), <<>>, m, s, x)
         /\ ~(S[k].left >= S[k].fetchSize) =>
              d = At(c, s, Rec(0, inWire, caching, cmd, ahead, current, released), Changed(S, k, Drained(S[k])), <<>>, No, Nobody, x)
<1>0. PICK r : r = Rec(f, inWire, caching, cmd, ahead, current, released)
  OBVIOUS
<1>1. PICK b : b = At(c, s, r, S, <<>>, m, s, x)
  OBVIOUS
<1>2. b.sets[s] = S
  BY <1>1, AtIs
<1>3. /\ S[k] = [left |-> S[k].left, isEof |-> S[k].isEof, isClosed |-> S[k].isClosed, fetchSize |-> S[k].fetchSize]
      /\ DOMAIN S = 1..Len(S)
  BY OneOf, SetIs
<1>4. ASSUME S[k].left >= S[k].fetchSize
      PROVE  d = At(c, s, r, Changed(S, k, Fetched(S[k])), <<>>, m, s, x)
  <2>1. PICK Q : Q = Changed(S, k, Fetched(S[k]))
    OBVIOUS
  <2>2. [S EXCEPT ![k].left = @ - S[k].fetchSize] = Q
    <3>1. [S[k] EXCEPT !.left = @ - S[k].fetchSize] = Fetched(S[k])
      BY ONLY <1>3 DEF Fetched
    <3> QED
      BY ONLY <2>1, <3>1 DEF Changed
  <2>3. d = [b EXCEPT !.sets[s][k].left = @ - S[k].fetchSize]
    BY <1>0, <1>1, <1>2, <1>4 DEF AddStreamingRow
  <2>4. [b EXCEPT !.sets[s][k].left = @ - S[k].fetchSize] = PutSets(b, s, Q)
    BY ONLY <1>2, <2>2 DEF PutSets
  <2> QED
    BY ONLY <1>1, <2>1, <2>3, <2>4, PutAt, s \in Stmts
<1>5. ASSUME ~(S[k].left >= S[k].fetchSize) PROVE d = EndOfRows(b, s, k)
  BY <1>0, <1>1, <1>2, <1>5 DEF AddStreamingRow
<1> QED
  BY <1>0, <1>1, <1>4, <1>5, EndOfRowsAt

(* The first result set of a command with a fetch size.                         *)
LEMMA StreamBegins ==
  ASSUME NEW c, NEW s, NEW f, NEW m, NEW rows, NEW d,
         s \in Stmts, f \in Nat, f > 0, rows \in Int,
         d = ReadResultSet(At(c, s, Rec(f, No, No, NoInformation, <<>>, 0, 0), <<>>, <<>>, m, Nobody, No), s, rows)
  PROVE  \E e : /\ IsSet(e)
                /\ \/ /\ ~e.isEof
                      /\ d = At(c, s, Rec(f, Yes, No, SetNoted(NoInformation, Yes), <<1>>, 0, 0), <<e>>, <<>>, No, s, No)
                   \/ /\ e.isEof
                      /\ d = At(c, s, Rec(0, No, No, SetNoted(NoInformation, No), <<1>>, 0, 0), <<e>>, <<>>, No, Nobody, No)
<1>0. PICK r : r = Rec(f, No, No, NoInformation, <<>>, 0, 0)
  OBVIOUS
<1>1. PICK b : b = At(c, s, r, <<>>, <<>>, m, Nobody, No)
  OBVIOUS
<1>2. b.res[s].fetchSize = f /\ b.sets[s] = <<>>
  BY <1>0, <1>1, AtIs, RecIs
<1>3. PICK n : n = NewSet(rows, f)
  OBVIOUS
<1>4. IsSet(n) /\ ~n.isEof
  BY <1>3, NewSetIs
<1>5. PICK S : S = <<n>>
  OBVIOUS
<1>6. AllSets(S) /\ Len(S) = 1 /\ S[1] = n /\ Append(<<>>, n) = S
  BY <1>4, <1>5 DEF AllSets, IsSet
<1>7. MakeSet(b, s, rows, f) = At(c, s, r, S, <<>>, No, s, No)
  <2>1. PICK w, o : w = <<>> /\ o = <<>>
    OBVIOUS
  <2>a. PICK g : g = IF f = 0 THEN Nobody ELSE s
    OBVIOUS
  <2>b. g = s
    BY <2>a
  <2>2. No <=> w # <<>> /\ f = 0
    BY <2>1, YesNo
  <2>3. b = At(c, s, r, o, w, m, Nobody, No)
    BY <1>1, <2>1
  <2>5. Append(o, n) = S
    BY <1>6, <2>1
  <2>4. MakeSet(b, s, rows, f) = At(c, s, r, Append(o, n), w, No, g, No)
    BY ONLY <1>3, <2>a, <2>2, <2>3, MakeSetAt, Booleans, s \in Stmts
  <2> QED
    BY ONLY <2>1, <2>4, <2>5, <2>b
<1>8. PICK g : g = At(c, s, r, S, <<>>, No, s, No)
  OBVIOUS
<1>9. PICK h : h = AddStreamingRow(g, s, 1)
  OBVIOUS
<1>10. d = NoteSet(h, s)
  BY <1>0, <1>1, <1>2, <1>7, <1>8, <1>9 DEF ReadResultSet
<1>a. PICK o, w : o = <<>> /\ w = <<>>
  OBVIOUS
<1>11. \A e : Changed(S, 1, e) = <<e>>
  BY <1>5 DEF Changed
<1>12. s \in {s, Nobody} /\ Nobody \in {s, Nobody} /\ f \in Nat /\ 0 \in Nat
  OBVIOUS
<1>b. Append(o, 1) = <<1>>
  BY <1>a
<1>13. CASE n.left >= n.fetchSize
  <2>1. PICK e : e = Fetched(n)
    OBVIOUS
  <2>2. IsSet(e) /\ ~e.isEof
    BY <1>4, <2>1, SetChanges
  <2>3. h = At(c, s, r, <<e>>, <<>>, No, s, No)
    BY <1>0, <1>6, <1>8, <1>9, <1>11, <1>13, <2>1, AddStreamingRowAt
  <2>a. PICK Q : Q = <<e>>
    OBVIOUS
  <2>b. h = At(c, s, Rec(f, No, No, NoInformation, o, 0, 0), Q, w, No, s, No)
    BY <1>0, <1>a, <2>3, <2>a
  <2>d. PICK l \in Nat : l = Len(Q)
    BY <2>a
  <2>e. l = 1
    BY <2>a, <2>d
  <2>4. (Yes <=> No \/ f > 0) /\ (No => Q[l].isEof)
    BY YesNo, <2>a
  <2>c. PICK u : u = IF Yes THEN s ELSE IF No THEN Nobody ELSE s
    OBVIOUS
  <2>5. d = At(c, s, Rec(f, Yes, No, SetNoted(NoInformation, Yes), Append(o, l), 0, 0), Q, w, No, u, No)
    BY ONLY <1>10, <1>12, <2>b, <2>c, <2>d, <2>4, NoteSetAt, Booleans, s \in Stmts
  <2>6. u = s
    BY <2>c, YesNo
  <2> QED
    BY <1>a, <1>b, <2>2, <2>a, <2>e, <2>5, <2>6
<1>14. CASE ~(n.left >= n.fetchSize)
  <2>1. PICK e : e = Drained(n)
    OBVIOUS
  <2>2. IsSet(e) /\ e.isEof
    BY <1>4, <2>1, SetChanges, YesNo
  <2>3. h = At(c, s, Rec(0, No, No, NoInformation, <<>>, 0, 0), <<e>>, <<>>, No, Nobody, No)
    BY <1>0, <1>6, <1>8, <1>9, <1>11, <1>14, <2>1, AddStreamingRowAt
  <2>a. PICK Q, z : Q = <<e>> /\ z = 0
    OBVIOUS
  <2>b. h = At(c, s, Rec(z, No, No, NoInformation, o, 0, 0), Q, w, No, Nobody, No)
    BY <1>a, <2>3, <2>a
  <2>d. PICK l \in Nat : l = Len(Q)
    BY <2>a
  <2>e. l = 1
    BY <2>a, <2>d
  <2>4. (No <=> No \/ z > 0) /\ (No => Q[l].isEof) /\ z \in Nat
    BY YesNo, <2>a
  <2>c. PICK u : u = IF No THEN s ELSE IF No THEN Nobody ELSE Nobody
    OBVIOUS
  <2>5. d = At(c, s, Rec(z, No, No, SetNoted(NoInformation, No), Append(o, l), 0, 0), Q, w, No, u, No)
    BY ONLY <1>10, <1>12, <2>b, <2>c, <2>d, <2>4, NoteSetAt, Booleans, s \in Stmts
  <2>6. u = Nobody
    BY <2>c, YesNo
  <2> QED
    BY <1>a, <1>b, <2>2, <2>a, <2>e, <2>5, <2>6
<1> QED
  BY <1>13, <1>14

-----------------------------------------------------------------------------
(* Information of several answers, and of one.                                  *)
Information(kind, counts, ids, idx, failed, expected, rewritten) ==
  [kind |-> kind, counts |-> counts, ids |-> ids, idx |-> idx,
   failed |-> failed, expected |-> expected, rewritten |-> rewritten]
IsInformation(i, kind) ==
  \E ids, failed, expected, rewritten : i = Information(kind, i.counts, ids, i.idx, failed, expected, rewritten)
IsList(i) == IsInformation(i, "multiple") /\ i.counts \in Seq(Int) /\ i.idx \in Nat
IsSingle(i) == IsInformation(i, "single") /\ i.counts \in Seq(Int) /\ Len(i.counts) = 1

(* The fields of a command's information.                                       *)
LEMMA InformationIs ==
  ASSUME NEW i, NEW kind, NEW counts, NEW ids, NEW idx, NEW failed, NEW expected, NEW rewritten,
         i = Information(kind, counts, ids, idx, failed, expected, rewritten)
  PROVE  i.kind = kind /\ i.counts = counts /\ i.ids = ids /\ i.idx = idx /\ IsInformation(i, kind)
<1>1. i.kind = kind /\ i.counts = counts /\ i.ids = ids /\ i.idx = idx
  BY DEF Information
<1>2. i = Information(kind, i.counts, ids, i.idx, failed, expected, rewritten)
  BY <1>1
<1> QED
  BY <1>1, <1>2 DEF IsInformation

(* A list and a record are told apart by their kind.                            *)
LEMMA KindIs ==
  /\ \A i : IsList(i) => i.kind = "multiple"
  /\ \A i : IsSingle(i) => i.kind = "single"
  /\ NoInformation.kind = "none"
BY InformationIs DEF IsList, IsSingle, IsInformation, NoInformation

(* Information that holds no answer yet.                                        *)
LEMMA NewInformationIs ==
  ASSUME NEW kind, NEW size
  PROVE  NewInformation(kind, size) = Information(kind, <<>>, <<>>, 0, No, size, No)
BY DEF NewInformation, Information, No

(* A record of one answer.                                                      *)
LEMMA SingleIs ==
  ASSUME NEW u, u \in Int
  PROVE  IsSingle(SingleInformation(0, u)) /\ SingleInformation(0, u).counts = <<u>>
<1>1. PICK a, b, o, z : a = <<u>> /\ b = <<0>> /\ o = <<>> /\ z = 0
  OBVIOUS
<1>2. PICK n : n = NewInformation("single", 1)
  OBVIOUS
<1>3. n = Information("single", o, o, z, No, 1, No)
  BY <1>1, <1>2, NewInformationIs
<1>4. PICK h : h = [n EXCEPT !.counts = a]
  OBVIOUS
<1>5. h = Information("single", a, o, z, No, 1, No)
  BY ONLY <1>3, <1>4 DEF Information
<1>6. PICK i : i = [h EXCEPT !.ids = b]
  OBVIOUS
<1>7. i = Information("single", a, b, z, No, 1, No)
  BY ONLY <1>5, <1>6 DEF Information
<1>8. SingleInformation(0, u) = i
  BY ONLY <1>1, <1>2, <1>4, <1>6 DEF SingleInformation
<1>9. i.counts = a /\ IsInformation(i, "single")
  BY <1>7, InformationIs
<1>10. a \in Seq(Int) /\ Len(a) = 1
  BY <1>1
<1> QED
  BY <1>1, <1>8, <1>9, <1>10 DEF IsSingle

(* A list's next answer.                                                        *)
LEMMA ListGrows ==
  ASSUME NEW i, IsList(i)
  PROVE  /\ IsList(AddSuccessStat(i, 1, 0)) /\ AddSuccessStat(i, 1, 0).idx = i.idx
         /\ AddSuccessStat(i, 1, 0).counts = Append(i.counts, 1)
         /\ IsList(AddErrorStat(i)) /\ AddErrorStat(i).idx = i.idx
         /\ AddErrorStat(i).counts = Append(i.counts, EXECUTE_FAILED)
         /\ IsList(AddResultSetStat(i)) /\ AddResultSetStat(i).idx = i.idx
         /\ AddResultSetStat(i).counts = Append(i.counts, RESULT_SET_VALUE)
<1>1. PICK ids, failed, expected, rewritten :
        i = Information("multiple", i.counts, ids, i.idx, failed, expected, rewritten)
  BY DEF IsList, IsInformation
<1>2. PICK ct, ix : ct = i.counts /\ ix = i.idx
  OBVIOUS
<1>3. i = Information("multiple", ct, ids, ix, failed, expected, rewritten) /\ ct \in Seq(Int) /\ ix \in Nat
  BY <1>1, <1>2 DEF IsList
<1>4. i.kind = "multiple" /\ i.ids = ids
  BY <1>3, InformationIs
<1>5. ASSUME NEW n, n \in Int, NEW more, more = Append(ct, n), NEW h, h = [i EXCEPT !.counts = more]
      PROVE  /\ h = Information("multiple", more, ids, ix, failed, expected, rewritten)
             /\ more \in Seq(Int)
  <2>1. h = Information("multiple", more, ids, ix, failed, expected, rewritten)
    BY ONLY <1>3, <1>5 DEF Information
  <2> QED
    BY <1>3, <1>5, <2>1
<1>6. ASSUME NEW j, NEW more, more \in Seq(Int), NEW a, NEW b, j = Information("multiple", more, a, ix, b, expected, rewritten)
      PROVE  IsList(j) /\ j.idx = ix /\ j.counts = more
  BY <1>3, <1>6, InformationIs DEF IsList
<1>7. PICK a, b, d, e : a = Append(ct, 1) /\ b = Append(ct, EXECUTE_FAILED) /\ d = Append(ct, RESULT_SET_VALUE) /\ e = Append(ids, 0)
  OBVIOUS
<1>8. PICK p, q, r : p = [i EXCEPT !.counts = a] /\ q = [i EXCEPT !.counts = b] /\ r = [i EXCEPT !.counts = d]
  OBVIOUS
<1>9. 1 \in Int /\ EXECUTE_FAILED \in Int /\ RESULT_SET_VALUE \in Int
  BY DEF EXECUTE_FAILED, RESULT_SET_VALUE
<1>10. /\ p = Information("multiple", a, ids, ix, failed, expected, rewritten) /\ a \in Seq(Int)
       /\ q = Information("multiple", b, ids, ix, failed, expected, rewritten) /\ b \in Seq(Int)
       /\ r = Information("multiple", d, ids, ix, failed, expected, rewritten) /\ d \in Seq(Int)
  BY <1>5, <1>7, <1>8, <1>9
<1>11. PICK k, l : k = [p EXCEPT !.ids = e] /\ l = [q EXCEPT !.failed = Yes]
  OBVIOUS
<1>12. k = Information("multiple", a, e, ix, failed, expected, rewritten)
  BY ONLY <1>10, <1>11 DEF Information
<1>13. l = Information("multiple", b, ids, ix, Yes, expected, rewritten)
  BY ONLY <1>10, <1>11 DEF Information
<1>14. p.ids = ids
  BY <1>10, InformationIs
<1>15. AddSuccessStat(i, 1, 0) = k
  BY ONLY <1>2, <1>4, <1>7, <1>8, <1>11, <1>14 DEF AddSuccessStat
<1>16. AddErrorStat(i) = l
  BY ONLY <1>2, <1>4, <1>7, <1>8, <1>11 DEF AddErrorStat, Yes
<1>17. AddResultSetStat(i) = r
  BY ONLY <1>2, <1>4, <1>7, <1>8 DEF AddResultSetStat
<1>18. IsList(k) /\ k.idx = ix /\ k.counts = a
  BY <1>6, <1>10, <1>12
<1>19. IsList(l) /\ l.idx = ix /\ l.counts = b
  BY <1>6, <1>10, <1>13
<1>20. IsList(r) /\ r.idx = ix /\ r.counts = d
  BY <1>6, <1>10
<1> QED
  BY <1>2, <1>7, <1>15, <1>16, <1>17, <1>18, <1>19, <1>20

(* A list grows by the answer that is noted.                                    *)
LEMMA NotedInList ==
  ASSUME NEW i, NEW more, IsList(i)
  PROVE  /\ IsList(OkNoted(i, more)) /\ OkNoted(i, more).idx = i.idx /\ OkNoted(i, more).counts = Append(i.counts, 1)
         /\ IsList(ErrNoted(i)) /\ ErrNoted(i).idx = i.idx /\ ErrNoted(i).counts = Append(i.counts, EXECUTE_FAILED)
         /\ IsList(SetNoted(i, more)) /\ SetNoted(i, more).idx = i.idx
         /\ SetNoted(i, more).counts = Append(i.counts, RESULT_SET_VALUE)
<1>1. i.kind = "multiple"
  BY KindIs
<1>2. Listed(i) = i
  BY <1>1 DEF Listed
<1>3. OkNoted(i, more) = AddSuccessStat(i, 1, 0) /\ ErrNoted(i) = AddErrorStat(i) /\ SetNoted(i, more) = AddResultSetStat(i)
  BY <1>1, <1>2 DEF OkNoted, ErrNoted, SetNoted
<1> QED
  BY <1>3, ListGrows

(* The first answer of a command.                                               *)
LEMMA NotedFirst ==
  /\ IsSingle(OkNoted(NoInformation, No)) /\ OkNoted(NoInformation, No).counts = <<1>>
  /\ IsSingle(SetNoted(NoInformation, No)) /\ SetNoted(NoInformation, No).counts = <<RESULT_SET_VALUE>>
  /\ IsList(OkNoted(NoInformation, Yes)) /\ OkNoted(NoInformation, Yes).counts = <<1>> /\ OkNoted(NoInformation, Yes).idx = 0
  /\ IsList(SetNoted(NoInformation, Yes)) /\ SetNoted(NoInformation, Yes).counts = <<RESULT_SET_VALUE>>
  /\ SetNoted(NoInformation, Yes).idx = 0
<1>1. NoInformation.kind = "none"
  BY KindIs
<1>2. /\ OkNoted(NoInformation, No) = SingleInformation(0, 1)
      /\ SetNoted(NoInformation, No) = SingleInformation(0, RESULT_SET_VALUE)
  BY <1>1, YesNo DEF OkNoted, SetNoted
<1>3. 1 \in Int /\ RESULT_SET_VALUE \in Int
  BY DEF RESULT_SET_VALUE
<1>4. PICK i : i = NewInformation("multiple", 1)
  OBVIOUS
<1>5. Listed(NoInformation) = i
  BY <1>1, <1>4 DEF Listed
<1>6. IsList(i) /\ i.counts = <<>> /\ i.idx = 0
  <2>1. PICK o, z : o = <<>> /\ z = 0
    OBVIOUS
  <2>2. i = Information("multiple", o, o, z, No, 1, No)
    BY <1>4, <2>1, NewInformationIs
  <2>3. i.counts = o /\ i.idx = z /\ IsInformation(i, "multiple")
    BY <2>2, InformationIs
  <2> QED
    BY <2>1, <2>3 DEF IsList
<1>7. OkNoted(NoInformation, Yes) = AddSuccessStat(i, 1, 0) /\ SetNoted(NoInformation, Yes) = AddResultSetStat(i)
  BY <1>5, YesNo DEF OkNoted, SetNoted
<1>8. Append(<<>>, 1) = <<1>> /\ Append(<<>>, RESULT_SET_VALUE) = <<RESULT_SET_VALUE>>
  OBVIOUS
<1>9. IsList(AddSuccessStat(i, 1, 0)) /\ AddSuccessStat(i, 1, 0).idx = 0 /\ AddSuccessStat(i, 1, 0).counts = <<1>>
  BY <1>6, <1>8, ListGrows
<1>10. IsList(AddResultSetStat(i)) /\ AddResultSetStat(i).idx = 0 /\ AddResultSetStat(i).counts = <<RESULT_SET_VALUE>>
  BY <1>6, <1>8, ListGrows
<1> QED
  BY <1>2, <1>3, <1>7, <1>9, <1>10, SingleIs

-----------------------------------------------------------------------------
(* The invariant.  Answer is what a part of an answer leaves in the counts of a *)
(* command's information; SetsAhead are the result sets among the counts that   *)
(* the application has still to come to.                                        *)
Answer(p) == CASE p = OkPart -> 1 [] p = ErrPart -> EXECUTE_FAILED [] OTHER -> RESULT_SET_VALUE
HasUnread(S) == \E k \in DOMAIN S : ~S[k].isEof
SetsAhead(i) == {n \in DOMAIN i.counts : n > i.idx + 1 /\ i.counts[n] = RESULT_SET_VALUE}

(* The counts are the answers read, an error that came last counted twice.      *)
CountsRight(i, script, rest) ==
  LET got == Len(script) - rest
  IN  /\ got >= 1
      /\ \A n \in 1..got : n \in DOMAIN i.counts /\ i.counts[n] = Answer(script[n])
      /\ \/ Len(i.counts) = got
         \/ Len(i.counts) = got + 1 /\ rest = 0 /\ script[got] = ErrPart /\ i.counts[got + 1] = EXECUTE_FAILED

(* The information stands at the answer shown last, or before it if that one    *)
(* was an error that was thrown.                                                *)
ShownRight(i, T) ==
  \/ Len(T.shown) = i.idx + 1
  \/ Len(T.shown) = i.idx + 2 /\ Len(T.shown) >= Len(T.script) /\ T.script[Len(T.script)] = ErrPart

InOrder(T) ==
  \A n \in DOMAIN T.shown :
    T.shown[n] \in IF n <= Len(T.script) THEN Shows(T.script[n])
                   ELSE IF T.script[Len(T.script)] = ErrPart THEN {"none", "failed"} ELSE {"none"}

Words == {"count", "set", "raised", "failed", "none"}
Heard == [script : Scripts \cup {<<>>}, shown : Seq(Words)]

IsMade(r) ==
  /\ r = Rec(r.fetchSize, r.inWire, r.caching, r.cmd, r.exec, r.current, r.released)
  /\ r.fetchSize \in Nat /\ r.inWire \in BOOLEAN /\ r.caching \in BOOLEAN

Places(r, S) == r.exec \in Seq(1..Len(S)) /\ r.current \in 0..Len(S) /\ r.released \in 0..Len(S)

NoneFits(r, S) == r.cmd = NoInformation /\ ~r.inWire /\ S = <<>> /\ r.exec = <<>>
SingleFits(r, T) ==
  IsSingle(r.cmd) /\ ~r.inWire /\ r.exec = <<>> /\ Len(T.script) = 1 /\ Len(T.shown) >= 1 /\ T.script[1] # ErrPart
ListFits(r, T, rest) ==
  /\ IsList(r.cmd) /\ CountsRight(r.cmd, T.script, rest) /\ ShownRight(r.cmd, T)
  /\ Len(r.exec) = Cardinality(SetsAhead(r.cmd))

(* Of one statement: its Results, its result sets, what its command should show *)
(* and did, and how many answers are still on the wire.                         *)
Fits(r, S, T, rest) ==
  /\ IsMade(r) \/ r = NoResults
  /\ AllSets(S) /\ Places(r, S)
  /\ NoneFits(r, S) \/ SingleFits(r, T) \/ ListFits(r, T, rest)
  /\ r.inWire => rest > 0 \/ Len(T.shown) >= Len(T.script)
  /\ rest > 0 => /\ IsList(r.cmd) /\ r.inWire /\ r.fetchSize = 0 /\ Len(T.shown) = Len(T.script) - rest
                 /\ ~HasUnread(S)
  /\ HasUnread(S) => r.inWire /\ Len(S) = 1 /\ r.exec = <<>> /\ (r.current # 0 \/ r.released # 0) /\ IsList(r.cmd)
  /\ r.fetchSize # 0 => S = <<>> \/ HasUnread(S)

IsConn(c) ==
  /\ c = [wire |-> c.wire, more |-> c.more, active |-> c.active, res |-> c.res, sets |-> c.sets,
          raised |-> c.raised, fault |-> c.fault, closed |-> c.closed]
  /\ c.res = [t \in Stmts |-> c.res[t]] /\ c.sets = [t \in Stmts |-> c.sets[t]]

IsHeard(T) == T = [t \in Stmts |-> T[t]] /\ \A t \in Stmts : T[t] \in Heard /\ InOrder(T[t])

(* The wire: whose answers are on it, o for Nobody if it is empty.              *)
Rest(w, o, t) == IF t = o THEN Len(w) ELSE 0
WireFits(c, T, o) ==
  /\ o \in Stmts \cup {Nobody} /\ c.active \in Stmts \cup {Nobody}
  /\ c.wire \in Seq(Int) /\ (c.wire = <<>> <=> o = Nobody) /\ c.more \in BOOLEAN /\ (c.more <=> c.wire # <<>>)
  /\ o # Nobody => /\ c.wire = SubSeq(T[o].script, Len(T[o].shown) + 1, Len(T[o].script))
                   /\ c.active \in {Nobody, o}
  /\ c.active # Nobody => c.active = o \/ HasUnread(c.sets[c.active])
  /\ \A t \in Stmts : HasUnread(c.sets[t]) => c.active = t

Inv(c, T, o) ==
  /\ IsConn(c) /\ c.fault = "none" /\ c.raised = No
  /\ IsHeard(T) /\ WireFits(c, T, o)
  /\ \A t \in Stmts : Fits(c.res[t], c.sets[t], T[t], Rest(c.wire, o, t))

(* A connection is what one of its statements sees of it.                       *)
LEMMA View ==
  ASSUME NEW c, NEW s, IsConn(c), c.fault = "none", s \in Stmts
  PROVE  c = At(c, s, c.res[s], c.sets[s], c.wire, c.more, c.active, c.raised)
<1>1. PICK R, S : R = c.res /\ S = c.sets
  OBVIOUS
<1>2. c = [wire |-> c.wire, more |-> c.more, active |-> c.active, res |-> R, sets |-> S,
           raised |-> c.raised, fault |-> "none", closed |-> c.closed]
  BY <1>1 DEF IsConn
<1>3. R = Others(R, s, R[s]) /\ S = Others(S, s, S[s])
  BY <1>1 DEF IsConn, Others
<1> QED
  BY ONLY <1>1, <1>2, <1>3 DEF At

(* What a statement sees is a connection.                                       *)
LEMMA ConnAt ==
  ASSUME NEW c, NEW s, NEW r, NEW S, NEW w, NEW m, NEW a, NEW x, NEW d,
         s \in Stmts, d = At(c, s, r, S, w, m, a, x)
  PROVE  IsConn(d)
<1>1. PICK R, Q : R = Others(c.res, s, r) /\ Q = Others(c.sets, s, S)
  OBVIOUS
<1>2. d = [wire |-> w, more |-> m, active |-> a, res |-> R, sets |-> Q, raised |-> x, fault |-> "none", closed |-> c.closed]
  BY <1>1 DEF At
<1>3. R = [t \in Stmts |-> R[t]] /\ Q = [t \in Stmts |-> Q[t]]
  BY <1>1 DEF Others
<1> QED
  BY ONLY <1>2, <1>3 DEF IsConn

(* The statement in view may change over and over: the others are those of c.   *)
LEMMA Rebase ==
  ASSUME NEW c, NEW s, NEW r, NEW S, NEW w, NEW m, NEW a, NEW x, NEW d,
         NEW q, NEW Q, NEW v, NEW l, NEW b, NEW y,
         s \in Stmts, d = At(c, s, r, S, w, m, a, x)
  PROVE  At(d, s, q, Q, v, l, b, y) = At(c, s, q, Q, v, l, b, y)
<1>1. PICK R, P : R = Others(c.res, s, r) /\ P = Others(c.sets, s, S)
  OBVIOUS
<1>2. d.res = R /\ d.sets = P /\ d.closed = c.closed
  BY <1>1 DEF At
<1>3. Others(R, s, q) = Others(c.res, s, q) /\ Others(P, s, Q) = Others(c.sets, s, Q)
  BY <1>1 DEF Others
<1> QED
  BY ONLY <1>2, <1>3 DEF At

(* The invariant after a change to one statement and to the wire.               *)
LEMMA Rebuild ==
  ASSUME NEW c, NEW T, NEW o, NEW s, NEW r, NEW S, NEW w, NEW m, NEW a, NEW d, NEW U, NEW p,
         Inv(c, T, o), s \in Stmts, d = At(c, s, r, S, w, m, a, No), IsHeard(U), WireFits(d, U, p),
         \A t \in Stmts : t # s => U[t] = T[t] /\ Rest(w, p, t) = Rest(c.wire, o, t),
         Fits(r, S, U[s], Rest(w, p, s))
  PROVE  Inv(d, U, p)
<1>1. IsConn(d)
  BY ConnAt
<1>2. /\ d.fault = "none" /\ d.raised = No /\ d.wire = w /\ d.res[s] = r /\ d.sets[s] = S
      /\ \A t \in Stmts : t # s => d.res[t] = c.res[t] /\ d.sets[t] = c.sets[t]
  BY AtIs
<1>3. ASSUME NEW t \in Stmts
      PROVE  Fits(d.res[t], d.sets[t], U[t], Rest(d.wire, p, t))
  <2>1. CASE t = s
    BY <1>2, <2>1
  <2>2. CASE t # s
    <3>1. Fits(c.res[t], c.sets[t], T[t], Rest(c.wire, o, t))
      BY DEF Inv
    <3> QED
      BY <1>2, <2>2, <3>1
  <2> QED
    BY <2>1, <2>2
<1> QED
  BY <1>1, <1>2, <1>3 DEF Inv

(* A change to one statement that leaves the wire alone.                        *)
LEMMA Local ==
  ASSUME NEW c, NEW T, NEW o, NEW s, NEW r, NEW S, NEW d, NEW U,
         Inv(c, T, o), s \in Stmts, d = At(c, s, r, S, c.wire, c.more, c.active, No), IsHeard(U),
         \A t \in Stmts : t # s => U[t] = T[t], s = o => U[s] = T[s],
         HasUnread(S) <=> HasUnread(c.sets[s]), Fits(r, S, U[s], Rest(c.wire, o, s))
  PROVE  Inv(d, U, o)
<1>1. WireFits(c, T, o)
  BY DEF Inv
<1>2. /\ d.wire = c.wire /\ d.more = c.more /\ d.active = c.active /\ d.sets[s] = S
      /\ \A t \in Stmts : t # s => d.sets[t] = c.sets[t]
  BY AtIs
<1>3. \A t \in Stmts : HasUnread(d.sets[t]) <=> HasUnread(c.sets[t])
  BY <1>2
<1>4. o # Nobody => U[o] = T[o]
  BY <1>1 DEF WireFits
<1>5. WireFits(d, U, o)
  BY <1>1, <1>2, <1>3, <1>4 DEF WireFits
<1> QED
  BY <1>5, Rebuild

(* The answers of a statement are at their end.                                 *)
LEMMA Quiet ==
  ASSUME NEW c, NEW T, NEW o, NEW s, NEW r, NEW S, NEW d, NEW U,
         Inv(c, T, o), s \in Stmts, d = At(c, s, r, S, <<>>, No, Nobody, No), IsHeard(U),
         \A t \in Stmts : t # s => U[t] = T[t], o \in {s, Nobody}, c.active \in {s, Nobody},
         ~HasUnread(S), Fits(r, S, U[s], 0)
  PROVE  Inv(d, U, Nobody)
<1>1. WireFits(c, T, o)
  BY DEF Inv
<1>2. PICK w, z : w = <<>> /\ z = 0
  OBVIOUS
<1>3. d = At(c, s, r, S, w, No, Nobody, No)
  BY <1>2
<1>4. /\ d.wire = w /\ d.more = No /\ d.active = Nobody /\ d.sets[s] = S
      /\ \A t \in Stmts : t # s => d.sets[t] = c.sets[t]
  BY <1>3, AtIs
<1>5. \A t \in Stmts : ~HasUnread(d.sets[t])
  BY <1>1, <1>4, NobodyIsApart DEF WireFits
<1>6. w \in Seq(Int) /\ w = <<>> /\ ~No /\ No \in BOOLEAN
  BY <1>2, Booleans, YesNo
<1>7. WireFits(d, U, Nobody)
  BY ONLY <1>4, <1>5, <1>6 DEF WireFits
<1>8. \A t \in Stmts : Rest(w, Nobody, t) = z
  BY <1>2, NobodyIsApart DEF Rest
<1>9. \A t \in Stmts : t # s => Rest(c.wire, o, t) = z
  BY <1>2, NobodyIsApart DEF Rest
<1>10. Fits(r, S, U[s], Rest(w, Nobody, s))
  BY <1>2, <1>8
<1> QED
  BY ONLY <1>3, <1>7, <1>8, <1>9, <1>10, Rebuild, Inv(c, T, o), s \in Stmts, IsHeard(U), \A t \in Stmts : t # s => U[t] = T[t]

-----------------------------------------------------------------------------
(* One statement.                                                               *)
LEMMA NoResultsIs ==
  /\ ~NoResults.made /\ NoResults.cmd = NoInformation /\ NoResults.fetchSize = 0 /\ ~NoResults.inWire
  /\ NoResults.exec = <<>> /\ NoResults.current = 0 /\ NoResults.released = 0
BY DEF NoResults, NewCommand

(* The Results of a command that is not yet sent.                               *)
LEMMA NewCommandIs ==
  ASSUME NEW size
  PROVE  NewCommand(size) = Rec(size, No, No, NoInformation, <<>>, 0, 0)
BY DEF NewCommand, Rec, Yes, No

(* A statement that shows anything has Results.                                 *)
LEMMA MadeIs ==
  ASSUME NEW r, NEW S, NEW T, NEW rest, Fits(r, S, T, rest),
         r.made \/ r.inWire \/ r.cmd # NoInformation \/ r.current # 0 \/ r.released # 0
  PROVE  IsMade(r) /\ r.made
<1>1. IsMade(r)
  BY NoResultsIs DEF Fits
<1>2. r.made = Yes
  BY <1>1, RecIs DEF IsMade
<1> QED
  BY <1>1, <1>2, YesNo

(* A statement of a connection, for one that has sent a command.                *)
LEMMA Statement ==
  ASSUME NEW c, NEW T, NEW o, NEW s, Inv(c, T, o), s \in Stmts, IsMade(c.res[s])
  PROVE  \E f, inWire, caching, cmd, ahead, current, released, S :
           /\ c = At(c, s, Rec(f, inWire, caching, cmd, ahead, current, released), S, c.wire, c.more, c.active, No)
           /\ c.res[s] = Rec(f, inWire, caching, cmd, ahead, current, released) /\ c.sets[s] = S
           /\ f \in Nat /\ inWire \in BOOLEAN /\ caching \in BOOLEAN /\ AllSets(S)
           /\ current \in 0..Len(S) /\ released \in 0..Len(S) /\ ahead \in Seq(1..Len(S))
           /\ Fits(Rec(f, inWire, caching, cmd, ahead, current, released), S, T[s], Rest(c.wire, o, s))
<1>1. PICK r, S : r = c.res[s] /\ S = c.sets[s]
  OBVIOUS
<1>2. Fits(r, S, T[s], Rest(c.wire, o, s))
  BY <1>1 DEF Inv
<1>3. /\ r = Rec(r.fetchSize, r.inWire, r.caching, r.cmd, r.exec, r.current, r.released)
      /\ r.fetchSize \in Nat /\ r.inWire \in BOOLEAN /\ r.caching \in BOOLEAN
  BY <1>1 DEF IsMade
<1>4. /\ AllSets(S) /\ r.exec \in Seq(1..Len(S)) /\ r.current \in 0..Len(S) /\ r.released \in 0..Len(S)
  BY <1>2 DEF Fits, Places
<1>5. c = At(c, s, r, S, c.wire, c.more, c.active, No)
  <2>1. IsConn(c) /\ c.fault = "none" /\ c.raised = No
    BY DEF Inv
  <2> QED
    BY <1>1, <2>1, View
<1> QED
  BY <1>1, <1>2, <1>3, <1>4, <1>5

(* A statement still fits when its sets are read or closed and its places move. *)
LEMMA FitsAgain ==
  ASSUME NEW f, NEW inWire, NEW caching, NEW cmd, NEW ahead, NEW current, NEW released, NEW S, NEW T, NEW rest,
         NEW g, NEW kept, NEW now, NEW left, NEW Q,
         Fits(Rec(f, inWire, caching, cmd, ahead, current, released), S, T, rest),
         AllSets(Q), Len(Q) = Len(S), AllSets(S), g \in Nat, kept \in BOOLEAN, inWire \in BOOLEAN,
         now \in 0..Len(S), left \in 0..Len(S),
         HasUnread(Q) => HasUnread(S) /\ (now # 0 \/ left # 0),
         g = 0 \/ (g = f /\ (HasUnread(S) => HasUnread(Q)))
  PROVE  Fits(Rec(g, inWire, kept, cmd, ahead, now, left), Q, T, rest)
<1>1. PICK r, q : r = Rec(f, inWire, caching, cmd, ahead, current, released) /\ q = Rec(g, inWire, kept, cmd, ahead, now, left)
  OBVIOUS
<1>2. /\ r.fetchSize = f /\ r.inWire = inWire /\ r.cmd = cmd /\ r.exec = ahead
      /\ q.made = Yes /\ q.fetchSize = g /\ q.inWire = inWire /\ q.caching = kept /\ q.cmd = cmd /\ q.exec = ahead
      /\ q.current = now /\ q.released = left
  BY <1>1, RecIs
<1>3. IsMade(q)
  BY <1>1, <1>2 DEF IsMade
<1>4. S = <<>> => Q = <<>>
  BY DEF AllSets
<1>5. Fits(r, S, T, rest)
  BY <1>1
<1>6. Places(q, Q)
  BY <1>2, <1>5 DEF Fits, Places
<1>7. NoneFits(q, Q) \/ SingleFits(q, T) \/ ListFits(q, T, rest)
  BY <1>2, <1>4, <1>5 DEF Fits, NoneFits, SingleFits, ListFits
<1>8. /\ q.inWire => rest > 0 \/ Len(T.shown) >= Len(T.script)
      /\ rest > 0 => /\ IsList(q.cmd) /\ q.inWire /\ q.fetchSize = 0 /\ Len(T.shown) = Len(T.script) - rest
                     /\ ~HasUnread(Q)
      /\ HasUnread(Q) => q.inWire /\ Len(Q) = 1 /\ q.exec = <<>> /\ (q.current # 0 \/ q.released # 0) /\ IsList(q.cmd)
      /\ q.fetchSize # 0 => Q = <<>> \/ HasUnread(Q)
  BY <1>2, <1>4, <1>5 DEF Fits
<1> QED
  BY <1>1, <1>3, <1>6, <1>7, <1>8 DEF Fits

(* Whether one changed result set leaves any unread.                            *)
LEMMA UnreadChanged ==
  ASSUME NEW S, NEW k, NEW e, AllSets(S), k \in 1..Len(S), IsSet(e)
  PROVE  /\ (e.isEof <=> S[k].isEof) => (HasUnread(Changed(S, k, e)) <=> HasUnread(S))
         /\ Len(S) = 1 => (HasUnread(Changed(S, k, e)) <=> ~e.isEof)
<1>1. PICK Q : Q = Changed(S, k, e)
  OBVIOUS
<1>2. AllSets(Q) /\ Len(Q) = Len(S) /\ Q[k] = e /\ (\A j \in 1..Len(S) : j # k => Q[j] = S[j]) /\ DOMAIN Q = 1..Len(S)
  BY <1>1, ChangedIs
<1>3. DOMAIN S = 1..Len(S)
  BY OneOf
<1>4. (e.isEof <=> S[k].isEof) => (HasUnread(Q) <=> HasUnread(S))
  BY <1>2, <1>3 DEF HasUnread
<1>5. Len(S) = 1 => (HasUnread(Q) <=> ~e.isEof)
  BY <1>2 DEF HasUnread
<1> QED
  BY <1>1, <1>4, <1>5

(* A stream is alone on the connection.                                         *)
LEMMA StreamAlone ==
  ASSUME NEW c, NEW T, NEW o, NEW s, Inv(c, T, o), s \in Stmts, HasUnread(c.sets[s])
  PROVE  c.active = s /\ c.wire = <<>> /\ o = Nobody /\ ~c.more
<1>1. WireFits(c, T, o) /\ Fits(c.res[s], c.sets[s], T[s], Rest(c.wire, o, s))
  BY DEF Inv
<1>2. c.active = s
  BY <1>1 DEF WireFits
<1>3. o # s
  <2>1. ASSUME o = s PROVE FALSE
    <3>1. Rest(c.wire, o, s) = Len(c.wire) /\ c.wire # <<>> /\ c.wire \in Seq(Int)
      BY <1>1, <2>1, NobodyIsApart DEF WireFits, Rest
    <3>2. Len(c.wire) > 0
      BY <3>1
    <3> QED
      BY <1>1, <3>1, <3>2 DEF Fits
  <2> QED
    BY <2>1
<1>4. o = Nobody
  BY <1>1, <1>2, <1>3, NobodyIsApart DEF WireFits
<1> QED
  BY <1>1, <1>2, <1>4 DEF WireFits

(* getResultSet keeps the invariant.                                            *)
LEMMA GetResultSetStep ==
  ASSUME NEW s, NEW o, s \in Stmts, Inv(st, heard, o), GetResultSet(s)
  PROVE  \E p : Inv(st', heard', p)
<1>0. PICK c, d, T : c = st /\ d = st' /\ T = heard
  OBVIOUS
<1>1. /\ c.res[s].made /\ c.res[s].current # 0 /\ heard' = T /\ Inv(c, T, o)
      /\ d = [c EXCEPT !.res[s].released = c.res[s].current, !.res[s].current = 0]
  BY <1>0 DEF GetResultSet
<1>2. IsMade(c.res[s])
  BY <1>1, MadeIs DEF Inv
<1>3. PICK f, inWire, caching, cmd, ahead, current, released, S :
           /\ c = At(c, s, Rec(f, inWire, caching, cmd, ahead, current, released), S, c.wire, c.more, c.active, No)
           /\ c.res[s] = Rec(f, inWire, caching, cmd, ahead, current, released) /\ c.sets[s] = S
           /\ f \in Nat /\ inWire \in BOOLEAN /\ caching \in BOOLEAN /\ AllSets(S)
           /\ current \in 0..Len(S) /\ released \in 0..Len(S) /\ ahead \in Seq(1..Len(S))
           /\ Fits(Rec(f, inWire, caching, cmd, ahead, current, released), S, T[s], Rest(c.wire, o, s))
  BY <1>1, <1>2, Statement
<1>4. PICK r, z : r = Rec(f, inWire, caching, cmd, ahead, current, released) /\ z = 0
  OBVIOUS
<1>5. c.res[s] = r /\ r.current = current
  BY <1>3, <1>4, RecIs
<1>6. PICK h : h = [r EXCEPT !.released = current]
  OBVIOUS
<1>7. h = Rec(f, inWire, caching, cmd, ahead, current, current)
  BY ONLY <1>4, <1>6 DEF Rec
<1>8. PICK q : q = Rec(f, inWire, caching, cmd, ahead, z, current)
  OBVIOUS
<1>9. [h EXCEPT !.current = z] = q
  BY ONLY <1>7, <1>8 DEF Rec
<1>10. PICK e : e = PutRes(c, s, h)
  OBVIOUS
<1>11. e = At(c, s, h, S, c.wire, c.more, c.active, No)
  <2>1. c = At(c, s, r, S, c.wire, c.more, c.active, No)
    BY <1>3, <1>4
  <2> QED
    BY ONLY <1>10, <2>1, PutAt, s \in Stmts
<1>12. e.res[s] = h
  BY ONLY <1>11, AtIs, s \in Stmts
<1>13. d = PutRes(e, s, q)
  BY ONLY <1>1, <1>4, <1>5, <1>6, <1>9, <1>10, <1>12 DEF PutRes
<1>14. d = At(c, s, q, S, c.wire, c.more, c.active, No)
  BY ONLY <1>11, <1>13, PutAt, s \in Stmts
<1>15. current # 0 /\ z = 0 /\ z \in 0..Len(S) /\ (HasUnread(S) => HasUnread(S) /\ (z # 0 \/ current # 0))
  BY <1>1, <1>3, <1>4, <1>5 DEF AllSets
<1>16. Fits(q, S, T[s], Rest(c.wire, o, s))
  BY <1>3, <1>8, <1>15, FitsAgain
<1>17. Inv(d, T, o)
  <2>1. IsHeard(T)
    BY <1>1 DEF Inv
  <2>2. HasUnread(S) <=> HasUnread(c.sets[s])
    BY <1>3
  <2> QED
    BY ONLY <1>1, <1>14, <1>16, <2>1, <2>2, Local, s \in Stmts
<1> QED
  BY <1>0, <1>1, <1>17

(* ResultSet::close keeps the invariant, with a stream read to its end or not.  *)
LEMMA CloseResultSetStep ==
  ASSUME NEW s, NEW o, s \in Stmts, Inv(st, heard, o), CloseResultSet(s)
  PROVE  \E p : Inv(st', heard', p)
<1>0. PICK c, d, T, no : c = st /\ d = st' /\ T = heard /\ no = No
  OBVIOUS
<1>1. /\ c.res[s].made /\ c.res[s].released # 0 /\ heard' = T /\ Inv(c, T, o)
      /\ d = CloseSet(c, s, c.res[s].released, No)
  BY <1>0 DEF CloseResultSet, No
<1>2. IsMade(c.res[s])
  BY <1>1, MadeIs DEF Inv
<1>3. PICK f, inWire, caching, cmd, ahead, current, released, S :
           /\ c = At(c, s, Rec(f, inWire, caching, cmd, ahead, current, released), S, c.wire, c.more, c.active, No)
           /\ c.res[s] = Rec(f, inWire, caching, cmd, ahead, current, released) /\ c.sets[s] = S
           /\ f \in Nat /\ inWire \in BOOLEAN /\ caching \in BOOLEAN /\ AllSets(S)
           /\ current \in 0..Len(S) /\ released \in 0..Len(S) /\ ahead \in Seq(1..Len(S))
           /\ Fits(Rec(f, inWire, caching, cmd, ahead, current, released), S, T[s], Rest(c.wire, o, s))
  BY <1>1, <1>2, Statement
<1>4. c.res[s].released = released
  BY <1>3, RecIs
<1>5. released \in 1..Len(S) /\ d = CloseSet(c, s, released, No)
  BY <1>1, <1>3, <1>4 DEF AllSets
<1>6. PICK z : z = IF released = released THEN 0 ELSE released
  OBVIOUS
<1>7. z = 0 /\ z \in 0..Len(S) /\ current \in 0..Len(S)
  BY <1>3, <1>6 DEF AllSets
<1>8. IsSet(S[released])
  BY <1>3, <1>5, OneOf
<1>9. IsHeard(T)
  BY <1>1 DEF Inv
<1>10. CASE S[released].isEof
  <2>1. PICK Q : Q = Changed(S, released, Shut(S[released]))
    OBVIOUS
  <2>2. d = At(c, s, Rec(f, inWire, caching, cmd, ahead, current, z), Q, c.wire, c.more, c.active, No)
    BY ONLY <1>3, <1>5, <1>6, <1>10, <2>1, CloseSetAt, Booleans, s \in Stmts
  <2>3. IsSet(Shut(S[released])) /\ (Shut(S[released]).isEof <=> S[released].isEof)
    BY <1>8, SetChanges
  <2>4. AllSets(Q) /\ Len(Q) = Len(S)
    BY <1>3, <1>5, <2>1, <2>3, ChangedIs
  <2>5. HasUnread(Q) <=> HasUnread(S)
    BY <1>3, <1>5, <2>1, <2>3, UnreadChanged
  <2>6. HasUnread(S) => FALSE
    <3>1. HasUnread(S) => Len(S) = 1
      BY <1>3 DEF Fits
    <3>2. DOMAIN S = 1..Len(S)
      BY <1>3 DEF AllSets
    <3> QED
      BY <1>5, <1>10, <3>1, <3>2 DEF HasUnread
  <2>7. Fits(Rec(f, inWire, caching, cmd, ahead, current, z), Q, T[s], Rest(c.wire, o, s))
    BY <1>3, <1>7, <2>4, <2>5, <2>6, FitsAgain
  <2>8. Inv(d, T, o)
    BY ONLY <1>1, <1>3, <1>9, <2>2, <2>5, <2>7, Local, s \in Stmts
  <2> QED
    BY <1>0, <1>1, <2>8
<1>11. CASE ~S[released].isEof
  <2>1. HasUnread(S)
    BY <1>3, <1>5, <1>11, OneOf DEF HasUnread
  <2>2. c.active = s /\ c.wire = <<>> /\ o = Nobody
    BY <1>1, <1>3, <2>1, StreamAlone
  <2>3. PICK P, Q : P = Changed(S, released, Drained(S[released])) /\ Q = Changed(P, released, Shut(Drained(S[released])))
    OBVIOUS
  <2>4. d = At(c, s, Rec(0, inWire, caching, cmd, ahead, current, z), Q, <<>>, No, Nobody, No)
    BY ONLY <1>3, <1>5, <1>6, <1>11, <2>2, <2>3, CloseSetAt, Booleans, YesNo, s \in Stmts
  <2>5. IsSet(Drained(S[released])) /\ Drained(S[released]).isEof
    BY <1>8, SetChanges, YesNo
  <2>6. IsSet(Shut(Drained(S[released]))) /\ Shut(Drained(S[released])).isEof
    BY <2>5, SetChanges
  <2>7. AllSets(P) /\ Len(P) = Len(S)
    BY <1>3, <1>5, <2>3, <2>5, ChangedIs
  <2>8. AllSets(Q) /\ Len(Q) = Len(S)
    BY <1>5, <2>3, <2>6, <2>7, ChangedIs
  <2>9. Len(S) = 1
    BY <1>3, <2>1 DEF Fits
  <2>10. ~HasUnread(Q)
    BY <1>5, <2>3, <2>6, <2>7, <2>9, UnreadChanged
  <2>11. Rest(c.wire, o, s) = 0
    BY <2>2, NobodyIsApart DEF Rest
  <2>12. Fits(Rec(0, inWire, caching, cmd, ahead, current, z), Q, T[s], 0)
    BY <1>3, <1>7, <2>8, <2>10, <2>11, FitsAgain
  <2>13. Inv(d, T, Nobody)
    BY ONLY <1>1, <1>9, <2>2, <2>4, <2>10, <2>12, Quiet, s \in Stmts, o \in {s, Nobody}, c.active \in {s, Nobody}
  <2> QED
    BY <1>0, <1>1, <2>13
<1> QED
  BY <1>10, <1>11

(* next() on a stream keeps the invariant, the fetch that meets the end included. *)
LEMMA ReadStreamRowStep ==
  ASSUME NEW s, NEW o, s \in Stmts, Inv(st, heard, o), ReadStreamRow(s)
  PROVE  \E p : Inv(st', heard', p)
<1>0. PICK c, d, T : c = st /\ d = st' /\ T = heard
  OBVIOUS
<1>1. /\ c.res[s].made /\ c.res[s].released # 0 /\ heard' = T /\ Inv(c, T, o)
      /\ ~c.sets[s][c.res[s].released].isEof
      /\ d = AddStreamingRow(c, s, c.res[s].released)
  BY <1>0 DEF ReadStreamRow
<1>2. IsMade(c.res[s])
  BY <1>1, MadeIs DEF Inv
<1>3. PICK f, inWire, caching, cmd, ahead, current, released, S :
           /\ c = At(c, s, Rec(f, inWire, caching, cmd, ahead, current, released), S, c.wire, c.more, c.active, No)
           /\ c.res[s] = Rec(f, inWire, caching, cmd, ahead, current, released) /\ c.sets[s] = S
           /\ f \in Nat /\ inWire \in BOOLEAN /\ caching \in BOOLEAN /\ AllSets(S)
           /\ current \in 0..Len(S) /\ released \in 0..Len(S) /\ ahead \in Seq(1..Len(S))
           /\ Fits(Rec(f, inWire, caching, cmd, ahead, current, released), S, T[s], Rest(c.wire, o, s))
  BY <1>1, <1>2, Statement
<1>4. c.res[s].released = released
  BY <1>3, RecIs
<1>5. released \in 1..Len(S) /\ d = AddStreamingRow(c, s, released) /\ released # 0 /\ ~S[released].isEof
  BY <1>1, <1>3, <1>4 DEF AllSets
<1>6. IsSet(S[released])
  BY <1>3, <1>5, OneOf
<1>7. IsHeard(T)
  BY <1>1 DEF Inv
<1>8. HasUnread(S)
  BY <1>3, <1>5, OneOf DEF HasUnread
<1>9. c.active = s /\ c.wire = <<>> /\ o = Nobody
  BY <1>1, <1>3, <1>8, StreamAlone
<1>10. Len(S) = 1
  BY <1>3, <1>8 DEF Fits
<1>11. c = At(c, s, Rec(f, inWire, caching, cmd, ahead, current, released), S, <<>>, c.more, s, No)
  BY ONLY <1>3, <1>9
<1>12. Rest(c.wire, o, s) = 0
  BY <1>9, NobodyIsApart DEF Rest
<1>13. CASE S[released].left >= S[released].fetchSize
  <2>1. PICK Q : Q = Changed(S, released, Fetched(S[released]))
    OBVIOUS
  <2>2. d = At(c, s, Rec(f, inWire, caching, cmd, ahead, current, released), Q, <<>>, c.more, s, No)
    BY ONLY <1>3, <1>5, <1>11, <1>13, <2>1, AddStreamingRowAt, s \in Stmts
  <2>3. IsSet(Fetched(S[released])) /\ (Fetched(S[released]).isEof <=> S[released].isEof)
    BY <1>6, SetChanges
  <2>4. AllSets(Q) /\ Len(Q) = Len(S)
    BY <1>3, <1>5, <2>1, <2>3, ChangedIs
  <2>5. HasUnread(Q) <=> HasUnread(S)
    BY <1>3, <1>5, <2>1, <2>3, UnreadChanged
  <2>6. Fits(Rec(f, inWire, caching, cmd, ahead, current, released), Q, T[s], Rest(c.wire, o, s))
    BY <1>3, <1>5, <2>4, <2>5, FitsAgain
  <2>7. Inv(d, T, o)
    BY ONLY <1>1, <1>3, <1>7, <1>9, <2>2, <2>5, <2>6, Local, s \in Stmts
  <2> QED
    BY <1>0, <1>1, <2>7
<1>14. CASE ~(S[released].left >= S[released].fetchSize)
  <2>1. PICK Q : Q = Changed(S, released, Drained(S[released]))
    OBVIOUS
  <2>2. d = At(c, s, Rec(0, inWire, caching, cmd, ahead, current, released), Q, <<>>, No, Nobody, No)
    BY ONLY <1>3, <1>5, <1>11, <1>14, <2>1, AddStreamingRowAt, s \in Stmts
  <2>3. IsSet(Drained(S[released])) /\ Drained(S[released]).isEof
    BY <1>6, SetChanges, YesNo
  <2>4. AllSets(Q) /\ Len(Q) = Len(S)
    BY <1>3, <1>5, <2>1, <2>3, ChangedIs
  <2>5. ~HasUnread(Q)
    BY <1>3, <1>5, <1>10, <2>1, <2>3, UnreadChanged
  <2>6. Fits(Rec(0, inWire, caching, cmd, ahead, current, released), Q, T[s], 0)
    BY <1>3, <1>5, <1>12, <2>4, <2>5, FitsAgain
  <2>7. Inv(d, T, Nobody)
    BY ONLY <1>1, <1>7, <1>9, <2>2, <2>5, <2>6, Quiet, s \in Stmts, o \in {s, Nobody}, c.active \in {s, Nobody}
  <2> QED
    BY <1>0, <1>1, <2>7
<1> QED
  BY <1>13, <1>14
(* realClose of a result set that has all its rows.                             *)
ClosedOnly(c, T, o, s, d) ==
  /\ Inv(d, T, o) /\ ~HasUnread(d.sets[s]) /\ d.wire = c.wire /\ d.active = c.active /\ d.closed = c.closed
  /\ d.res[s].made /\ d.res[s].inWire = c.res[s].inWire /\ d.res[s].cmd = c.res[s].cmd
  /\ d.res[s].exec = c.res[s].exec

(* realClose of a result set that has all its rows touches no more than that set. *)
LEMMA CloseReadSet ==
  ASSUME NEW c, NEW T, NEW o, NEW s, NEW k, NEW locked, NEW d,
         Inv(c, T, o), s \in Stmts, c.res[s].made, k \in 1..Len(c.sets[s]), c.sets[s][k].isEof, locked \in BOOLEAN,
         d = CloseSet(c, s, k, locked)
  PROVE  ClosedOnly(c, T, o, s, d)
<1>2. IsMade(c.res[s])
  BY MadeIs DEF Inv
<1>3. PICK f, inWire, caching, cmd, ahead, current, released, S :
           /\ c = At(c, s, Rec(f, inWire, caching, cmd, ahead, current, released), S, c.wire, c.more, c.active, No)
           /\ c.res[s] = Rec(f, inWire, caching, cmd, ahead, current, released) /\ c.sets[s] = S
           /\ f \in Nat /\ inWire \in BOOLEAN /\ caching \in BOOLEAN /\ AllSets(S)
           /\ current \in 0..Len(S) /\ released \in 0..Len(S) /\ ahead \in Seq(1..Len(S))
           /\ Fits(Rec(f, inWire, caching, cmd, ahead, current, released), S, T[s], Rest(c.wire, o, s))
  BY <1>2, Statement
<1>4. k \in 1..Len(S) /\ S[k].isEof
  BY <1>3
<1>5. PICK z : z = IF released = k THEN 0 ELSE released
  OBVIOUS
<1>6. z \in 0..Len(S)
  BY <1>3, <1>5 DEF AllSets
<1>7. IsSet(S[k]) /\ DOMAIN S = 1..Len(S)
  BY <1>3, <1>4, OneOf
<1>8. PICK Q : Q = Changed(S, k, Shut(S[k]))
  OBVIOUS
<1>a. PICK q : q = Rec(f, inWire, caching, cmd, ahead, current, z)
  OBVIOUS
<1>9. d = At(c, s, q, Q, c.wire, c.more, c.active, No)
  BY ONLY <1>3, <1>4, <1>5, <1>8, <1>a, CloseSetAt, s \in Stmts, d = CloseSet(c, s, k, locked), locked \in BOOLEAN
<1>10. IsSet(Shut(S[k])) /\ (Shut(S[k]).isEof <=> S[k].isEof)
  BY <1>7, SetChanges
<1>11. AllSets(Q) /\ Len(Q) = Len(S)
  BY <1>3, <1>4, <1>8, <1>10, ChangedIs
<1>12. HasUnread(Q) <=> HasUnread(S)
  BY <1>3, <1>4, <1>8, <1>10, UnreadChanged
<1>13. ~HasUnread(S)
  <2>1. HasUnread(S) => Len(S) = 1
    BY <1>3 DEF Fits
  <2> QED
    BY <1>4, <1>7, <2>1 DEF HasUnread
<1>14. Fits(q, Q, T[s], Rest(c.wire, o, s))
  BY <1>3, <1>6, <1>11, <1>12, <1>13, <1>a, FitsAgain
<1>15. IsHeard(T)
  BY DEF Inv
<1>b. HasUnread(Q) <=> HasUnread(c.sets[s])
  BY <1>3, <1>12
<1>16. Inv(d, T, o)
  BY ONLY <1>9, <1>b, <1>14, <1>15, Local, s \in Stmts, Inv(c, T, o)
<1>17. d.wire = c.wire /\ d.active = c.active /\ d.closed = c.closed /\ d.res[s] = q /\ d.sets[s] = Q
  BY ONLY <1>9, AtIs, s \in Stmts
<1>18. q.made = Yes /\ q.inWire = inWire /\ q.cmd = cmd /\ q.exec = ahead
  BY <1>a, RecIs
<1>19. c.res[s].inWire = inWire /\ c.res[s].cmd = cmd /\ c.res[s].exec = ahead
  BY <1>3, RecIs
<1> QED
  BY <1>12, <1>13, <1>16, <1>17, <1>18, <1>19, YesNo DEF ClosedOnly

(* A statement whose answers are read forgets its fetch size.                   *)
LEMMA SizeForgotten ==
  ASSUME NEW c, NEW T, NEW o, NEW s, NEW d,
         Inv(c, T, o), s \in Stmts, c.res[s].made, ~HasUnread(c.sets[s]), d = [c EXCEPT !.res[s].fetchSize = 0]
  PROVE  Inv(d, T, o)
<1>2. IsMade(c.res[s])
  BY MadeIs DEF Inv
<1>3. PICK f, inWire, caching, cmd, ahead, current, released, S :
           /\ c = At(c, s, Rec(f, inWire, caching, cmd, ahead, current, released), S, c.wire, c.more, c.active, No)
           /\ c.res[s] = Rec(f, inWire, caching, cmd, ahead, current, released) /\ c.sets[s] = S
           /\ f \in Nat /\ inWire \in BOOLEAN /\ caching \in BOOLEAN /\ AllSets(S)
           /\ current \in 0..Len(S) /\ released \in 0..Len(S) /\ ahead \in Seq(1..Len(S))
           /\ Fits(Rec(f, inWire, caching, cmd, ahead, current, released), S, T[s], Rest(c.wire, o, s))
  BY <1>2, Statement
<1>4. PICK r, q, z : /\ r = Rec(f, inWire, caching, cmd, ahead, current, released)
                     /\ q = Rec(z, inWire, caching, cmd, ahead, current, released) /\ z = 0
  OBVIOUS
<1>5. [r EXCEPT !.fetchSize = z] = q
  BY ONLY <1>4 DEF Rec
<1>6. d = PutRes(c, s, q)
  BY ONLY <1>3, <1>4, <1>5, d = [c EXCEPT !.res[s].fetchSize = 0] DEF PutRes
<1>a. c = At(c, s, r, S, c.wire, c.more, c.active, No)
  BY <1>3, <1>4
<1>7. d = At(c, s, q, S, c.wire, c.more, c.active, No)
  BY ONLY <1>a, <1>6, PutAt, s \in Stmts
<1>8. z \in Nat /\ z = 0
  BY <1>4
<1>9. Fits(q, S, T[s], Rest(c.wire, o, s))
  BY <1>3, <1>4, <1>8, FitsAgain
<1>10. IsHeard(T)
  BY DEF Inv
<1>11. HasUnread(S) <=> HasUnread(c.sets[s])
  BY <1>3
<1> QED
  BY ONLY <1>7, <1>9, <1>10, <1>11, Local, s \in Stmts, Inv(c, T, o)

(* The statements that were closed do not matter to the answers.                *)
LEMMA AlsoClosed ==
  ASSUME NEW c, NEW T, NEW o, NEW X, NEW d, Inv(c, T, o), d = [c EXCEPT !.closed = X]
  PROVE  Inv(d, T, o)
<1>1. PICK R, S : R = c.res /\ S = c.sets
  OBVIOUS
<1>2. c = [wire |-> c.wire, more |-> c.more, active |-> c.active, res |-> R, sets |-> S,
           raised |-> c.raised, fault |-> c.fault, closed |-> c.closed]
  BY <1>1 DEF Inv, IsConn
<1>3. R = [t \in Stmts |-> R[t]] /\ S = [t \in Stmts |-> S[t]]
  BY <1>1 DEF Inv, IsConn
<1>4. d = [wire |-> c.wire, more |-> c.more, active |-> c.active, res |-> R, sets |-> S,
           raised |-> c.raised, fault |-> c.fault, closed |-> X]
  BY ONLY <1>2, d = [c EXCEPT !.closed = X]
<1>5. /\ d.wire = c.wire /\ d.more = c.more /\ d.active = c.active /\ d.res = c.res /\ d.sets = c.sets
      /\ d.raised = c.raised /\ d.fault = c.fault
  BY ONLY <1>1, <1>4
<1>6. IsConn(d)
  BY ONLY <1>3, <1>4 DEF IsConn
<1>7. WireFits(d, T, o)
  BY <1>5 DEF Inv, WireFits
<1> QED
  BY <1>5, <1>6, <1>7 DEF Inv

(* Nothing of a statement is waited for.                                        *)
LEMMA NothingOwn ==
  ASSUME NEW c, NEW T, NEW o, NEW s, Inv(c, T, o), s \in Stmts, ~HasUnread(c.sets[s]),
         o # s \/ c.res[s].fetchSize # 0
  PROVE  c.active # s /\ o # s
<1>1. WireFits(c, T, o) /\ Fits(c.res[s], c.sets[s], T[s], Rest(c.wire, o, s))
  BY DEF Inv
<1>2. o # s
  <2>1. ASSUME o = s PROVE FALSE
    <3>1. Rest(c.wire, o, s) = Len(c.wire) /\ c.wire # <<>> /\ c.wire \in Seq(Int)
      BY <1>1, <2>1, NobodyIsApart DEF WireFits, Rest
    <3>2. Len(c.wire) > 0
      BY <3>1
    <3> QED
      BY <1>1, <2>1, <3>1, <3>2 DEF Fits
  <2> QED
    BY <2>1
<1> QED
  BY <1>1, <1>2, NobodyIsApart DEF WireFits

(* close of a statement keeps the invariant: what it skips was its own.         *)
LEMMA CloseStatementStep ==
  ASSUME NEW s, NEW o, s \in Stmts, Careful, Inv(st, heard, o), CloseStatement(s)
  PROVE  \E p : Inv(st', heard', p)
<1>0. PICK c, d, T : c = st /\ d = st' /\ T = heard
  OBVIOUS
<1>a. PICK r : r = c.res[s]
  OBVIOUS
<1>b. PICK e : e = IF r.made /\ r.fetchSize # 0 THEN Skip(c, No) ELSE c
  OBVIOUS
<1>c. PICK g, X : g = CloseReleased(e, s) /\ X = g.closed \cup {s}
  OBVIOUS
<1>1. /\ heard' = T /\ Inv(c, T, o) /\ (r.fetchSize # 0 => c.active \in {Nobody, s})
      /\ \A k \in DOMAIN c.sets[s] : c.sets[s][k].isEof
      /\ d = [g EXCEPT !.res[s].fetchSize = IF r.made THEN 0 ELSE @, !.closed = X]
  <2>1. /\ heard' = T /\ Inv(c, T, o) /\ (r.fetchSize # 0 => c.active \in {Nobody, s})
        /\ \A k \in DOMAIN c.sets[s] : c.sets[s][k].isEof
    BY <1>0, <1>a DEF CloseStatement, OwnStreamIsRead
  <2>2. d = [CloseReleased(e, s) EXCEPT !.res[s].fetchSize = IF r.made THEN 0 ELSE @, !.closed = @ \cup {s}]
    BY <1>0, <1>a, <1>b DEF CloseStatement, No
  <2>3. [g EXCEPT !.res[s].fetchSize = IF r.made THEN 0 ELSE @, !.closed = @ \cup {s}]
          = [g EXCEPT !.res[s].fetchSize = IF r.made THEN 0 ELSE @, !.closed = X]
    BY <1>c
  <2> QED
    BY <1>c, <2>1, <2>2, <2>3
<1>2. ~HasUnread(c.sets[s])
  BY <1>1 DEF HasUnread
<1>3. e = c
  <2>1. ASSUME r.fetchSize # 0 PROVE Skip(c, No) = c
    <3>1. c.active = Nobody
      BY <1>a, <1>1, <1>2, <2>1, NothingOwn
    <3> QED
      BY <3>1, NobodyIsApart DEF Skip
  <2> QED
    BY <1>b, <2>1
<1>4. CASE r.made
  <2>0. c.res[s].made /\ Inv(c, T, o)
    BY <1>a, <1>1, <1>4
  <2>1. Inv(g, T, o) /\ g.res[s].made /\ ~HasUnread(g.sets[s])
    <3>1. CASE r.released = 0
      BY <1>a, <1>c, <1>1, <1>2, <1>3, <1>4, <3>1 DEF CloseReleased
    <3>2. CASE r.released # 0
      <4>1. g = CloseSet(c, s, r.released, No)
        BY <1>a, <1>c, <1>1, <1>3, <1>4, <3>2 DEF CloseReleased, Inv, No
      <4>2. r.released \in 0..Len(c.sets[s]) /\ AllSets(c.sets[s])
        BY <1>a, <1>1 DEF Inv, Fits, Places
      <4>3. r.released \in 1..Len(c.sets[s]) /\ DOMAIN c.sets[s] = 1..Len(c.sets[s])
        BY <3>2, <4>2 DEF AllSets
      <4>4. c.sets[s][r.released].isEof
        BY <1>1, <4>3
      <4>5. PICK k, l : k = r.released /\ l = No
        OBVIOUS
      <4>6. g = CloseSet(c, s, k, l) /\ k \in 1..Len(c.sets[s]) /\ c.sets[s][k].isEof /\ l \in BOOLEAN
        BY <4>1, <4>3, <4>4, <4>5, Booleans
      <4>7. ClosedOnly(c, T, o, s, g)
        BY ONLY <2>0, <4>6, CloseReadSet, s \in Stmts
      <4> QED
        BY ONLY <4>7 DEF ClosedOnly
    <3> QED
      BY <3>1, <3>2
  <2>2. PICK h : h = [g EXCEPT !.res[s].fetchSize = 0]
    OBVIOUS
  <2>3. d = [h EXCEPT !.closed = X]
    BY ONLY <1>1, <1>4, <2>2
  <2>4. Inv(h, T, o)
    BY <2>1, <2>2, SizeForgotten
  <2>5. Inv(d, T, o)
    BY <2>3, <2>4, AlsoClosed
  <2> QED
    BY <1>0, <1>1, <2>5
<1>5. CASE ~r.made
  <2>1. g = c
    BY <1>a, <1>c, <1>3, <1>5 DEF CloseReleased
  <2>2. r = NoResults
    <3>1. IsMade(r) \/ r = NoResults
      BY <1>a, <1>1 DEF Inv, Fits
    <3>2. IsMade(r) => r.made = Yes
      BY RecIs DEF IsMade
    <3> QED
      BY <1>5, <3>1, <3>2, YesNo
  <2>3. [r EXCEPT !.fetchSize = r.fetchSize] = r
    BY <2>2 DEF NoResults, NewCommand
  <2>4. PutRes(c, s, r) = c
    <3>1. IsConn(c) /\ c.fault = "none"
      BY <1>1 DEF Inv
    <3>2. PICK S, w, m, a, x : c = At(c, s, r, S, w, m, a, x)
      BY <1>a, <3>1, View
    <3> QED
      BY <3>2, PutAt
  <2>5. [c EXCEPT !.res[s].fetchSize = @] = c
    BY ONLY <1>a, <2>3, <2>4 DEF PutRes
  <2>6. d = [c EXCEPT !.closed = X]
    BY ONLY <1>1, <1>5, <2>1, <2>5
  <2>7. Inv(d, T, o)
    BY <1>1, <2>6, AlsoClosed
  <2> QED
    BY <1>0, <1>1, <2>7
<1> QED
  BY <1>4, <1>5

(* cancel keeps the invariant.                                                  *)
LEMMA CancelStep ==
  ASSUME NEW s, NEW o, s \in Stmts, Careful, Inv(st, heard, o), Cancel(s)
  PROVE  \E p : Inv(st', heard', p)
<1>1. /\ \A k \in DOMAIN st.sets[s] : st.sets[s][k].isEof
      /\ heard' = heard
  BY DEF Cancel, OwnStreamIsRead
<1>2. Fits(st.res[s], st.sets[s], heard[s], Rest(st.wire, o, s))
  BY DEF Inv
<1>3. st.res[s].fetchSize = 0 \/ st.res[s].released = 0
  <2>1. ASSUME st.res[s].fetchSize # 0 PROVE st.res[s].released = 0
    <3>1. st.sets[s] = <<>>
      BY <1>1, <1>2, <2>1 DEF Fits, HasUnread
    <3> QED
      BY <1>2, <3>1 DEF Fits, Places
  <2> QED
    BY <2>1
<1>4. st' = st
  BY <1>3 DEF Cancel
<1> QED
  BY <1>1, <1>4

(* The end of a command's answers.                                              *)
Suffix(w, script) ==
  w \in Seq(Int) /\ Len(w) <= Len(script) /\ \A n \in 1..Len(w) : w[n] = script[Len(script) - Len(w) + n]

(* What is true of a statement while its answers are read: those read are in    *)
(* its counts, the result sets ahead of the application in ahead.                *)
Reads(i, ahead, S, script, w) ==
  /\ IsList(i) /\ AllSets(S) /\ ~HasUnread(S) /\ ahead \in Seq(1..Len(S)) /\ script \in Scripts
  /\ Suffix(w, script) /\ CountsRight(i, script, Len(w)) /\ i.idx + 1 <= Len(script) - Len(w)
  /\ Len(ahead) = Cardinality(SetsAhead(i))

(* What each kind of answer leaves in the counts.                               *)
LEMMA AnswerIs ==
  /\ Answer(OkPart) = 1 /\ Answer(ErrPart) = EXECUTE_FAILED
  /\ \A p : p # OkPart /\ p # ErrPart => Answer(p) = RESULT_SET_VALUE
  /\ \A p : Answer(p) \in Int /\ (Answer(p) = RESULT_SET_VALUE <=> p # OkPart /\ p # ErrPart)
  /\ \A p : (Answer(p) = EXECUTE_FAILED <=> p = ErrPart)
  /\ EXECUTE_FAILED # RESULT_SET_VALUE /\ EXECUTE_FAILED \in Int /\ RESULT_SET_VALUE \in Int
BY DEF Answer, OkPart, ErrPart, EXECUTE_FAILED, RESULT_SET_VALUE

(* The result sets ahead can be counted.                                        *)
LEMMA AheadIsFinite ==
  ASSUME NEW i, IsList(i)
  PROVE  IsFiniteSet(SetsAhead(i)) /\ Cardinality(SetsAhead(i)) \in Nat
<1>1. Len(i.counts) \in Nat /\ DOMAIN i.counts = 1..Len(i.counts)
  BY DEF IsList
<1>2. IsFiniteSet(1..Len(i.counts))
  BY <1>1, FS_Interval
<1>3. SetsAhead(i) \subseteq 1..Len(i.counts)
  BY <1>1 DEF SetsAhead
<1> QED
  BY <1>2, <1>3, FS_Subset, FS_CardinalityType

(* A result set that is read is one more ahead, any other answer is not.        *)
LEMMA AheadGrows ==
  ASSUME NEW i, NEW j, NEW u, IsList(i), IsList(j), j.idx = i.idx, j.counts = Append(i.counts, u), u \in Int,
         i.idx + 1 <= Len(i.counts)
  PROVE  /\ u = RESULT_SET_VALUE => Cardinality(SetsAhead(j)) = Cardinality(SetsAhead(i)) + 1
         /\ u # RESULT_SET_VALUE => SetsAhead(j) = SetsAhead(i)
<1>1. PICK m, A, B : m = i.counts /\ A = SetsAhead(i) /\ B = SetsAhead(j)
  OBVIOUS
<1>2. m \in Seq(Int) /\ i.idx \in Nat /\ DOMAIN m = 1..Len(m) /\ Len(m) \in Nat
  BY <1>1 DEF IsList
<1>3. /\ DOMAIN j.counts = 1..(Len(m) + 1) /\ j.counts[Len(m) + 1] = u
      /\ \A n \in 1..Len(m) : j.counts[n] = m[n]
  BY <1>1, <1>2
<1>4. A = {n \in 1..Len(m) : n > i.idx + 1 /\ m[n] = RESULT_SET_VALUE}
  BY <1>1, <1>2 DEF SetsAhead
<1>5. B = {n \in 1..(Len(m) + 1) : n > i.idx + 1 /\ j.counts[n] = RESULT_SET_VALUE}
  BY <1>1, <1>3 DEF SetsAhead
<1>6. Len(m) + 1 > i.idx + 1
  BY <1>1, <1>2
<1>7. u # RESULT_SET_VALUE => B = A
  BY ONLY <1>2, <1>3, <1>4, <1>5
<1>8. u = RESULT_SET_VALUE => B = A \cup {Len(m) + 1} /\ Len(m) + 1 \notin A
  BY ONLY <1>2, <1>3, <1>4, <1>5, <1>6, SMTT(30)
<1>9. IsFiniteSet(A)
  BY <1>1, AheadIsFinite
<1>10. u = RESULT_SET_VALUE => Cardinality(B) = Cardinality(A) + 1
  BY <1>8, <1>9, FS_AddElement
<1> QED
  BY <1>1, <1>7, <1>10

(* The counts stay those of the answers read when one more is read.             *)
LEMMA CountsGrow ==
  ASSUME NEW i, NEW j, NEW script, NEW rest, IsList(i), script \in Seq(Int), rest \in Nat, rest > 0, rest <= Len(script),
         CountsRight(i, script, rest), j.counts = Append(i.counts, Answer(script[Len(script) - rest + 1]))
  PROVE  CountsRight(j, script, rest - 1) /\ Len(i.counts) = Len(script) - rest
<1>1. PICK m, u, l : m = i.counts /\ l = Len(script) - rest /\ u = Answer(script[l + 1])
  OBVIOUS
<1>2. m \in Seq(Int) /\ u \in Int
  BY <1>1, AnswerIs DEF IsList
<1>3. Len(m) = l /\ l >= 1 /\ l \in Nat /\ \A n \in 1..l : m[n] = Answer(script[n])
  BY <1>1 DEF CountsRight
<1>a. PICK q : q = j.counts
  OBVIOUS
<1>b. q = Append(m, u)
  BY <1>1, <1>a
<1>4. /\ DOMAIN q = 1..(l + 1) /\ q[l + 1] = u /\ Len(q) = l + 1
      /\ \A n \in 1..l : q[n] = m[n]
  BY ONLY <1>b, <1>2, <1>3
<1>5. \A n \in 1..(l + 1) : n \in DOMAIN q /\ q[n] = Answer(script[n])
  <2> SUFFICES ASSUME NEW n \in 1..(l + 1) PROVE q[n] = Answer(script[n])
    BY <1>4
  <2>1. n \in 1..l \/ n = l + 1
    BY <1>3
  <2> QED
    BY <1>1, <1>3, <1>4, <2>1
<1>6. Len(script) - (rest - 1) = l + 1 /\ l + 1 >= 1
  BY <1>1, <1>3
<1>7. CountsRight(j, script, rest - 1)
  BY ONLY <1>a, <1>4, <1>5, <1>6 DEF CountsRight
<1> QED
  BY <1>1, <1>3, <1>7

(* They do so when the last answer, an error, is noted twice.                   *)
LEMMA ErrorTwice ==
  ASSUME NEW j, NEW k, NEW script, IsList(j), script \in Seq(Int), script # <<>>,
         CountsRight(j, script, 0), Len(j.counts) = Len(script), script[Len(script)] = ErrPart,
         k.counts = Append(j.counts, EXECUTE_FAILED)
  PROVE  CountsRight(k, script, 0)
<1>1. PICK m, l : m = j.counts /\ l = Len(script)
  OBVIOUS
<1>2. m \in Seq(Int) /\ EXECUTE_FAILED \in Int
  BY <1>1, AnswerIs DEF IsList
<1>3. Len(m) = l /\ l >= 1 /\ l \in Nat /\ \A n \in 1..l : m[n] = Answer(script[n])
  BY <1>1 DEF CountsRight
<1>4. /\ DOMAIN k.counts = 1..(l + 1) /\ k.counts[l + 1] = EXECUTE_FAILED /\ Len(k.counts) = l + 1
      /\ \A n \in 1..l : k.counts[n] = m[n]
  BY <1>1, <1>2, <1>3
<1>5. \A n \in 1..l : n \in DOMAIN k.counts /\ k.counts[n] = Answer(script[n])
  BY <1>1, <1>3, <1>4
<1> QED
  BY <1>1, <1>3, <1>4, <1>5 DEF CountsRight

(* The answers of a command: at least one, an error only as the last.           *)
LEMMA ScriptIs ==
  ASSUME NEW script, script \in Scripts
  PROVE  /\ script \in Seq(Int) /\ script # <<>> /\ Len(script) \in Nat /\ Len(script) >= 1
         /\ \A n \in 1..Len(script) : script[n] \in Int /\ (script[n] = ErrPart => n = Len(script))
<1>1. script \in Seq(Int) /\ script # <<>>
  BY ResultsAssumption
<1>2. DOMAIN script = 1..Len(script) /\ Len(script) \in Nat
  BY <1>1
<1>3. \A n \in DOMAIN script : script[n] = ErrPart => n = Len(script)
  BY ResultsAssumption
<1>4. Len(script) >= 1 /\ \A n \in 1..Len(script) : script[n] \in Int
  BY ONLY <1>1
<1> QED
  BY ONLY <1>1, <1>2, <1>3, <1>4

(* Reading an answer leaves the rest of the command's answers on the wire.      *)
LEMMA SuffixFirst ==
  ASSUME NEW w, NEW p, NEW v, NEW script, Suffix(w, script), script \in Seq(Int), First(w, p, v)
  PROVE  /\ Suffix(v, script) /\ Len(v) = Len(w) - 1 /\ Len(w) \in Nat /\ Len(w) > 0 /\ p = script[Len(script) - Len(w) + 1]
         /\ p \in Int /\ Len(script) - Len(w) + 1 \in 1..Len(script)
<1>1. w \in Seq(Int) /\ w # <<>> /\ Len(w) \in Nat /\ Len(w) > 0 /\ Len(w) <= Len(script) /\ Len(script) \in Nat
  BY DEF Suffix, First
<1>2. v = Tail(w) /\ p = w[1] /\ p \in Int
  BY <1>1 DEF First
<1>3. v \in Seq(Int) /\ Len(v) = Len(w) - 1 /\ \A n \in 1..(Len(w) - 1) : v[n] = w[n + 1]
  BY <1>1, <1>2
<1>4. \A n \in 1..Len(w) : w[n] = script[Len(script) - Len(w) + n]
  BY DEF Suffix
<1>5. ASSUME NEW n \in 1..Len(v) PROVE v[n] = script[Len(script) - Len(v) + n]
  <2>1. n \in 1..(Len(w) - 1) /\ n + 1 \in 1..Len(w) /\ Len(script) - Len(v) + n = Len(script) - Len(w) + (n + 1)
    BY <1>1, <1>3
  <2> QED
    BY <1>3, <1>4, <2>1
<1>6. p = script[Len(script) - Len(w) + 1]
  BY <1>1, <1>2, <1>4
<1>7. Len(v) <= Len(script) /\ Len(script) - Len(w) + 1 \in 1..Len(script)
  BY <1>1, <1>3
<1> QED
  BY <1>1, <1>2, <1>3, <1>5, <1>6, <1>7 DEF Suffix

(* A result set of p rows is added to those of a statement.                     *)
SetAdded(S, ahead, p, Q, l) == Q = Append(S, NewSet(p, 0)) /\ l = Append(ahead, Len(S) + 1)

(* A statement's next answer is read: what is known before.                     *)
LEMMA BeforeAnswer ==
  ASSUME NEW i, NEW ahead, NEW S, NEW script, NEW w, NEW p, NEW v,
         Reads(i, ahead, S, script, w), First(w, p, v)
  PROVE  /\ IsList(i) /\ AllSets(S) /\ ~HasUnread(S) /\ ahead \in Seq(1..Len(S)) /\ script \in Scripts
         /\ Suffix(w, script) /\ CountsRight(i, script, Len(w)) /\ i.idx + 1 <= Len(script) - Len(w)
         /\ Len(ahead) = Cardinality(SetsAhead(i))
         /\ script \in Seq(Int) /\ Len(script) \in Nat /\ script # <<>>
         /\ Suffix(v, script) /\ Len(v) = Len(w) - 1 /\ Len(w) \in Nat /\ Len(w) > 0 /\ p = script[Len(script) - Len(w) + 1]
         /\ p \in Int /\ Len(script) - Len(w) + 1 \in 1..Len(script) /\ Len(w) <= Len(script)
         /\ Len(i.counts) = Len(script) - Len(w) /\ i.idx + 1 <= Len(i.counts) /\ i.idx \in Nat
         /\ i.idx + 1 <= Len(script) - Len(v)
<1>1. /\ IsList(i) /\ AllSets(S) /\ ~HasUnread(S) /\ ahead \in Seq(1..Len(S)) /\ script \in Scripts
      /\ Suffix(w, script) /\ CountsRight(i, script, Len(w)) /\ i.idx + 1 <= Len(script) - Len(w)
      /\ Len(ahead) = Cardinality(SetsAhead(i))
  BY DEF Reads
<1>2. script \in Seq(Int) /\ Len(script) \in Nat /\ script # <<>>
  BY <1>1, ScriptIs
<1>3. /\ Suffix(v, script) /\ Len(v) = Len(w) - 1 /\ Len(w) \in Nat /\ Len(w) > 0 /\ p = script[Len(script) - Len(w) + 1]
      /\ p \in Int /\ Len(script) - Len(w) + 1 \in 1..Len(script) /\ Len(w) <= Len(script)
  BY <1>1, <1>2, SuffixFirst DEF Suffix
<1>4. Len(i.counts) = Len(script) - Len(w) /\ i.idx + 1 <= Len(i.counts) /\ i.idx \in Nat
  <2>1. Len(i.counts) = Len(script) - Len(w)
    BY <1>1, <1>2, <1>3 DEF CountsRight
  <2> QED
    BY <1>1, <2>1 DEF IsList
<1>5. i.idx + 1 <= Len(script) - Len(v)
  BY <1>1, <1>2, <1>3, <1>4
<1> QED
  BY <1>1, <1>2, <1>3, <1>4, <1>5

(* The answer is counted.                                                       *)
LEMMA AnswerCounted ==
  ASSUME NEW i, NEW ahead, NEW S, NEW script, NEW w, NEW p, NEW v, NEW j,
         Reads(i, ahead, S, script, w), First(w, p, v), IsList(j), j.counts = Append(i.counts, Answer(p))
  PROVE  CountsRight(j, script, Len(v))
<1>1. /\ IsList(i) /\ AllSets(S) /\ ~HasUnread(S) /\ ahead \in Seq(1..Len(S)) /\ script \in Scripts
      /\ Suffix(w, script) /\ CountsRight(i, script, Len(w)) /\ i.idx + 1 <= Len(script) - Len(w)
      /\ Len(ahead) = Cardinality(SetsAhead(i))
      /\ script \in Seq(Int) /\ Len(script) \in Nat /\ script # <<>>
      /\ Suffix(v, script) /\ Len(v) = Len(w) - 1 /\ Len(w) \in Nat /\ Len(w) > 0 /\ p = script[Len(script) - Len(w) + 1]
      /\ p \in Int /\ Len(script) - Len(w) + 1 \in 1..Len(script) /\ Len(w) <= Len(script)
      /\ Len(i.counts) = Len(script) - Len(w) /\ i.idx + 1 <= Len(i.counts) /\ i.idx \in Nat
      /\ i.idx + 1 <= Len(script) - Len(v)
  BY BeforeAnswer
<1>2. PICK n : n = Len(w)
  OBVIOUS
<1>3. CountsRight(i, script, n) /\ n \in Nat /\ n > 0 /\ n <= Len(script) /\ p = script[Len(script) - n + 1]
  BY <1>1, <1>2
<1>4. j.counts = Append(i.counts, Answer(script[Len(script) - n + 1]))
  BY <1>3
<1>5. CountsRight(j, script, n - 1)
  BY ONLY <1>1, <1>3, <1>4, CountsGrow
<1> QED
  BY <1>1, <1>2, <1>5

(* An update count.                                                             *)
LEMMA OkReads ==
  ASSUME NEW i, NEW ahead, NEW S, NEW script, NEW w, NEW p, NEW v, NEW more,
         Reads(i, ahead, S, script, w), First(w, p, v), p = OkPart
  PROVE  Reads(OkNoted(i, more), ahead, S, script, v) /\ OkNoted(i, more).idx = i.idx
<1>1. /\ IsList(i) /\ AllSets(S) /\ ~HasUnread(S) /\ ahead \in Seq(1..Len(S)) /\ script \in Scripts
      /\ Suffix(w, script) /\ CountsRight(i, script, Len(w)) /\ i.idx + 1 <= Len(script) - Len(w)
      /\ Len(ahead) = Cardinality(SetsAhead(i))
      /\ script \in Seq(Int) /\ Len(script) \in Nat /\ script # <<>>
      /\ Suffix(v, script) /\ Len(v) = Len(w) - 1 /\ Len(w) \in Nat /\ Len(w) > 0 /\ p = script[Len(script) - Len(w) + 1]
      /\ p \in Int /\ Len(script) - Len(w) + 1 \in 1..Len(script) /\ Len(w) <= Len(script)
      /\ Len(i.counts) = Len(script) - Len(w) /\ i.idx + 1 <= Len(i.counts) /\ i.idx \in Nat
      /\ i.idx + 1 <= Len(script) - Len(v)
  BY BeforeAnswer
<1>2. PICK j : j = OkNoted(i, more)
  OBVIOUS
<1>3. IsList(j) /\ j.idx = i.idx /\ j.counts = Append(i.counts, 1)
  BY <1>1, <1>2, NotedInList
<1>4. Answer(p) = 1 /\ Answer(p) \in Int /\ Answer(p) # RESULT_SET_VALUE
  BY AnswerIs DEF OkPart, ErrPart
<1>5. CountsRight(j, script, Len(v))
  BY AnswerCounted, <1>3, <1>4
<1>6. SetsAhead(j) = SetsAhead(i)
  BY <1>1, <1>3, <1>4, AheadGrows
<1>7. j.idx + 1 <= Len(script) - Len(v)
  BY <1>1, <1>3
<1>8. Reads(j, ahead, S, script, v)
  BY <1>1, <1>3, <1>5, <1>6, <1>7 DEF Reads
<1> QED
  BY <1>2, <1>3, <1>8

(* A result set.                                                                *)
LEMMA SetReads ==
  ASSUME NEW i, NEW ahead, NEW S, NEW script, NEW w, NEW p, NEW v, NEW more, NEW Q, NEW l,
         Reads(i, ahead, S, script, w), First(w, p, v), p # OkPart, p # ErrPart, SetAdded(S, ahead, p, Q, l)
  PROVE  Reads(SetNoted(i, more), l, Q, script, v) /\ SetNoted(i, more).idx = i.idx
<1>1. /\ IsList(i) /\ AllSets(S) /\ ~HasUnread(S) /\ ahead \in Seq(1..Len(S)) /\ script \in Scripts
      /\ Suffix(w, script) /\ CountsRight(i, script, Len(w)) /\ i.idx + 1 <= Len(script) - Len(w)
      /\ Len(ahead) = Cardinality(SetsAhead(i))
      /\ script \in Seq(Int) /\ Len(script) \in Nat /\ script # <<>>
      /\ Suffix(v, script) /\ Len(v) = Len(w) - 1 /\ Len(w) \in Nat /\ Len(w) > 0 /\ p = script[Len(script) - Len(w) + 1]
      /\ p \in Int /\ Len(script) - Len(w) + 1 \in 1..Len(script) /\ Len(w) <= Len(script)
      /\ Len(i.counts) = Len(script) - Len(w) /\ i.idx + 1 <= Len(i.counts) /\ i.idx \in Nat
      /\ i.idx + 1 <= Len(script) - Len(v)
  BY BeforeAnswer
<1>2. PICK j, e : j = SetNoted(i, more) /\ e = NewSet(p, 0) /\ Q = Append(S, e) /\ l = Append(ahead, Len(S) + 1)
  BY DEF SetAdded
<1>3. IsList(j) /\ j.idx = i.idx /\ j.counts = Append(i.counts, RESULT_SET_VALUE)
  BY <1>1, <1>2, NotedInList
<1>4. Answer(p) = RESULT_SET_VALUE /\ Answer(p) \in Int
  BY AnswerIs
<1>5. CountsRight(j, script, Len(v))
  BY AnswerCounted, <1>3, <1>4
<1>6. Cardinality(SetsAhead(j)) = Cardinality(SetsAhead(i)) + 1
  BY <1>1, <1>3, <1>4, AheadGrows
<1>7. j.idx + 1 <= Len(script) - Len(v)
  BY <1>1, <1>3
<1>8. IsSet(e) /\ e.isEof
  BY <1>1, <1>2, NewSetIs
<1>9. AllSets(Q) /\ Len(Q) = Len(S) + 1 /\ Q[Len(S) + 1] = e /\ \A k \in 1..Len(S) : Q[k] = S[k]
  BY <1>1, <1>2, <1>8, SequenceOfSets
<1>10. DOMAIN S = 1..Len(S) /\ DOMAIN Q = 1..(Len(S) + 1) /\ Len(S) \in Nat
  BY <1>1, <1>9 DEF AllSets
<1>a. (\A k \in 1..Len(S) : S[k].isEof) /\ ahead \in Seq(1..Len(S))
  BY <1>1, <1>10 DEF HasUnread
<1>11. ~HasUnread(Q)
  BY ONLY <1>a, <1>8, <1>9, <1>10 DEF HasUnread
<1>12. l \in Seq(1..Len(Q)) /\ Len(l) = Len(ahead) + 1
  <2>1. PICK K, n : K = 1..(Len(S) + 1) /\ n = Len(S) + 1
    OBVIOUS
  <2>2. ahead \in Seq(K) /\ n \in K
    BY ONLY <1>a, <1>10, <2>1
  <2>3. l = Append(ahead, n)
    BY <1>2, <2>1
  <2>4. l \in Seq(K) /\ Len(l) = Len(ahead) + 1
    BY ONLY <2>2, <2>3
  <2> QED
    BY <1>9, <2>1, <2>4
<1>13. Len(l) = Cardinality(SetsAhead(j))
  BY <1>1, <1>6, <1>12
<1>14. Reads(j, l, Q, script, v)
  BY <1>1, <1>3, <1>5, <1>7, <1>9, <1>11, <1>12, <1>13 DEF Reads
<1> QED
  BY <1>2, <1>3, <1>14

(* An error.                                                                    *)
LEMMA ErrorReads ==
  ASSUME NEW i, NEW ahead, NEW S, NEW script, NEW w, NEW p, NEW v,
         Reads(i, ahead, S, script, w), First(w, p, v), p = ErrPart
  PROVE  /\ Reads(ErrNoted(ErrNoted(i)), ahead, S, script, v) /\ v = <<>> /\ script[Len(script)] = ErrPart
         /\ ErrNoted(ErrNoted(i)).idx = i.idx
<1>1. /\ IsList(i) /\ AllSets(S) /\ ~HasUnread(S) /\ ahead \in Seq(1..Len(S)) /\ script \in Scripts
      /\ Suffix(w, script) /\ CountsRight(i, script, Len(w)) /\ i.idx + 1 <= Len(script) - Len(w)
      /\ Len(ahead) = Cardinality(SetsAhead(i))
      /\ script \in Seq(Int) /\ Len(script) \in Nat /\ script # <<>>
      /\ Suffix(v, script) /\ Len(v) = Len(w) - 1 /\ Len(w) \in Nat /\ Len(w) > 0 /\ p = script[Len(script) - Len(w) + 1]
      /\ p \in Int /\ Len(script) - Len(w) + 1 \in 1..Len(script) /\ Len(w) <= Len(script)
      /\ Len(i.counts) = Len(script) - Len(w) /\ i.idx + 1 <= Len(i.counts) /\ i.idx \in Nat
      /\ i.idx + 1 <= Len(script) - Len(v)
  BY BeforeAnswer
<1>2. PICK j, k : j = ErrNoted(i) /\ k = ErrNoted(j)
  OBVIOUS
<1>3. IsList(j) /\ j.idx = i.idx /\ j.counts = Append(i.counts, EXECUTE_FAILED)
  BY <1>1, <1>2, NotedInList
<1>4. IsList(k) /\ k.idx = j.idx /\ k.counts = Append(j.counts, EXECUTE_FAILED)
  BY <1>2, <1>3, NotedInList
<1>5. Answer(p) = EXECUTE_FAILED /\ EXECUTE_FAILED \in Int /\ EXECUTE_FAILED # RESULT_SET_VALUE
  BY AnswerIs
<1>6. CountsRight(j, script, Len(v))
  BY AnswerCounted, <1>3, <1>5
<1>7. Len(script) - Len(w) + 1 = Len(script) /\ Len(v) = 0
  <2>1. PICK n : n = Len(script) - Len(w) + 1
    OBVIOUS
  <2>2. n \in 1..Len(script) /\ script[n] = ErrPart
    BY <1>1, <2>1
  <2>3. n = Len(script)
    BY ONLY <1>1, <2>2, ScriptIs
  <2> QED
    BY <1>1, <2>1, <2>3
<1>8. v = <<>> /\ script[Len(script)] = ErrPart
  <2>1. v \in Seq(Int)
    BY <1>1 DEF Suffix
  <2>2. p = script[Len(script)]
    BY ONLY <1>1, <1>7
  <2> QED
    BY <1>7, <2>1, <2>2
<1>9. Len(j.counts) = Len(script) /\ i.counts \in Seq(Int)
  BY <1>1, <1>3, <1>5, <1>7 DEF IsList
<1>10. CountsRight(k, script, Len(v))
  <2>1. CountsRight(j, script, 0)
    BY <1>6, <1>7
  <2>2. CountsRight(k, script, 0)
    BY ONLY <1>1, <1>3, <1>4, <1>8, <1>9, <2>1, ErrorTwice
  <2> QED
    BY <1>7, <2>2
<1>11. SetsAhead(j) = SetsAhead(i)
  BY <1>1, <1>3, <1>5, AheadGrows
<1>12. j.idx + 1 <= Len(j.counts)
  BY <1>1, <1>3, <1>7, <1>9
<1>13. SetsAhead(k) = SetsAhead(j)
  BY <1>3, <1>4, <1>5, <1>12, AheadGrows
<1>14. k.idx + 1 <= Len(script) - Len(v)
  BY <1>1, <1>3, <1>4
<1>15. Reads(k, ahead, S, script, v)
  BY <1>1, <1>4, <1>10, <1>11, <1>13, <1>14 DEF Reads
<1> QED
  BY <1>2, <1>3, <1>4, <1>8, <1>15

(* nextResult, for a statement without a fetch size whose answers are on the    *)
(* wire.                                                                        *)
LEMMA NextAt ==
  ASSUME NEW c, NEW s, NEW caching, NEW i, NEW ahead, NEW current, NEW released, NEW S, NEW w, NEW m, NEW a, NEW script, NEW d,
         s \in Stmts, caching \in BOOLEAN, a \in {s, Nobody}, w # <<>>, Reads(i, ahead, S, script, w),
         d = NextResult(At(c, s, Rec(0, Yes, caching, i, ahead, current, released), S, w, m, a, No), s)
  PROVE  \E j, ex, Q, v, more, b, x :
           /\ d = At(c, s, Rec(0, more, caching, j, ex, current, released), Q, v, more, b, x)
           /\ Reads(j, ex, Q, script, v) /\ j.idx = i.idx /\ Len(v) = Len(w) - 1 /\ Len(Q) >= Len(S)
           /\ more \in BOOLEAN /\ (more <=> v # <<>>) /\ b \in {s, Nobody} /\ (~more => b = Nobody) /\ (a = s /\ more => b = s)
           /\ x \in BOOLEAN /\ (x <=> Head(w) = ErrPart) /\ (x => v = <<>> /\ script[Len(script)] = ErrPart)
<1>1. PICK p, v : First(w, p, v)
  BY DEF First
<1>2. p = Head(w)
  BY <1>1 DEF First
<1>3. AllSets(S) /\ script \in Seq(Int) /\ Suffix(w, script) /\ Len(S) \in Nat
  BY ScriptIs DEF Reads, AllSets
<1>4. Len(v) = Len(w) - 1 /\ p \in Int
  BY <1>1, <1>3, SuffixFirst
<1>5. PICK more : more \in BOOLEAN /\ (more <=> v # <<>>)
  OBVIOUS
<1>6. CASE p = OkPart
  <2>1. PICK j, b : j = OkNoted(i, more) /\ b = IF ~more THEN Nobody ELSE a
    OBVIOUS
  <2>2. d = At(c, s, Rec(0, more, caching, j, ahead, current, released), S, v, more, b, No)
    BY ONLY <1>1, <1>3, <1>5, <1>6, <2>1, NextOkAt, s \in Stmts, caching \in BOOLEAN, a \in {s, Nobody},
            d = NextResult(At(c, s, Rec(0, Yes, caching, i, ahead, current, released), S, w, m, a, No), s)
  <2>3. Reads(j, ahead, S, script, v) /\ j.idx = i.idx
    BY ONLY <1>1, <1>6, <2>1, OkReads, Reads(i, ahead, S, script, w)
  <2>4. b \in {s, Nobody} /\ (~more => b = Nobody) /\ (a = s /\ more => b = s)
    BY <2>1
  <2>5. No \in BOOLEAN /\ ~No /\ Head(w) # ErrPart
    BY <1>2, <1>6, Booleans, YesNo DEF OkPart, ErrPart
  <2>6. Len(S) >= Len(S)
    BY <1>3
  <2> QED
    BY <1>4, <1>5, <2>2, <2>3, <2>4, <2>5, <2>6
<1>7. CASE p = ErrPart
  <2>1. PICK j : j = ErrNoted(ErrNoted(i))
    OBVIOUS
  <2>2. d = At(c, s, Rec(0, No, caching, j, ahead, current, released), S, v, No, Nobody, Yes)
    BY ONLY <1>1, <1>3, <1>7, <2>1, NextErrorAt, s \in Stmts, caching \in BOOLEAN, a \in {s, Nobody},
            d = NextResult(At(c, s, Rec(0, Yes, caching, i, ahead, current, released), S, w, m, a, No), s)
  <2>3. Reads(j, ahead, S, script, v) /\ j.idx = i.idx /\ v = <<>> /\ script[Len(script)] = ErrPart
    BY ONLY <1>1, <1>7, <2>1, ErrorReads, Reads(i, ahead, S, script, w)
  <2>4. No \in BOOLEAN /\ ~No /\ Yes \in BOOLEAN /\ Yes /\ Head(w) = ErrPart
    BY <1>2, <1>7, Booleans, YesNo
  <2>5. Len(S) >= Len(S)
    BY <1>3
  <2> QED
    BY <1>4, <2>2, <2>3, <2>4, <2>5
<1>8. CASE p # OkPart /\ p # ErrPart
  <2>1. PICK j, b, n, ex, Q : j = SetNoted(i, more) /\ b = (IF more THEN s ELSE Nobody) /\ n = Len(S) + 1 /\ ex = Append(ahead, n)
                              /\ Q = Append(S, NewSet(p, 0))
    OBVIOUS
  <2>2. d = At(c, s, Rec(0, more, caching, j, ex, current, released), Q, v, more, b, No)
    BY ONLY <1>1, <1>3, <1>4, <1>5, <1>8, <2>1, NextSetAt, s \in Stmts, caching \in BOOLEAN, a \in {s, Nobody},
            d = NextResult(At(c, s, Rec(0, Yes, caching, i, ahead, current, released), S, w, m, a, No), s)
  <2>3. Reads(j, ex, Q, script, v) /\ j.idx = i.idx
    <3>1. SetAdded(S, ahead, p, Q, ex) /\ j = SetNoted(i, more)
      BY <2>1 DEF SetAdded
    <3> QED
      BY ONLY <1>1, <1>8, <3>1, SetReads, Reads(i, ahead, S, script, w)
  <2>4. b \in {s, Nobody} /\ (~more => b = Nobody) /\ (a = s /\ more => b = s)
    BY <2>1
  <2>5. No \in BOOLEAN /\ ~No /\ Head(w) # ErrPart
    BY <1>2, <1>8, Booleans, YesNo
  <2>6. Len(Q) >= Len(S)
    BY <1>3, <2>1 DEF AllSets
  <2> QED
    BY <1>4, <1>5, <2>2, <2>3, <2>4, <2>5, <2>6
<1> QED
  BY <1>6, <1>7, <1>8

(* The recursion of loadFully's loop is what it says.                           *)
IsKeeping(c, s, n, h) == h = [i \in 0..n |-> IF i = 0 THEN c ELSE KeepNext(h[i - 1], s)]

(* The loop of loadFully: each round reads one answer.                          *)
LEMMA KeepingIs ==
  ASSUME NEW c, NEW s, Len(c.wire) \in Nat
  PROVE  /\ Keeping(c, s)[0] = c
         /\ \A i \in 1..Len(c.wire) : Keeping(c, s)[i] = KeepNext(Keeping(c, s)[i - 1], s)
<1>1. PICK n \in Nat : n = Len(c.wire)
  OBVIOUS
<1>2. PICK H : H = {m \in 0..n : \E h : IsKeeping(c, s, m, h)}
  OBVIOUS
<1>3. 0 \in H
  <2>1. PICK h : h = [i \in 0..0 |-> c]
    OBVIOUS
  <2>2. IsKeeping(c, s, 0, h)
    BY <2>1 DEF IsKeeping
  <2> QED
    BY <1>2, <2>2
<1>4. ASSUME NEW m \in 1..n, m - 1 \in H PROVE m \in H
  <2>1. PICK h : IsKeeping(c, s, m - 1, h)
    BY <1>2, <1>4
  <2>2. PICK g : g = [i \in 0..m |-> IF i = m THEN KeepNext(h[m - 1], s) ELSE h[i]]
    OBVIOUS
  <2>3. /\ \A i \in 0..(m - 1) : h[i] = IF i = 0 THEN c ELSE KeepNext(h[i - 1], s)
    BY <2>1 DEF IsKeeping
  <2>4. ASSUME NEW i \in 0..m PROVE g[i] = IF i = 0 THEN c ELSE KeepNext(g[i - 1], s)
    <3>1. CASE i = m
      BY <2>2, <3>1
    <3>2. CASE i = 0
      BY <2>2, <2>3, <3>2
    <3>3. CASE i # m /\ i # 0
      BY <2>2, <2>3, <3>3
    <3> QED
      BY <3>1, <3>2, <3>3
  <2>5. IsKeeping(c, s, m, g)
    BY <2>2, <2>4 DEF IsKeeping
  <2> QED
    BY <1>2, <2>5
<1>5. n \in H
  <2>1. 0..n \subseteq H
    BY <1>3, <1>4, EveryNumber
  <2> QED
    BY <2>1
<1>6. \E h : IsKeeping(c, s, n, h)
  BY <1>2, <1>5
<1>7. Keeping(c, s) = CHOOSE h : IsKeeping(c, s, n, h)
  BY <1>1 DEF Keeping, IsKeeping
<1>8. IsKeeping(c, s, n, Keeping(c, s))
  BY <1>6, <1>7
<1> QED
  BY <1>1, <1>8 DEF IsKeeping

(* The answers of a statement that another one's command has read, all but n.   *)
KeptSoFar(c, s, caching, current, released, idx, l, script, n, e) ==
  \E j, ex, Q, v, more, b, x :
    /\ e = At(c, s, Rec(0, more, caching, j, ex, current, released), Q, v, more, b, x)
    /\ Reads(j, ex, Q, script, v) /\ j.idx = idx /\ Len(v) <= n /\ Len(Q) >= l
    /\ more \in BOOLEAN /\ (more <=> v # <<>>) /\ (more => b = s /\ ~x) /\ (~more => b = Nobody)
    /\ x \in BOOLEAN /\ (x => script[Len(script)] = ErrPart)

(* A round of that loop keeps what is true of the answers read so far.          *)
LEMMA KeepsOn ==
  ASSUME NEW c, NEW s, NEW caching, NEW current, NEW released, NEW idx, NEW l, NEW script, NEW n, NEW e, NEW d,
         s \in Stmts, caching \in BOOLEAN, n \in Nat, n > 0, l \in Nat,
         KeptSoFar(c, s, caching, current, released, idx, l, script, n, e), d = KeepNext(e, s)
  PROVE  KeptSoFar(c, s, caching, current, released, idx, l, script, n - 1, d)
<1>1. PICK j, ex, Q, v, more, b, x :
        /\ e = At(c, s, Rec(0, more, caching, j, ex, current, released), Q, v, more, b, x)
        /\ Reads(j, ex, Q, script, v) /\ j.idx = idx /\ Len(v) <= n /\ Len(Q) >= l
        /\ more \in BOOLEAN /\ (more <=> v # <<>>) /\ (more => b = s /\ ~x) /\ (~more => b = Nobody)
        /\ x \in BOOLEAN /\ (x => script[Len(script)] = ErrPart)
  BY DEF KeptSoFar
<1>2. e.more = more /\ e.raised = x /\ e.fault = "none"
  BY <1>1, AtIs
<1>3. CASE ~more
  <2>1. d = e
    BY <1>2, <1>3 DEF KeepNext
  <2>2. Len(v) <= n - 1
    BY <1>1, <1>3
  <2> QED
    BY <1>1, <2>1, <2>2 DEF KeptSoFar
<1>4. CASE more
  <2>1. d = NextResult(e, s)
    BY <1>1, <1>2, <1>4 DEF KeepNext
  <2>2. more = Yes /\ x = No /\ b = s /\ b \in {s, Nobody} /\ v # <<>>
    BY <1>1, <1>4, YesNo
  <2>3. d = NextResult(At(c, s, Rec(0, Yes, caching, j, ex, current, released), Q, v, more, b, No), s)
    BY ONLY <1>1, <2>1, <2>2
  <2>4. Reads(j, ex, Q, script, v)
    BY <1>1
  <2>5. PICK jj, xx, P, u, m, a, y :
           /\ d = At(c, s, Rec(0, m, caching, jj, xx, current, released), P, u, m, a, y)
           /\ Reads(jj, xx, P, script, u) /\ jj.idx = j.idx /\ Len(u) = Len(v) - 1 /\ Len(P) >= Len(Q)
           /\ m \in BOOLEAN /\ (m <=> u # <<>>) /\ a \in {s, Nobody} /\ (~m => a = Nobody) /\ (b = s /\ m => a = s)
           /\ y \in BOOLEAN /\ (y <=> Head(v) = ErrPart) /\ (y => u = <<>> /\ script[Len(script)] = ErrPart)
    BY ONLY <2>2, <2>3, <2>4, NextAt, s \in Stmts, caching \in BOOLEAN
  <2>6. jj.idx = idx
    BY <1>1, <2>5
  <2>7. Len(v) \in Nat /\ Len(Q) \in Nat /\ Len(P) \in Nat
    <3>1. v \in Seq(Int) /\ AllSets(Q) /\ AllSets(P)
      BY <2>4, <2>5 DEF Reads, Suffix
    <3> QED
      BY <3>1 DEF AllSets
  <2>8. Len(u) <= n - 1 /\ Len(P) >= l
    BY <1>1, <2>5, <2>7
  <2>9. (m => a = s /\ ~y) /\ (y => script[Len(script)] = ErrPart)
    BY <2>2, <2>5
  <2> QED
    BY ONLY <2>5, <2>6, <2>8, <2>9 DEF KeptSoFar
<1> QED
  BY <1>3, <1>4, <1>1

(* loadFully's loop reads the answers of a statement to their end.              *)
LEMMA KeepRestAt ==
  ASSUME NEW c, NEW s, NEW caching, NEW i, NEW ahead, NEW current, NEW released, NEW S, NEW w, NEW script, NEW e, NEW d,
         s \in Stmts, caching \in BOOLEAN, w # <<>>, Reads(i, ahead, S, script, w),
         e = At(c, s, Rec(0, Yes, caching, i, ahead, current, released), S, w, Yes, s, No), d = KeepRest(e, s)
  PROVE  \E j, ex, Q, x :
           /\ d = At(c, s, Rec(0, No, caching, j, ex, current, released), Q, <<>>, No, Nobody, x)
           /\ Reads(j, ex, Q, script, <<>>) /\ j.idx = i.idx /\ Len(Q) >= Len(S) /\ x \in BOOLEAN
<1>1. PICK h, n, l, idx : h = Keeping(e, s) /\ n = Len(w) /\ l = Len(S) /\ idx = i.idx
  OBVIOUS
<1>2. n \in Nat /\ l \in Nat
  BY <1>1 DEF Reads, Suffix, AllSets
<1>3. e.wire = w
  BY AtIs
<1>4. h[0] = e /\ (\A k \in 1..n : h[k] = KeepNext(h[k - 1], s)) /\ d = h[n]
  BY <1>1, <1>2, <1>3, KeepingIs DEF KeepRest
<1>5. PICK H : H = {k \in 0..n : KeptSoFar(c, s, caching, current, released, idx, l, script, n - k, h[k])}
  OBVIOUS
<1>6. 0 \in H
  <2>1. Len(w) <= n /\ Len(S) >= l /\ i.idx = idx
    BY <1>1, <1>2
  <2>2. Yes \in BOOLEAN /\ No \in BOOLEAN /\ Yes /\ ~No
    BY YesNo, Booleans
  <2>3. KeptSoFar(c, s, caching, current, released, idx, l, script, n, e)
    BY ONLY <2>1, <2>2, w # <<>>, Reads(i, ahead, S, script, w),
            e = At(c, s, Rec(0, Yes, caching, i, ahead, current, released), S, w, Yes, s, No) DEF KeptSoFar
  <2>4. n - 0 = n
    BY <1>2
  <2> QED
    BY <1>2, <1>4, <1>5, <2>3, <2>4
<1>7. ASSUME NEW k \in 1..n, k - 1 \in H PROVE k \in H
  <2>1. PICK g, m : g = h[k - 1] /\ m = n - (k - 1)
    OBVIOUS
  <2>2. KeptSoFar(c, s, caching, current, released, idx, l, script, m, g)
    BY <1>5, <1>7, <2>1
  <2>3. m \in Nat /\ m > 0 /\ m - 1 = n - k
    BY <1>2, <2>1
  <2>4. h[k] = KeepNext(g, s)
    BY <1>4, <2>1
  <2>5. KeptSoFar(c, s, caching, current, released, idx, l, script, m - 1, h[k])
    BY ONLY <1>2, <2>2, <2>3, <2>4, KeepsOn, s \in Stmts, caching \in BOOLEAN
  <2> QED
    BY <1>2, <1>5, <2>3, <2>5
<1>8. 0..n \subseteq H
  BY <1>2, <1>6, <1>7, EveryNumber
<1>9. n - n = 0 /\ n \in H
  BY <1>2, <1>8
<1>10. KeptSoFar(c, s, caching, current, released, idx, l, script, 0, d)
  BY <1>4, <1>5, <1>9
<1>11. PICK j, ex, Q, v, more, b, x :
         /\ d = At(c, s, Rec(0, more, caching, j, ex, current, released), Q, v, more, b, x)
         /\ Reads(j, ex, Q, script, v) /\ j.idx = idx /\ Len(v) <= 0 /\ Len(Q) >= l
         /\ more \in BOOLEAN /\ (more <=> v # <<>>) /\ (more => b = s /\ ~x) /\ (~more => b = Nobody)
         /\ x \in BOOLEAN /\ (x => script[Len(script)] = ErrPart)
  BY <1>10 DEF KeptSoFar
<1>12. v = <<>>
  BY <1>11 DEF Reads, Suffix
<1>13. more = No /\ b = Nobody
  BY <1>11, <1>12, YesNo
<1> QED
  BY ONLY <1>1, <1>11, <1>12, <1>13

(* The end of a script from any place on.                                       *)
LEMMA SuffixOf ==
  ASSUME NEW script, NEW k, NEW w, script \in Seq(Int), k \in Nat, k <= Len(script), w = SubSeq(script, k + 1, Len(script))
  PROVE  Suffix(w, script) /\ Len(w) = Len(script) - k
<1>1. Len(script) \in Nat
  OBVIOUS
<1>2. w \in Seq(Int) /\ Len(w) = Len(script) - k /\ \A n \in 1..(Len(script) - k) : w[n] = script[k + n]
  BY <1>1
<1>3. Len(script) - Len(w) = k /\ Len(w) <= Len(script)
  BY <1>1, <1>2
<1> QED
  BY <1>2, <1>3 DEF Suffix

(* And the other way round.                                                     *)
LEMMA SuffixIs ==
  ASSUME NEW script, NEW w, NEW k, script \in Seq(Int), Suffix(w, script), k = Len(script) - Len(w)
  PROVE  w = SubSeq(script, k + 1, Len(script)) /\ k \in Nat
<1>1. w \in Seq(Int) /\ Len(script) \in Nat /\ Len(w) \in Nat /\ Len(w) <= Len(script)
  BY DEF Suffix
<1>2. k \in Nat /\ k <= Len(script) /\ Len(w) = Len(script) - k
  BY <1>1
<1>3. PICK v : v = SubSeq(script, k + 1, Len(script))
  OBVIOUS
<1>4. v \in Seq(Int) /\ Len(v) = Len(script) - k /\ \A n \in 1..(Len(script) - k) : v[n] = script[k + n]
  <2>1. Suffix(v, script) /\ Len(v) = Len(script) - k
    BY ONLY <1>2, <1>3, SuffixOf, script \in Seq(Int)
  <2>2. Len(script) - Len(v) = k
    BY <1>1, <1>2, <2>1
  <2> QED
    BY ONLY <2>1, <2>2 DEF Suffix
<1>5. \A n \in 1..Len(w) : w[n] = script[k + n]
  BY <1>2 DEF Suffix
<1>6. \A n \in 1..Len(w) : w[n] = v[n]
  BY <1>2, <1>4, <1>5
<1>7. w = v
  BY ONLY <1>1, <1>2, <1>4, <1>6
<1> QED
  BY <1>2, <1>3, <1>7

(* What is noted of a statement's command.                                      *)
LEMMA HeardIs ==
  ASSUME NEW c, NEW T, NEW o, NEW s, Inv(c, T, o), s \in Stmts
  PROVE  /\ T[s].script \in Scripts \cup {<<>>} /\ T[s].shown \in Seq(Words) /\ InOrder(T[s])
         /\ T[s].script \in Seq(Int) /\ Len(T[s].script) \in Nat /\ Len(T[s].shown) \in Nat
         /\ T[s] = [script |-> T[s].script, shown |-> T[s].shown]
<1>1. T[s] \in Heard /\ InOrder(T[s])
  BY DEF Inv, IsHeard
<1>2. T[s].script \in Scripts \cup {<<>>} /\ T[s].shown \in Seq(Words) /\ T[s] = [script |-> T[s].script, shown |-> T[s].shown]
  BY <1>1 DEF Heard
<1>3. T[s].script \in Seq(Int)
  <2>1. CASE T[s].script \in Scripts
    BY <2>1, ScriptIs
  <2>2. CASE T[s].script = <<>>
    BY <2>2
  <2> QED
    BY <1>2, <2>1, <2>2
<1> QED
  BY <1>1, <1>2, <1>3

(* The statement whose answers are on the wire.                                 *)
Owns(c, T, s) ==
  /\ IsMade(c.res[s]) /\ c.res[s].fetchSize = 0 /\ c.res[s].inWire = Yes
  /\ ~HasUnread(c.sets[s]) /\ c.active \in {s, Nobody} /\ c.wire # <<>> /\ c.more
  /\ Reads(c.res[s].cmd, c.res[s].exec, c.sets[s], T[s].script, c.wire)
  /\ Len(T[s].shown) = Len(T[s].script) - Len(c.wire) /\ Len(T[s].shown) = c.res[s].cmd.idx + 1

(* The statement whose answers are on the wire has read exactly the others.     *)
LEMMA OwnReads ==
  ASSUME NEW c, NEW T, NEW s, Inv(c, T, s), s \in Stmts
  PROVE  Owns(c, T, s)
<1>1. PICK r, S, w, t : r = c.res[s] /\ S = c.sets[s] /\ w = c.wire /\ t = T[s]
  OBVIOUS
<1>2. s # Nobody
  BY NobodyIsApart
<1>3. /\ Fits(r, S, t, Rest(w, s, s)) /\ w \in Seq(Int) /\ w # <<>> /\ c.active \in {s, Nobody} /\ c.more
      /\ w = SubSeq(t.script, Len(t.shown) + 1, Len(t.script))
  BY <1>1, <1>2 DEF Inv, WireFits
<1>a. w \in Seq(Int) /\ w # <<>>
  BY <1>3
<1>4. Rest(w, s, s) = Len(w) /\ Len(w) \in Nat /\ Len(w) > 0
  BY ONLY <1>a DEF Rest
<1>5. /\ t.script \in Scripts \cup {<<>>} /\ t.script \in Seq(Int) /\ Len(t.script) \in Nat /\ Len(t.shown) \in Nat
  BY <1>1, HeardIs
<1>6. /\ IsList(r.cmd) /\ r.inWire /\ r.fetchSize = 0 /\ Len(t.shown) = Len(t.script) - Len(w) /\ ~HasUnread(S)
      /\ AllSets(S) /\ Places(r, S)
  BY <1>3, <1>4 DEF Fits
<1>7. IsMade(r)
  BY <1>3, <1>6, MadeIs
<1>8. ListFits(r, t, Len(w))
  <2>1. r.cmd.kind = "multiple"
    BY <1>6, KindIs
  <2>2. r.cmd # NoInformation /\ ~IsSingle(r.cmd)
    BY <2>1, KindIs
  <2> QED
    BY <1>3, <1>4, <2>2 DEF Fits, NoneFits, SingleFits
<1>9. t.script \in Scripts
  <2>1. Len(t.script) - Len(w) >= 1
    BY <1>8 DEF ListFits, CountsRight
  <2> QED
    BY <1>4, <1>5, <2>1
<1>10. Suffix(w, t.script)
  <2>1. Len(t.shown) <= Len(t.script)
    BY <1>4, <1>5, <1>6
  <2> QED
    BY <1>3, <1>5, <2>1, SuffixOf
<1>11. Len(t.shown) = r.cmd.idx + 1
  <2>1. ShownRight(r.cmd, t)
    BY <1>8 DEF ListFits
  <2> QED
    BY <1>4, <1>5, <1>6, <2>1 DEF ShownRight
<1>12. r.cmd.idx + 1 <= Len(t.script) - Len(w)
  BY <1>4, <1>5, <1>6, <1>11
<1>13. Reads(r.cmd, r.exec, S, t.script, w)
  BY <1>6, <1>8, <1>9, <1>10, <1>12 DEF Reads, ListFits, Places
<1>14. r.inWire = Yes
  BY <1>6, <1>7, YesNo DEF IsMade
<1> QED
  BY <1>1, <1>3, <1>6, <1>7, <1>11, <1>13, <1>14 DEF Owns

(* A statement of which all answers were read, and how far the application got  *)
(* with them.                                                                   *)
LEMMA AllRead ==
  ASSUME NEW i, NEW ahead, NEW S, NEW T, NEW caching, NEW current, NEW released,
         Reads(i, ahead, S, T.script, <<>>), ShownRight(i, T), caching \in BOOLEAN,
         current \in 0..Len(S), released \in 0..Len(S)
  PROVE  Fits(Rec(0, No, caching, i, ahead, current, released), S, T, 0)
<1>1. PICK r : r = Rec(0, No, caching, i, ahead, current, released)
  OBVIOUS
<1>2. /\ r.fetchSize = 0 /\ r.inWire = No /\ r.caching = caching /\ r.cmd = i /\ r.exec = ahead
      /\ r.current = current /\ r.released = released
  BY <1>1, RecIs
<1>3. No \in BOOLEAN /\ ~No
  BY YesNo, Booleans
<1>4. IsMade(r)
  BY <1>1, <1>2, <1>3 DEF IsMade
<1>5. /\ IsList(i) /\ AllSets(S) /\ ~HasUnread(S) /\ ahead \in Seq(1..Len(S))
      /\ CountsRight(i, T.script, 0) /\ Len(ahead) = Cardinality(SetsAhead(i))
  BY DEF Reads
<1>6. ListFits(r, T, 0)
  BY <1>2, <1>5 DEF ListFits
<1>7. Places(r, S)
  BY <1>2, <1>5 DEF Places
<1> QED
  BY <1>1, <1>2, <1>3, <1>4, <1>5, <1>6, <1>7 DEF Fits

Raise(d, x) == [d EXCEPT !.raised = x]
Caching(d, s) == [d EXCEPT !.res[s].caching = TRUE]
Unkept(d, s) == [d EXCEPT !.res[s].caching = FALSE, !.res[s].inWire = FALSE]

(* A call throws, or has thrown.                                                *)
LEMMA RaiseAt ==
  ASSUME NEW c, NEW s, NEW r, NEW S, NEW w, NEW m, NEW a, NEW x, NEW y
  PROVE  Raise(At(c, s, r, S, w, m, a, y), x) = At(c, s, r, S, w, m, a, x)
BY DEF Raise, At

(* loadFully begins to keep answers.                                            *)
LEMMA CachingAt ==
  ASSUME NEW c, NEW s, NEW f, NEW inWire, NEW caching, NEW cmd, NEW ahead, NEW current, NEW released,
         NEW S, NEW w, NEW m, NEW a, NEW x, s \in Stmts
  PROVE  Caching(At(c, s, Rec(f, inWire, caching, cmd, ahead, current, released), S, w, m, a, x), s)
           = At(c, s, Rec(f, inWire, Yes, cmd, ahead, current, released), S, w, m, a, x)
<1>1. PICK r, q : r = Rec(f, inWire, caching, cmd, ahead, current, released) /\ q = Rec(f, inWire, Yes, cmd, ahead, current, released)
  OBVIOUS
<1>2. PICK d : d = At(c, s, r, S, w, m, a, x)
  OBVIOUS
<1>3. d.res[s] = r
  BY <1>2, AtIs
<1>4. [r EXCEPT !.caching = Yes] = q
  BY ONLY <1>1 DEF Rec
<1>5. Caching(d, s) = PutRes(d, s, q)
  <2>1. [d EXCEPT !.res[s].caching = Yes] = PutRes(d, s, q)
    BY ONLY <1>3, <1>4 DEF PutRes
  <2> QED
    BY ONLY <2>1 DEF Caching, Yes
<1> QED
  BY ONLY <1>1, <1>2, <1>5, PutAt, s \in Stmts

(* loadFully ends: nothing of this command is on the wire.                      *)
LEMMA UnkeptAt ==
  ASSUME NEW c, NEW s, NEW f, NEW inWire, NEW caching, NEW cmd, NEW ahead, NEW current, NEW released,
         NEW S, NEW w, NEW m, NEW a, NEW x, s \in Stmts
  PROVE  Unkept(At(c, s, Rec(f, inWire, caching, cmd, ahead, current, released), S, w, m, a, x), s)
           = At(c, s, Rec(f, No, No, cmd, ahead, current, released), S, w, m, a, x)
<1>1. PICK r, h, q : /\ r = Rec(f, inWire, caching, cmd, ahead, current, released)
                     /\ h = Rec(f, inWire, No, cmd, ahead, current, released) /\ q = Rec(f, No, No, cmd, ahead, current, released)
  OBVIOUS
<1>2. PICK d, e : d = At(c, s, r, S, w, m, a, x) /\ e = PutRes(d, s, h)
  OBVIOUS
<1>3. d.res[s] = r
  BY <1>2, AtIs
<1>4. e = At(c, s, h, S, w, m, a, x)
  BY ONLY <1>2, PutAt, s \in Stmts
<1>5. e.res[s] = h
  BY <1>4, AtIs
<1>6. [r EXCEPT !.caching = No] = h
  BY ONLY <1>1 DEF Rec
<1>7. [h EXCEPT !.inWire = No] = q
  BY ONLY <1>1 DEF Rec
<1>8. Unkept(d, s) = PutRes(e, s, q)
  <2>1. [d EXCEPT !.res[s].caching = No] = e
    BY ONLY <1>2, <1>3, <1>6 DEF PutRes
  <2>2. [e EXCEPT !.res[s].inWire = No] = PutRes(e, s, q)
    BY ONLY <1>5, <1>7 DEF PutRes
  <2>3. [d EXCEPT !.res[s].caching = No, !.res[s].inWire = No] = PutRes(e, s, q)
    BY ONLY <2>1, <2>2
  <2> QED
    BY ONLY <2>3 DEF Unkept, No
<1> QED
  BY ONLY <1>1, <1>2, <1>4, <1>8, PutAt, s \in Stmts

(* A statement that has nothing more on the wire.                               *)
LEMMA NoLonger ==
  ASSUME NEW f, NEW inWire, NEW caching, NEW cmd, NEW ahead, NEW current, NEW released, NEW S, NEW T, NEW kept,
         Fits(Rec(f, inWire, caching, cmd, ahead, current, released), S, T, 0), ~HasUnread(S), kept \in BOOLEAN, f \in Nat
  PROVE  Fits(Rec(f, No, kept, cmd, ahead, current, released), S, T, 0)
<1>1. PICK r, q : r = Rec(f, inWire, caching, cmd, ahead, current, released) /\ q = Rec(f, No, kept, cmd, ahead, current, released)
  OBVIOUS
<1>2. /\ r.fetchSize = f /\ r.inWire = inWire /\ r.cmd = cmd /\ r.exec = ahead /\ r.current = current /\ r.released = released
      /\ q.made = Yes /\ q.fetchSize = f /\ q.inWire = No /\ q.caching = kept /\ q.cmd = cmd /\ q.exec = ahead
      /\ q.current = current /\ q.released = released
  BY <1>1, RecIs
<1>3. No \in BOOLEAN /\ ~No
  BY YesNo, Booleans
<1>4. IsMade(q)
  BY <1>1, <1>2, <1>3 DEF IsMade
<1>5. Fits(r, S, T, 0)
  BY <1>1
<1>6. Places(q, S) /\ AllSets(S)
  BY <1>2, <1>5 DEF Fits, Places
<1>7. NoneFits(q, S) \/ SingleFits(q, T) \/ ListFits(q, T, 0)
  BY <1>2, <1>3, <1>5 DEF Fits, NoneFits, SingleFits, ListFits
<1>8. q.fetchSize # 0 => S = <<>> \/ HasUnread(S)
  BY <1>2, <1>5 DEF Fits
<1> QED
  BY <1>1, <1>2, <1>3, <1>4, <1>6, <1>7, <1>8 DEF Fits

(* The set that loadFully reads first.                                          *)
LEMMA LastSetIs ==
  ASSUME NEW f, NEW inWire, NEW caching, NEW cmd, NEW ahead, NEW current, NEW released, NEW S, NEW r, NEW k,
         r = Rec(f, inWire, caching, cmd, ahead, current, released), k = LastSet(r),
         current \in 0..Len(S), released \in 0..Len(S), ahead \in Seq(1..Len(S)), AllSets(S)
  PROVE  k \in 0..Len(S) /\ (ahead = <<>> /\ (current # 0 \/ released # 0) => k # 0)
<1>1. k = IF ahead # <<>> THEN ahead[Len(ahead)] ELSE IF current # 0 THEN current ELSE released
  BY RecIs DEF LastSet
<1>2. ahead # <<>> => ahead[Len(ahead)] \in 1..Len(S)
  OBVIOUS
<1>3. Len(S) \in Nat
  BY DEF AllSets
<1> QED
  BY <1>1, <1>2, <1>3

(* What one statement had unread was read for it, d of c; x that it failed.     *)
Cleared(c, T, s, d) ==
  \E r, S, x : /\ d = At(c, s, r, S, <<>>, No, Nobody, x) /\ x \in BOOLEAN
               /\ ~HasUnread(S) /\ Fits(r, S, T[s], 0)

(* cmdPrologue, when the answers of a statement are on the wire.                *)
LEMMA PrologueReads ==
  ASSUME NEW c, NEW T, NEW s, NEW d, s \in Stmts, Inv(c, T, s), c.active = s, d = CmdPrologue(c, Yes)
  PROVE  Cleared(c, T, s, d)
<1>1. /\ IsMade(c.res[s]) /\ c.res[s].fetchSize = 0 /\ c.res[s].inWire = Yes
      /\ ~HasUnread(c.sets[s]) /\ c.wire # <<>> /\ c.more
      /\ Reads(c.res[s].cmd, c.res[s].exec, c.sets[s], T[s].script, c.wire)
      /\ Len(T[s].shown) = c.res[s].cmd.idx + 1
  <2>1. Owns(c, T, s)
    BY ONLY OwnReads, s \in Stmts, Inv(c, T, s)
  <2> QED
    BY ONLY <2>1 DEF Owns
<1>2. PICK f, inWire, caching, cmd, ahead, current, released, S :
           /\ c = At(c, s, Rec(f, inWire, caching, cmd, ahead, current, released), S, c.wire, c.more, c.active, No)
           /\ c.res[s] = Rec(f, inWire, caching, cmd, ahead, current, released) /\ c.sets[s] = S
           /\ f \in Nat /\ inWire \in BOOLEAN /\ caching \in BOOLEAN /\ AllSets(S)
           /\ current \in 0..Len(S) /\ released \in 0..Len(S) /\ ahead \in Seq(1..Len(S))
           /\ Fits(Rec(f, inWire, caching, cmd, ahead, current, released), S, T[s], Rest(c.wire, s, s))
  <2>1. IsMade(c.res[s])
    BY <1>1
  <2> QED
    BY ONLY <2>1, Statement, s \in Stmts, Inv(c, T, s)
<1>3. f = 0 /\ inWire = Yes /\ c.res[s].cmd = cmd /\ c.res[s].exec = ahead
  BY <1>1, <1>2, RecIs
<1>4. c.more = Yes /\ c.fault = "none"
  BY <1>1, YesNo DEF Inv, WireFits
<1>5. PICK w : w = c.wire
  OBVIOUS
<1>6. c = At(c, s, Rec(0, Yes, caching, cmd, ahead, current, released), S, w, Yes, s, No)
  BY ONLY <1>2, <1>3, <1>4, <1>5, c.active = s
<1>7. Reads(cmd, ahead, S, T[s].script, w) /\ w # <<>>
  BY <1>1, <1>2, <1>3, <1>5
<1>8. ReadLastSet(c, s, FALSE, TRUE) = c
  <2>1. PICK k : k = LastSet(c.res[s])
    OBVIOUS
  <2>2. k \in 0..Len(S)
    BY ONLY <1>2, <2>1, LastSetIs, SMTT(30)
  <2>a. DOMAIN S = 1..Len(S) /\ Len(S) \in Nat
    BY ONLY <1>2 DEF AllSets
  <2>3. k # 0 => k \in DOMAIN S
    BY ONLY <2>2, <2>a
  <2>4. k # 0 => c.sets[s][k].isEof
    BY <1>1, <1>2, <2>3 DEF HasUnread
  <2>5. k # 0 => ReadRest(c, s, k) = c
    BY <2>4 DEF ReadRest
  <2> QED
    BY <2>1, <2>5 DEF ReadLastSet
<1>9. PICK e : e = At(c, s, Rec(0, Yes, Yes, cmd, ahead, current, released), S, w, Yes, s, No)
  OBVIOUS
<1>10. Caching(c, s) = e
  BY ONLY <1>6, <1>9, CachingAt, s \in Stmts
<1>11. PICK g : g = KeepRest(e, s)
  OBVIOUS
<1>12. PICK j, ex, Q, x :
           /\ g = At(c, s, Rec(0, No, Yes, j, ex, current, released), Q, <<>>, No, Nobody, x)
           /\ Reads(j, ex, Q, T[s].script, <<>>) /\ j.idx = cmd.idx /\ Len(Q) >= Len(S) /\ x \in BOOLEAN
  BY ONLY <1>7, <1>9, <1>11, KeepRestAt, Booleans, s \in Stmts
<1>13. LoadFully(c, s, FALSE, TRUE) = Kept(g, s)
  <2>1. c.res[s].inWire
    BY <1>1, YesNo
  <2>2. LoadRest(c, s, FALSE) = Kept(KeepRest(Caching(c, s), s), s)
    BY ONLY <1>4, <2>1 DEF LoadRest, Caching
  <2> QED
    BY ONLY <1>8, <1>10, <1>11, <2>2 DEF LoadFully
<1>14. g.raised = x /\ g.fault = "none"
  BY <1>12, AtIs
<1>15. PICK y : y = IF x THEN Yes ELSE No
  OBVIOUS
<1>16. PICK q : q = Rec(0, No, y, j, ex, current, released)
  OBVIOUS
<1>17. PICK h : h = At(c, s, q, Q, <<>>, No, Nobody, x)
  OBVIOUS
<1>18. Kept(g, s) = h
  <2>1. CASE x
    <3>1. Kept(g, s) = g
      BY <1>14, <2>1 DEF Kept
    <3>2. y = Yes
      BY <1>15, <2>1
    <3> QED
      BY ONLY <1>12, <1>16, <1>17, <3>1, <3>2
  <2>2. CASE ~x
    <3>1. Kept(g, s) = Unkept(g, s)
      BY <1>14, <2>2 DEF Kept, Unkept
    <3>2. y = No
      BY <1>15, <2>2
    <3>3. PICK o : o = <<>>
      OBVIOUS
    <3>4. g = At(c, s, Rec(0, No, Yes, j, ex, current, released), Q, o, No, Nobody, x)
      BY ONLY <1>12, <3>3
    <3>5. Unkept(g, s) = At(c, s, Rec(0, No, No, j, ex, current, released), Q, o, No, Nobody, x)
      BY ONLY <3>4, UnkeptAt, s \in Stmts
    <3> QED
      BY ONLY <1>16, <1>17, <3>1, <3>2, <3>3, <3>5
  <2> QED
    BY <2>1, <2>2, <1>12
<1>19. WithoutActive(h) = h
  <2>1. PICK o : o = <<>>
    OBVIOUS
  <2>2. h = At(c, s, q, Q, o, No, Nobody, x)
    BY <1>17, <2>1
  <2>3. [h EXCEPT !.active = Nobody] = h
    BY ONLY <2>2 DEF At
  <2> QED
    BY ONLY <2>3 DEF WithoutActive
<1>20. d = h
  <2>1. d = WithoutActive(LoadFully(c, s, FALSE, TRUE))
    <3>1. s # Nobody /\ s # Gone
      BY NobodyIsApart
    <3> QED
      BY ONLY <3>1, c.active = s, d = CmdPrologue(c, Yes) DEF CmdPrologue, Yes
  <2> QED
    BY ONLY <1>13, <1>18, <1>19, <2>1
<1>21. y \in BOOLEAN
  BY <1>15, Booleans
<1>22. ShownRight(j, T[s])
  BY <1>1, <1>3, <1>12 DEF ShownRight
<1>23. current \in 0..Len(Q) /\ released \in 0..Len(Q)
  <2>1. AllSets(Q)
    BY <1>12 DEF Reads
  <2>2. Len(Q) \in Nat /\ Len(S) \in Nat
    BY <1>2, <2>1 DEF AllSets
  <2> QED
    BY ONLY <1>2, <1>12, <2>2
<1>24. Fits(q, Q, T[s], 0)
  BY ONLY <1>12, <1>16, <1>21, <1>22, <1>23, AllRead
<1>25. ~HasUnread(Q)
  BY <1>12 DEF Reads
<1> QED
  BY ONLY <1>12, <1>17, <1>20, <1>24, <1>25 DEF Cleared

(* cmdPrologue, when a statement streams.                                       *)
LEMMA PrologueDrains ==
  ASSUME NEW c, NEW T, NEW o, NEW s, NEW d, s \in Stmts, Inv(c, T, o), HasUnread(c.sets[s]), d = CmdPrologue(c, Yes)
  PROVE  Cleared(c, T, s, d)
<1>1. c.active = s /\ c.wire = <<>> /\ o = Nobody /\ ~c.more
  BY StreamAlone
<1>2. Fits(c.res[s], c.sets[s], T[s], Rest(c.wire, o, s))
  BY DEF Inv
<1>3. IsMade(c.res[s])
  BY <1>2, MadeIs DEF Fits
<1>4. PICK f, inWire, caching, cmd, ahead, current, released, S :
           /\ c = At(c, s, Rec(f, inWire, caching, cmd, ahead, current, released), S, c.wire, c.more, c.active, No)
           /\ c.res[s] = Rec(f, inWire, caching, cmd, ahead, current, released) /\ c.sets[s] = S
           /\ f \in Nat /\ inWire \in BOOLEAN /\ caching \in BOOLEAN /\ AllSets(S)
           /\ current \in 0..Len(S) /\ released \in 0..Len(S) /\ ahead \in Seq(1..Len(S))
           /\ Fits(Rec(f, inWire, caching, cmd, ahead, current, released), S, T[s], Rest(c.wire, o, s))
  BY ONLY <1>3, Statement, s \in Stmts, Inv(c, T, o)
<1>5. /\ c.res[s].inWire = inWire /\ c.res[s].exec = ahead /\ c.res[s].current = current /\ c.res[s].released = released
  BY <1>4, RecIs
<1>6. HasUnread(S) /\ inWire /\ Len(S) = 1 /\ ahead = <<>> /\ (current # 0 \/ released # 0)
  BY <1>2, <1>4, <1>5 DEF Fits
<1>7. PICK k : k = LastSet(c.res[s])
  OBVIOUS
<1>8. k \in 0..Len(S) /\ k # 0
  <2>1. k \in 0..Len(S) /\ (ahead = <<>> /\ (current # 0 \/ released # 0) => k # 0)
    BY ONLY <1>4, <1>7, LastSetIs
  <2> QED
    BY ONLY <1>6, <2>1
<1>9. k = 1 /\ k \in 1..Len(S) /\ ~S[k].isEof
  <2>1. k = 1 /\ k \in 1..Len(S)
    BY ONLY <1>6, <1>8
  <2>2. DOMAIN S = 1..Len(S)
    BY <1>4 DEF AllSets
  <2> QED
    BY ONLY <1>6, <2>1, <2>2 DEF HasUnread
<1>10. PICK Q : Q = Changed(S, k, Drained(S[k]))
  OBVIOUS
<1>11. IsSet(S[k])
  BY <1>4, <1>9, OneOf
<1>12. IsSet(Drained(S[k])) /\ Drained(S[k]).isEof
  BY <1>11, SetChanges, YesNo
<1>13. AllSets(Q) /\ Len(Q) = Len(S)
  BY <1>4, <1>9, <1>10, <1>12, ChangedIs
<1>14. ~HasUnread(Q)
  BY <1>4, <1>6, <1>9, <1>10, <1>12, UnreadChanged
<1>15. PICK e, w : e = At(c, s, Rec(0, inWire, caching, cmd, ahead, current, released), Q, w, No, Nobody, No) /\ w = <<>>
  OBVIOUS
<1>16. ReadRest(c, s, k) = e
  <2>1. c = At(c, s, Rec(f, inWire, caching, cmd, ahead, current, released), S, <<>>, c.more, s, No)
    BY ONLY <1>1, <1>4
  <2>2. ReadRest(c, s, k) = At(c, s, Rec(0, inWire, caching, cmd, ahead, current, released), Changed(S, k, Drained(S[k])), <<>>, No, Nobody, No)
    BY ONLY <1>4, <1>9, <2>1, ReadRestAt, s \in Stmts
  <2> QED
    BY ONLY <1>10, <1>15, <2>2
<1>17. ReadLastSet(c, s, FALSE, TRUE) = e
  BY ONLY <1>7, <1>8, <1>16 DEF ReadLastSet
<1>18. e.fault = "none" /\ e.res[s].inWire = inWire
  BY <1>15, AtIs, RecIs
<1>19. PICK g : g = At(c, s, Rec(0, inWire, Yes, cmd, ahead, current, released), Q, w, No, Nobody, No)
  OBVIOUS
<1>20. Caching(e, s) = g
  BY ONLY <1>15, <1>19, CachingAt, s \in Stmts
<1>21. KeepRest(g, s) = g
  <2>1. g.wire = w
    BY <1>19, AtIs
  <2>2. Len(g.wire) = 0 /\ Len(g.wire) \in Nat
    BY <1>15, <2>1
  <2>3. Keeping(g, s)[0] = g
    BY ONLY <2>2, KeepingIs
  <2> QED
    BY ONLY <2>2, <2>3 DEF KeepRest
<1>22. PICK q : q = Rec(0, No, No, cmd, ahead, current, released)
  OBVIOUS
<1>23. PICK h : h = At(c, s, q, Q, w, No, Nobody, No)
  OBVIOUS
<1>24. Kept(g, s) = h
  <2>1. g.raised = No
    BY ONLY <1>19, AtIs, s \in Stmts
  <2>2. Kept(g, s) = Unkept(g, s)
    BY ONLY <2>1, YesNo DEF Kept, Unkept
  <2> QED
    BY ONLY <1>19, <1>22, <1>23, <2>2, UnkeptAt, s \in Stmts
<1>25. LoadFully(c, s, FALSE, TRUE) = h
  <2>1. LoadRest(e, s, FALSE) = Kept(KeepRest(Caching(e, s), s), s)
    BY ONLY <1>6, <1>18 DEF LoadRest, Caching
  <2> QED
    BY ONLY <1>17, <1>20, <1>21, <1>24, <2>1 DEF LoadFully
<1>26. WithoutActive(h) = h
  <2>1. [h EXCEPT !.active = Nobody] = h
    BY ONLY <1>23 DEF At
  <2> QED
    BY ONLY <2>1 DEF WithoutActive
<1>27. d = h
  <2>1. s # Nobody /\ s # Gone
    BY NobodyIsApart
  <2>2. d = WithoutActive(LoadFully(c, s, FALSE, TRUE))
    BY ONLY <2>1, <1>1, d = CmdPrologue(c, Yes) DEF CmdPrologue, Yes
  <2> QED
    BY ONLY <1>25, <1>26, <2>2
<1>28. Fits(q, Q, T[s], 0)
  <2>1. Rest(c.wire, o, s) = 0
    BY <1>1, NobodyIsApart DEF Rest
  <2>2. PICK z : z = 0
    OBVIOUS
  <2>3. z \in Nat /\ z = 0
    BY <2>2
  <2>4. Fits(Rec(z, inWire, caching, cmd, ahead, current, released), Q, T[s], 0)
    BY ONLY <1>4, <1>13, <1>14, <2>1, <2>3, FitsAgain
  <2> QED
    BY ONLY <1>14, <1>22, <2>3, <2>4, NoLonger, Booleans
<1> QED
  BY ONLY <1>14, <1>15, <1>23, <1>27, <1>28, Booleans DEF Cleared

(* After cmdPrologue nothing is unread, whoever was active.                     *)
Prologued(c, T, s, d) ==
  \E e, x : /\ Inv(e, T, Nobody) /\ e.active = Nobody /\ x \in BOOLEAN /\ d = Raise(e, x)
            /\ e.res[s] = c.res[s] /\ e.sets[s] = c.sets[s]

(* cmdPrologue of any statement: the connection is cleared, the answers that were *)
(* on it are kept by their owner, and an error among them is thrown here.       *)
LEMMA Prologue ==
  ASSUME NEW c, NEW T, NEW o, NEW s, NEW d, s \in Stmts, Inv(c, T, o), c.active # s,
         c.wire # <<>> => c.active # Nobody, d = CmdPrologue(c, Yes)
  PROVE  Prologued(c, T, s, d)
<1>1. WireFits(c, T, o)
  BY DEF Inv
<1>2. CASE c.active = Nobody
  <2>1. d = c
    BY <1>2, NobodyIsApart DEF CmdPrologue
  <2>2. o = Nobody
    BY <1>1, <1>2 DEF WireFits
  <2>3. PICK r, S, w, m, a : c = At(c, s, r, S, w, m, a, No)
    <3>1. IsConn(c) /\ c.fault = "none" /\ c.raised = No
      BY DEF Inv
    <3>2. c = At(c, s, c.res[s], c.sets[s], c.wire, c.more, c.active, c.raised)
      BY ONLY <3>1, View, s \in Stmts
    <3> QED
      BY <3>1, <3>2
  <2>4. Raise(c, No) = c
    BY ONLY <2>3, RaiseAt
  <2> QED
    BY <1>2, <2>1, <2>2, <2>4, Booleans DEF Prologued
<1>3. CASE c.active # Nobody
  <2>1. PICK t : t = c.active
    OBVIOUS
  <2>2. t \in Stmts /\ t # s /\ (t = o \/ HasUnread(c.sets[t])) /\ c.active = t
    BY <1>1, <1>3, <2>1 DEF WireFits
  <2>a. t \in Stmts
    BY <2>2
  <2>3. PICK r, S, x : /\ d = At(c, t, r, S, <<>>, No, Nobody, x) /\ x \in BOOLEAN
                       /\ ~HasUnread(S) /\ Fits(r, S, T[t], 0)
    <3>1. CASE t = o
      <4>1. Inv(c, T, t)
        BY <3>1
      <4>2. Cleared(c, T, t, d)
        BY ONLY <2>2, <4>1, PrologueReads, d = CmdPrologue(c, Yes)
      <4> QED
        BY ONLY <4>2 DEF Cleared
    <3>2. CASE HasUnread(c.sets[t])
      <4>1. Cleared(c, T, t, d)
        BY ONLY <2>a, <3>2, PrologueDrains, d = CmdPrologue(c, Yes), Inv(c, T, o)
      <4> QED
        BY ONLY <4>1 DEF Cleared
    <3> QED
      BY <2>2, <3>1, <3>2
  <2>4. PICK e, w : e = At(c, t, r, S, w, No, Nobody, No) /\ w = <<>>
    OBVIOUS
  <2>5. o \in {t, Nobody} /\ c.active \in {t, Nobody}
    BY <1>1, <2>2, NobodyIsApart DEF WireFits
  <2>6. IsHeard(T)
    BY DEF Inv
  <2>7. Inv(e, T, Nobody)
    BY ONLY <2>2, <2>3, <2>4, <2>5, <2>6, Quiet, Inv(c, T, o)
  <2>8. d = Raise(e, x)
    BY ONLY <2>3, <2>4, RaiseAt
  <2>9. e.active = Nobody /\ e.res[s] = c.res[s] /\ e.sets[s] = c.sets[s]
    BY <2>2, <2>4, AtIs
  <2> QED
    BY ONLY <2>3, <2>7, <2>8, <2>9 DEF Prologued
<1> QED
  BY <1>2, <1>3

Silence == [script |-> <<>>, shown |-> <<>>]

(* A statement that has no Results, or those of a command not yet sent.         *)
IsFresh(r) == r = NoResults \/ \E size \in Nat : r = NewCommand(size)

(* A statement that has run nothing fits whatever it is noted with.             *)
LEMMA FreshFits ==
  ASSUME NEW r, NEW T, IsFresh(r)
  PROVE  Fits(r, <<>>, T, 0) /\ ~HasUnread(<<>>)
<1>1. PICK S : S = <<>>
  OBVIOUS
<1>2. AllSets(S) /\ Len(S) = 0 /\ ~HasUnread(S)
  BY <1>1 DEF AllSets, HasUnread
<1>3. /\ IsMade(r) \/ r = NoResults
      /\ r.cmd = NoInformation /\ ~r.inWire /\ r.exec = <<>> /\ r.current = 0 /\ r.released = 0
  <2>1. CASE r = NoResults
    BY <2>1, NoResultsIs
  <2>2. ASSUME NEW size \in Nat, r = NewCommand(size) PROVE <1>3!2 /\ IsMade(r)
    <3>1. PICK z, w : z = 0 /\ w = <<>>
      OBVIOUS
    <3>2. r = Rec(size, No, No, NoInformation, w, z, z)
      BY <2>2, <3>1, NewCommandIs
    <3>3. /\ r.fetchSize = size /\ r.inWire = No /\ r.caching = No /\ r.cmd = NoInformation /\ r.exec = w
          /\ r.current = z /\ r.released = z
      BY <3>2, RecIs
    <3>4. IsMade(r)
      BY <3>2, <3>3, Booleans DEF IsMade
    <3> QED
      BY <3>1, <3>3, <3>4, YesNo
  <2> QED
    BY <2>1, <2>2 DEF IsFresh
<1>4. NoneFits(r, S) /\ Places(r, S)
  BY <1>1, <1>2, <1>3 DEF NoneFits, Places
<1>5. Fits(r, S, T, 0)
  BY <1>1, <1>2, <1>3, <1>4 DEF Fits
<1> QED
  BY <1>1, <1>2, <1>5

(* A statement about which nobody has anything to tell.                         *)
LEMMA Emptied ==
  ASSUME NEW c, NEW T, NEW o, NEW s, NEW r, NEW d, NEW U,
         Inv(c, T, o), s \in Stmts, o # s, ~HasUnread(c.sets[s]), IsFresh(r),
         d = At(c, s, r, <<>>, c.wire, c.more, c.active, No), U = Others(T, s, Silence)
  PROVE  Inv(d, U, o)
<1>1. PICK S : S = <<>>
  OBVIOUS
<1>2. d = At(c, s, r, S, c.wire, c.more, c.active, No)
  BY <1>1
<1>3. IsHeard(T)
  BY DEF Inv
<1>4. U[s] = Silence /\ U = [t \in Stmts |-> U[t]] /\ \A t \in Stmts : t # s => U[t] = T[t]
  BY DEF Others
<1>5. Silence \in Heard /\ InOrder(Silence)
  BY DEF Silence, Heard, InOrder
<1>6. IsHeard(U)
  BY <1>3, <1>4, <1>5 DEF IsHeard
<1>7. Fits(r, S, U[s], 0) /\ ~HasUnread(S)
  BY <1>1, FreshFits
<1>8. Rest(c.wire, o, s) = 0
  BY DEF Rest
<1>9. HasUnread(S) <=> HasUnread(c.sets[s])
  BY <1>7
<1> QED
  BY ONLY <1>2, <1>4, <1>6, <1>7, <1>8, <1>9, Local, Inv(c, T, o), s \in Stmts, o # s

(* loadFully of a statement that is let go: nothing is left to skip.            *)
SkippedOnly(c, T, o, s, d) ==
  Inv(d, T, o) /\ d.res[s].made /\ ~HasUnread(d.sets[s]) /\ d.wire = c.wire /\ d.active = c.active

(* ~Results with a result set given out: it has its rows, so nothing is skipped. *)
LEMMA SkipRestStep ==
  ASSUME NEW c, NEW T, NEW o, NEW s, NEW d,
         Inv(c, T, o), s \in Stmts, c.res[s].made, ~HasUnread(c.sets[s]), ~(c.res[s].inWire /\ c.wire # <<>>),
         d = SkipRest(c, s)
  PROVE  SkippedOnly(c, T, o, s, d)
<1>1. PICK k, e : k = LastSet(c.res[s]) /\ e = ReadLastSet(c, s, TRUE, TRUE)
  OBVIOUS
<1>2. IsMade(c.res[s])
  BY MadeIs DEF Inv
<1>3. PICK f, inWire, caching, cmd, ahead, current, released, S :
           /\ c = At(c, s, Rec(f, inWire, caching, cmd, ahead, current, released), S, c.wire, c.more, c.active, No)
           /\ c.res[s] = Rec(f, inWire, caching, cmd, ahead, current, released) /\ c.sets[s] = S
           /\ f \in Nat /\ inWire \in BOOLEAN /\ caching \in BOOLEAN /\ AllSets(S)
           /\ current \in 0..Len(S) /\ released \in 0..Len(S) /\ ahead \in Seq(1..Len(S))
           /\ Fits(Rec(f, inWire, caching, cmd, ahead, current, released), S, T[s], Rest(c.wire, o, s))
  BY ONLY <1>2, Statement, s \in Stmts, Inv(c, T, o)
<1>4. k \in 0..Len(S)
  BY ONLY <1>1, <1>3, LastSetIs
<1>5. /\ Inv(e, T, o) /\ e.res[s].made /\ ~HasUnread(e.sets[s]) /\ e.wire = c.wire /\ e.active = c.active
      /\ e.res[s].inWire = c.res[s].inWire
  <2>1. CASE k = 0
    <3>1. e = c
      BY <1>1, <2>1 DEF ReadLastSet
    <3> QED
      BY <3>1
  <2>2. CASE k # 0
    <3>1. PICK l : l = Yes
      OBVIOUS
    <3>2. e = CloseSet(c, s, k, l)
      BY <1>1, <2>2, <3>1, YesNo DEF ReadLastSet
    <3>3. k \in 1..Len(c.sets[s]) /\ DOMAIN S = 1..Len(S)
      BY <1>3, <1>4, <2>2 DEF AllSets
    <3>4. c.sets[s][k].isEof
      BY <1>3, <3>3 DEF HasUnread
    <3>5. l \in BOOLEAN
      BY <3>1, Booleans
    <3>6. k \in 1..Len(c.sets[s])
      BY <3>3
    <3>7. ClosedOnly(c, T, o, s, e)
      BY ONLY <3>2, <3>4, <3>5, <3>6, CloseReadSet, Inv(c, T, o), s \in Stmts, c.res[s].made
    <3> QED
      BY ONLY <3>7 DEF ClosedOnly
  <2> QED
    BY <2>1, <2>2
<1>6. d = LoadRest(e, s, TRUE)
  BY <1>1 DEF SkipRest, LoadFully, Inv
<1>7. e.fault = "none" /\ (e.more <=> e.wire # <<>>)
  BY <1>5 DEF Inv, WireFits
<1>8. d = e
  <2>1. CASE ~e.res[s].inWire
    BY <1>6, <2>1 DEF LoadRest
  <2>2. CASE e.res[s].inWire
    <3>1. ~e.more
      BY <1>5, <1>7, <2>2
    <3>2. SkipAllResults(e) = e
      BY <3>1 DEF SkipAllResults
    <3> QED
      BY <1>6, <1>7, <2>2, <3>2 DEF LoadRest
  <2> QED
    BY <2>1, <2>2
<1> QED
  BY <1>5, <1>8 DEF SkippedOnly

(* A statement's Results is destroyed.                                          *)
Destroyed(c, o, s, d, U) ==
  /\ Inv(d, U, o) /\ o # s /\ d.active # s /\ d.wire = c.wire /\ d.active = c.active
  /\ d.res[s] = NoResults /\ d.sets[s] = <<>>

(* ~Results of a statement that reads what it asked for leaves the others alone. *)
LEMMA LetGoStep ==
  ASSUME NEW c, NEW T, NEW o, NEW s, NEW d, NEW U,
         Inv(c, T, o), s \in Stmts, o # s, c.res[s].made, ~HasUnread(c.sets[s]), d = LetGo(c, s), U = Others(T, s, Silence)
  PROVE  Destroyed(c, o, s, d, U)
<1>1. c.active # s
  BY ONLY NothingOwn, Inv(c, T, o), s \in Stmts, o # s, ~HasUnread(c.sets[s])
<1>2. IsConn(c) /\ c.fault = "none" /\ c.raised = No
  BY DEF Inv
<1>3. c = At(c, s, c.res[s], c.sets[s], c.wire, c.more, c.active, c.raised)
  BY ONLY <1>2, View, s \in Stmts
<1>4. PICK r, S, w, m, a : /\ c = At(c, s, r, S, w, m, a, No) /\ w = c.wire /\ m = c.more /\ a = c.active
  BY <1>2, <1>3
<1>5. PICK n, E : n = NoResults /\ E = <<>>
  OBVIOUS
<1>6. PICK g : g = PutRes(c, s, n)
  OBVIOUS
<1>7. g = At(c, s, n, S, w, m, a, No)
  BY ONLY <1>4, <1>6, PutAt, s \in Stmts
<1>8. PICK h : h = PutSets(g, s, E)
  OBVIOUS
<1>9. h = At(c, s, n, E, w, m, a, No)
  BY ONLY <1>7, <1>8, PutAt, s \in Stmts
<1>10. ReadOwn(c, s) = c
  BY DEF ReadOwn, HasUnread
<1>11. h.active = a /\ h.wire = w /\ h.res[s] = n /\ h.sets[s] = E
  BY ONLY <1>9, AtIs, s \in Stmts
<1>12. [h EXCEPT !.active = IF @ = s THEN Gone ELSE @] = h
  <2>1. [h EXCEPT !.active = a] = h
    BY ONLY <1>9 DEF At
  <2> QED
    BY ONLY <1>1, <1>4, <1>11, <2>1
<1>13. d = h
  <2>1. d = [c EXCEPT !.res[s] = NoResults, !.sets[s] = <<>>, !.active = IF @ = s THEN Gone ELSE @]
    BY ONLY <1>2, <1>10, d = LetGo(c, s), c.res[s].made DEF LetGo
  <2> QED
    BY ONLY <1>5, <1>6, <1>8, <1>12, <2>1 DEF PutRes, PutSets
<1>14. IsFresh(NoResults)
  BY DEF IsFresh
<1>15. d = At(c, s, NoResults, <<>>, c.wire, c.more, c.active, No)
  BY ONLY <1>4, <1>5, <1>9, <1>13
<1>16. Inv(d, U, o)
  BY ONLY <1>14, <1>15, Emptied, Inv(c, T, o), s \in Stmts, o # s, ~HasUnread(c.sets[s]), U = Others(T, s, Silence)
<1> QED
  BY ONLY <1>1, <1>4, <1>5, <1>11, <1>13, <1>16, o # s DEF Destroyed

(* ~Results, as the next command of the statement replaces it.                  *)
LEMMA DestroyStep ==
  ASSUME NEW c, NEW T, NEW o, NEW s, NEW d, NEW U,
         Inv(c, T, o), s \in Stmts, ~HasUnread(c.sets[s]), c.res[s].made => ~(c.res[s].inWire /\ c.wire # <<>>),
         d = Destroy(c, s), U = Others(T, s, Silence)
  PROVE  Destroyed(c, o, s, d, U)
<1>1. o # s
  <2>1. ASSUME o = s PROVE FALSE
    <3>1. Inv(c, T, s)
      BY <2>1
    <3>2. Owns(c, T, s)
      BY ONLY <3>1, OwnReads, s \in Stmts
    <3>3. IsMade(c.res[s]) /\ c.res[s].inWire /\ c.wire # <<>>
      BY ONLY <3>2, YesNo DEF Owns
    <3>4. c.res[s].made = Yes
      <4>1. PICK r : r = c.res[s]
        OBVIOUS
      <4>2. IsMade(r)
        BY <3>3, <4>1
      <4>3. r.made = Yes
        BY ONLY <4>2, RecIs DEF IsMade
      <4> QED
        BY <4>1, <4>3
    <3> QED
      BY <3>3, <3>4, YesNo
  <2> QED
    BY <2>1
<1>2. IsConn(c) /\ c.fault = "none" /\ c.raised = No /\ Fits(c.res[s], c.sets[s], T[s], Rest(c.wire, o, s))
  BY DEF Inv
<1>3. CASE ~c.res[s].made
  <2>1. c.res[s] = NoResults /\ c.res[s].released = 0
    <3>1. IsMade(c.res[s]) \/ c.res[s] = NoResults
      BY <1>2 DEF Fits
    <3>2. IsMade(c.res[s]) => c.res[s].made = Yes
      BY RecIs DEF IsMade
    <3> QED
      BY <1>3, <3>1, <3>2, YesNo, NoResultsIs
  <2>2. d = c
    BY <1>3, <2>1 DEF Destroy, LetGo
  <2>3. c.sets[s] = <<>>
    <3>1. ~IsSingle(c.res[s].cmd) /\ ~IsList(c.res[s].cmd)
      BY <2>1, NoResultsIs, KindIs
    <3> QED
      BY <1>2, <3>1 DEF Fits, NoneFits, SingleFits, ListFits
  <2>4. c = At(c, s, c.res[s], c.sets[s], c.wire, c.more, c.active, c.raised)
    BY ONLY <1>2, View, s \in Stmts
  <2>5. d = At(c, s, NoResults, <<>>, c.wire, c.more, c.active, No)
    BY ONLY <1>2, <2>1, <2>2, <2>3, <2>4
  <2>6. IsFresh(NoResults)
    BY DEF IsFresh
  <2>7. Inv(d, U, o)
    BY ONLY <1>1, <2>5, <2>6, Emptied, Inv(c, T, o), s \in Stmts, ~HasUnread(c.sets[s]), U = Others(T, s, Silence)
  <2>8. c.active # s
    BY ONLY <1>1, NothingOwn, Inv(c, T, o), s \in Stmts, ~HasUnread(c.sets[s])
  <2> QED
    BY ONLY <1>1, <2>1, <2>2, <2>3, <2>7, <2>8 DEF Destroyed
<1>4. CASE c.res[s].made
  <2>1. PICK k : k = c.res[s].released
    OBVIOUS
  <2>2. PICK e : e = IF k = 0 THEN c ELSE SkipRest(CloseSet(c, s, k, Yes), s)
    OBVIOUS
  <2>3. d = LetGo(e, s)
    BY ONLY <2>1, <2>2, d = Destroy(c, s) DEF Destroy, Yes
  <2>4. SkippedOnly(c, T, o, s, e)
    <3>1. CASE k = 0
      BY <1>4, <2>2, <3>1 DEF SkippedOnly
    <3>2. CASE k # 0
      <4>1. k \in 0..Len(c.sets[s]) /\ AllSets(c.sets[s])
        BY <1>2, <2>1 DEF Fits, Places
      <4>2. k \in 1..Len(c.sets[s]) /\ DOMAIN c.sets[s] = 1..Len(c.sets[s])
        BY <3>2, <4>1 DEF AllSets
      <4>3. c.sets[s][k].isEof
        BY <4>2 DEF HasUnread
      <4>4. PICK g, l : l = Yes /\ g = CloseSet(c, s, k, l)
        OBVIOUS
      <4>5. l \in BOOLEAN /\ k \in 1..Len(c.sets[s]) /\ g = CloseSet(c, s, k, l)
        BY <4>2, <4>4, Booleans
      <4>6. ClosedOnly(c, T, o, s, g)
        BY ONLY <1>4, <4>3, <4>5, CloseReadSet, Inv(c, T, o), s \in Stmts
      <4>7. /\ Inv(g, T, o) /\ ~HasUnread(g.sets[s]) /\ g.res[s].made /\ ~(g.res[s].inWire /\ g.wire # <<>>)
            /\ g.wire = c.wire /\ g.active = c.active
        BY <1>4, <4>6 DEF ClosedOnly
      <4>8. e = SkipRest(g, s)
        BY <2>2, <3>2, <4>4
      <4>9. SkippedOnly(g, T, o, s, e)
        BY ONLY <4>7, <4>8, SkipRestStep, s \in Stmts
      <4> QED
        BY <4>7, <4>9 DEF SkippedOnly
    <3> QED
      BY <3>1, <3>2
  <2>5. Inv(e, T, o) /\ e.res[s].made /\ ~HasUnread(e.sets[s]) /\ e.wire = c.wire /\ e.active = c.active
    BY <2>4 DEF SkippedOnly
  <2>6. Destroyed(e, o, s, d, U)
    BY ONLY <1>1, <2>3, <2>5, LetGoStep, s \in Stmts, U = Others(T, s, Silence)
  <2> QED
    BY <2>5, <2>6 DEF Destroyed
<1> QED
  BY <1>3, <1>4

(* The connection is cleared for a command, x if reading the rest failed.       *)
IsBegun(T, s, size, d) ==
  \E e, x : /\ Inv(e, T, Nobody) /\ e.active = Nobody /\ x \in BOOLEAN /\ d = Raise(e, x)
            /\ e.res[s] = NewCommand(size) /\ e.sets[s] = <<>>

(* executeInternal until the command is sent.                                   *)
LEMMA BeginStep ==
  ASSUME NEW c, NEW T, NEW o, NEW s, NEW size, NEW d,
         Inv(c, T, o), s \in Stmts, o # s, c.active # s, c.sets[s] = <<>>, T[s] = Silence,
         c.wire # <<>> => c.active # Nobody, size \in Nat, d = Begin(c, s, size)
  PROVE  IsBegun(T, s, size, d)
<1>1. IsConn(c) /\ c.fault = "none" /\ c.raised = No /\ IsHeard(T)
  BY DEF Inv
<1>2. PICK r, S, w, m, a : c = At(c, s, r, S, w, m, a, No) /\ S = c.sets[s] /\ w = c.wire /\ m = c.more /\ a = c.active
  <2>1. c = At(c, s, c.res[s], c.sets[s], c.wire, c.more, c.active, c.raised)
    BY ONLY <1>1, View, s \in Stmts
  <2> QED
    BY <1>1, <2>1
<1>3. PICK n, g : n = NewCommand(size) /\ g = PutRes(c, s, n)
  OBVIOUS
<1>4. g = At(c, s, n, S, w, m, a, No)
  BY ONLY <1>2, <1>3, PutAt, s \in Stmts
<1>5. g.active = a /\ g.wire = w /\ g.res[s] = n /\ g.sets[s] = S
  BY ONLY <1>4, AtIs, s \in Stmts
<1>6. T = Others(T, s, Silence)
  BY <1>1 DEF IsHeard, Others
<1>7. IsFresh(n) /\ ~HasUnread(c.sets[s])
  BY <1>3 DEF IsFresh, HasUnread
<1>8. g = At(c, s, n, <<>>, c.wire, c.more, c.active, No)
  BY ONLY <1>2, <1>4, c.sets[s] = <<>>
<1>9. Inv(g, T, o)
  BY ONLY <1>6, <1>7, <1>8, Emptied, Inv(c, T, o), s \in Stmts, o # s
<1>10. d = CmdPrologue(g, Yes)
  <2>1. d = CmdPrologue([c EXCEPT !.res[s] = NewCommand(size)], TRUE)
    BY ONLY <1>1, d = Begin(c, s, size) DEF Begin
  <2> QED
    BY ONLY <1>3, <2>1 DEF PutRes, Yes
<1>11. g.active # s /\ (g.wire # <<>> => g.active # Nobody)
  BY <1>2, <1>5
<1>12. PICK e, x : /\ Inv(e, T, Nobody) /\ e.active = Nobody /\ x \in BOOLEAN /\ d = Raise(e, x)
                   /\ e.res[s] = g.res[s] /\ e.sets[s] = g.sets[s]
  <2>1. Prologued(g, T, s, d)
    BY ONLY <1>9, <1>10, <1>11, Prologue, s \in Stmts
  <2> QED
    BY ONLY <2>1 DEF Prologued
<1> QED
  BY ONLY <1>2, <1>3, <1>5, <1>12, c.sets[s] = <<>> DEF IsBegun

(* A statement after the first answer of its command.                           *)
LEMMA AfterFirst ==
  ASSUME NEW i, NEW f, NEW inWire, NEW E, NEW current, NEW z, NEW S, NEW T, NEW script, NEW rest, NEW r,
         script \in Scripts, script[1] # ErrPart, T.script = script, Len(T.shown) = 1, rest = Len(script) - 1,
         i.counts = <<Answer(script[1])>>,
         (IsSingle(i) /\ ~inWire /\ rest = 0) \/ (IsList(i) /\ i.idx = 0 /\ inWire),
         r = Rec(f, inWire, No, i, E, current, z), E = <<>>, z = 0,
         AllSets(S), current \in 0..Len(S), f \in Nat, inWire \in BOOLEAN,
         rest > 0 => inWire /\ f = 0 /\ ~HasUnread(S),
         HasUnread(S) => inWire /\ Len(S) = 1 /\ current # 0,
         f # 0 => S = <<>> \/ HasUnread(S)
  PROVE  Fits(r, S, T, rest)
<1>1. /\ r.fetchSize = f /\ r.inWire = inWire /\ r.caching = No /\ r.cmd = i /\ r.exec = E
      /\ r.current = current /\ r.released = z
  BY RecIs
<1>2. IsMade(r)
  BY <1>1, Booleans DEF IsMade
<1>3. Places(r, S)
  <2>1. E \in Seq(1..Len(S))
    OBVIOUS
  <2>2. z \in 0..Len(S)
    BY DEF AllSets
  <2> QED
    BY ONLY <1>1, <2>1, <2>2, current \in 0..Len(S) DEF Places
<1>4. script \in Seq(Int) /\ Len(script) \in Nat /\ Len(script) >= 1
  BY ScriptIs
<1>5. CASE IsSingle(i) /\ ~inWire /\ rest = 0
  <2>1. SingleFits(r, T)
    BY <1>1, <1>4, <1>5 DEF SingleFits
  <2> QED
    BY <1>1, <1>2, <1>3, <1>4, <1>5, <2>1 DEF Fits
<1>6. CASE IsList(i) /\ i.idx = 0 /\ inWire
  <2>1. Len(i.counts) = 1 /\ i.counts[1] = Answer(script[1]) /\ DOMAIN i.counts = 1..1
    OBVIOUS
  <2>2. CountsRight(i, script, rest)
    <3>1. Len(script) - rest = 1
      BY <1>4
    <3>2. \A n \in 1..1 : n \in DOMAIN i.counts /\ i.counts[n] = Answer(script[n])
      BY <2>1
    <3> QED
      BY ONLY <2>1, <3>1, <3>2 DEF CountsRight
  <2>3. ShownRight(i, T)
    BY <1>6 DEF ShownRight
  <2>4. SetsAhead(i) = {}
    BY <1>6, <2>1 DEF SetsAhead
  <2>5. Cardinality(SetsAhead(i)) = 0
    BY <2>4, FS_EmptySet
  <2>6. ListFits(r, T, rest)
    BY <1>1, <1>6, <2>2, <2>3, <2>5 DEF ListFits
  <2>7. /\ inWire => rest > 0 \/ Len(T.shown) >= Len(T.script)
        /\ Len(T.shown) = Len(T.script) - rest
    BY <1>4
  <2> QED
    BY ONLY <1>1, <1>2, <1>3, <1>6, <2>6, <2>7, E = <<>>, AllSets(S), rest > 0 => inWire /\ f = 0 /\ ~HasUnread(S),
            HasUnread(S) => inWire /\ Len(S) = 1 /\ current # 0, f # 0 => S = <<>> \/ HasUnread(S) DEF Fits
<1> QED
  BY <1>5, <1>6

(* A connection on which a command's first answer was read.                     *)
Safe(d, T) == \E p : Inv(d, T, p)

(* The first answer of a command was read: the invariant holds again.           *)
LEMMA FirstRead ==
  ASSUME NEW c, NEW T, NEW s, NEW script, NEW y, NEW q, NEW S, NEW v, NEW more, NEW b, NEW d, NEW V,
         Inv(c, T, Nobody), c.active = Nobody, s \in Stmts, script \in Scripts,
         Suffix(v, script), Len(v) = Len(script) - 1, more \in BOOLEAN, more <=> v # <<>>, b \in {s, Nobody},
         b = s => v # <<>> \/ HasUnread(S), HasUnread(S) => b = s,
         y \in Shows(script[1]), y \in Words, V = Others(T, s, [script |-> script, shown |-> <<y>>]),
         Fits(q, S, V[s], Len(v)), d = At(c, s, q, S, v, more, b, No)
  PROVE  Safe(d, V)
<1>1. PICK h, l : h = [script |-> script, shown |-> l] /\ l = <<y>>
  OBVIOUS
<1>2. V[s] = h /\ V = [t \in Stmts |-> V[t]] /\ \A t \in Stmts : t # s => V[t] = T[t]
  BY <1>1 DEF Others
<1>3. script \in Seq(Int) /\ Len(script) \in Nat /\ Len(script) >= 1
  BY ScriptIs
<1>4. l \in Seq(Words) /\ Len(l) = 1 /\ l[1] = y /\ DOMAIN l = 1..1
  BY <1>1
<1>5. h.script = script /\ h.shown = l
  BY <1>1
<1>6. h \in Heard
  BY <1>1, <1>4 DEF Heard
<1>7. InOrder(h)
  BY <1>3, <1>4, <1>5 DEF InOrder
<1>8. IsHeard(T) /\ WireFits(c, T, Nobody)
  BY DEF Inv
<1>9. IsHeard(V)
  BY <1>2, <1>6, <1>7, <1>8 DEF IsHeard
<1>10. \A t \in Stmts : ~HasUnread(c.sets[t])
  BY <1>8, NobodyIsApart DEF WireFits
<1>11. /\ d.wire = v /\ d.more = more /\ d.active = b /\ d.sets[s] = S
       /\ \A t \in Stmts : t # s => d.sets[t] = c.sets[t]
  BY ONLY AtIs, s \in Stmts, d = At(c, s, q, S, v, more, b, No)
<1>12. v \in Seq(Int)
  BY DEF Suffix
<1>13. PICK p : p = IF v = <<>> THEN Nobody ELSE s
  OBVIOUS
<1>14. p # Nobody => p = s /\ v # <<>>
  BY <1>13
<1>15. p = Nobody <=> v = <<>>
  BY <1>13, NobodyIsApart
<1>16. v = SubSeq(script, Len(l) + 1, Len(script))
  <2>1. Len(l) = Len(script) - Len(v)
    BY <1>3, <1>4
  <2> QED
    BY ONLY <1>3, <2>1, SuffixIs, Suffix(v, script)
<1>17. p = s => v = SubSeq(V[p].script, Len(V[p].shown) + 1, Len(V[p].script))
  BY <1>2, <1>5, <1>16
<1>18. WireFits(d, V, p)
  <2>1. p \in Stmts \cup {Nobody} /\ b \in Stmts \cup {Nobody}
    BY <1>13
  <2>2. p # Nobody => b \in {Nobody, p}
    BY <1>14
  <2>3. b # Nobody => b = p \/ HasUnread(d.sets[b])
    BY <1>11, <1>13
  <2>4. \A t \in Stmts : HasUnread(d.sets[t]) => b = t
    BY <1>10, <1>11
  <2>5. p # Nobody => v = SubSeq(V[p].script, Len(V[p].shown) + 1, Len(V[p].script))
    BY <1>14, <1>17
  <2> QED
    BY ONLY <1>11, <1>12, <1>15, <2>1, <2>2, <2>3, <2>4, <2>5, more \in BOOLEAN, more <=> v # <<>> DEF WireFits
<1>19. \A t \in Stmts : t # s => V[t] = T[t] /\ Rest(v, p, t) = Rest(c.wire, Nobody, t)
  BY <1>2, <1>14, NobodyIsApart DEF Rest
<1>20. Rest(v, p, s) = Len(v)
  BY <1>13, NobodyIsApart DEF Rest
<1>21. Fits(q, S, V[s], Rest(v, p, s))
  BY ONLY <1>20, Fits(q, S, V[s], Len(v))
<1>22. Inv(d, V, p)
  BY ONLY <1>9, <1>18, <1>19, <1>21, Rebuild, Inv(c, T, Nobody), s \in Stmts, d = At(c, s, q, S, v, more, b, No)
<1> QED
  BY <1>22 DEF Safe

(* commandEnd at one statement.                                                 *)
LEMMA CommandEndAt ==
  ASSUME NEW c, NEW s, NEW f, NEW inWire, NEW caching, NEW i, NEW ahead, NEW current, NEW released,
         NEW S, NEW w, NEW m, NEW a, NEW x, NEW first, NEW k, NEW l, NEW z,
         s \in Stmts, first \in BOOLEAN, first <=> i.kind # "none" /\ ahead # <<>> /\ ~IsCurrentUpdateCount(i),
         first => k = Head(ahead) /\ l = Tail(ahead), ~first => k = 0 /\ l = ahead, z = 0
  PROVE  CommandEnd(At(c, s, Rec(f, inWire, caching, i, ahead, current, released), S, w, m, a, x), s)
           = At(c, s, Rec(f, inWire, caching, i, l, k, z), S, w, m, a, x)
<1>a. k = (IF first THEN Head(ahead) ELSE 0) /\ l = IF first THEN Tail(ahead) ELSE ahead
  OBVIOUS
<1>1. PICK r, q, h, j : /\ r = Rec(f, inWire, caching, i, ahead, current, released)
                        /\ h = Rec(f, inWire, caching, i, ahead, current, z)
                        /\ j = Rec(f, inWire, caching, i, ahead, k, z)
                        /\ q = Rec(f, inWire, caching, i, l, k, z)
  OBVIOUS
<1>2. PICK d, e, g : d = At(c, s, r, S, w, m, a, x) /\ e = PutRes(d, s, h) /\ g = PutRes(e, s, j)
  OBVIOUS
<1>3. d.res[s] = r
  BY ONLY <1>2, AtIs, s \in Stmts
<1>4. e = At(c, s, h, S, w, m, a, x)
  BY ONLY <1>2, PutAt, s \in Stmts
<1>5. e.res[s] = h
  BY ONLY <1>4, AtIs, s \in Stmts
<1>6. g = At(c, s, j, S, w, m, a, x)
  BY ONLY <1>2, <1>4, PutAt, s \in Stmts
<1>7. g.res[s] = j
  BY ONLY <1>6, AtIs, s \in Stmts
<1>8. r.cmd = i /\ r.exec = ahead
  BY ONLY <1>1, RecIs
<1>9. j.exec = ahead
  BY ONLY <1>1, RecIs
<1>10. [r EXCEPT !.released = z] = h
  BY ONLY <1>1 DEF Rec
<1>11. [h EXCEPT !.current = k] = j
  BY ONLY <1>1 DEF Rec
<1>12. [j EXCEPT !.exec = l] = q
  BY ONLY <1>1 DEF Rec
<1>13. CommandEnd(d, s) = PutRes(g, s, q)
  <2>1. CommandEnd(d, s) = [d EXCEPT !.res[s].released = 0, !.res[s].current = k, !.res[s].exec = IF first THEN Tail(@) ELSE @]
    BY ONLY <1>3, <1>8, <1>a, first \in BOOLEAN, first <=> i.kind # "none" /\ ahead # <<>> /\ ~IsCurrentUpdateCount(i) DEF CommandEnd
  <2>2. [d EXCEPT !.res[s].released = z] = e
    BY ONLY <1>2, <1>3, <1>10 DEF PutRes
  <2>3. [e EXCEPT !.res[s].current = k] = g
    BY ONLY <1>2, <1>5, <1>11 DEF PutRes
  <2>4. [g EXCEPT !.res[s].exec = l] = PutRes(g, s, q)
    BY ONLY <1>7, <1>12 DEF PutRes
  <2>5. d.res[s].exec = ahead
    BY ONLY <1>3, <1>8
  <2>6. CommandEnd(d, s) = [d EXCEPT !.res[s].released = z, !.res[s].current = k, !.res[s].exec = l]
    BY ONLY <1>a, <2>1, <2>5, z = 0
  <2>7. [e EXCEPT !.res[s].current = k, !.res[s].exec = l] = [g EXCEPT !.res[s].exec = l]
    BY ONLY <2>3
  <2>8. CommandEnd(d, s) = [e EXCEPT !.res[s].current = k, !.res[s].exec = l]
    BY ONLY <2>2, <2>6
  <2> QED
    BY ONLY <2>4, <2>7, <2>8
<1>14. PutRes(g, s, q) = At(c, s, q, S, w, m, a, x)
  BY ONLY <1>6, PutAt, s \in Stmts
<1> QED
  BY ONLY <1>1, <1>2, <1>13, <1>14

(* The first answer of a command, and what follows it on the wire.              *)
LEMMA FirstIs ==
  ASSUME NEW script, NEW p, NEW v, script \in Scripts, First(script, p, v)
  PROVE  /\ Suffix(v, script) /\ Len(v) = Len(script) - 1 /\ p = script[1] /\ p \in Int
         /\ (v # <<>> <=> Len(script) > 1) /\ Len(v) \in Nat
<1>1. script \in Seq(Int) /\ Len(script) \in Nat /\ Len(script) >= 1
  BY ScriptIs
<1>2. Suffix(script, script)
  BY <1>1 DEF Suffix
<1>3. /\ Suffix(v, script) /\ Len(v) = Len(script) - 1 /\ p = script[Len(script) - Len(script) + 1] /\ p \in Int
  BY <1>1, <1>2, SuffixFirst
<1>4. v \in Seq(Int)
  BY <1>3 DEF Suffix
<1> QED
  BY <1>1, <1>3, <1>4

(* An update count as the first answer: a record, or a list if more follow.     *)
LEMMA OkIsFirst ==
  ASSUME NEW i, NEW more, more \in BOOLEAN, i = OkNoted(NoInformation, more)
  PROVE  i.counts = <<1>> /\ ((IsSingle(i) /\ ~more) \/ (IsList(i) /\ i.idx = 0 /\ more))
<1>1. CASE more
  <2>1. more = Yes
    BY <1>1, YesNo
  <2> QED
    BY <1>1, <2>1, NotedFirst
<1>2. CASE ~more
  <2>1. more = No
    BY <1>2, YesNo
  <2> QED
    BY <1>2, <2>1, NotedFirst
<1> QED
  BY <1>1, <1>2

(* A result set as the first answer.                                            *)
LEMMA SetIsFirst ==
  ASSUME NEW i, NEW more, more \in BOOLEAN, i = SetNoted(NoInformation, more)
  PROVE  /\ i.counts = <<RESULT_SET_VALUE>> /\ ((IsSingle(i) /\ ~more) \/ (IsList(i) /\ i.idx = 0 /\ more))
         /\ i.kind # "none" /\ ~IsCurrentUpdateCount(i)
<1>1. i.counts = <<RESULT_SET_VALUE>> /\ ((IsSingle(i) /\ ~more) \/ (IsList(i) /\ i.idx = 0 /\ more))
  <2>1. CASE more
    <3>1. more = Yes
      BY <2>1, YesNo
    <3> QED
      BY <2>1, <3>1, NotedFirst
  <2>2. CASE ~more
    <3>1. more = No
      BY <2>2, YesNo
    <3> QED
      BY <2>2, <3>1, NotedFirst
  <2> QED
    BY <2>1, <2>2
<1>2. i.kind = "single" \/ (i.kind = "multiple" /\ i.idx = 0)
  BY <1>1, KindIs
<1>3. Len(i.counts) = 1 /\ i.counts[1] = RESULT_SET_VALUE
  BY <1>1
<1>4. GetUpdateCount(i) = RESULT_SET_VALUE
  BY <1>2, <1>3 DEF GetUpdateCount
<1> QED
  BY <1>1, <1>2, <1>4 DEF IsCurrentUpdateCount

(* What the application was told once the first answer is read.                 *)
Told(T, s, script, y) == Others(T, s, [script |-> script, shown |-> <<y>>])
Sent(T, s, script, d) ==
  \E y : Safe(d, Told(T, s, script, y)) /\ d.raised = No /\ y = IF d.res[s].current # 0 THEN "set" ELSE "count"

ReadFirst(T, s, script, g, d) == Sent(T, s, script, d) /\ g.raised = No /\ g.fault = "none"

(* A connection that is ready for the answers of a statement's command.         *)
Ready(c, T, s, f, m, E, z) ==
  /\ Inv(c, T, Nobody) /\ c.active = Nobody /\ s \in Stmts /\ E = <<>> /\ z = 0 /\ f \in Nat /\ m \in BOOLEAN
  /\ c = At(c, s, Rec(f, No, No, NoInformation, E, z, z), E, E, m, Nobody, No)

(* What the application is told of the first answer.                            *)
LEMMA TellsFirst ==
  ASSUME NEW T, NEW s, NEW script, NEW y, NEW V, s \in Stmts, V = Told(T, s, script, y)
  PROVE  V[s].script = script /\ V[s].shown = <<y>> /\ Len(V[s].shown) = 1
<1>1. V[s] = [script |-> script, shown |-> <<y>>]
  BY DEF Told, Others
<1> QED
  BY <1>1

(* What may be shown of each kind of answer.                                    *)
LEMMA ShowsIs ==
  /\ Shows(OkPart) = {"count"} /\ Shows(ErrPart) = {"raised", "failed"}
  /\ \A p : p # OkPart /\ p # ErrPart => Shows(p) = {"set"}
BY DEF Shows, OkPart, ErrPart

(* The first answer is read, and is not an error.                               *)
LEMMA FirstSent ==
  ASSUME NEW c, NEW T, NEW s, NEW script, NEW p, NEW v, NEW f, NEW inWire, NEW i, NEW E, NEW current, NEW z,
         NEW S, NEW more, NEW b, NEW y, NEW d,
         Inv(c, T, Nobody), c.active = Nobody, s \in Stmts, script \in Scripts, First(script, p, v), p # ErrPart,
         E = <<>>, z = 0, f \in Nat, inWire \in BOOLEAN, more \in BOOLEAN, more <=> v # <<>>,
         i.counts = <<Answer(p)>>, (IsSingle(i) /\ ~inWire) \/ (IsList(i) /\ i.idx = 0 /\ inWire),
         more => inWire /\ f = 0 /\ ~HasUnread(S), HasUnread(S) => inWire /\ Len(S) = 1 /\ current # 0,
         f # 0 => S = <<>> \/ HasUnread(S), AllSets(S), current \in 0..Len(S),
         b \in {s, Nobody}, b = s => more \/ HasUnread(S), HasUnread(S) => b = s,
         y = IF current # 0 THEN "set" ELSE "count", y \in Shows(p),
         d = At(c, s, Rec(f, inWire, No, i, E, current, z), S, v, more, b, No)
  PROVE  Sent(T, s, script, d)
<1>1. /\ Suffix(v, script) /\ Len(v) = Len(script) - 1 /\ p = script[1]
      /\ (v # <<>> <=> Len(script) > 1) /\ Len(v) \in Nat
  BY ONLY FirstIs, script \in Scripts, First(script, p, v)
<1>2. PICK V : V = Told(T, s, script, y)
  OBVIOUS
<1>3. PICK r, rest : r = Rec(f, inWire, No, i, E, current, z) /\ rest = Len(script) - 1
  OBVIOUS
<1>4. V[s].script = script /\ Len(V[s].shown) = 1
  BY ONLY <1>2, TellsFirst, s \in Stmts
<1>5. script[1] # ErrPart /\ i.counts = <<Answer(script[1])>>
  BY <1>1
<1>6. (IsSingle(i) /\ ~inWire /\ rest = 0) \/ (IsList(i) /\ i.idx = 0 /\ inWire)
  <2>1. ~more => rest = 0
    BY <1>1, <1>3
  <2> QED
    BY <2>1
<1>7. rest > 0 => inWire /\ f = 0 /\ ~HasUnread(S)
  BY <1>1, <1>3
<1>8. Fits(r, S, V[s], rest)
  BY ONLY <1>3, <1>4, <1>5, <1>6, <1>7, AfterFirst, script \in Scripts, E = <<>>, z = 0, AllSets(S), current \in 0..Len(S),
          f \in Nat, inWire \in BOOLEAN, HasUnread(S) => inWire /\ Len(S) = 1 /\ current # 0, f # 0 => S = <<>> \/ HasUnread(S)
<1>9. Fits(r, S, V[s], Len(v))
  BY <1>1, <1>3, <1>8
<1>10. y \in Shows(script[1]) /\ y \in Words
  <2>1. y \in Words
    BY DEF Words
  <2> QED
    BY <1>1, <2>1
<1>11. Safe(d, V)
  <2>1. V = Others(T, s, [script |-> script, shown |-> <<y>>])
    BY <1>2 DEF Told
  <2>2. d = At(c, s, r, S, v, more, b, No)
    BY <1>3
  <2>3. b = s => v # <<>> \/ HasUnread(S)
    OBVIOUS
  <2>4. Suffix(v, script) /\ Len(v) = Len(script) - 1
    BY <1>1
  <2> QED
    BY ONLY <1>9, <1>10, <2>1, <2>2, <2>3, <2>4, FirstRead, script \in Scripts, Inv(c, T, Nobody), c.active = Nobody, s \in Stmts,
            more \in BOOLEAN, more <=> v # <<>>, b \in {s, Nobody}, HasUnread(S) => b = s
<1>12. d.raised = No /\ d.res[s] = r
  BY ONLY <1>3, AtIs, s \in Stmts, d = At(c, s, Rec(f, inWire, No, i, E, current, z), S, v, more, b, No)
<1>13. r.current = current
  BY ONLY <1>3, RecIs
<1>14. y = IF d.res[s].current # 0 THEN "set" ELSE "count"
  BY <1>12, <1>13
<1> QED
  BY ONLY <1>2, <1>11, <1>12, <1>14 DEF Sent

(* A command whose first answer is an update count.                             *)
LEMMA SendOk ==
  ASSUME NEW c, NEW T, NEW s, NEW f, NEW m, NEW E, NEW z, NEW script, NEW p, NEW v, NEW g, NEW d,
         Ready(c, T, s, f, m, E, z), script \in Scripts, First(script, p, v), p = OkPart, Len(script) > 1 => f = 0,
         g = ReadPacket(At(c, s, Rec(f, No, No, NoInformation, E, z, z), E, script, m, Nobody, No), s), d = CommandEnd(g, s)
  PROVE  ReadFirst(T, s, script, g, d)
<1>0. /\ Inv(c, T, Nobody) /\ c.active = Nobody /\ s \in Stmts /\ E = <<>> /\ z = 0 /\ f \in Nat
      /\ c = At(c, s, Rec(f, No, No, NoInformation, E, z, z), E, E, m, Nobody, No)
  BY DEF Ready
<1>1. /\ Suffix(v, script) /\ Len(v) = Len(script) - 1 /\ p = script[1] /\ p \in Int
      /\ (v # <<>> <=> Len(script) > 1) /\ Len(v) \in Nat
  BY ONLY FirstIs, script \in Scripts, First(script, p, v)
<1>2. PICK more : more \in BOOLEAN /\ (more <=> v # <<>>)
  <2>1. (v # <<>>) \in BOOLEAN
    OBVIOUS
  <2> QED
    BY <2>1
<1>3. PICK i : i = OkNoted(NoInformation, more)
  OBVIOUS
<1>4. ReadPacket(At(c, s, Rec(f, No, No, NoInformation, E, z, z), E, script, m, Nobody, No), s)
        = ReadOkPacket(At(c, s, Rec(f, No, No, NoInformation, E, z, z), E, v, m, Nobody, No), s)
  <2>1. s \in Stmts
    BY <1>0
  <2> QED
    BY ONLY <2>1, ReadPacketIs, First(script, p, v), p = OkPart
<1>5. PICK a, b : a = Nobody /\ b = IF No /\ ~more /\ f = 0 THEN Nobody ELSE a
  OBVIOUS
<1>6. a \in {s, Nobody} /\ b = Nobody
  BY <1>5, YesNo
<1>7. ReadOkPacket(At(c, s, Rec(f, No, No, NoInformation, E, z, z), E, v, m, a, No), s)
        = At(c, s, Rec(f, more, No, i, E, z, z), E, v, more, b, No)
  <2>1. s \in Stmts
    BY <1>0
  <2> QED
    BY ONLY <2>1, <1>2, <1>3, <1>5, <1>6, ReadOkPacketAt, Booleans
<1>8. PICK first, l, k : first = No /\ k = 0 /\ l = E
  OBVIOUS
<1>9. first \in BOOLEAN /\ (first <=> i.kind # "none" /\ E # <<>> /\ ~IsCurrentUpdateCount(i)) /\ k = z /\ l = E
      /\ (first => k = Head(E) /\ l = Tail(E)) /\ (~first => k = 0 /\ l = E)
  BY <1>0, <1>8, YesNo, Booleans
<1>10. CommandEnd(At(c, s, Rec(f, more, No, i, E, z, z), E, v, more, b, No), s)
         = At(c, s, Rec(f, more, No, i, l, k, z), E, v, more, b, No)
  <2>1. s \in Stmts /\ z = 0
    BY <1>0
  <2> QED
    BY ONLY <2>1, <1>9, CommandEndAt
<1>11. d = At(c, s, Rec(f, more, No, i, E, z, z), E, v, more, b, No)
  BY ONLY <1>4, <1>5, <1>7, <1>9, <1>10,
          g = ReadPacket(At(c, s, Rec(f, No, No, NoInformation, E, z, z), E, script, m, Nobody, No), s), d = CommandEnd(g, s)
<1>12. PICK y : y = IF z # 0 THEN "set" ELSE "count"
  OBVIOUS
<1>13. y \in Shows(p)
  BY <1>0, <1>12, ShowsIs
<1>15. i.counts = <<1>> /\ ((IsSingle(i) /\ ~more) \/ (IsList(i) /\ i.idx = 0 /\ more))
  BY ONLY <1>2, <1>3, OkIsFirst
<1>16. p # ErrPart /\ i.counts = <<Answer(p)>>
  BY <1>15, AnswerIs DEF OkPart, ErrPart
<1>17. AllSets(E) /\ ~HasUnread(E) /\ z \in 0..Len(E)
  BY <1>0 DEF AllSets, HasUnread
<1>18. more => more /\ f = 0 /\ ~HasUnread(E)
  BY <1>1, <1>2, <1>17
<1>19. b \in {s, Nobody} /\ (b = s => more \/ HasUnread(E)) /\ (HasUnread(E) => b = s)
  BY <1>0, <1>6, <1>17, NobodyIsApart
<1>20. (f # 0 => E = <<>> \/ HasUnread(E)) /\ (HasUnread(E) => more /\ Len(E) = 1 /\ z # 0)
  BY <1>0, <1>17
<1>21. Inv(c, T, Nobody) /\ c.active = Nobody /\ s \in Stmts /\ E = <<>> /\ z = 0 /\ f \in Nat
  BY <1>0
<1>22. (IsSingle(i) /\ ~more) \/ (IsList(i) /\ i.idx = 0 /\ more)
  BY <1>15
<1>z. Sent(T, s, script, d)
  BY ONLY <1>2, <1>11, <1>12, <1>13, <1>16, <1>17, <1>18, <1>19, <1>20, <1>21, <1>22, FirstSent, script \in Scripts, First(script, p, v)
<1> QED
  <2>1. g = At(c, s, Rec(f, more, No, i, E, z, z), E, v, more, b, No)
    BY ONLY <1>4, <1>5, <1>7, g = ReadPacket(At(c, s, Rec(f, No, No, NoInformation, E, z, z), E, script, m, Nobody, No), s)
  <2>2. g.raised = No /\ g.fault = "none"
    BY ONLY <1>0, <2>1, AtIs
  <2> QED
    BY ONLY <1>z, <2>2 DEF ReadFirst

(* commandEnd with one result set, which becomes the current one.               *)
LEMMA EndsWithSet ==
  ASSUME NEW c, NEW s, NEW f, NEW inWire, NEW caching, NEW i, NEW l, NEW k, NEW z, NEW E, NEW S, NEW w, NEW m, NEW a, NEW x,
         s \in Stmts, i.kind # "none", ~IsCurrentUpdateCount(i), E = <<>>, z = 0, l = <<k>>
  PROVE  CommandEnd(At(c, s, Rec(f, inWire, caching, i, l, z, z), S, w, m, a, x), s)
           = At(c, s, Rec(f, inWire, caching, i, E, k, z), S, w, m, a, x)
<1>1. Head(l) = k /\ Tail(l) = E /\ l # <<>>
  OBVIOUS
<1>2. PICK first : first = Yes
  OBVIOUS
<1>3. first \in BOOLEAN /\ (first <=> i.kind # "none" /\ l # <<>> /\ ~IsCurrentUpdateCount(i))
  BY <1>1, <1>2, YesNo
<1>4. (first => k = Head(l) /\ E = Tail(l)) /\ (~first => k = 0 /\ E = l)
  BY <1>1, <1>2, YesNo
<1> QED
  BY ONLY <1>3, <1>4, CommandEndAt, s \in Stmts, z = 0

(* A command whose first answer is a result set, read at once.                  *)
LEMMA SendSet ==
  ASSUME NEW c, NEW T, NEW s, NEW m, NEW E, NEW z, NEW script, NEW p, NEW v, NEW g, NEW d,
         Ready(c, T, s, 0, m, E, z), script \in Scripts, First(script, p, v), p # OkPart, p # ErrPart,
         g = ReadPacket(At(c, s, Rec(0, No, No, NoInformation, E, z, z), E, script, m, Nobody, No), s), d = CommandEnd(g, s)
  PROVE  ReadFirst(T, s, script, g, d)
<1>0. Inv(c, T, Nobody) /\ c.active = Nobody /\ s \in Stmts /\ E = <<>> /\ z = 0
  BY DEF Ready
<1>1. p \in Int
  BY ONLY FirstIs, script \in Scripts, First(script, p, v)
<1>2. PICK more : more \in BOOLEAN /\ (more <=> v # <<>>)
  <2>1. (v # <<>>) \in BOOLEAN
    OBVIOUS
  <2> QED
    BY <2>1
<1>3. PICK i : i = SetNoted(NoInformation, more)
  OBVIOUS
<1>4. PICK a, b, n, l, e, S : /\ a = Nobody /\ b = (IF more THEN s ELSE IF No THEN Nobody ELSE a) /\ n = Len(E) + 1 /\ l = Append(E, n)
                              /\ e = NewSet(p, 0) /\ S = Append(E, e)
  OBVIOUS
<1>5. a \in {s, Nobody} /\ AllSets(E)
  BY <1>0, <1>4 DEF AllSets
<1>6. ReadPacket(At(c, s, Rec(0, No, No, NoInformation, E, z, z), E, script, m, a, No), s)
        = At(c, s, Rec(0, more, No, SetNoted(NoInformation, more), Append(E, n), z, z), Append(E, NewSet(p, 0)), v, more, b, No)
  <2>1. s \in Stmts
    BY <1>0
  <2>2. n = Len(E) + 1 /\ b = IF more THEN s ELSE IF No THEN Nobody ELSE a
    BY <1>4
  <2> QED
    BY ONLY <2>1, <2>2, <1>1, <1>2, <1>5, ReadSetAt, Booleans, First(script, p, v), p # OkPart, p # ErrPart
<1>7. /\ i.counts = <<RESULT_SET_VALUE>> /\ ((IsSingle(i) /\ ~more) \/ (IsList(i) /\ i.idx = 0 /\ more))
      /\ i.kind # "none" /\ ~IsCurrentUpdateCount(i)
  BY ONLY <1>2, <1>3, SetIsFirst
<1>8. n = 1 /\ l = <<n>> /\ S = <<e>> /\ Len(S) = 1 /\ S[1] = e /\ DOMAIN S = 1..1
  BY ONLY <1>0, <1>4
<1>9. CommandEnd(At(c, s, Rec(0, more, No, i, l, z, z), S, v, more, b, No), s)
        = At(c, s, Rec(0, more, No, i, E, n, z), S, v, more, b, No)
  <2>1. s \in Stmts /\ E = <<>> /\ z = 0
    BY <1>0
  <2>2. i.kind # "none" /\ ~IsCurrentUpdateCount(i) /\ l = <<n>>
    BY <1>7, <1>8
  <2> QED
    BY ONLY <2>1, <2>2, EndsWithSet
<1>10. d = At(c, s, Rec(0, more, No, i, E, n, z), S, v, more, b, No)
  BY ONLY <1>3, <1>4, <1>6, <1>9,
          g = ReadPacket(At(c, s, Rec(0, No, No, NoInformation, E, z, z), E, script, m, Nobody, No), s), d = CommandEnd(g, s)
<1>11. IsSet(e) /\ e.isEof
  BY <1>1, <1>4, NewSetIs
<1>12. AllSets(S) /\ ~HasUnread(S)
  BY <1>8, <1>11 DEF AllSets, IsSet, HasUnread
<1>13. PICK y, f : y = (IF n # 0 THEN "set" ELSE "count") /\ f = 0
  OBVIOUS
<1>14. y \in Shows(p)
  BY <1>8, <1>13, ShowsIs
<1>15. p # ErrPart /\ i.counts = <<Answer(p)>>
  BY <1>7, AnswerIs
<1>16. n \in 0..Len(S)
  BY <1>8
<1>17. (more => more /\ f = 0 /\ ~HasUnread(S)) /\ f \in Nat
  BY <1>12, <1>13
<1>18. b \in {s, Nobody} /\ (b = s => more \/ HasUnread(S)) /\ (HasUnread(S) => b = s)
  BY <1>0, <1>4, <1>12, YesNo, NobodyIsApart
<1>19. (f # 0 => S = <<>> \/ HasUnread(S)) /\ (HasUnread(S) => more /\ Len(S) = 1 /\ n # 0)
  BY <1>12, <1>13
<1>20. (IsSingle(i) /\ ~more) \/ (IsList(i) /\ i.idx = 0 /\ more)
  BY <1>7
<1>21. d = At(c, s, Rec(f, more, No, i, E, n, z), S, v, more, b, No)
  BY ONLY <1>10, <1>13
<1>22. y = IF n # 0 THEN "set" ELSE "count"
  BY <1>13
<1>z. Sent(T, s, script, d)
  BY ONLY <1>0, <1>2, <1>12, <1>14, <1>15, <1>16, <1>17, <1>18, <1>19, <1>20, <1>21, <1>22, FirstSent, script \in Scripts, First(script, p, v)
<1> QED
  <2>1. g = At(c, s, Rec(0, more, No, i, l, z, z), S, v, more, b, No)
    BY ONLY <1>3, <1>4, <1>6, g = ReadPacket(At(c, s, Rec(0, No, No, NoInformation, E, z, z), E, script, m, Nobody, No), s)
  <2>2. g.raised = No /\ g.fault = "none"
    BY ONLY <1>0, <2>1, AtIs
  <2> QED
    BY ONLY <1>z, <2>2 DEF ReadFirst

(* A command whose only answer is a result set that is streamed.                *)
LEMMA SendStream ==
  ASSUME NEW c, NEW T, NEW s, NEW f, NEW m, NEW E, NEW z, NEW script, NEW p, NEW v, NEW g, NEW d,
         Ready(c, T, s, f, m, E, z), script \in Scripts, First(script, p, v), p # OkPart, p # ErrPart, f # 0, Len(script) <= 1,
         g = ReadPacket(At(c, s, Rec(f, No, No, NoInformation, E, z, z), E, script, m, Nobody, No), s), d = CommandEnd(g, s)
  PROVE  ReadFirst(T, s, script, g, d)
<1>0. Inv(c, T, Nobody) /\ c.active = Nobody /\ s \in Stmts /\ E = <<>> /\ z = 0 /\ f \in Nat
  BY DEF Ready
<1>1. p \in Int /\ (v # <<>> <=> Len(script) > 1)
  BY ONLY FirstIs, script \in Scripts, First(script, p, v)
<1>2. v = E
  BY <1>0, <1>1, ScriptIs
<1>3. ReadPacket(At(c, s, Rec(f, No, No, NoInformation, E, z, z), E, script, m, Nobody, No), s)
        = ReadResultSet(At(c, s, Rec(f, No, No, NoInformation, E, z, z), E, v, m, Nobody, No), s, p)
  <2>1. s \in Stmts
    BY <1>0
  <2> QED
    BY ONLY <2>1, ReadPacketIs, First(script, p, v), p # OkPart, p # ErrPart
<1>4. g = ReadResultSet(At(c, s, Rec(f, No, No, NoInformation, <<>>, 0, 0), <<>>, <<>>, m, Nobody, No), s, p)
  BY ONLY <1>0, <1>2, <1>3, g = ReadPacket(At(c, s, Rec(f, No, No, NoInformation, E, z, z), E, script, m, Nobody, No), s)
<1>5. d = CommandEnd(g, s)
  OBVIOUS
<1>6. PICK e : /\ IsSet(e)
               /\ \/ /\ ~e.isEof
                     /\ g = At(c, s, Rec(f, Yes, No, SetNoted(NoInformation, Yes), <<1>>, 0, 0), <<e>>, <<>>, No, s, No)
                  \/ /\ e.isEof
                     /\ g = At(c, s, Rec(0, No, No, SetNoted(NoInformation, No), <<1>>, 0, 0), <<e>>, <<>>, No, Nobody, No)
  <2>1. s \in Stmts /\ f \in Nat /\ f > 0
    BY <1>0
  <2> QED
    BY ONLY <1>1, <1>4, <2>1, StreamBegins
<1>7. PICK inWire, h, b : /\ inWire = (IF e.isEof THEN No ELSE Yes) /\ h = (IF e.isEof THEN 0 ELSE f)
                          /\ b = IF e.isEof THEN Nobody ELSE s
  OBVIOUS
<1>8. PICK i, l, n, S : i = SetNoted(NoInformation, inWire) /\ n = 1 /\ l = <<n>> /\ S = <<e>>
  OBVIOUS
<1>9. g = At(c, s, Rec(h, inWire, No, i, l, z, z), S, v, No, b, No)
  <2>1. CASE e.isEof
    BY ONLY <1>0, <1>2, <1>6, <1>7, <1>8, <2>1
  <2>2. CASE ~e.isEof
    BY ONLY <1>0, <1>2, <1>6, <1>7, <1>8, <2>2
  <2> QED
    BY <2>1, <2>2
<1>10. inWire \in BOOLEAN /\ (inWire <=> ~e.isEof)
  BY <1>7, YesNo
<1>11. /\ i.counts = <<RESULT_SET_VALUE>> /\ ((IsSingle(i) /\ ~inWire) \/ (IsList(i) /\ i.idx = 0 /\ inWire))
       /\ i.kind # "none" /\ ~IsCurrentUpdateCount(i)
  BY ONLY <1>8, <1>10, SetIsFirst
<1>12. d = At(c, s, Rec(h, inWire, No, i, E, n, z), S, v, No, b, No)
  <2>1. s \in Stmts /\ E = <<>> /\ z = 0
    BY <1>0
  <2>2. i.kind # "none" /\ ~IsCurrentUpdateCount(i) /\ l = <<n>>
    BY <1>8, <1>11
  <2> QED
    BY ONLY <1>5, <1>9, <2>1, <2>2, EndsWithSet
<1>13. Len(S) = 1 /\ S[1] = e /\ DOMAIN S = 1..1
  BY <1>8
<1>14. AllSets(S) /\ (HasUnread(S) <=> ~e.isEof)
  BY <1>6, <1>8, <1>13 DEF AllSets, IsSet, HasUnread
<1>15. PICK y, more : y = (IF n # 0 THEN "set" ELSE "count") /\ more = No
  OBVIOUS
<1>16. y \in Shows(p)
  BY <1>8, <1>15, ShowsIs
<1>17. p # ErrPart /\ i.counts = <<Answer(p)>>
  BY <1>11, AnswerIs
<1>18. n \in 0..Len(S)
  BY <1>8, <1>13
<1>19. more \in BOOLEAN /\ (more <=> v # <<>>) /\ (more => inWire /\ h = 0 /\ ~HasUnread(S)) /\ h \in Nat
  BY <1>0, <1>2, <1>7, <1>15, YesNo, Booleans
<1>20. b \in {s, Nobody} /\ (b = s => more \/ HasUnread(S)) /\ (HasUnread(S) => b = s)
  BY <1>0, <1>7, <1>14, NobodyIsApart
<1>21. (h # 0 => S = <<>> \/ HasUnread(S)) /\ (HasUnread(S) => inWire /\ Len(S) = 1 /\ n # 0)
  BY <1>7, <1>8, <1>10, <1>13, <1>14
<1>22. (IsSingle(i) /\ ~inWire) \/ (IsList(i) /\ i.idx = 0 /\ inWire)
  BY <1>11
<1>23. d = At(c, s, Rec(h, inWire, No, i, E, n, z), S, v, more, b, No)
  BY ONLY <1>12, <1>15
<1>24. inWire \in BOOLEAN /\ y = IF n # 0 THEN "set" ELSE "count"
  BY <1>10, <1>15
<1>25. Inv(c, T, Nobody) /\ c.active = Nobody /\ s \in Stmts /\ E = <<>> /\ z = 0
  BY <1>0
<1>26. AllSets(S)
  BY <1>14
<1>z. Sent(T, s, script, d)
  BY ONLY <1>16, <1>17, <1>18, <1>19, <1>20, <1>21, <1>22, <1>23, <1>24, <1>25, <1>26, FirstSent, script \in Scripts, First(script, p, v)
<1> QED
  <2>1. g.raised = No /\ g.fault = "none"
    BY ONLY <1>0, <1>9, AtIs
  <2> QED
    BY ONLY <1>z, <2>1 DEF ReadFirst

(* A command is sent; x that its first answer was an error, which is thrown.    *)
Answered(T, s, script, d) ==
  \E e, x, y : /\ d = Raise(e, x) /\ x \in BOOLEAN /\ Safe(e, Told(T, s, script, y)) /\ e.raised = No
               /\ y = IF d.raised THEN "raised" ELSE IF d.res[s].current # 0 THEN "set" ELSE "count"

(* A call that returns forgets that it has thrown.                              *)
LEMMA RaiseNo ==
  ASSUME NEW c, NEW T, NEW o, NEW s, NEW x, Inv(c, T, o), s \in Stmts
  PROVE  Raise(c, No) = c /\ Raise(Raise(c, x), No) = c /\ Raise(c, x).raised = x /\ Raise(c, x).fault = "none"
<1>1. IsConn(c) /\ c.fault = "none" /\ c.raised = No
  BY DEF Inv
<1>2. c = At(c, s, c.res[s], c.sets[s], c.wire, c.more, c.active, c.raised)
  BY ONLY <1>1, View, s \in Stmts
<1>3. PICK r, S, w, m, a : c = At(c, s, r, S, w, m, a, No)
  BY ONLY <1>1, <1>2
<1>4. PICK e : e = At(c, s, r, S, w, m, a, x)
  OBVIOUS
<1>5. Raise(c, x) = e /\ Raise(c, No) = c
  BY ONLY <1>3, <1>4, RaiseAt
<1>6. Raise(e, No) = c
  BY ONLY <1>3, <1>4, RaiseAt
<1>7. e.raised = x /\ e.fault = "none"
  BY ONLY <1>4, AtIs, s \in Stmts
<1> QED
  BY ONLY <1>5, <1>6, <1>7

(* A command whose first answer is an error: Results is told nothing.           *)
LEMMA ErrorFirst ==
  ASSUME NEW c, NEW T, NEW s, NEW size, NEW script, NEW V,
         Inv(c, T, Nobody), s \in Stmts, size \in Nat, c.res[s] = NewCommand(size), c.sets[s] = <<>>,
         script \in Scripts, Head(script) = ErrPart, V = Told(T, s, script, "raised")
  PROVE  Safe(c, V)
<1>1. PICK h, l, y : h = [script |-> script, shown |-> l] /\ l = <<y>> /\ y = "raised"
  OBVIOUS
<1>2. V[s] = h /\ V = [t \in Stmts |-> V[t]] /\ \A t \in Stmts : t # s => V[t] = T[t]
  BY <1>1 DEF Told, Others
<1>3. script \in Seq(Int) /\ Len(script) \in Nat /\ Len(script) >= 1 /\ script # <<>>
  BY ScriptIs
<1>4. y \in Words /\ y \in Shows(script[1])
  <2>1. script[1] = ErrPart
    BY <1>3
  <2> QED
    BY <1>1, <2>1, ShowsIs DEF Words
<1>5. l \in Seq(Words) /\ Len(l) = 1 /\ l[1] = y /\ DOMAIN l = 1..1
  BY <1>1, <1>4
<1>6. h.script = script /\ h.shown = l
  BY <1>1
<1>7. h \in Heard
  BY <1>1, <1>5 DEF Heard
<1>8. InOrder(h)
  BY <1>3, <1>4, <1>5, <1>6 DEF InOrder
<1>9. IsHeard(T) /\ IsConn(c) /\ c.fault = "none" /\ c.raised = No
  BY DEF Inv
<1>10. IsHeard(V)
  BY <1>2, <1>7, <1>8, <1>9 DEF IsHeard
<1>11. PICK r, S : r = NewCommand(size) /\ S = <<>>
  OBVIOUS
<1>12. IsFresh(r)
  BY <1>11 DEF IsFresh
<1>13. Fits(r, S, V[s], 0) /\ ~HasUnread(S)
  BY ONLY <1>11, <1>12, FreshFits
<1>14. c = At(c, s, r, S, c.wire, c.more, c.active, No)
  <2>1. c = At(c, s, c.res[s], c.sets[s], c.wire, c.more, c.active, c.raised)
    BY ONLY <1>9, View, s \in Stmts
  <2> QED
    BY ONLY <1>9, <1>11, <2>1, c.res[s] = NewCommand(size), c.sets[s] = <<>>
<1>15. Rest(c.wire, Nobody, s) = 0
  BY NobodyIsApart DEF Rest
<1>16. Fits(r, S, V[s], Rest(c.wire, Nobody, s))
  BY ONLY <1>13, <1>15
<1>17. HasUnread(S) <=> HasUnread(c.sets[s])
  BY <1>11
<1>18. s # Nobody
  BY NobodyIsApart
<1>19. (\A t \in Stmts : t # s => V[t] = T[t]) /\ (s = Nobody => V[s] = T[s])
  BY <1>2, <1>18
<1>20. Inv(c, V, Nobody)
  BY ONLY <1>10, <1>14, <1>16, <1>17, <1>19, Local, Inv(c, T, Nobody), s \in Stmts
<1> QED
  BY <1>20 DEF Safe

(* The command is sent on a clear connection and its first answer told.         *)
LEMMA SendStep ==
  ASSUME NEW c, NEW T, NEW s, NEW size, NEW script, NEW d,
         Inv(c, T, Nobody), c.active = Nobody, s \in Stmts, size \in Nat, c.res[s] = NewCommand(size), c.sets[s] = <<>>,
         script \in Scripts, Len(script) > 1 => size = 0, d = Send(c, s, script)
  PROVE  Answered(T, s, script, d)
<1>1. IsConn(c) /\ c.fault = "none" /\ c.raised = No /\ WireFits(c, T, Nobody)
  BY DEF Inv
<1>2. c.wire = <<>> /\ c.more \in BOOLEAN
  BY <1>1 DEF WireFits
<1>3. ~Unread(c)
  <2>1. \A t \in Stmts : ~HasUnread(c.sets[t])
    BY <1>1, NobodyIsApart DEF WireFits
  <2> QED
    BY <2>1 DEF Unread, HasUnread
<1>4. d = Ended(RealQuery(c, s, script), s)
  BY <1>1, <1>2, <1>3, YesNo DEF Send, Sendable
<1>5. CASE Head(script) = ErrPart
  <2>1. d = Raise(c, Yes)
    <3>1. RealQuery(c, s, script) = Raise(c, Yes)
      BY ONLY <1>5 DEF RealQuery, Raise, Yes
    <3>2. Raise(c, Yes).raised = Yes
      BY ONLY RaiseNo, Inv(c, T, Nobody), s \in Stmts
    <3>3. ~Sendable(Raise(c, Yes))
      BY ONLY <3>2, YesNo DEF Sendable
    <3> QED
      BY ONLY <1>4, <3>1, <3>3 DEF Ended
  <2>2. d.raised
    <3>1. Raise(c, Yes).raised = Yes
      BY ONLY RaiseNo, Inv(c, T, Nobody), s \in Stmts
    <3> QED
      BY ONLY <2>1, <3>1, YesNo
  <2>3. Safe(c, Told(T, s, script, "raised"))
    BY ONLY <1>5, ErrorFirst, Inv(c, T, Nobody), s \in Stmts, size \in Nat, c.res[s] = NewCommand(size), c.sets[s] = <<>>, script \in Scripts
  <2>4. PICK y : y = "raised"
    OBVIOUS
  <2>5. Safe(c, Told(T, s, script, y)) /\ y = IF d.raised THEN "raised" ELSE IF d.res[s].current # 0 THEN "set" ELSE "count"
    BY <2>2, <2>3, <2>4
  <2> QED
    BY ONLY <1>1, <2>1, <2>5, Booleans DEF Answered
<1>6. CASE Head(script) # ErrPart
  <2>1. PICK f, m, E, z : f = size /\ m = c.more /\ E = <<>> /\ z = 0
    OBVIOUS
  <2>2. c = At(c, s, Rec(f, No, No, NoInformation, E, z, z), E, E, m, Nobody, No)
    <3>1. c = At(c, s, c.res[s], c.sets[s], c.wire, c.more, c.active, c.raised)
      BY ONLY <1>1, View, s \in Stmts
    <3>2. c.res[s] = Rec(f, No, No, NoInformation, E, z, z)
      BY ONLY <2>1, NewCommandIs, c.res[s] = NewCommand(size)
    <3> QED
      BY ONLY <1>1, <1>2, <2>1, <3>1, <3>2, c.sets[s] = <<>>, c.active = Nobody
  <2>3. Ready(c, T, s, f, m, E, z)
    BY <1>2, <2>1, <2>2 DEF Ready
  <2>4. PICK g : g = ReadPacket(At(c, s, Rec(f, No, No, NoInformation, E, z, z), E, script, m, Nobody, No), s)
    OBVIOUS
  <2>5. RealQuery(c, s, script) = g
    <3>1. [c EXCEPT !.wire = script] = At(c, s, Rec(f, No, No, NoInformation, E, z, z), E, script, m, Nobody, No)
      <4>1. PICK h : h = At(c, s, Rec(f, No, No, NoInformation, E, z, z), E, E, m, Nobody, No)
        OBVIOUS
      <4>2. [h EXCEPT !.wire = script] = At(c, s, Rec(f, No, No, NoInformation, E, z, z), E, script, m, Nobody, No)
        BY ONLY <4>1 DEF At
      <4> QED
        BY ONLY <2>2, <4>1, <4>2
    <3> QED
      BY ONLY <1>6, <2>4, <3>1 DEF RealQuery
  <2>6. PICK k : k = CommandEnd(g, s)
    OBVIOUS
  <2>7. PICK p, v : First(script, p, v)
    <3>1. script # <<>>
      BY ScriptIs
    <3> QED
      BY <3>1 DEF First
  <2>8. p = Head(script)
    BY <2>7 DEF First
  <2>9. p # ErrPart /\ (Len(script) > 1 => f = 0)
    BY <1>6, <2>1, <2>8
  <2>10. ReadFirst(T, s, script, g, k)
    <3>1. CASE p = OkPart
      BY ONLY <2>3, <2>4, <2>6, <2>7, <2>9, <3>1, SendOk, script \in Scripts
    <3>2. CASE p # OkPart /\ f = 0
      <4>1. Ready(c, T, s, 0, m, E, z) /\ g = ReadPacket(At(c, s, Rec(0, No, No, NoInformation, E, z, z), E, script, m, Nobody, No), s)
        BY ONLY <2>3, <2>4, <3>2
      <4>2. p # OkPart /\ p # ErrPart
        BY <2>9, <3>2
      <4> QED
        BY ONLY <2>6, <2>7, <4>1, <4>2, SendSet, script \in Scripts
    <3>3. CASE p # OkPart /\ f # 0
      <4>1. f # 0 /\ Len(script) <= 1 /\ p # OkPart /\ p # ErrPart
        BY <2>9, <3>3, ScriptIs
      <4> QED
        BY ONLY <2>3, <2>4, <2>6, <2>7, <4>1, SendStream, script \in Scripts
    <3> QED
      BY <3>1, <3>2, <3>3
  <2>11. d = k
    <3>1. Sendable(g)
      BY <2>10, YesNo DEF ReadFirst, Sendable
    <3> QED
      BY ONLY <1>4, <2>5, <2>6, <3>1 DEF Ended
  <2>12. PICK y : Safe(d, Told(T, s, script, y)) /\ d.raised = No /\ y = IF d.res[s].current # 0 THEN "set" ELSE "count"
    BY ONLY <2>10, <2>11 DEF ReadFirst, Sent
  <2>13. Raise(d, No) = d
    <3>1. PICK q, V : Inv(d, V, q)
      BY <2>12 DEF Safe
    <3> QED
      BY ONLY <3>1, RaiseNo, s \in Stmts
  <2>14. y = IF d.raised THEN "raised" ELSE IF d.res[s].current # 0 THEN "set" ELSE "count"
    BY <2>12, YesNo
  <2> QED
    BY ONLY <2>12, <2>13, <2>14, Booleans DEF Answered
<1> QED
  BY <1>5, <1>6

(* An execution keeps the invariant, whoever's answers it found on the connection. *)
LEMMA ExecuteStep ==
  ASSUME NEW s, NEW o, NEW script, NEW size, s \in Stmts, Careful, script \in Scripts, size \in StreamSizes,
         Inv(st, heard, o), Execute(s, script, size)
  PROVE  Safe(st', heard')
<1>1. PICK c, T, U : c = st /\ T = heard /\ U = Others(T, s, Silence)
  OBVIOUS
<1>2. PICK g, begun, e, d, V : /\ g = Destroy(c, s) /\ begun = Begin(g, s, size) /\ e = Send(begun, s, script)
                               /\ d = st' /\ V = heard'
  OBVIOUS
<1>3. /\ \A k \in DOMAIN c.sets[s] : c.sets[s][k].isEof
      /\ c.res[s].made => ~(c.res[s].inWire /\ c.wire # <<>>)
      /\ c.wire # <<>> => c.active # Nobody
      /\ Len(script) > 1 => size = 0
  BY <1>1 DEF Execute, OwnStreamIsRead, AnswersAreAsked
<1>4. PICK y : y = IF e.raised THEN "raised" ELSE IF e.res[s].current # 0 THEN "set" ELSE "count"
  OBVIOUS
<1>5. /\ d = Raise(e, No)
      /\ V = [T EXCEPT ![s] = IF Sendable(begun) THEN [script |-> script, shown |-> <<y>>] ELSE Silence]
  <2>1. /\ st' = [e EXCEPT !.raised = FALSE]
        /\ heard' = [heard EXCEPT ![s] =
             IF Sendable(begun)
             THEN [script |-> script, shown |-> <<IF e.raised THEN "raised" ELSE
                                                  IF e.res[s].current # 0 THEN "set" ELSE "count">>]
             ELSE [script |-> <<>>, shown |-> <<>>]]
    BY <1>1, <1>2 DEF Execute
  <2> QED
    BY ONLY <1>1, <1>2, <1>4, <2>1 DEF Raise, No, Silence
<1>6. Inv(c, T, o) /\ ~HasUnread(c.sets[s])
  BY <1>1, <1>3 DEF HasUnread
<1>7. Destroyed(c, o, s, g, U)
  <2>1. c.res[s].made => ~(c.res[s].inWire /\ c.wire # <<>>)
    BY <1>3
  <2> QED
    BY ONLY <1>1, <1>2, <1>6, <2>1, DestroyStep, s \in Stmts
<1>8. Inv(g, U, o) /\ o # s /\ g.active # s /\ g.sets[s] = <<>> /\ g.wire = c.wire /\ g.active = c.active
  BY <1>7 DEF Destroyed
<1>9. U[s] = Silence /\ size \in Nat /\ (g.wire # <<>> => g.active # Nobody)
  BY <1>1, <1>3, <1>8, ResultsAssumption DEF Others
<1>10. IsBegun(U, s, size, begun)
  <2>1. Inv(g, U, o) /\ o # s /\ g.active # s /\ g.sets[s] = <<>>
    BY <1>8
  <2>2. begun = Begin(g, s, size)
    BY <1>2
  <2> QED
    BY ONLY <1>9, <2>1, <2>2, BeginStep, s \in Stmts
<1>11. PICK h, x : /\ Inv(h, U, Nobody) /\ h.active = Nobody /\ x \in BOOLEAN /\ begun = Raise(h, x)
                   /\ h.res[s] = NewCommand(size) /\ h.sets[s] = <<>>
  BY ONLY <1>10 DEF IsBegun
<1>12. /\ Raise(h, No) = h /\ Raise(Raise(h, x), No) = h /\ Raise(h, x).raised = x /\ Raise(h, x).fault = "none"
  <2>1. Inv(h, U, Nobody)
    BY <1>11
  <2> QED
    BY ONLY <2>1, RaiseNo, s \in Stmts
<1>13. Sendable(begun) <=> ~x
  BY ONLY <1>11, <1>12 DEF Sendable
<1>14. T = [t \in Stmts |-> T[t]]
  BY <1>6 DEF Inv, IsHeard
<1>15. CASE x
  <2>1. e = begun
    BY <1>2, <1>13, <1>15 DEF Send
  <2>2. d = h
    BY ONLY <1>5, <1>11, <1>12, <2>1
  <2>3. V = U
    <3>1. V = [T EXCEPT ![s] = Silence]
      BY ONLY <1>5, <1>13, <1>15
    <3> QED
      BY ONLY <1>1, <1>14, <3>1 DEF Others
  <2>4. Safe(d, V)
    BY <1>11, <2>2, <2>3 DEF Safe
  <2> QED
    BY <1>2, <2>4
<1>16. CASE ~x
  <2>1. begun = h
    <3>1. x = No
      BY <1>11, <1>16, YesNo
    <3> QED
      BY ONLY <1>11, <1>12, <3>1
  <2>2. Answered(U, s, script, e)
    <3>1. e = Send(h, s, script)
      BY <1>2, <2>1
    <3>2. /\ Inv(h, U, Nobody) /\ h.active = Nobody /\ h.res[s] = NewCommand(size) /\ h.sets[s] = <<>>
          /\ size \in Nat /\ (Len(script) > 1 => size = 0)
      BY <1>3, <1>9, <1>11
    <3> QED
      BY ONLY <3>1, <3>2, SendStep, s \in Stmts, script \in Scripts
  <2>3. PICK k, b, u : /\ e = Raise(k, b) /\ b \in BOOLEAN /\ Safe(k, Told(U, s, script, u)) /\ k.raised = No
                       /\ u = IF e.raised THEN "raised" ELSE IF e.res[s].current # 0 THEN "set" ELSE "count"
    BY ONLY <2>2 DEF Answered
  <2>4. PICK W, p : W = Told(U, s, script, u) /\ Inv(k, W, p)
    BY ONLY <2>3 DEF Safe
  <2>5. d = k
    <3>1. Raise(Raise(k, b), No) = k
      BY ONLY <2>4, RaiseNo, s \in Stmts
    <3> QED
      BY ONLY <1>5, <2>3, <3>1
  <2>6. V = W
    <3>1. PICK f : f = [script |-> script, shown |-> <<y>>]
      OBVIOUS
    <3>2. V = [T EXCEPT ![s] = f]
      BY ONLY <1>5, <1>13, <1>16, <3>1
    <3>3. W = Others(U, s, f)
      BY ONLY <1>4, <2>3, <2>4, <3>1 DEF Told
    <3> QED
      BY ONLY <1>1, <1>14, <3>2, <3>3 DEF Others
  <2>7. Safe(d, V)
    BY <2>4, <2>5, <2>6 DEF Safe
  <2> QED
    BY <1>2, <2>7
<1> QED
  BY <1>11, <1>15, <1>16

(* Where a list of answers comes to a result set next.                          *)
SetIsNext(i) == i.idx + 2 \in DOMAIN i.counts /\ i.counts[i.idx + 2] = RESULT_SET_VALUE

(* moreResults says whether a result set comes next.                            *)
LEMMA MoreResultsIs ==
  ASSUME NEW i, IsList(i)
  PROVE  (MoreResults(i) <=> SetIsNext(i)) /\ i.kind = "multiple" /\ DOMAIN i.counts = 1..Len(i.counts) /\ Len(i.counts) \in Nat
         /\ i.idx \in Nat
<1>1. i.kind = "multiple"
  BY KindIs
<1>2. i.counts \in Seq(Int) /\ i.idx \in Nat
  BY DEF IsList
<1>3. DOMAIN i.counts = 1..Len(i.counts) /\ Len(i.counts) \in Nat
  BY <1>2
<1> QED
  BY <1>1, <1>2, <1>3 DEF MoreResults, SetIsNext

(* A list goes on to its next answer.                                           *)
LEMMA ListStepsOn ==
  ASSUME NEW i, NEW j, IsList(i), j = AfterMoreResults(i)
  PROVE  /\ IsList(j) /\ j.counts = i.counts /\ j.idx = i.idx + 1
         /\ GetUpdateCount(j) = IF i.idx + 2 <= Len(i.counts) THEN i.counts[i.idx + 2] ELSE -1
<1>1. PICK ids, failed, expected, rewritten, ct, ix :
        i = Information("multiple", ct, ids, ix, failed, expected, rewritten) /\ ct = i.counts /\ ix = i.idx
  BY DEF IsList, IsInformation
<1>2. i.kind = "multiple" /\ ix \in Nat /\ ct \in Seq(Int)
  BY <1>1, KindIs DEF IsList
<1>3. PICK n : n = ix + 1
  OBVIOUS
<1>4. j = [i EXCEPT !.idx = n]
  BY <1>1, <1>2, <1>3 DEF AfterMoreResults
<1>5. j = Information("multiple", ct, ids, n, failed, expected, rewritten)
  BY ONLY <1>1, <1>4 DEF Information
<1>6. j.kind = "multiple" /\ j.counts = ct /\ j.idx = n /\ IsInformation(j, "multiple")
  BY <1>5, InformationIs
<1>7. IsList(j)
  BY <1>2, <1>3, <1>6 DEF IsList
<1>8. n + 1 = ix + 2
  BY <1>2, <1>3
<1>9. GetUpdateCount(j) = IF n + 1 <= Len(ct) THEN ct[n + 1] ELSE -1
  BY <1>6 DEF GetUpdateCount
<1> QED
  BY <1>1, <1>3, <1>6, <1>7, <1>8, <1>9

(* A record of one answer has nothing more.                                     *)
LEMMA SingleStepsOn ==
  ASSUME NEW i, NEW j, IsSingle(i), j = AfterMoreResults(i)
  PROVE  IsSingle(j) /\ GetUpdateCount(j) = -1 /\ ~MoreResults(i)
<1>1. PICK ids, failed, expected, rewritten, ct, ix :
        i = Information("single", ct, ids, ix, failed, expected, rewritten) /\ ct = i.counts /\ ix = i.idx
  BY DEF IsSingle, IsInformation
<1>2. i.kind = "single"
  BY KindIs
<1>3. PICK n : n = <<RESULT_SET_VALUE>>
  OBVIOUS
<1>4. j = [i EXCEPT !.counts = n]
  BY <1>2, <1>3 DEF AfterMoreResults
<1>5. j = Information("single", n, ids, ix, failed, expected, rewritten)
  BY ONLY <1>1, <1>4 DEF Information
<1>6. j.kind = "single" /\ j.counts = n /\ IsInformation(j, "single")
  BY <1>5, InformationIs
<1>7. n \in Seq(Int) /\ Len(n) = 1 /\ n[1] = -1
  BY <1>3 DEF RESULT_SET_VALUE
<1>8. IsSingle(j)
  BY <1>6, <1>7 DEF IsSingle
<1>9. GetUpdateCount(j) = -1
  BY <1>6, <1>7 DEF GetUpdateCount
<1> QED
  BY <1>2, <1>8, <1>9 DEF MoreResults

(* The result set that the application comes to is no longer ahead of it.       *)
LEMMA AheadShrinks ==
  ASSUME NEW i, NEW j, IsList(i), IsList(j), j.counts = i.counts, j.idx = i.idx + 1
  PROVE  /\ SetIsNext(i) => Cardinality(SetsAhead(i)) > 0 /\ Cardinality(SetsAhead(j)) = Cardinality(SetsAhead(i)) - 1
         /\ ~SetIsNext(i) => SetsAhead(j) = SetsAhead(i)
<1>1. i.idx \in Nat /\ DOMAIN i.counts = 1..Len(i.counts) /\ Len(i.counts) \in Nat
  BY MoreResultsIs
<1>2. ASSUME SetIsNext(i) PROVE Cardinality(SetsAhead(i)) > 0 /\ Cardinality(SetsAhead(j)) = Cardinality(SetsAhead(i)) - 1
  <2>1. PICK n : n = i.idx + 2
    OBVIOUS
  <2>2. n \in SetsAhead(i)
    BY <1>1, <1>2, <2>1 DEF SetsAhead, SetIsNext
  <2>3. SetsAhead(j) = SetsAhead(i) \ {n}
    BY <1>1, <2>1 DEF SetsAhead
  <2>4. IsFiniteSet(SetsAhead(i)) /\ Cardinality(SetsAhead(i)) \in Nat
    BY AheadIsFinite
  <2>5. Cardinality(SetsAhead(i) \ {n}) = Cardinality(SetsAhead(i)) - 1
    BY <2>2, <2>4, FS_RemoveElement
  <2>6. Cardinality(SetsAhead(j)) \in Nat
    BY AheadIsFinite
  <2> QED
    BY <2>3, <2>4, <2>5, <2>6
<1>3. ASSUME ~SetIsNext(i) PROVE SetsAhead(j) = SetsAhead(i)
  BY <1>1, <1>3 DEF SetsAhead, SetIsNext
<1> QED
  BY <1>2, <1>3

(* What an application may be shown as the n-th answer.                         *)
Allowed(T, n) ==
  IF n <= Len(T.script) THEN Shows(T.script[n])
  ELSE IF T.script[Len(T.script)] = ErrPart THEN {"none", "failed"} ELSE {"none"}

Shown(T, s, y) == Others(T, s, [script |-> T[s].script, shown |-> Append(T[s].shown, y)])

(* One more answer was shown, and rightly so.                                   *)
LEMMA ShownMore ==
  ASSUME NEW T, NEW s, NEW y, NEW U,
         IsHeard(T), s \in Stmts, y \in Words, y \in Allowed(T[s], Len(T[s].shown) + 1), U = Shown(T, s, y)
  PROVE  /\ IsHeard(U) /\ U[s].script = T[s].script /\ Len(U[s].shown) = Len(T[s].shown) + 1
         /\ \A t \in Stmts : t # s => U[t] = T[t]
<1>1. PICK p, l, h : p = T[s].script /\ l = Append(T[s].shown, y) /\ h = [script |-> p, shown |-> l]
  OBVIOUS
<1>2. U[s] = h /\ U = [t \in Stmts |-> U[t]] /\ \A t \in Stmts : t # s => U[t] = T[t]
  BY <1>1 DEF Shown, Others
<1>3. h.script = p /\ h.shown = l
  BY <1>1
<1>4. T[s] \in Heard /\ InOrder(T[s])
  BY DEF IsHeard
<1>5. p \in Scripts \cup {<<>>} /\ T[s].shown \in Seq(Words)
  BY <1>1, <1>4 DEF Heard
<1>6. /\ l \in Seq(Words) /\ Len(l) = Len(T[s].shown) + 1 /\ DOMAIN l = 1..(Len(T[s].shown) + 1)
      /\ l[Len(T[s].shown) + 1] = y /\ \A n \in 1..Len(T[s].shown) : l[n] = T[s].shown[n]
      /\ DOMAIN T[s].shown = 1..Len(T[s].shown) /\ Len(T[s].shown) \in Nat
  BY <1>1, <1>5
<1>7. h \in Heard
  BY <1>1, <1>5, <1>6 DEF Heard
<1>8. InOrder(h)
  <2>1. ASSUME NEW n, n \in DOMAIN l PROVE l[n] \in Allowed(T[s], n)
    <3>1. CASE n = Len(T[s].shown) + 1
      BY <1>6, <3>1
    <3>2. CASE n # Len(T[s].shown) + 1
      <4>1. n \in 1..Len(T[s].shown)
        BY <1>6, <2>1, <3>2
      <4>2. T[s].shown[n] \in Allowed(T[s], n)
        BY <1>4, <1>6, <4>1 DEF InOrder, Allowed
      <4> QED
        BY <1>6, <4>1, <4>2
    <3> QED
      BY <3>1, <3>2
  <2>2. \A n \in DOMAIN l : l[n] \in Allowed(h, n)
    BY <1>1, <1>3, <2>1 DEF Allowed
  <2> QED
    BY ONLY <1>3, <2>2 DEF InOrder, Allowed
<1>9. IsHeard(U)
  BY <1>2, <1>7, <1>8 DEF IsHeard
<1> QED
  BY <1>1, <1>2, <1>3, <1>6, <1>9

(* What getMoreResults tells of the answer it comes to.                         *)
Word(i, j) ==
  IF MoreResults(i) THEN "set"
  ELSE IF GetUpdateCount(j) = -1 THEN "none" ELSE IF GetUpdateCount(j) = EXECUTE_FAILED THEN "failed" ELSE "count"

(* What getMoreResults tells is right for the answer that is due: also of an error *)
(* that was noted twice, and of one asked for after the last.                   *)
LEMMA WordIs ==
  ASSUME NEW i, NEW j, NEW T, NEW rest, NEW n,
         IsList(i), j = AfterMoreResults(i), T.script \in Scripts, rest \in Nat, CountsRight(i, T.script, rest),
         ShownRight(i, T), Len(T.shown) \in Nat, Len(T.shown) <= Len(T.script),
         rest > 0 => Len(T.shown) = Len(T.script) - rest - 1, n = Len(T.shown) + 1
  PROVE  /\ Word(i, j) \in Allowed(T, n) /\ Word(i, j) \in Words
         /\ rest > 0 /\ ~SetIsNext(i) => GetUpdateCount(j) # -1
<1>1. PICK p, k, l : p = T.script /\ k = Len(p) /\ l = Len(T.shown)
  OBVIOUS
<1>2. p \in Seq(Int) /\ k \in Nat /\ k >= 1 /\ l \in Nat /\ l <= k /\ n = l + 1
  BY <1>1, ScriptIs
<1>3. (MoreResults(i) <=> SetIsNext(i)) /\ DOMAIN i.counts = 1..Len(i.counts) /\ Len(i.counts) \in Nat /\ i.idx \in Nat
  BY MoreResultsIs
<1>4. GetUpdateCount(j) = IF i.idx + 2 <= Len(i.counts) THEN i.counts[i.idx + 2] ELSE -1
  BY ListStepsOn
<1>5. /\ k - rest >= 1 /\ \A q \in 1..(k - rest) : q \in DOMAIN i.counts /\ i.counts[q] = Answer(p[q])
      /\ \/ Len(i.counts) = k - rest
         \/ Len(i.counts) = k - rest + 1 /\ rest = 0 /\ p[k - rest] = ErrPart /\ i.counts[k - rest + 1] = EXECUTE_FAILED
  BY <1>1 DEF CountsRight
<1>6. /\ rest > 0 => l = k - rest - 1
      /\ (l = i.idx + 1) \/ (l = i.idx + 2 /\ l >= k /\ p[k] = ErrPart)
  BY <1>1 DEF ShownRight
<1>7. EXECUTE_FAILED = -3 /\ RESULT_SET_VALUE = -1
  BY DEF EXECUTE_FAILED, RESULT_SET_VALUE
<1>8. Allowed(T, n) = IF n <= k THEN Shows(p[n]) ELSE IF p[k] = ErrPart THEN {"none", "failed"} ELSE {"none"}
  BY <1>1 DEF Allowed
<1>9. CASE l = i.idx + 1 /\ n <= k
  <2>1. n = i.idx + 2 /\ n \in 1..(k - rest) /\ n \in DOMAIN i.counts
    <3>1. n = i.idx + 2 /\ n \in Nat /\ n >= 1
      BY <1>2, <1>3, <1>9
    <3>2. n <= k - rest
      <4>1. CASE rest = 0
        BY <1>2, <1>9, <4>1
      <4>2. CASE rest > 0
        BY <1>2, <1>6, <4>2
      <4> QED
        BY <4>1, <4>2
    <3>3. n \in 1..(k - rest)
      BY <1>2, <3>1, <3>2
    <3> QED
      BY <1>5, <3>1, <3>3
  <2>2. i.counts[n] = Answer(p[n]) /\ n <= Len(i.counts)
    BY <1>3, <1>5, <2>1
  <2>3. GetUpdateCount(j) = Answer(p[n]) /\ (SetIsNext(i) <=> Answer(p[n]) = RESULT_SET_VALUE)
    BY <1>4, <2>1, <2>2 DEF SetIsNext
  <2>4. Word(i, j) \in Shows(p[n]) /\ Word(i, j) \in Words /\ (~SetIsNext(i) => GetUpdateCount(j) # -1)
    <3>1. CASE p[n] = OkPart
      <4>1. Answer(p[n]) = 1
        BY <3>1, AnswerIs
      <4>2. Word(i, j) = "count" /\ GetUpdateCount(j) # -1
        BY <1>3, <1>7, <2>3, <4>1 DEF Word
      <4> QED
        BY <3>1, <4>2, ShowsIs DEF Words
    <3>2. CASE p[n] = ErrPart
      <4>1. Answer(p[n]) = EXECUTE_FAILED
        BY <3>2, AnswerIs
      <4>2. Word(i, j) = "failed" /\ GetUpdateCount(j) # -1
        BY <1>3, <1>7, <2>3, <4>1 DEF Word
      <4> QED
        BY <3>2, <4>2, ShowsIs DEF Words
    <3>3. CASE p[n] # OkPart /\ p[n] # ErrPart
      <4>1. Answer(p[n]) = RESULT_SET_VALUE
        BY <3>3, AnswerIs
      <4>2. Word(i, j) = "set" /\ SetIsNext(i)
        BY <1>3, <2>3, <4>1 DEF Word
      <4> QED
        BY <3>3, <4>2, ShowsIs DEF Words
    <3> QED
      BY <3>1, <3>2, <3>3
  <2> QED
    BY <1>8, <1>9, <2>4
<1>10. CASE l = i.idx + 1 /\ n > k
  <2>1. rest = 0 /\ n = k + 1 /\ n = i.idx + 2
    BY <1>2, <1>3, <1>6, <1>10
  <2>2. CASE Len(i.counts) = k
    <3>1. GetUpdateCount(j) = -1 /\ ~SetIsNext(i)
      BY <1>2, <1>3, <1>4, <2>1, <2>2 DEF SetIsNext
    <3>2. Word(i, j) = "none"
      BY <1>3, <3>1 DEF Word
    <3> QED
      BY <1>2, <1>8, <1>10, <2>1, <3>2 DEF Words
  <2>3. CASE Len(i.counts) = k + 1 /\ p[k] = ErrPart /\ i.counts[k + 1] = EXECUTE_FAILED
    <3>1. GetUpdateCount(j) = EXECUTE_FAILED /\ ~SetIsNext(i)
      BY <1>2, <1>3, <1>4, <1>7, <2>1, <2>3 DEF SetIsNext
    <3>2. Word(i, j) = "failed"
      BY <1>3, <1>7, <3>1 DEF Word
    <3> QED
      BY <1>2, <1>8, <1>10, <2>1, <2>3, <3>2 DEF Words
  <2>4. Len(i.counts) = k \/ (Len(i.counts) = k + 1 /\ p[k] = ErrPart /\ i.counts[k + 1] = EXECUTE_FAILED)
    BY <1>2, <1>5, <2>1
  <2> QED
    BY <2>2, <2>3, <2>4
<1>11. CASE l = i.idx + 2 /\ l >= k /\ p[k] = ErrPart
  <2>1. l = k /\ rest = 0 /\ n = k + 1
    BY <1>2, <1>6, <1>11
  <2>2. k \in DOMAIN i.counts /\ i.counts[k] = Answer(p[k])
    BY <1>2, <1>5, <2>1
  <2>3. i.counts[k] = EXECUTE_FAILED /\ k <= Len(i.counts)
    BY <1>3, <1>11, <2>2, AnswerIs
  <2>4. GetUpdateCount(j) = EXECUTE_FAILED /\ ~SetIsNext(i)
    BY <1>4, <1>7, <1>11, <2>1, <2>3 DEF SetIsNext
  <2>5. Word(i, j) = "failed"
    BY <1>3, <1>7, <2>4 DEF Word
  <2> QED
    BY <1>2, <1>8, <1>11, <2>1, <2>5 DEF Words
<1>12. l = i.idx + 1 => n <= k \/ n > k
  BY <1>2
<1> QED
  BY <1>6, <1>9, <1>10, <1>11, <1>12

(* One field of a statement's Results changes.                                  *)
LEMMA StepAt ==
  ASSUME NEW c, NEW s, NEW f, NEW inWire, NEW caching, NEW i, NEW ahead, NEW current, NEW released,
         NEW S, NEW w, NEW m, NEW a, NEW x, NEW j, s \in Stmts, j = AfterMoreResults(i)
  PROVE  Step(At(c, s, Rec(f, inWire, caching, i, ahead, current, released), S, w, m, a, x), s)
           = At(c, s, Rec(f, inWire, caching, j, ahead, current, released), S, w, m, a, x)
<1>1. PICK r, q : r = Rec(f, inWire, caching, i, ahead, current, released) /\ q = Rec(f, inWire, caching, j, ahead, current, released)
  OBVIOUS
<1>2. PICK d : d = At(c, s, r, S, w, m, a, x)
  OBVIOUS
<1>3. d.res[s] = r
  BY <1>2, AtIs
<1>4. r.cmd = i
  BY <1>1, RecIs
<1>5. [r EXCEPT !.cmd = j] = q
  BY ONLY <1>1 DEF Rec
<1>6. Step(d, s) = PutRes(d, s, q)
  BY ONLY <1>3, <1>4, <1>5, j = AfterMoreResults(i) DEF PutRes, Step
<1> QED
  BY ONLY <1>1, <1>2, <1>6, PutAt, s \in Stmts

(* No result set is current.                                                    *)
LEMMA NoSetAt ==
  ASSUME NEW c, NEW s, NEW f, NEW inWire, NEW caching, NEW i, NEW ahead, NEW current, NEW released,
         NEW S, NEW w, NEW m, NEW a, NEW x, NEW z, s \in Stmts, z = 0
  PROVE  NoSet(At(c, s, Rec(f, inWire, caching, i, ahead, current, released), S, w, m, a, x), s)
           = At(c, s, Rec(f, inWire, caching, i, ahead, z, released), S, w, m, a, x)
<1>1. PICK r, q : r = Rec(f, inWire, caching, i, ahead, current, released) /\ q = Rec(f, inWire, caching, i, ahead, z, released)
  OBVIOUS
<1>2. PICK d : d = At(c, s, r, S, w, m, a, x)
  OBVIOUS
<1>3. d.res[s] = r
  BY <1>2, AtIs
<1>4. [r EXCEPT !.current = z] = q
  BY ONLY <1>1 DEF Rec
<1>5. NoSet(d, s) = PutRes(d, s, q)
  BY ONLY <1>3, <1>4, z = 0 DEF PutRes, NoSet
<1> QED
  BY ONLY <1>1, <1>2, <1>5, PutAt, s \in Stmts

(* The next result set of a statement.                                          *)
LEMMA NextSetOf ==
  ASSUME NEW c, NEW s, NEW f, NEW inWire, NEW caching, NEW i, NEW ahead, NEW current, NEW released,
         NEW S, NEW w, NEW m, NEW a, NEW x, NEW k, NEW l, s \in Stmts, First(ahead, k, l)
  PROVE  NextSet(At(c, s, Rec(f, inWire, caching, i, ahead, current, released), S, w, m, a, x), s)
           = At(c, s, Rec(f, inWire, caching, i, l, k, released), S, w, m, a, x)
<1>0. ahead # <<>> /\ k = Head(ahead) /\ l = Tail(ahead)
  BY DEF First
<1>1. PICK r, h, q : /\ r = Rec(f, inWire, caching, i, ahead, current, released)
                     /\ h = Rec(f, inWire, caching, i, ahead, k, released) /\ q = Rec(f, inWire, caching, i, l, k, released)
  OBVIOUS
<1>2. PICK d, e : d = At(c, s, r, S, w, m, a, x) /\ e = PutRes(d, s, h)
  OBVIOUS
<1>3. d.res[s] = r
  BY <1>2, AtIs
<1>4. r.exec = ahead
  BY <1>1, RecIs
<1>5. e = At(c, s, h, S, w, m, a, x)
  BY ONLY <1>2, PutAt, s \in Stmts
<1>6. e.res[s] = h
  BY <1>5, AtIs
<1>7. [r EXCEPT !.current = k] = h
  BY ONLY <1>1 DEF Rec
<1>8. [h EXCEPT !.exec = l] = q
  BY ONLY <1>1 DEF Rec
<1>9. NextSet(d, s) = PutRes(e, s, q)
  <2>1. d.res[s].exec = ahead
    BY ONLY <1>3, <1>4
  <2>2. NextSet(d, s) = [d EXCEPT !.res[s].current = k, !.res[s].exec = l]
    BY ONLY <1>0, <2>1 DEF NextSet
  <2>3. [d EXCEPT !.res[s].current = k] = e
    BY ONLY <1>2, <1>3, <1>7 DEF PutRes
  <2>4. [e EXCEPT !.res[s].exec = l] = PutRes(e, s, q)
    BY ONLY <1>6, <1>8 DEF PutRes
  <2>5. NextSet(d, s) = [e EXCEPT !.res[s].exec = l]
    BY ONLY <2>2, <2>3
  <2> QED
    BY ONLY <2>4, <2>5
<1> QED
  BY ONLY <1>1, <1>2, <1>5, <1>9, PutAt, s \in Stmts

(* getMoreResults, once the next answer was read: a result set, or not.         *)
LEMMA StepsToSet ==
  ASSUME NEW c, NEW s, NEW f, NEW inWire, NEW caching, NEW i, NEW ahead, NEW current, NEW released,
         NEW S, NEW w, NEW m, NEW a, NEW j, NEW k, NEW l, NEW g,
         s \in Stmts, j = AfterMoreResults(i), MoreResults(i), First(ahead, k, l),
         g = At(c, s, Rec(f, inWire, caching, i, ahead, current, released), S, w, m, a, No)
  PROVE  StepOn(g, s) = At(c, s, Rec(f, inWire, caching, j, l, k, released), S, w, m, a, No)
<1>1. PICK r : r = Rec(f, inWire, caching, i, ahead, current, released)
  OBVIOUS
<1>2. g.raised = No /\ g.fault = "none" /\ g.res[s] = r
  BY <1>1, AtIs
<1>3. r.cmd = i
  BY <1>1, RecIs
<1>4. Sendable(g)
  BY <1>2, YesNo DEF Sendable
<1>5. StepOn(g, s) = NextSet(Step(g, s), s)
  BY ONLY <1>2, <1>3, <1>4, MoreResults(i) DEF StepOn
<1>6. Step(g, s) = At(c, s, Rec(f, inWire, caching, j, ahead, current, released), S, w, m, a, No)
  BY ONLY StepAt, s \in Stmts, j = AfterMoreResults(i), g = At(c, s, Rec(f, inWire, caching, i, ahead, current, released), S, w, m, a, No)
<1>7. NextSet(Step(g, s), s) = At(c, s, Rec(f, inWire, caching, j, l, k, released), S, w, m, a, No)
  BY ONLY <1>6, NextSetOf, s \in Stmts, First(ahead, k, l)
<1> QED
  BY ONLY <1>5, <1>7

(* The next answer is no result set.                                            *)
LEMMA StepsToCount ==
  ASSUME NEW c, NEW s, NEW f, NEW inWire, NEW caching, NEW i, NEW ahead, NEW current, NEW released,
         NEW S, NEW w, NEW m, NEW a, NEW j, NEW z, NEW g,
         s \in Stmts, j = AfterMoreResults(i), ~MoreResults(i), ~(GetUpdateCount(j) = -1 /\ inWire), z = 0,
         g = At(c, s, Rec(f, inWire, caching, i, ahead, current, released), S, w, m, a, No)
  PROVE  StepOn(g, s) = At(c, s, Rec(f, inWire, caching, j, ahead, z, released), S, w, m, a, No)
<1>1. PICK r, q : r = Rec(f, inWire, caching, i, ahead, current, released) /\ q = Rec(f, inWire, caching, j, ahead, z, released)
  OBVIOUS
<1>2. g.raised = No /\ g.fault = "none" /\ g.res[s] = r
  BY <1>1, AtIs
<1>3. r.cmd = i /\ q.cmd = j /\ q.inWire = inWire
  BY <1>1, RecIs
<1>4. Sendable(g)
  BY <1>2, YesNo DEF Sendable
<1>5. StepOn(g, s) = NoMore(NoSet(Step(g, s), s), s)
  BY ONLY <1>2, <1>3, <1>4, ~MoreResults(i) DEF StepOn
<1>6. Step(g, s) = At(c, s, Rec(f, inWire, caching, j, ahead, current, released), S, w, m, a, No)
  BY ONLY StepAt, s \in Stmts, j = AfterMoreResults(i), g = At(c, s, Rec(f, inWire, caching, i, ahead, current, released), S, w, m, a, No)
<1>7. PICK h : h = NoSet(Step(g, s), s)
  OBVIOUS
<1>8. h = At(c, s, q, S, w, m, a, No)
  BY ONLY <1>1, <1>6, <1>7, NoSetAt, s \in Stmts, z = 0
<1>9. h.res[s] = q
  BY <1>8, AtIs
<1>10. NoMore(h, s) = h
  BY ONLY <1>3, <1>9, ~(GetUpdateCount(j) = -1 /\ inWire) DEF NoMore
<1> QED
  BY ONLY <1>1, <1>5, <1>7, <1>8, <1>10

(* getMoreResults leaves a result set that has all its rows.                    *)
LEMMA LeaveStep ==
  ASSUME NEW c, NEW T, NEW o, NEW s, NEW keep, NEW d,
         Inv(c, T, o), s \in Stmts, c.res[s].made, keep \in BOOLEAN,
         CurrentSet(c.res[s]) # 0 => c.sets[s][CurrentSet(c.res[s])].isEof, d = LeaveCurrent(c, s, keep)
  PROVE  ClosedOnly(c, T, o, s, d)
<1>1. PICK k, r, S : k = CurrentSet(r) /\ r = c.res[s] /\ S = c.sets[s]
  OBVIOUS
<1>2. Fits(r, S, T[s], Rest(c.wire, o, s))
  BY <1>1 DEF Inv
<1>3. AllSets(S) /\ r.current \in 0..Len(S) /\ r.released \in 0..Len(S) /\ Len(S) \in Nat /\ DOMAIN S = 1..Len(S)
  BY <1>2 DEF Fits, Places, AllSets
<1>4. k = IF r.current # 0 THEN r.current ELSE r.released
  BY <1>1 DEF CurrentSet
<1>5. k \in 0..Len(S) /\ (k # 0 => S[k].isEof)
  BY <1>1, <1>3, <1>4
<1>6. ~HasUnread(S)
  <2>1. ASSUME HasUnread(S) PROVE FALSE
    <3>1. Len(S) = 1 /\ (r.current # 0 \/ r.released # 0)
      BY <1>2, <2>1 DEF Fits
    <3>2. k = 1
      BY <1>3, <1>4, <3>1
    <3> QED
      BY <1>3, <1>5, <2>1, <3>1, <3>2 DEF HasUnread
  <2> QED
    BY <2>1
<1>7. CASE d = c
  BY <1>1, <1>6, <1>7 DEF ClosedOnly
<1>8. CASE k # 0 /\ ~keep
  <2>1. PICK l : l = Yes
    OBVIOUS
  <2>2. d = CloseSet(c, s, k, l)
    BY <1>1, <1>8, <2>1 DEF LeaveCurrent, Yes
  <2>3. l \in BOOLEAN /\ k \in 1..Len(c.sets[s]) /\ c.sets[s][k].isEof
    BY <1>1, <1>3, <1>5, <1>8, <2>1, Booleans
  <2> QED
    BY ONLY <2>2, <2>3, CloseReadSet, Inv(c, T, o), s \in Stmts, c.res[s].made
<1>9. CASE k = 0
  <2>1. d = c
    BY <1>1, <1>9 DEF LeaveCurrent
  <2> QED
    BY <1>7, <2>1
<1>10. CASE k # 0 /\ keep
  <2>1. ReadRest(c, s, k) = c
    BY <1>1, <1>5, <1>10 DEF ReadRest
  <2>2. d = c
    BY <1>1, <1>10, <2>1 DEF LeaveCurrent
  <2> QED
    BY <1>7, <2>2
<1> QED
  BY <1>8, <1>9, <1>10

(* What a list of answers still fits once the application went one on.          *)
LEMMA ListFitsOn ==
  ASSUME NEW f, NEW inWire, NEW caching, NEW i, NEW j, NEW l, NEW k, NEW released, NEW S, NEW T, NEW U, NEW rest,
         IsList(i), j = AfterMoreResults(i), CountsRight(i, T.script, rest), ShownRight(i, T),
         AllSets(S), ~HasUnread(S), l \in Seq(1..Len(S)), k \in 0..Len(S), released \in 0..Len(S),
         Len(l) = Cardinality(SetsAhead(j)), U.script = T.script, Len(U.shown) = Len(T.shown) + 1,
         Len(T.shown) \in Nat, Len(T.script) \in Nat, rest \in Nat, f \in Nat, inWire \in BOOLEAN, caching \in BOOLEAN,
         inWire => rest > 0, rest > 0 => inWire /\ f = 0 /\ Len(U.shown) = Len(U.script) - rest, f # 0 => S = <<>>
  PROVE  Fits(Rec(f, inWire, caching, j, l, k, released), S, U, rest)
<1>1. PICK q : q = Rec(f, inWire, caching, j, l, k, released)
  OBVIOUS
<1>2. /\ q.fetchSize = f /\ q.inWire = inWire /\ q.caching = caching /\ q.cmd = j /\ q.exec = l
      /\ q.current = k /\ q.released = released
  BY <1>1, RecIs
<1>3. IsMade(q)
  BY <1>1, <1>2 DEF IsMade
<1>4. IsList(j) /\ j.counts = i.counts /\ j.idx = i.idx + 1
  BY ONLY ListStepsOn, IsList(i), j = AfterMoreResults(i)
<1>5. CountsRight(j, U.script, rest)
  BY ONLY <1>4, CountsRight(i, T.script, rest), U.script = T.script DEF CountsRight
<1>6. ShownRight(j, U)
  <2>1. i.idx \in Nat
    BY DEF IsList
  <2>2. Len(U.shown) = Len(T.shown) + 1 /\ Len(T.shown) \in Nat /\ U.script = T.script /\ Len(T.script) \in Nat
    OBVIOUS
  <2> QED
    BY ONLY <1>4, <2>1, <2>2, ShownRight(i, T) DEF ShownRight
<1>7. ListFits(q, U, rest)
  BY ONLY <1>2, <1>4, <1>5, <1>6, Len(l) = Cardinality(SetsAhead(j)) DEF ListFits
<1>8. Places(q, S)
  BY <1>2 DEF Places
<1> QED
  BY <1>1, <1>2, <1>3, <1>4, <1>7, <1>8 DEF Fits

(* getMoreResults went to the next answer, from g to d.                         *)
Moves(c, s, S, w, m, a, U, rest, i, g, d) ==
  /\ \E q : d = At(c, s, q, S, w, m, a, No) /\ Fits(q, S, U, rest)
  /\ Seen(g, d, s) = Word(i, AfterMoreResults(i))

(* With a list: the result set shown is the one read for that answer.           *)
LEMMA ListMoves ==
  ASSUME NEW c, NEW s, NEW f, NEW inWire, NEW caching, NEW i, NEW ahead, NEW current, NEW released, NEW S,
         NEW w, NEW m, NEW a, NEW T, NEW U, NEW rest, NEW g, NEW d,
         s \in Stmts, g = At(c, s, Rec(f, inWire, caching, i, ahead, current, released), S, w, m, a, No), d = StepOn(g, s),
         IsList(i), CountsRight(i, T.script, rest), ShownRight(i, T), Len(ahead) = Cardinality(SetsAhead(i)),
         AllSets(S), ~HasUnread(S), ahead \in Seq(1..Len(S)), released \in 0..Len(S),
         U.script = T.script, Len(U.shown) = Len(T.shown) + 1, T.script \in Scripts,
         Len(T.shown) \in Nat, Len(T.shown) <= Len(T.script), rest \in Nat, f \in Nat, inWire \in BOOLEAN, caching \in BOOLEAN,
         inWire => rest > 0, rest > 0 => inWire /\ f = 0 /\ Len(U.shown) = Len(U.script) - rest, f # 0 => S = <<>>
  PROVE  Moves(c, s, S, w, m, a, U, rest, i, g, d)
<1>1. PICK j, r : j = AfterMoreResults(i) /\ r = Rec(f, inWire, caching, i, ahead, current, released)
  OBVIOUS
<1>2. IsList(j) /\ j.counts = i.counts /\ j.idx = i.idx + 1
  BY ONLY <1>1, ListStepsOn, IsList(i)
<1>3. /\ SetIsNext(i) => Cardinality(SetsAhead(i)) > 0 /\ Cardinality(SetsAhead(j)) = Cardinality(SetsAhead(i)) - 1
      /\ ~SetIsNext(i) => SetsAhead(j) = SetsAhead(i)
  BY ONLY <1>2, AheadShrinks, IsList(i)
<1>4. MoreResults(i) <=> SetIsNext(i)
  BY ONLY MoreResultsIs, IsList(i)
<1>5. Len(T.script) \in Nat
  BY ScriptIs
<1>6. g.res[s] = r /\ g.raised = No
  BY ONLY <1>1, AtIs, s \in Stmts, g = At(c, s, Rec(f, inWire, caching, i, ahead, current, released), S, w, m, a, No)
<1>7. r.cmd = i
  BY ONLY <1>1, RecIs
<1>a. Len(S) \in Nat
  BY DEF AllSets
<1>8. CASE SetIsNext(i)
  <2>1. PICK k, l : First(ahead, k, l)
    <3>1. ahead # <<>>
      BY <1>3, <1>8
    <3> QED
      BY <3>1 DEF First
  <2>2. k \in 1..Len(S) /\ l \in Seq(1..Len(S)) /\ Len(l) = Len(ahead) - 1
    BY <2>1 DEF First
  <2>3. PICK q : q = Rec(f, inWire, caching, j, l, k, released)
    OBVIOUS
  <2>4. d = At(c, s, q, S, w, m, a, No)
    <3>1. MoreResults(i) /\ j = AfterMoreResults(i)
      BY <1>1, <1>4, <1>8
    <3>2. StepOn(g, s) = At(c, s, Rec(f, inWire, caching, j, l, k, released), S, w, m, a, No)
      BY ONLY <2>1, <3>1, StepsToSet, s \in Stmts, g = At(c, s, Rec(f, inWire, caching, i, ahead, current, released), S, w, m, a, No)
    <3> QED
      BY ONLY <2>3, <3>2, d = StepOn(g, s)
  <2>5. Fits(q, S, U, rest)
    <3>1. Len(l) = Cardinality(SetsAhead(j))
      BY <1>3, <1>8, <2>2
    <3>2. k \in 0..Len(S) /\ l \in Seq(1..Len(S)) /\ j = AfterMoreResults(i)
      BY <1>1, <1>a, <2>2
    <3> QED
      BY ONLY <1>5, <2>3, <3>1, <3>2, ListFitsOn, IsList(i), CountsRight(i, T.script, rest), ShownRight(i, T), AllSets(S), ~HasUnread(S),
              released \in 0..Len(S), U.script = T.script, Len(U.shown) = Len(T.shown) + 1, Len(T.shown) \in Nat, rest \in Nat, f \in Nat,
              inWire \in BOOLEAN, caching \in BOOLEAN, inWire => rest > 0,
              rest > 0 => inWire /\ f = 0 /\ Len(U.shown) = Len(U.script) - rest, f # 0 => S = <<>>
  <2>6. d.res[s] = q
    BY ONLY <2>4, AtIs, s \in Stmts
  <2>7. q.current = k
    BY ONLY <2>3, RecIs
  <2>8. Seen(g, d, s) = "set"
    <3>1. d.res[s].current # 0
      BY <2>2, <2>6, <2>7
    <3> QED
      BY <1>4, <1>6, <1>7, <1>8, <3>1, YesNo DEF Seen
  <2>9. Word(i, j) = "set"
    BY <1>4, <1>8 DEF Word
  <2> QED
    BY ONLY <1>1, <2>4, <2>5, <2>8, <2>9 DEF Moves
<1>9. CASE ~SetIsNext(i)
  <2>1. ~(GetUpdateCount(j) = -1 /\ inWire)
    <3>1. PICK n : n = Len(T.shown) + 1
      OBVIOUS
    <3>2. rest > 0 => Len(T.shown) = Len(T.script) - rest - 1
      BY <1>5
    <3>3. rest > 0 /\ ~SetIsNext(i) => GetUpdateCount(j) # -1
      BY ONLY <1>1, <3>1, <3>2, WordIs, IsList(i), T.script \in Scripts, rest \in Nat, CountsRight(i, T.script, rest),
              ShownRight(i, T), Len(T.shown) \in Nat, Len(T.shown) <= Len(T.script)
    <3> QED
      BY <1>9, <3>3
  <2>2. PICK q, z : q = Rec(f, inWire, caching, j, ahead, z, released) /\ z = 0
    OBVIOUS
  <2>3. d = At(c, s, q, S, w, m, a, No)
    <3>1. ~MoreResults(i) /\ j = AfterMoreResults(i) /\ z = 0
      BY <1>1, <1>4, <1>9, <2>2
    <3>2. StepOn(g, s) = At(c, s, Rec(f, inWire, caching, j, ahead, z, released), S, w, m, a, No)
      BY ONLY <2>1, <3>1, StepsToCount, s \in Stmts, g = At(c, s, Rec(f, inWire, caching, i, ahead, current, released), S, w, m, a, No)
    <3> QED
      BY ONLY <2>2, <3>2, d = StepOn(g, s)
  <2>4. Fits(q, S, U, rest)
    <3>1. Len(ahead) = Cardinality(SetsAhead(j))
      BY <1>3, <1>9
    <3>2. z \in 0..Len(S) /\ j = AfterMoreResults(i)
      BY <1>1, <1>a, <2>2
    <3>3. q = Rec(f, inWire, caching, j, ahead, z, released)
      BY <2>2
    <3> QED
      BY ONLY <1>5, <3>1, <3>2, <3>3, ListFitsOn, IsList(i), CountsRight(i, T.script, rest), ShownRight(i, T), AllSets(S), ~HasUnread(S),
              ahead \in Seq(1..Len(S)),
              released \in 0..Len(S), U.script = T.script, Len(U.shown) = Len(T.shown) + 1, Len(T.shown) \in Nat, rest \in Nat, f \in Nat,
              inWire \in BOOLEAN, caching \in BOOLEAN, inWire => rest > 0,
              rest > 0 => inWire /\ f = 0 /\ Len(U.shown) = Len(U.script) - rest, f # 0 => S = <<>>
  <2>5. d.res[s] = q
    BY ONLY <2>3, AtIs, s \in Stmts
  <2>6. q.cmd = j
    BY ONLY <2>2, RecIs
  <2>7. Seen(g, d, s) = Word(i, j)
    <3>1. d.res[s].cmd = j
      BY <2>5, <2>6
    <3>2. ~g.raised /\ g.res[s].cmd = i /\ ~MoreResults(i)
      BY <1>4, <1>6, <1>7, <1>9, YesNo
    <3>3. EXECUTE_FAILED # -1
      BY DEF EXECUTE_FAILED
    <3> QED
      BY ONLY <3>1, <3>2, <3>3 DEF Seen, Word
  <2> QED
    BY ONLY <1>1, <2>3, <2>4, <2>7 DEF Moves
<1> QED
  BY <1>8, <1>9

(* With a record of one answer: there is nothing more.                          *)
LEMMA SingleMoves ==
  ASSUME NEW c, NEW s, NEW f, NEW inWire, NEW caching, NEW i, NEW ahead, NEW current, NEW released, NEW S,
         NEW w, NEW m, NEW a, NEW T, NEW U, NEW g, NEW d,
         s \in Stmts, g = At(c, s, Rec(f, inWire, caching, i, ahead, current, released), S, w, m, a, No), d = StepOn(g, s),
         IsSingle(i), ~inWire, ahead = <<>>, Len(T.script) = 1, T.script[1] # ErrPart,
         AllSets(S), ~HasUnread(S), released \in 0..Len(S),
         U.script = T.script, Len(U.shown) = Len(T.shown) + 1, Len(T.shown) \in Nat, f \in Nat, inWire \in BOOLEAN, caching \in BOOLEAN,
         f # 0 => S = <<>>
  PROVE  Moves(c, s, S, w, m, a, U, 0, i, g, d) /\ Word(i, AfterMoreResults(i)) = "none"
<1>1. PICK j, r, z : j = AfterMoreResults(i) /\ r = Rec(f, inWire, caching, i, ahead, current, released) /\ z = 0
  OBVIOUS
<1>2. IsSingle(j) /\ GetUpdateCount(j) = -1 /\ ~MoreResults(i)
  BY ONLY <1>1, SingleStepsOn, IsSingle(i)
<1>3. g.res[s] = r /\ g.raised = No
  BY ONLY <1>1, AtIs, s \in Stmts, g = At(c, s, Rec(f, inWire, caching, i, ahead, current, released), S, w, m, a, No)
<1>4. r.cmd = i
  BY ONLY <1>1, RecIs
<1>5. PICK q : q = Rec(f, inWire, caching, j, ahead, z, released)
  OBVIOUS
<1>6. d = At(c, s, q, S, w, m, a, No)
  <2>1. ~MoreResults(i) /\ j = AfterMoreResults(i) /\ z = 0 /\ ~(GetUpdateCount(j) = -1 /\ inWire)
    BY <1>1, <1>2
  <2>2. StepOn(g, s) = At(c, s, Rec(f, inWire, caching, j, ahead, z, released), S, w, m, a, No)
    BY ONLY <2>1, StepsToCount, s \in Stmts, g = At(c, s, Rec(f, inWire, caching, i, ahead, current, released), S, w, m, a, No)
  <2> QED
    BY ONLY <1>5, <2>2, d = StepOn(g, s)
<1>7. /\ q.fetchSize = f /\ q.inWire = inWire /\ q.caching = caching /\ q.cmd = j /\ q.exec = ahead
      /\ q.current = z /\ q.released = released
  BY ONLY <1>5, RecIs
<1>8. Fits(q, S, U, 0)
  <2>1. IsMade(q)
    BY <1>5, <1>7 DEF IsMade
  <2>2. ahead \in Seq(1..Len(S)) /\ z \in 0..Len(S)
    BY <1>1 DEF AllSets
  <2>3. Places(q, S)
    BY <1>7, <2>2 DEF Places
  <2>4. SingleFits(q, U)
    BY <1>2, <1>7 DEF SingleFits
  <2> QED
    BY <1>7, <2>1, <2>3, <2>4 DEF Fits
<1>9. d.res[s] = q
  BY ONLY <1>6, AtIs, s \in Stmts
<1>10. Word(i, j) = "none"
  BY <1>2 DEF Word
<1>11. Seen(g, d, s) = "none"
  <2>1. d.res[s].cmd = j
    BY <1>7, <1>9
  <2>2. ~g.raised /\ g.res[s].cmd = i /\ ~MoreResults(i)
    BY <1>2, <1>3, <1>4, YesNo
  <2>3. EXECUTE_FAILED # -1
    BY DEF EXECUTE_FAILED
  <2> QED
    BY ONLY <1>2, <2>1, <2>2, <2>3 DEF Seen
<1> QED
  BY ONLY <1>1, <1>6, <1>8, <1>10, <1>11 DEF Moves

(* The statement whose answers are on the wire read one, and no other statement *)
(* sees a change.                                                               *)
LEMMA OwnWire ==
  ASSUME NEW c, NEW T, NEW s, NEW q, NEW Q, NEW v, NEW more, NEW b, NEW d, NEW U,
         Inv(c, T, s), s \in Stmts, d = At(c, s, q, Q, v, more, b, No), IsHeard(U), \A t \in Stmts : t # s => U[t] = T[t],
         U[s].script \in Seq(Int), Suffix(v, U[s].script), Len(U[s].shown) = Len(U[s].script) - Len(v),
         more \in BOOLEAN, more <=> v # <<>>, b \in {s, Nobody}, ~more => b = Nobody, ~HasUnread(Q), Fits(q, Q, U[s], Len(v))
  PROVE  Safe(d, U)
<1>1. PICK script, l : script = U[s].script /\ l = U[s].shown
  OBVIOUS
<1>2. WireFits(c, T, s) /\ Owns(c, T, s)
  BY OwnReads DEF Inv
<1>3. \A t \in Stmts : ~HasUnread(c.sets[t])
  <2>1. ~HasUnread(c.sets[s]) /\ c.active \in {s, Nobody}
    BY <1>2 DEF Owns
  <2> QED
    BY <1>2, <2>1, NobodyIsApart DEF WireFits
<1>4. /\ d.wire = v /\ d.more = more /\ d.active = b /\ d.sets[s] = Q
      /\ \A t \in Stmts : t # s => d.sets[t] = c.sets[t]
  BY ONLY AtIs, s \in Stmts, d = At(c, s, q, Q, v, more, b, No)
<1>5. v \in Seq(Int)
  BY DEF Suffix
<1>6. PICK p : p = IF v = <<>> THEN Nobody ELSE s
  OBVIOUS
<1>7. (p # Nobody => p = s /\ v # <<>>) /\ (p = Nobody <=> v = <<>>)
  BY <1>6, NobodyIsApart
<1>8. v = SubSeq(script, Len(l) + 1, Len(script))
  <2>1. Len(l) = Len(script) - Len(v) /\ script \in Seq(Int) /\ Suffix(v, script)
    BY <1>1
  <2> QED
    BY ONLY <2>1, SuffixIs
<1>9. p # Nobody => v = SubSeq(U[p].script, Len(U[p].shown) + 1, Len(U[p].script))
  BY <1>1, <1>7, <1>8
<1>10. WireFits(d, U, p)
  <2>1. p \in Stmts \cup {Nobody} /\ b \in Stmts \cup {Nobody}
    BY <1>6
  <2>2. p # Nobody => b \in {Nobody, p}
    BY <1>7
  <2>3. b # Nobody => b = p
    BY <1>6
  <2>4. \A t \in Stmts : ~HasUnread(d.sets[t])
    BY <1>3, <1>4
  <2> QED
    BY ONLY <1>4, <1>5, <1>7, <1>9, <2>1, <2>2, <2>3, <2>4, more \in BOOLEAN, more <=> v # <<>> DEF WireFits
<1>11. \A t \in Stmts : t # s => U[t] = T[t] /\ Rest(v, p, t) = Rest(c.wire, s, t)
  BY <1>7, NobodyIsApart DEF Rest
<1>12. Rest(v, p, s) = Len(v)
  BY <1>6, NobodyIsApart DEF Rest
<1>13. Fits(q, Q, U[s], Rest(v, p, s))
  BY ONLY <1>12, Fits(q, Q, U[s], Len(v))
<1>14. Inv(d, U, p)
  BY ONLY <1>10, <1>11, <1>13, Rebuild, Inv(c, T, s), s \in Stmts, IsHeard(U), d = At(c, s, q, Q, v, more, b, No)
<1> QED
  BY <1>14 DEF Safe

(* What an application was told, and is told next.                              *)
Tells(T, s, g, d) == Safe(Raise(d, No), Shown(T, s, Seen(g, d, s))) /\ g.fault = "none"

(* getMoreResults of the statement whose answers are on the wire.               *)
ReadAs(c, T, s, g, caching, i, ex, current, released, Q, v, more, b, x) ==
  /\ g = At(c, s, Rec(0, more, caching, i, ex, current, released), Q, v, more, b, x)
  /\ Reads(i, ex, Q, T[s].script, v) /\ Len(T[s].shown) = i.idx + 1
  /\ Len(T[s].shown) = Len(T[s].script) - Len(v) - 1 /\ caching \in BOOLEAN
  /\ current \in 0..Len(Q) /\ released \in 0..Len(Q)
  /\ more \in BOOLEAN /\ (more <=> v # <<>>) /\ b \in {s, Nobody} /\ (~more => b = Nobody)
  /\ x \in BOOLEAN /\ (x => v = <<>> /\ T[s].script[Len(T[s].script)] = ErrPart)
NextRead(c, T, s, g) ==
  \E caching, i, ex, current, released, Q, v, more, b, x : ReadAs(c, T, s, g, caching, i, ex, current, released, Q, v, more, b, x)

(* It reads its next answer off the wire.                                       *)
LEMMA OwnNext ==
  ASSUME NEW c, NEW T, NEW s, NEW g, Inv(c, T, s), s \in Stmts, g = NextResult(c, s)
  PROVE  NextRead(c, T, s, g)
<1>1. Owns(c, T, s)
  BY OwnReads
<1>2. IsMade(c.res[s]) /\ c.res[s].fetchSize = 0 /\ c.res[s].inWire = Yes /\ c.active \in {s, Nobody} /\ c.wire # <<>>
  BY <1>1 DEF Owns
<1>3. PICK f, inWire, caching, i, ahead, current, released, S :
           /\ c = At(c, s, Rec(f, inWire, caching, i, ahead, current, released), S, c.wire, c.more, c.active, No)
           /\ c.res[s] = Rec(f, inWire, caching, i, ahead, current, released) /\ c.sets[s] = S
           /\ f \in Nat /\ inWire \in BOOLEAN /\ caching \in BOOLEAN /\ AllSets(S)
           /\ current \in 0..Len(S) /\ released \in 0..Len(S) /\ ahead \in Seq(1..Len(S))
           /\ Fits(Rec(f, inWire, caching, i, ahead, current, released), S, T[s], Rest(c.wire, s, s))
  <2>1. IsMade(c.res[s])
    BY <1>2
  <2> QED
    BY ONLY <2>1, Statement, Inv(c, T, s), s \in Stmts
<1>4. PICK r : r = c.res[s]
  OBVIOUS
<1>5. r.fetchSize = f /\ r.inWire = inWire /\ r.cmd = i /\ r.exec = ahead
  BY ONLY <1>3, <1>4, RecIs
<1>6. f = 0 /\ inWire = Yes
  BY <1>2, <1>4, <1>5
<1>7. PICK w, m, a, script : w = c.wire /\ m = c.more /\ a = c.active /\ script = T[s].script
  OBVIOUS
<1>8. g = NextResult(At(c, s, Rec(0, Yes, caching, i, ahead, current, released), S, w, m, a, No), s)
  BY ONLY <1>3, <1>6, <1>7, g = NextResult(c, s)
<1>9. /\ Reads(i, ahead, S, script, w) /\ Len(T[s].shown) = Len(script) - Len(w) /\ Len(T[s].shown) = i.idx + 1
  BY ONLY <1>1, <1>3, <1>4, <1>5, <1>7 DEF Owns
<1>10. caching \in BOOLEAN /\ a \in {s, Nobody} /\ w # <<>>
  BY <1>2, <1>3, <1>7
<1>11. PICK j, ex, Q, v, more, b, x :
           /\ g = At(c, s, Rec(0, more, caching, j, ex, current, released), Q, v, more, b, x)
           /\ Reads(j, ex, Q, script, v) /\ j.idx = i.idx /\ Len(v) = Len(w) - 1 /\ Len(Q) >= Len(S)
           /\ more \in BOOLEAN /\ (more <=> v # <<>>) /\ b \in {s, Nobody} /\ (~more => b = Nobody)
           /\ x \in BOOLEAN /\ (x => v = <<>> /\ script[Len(script)] = ErrPart)
  BY ONLY <1>8, <1>9, <1>10, NextAt, s \in Stmts
<1>12. current \in 0..Len(Q) /\ released \in 0..Len(Q)
  <2>1. Len(S) \in Nat /\ Len(Q) \in Nat
    BY <1>3, <1>11 DEF AllSets, Reads
  <2> QED
    BY <1>3, <1>11, <2>1
<1>13. Len(T[s].shown) = Len(script) - Len(v) - 1 /\ Len(T[s].shown) = j.idx + 1
  <2>1. w \in Seq(Int) /\ v \in Seq(Int) /\ script \in Scripts
    BY <1>9, <1>11 DEF Reads, Suffix
  <2>2. Len(w) \in Nat /\ Len(v) \in Nat /\ Len(script) \in Nat /\ Len(v) = Len(w) - 1 /\ j.idx = i.idx
    BY <1>11, <2>1, ScriptIs
  <2>3. PICK n, x1, x2, x3, k : n = Len(T[s].shown) /\ x1 = Len(script) /\ x2 = Len(w) /\ x3 = Len(v) /\ k = j.idx
    OBVIOUS
  <2>4. n = x1 - x2 /\ n = k + 1 /\ x3 = x2 - 1 /\ x1 \in Nat /\ x2 \in Nat /\ x3 \in Nat
    BY ONLY <1>9, <2>2, <2>3
  <2>5. n = x1 - x3 - 1
    BY ONLY <2>4
  <2> QED
    BY ONLY <2>3, <2>4, <2>5
<1>14. ReadAs(c, T, s, g, caching, j, ex, current, released, Q, v, more, b, x)
  BY ONLY <1>7, <1>10, <1>11, <1>12, <1>13 DEF ReadAs
<1> QED
  BY ONLY <1>14 DEF NextRead

(* That answer is an error, which is thrown.                                    *)
LEMMA OwnThrows ==
  ASSUME NEW c, NEW T, NEW s, NEW g, NEW d, NEW caching, NEW i, NEW ex, NEW current, NEW released, NEW Q,
         NEW v, NEW more, NEW b, NEW x,
         Inv(c, T, s), s \in Stmts, ReadAs(c, T, s, g, caching, i, ex, current, released, Q, v, more, b, x), x, d = StepOn(g, s)
  PROVE  Tells(T, s, g, d)
<1>1. PICK script, l : script = T[s].script /\ l = T[s].shown
  OBVIOUS
<1>2. /\ g = At(c, s, Rec(0, more, caching, i, ex, current, released), Q, v, more, b, x)
      /\ Reads(i, ex, Q, script, v) /\ Len(l) = i.idx + 1 /\ Len(l) = Len(script) - Len(v) - 1 /\ caching \in BOOLEAN
      /\ current \in 0..Len(Q) /\ released \in 0..Len(Q)
      /\ more \in BOOLEAN /\ (more <=> v # <<>>) /\ b \in {s, Nobody} /\ (~more => b = Nobody)
      /\ x \in BOOLEAN /\ v = <<>> /\ script[Len(script)] = ErrPart
  BY <1>1 DEF ReadAs
<1>3. g.raised = x /\ g.fault = "none"
  BY ONLY <1>2, AtIs, s \in Stmts
<1>4. d = g
  BY ONLY <1>3, x, d = StepOn(g, s) DEF StepOn, Sendable
<1>5. PICK y : y = "raised"
  OBVIOUS
<1>6. Seen(g, d, s) = y
  BY ONLY <1>3, <1>5, x DEF Seen
<1>7. script \in Scripts /\ Len(script) \in Nat /\ Len(script) >= 1 /\ script \in Seq(Int)
  BY <1>2, ScriptIs DEF Reads
<1>8. Len(v) = 0 /\ Len(l) = Len(script) - 1
  BY <1>2, <1>7
<1>9. y \in Words /\ y \in Allowed(T[s], Len(T[s].shown) + 1)
  <2>1. Len(T[s].shown) + 1 = Len(script) /\ Len(script) <= Len(script)
    BY <1>1, <1>7, <1>8
  <2>2. Allowed(T[s], Len(script)) = Shows(ErrPart)
    BY ONLY <1>1, <1>2, <2>1 DEF Allowed
  <2> QED
    BY <1>5, <2>1, <2>2, ShowsIs DEF Words
<1>10. PICK U : U = Shown(T, s, y)
  OBVIOUS
<1>11. /\ IsHeard(U) /\ U[s].script = T[s].script /\ Len(U[s].shown) = Len(T[s].shown) + 1
       /\ \A t \in Stmts : t # s => U[t] = T[t]
  <2>1. IsHeard(T)
    BY DEF Inv
  <2> QED
    BY ONLY <1>9, <1>10, <2>1, ShownMore, s \in Stmts
<1>12. PICK u : u = U[s]
  OBVIOUS
<1>13. u.script = script /\ Len(u.shown) = Len(script)
  BY <1>1, <1>7, <1>8, <1>11, <1>12
<1>14. ShownRight(i, u)
  <2>1. i.idx \in Nat
    BY <1>2 DEF Reads, IsList
  <2>2. Len(u.shown) = i.idx + 2
    BY ONLY <1>2, <1>7, <1>8, <1>13, <2>1, SMTT(30)
  <2>3. Len(u.shown) >= Len(u.script) /\ u.script[Len(u.script)] = ErrPart
    BY <1>2, <1>7, <1>13
  <2> QED
    BY ONLY <2>2, <2>3 DEF ShownRight
<1>15. PICK q : q = Rec(0, more, caching, i, ex, current, released)
  OBVIOUS
<1>16. more = No
  BY <1>2, YesNo
<1>17. Fits(q, Q, u, Len(v))
  <2>1. Reads(i, ex, Q, u.script, <<>>)
    BY <1>2, <1>13
  <2>2. caching \in BOOLEAN /\ current \in 0..Len(Q) /\ released \in 0..Len(Q)
    BY <1>2
  <2>3. Fits(Rec(0, No, caching, i, ex, current, released), Q, u, 0)
    BY ONLY <1>14, <2>1, <2>2, AllRead
  <2> QED
    BY ONLY <1>8, <1>15, <1>16, <2>3
<1>18. PICK e : e = At(c, s, q, Q, v, more, b, No)
  OBVIOUS
<1>19. Raise(d, No) = e
  <2>1. d = At(c, s, q, Q, v, more, b, x)
    BY <1>2, <1>4, <1>15
  <2> QED
    BY ONLY <1>18, <2>1, RaiseAt
<1>20. Safe(e, U)
  <2>1. U[s].script \in Seq(Int) /\ Suffix(v, U[s].script) /\ ~HasUnread(Q)
    BY <1>2, <1>7, <1>12, <1>13 DEF Reads
  <2>2. Len(U[s].shown) = Len(U[s].script) - Len(v)
    BY <1>7, <1>8, <1>12, <1>13
  <2>3. Fits(q, Q, U[s], Len(v))
    BY ONLY <1>12, <1>17
  <2>4. more \in BOOLEAN /\ (more <=> v # <<>>) /\ b \in {s, Nobody} /\ (~more => b = Nobody)
    BY ONLY <1>2
  <2>5. IsHeard(U) /\ \A t \in Stmts : t # s => U[t] = T[t]
    BY ONLY <1>11
  <2> QED
    BY ONLY <1>18, <2>1, <2>2, <2>3, <2>4, <2>5, OwnWire, Inv(c, T, s), s \in Stmts
<1> QED
  BY ONLY <1>3, <1>6, <1>10, <1>19, <1>20 DEF Tells

(* It is not, and the application comes to it.                                  *)
LEMMA OwnSteps ==
  ASSUME NEW c, NEW T, NEW s, NEW g, NEW d, NEW caching, NEW i, NEW ex, NEW current, NEW released, NEW Q,
         NEW v, NEW more, NEW b, NEW x,
         Inv(c, T, s), s \in Stmts, ReadAs(c, T, s, g, caching, i, ex, current, released, Q, v, more, b, x), ~x, d = StepOn(g, s)
  PROVE  Tells(T, s, g, d)
<1>1. PICK h, j, rest, z, n : h = T[s] /\ j = AfterMoreResults(i) /\ rest = Len(v) /\ z = 0 /\ n = Len(h.shown) + 1
  OBVIOUS
<1>2. /\ g = At(c, s, Rec(z, more, caching, i, ex, current, released), Q, v, more, b, x)
      /\ Reads(i, ex, Q, h.script, v) /\ Len(h.shown) = i.idx + 1 /\ Len(h.shown) = Len(h.script) - rest - 1
      /\ caching \in BOOLEAN /\ released \in 0..Len(Q)
      /\ more \in BOOLEAN /\ (more <=> v # <<>>) /\ b \in {s, Nobody} /\ (~more => b = Nobody) /\ x \in BOOLEAN
  BY <1>1 DEF ReadAs
<1>3. g = At(c, s, Rec(z, more, caching, i, ex, current, released), Q, v, more, b, No)
  <2>1. x = No
    BY <1>2, YesNo
  <2> QED
    BY ONLY <1>2, <2>1
<1>4. g.fault = "none"
  BY ONLY <1>3, AtIs, s \in Stmts
<1>5. /\ IsList(i) /\ AllSets(Q) /\ ~HasUnread(Q) /\ ex \in Seq(1..Len(Q)) /\ h.script \in Scripts
      /\ Suffix(v, h.script) /\ CountsRight(i, h.script, rest) /\ Len(ex) = Cardinality(SetsAhead(i))
  BY <1>1, <1>2 DEF Reads
<1>6. ShownRight(i, h)
  BY ONLY <1>2 DEF ShownRight
<1>7. /\ Len(h.script) \in Nat /\ h.script \in Seq(Int) /\ rest \in Nat /\ Len(h.shown) \in Nat /\ Len(h.shown) <= Len(h.script)
      /\ (more <=> rest > 0)
  <2>1. Len(h.script) \in Nat /\ h.script \in Seq(Int)
    BY <1>5, ScriptIs
  <2>2. rest \in Nat /\ (v = <<>> <=> rest = 0)
    BY <1>1, <1>5 DEF Suffix
  <2>3. Len(h.shown) \in Nat
    BY <1>1, HeardIs
  <2>4. Len(h.shown) <= Len(h.script)
    BY ONLY <1>2, <2>1, <2>2
  <2>5. more <=> rest > 0
    BY <1>2, <2>2
  <2> QED
    BY ONLY <2>1, <2>2, <2>3, <2>4, <2>5
<1>8. PICK y : y = Word(i, j)
  OBVIOUS
<1>9. y \in Allowed(h, n) /\ y \in Words
  <2>1. rest > 0 => Len(h.shown) = Len(h.script) - rest - 1
    BY <1>2
  <2>2. IsList(i) /\ h.script \in Scripts /\ CountsRight(i, h.script, rest)
    BY <1>5
  <2>3. rest \in Nat /\ Len(h.shown) \in Nat /\ Len(h.shown) <= Len(h.script)
    BY <1>7
  <2>4. j = AfterMoreResults(i) /\ n = Len(h.shown) + 1
    BY <1>1
  <2>5. Word(i, j) \in Allowed(h, n) /\ Word(i, j) \in Words
    BY ONLY <1>6, <2>1, <2>2, <2>3, <2>4, WordIs
  <2> QED
    BY ONLY <1>8, <2>5
<1>10. PICK U : U = Shown(T, s, y)
  OBVIOUS
<1>11. /\ IsHeard(U) /\ U[s].script = T[s].script /\ Len(U[s].shown) = Len(T[s].shown) + 1
       /\ \A t \in Stmts : t # s => U[t] = T[t]
  <2>1. IsHeard(T)
    BY DEF Inv
  <2>2. y \in Allowed(T[s], Len(T[s].shown) + 1) /\ y \in Words
    BY ONLY <1>1, <1>9
  <2> QED
    BY ONLY <1>10, <2>1, <2>2, ShownMore, s \in Stmts
<1>12. PICK u : u = U[s]
  OBVIOUS
<1>13. u.script = h.script /\ Len(u.shown) = Len(h.shown) + 1
  BY ONLY <1>1, <1>11, <1>12
<1>14. Len(u.shown) = Len(u.script) - rest
  BY ONLY <1>2, <1>7, <1>13
<1>15. Moves(c, s, Q, v, more, b, u, rest, i, g, d)
  <2>1. /\ IsList(i) /\ AllSets(Q) /\ ~HasUnread(Q) /\ ex \in Seq(1..Len(Q)) /\ h.script \in Scripts
        /\ CountsRight(i, h.script, rest) /\ Len(ex) = Cardinality(SetsAhead(i))
    BY <1>5
  <2>2. rest \in Nat /\ Len(h.shown) \in Nat /\ Len(h.shown) <= Len(h.script) /\ z \in Nat /\ (z # 0 => Q = <<>>)
    BY <1>1, <1>7
  <2>3. (more => rest > 0) /\ (rest > 0 => more /\ z = 0 /\ Len(u.shown) = Len(u.script) - rest)
    BY <1>1, <1>7, <1>14
  <2>4. released \in 0..Len(Q) /\ more \in BOOLEAN /\ caching \in BOOLEAN
    BY <1>2
  <2> QED
    BY ONLY <1>3, <1>6, <1>13, <2>1, <2>2, <2>3, <2>4, ListMoves, s \in Stmts, d = StepOn(g, s), SMTT(30)
<1>16. PICK q : d = At(c, s, q, Q, v, more, b, No) /\ Fits(q, Q, u, rest)
  BY ONLY <1>15 DEF Moves
<1>17. Seen(g, d, s) = y
  BY ONLY <1>1, <1>8, <1>15 DEF Moves
<1>18. Raise(d, No) = d
  BY ONLY <1>16, RaiseAt
<1>19. Safe(d, U)
  <2>1. U[s].script \in Seq(Int) /\ Suffix(v, U[s].script) /\ ~HasUnread(Q)
    BY <1>5, <1>7, <1>12, <1>13
  <2>2. Len(U[s].shown) = Len(U[s].script) - Len(v)
    BY ONLY <1>1, <1>12, <1>14
  <2>3. Fits(q, Q, U[s], Len(v))
    BY ONLY <1>1, <1>12, <1>16
  <2>4. more \in BOOLEAN /\ (more <=> v # <<>>) /\ b \in {s, Nobody} /\ (~more => b = Nobody)
    BY ONLY <1>2
  <2>5. IsHeard(U) /\ \A t \in Stmts : t # s => U[t] = T[t]
    BY ONLY <1>11
  <2>6. d = At(c, s, q, Q, v, more, b, No)
    BY <1>16
  <2> QED
    BY ONLY <2>1, <2>2, <2>3, <2>4, <2>5, <2>6, OwnWire, Inv(c, T, s), s \in Stmts
<1> QED
  BY ONLY <1>4, <1>10, <1>17, <1>18, <1>19 DEF Tells

(* getMoreResults of a statement whose answers were all read.                   *)
LEMMA MovesOn ==
  ASSUME NEW c, NEW T, NEW o, NEW s, NEW S, NEW i, NEW y, NEW d,
         Inv(c, T, o), s \in Stmts, o # s, S = c.sets[s], y = Word(i, AfterMoreResults(i)),
         y \in Words, y \in Allowed(T[s], Len(T[s].shown) + 1),
         \A u : u.script = T[s].script /\ Len(u.shown) = Len(T[s].shown) + 1
                  => Moves(c, s, S, c.wire, c.more, c.active, u, 0, i, c, d)
  PROVE  Tells(T, s, c, d)
<1>1. PICK U, u : U = Shown(T, s, y) /\ u = U[s]
  OBVIOUS
<1>2. /\ IsHeard(U) /\ U[s].script = T[s].script /\ Len(U[s].shown) = Len(T[s].shown) + 1
      /\ \A t \in Stmts : t # s => U[t] = T[t]
  <2>1. IsHeard(T)
    BY DEF Inv
  <2> QED
    BY ONLY <1>1, <2>1, ShownMore, s \in Stmts, y \in Words, y \in Allowed(T[s], Len(T[s].shown) + 1)
<1>3. Moves(c, s, S, c.wire, c.more, c.active, u, 0, i, c, d)
  BY <1>1, <1>2
<1>4. PICK q : d = At(c, s, q, S, c.wire, c.more, c.active, No) /\ Fits(q, S, u, 0)
  BY ONLY <1>3 DEF Moves
<1>5. Seen(c, d, s) = y
  BY ONLY <1>3, y = Word(i, AfterMoreResults(i)) DEF Moves
<1>6. Raise(d, No) = d
  BY ONLY <1>4, RaiseAt
<1>7. Inv(d, U, o)
  <2>1. d = At(c, s, q, S, c.wire, c.more, c.active, No)
    BY <1>4
  <2>2. Fits(q, S, U[s], Rest(c.wire, o, s))
    <3>1. Rest(c.wire, o, s) = 0
      BY DEF Rest
    <3> QED
      BY ONLY <1>1, <1>4, <3>1
  <2>3. IsHeard(U) /\ (\A t \in Stmts : t # s => U[t] = T[t]) /\ (s = o => U[s] = T[s])
    BY ONLY <1>2, o # s
  <2>4. HasUnread(S) <=> HasUnread(c.sets[s])
    OBVIOUS
  <2> QED
    BY ONLY <2>1, <2>2, <2>3, <2>4, Local, Inv(c, T, o), s \in Stmts
<1>8. Safe(d, U) /\ c.fault = "none"
  BY <1>7 DEF Safe, Inv
<1> QED
  BY ONLY <1>1, <1>5, <1>6, <1>8 DEF Tells

(* Nothing is read: the answers are those of its list or its record.            *)
LEMMA RestMoves ==
  ASSUME NEW c, NEW T, NEW o, NEW s, NEW d,
         Inv(c, T, o), s \in Stmts, c.res[s].made, ~c.res[s].inWire, c.res[s].cmd.kind # "none", ~HasUnread(c.sets[s]),
         Len(T[s].shown) <= Len(T[s].script), d = StepOn(c, s)
  PROVE  Tells(T, s, c, d)
<1>1. o # s
  <2>1. ASSUME o = s PROVE FALSE
    <3>1. Owns(c, T, s)
      BY <2>1, OwnReads
    <3> QED
      BY <3>1, YesNo DEF Owns
  <2> QED
    BY <2>1
<1>2. Rest(c.wire, o, s) = 0
  BY <1>1 DEF Rest
<1>3. IsMade(c.res[s])
  BY MadeIs DEF Inv
<1>4. PICK f, inWire, caching, i, ahead, current, released, S :
           /\ c = At(c, s, Rec(f, inWire, caching, i, ahead, current, released), S, c.wire, c.more, c.active, No)
           /\ c.res[s] = Rec(f, inWire, caching, i, ahead, current, released) /\ c.sets[s] = S
           /\ f \in Nat /\ inWire \in BOOLEAN /\ caching \in BOOLEAN /\ AllSets(S)
           /\ current \in 0..Len(S) /\ released \in 0..Len(S) /\ ahead \in Seq(1..Len(S))
           /\ Fits(Rec(f, inWire, caching, i, ahead, current, released), S, T[s], Rest(c.wire, o, s))
  BY ONLY <1>3, Statement, Inv(c, T, o), s \in Stmts
<1>5. PICK h, w, m, a, j, n, r : /\ h = T[s] /\ w = c.wire /\ m = c.more /\ a = c.active /\ j = AfterMoreResults(i)
                                 /\ n = Len(h.shown) + 1 /\ r = c.res[s]
  OBVIOUS
<1>6. r.fetchSize = f /\ r.inWire = inWire /\ r.cmd = i /\ r.exec = ahead
  BY ONLY <1>4, <1>5, RecIs
<1>7. c = At(c, s, Rec(f, inWire, caching, i, ahead, current, released), S, w, m, a, No)
  BY ONLY <1>4, <1>5
<1>8. Fits(r, S, h, 0) /\ ~inWire /\ i.kind # "none" /\ ~HasUnread(S) /\ (f # 0 => S = <<>>)
  BY <1>2, <1>4, <1>5, <1>6 DEF Fits
<1>9. ~NoneFits(r, S)
  BY <1>6, <1>8, KindIs DEF NoneFits
<1>10. /\ Len(h.shown) \in Nat /\ Len(h.script) \in Nat /\ h.script \in Scripts \cup {<<>>} /\ Len(h.shown) <= Len(h.script)
  BY <1>5, HeardIs
<1>11. AllSets(S) /\ ahead \in Seq(1..Len(S)) /\ released \in 0..Len(S) /\ f \in Nat /\ inWire \in BOOLEAN /\ caching \in BOOLEAN
  BY <1>4
<1>12. PICK y : y = Word(i, j)
  OBVIOUS
<1>13. CASE SingleFits(r, h)
  <2>1. IsSingle(i) /\ ahead = <<>> /\ Len(h.script) = 1 /\ Len(h.shown) >= 1 /\ h.script[1] # ErrPart
    BY <1>6, <1>13 DEF SingleFits
  <2>2. y = "none"
    <3>1. GetUpdateCount(j) = -1 /\ ~MoreResults(i)
      BY ONLY <1>5, <2>1, SingleStepsOn
    <3> QED
      BY ONLY <1>12, <3>1 DEF Word
  <2>3. y \in Words /\ y \in Allowed(h, n)
    <3>1. n = 2
      BY <1>5, <1>10, <2>1
    <3> QED
      BY <2>1, <2>2, <3>1 DEF Allowed, Words
  <2>4. ASSUME NEW u, u.script = h.script, Len(u.shown) = Len(h.shown) + 1
        PROVE  Moves(c, s, S, w, m, a, u, 0, i, c, d)
    <3>1. Len(h.shown) \in Nat /\ (f # 0 => S = <<>>) /\ ~inWire /\ ~HasUnread(S)
      BY <1>8, <1>10
    <3> QED
      BY ONLY <1>7, <1>11, <2>1, <2>4, <3>1, SingleMoves, s \in Stmts, d = StepOn(c, s)
  <2>5. \A u : u.script = T[s].script /\ Len(u.shown) = Len(T[s].shown) + 1
                  => Moves(c, s, S, c.wire, c.more, c.active, u, 0, i, c, d)
    BY ONLY <1>5, <2>4
  <2>6. y \in Words /\ y \in Allowed(T[s], Len(T[s].shown) + 1) /\ S = c.sets[s] /\ y = Word(i, AfterMoreResults(i))
    BY ONLY <1>4, <1>5, <1>12, <2>3
  <2> QED
    BY ONLY <1>1, <2>5, <2>6, MovesOn, Inv(c, T, o), s \in Stmts
<1>14. CASE ListFits(r, h, 0)
  <2>1. IsList(i) /\ CountsRight(i, h.script, 0) /\ ShownRight(i, h) /\ Len(ahead) = Cardinality(SetsAhead(i))
    BY <1>6, <1>14 DEF ListFits
  <2>2. h.script \in Scripts
    <3>1. Len(h.script) >= 1
      BY <1>10, <2>1 DEF CountsRight
    <3> QED
      BY <1>10, <3>1
  <2>3. PICK z : z = 0
    OBVIOUS
  <2>4. y \in Words /\ y \in Allowed(h, n)
    <3>1. CountsRight(i, h.script, z) /\ z \in Nat /\ (z > 0 => Len(h.shown) = Len(h.script) - z - 1)
      BY <2>1, <2>3
    <3>2. IsList(i) /\ ShownRight(i, h)
      BY <2>1
    <3>3. Len(h.shown) \in Nat /\ Len(h.shown) <= Len(h.script) /\ j = AfterMoreResults(i) /\ n = Len(h.shown) + 1
      BY <1>5, <1>10
    <3>4. Word(i, j) \in Allowed(h, n) /\ Word(i, j) \in Words
      BY ONLY <2>2, <3>1, <3>2, <3>3, WordIs
    <3> QED
      BY ONLY <1>12, <3>4
  <2>5. ASSUME NEW u, u.script = h.script, Len(u.shown) = Len(h.shown) + 1
        PROVE  Moves(c, s, S, w, m, a, u, 0, i, c, d)
    <3>1. Len(h.shown) \in Nat /\ Len(h.shown) <= Len(h.script) /\ (f # 0 => S = <<>>) /\ ~HasUnread(S)
      BY <1>8, <1>10
    <3>2. (inWire => z > 0) /\ (z > 0 => inWire /\ f = 0 /\ Len(u.shown) = Len(u.script) - z) /\ z \in Nat
      BY <1>8, <2>3
    <3>3. CountsRight(i, h.script, z)
      BY <2>1, <2>3
    <3>4. Moves(c, s, S, w, m, a, u, z, i, c, d)
      BY ONLY <1>7, <1>11, <2>1, <2>2, <2>5, <3>1, <3>2, <3>3, ListMoves, s \in Stmts, d = StepOn(c, s), SMTT(30)
    <3> QED
      BY ONLY <2>3, <3>4
  <2>6. \A u : u.script = T[s].script /\ Len(u.shown) = Len(T[s].shown) + 1
                  => Moves(c, s, S, c.wire, c.more, c.active, u, 0, i, c, d)
    BY ONLY <1>5, <2>5
  <2>7. y \in Words /\ y \in Allowed(T[s], Len(T[s].shown) + 1) /\ S = c.sets[s] /\ y = Word(i, AfterMoreResults(i))
    BY ONLY <1>4, <1>5, <1>12, <2>4
  <2> QED
    BY ONLY <1>1, <2>6, <2>7, MovesOn, Inv(c, T, o), s \in Stmts
<1> QED
  BY <1>8, <1>9, <1>13, <1>14 DEF Fits

(* getMoreResults keeps the invariant, also when another statement's command made *)
(* the connection read the answers before they were asked for.                  *)
LEMMA GetMoreResultsStep ==
  ASSUME NEW s, NEW o, NEW keep, s \in Stmts, Careful, keep \in BOOLEAN, Inv(st, heard, o), GetMoreResults(s, keep)
  PROVE  Safe(st', heard')
<1>1. PICK c, T, e, g, d : c = st /\ T = heard /\ e = LeaveCurrent(c, s, keep) /\ g = ReadNext(e, s) /\ d = StepOn(g, s)
  OBVIOUS
<1>2. /\ c.res[s].made /\ Len(T[s].shown) <= Len(T[s].script)
      /\ CurrentSet(c.res[s]) # 0 => c.sets[s][CurrentSet(c.res[s])].isEof
      /\ c.res[s].inWire => Len(T[s].shown) < Len(T[s].script)
      /\ c.res[s].cmd.kind # "none"
  BY <1>1 DEF GetMoreResults
<1>3. /\ st' = [d EXCEPT !.raised = FALSE]
      /\ heard' = [heard EXCEPT ![s].shown = Append(@, IF g.fault # "none" THEN "fault" ELSE Seen(g, d, s))]
  BY <1>1, <1>2 DEF GetMoreResults
<1>4. Inv(c, T, o)
  BY <1>1
<1>5. ClosedOnly(c, T, o, s, e)
  <2>1. c.res[s].made /\ (CurrentSet(c.res[s]) # 0 => c.sets[s][CurrentSet(c.res[s])].isEof) /\ e = LeaveCurrent(c, s, keep)
    BY <1>1, <1>2
  <2> QED
    BY ONLY <1>4, <2>1, LeaveStep, s \in Stmts, keep \in BOOLEAN
<1>6. /\ Inv(e, T, o) /\ ~HasUnread(e.sets[s]) /\ e.res[s].made /\ e.res[s].inWire = c.res[s].inWire
      /\ e.res[s].cmd = c.res[s].cmd
  BY ONLY <1>5 DEF ClosedOnly
<1>7. e.fault = "none"
  BY <1>6 DEF Inv
<1>8. Tells(T, s, g, d)
  <2>1. CASE e.res[s].inWire
    <3>1. o = s
      <4>1. Fits(e.res[s], e.sets[s], T[s], Rest(e.wire, o, s))
        BY <1>6 DEF Inv
      <4>2. Len(T[s].shown) < Len(T[s].script) /\ Len(T[s].shown) \in Nat /\ Len(T[s].script) \in Nat
        BY <1>2, <1>4, <1>6, <2>1, HeardIs
      <4>3. Rest(e.wire, o, s) > 0
        BY <2>1, <4>1, <4>2 DEF Fits
      <4> QED
        BY <4>3 DEF Rest
    <3>2. Inv(e, T, s)
      BY <1>6, <3>1
    <3>3. g = NextResult(e, s)
      BY <1>1, <1>7, <2>1 DEF ReadNext
    <3>4. NextRead(e, T, s, g)
      BY ONLY <3>2, <3>3, OwnNext, s \in Stmts
    <3>5. PICK caching, i, ex, current, released, Q, v, more, b, x : ReadAs(e, T, s, g, caching, i, ex, current, released, Q, v, more, b, x)
      BY ONLY <3>4 DEF NextRead
    <3>6. d = StepOn(g, s)
      BY <1>1
    <3>7. CASE x
      BY ONLY <3>2, <3>5, <3>6, <3>7, OwnThrows, s \in Stmts
    <3>8. CASE ~x
      BY ONLY <3>2, <3>5, <3>6, <3>8, OwnSteps, s \in Stmts
    <3> QED
      BY <3>7, <3>8
  <2>2. CASE ~e.res[s].inWire
    <3>1. g = e
      BY <1>1, <2>2 DEF ReadNext
    <3>2. e.res[s].cmd.kind # "none" /\ Len(T[s].shown) <= Len(T[s].script) /\ d = StepOn(e, s)
      BY <1>1, <1>2, <1>6, <3>1
    <3>3. Tells(T, s, e, d)
      BY ONLY <1>6, <2>2, <3>2, RestMoves, s \in Stmts
    <3> QED
      BY ONLY <3>1, <3>3
  <2> QED
    BY <2>1, <2>2
<1>9. PICK y : y = Seen(g, d, s)
  OBVIOUS
<1>10. Safe(Raise(d, No), Shown(T, s, y)) /\ g.fault = "none"
  BY ONLY <1>8, <1>9 DEF Tells
<1>11. st' = Raise(d, No)
  BY ONLY <1>3 DEF Raise, No
<1>12. heard' = Shown(T, s, y)
  <2>1. heard' = [T EXCEPT ![s].shown = Append(@, y)]
    BY ONLY <1>1, <1>3, <1>9, <1>10
  <2>2. T = [t \in Stmts |-> T[t]]
    BY <1>4 DEF Inv, IsHeard
  <2>3. PICK script, l : T[s] = [script |-> script, shown |-> l]
    <3>1. T[s] = [script |-> T[s].script, shown |-> T[s].shown]
      <4>1. T[s] \in Heard
        BY <1>4 DEF Inv, IsHeard
      <4> QED
        BY ONLY <4>1 DEF Heard
    <3> QED
      BY ONLY <3>1
  <2>4. T[s].script = script /\ T[s].shown = l
    BY ONLY <2>3
  <2>5. PICK k : k = Append(l, y)
    OBVIOUS
  <2>6. PICK h : h = [script |-> script, shown |-> k]
    OBVIOUS
  <2>7. [T[s] EXCEPT !.shown = k] = h
    BY ONLY <2>3, <2>6
  <2>8. heard' = [T EXCEPT ![s] = h]
    BY ONLY <2>1, <2>4, <2>5, <2>7
  <2>9. Shown(T, s, y) = Others(T, s, h)
    BY ONLY <2>4, <2>5, <2>6 DEF Shown
  <2>10. [T EXCEPT ![s] = h] = Others(T, s, h)
    BY ONLY <2>2 DEF Others
  <2> QED
    BY ONLY <2>8, <2>9, <2>10
<1> QED
  BY ONLY <1>10, <1>11, <1>12

-----------------------------------------------------------------------------
ResultsInv == Safe(st, heard)

(* A new connection.                                                            *)
LEMMA ResultsStart ==
  ASSUME ResultsInit
  PROVE  ResultsInv
<1>1. PICK N, o, S, R, h, H : /\ N = NoResults /\ o = <<>> /\ S = [s \in Stmts |-> o] /\ R = [s \in Stmts |-> N]
                              /\ h = [script |-> o, shown |-> o] /\ H = [s \in Stmts |-> h]
  OBVIOUS
<1>2. st = [wire |-> o, more |-> No, active |-> Nobody, res |-> R, sets |-> S, raised |-> No, fault |-> "none", closed |-> {}]
  BY ONLY <1>1, ResultsInit DEF ResultsInit, Fresh, No
<1>3. heard = H
  BY <1>1 DEF ResultsInit
<1>4. /\ st.wire = o /\ st.more = No /\ st.active = Nobody /\ st.res = R /\ st.sets = S /\ st.raised = No
      /\ st.fault = "none" /\ st.closed = {}
  BY ONLY <1>2
<1>5. IsConn(st)
  <2>1. R = [t \in Stmts |-> R[t]] /\ S = [t \in Stmts |-> S[t]]
    BY ONLY <1>1
  <2> QED
    BY ONLY <1>2, <1>4, <2>1 DEF IsConn
<1>6. h \in Heard /\ InOrder(h)
  <2>1. h.script = o /\ h.shown = o /\ o \in Seq(Words) /\ DOMAIN o = {} /\ o \in Scripts \cup {<<>>}
    BY ONLY <1>1
  <2>2. h \in Heard
    BY ONLY <1>1, <2>1 DEF Heard
  <2>3. InOrder(h)
    BY ONLY <2>1 DEF InOrder
  <2> QED
    BY <2>2, <2>3
<1>7. IsHeard(heard)
  <2>1. H = [t \in Stmts |-> H[t]] /\ \A t \in Stmts : H[t] = h
    BY ONLY <1>1
  <2> QED
    BY ONLY <1>3, <1>6, <2>1 DEF IsHeard
<1>8. ASSUME NEW t, t \in Stmts
      PROVE  Fits(st.res[t], st.sets[t], heard[t], Rest(st.wire, Nobody, t)) /\ ~HasUnread(st.sets[t])
  <2>1. st.res[t] = N /\ st.sets[t] = o
    BY ONLY <1>1, <1>4, <1>8
  <2>2. IsFresh(N)
    BY ONLY <1>1 DEF IsFresh
  <2>3. Fits(N, <<>>, heard[t], 0) /\ ~HasUnread(<<>>)
    BY ONLY <2>2, FreshFits
  <2>4. Rest(st.wire, Nobody, t) = 0
    BY <1>8, NobodyIsApart DEF Rest
  <2> QED
    BY ONLY <1>1, <2>1, <2>3, <2>4
<1>9. WireFits(st, heard, Nobody)
  <2>1. st.wire \in Seq(Int) /\ st.wire = <<>> /\ ~st.more /\ st.more \in BOOLEAN
    BY <1>1, <1>4, YesNo, Booleans
  <2> QED
    BY ONLY <1>4, <1>8, <2>1 DEF WireFits
<1>10. Inv(st, heard, Nobody)
  BY ONLY <1>4, <1>5, <1>7, <1>8, <1>9 DEF Inv
<1> QED
  BY ONLY <1>10 DEF ResultsInv, Safe

(* Every call keeps the invariant.                                              *)
LEMMA ResultsStep ==
  ASSUME Careful, ResultsInv, [ResultsNext]_resultsVars
  PROVE  ResultsInv'
<1>1. PICK o : Inv(st, heard, o)
  BY DEF ResultsInv, Safe
<1>2. CASE UNCHANGED resultsVars
  BY <1>2 DEF ResultsInv, resultsVars, Safe, Inv, IsConn, IsHeard, WireFits
<1>3. ASSUME NEW s, s \in Stmts, NEW script, script \in Scripts, NEW size, size \in StreamSizes, Execute(s, script, size)
      PROVE  Safe(st', heard')
  BY ONLY <1>1, <1>3, ExecuteStep, Careful
<1>4. ASSUME NEW s, s \in Stmts, GetResultSet(s)
      PROVE  Safe(st', heard')
  BY ONLY <1>1, <1>4, GetResultSetStep DEF Safe
<1>5. ASSUME NEW s, s \in Stmts, ReadStreamRow(s)
      PROVE  Safe(st', heard')
  BY ONLY <1>1, <1>5, ReadStreamRowStep DEF Safe
<1>6. ASSUME NEW s, s \in Stmts, CloseResultSet(s)
      PROVE  Safe(st', heard')
  BY ONLY <1>1, <1>6, CloseResultSetStep DEF Safe
<1>7. ASSUME NEW s, s \in Stmts, NEW keep, keep \in BOOLEAN, GetMoreResults(s, keep)
      PROVE  Safe(st', heard')
  BY ONLY <1>1, <1>7, GetMoreResultsStep, Careful
<1>8. ASSUME NEW s, s \in Stmts, CloseStatement(s)
      PROVE  Safe(st', heard')
  BY ONLY <1>1, <1>8, CloseStatementStep, Careful DEF Safe
<1>9. ASSUME NEW s, s \in Stmts, Cancel(s)
      PROVE  Safe(st', heard')
  BY ONLY <1>1, <1>9, CancelStep, Careful DEF Safe
<1>10. CASE ResultsNext
  <2>1. Safe(st', heard')
    BY ONLY <1>3, <1>4, <1>5, <1>6, <1>7, <1>8, <1>9, <1>10 DEF ResultsNext
  <2> QED
    BY ONLY <2>1 DEF ResultsInv
<1> QED
  BY <1>2, <1>10

(* The invariant says what the application relies on.                           *)
LEMMA AnswersFollow ==
  ASSUME ResultsInv
  PROVE  AnswersAreKept
<1>1. PICK o : Inv(st, heard, o)
  BY DEF ResultsInv, Safe
<1>2. NoFault
  BY <1>1 DEF NoFault, Inv
<1>3. AnswersInOrder
  BY <1>1 DEF Inv, IsHeard, InOrder, AnswersInOrder
<1>4. UnreadIsRemembered
  BY <1>1 DEF Inv, WireFits, HasUnread, Unread, UnreadIsRemembered
<1> QED
  BY <1>2, <1>3, <1>4 DEF AnswersAreKept

(* For any number of statements on one connection, of answers to a command and of *)
(* rows, with an application that reads its streams and asks for its answers: no *)
(* command is sent over unread answers, no Results is used after its end, the mutex *)
(* is never taken twice, and every statement is shown its own answers in the order *)
(* the server sent them, whichever statement's command read them off the connection. *)
THEOREM AnswersStayKept == Careful => (ResultsSpec => []AnswersAreKept)
<1> SUFFICES ASSUME Careful PROVE ResultsSpec => []AnswersAreKept
  OBVIOUS
<1>1. ResultsInit => ResultsInv
  BY ResultsStart
<1>2. ResultsInv /\ [ResultsNext]_resultsVars => ResultsInv'
  BY ResultsStep
<1>3. ResultsInv => AnswersAreKept
  BY AnswersFollow
<1> QED
  BY <1>1, <1>2, <1>3, PTL DEF ResultsSpec
=============================================================================

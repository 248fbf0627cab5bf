------------------------ MODULE MetricsWriterProofs ------------------------
(***************************************************************************)
(* Theorems about MetricsWriter, for any records, batch size and queue     *)
(* depth.                                                                  *)
(***************************************************************************)
EXTENDS MetricsWriter, TLAPS

\* Where the two threads can stand, and when they hold a batch.
Places == /\ stage["writer"] \in {"idle", "batch", "retry", "exited"}
          /\ stage["owner"] \in {"idle", "batch", "retry", "joining", "destroyed"}
          /\ \A c \in Consumers : stage[c] \notin {"batch", "retry"} => batch[c] = <<>>

\* The converse of OneConsumer: a record's fate leads to its place.
Placed == \A r \in Records :
             /\ fate[r] = "queued" => r \in Range(pending_records)
             /\ fate[r] = "taken" => \E c \in Consumers : r \in Range(batch[c])

\* The writer leaves an empty queue, which nobody fills again.
Closing == /\ shutdown <=> stage["owner"] \in {"joining", "destroyed"}
           /\ stage["writer"] = "exited" => shutdown /\ pending_records = <<>>
           /\ stage["owner"] = "destroyed" => stage["writer"] = "exited"

IInv == WriterTypeOK /\ Places /\ OneConsumer /\ StoredOnce /\ Placed /\ Closing

-----------------------------------------------------------------------------
(* Sequences                                                               *)

\* A sequence cut after its first n elements: the parts make up the whole, and
\* share nothing if it has no duplicates.
LEMMA CutFacts ==
    ASSUME NEW s, NEW a, NEW b, NEW k \in Nat, NEW n \in 1 .. k,
           DOMAIN s = 1 .. k, DOMAIN a = 1 .. n, DOMAIN b = 1 .. k - n,
           \A i \in 1 .. n : a[i] = s[i],
           \A i \in 1 .. k - n : b[i] = s[n + i],
           IsInjective(s)
    PROVE  /\ IsInjective(a) /\ IsInjective(b)
           /\ Range(a) \cap Range(b) = {}
           /\ Range(s) = Range(a) \cup Range(b)
<1>1. IsInjective(a)
  BY DEF IsInjective
<1>2. IsInjective(b)
  <2> SUFFICES ASSUME NEW i \in 1 .. k - n, NEW j \in 1 .. k - n, b[i] = b[j]
               PROVE  i = j
    BY DEF IsInjective
  <2>1. n + i \in 1 .. k /\ n + j \in 1 .. k /\ s[n + i] = s[n + j]
    OBVIOUS
  <2>2. n + i = n + j
    BY <2>1 DEF IsInjective
  <2>3. QED BY <2>2
<1>3. Range(a) \cap Range(b) = {}
  <2> SUFFICES ASSUME NEW i \in 1 .. n, NEW j \in 1 .. k - n, a[i] = b[j] PROVE FALSE
    BY DEF Range
  <2>1. i \in 1 .. k /\ n + j \in 1 .. k /\ s[i] = s[n + j] /\ i # n + j
    OBVIOUS
  <2>2. QED BY <2>1 DEF IsInjective
<1>4. Range(s) \subseteq Range(a) \cup Range(b)
  <2> SUFFICES ASSUME NEW i \in 1 .. k PROVE s[i] \in Range(a) \cup Range(b)
    BY DEF Range
  <2>1. CASE i \in 1 .. n
    BY <2>1 DEF Range
  <2>2. CASE i \notin 1 .. n
    <3>1. i - n \in 1 .. k - n /\ n + (i - n) = i
      BY <2>2
    <3>2. b[i - n] = s[i]
      BY <3>1
    <3>3. QED BY <3>1, <3>2 DEF Range
  <2>3. QED BY <2>1, <2>2
<1>5. Range(a) \cup Range(b) \subseteq Range(s)
  <2>1. Range(a) \subseteq Range(s)
    BY DEF Range
  <2>2. ASSUME NEW i \in 1 .. k - n PROVE b[i] \in Range(s)
    <3>1. n + i \in 1 .. k /\ b[i] = s[n + i]
      OBVIOUS
    <3>2. QED BY <3>1 DEF Range
  <2>3. QED BY <2>1, <2>2 DEF Range
<1>6. QED BY <1>1, <1>2, <1>3, <1>4, <1>5

LEMMA CutRange ==
    ASSUME NEW S, NEW s \in Seq(S), NEW n \in 1 .. Len(s), IsInjective(s)
    PROVE  LET a == SubSeq(s, 1, n)
               b == SubSeq(s, n + 1, Len(s))
           IN  /\ a \in Seq(S) /\ b \in Seq(S) /\ Len(b) = Len(s) - n
               /\ IsInjective(a) /\ IsInjective(b)
               /\ Range(a) \cap Range(b) = {}
               /\ Range(s) = Range(a) \cup Range(b)
<1>1. PICK a : a = SubSeq(s, 1, n)
  OBVIOUS
<1>2. PICK b : b = SubSeq(s, n + 1, Len(s))
  OBVIOUS
<1>3. PICK k \in Nat : k = Len(s)
  OBVIOUS
<1>4. /\ a \in Seq(S) /\ DOMAIN a = 1 .. n
      /\ \A i \in 1 .. n : a[i] = s[i]
  BY <1>1
<1>5. /\ b \in Seq(S) /\ Len(b) = Len(s) - n /\ DOMAIN b = 1 .. k - n
      /\ \A i \in 1 .. k - n : b[i] = s[n + i]
  BY <1>2, <1>3
<1>6. DOMAIN s = 1 .. k /\ n \in 1 .. k
  BY <1>3
<1>7. /\ IsInjective(a) /\ IsInjective(b)
      /\ Range(a) \cap Range(b) = {}
      /\ Range(s) = Range(a) \cup Range(b)
  BY ONLY <1>3, <1>4, <1>5, <1>6, IsInjective(s), CutFacts, ZenonT(60)
<1>8. QED BY <1>1, <1>2, <1>4, <1>5, <1>7

\* The first element of a sequence without duplicates is not in its tail.
LEMMA TailRange ==
    ASSUME NEW S, NEW s \in Seq(S), s # <<>>, IsInjective(s)
    PROVE  /\ Head(s) \in S /\ Tail(s) \in Seq(S) /\ IsInjective(Tail(s))
           /\ Head(s) \notin Range(Tail(s))
           /\ Range(s) = Range(Tail(s)) \cup {Head(s)}
<1>1. /\ Len(s) \in Nat \ {0} /\ DOMAIN s = 1 .. Len(s)
      /\ Head(s) = s[1] /\ Head(s) \in S
  OBVIOUS
<1>2. /\ Tail(s) \in Seq(S) /\ DOMAIN Tail(s) = 1 .. Len(s) - 1
      /\ \A i \in 1 .. Len(s) - 1 : Tail(s)[i] = s[i + 1]
  OBVIOUS
<1>3. IsInjective(Tail(s)) /\ Head(s) \notin Range(Tail(s))
  BY <1>1, <1>2 DEF IsInjective, Range
<1>4. Range(s) \subseteq Range(Tail(s)) \cup {Head(s)}
  <2> SUFFICES ASSUME NEW i \in 1 .. Len(s) PROVE s[i] \in Range(Tail(s)) \cup {Head(s)}
    BY <1>1 DEF Range
  <2>1. CASE i = 1
    BY <2>1, <1>1
  <2>2. CASE i # 1
    <3>1. i - 1 \in 1 .. Len(s) - 1 /\ Tail(s)[i - 1] = s[i]
      BY <2>2, <1>1, <1>2
    <3>2. QED BY <3>1, <1>2 DEF Range
  <2>3. QED BY <2>1, <2>2
<1>5. Range(Tail(s)) \cup {Head(s)} \subseteq Range(s)
  BY <1>1, <1>2 DEF Range
<1>6. QED BY <1>1, <1>2, <1>3, <1>4, <1>5

\* A new element at the end of a queue.
LEMMA AppendRange ==
    ASSUME NEW S, NEW s \in Seq(S), NEW e \in S, IsInjective(s), e \notin Range(s)
    PROVE  /\ Append(s, e) \in Seq(S) /\ Len(Append(s, e)) = Len(s) + 1
           /\ IsInjective(Append(s, e))
           /\ Range(Append(s, e)) = Range(s) \cup {e}
<1>1. /\ Append(s, e) \in Seq(S) /\ Len(Append(s, e)) = Len(s) + 1
      /\ DOMAIN Append(s, e) = 1 .. Len(s) + 1 /\ DOMAIN s = 1 .. Len(s)
      /\ \A i \in 1 .. Len(s) : Append(s, e)[i] = s[i]
      /\ Append(s, e)[Len(s) + 1] = e /\ Len(s) \in Nat
  OBVIOUS
<1>2. IsInjective(Append(s, e))
  BY <1>1 DEF IsInjective, Range
<1>3. Range(Append(s, e)) = Range(s) \cup {e}
  BY <1>1 DEF Range
<1>4. QED BY <1>1, <1>2, <1>3

LEMMA EmptyRange == Range(<<>>) = {} /\ IsInjective(<<>>)
BY DEF Range, IsInjective

LEMMA RangeType == ASSUME NEW S, NEW s \in Seq(S) PROVE Range(s) \subseteq S
BY DEF Range

-----------------------------------------------------------------------------
(* Initial states                                                          *)

LEMMA InitInv == WriterInit => IInv
<1> SUFFICES ASSUME WriterInit PROVE IInv
  OBVIOUS
<1>1. WriterTypeOK
  <2>1. pending_records \in Seq(Records) /\ Len(pending_records) = 0
    BY DEF WriterInit
  <2>2. batch \in [Consumers -> Seq(Records)]
    BY DEF WriterInit
  <2>3. Len(pending_records) <= BatchSize * QueueFactor
    BY <2>1, BatchAssumption
  <2>4. QED BY <2>1, <2>2, <2>3 DEF WriterInit, WriterTypeOK, Fates, Counters
<1>2. Places /\ StoredOnce /\ Closing
  BY DEF WriterInit, Places, StoredOnce, Closing, Consumers
<1>3. OneConsumer /\ Placed
  BY EmptyRange DEF WriterInit, OneConsumer, Placed, Consumers
<1>4. QED BY <1>1, <1>2, <1>3 DEF IInv

-----------------------------------------------------------------------------
(* Steps                                                                   *)

LEMMA RecordInv ==
    ASSUME IInv, NEW r \in Records, Record(r) PROVE IInv'
<1> USE DEF IInv
<1>q. Range(pending_records) \subseteq Records /\ \A c \in Consumers : Range(batch[c]) \subseteq Records
  BY RangeType DEF WriterTypeOK
<1>1. CASE QueueFull
  <2>1. WriterTypeOK'
    <3>1. stats' \in [Counters -> Nat] /\ fate' \in [Records -> Fates]
      <4>1. stats' = [stats EXCEPT !["dropped"] = @ + 1] /\ stats \in [Counters -> Nat]
        BY <1>1 DEF Record, WriterTypeOK
      <4>2. fate' = [fate EXCEPT ![r] = "dropped"] /\ fate \in [Records -> Fates]
        BY <1>1 DEF Record, WriterTypeOK
      <4>3. stats' \in [Counters -> Nat]
        BY <4>1 DEF Counters
      <4>4. fate' \in [Records -> Fates]
        BY <4>2 DEF Fates
      <4>5. QED BY <4>3, <4>4
    <3>2. UNCHANGED <<pending_records, async_mode, shutdown, stage, batch, rows>>
      BY <1>1 DEF Record
    <3>3. QED BY <3>1, <3>2 DEF WriterTypeOK
  <2>2. Places' /\ Closing' /\ StoredOnce'
    BY <1>1 DEF Record, Places, Closing, StoredOnce, WriterTypeOK
  <2>3. OneConsumer'
    BY <1>1, <1>q DEF Record, OneConsumer, WriterTypeOK
  <2>4. Placed'
    BY <1>1 DEF Record, Placed, WriterTypeOK
  <2>5. QED BY <2>1, <2>2, <2>3, <2>4
<1>2. CASE ~QueueFull
  <2>1. r \notin Range(pending_records) /\ \A c \in Consumers : r \notin Range(batch[c])
    BY DEF Record, OneConsumer
  <2>2. /\ pending_records' \in Seq(Records)
        /\ Len(pending_records') = Len(pending_records) + 1
        /\ IsInjective(pending_records')
        /\ Range(pending_records') = Range(pending_records) \cup {r}
    <3>1. pending_records' = Append(pending_records, r)
      BY <1>2 DEF Record
    <3>2. pending_records \in Seq(Records) /\ IsInjective(pending_records)
      BY DEF WriterTypeOK, OneConsumer
    <3>3. QED BY <2>1, <3>1, <3>2, AppendRange
  <2>3. Len(pending_records') <= BatchSize * QueueFactor
    <3>1. BatchSize * QueueFactor \in Nat /\ Len(pending_records) \in Nat
      BY BatchAssumption DEF WriterTypeOK
    <3>2. QED BY <3>1, <1>2, <2>2 DEF QueueFull
  <2>4. WriterTypeOK'
    BY <1>2, <2>2, <2>3 DEF Record, WriterTypeOK, Fates, Counters
  <2>5. Places' /\ Closing' /\ StoredOnce'
    BY <1>2 DEF Record, Places, Closing, StoredOnce, WriterTypeOK
  <2>6. OneConsumer'
    BY <1>2, <1>q, <2>1, <2>2 DEF Record, OneConsumer, WriterTypeOK
  <2>7. Placed'
    BY <1>2, <2>2 DEF Record, Placed, WriterTypeOK
  <2>8. QED BY <2>4, <2>5, <2>6, <2>7
<1>3. QED BY <1>1, <1>2

\* What WriteRecord does to the table and the counters.
LEMMA WriteRecordFacts ==
    ASSUME WriterTypeOK, StoredOnce, NEW r \in Records, NEW o \in Outcomes, WriteRecord(r, o),
           fate[r] \in {"new", "taken"}
    PROVE  /\ rows' \in [Records -> Nat] /\ fate' \in [Records -> Fates]
           /\ stats' \in [Counters -> Nat]
           /\ fate'[r] \in {"written", "failed"}
           /\ \A s \in Records \ {r} : fate'[s] = fate[s]
           /\ StoredOnce'
<1>1. rows[r] = 0
  BY DEF StoredOnce, WriterTypeOK
<1>2. stats' \in [Counters -> Nat]
  BY DEF WriteRecord, WriterTypeOK, Counters
<1>3. /\ fate' \in [Records -> Fates] /\ fate'[r] = IF o = "throws" THEN "failed" ELSE "written"
      /\ \A s \in Records \ {r} : fate'[s] = fate[s]
  BY DEF WriteRecord, WriterTypeOK, Fates
<1>4. /\ rows' \in [Records -> Nat] /\ \A s \in Records \ {r} : rows'[s] = rows[s]
      /\ rows'[r] = IF o = "inserted" THEN 1 ELSE 0
  BY <1>1 DEF WriteRecord, Insert, WriterTypeOK
<1>5. StoredOnce'
  <2> SUFFICES ASSUME NEW s \in Records
               PROVE  rows'[s] <= 1 /\ (rows'[s] = 1 => fate'[s] = "written")
    BY DEF StoredOnce
  <2>1. CASE s = r
    BY <2>1, <1>3, <1>4 DEF Outcomes
  <2>2. CASE s # r
    BY <2>2, <1>3, <1>4 DEF StoredOnce
  <2>3. QED BY <2>1, <2>2
<1>6. QED BY <1>2, <1>3, <1>4, <1>5

LEMMA RecordSyncInv ==
    ASSUME IInv, NEW r \in Records, NEW o \in Outcomes, RecordSync(r, o) PROVE IInv'
<1> USE DEF IInv
<1>1. /\ rows' \in [Records -> Nat] /\ fate' \in [Records -> Fates]
      /\ stats' \in [Counters -> Nat]
      /\ fate'[r] \in {"written", "failed"}
      /\ \A s \in Records \ {r} : fate'[s] = fate[s]
      /\ StoredOnce'
  BY WriteRecordFacts DEF RecordSync
<1>2. r \notin Range(pending_records) /\ \A c \in Consumers : r \notin Range(batch[c])
  BY DEF RecordSync, OneConsumer
<1>3. WriterTypeOK' /\ Places' /\ Closing'
  BY <1>1 DEF RecordSync, WriterTypeOK, Places, Closing
<1>4. OneConsumer'
  <2>1. Range(pending_records) \subseteq Records /\ \A c \in Consumers : Range(batch[c]) \subseteq Records
    BY RangeType DEF WriterTypeOK
  <2>2. QED BY <1>1, <1>2, <2>1 DEF RecordSync, OneConsumer
<1>5. Placed'
  BY <1>1 DEF RecordSync, Placed
<1>6. QED BY <1>1, <1>3, <1>4, <1>5

LEMMA TakeInv ==
    ASSUME IInv, NEW c \in Consumers, NEW n \in 0 .. Len(pending_records), stage[c] = "idle",
           Take(c, n), UNCHANGED <<async_mode, shutdown, stats, rows>>
    PROVE  IInv'
<1> USE DEF IInv
<1>1. PICK a : a = SubSeq(pending_records, 1, n)
  OBVIOUS
<1>2. PICK b : b = SubSeq(pending_records, n + 1, Len(pending_records))
  OBVIOUS
<1>3. pending_records \in Seq(Records) /\ n \in 1 .. Len(pending_records)
  BY DEF Take, WriterTypeOK
<1>4. /\ a \in Seq(Records) /\ b \in Seq(Records)
      /\ Len(b) = Len(pending_records) - n
      /\ IsInjective(a) /\ IsInjective(b)
      /\ Range(a) \cap Range(b) = {}
      /\ Range(pending_records) = Range(a) \cup Range(b)
  BY <1>1, <1>2, <1>3, CutRange DEF OneConsumer
<1>5. /\ batch' = [batch EXCEPT ![c] = a] /\ pending_records' = b
      /\ fate' = [r \in Records |-> IF r \in Range(a) THEN "taken" ELSE fate[r]]
      /\ stage' = [stage EXCEPT ![c] = "batch"]
  BY <1>1, <1>2 DEF Take, Marked
<1>6. batch[c] = <<>> /\ Range(a) \subseteq Records /\ Range(b) \subseteq Records
      /\ \A d \in Consumers : Range(batch[d]) \subseteq Records
  BY <1>4, RangeType DEF Places, WriterTypeOK
<1>7. WriterTypeOK'
  <2>1. Len(b) <= BatchSize * QueueFactor
    <3>1. BatchSize * QueueFactor \in Nat /\ Len(pending_records) \in Nat
          /\ Len(pending_records) <= BatchSize * QueueFactor
      BY BatchAssumption DEF WriterTypeOK
    <3>2. QED BY <1>3, <1>4, <3>1
  <2>2. fate' \in [Records -> Fates]
    BY <1>5 DEF WriterTypeOK, Fates
  <2>3. QED BY <1>4, <1>5, <2>1, <2>2 DEF WriterTypeOK
<1>8. Places' /\ Closing'
  <2>1. stage[c] \notin {"exited", "joining", "destroyed"}
    OBVIOUS
  <2>2. Places'
    BY <1>5, <2>1 DEF Places, WriterTypeOK, Consumers
  <2>3. Closing'
    <3>1. pending_records # <<>>
      BY <1>3
    <3>2. QED BY <1>5, <2>1, <3>1 DEF Closing, WriterTypeOK, Consumers
  <2>4. QED BY <2>2, <2>3
<1>9. StoredOnce'
  BY <1>4, <1>5 DEF StoredOnce, OneConsumer, WriterTypeOK
<1>10. OneConsumer'
  <2>1. \A d \in Consumers \ {c} : Range(batch[d]) \cap Range(a) = {}
    BY <1>4 DEF OneConsumer
  <2>2. \A d \in Consumers : IsInjective(batch'[d])
    BY <1>4, <1>5 DEF OneConsumer, WriterTypeOK
  <2>3. \A r \in Range(b) : fate'[r] = "queued"
    BY <1>4, <1>5, <1>6 DEF OneConsumer
  <2>4. \A d \in Consumers : \A r \in Range(batch'[d]) : fate'[r] = "taken"
    BY <1>5, <1>6 DEF OneConsumer, WriterTypeOK
  <2>5. Range(batch'["writer"]) \cap Range(batch'["owner"]) = {}
    BY <1>5, <2>1 DEF OneConsumer, WriterTypeOK, Consumers
  <2>6. QED BY <1>4, <1>5, <2>2, <2>3, <2>4, <2>5 DEF OneConsumer
<1>11. Placed'
  <2> SUFFICES ASSUME NEW r \in Records
               PROVE  /\ fate'[r] = "queued" => r \in Range(b)
                      /\ fate'[r] = "taken" => \E d \in Consumers : r \in Range(batch'[d])
    BY <1>5 DEF Placed
  <2>1. CASE r \in Range(a)
    BY <2>1, <1>5 DEF WriterTypeOK
  <2>2. CASE r \notin Range(a)
    <3>1. fate'[r] = "queued" => r \in Range(b)
      BY <2>2, <1>4, <1>5 DEF Placed
    <3>2. ASSUME fate'[r] = "taken" PROVE \E d \in Consumers : r \in Range(batch'[d])
      <4>1. PICK d \in Consumers : r \in Range(batch[d])
        BY <2>2, <3>2, <1>5 DEF Placed
      <4>2. d # c
        BY <4>1, <1>6, EmptyRange
      <4>3. QED BY <4>1, <4>2, <1>5 DEF WriterTypeOK
    <3>3. QED BY <3>1, <3>2
  <2>3. QED BY <2>1, <2>2
<1>12. QED BY <1>7, <1>8, <1>9, <1>10, <1>11

LEMMA WriteBatchInv ==
    ASSUME IInv, NEW c \in Consumers, NEW o \in Outcomes, WriteBatch(c, o) PROVE IInv'
<1> USE DEF IInv
<1>1. Len(batch[c]) \in Nat /\ stats \in [Counters -> Nat]
  BY DEF WriterTypeOK
<1>2. \A d \in Consumers : Range(batch[d]) \subseteq Records
  BY RangeType DEF WriterTypeOK
<1>3. CASE o = "throws"
  <2>1. /\ stats' = [stats EXCEPT !["errors"] = @ + Len(batch[c])]
        /\ stage' = [stage EXCEPT ![c] = "retry"] /\ stage[c] = "batch"
        /\ rows' = [r \in Records |-> rows[r] + 0]
        /\ UNCHANGED <<pending_records, async_mode, shutdown, batch, fate>>
    BY <1>3 DEF WriteBatch, Insert
  <2>2. stats' \in [Counters -> Nat]
    BY <1>1, <2>1 DEF Counters
  <2>3. rows' = rows
    BY <2>1 DEF WriterTypeOK
  <2>4. WriterTypeOK'
    BY <2>1, <2>2, <2>3 DEF WriterTypeOK
  <2>5. Places' /\ Closing'
    BY <2>1 DEF Places, Closing, WriterTypeOK, Consumers
  <2>6. OneConsumer' /\ StoredOnce' /\ Placed'
    BY <2>1, <2>3 DEF OneConsumer, StoredOnce, Placed
  <2>7. QED BY <2>4, <2>5, <2>6
<1>4. CASE o # "throws"
  <2>1. /\ stats' = [stats EXCEPT !["written"] = @ + Len(batch[c]), !["batched"] = @ + 1]
        /\ fate' = [r \in Records |-> IF r \in Range(batch[c]) THEN "written" ELSE fate[r]]
        /\ batch' = [batch EXCEPT ![c] = <<>>]
        /\ stage' = [stage EXCEPT ![c] = "idle"] /\ stage[c] = "batch"
        /\ UNCHANGED <<pending_records, async_mode, shutdown>>
    BY <1>4 DEF WriteBatch, Marked
  <2>2. rows' = [r \in Records |-> rows[r] + IF r \in Range(batch[c]) /\ o = "inserted" THEN 1 ELSE 0]
    BY DEF WriteBatch, Insert
  <2>3. stats' \in [Counters -> Nat]
    <3>1. stats["written"] + Len(batch[c]) \in Nat /\ stats["batched"] + 1 \in Nat
      BY <1>1 DEF Counters
    <3>2. QED BY <1>1, <2>1, <3>1
  <2>4. fate' \in [Records -> Fates]
    BY <2>1 DEF WriterTypeOK, Fates
  <2>5. rows' \in [Records -> Nat]
    BY <2>2 DEF WriterTypeOK
  <2>6. batch' \in [Consumers -> Seq(Records)]
    BY <2>1 DEF WriterTypeOK
  <2>7. WriterTypeOK'
    BY <2>1, <2>3, <2>4, <2>5, <2>6 DEF WriterTypeOK
  <2>8. Places' /\ Closing'
    BY <2>1 DEF Places, Closing, WriterTypeOK, Consumers
  <2>9. StoredOnce'
    <3> SUFFICES ASSUME NEW r \in Records
                 PROVE  rows'[r] <= 1 /\ (rows'[r] = 1 => fate'[r] = "written")
      BY DEF StoredOnce
    <3>1. CASE r \in Range(batch[c])
      <4>1. rows[r] = 0
        BY <3>1 DEF OneConsumer, StoredOnce, WriterTypeOK
      <4>2. QED BY <3>1, <4>1, <2>1, <2>2
    <3>2. CASE r \notin Range(batch[c])
      <4>1. rows'[r] = rows[r] /\ fate'[r] = fate[r]
        BY <3>2, <2>1, <2>2 DEF WriterTypeOK
      <4>2. QED BY <4>1 DEF StoredOnce
    <3>3. QED BY <3>1, <3>2
  <2>10. OneConsumer'
    <3>1. \A d \in Consumers : /\ IsInjective(batch'[d])
                               /\ Range(batch'[d]) = IF d = c THEN {} ELSE Range(batch[d])
      BY <2>1, EmptyRange DEF OneConsumer, WriterTypeOK
    <3>2. \A r \in Range(pending_records) : fate'[r] = "queued"
      <4>1. Range(pending_records) \subseteq Records
        BY RangeType DEF WriterTypeOK
      <4>2. QED BY <2>1, <4>1 DEF OneConsumer
    <3>3. \A d \in Consumers : \A r \in Range(batch'[d]) : fate'[r] = "taken"
      <4>1. \A d \in Consumers \ {c} : Range(batch[d]) \cap Range(batch[c]) = {}
        BY DEF OneConsumer, Consumers
      <4>2. QED BY <1>2, <2>1, <3>1, <4>1 DEF OneConsumer
    <3>4. Range(batch'["writer"]) \cap Range(batch'["owner"]) = {}
      BY <3>1 DEF OneConsumer, Consumers
    <3>5. QED BY <2>1, <3>1, <3>2, <3>3, <3>4 DEF OneConsumer
  <2>11. Placed'
    BY <2>1 DEF Placed, WriterTypeOK
  <2>12. QED BY <2>7, <2>8, <2>9, <2>10, <2>11
<1>5. QED BY <1>3, <1>4

LEMMA RetryInv ==
    ASSUME IInv, NEW c \in Consumers, NEW o \in Outcomes, Retry(c, o) PROVE IInv'
<1> USE DEF IInv
<1>1. PICK r : r = Head(batch[c])
  OBVIOUS
<1>2. PICK rest : rest = Tail(batch[c])
  OBVIOUS
<1>3. /\ stage[c] = "retry" /\ batch[c] # <<>> /\ WriteRecord(r, o)
      /\ batch' = [batch EXCEPT ![c] = rest]
      /\ UNCHANGED <<pending_records, async_mode, shutdown, stage>>
  BY <1>1, <1>2 DEF Retry
<1>4. /\ r \in Records /\ rest \in Seq(Records) /\ IsInjective(rest)
      /\ r \notin Range(rest) /\ Range(batch[c]) = Range(rest) \cup {r}
  <2>1. batch[c] \in Seq(Records) /\ IsInjective(batch[c])
    BY DEF WriterTypeOK, OneConsumer
  <2>2. QED BY <1>1, <1>2, <1>3, <2>1, TailRange
<1>5. fate[r] = "taken"
  BY <1>4 DEF OneConsumer
<1>6. /\ rows' \in [Records -> Nat] /\ fate' \in [Records -> Fates]
      /\ stats' \in [Counters -> Nat]
      /\ fate'[r] \in {"written", "failed"}
      /\ \A s \in Records \ {r} : fate'[s] = fate[s]
      /\ StoredOnce'
  BY <1>3, <1>4, <1>5, WriteRecordFacts
<1>7. WriterTypeOK'
  <2>1. batch' \in [Consumers -> Seq(Records)]
    BY <1>3, <1>4 DEF WriterTypeOK
  <2>2. QED BY <1>3, <1>6, <2>1 DEF WriterTypeOK
<1>8. Places' /\ Closing'
  BY <1>3 DEF Places, Closing, WriterTypeOK
<1>9. \A d \in Consumers : /\ IsInjective(batch'[d])
                           /\ Range(batch'[d]) = IF d = c THEN Range(rest) ELSE Range(batch[d])
  BY <1>3, <1>4 DEF OneConsumer, WriterTypeOK
<1>10. OneConsumer'
  <2>1. Range(pending_records) \subseteq Records /\ \A d \in Consumers : Range(batch[d]) \subseteq Records
    BY RangeType DEF WriterTypeOK
  <2>2. \A s \in Range(pending_records) : fate'[s] = "queued"
    BY <1>5, <1>6, <2>1 DEF OneConsumer
  <2>3. \A d \in Consumers \ {c} : r \notin Range(batch[d])
    BY <1>4 DEF OneConsumer, Consumers
  <2>4. \A d \in Consumers : \A s \in Range(batch'[d]) : fate'[s] = "taken"
    BY <1>4, <1>6, <1>9, <2>1, <2>3 DEF OneConsumer
  <2>5. Range(batch'["writer"]) \cap Range(batch'["owner"]) = {}
    BY <1>4, <1>9 DEF OneConsumer, Consumers
  <2>6. QED BY <1>3, <1>9, <2>2, <2>4, <2>5 DEF OneConsumer
<1>11. Placed'
  BY <1>3, <1>4, <1>6, <1>9 DEF Placed
<1>12. QED BY <1>6, <1>7, <1>8, <1>10, <1>11

\* The steps that only move a thread or a flag.
LEMMA MoveInv ==
    ASSUME IInv, UNCHANGED <<pending_records, batch, stats, rows, fate>>,
           \/ \E b \in BOOLEAN : SetAsync(b)
           \/ WriterExit \/ Destroy \/ Join
           \/ \E c \in Consumers : RetryDone(c)
    PROVE  IInv'
<1> USE DEF IInv
<1>1. OneConsumer' /\ StoredOnce' /\ Placed'
  BY DEF OneConsumer, StoredOnce, Placed
<1>2. CASE \E b \in BOOLEAN : SetAsync(b)
  <2>1. WriterTypeOK' /\ Places' /\ Closing'
    BY <1>2 DEF SetAsync, WriterTypeOK, Places, Closing
  <2>2. QED BY <1>1, <2>1
<1>3. CASE WriterExit
  <2>1. WriterTypeOK'
    BY <1>3 DEF WriterExit, WriterTypeOK
  <2>2. Places' /\ Closing'
    BY <1>3 DEF WriterExit, WriterTypeOK, Places, Closing, Consumers
  <2>3. QED BY <1>1, <2>1, <2>2
<1>4. CASE Destroy
  <2>1. WriterTypeOK'
    BY <1>4 DEF Destroy, WriterTypeOK
  <2>2. Places' /\ Closing'
    BY <1>4 DEF Destroy, WriterTypeOK, Places, Closing, Consumers
  <2>3. QED BY <1>1, <2>1, <2>2
<1>5. CASE Join
  <2>1. WriterTypeOK'
    BY <1>5 DEF Join, WriterTypeOK
  <2>2. Places' /\ Closing'
    BY <1>5 DEF Join, WriterTypeOK, Places, Closing, Consumers
  <2>3. QED BY <1>1, <2>1, <2>2
<1>6. CASE \E c \in Consumers : RetryDone(c)
  <2>1. WriterTypeOK'
    BY <1>6 DEF RetryDone, WriterTypeOK
  <2>2. Places' /\ Closing'
    BY <1>6 DEF RetryDone, WriterTypeOK, Places, Closing, Consumers
  <2>3. QED BY <1>1, <2>1, <2>2
<1>7. QED BY <1>2, <1>3, <1>4, <1>5, <1>6

LEMMA NextInv == IInv /\ [WriterNext]_writerVars => IInv'
<1> SUFFICES ASSUME IInv, [WriterNext]_writerVars PROVE IInv'
  OBVIOUS
<1>1. ASSUME NEW r \in Records, Record(r) PROVE IInv'
  BY <1>1, RecordInv
<1>2. ASSUME NEW r \in Records, NEW o \in Outcomes, RecordSync(r, o) PROVE IInv'
  BY <1>2, RecordSyncInv
<1>3. ASSUME Collect PROVE IInv'
  <2>1. Smaller(Len(pending_records), BatchSize) \in 0 .. Len(pending_records)
    BY BatchAssumption DEF Smaller, IInv, WriterTypeOK
  <2>2. QED BY <1>3, <2>1, TakeInv DEF Collect, Consumers
<1>4. ASSUME Flush PROVE IInv'
  <2>1. Len(pending_records) \in 0 .. Len(pending_records)
    BY DEF IInv, WriterTypeOK
  <2>2. QED BY <1>4, <2>1, TakeInv DEF Flush, Consumers
<1>5. ASSUME NEW c \in Consumers, NEW o \in Outcomes, WriteBatch(c, o) PROVE IInv'
  BY <1>5, WriteBatchInv
<1>6. ASSUME NEW c \in Consumers, NEW o \in Outcomes, Retry(c, o) PROVE IInv'
  BY <1>6, RetryInv
<1>7. ASSUME NEW c \in Consumers, RetryDone(c) PROVE IInv'
  BY <1>7, MoveInv DEF RetryDone
<1>8. ASSUME NEW b \in BOOLEAN, SetAsync(b) PROVE IInv'
  BY <1>8, MoveInv DEF SetAsync
<1>9. ASSUME WriterExit PROVE IInv'
  BY <1>9, MoveInv DEF WriterExit
<1>10. ASSUME Destroy PROVE IInv'
  BY <1>10, MoveInv DEF Destroy
<1>11. ASSUME Join PROVE IInv'
  BY <1>11, MoveInv DEF Join
<1>12. CASE UNCHANGED writerVars
  BY <1>12 DEF writerVars, IInv, WriterTypeOK, Places, OneConsumer, StoredOnce, Placed, Closing
<1>13. QED
  BY <1>1, <1>2, <1>3, <1>4, <1>5, <1>6, <1>7, <1>8, <1>9, <1>10, <1>11, <1>12
     DEF WriterNext, WriterStep, OwnerStep, Consumers

LEMMA Invariance == WriterSpec => []IInv
<1>1. QED BY InitInv, NextInv, PTL DEF WriterSpec

-----------------------------------------------------------------------------
(* Theorems                                                                *)

\* Every variable keeps its type, and the queue its bound.
THEOREM TypeCorrect == WriterSpec => []WriterTypeOK
<1>1. IInv => WriterTypeOK
  BY DEF IInv
<1>2. QED BY <1>1, Invariance, PTL

\* The writer thread and flush() never share a record.
THEOREM ConsumersAreApart == WriterSpec => []OneConsumer
<1>1. IInv => OneConsumer
  BY DEF IInv
<1>2. QED BY <1>1, Invariance, PTL

\* write_batch_sync with its retry stores no record twice.
THEOREM NothingStoredTwice == WriterSpec => []StoredOnce
<1>1. IInv => StoredOnce
  BY DEF IInv
<1>2. QED BY <1>1, Invariance, PTL

\* ~MetricsWriter leaves no record behind.
THEOREM DestructionDrains == WriterSpec => []DestructorDrains
<1>1. IInv => DestructorDrains
  <2> SUFFICES ASSUME IInv, stage["owner"] = "destroyed", NEW r \in Records
               PROVE  fate[r] \notin {"queued", "taken"}
    BY DEF DestructorDrains
  <2>1. pending_records = <<>> /\ \A c \in Consumers : batch[c] = <<>>
    BY DEF IInv, Closing, Places, Consumers
  <2>2. QED BY <2>1, EmptyRange DEF IInv, Placed
<1>2. QED BY <1>1, Invariance, PTL
=============================================================================

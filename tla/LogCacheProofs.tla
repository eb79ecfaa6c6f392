---------------------------- MODULE LogCacheProofs ----------------------------
(***************************************************************************)
(* What is proved of LogCache, for any length of the buffer and any number *)
(* of lines, clears, faults and processes.                                 *)
(*                                                                         *)
(* The memory, that is the buffer and the queue, grows line by line, and   *)
(* loses lines to trims and messages to the handler.  Good is what holds   *)
(* of it by itself; the other invariants relate it to the file, the lines  *)
(* that are being written and the records that were read.                  *)
(***************************************************************************)
EXTENDS LogCache, SequenceTheorems, TLAPS

------------------------------------------------------------------------------
(* Queues                                                                     *)

IsQueue(q) == q \in Seq(Elements(q))

LEMMA QueueOf ==
    ASSUME NEW S, NEW q \in Seq(S)
    PROVE  IsQueue(q) /\ Elements(q) \subseteq S
  <1> DEFINE E == Elements(q)
             n == Len(q)
  <1>1. (\A i \in 1..n : q[i] \in E) /\ (\A i \in 1..n : q[i] \in S)
    BY ElementOfSeq DEF Elements
  <1>2. n \in Nat /\ q \in [1..n -> S]
    BY LenProperties
  <1>3. E \subseteq S
    BY <1>1 DEF Elements
  <1> HIDE DEF E, n
  <1>4. q \in [1..n -> E]
    BY <1>1, <1>2
  <1>5. q \in UNION {[1..m -> E] : m \in Nat}
    BY <1>2, <1>4
  <1>6. q \in Seq(E)
    BY <1>5, SeqDef
  <1> QED
    BY <1>3, <1>6 DEF E, IsQueue

LEMMA EmptyQueue ==
    IsQueue(<<>>) /\ Len(<<>>) = 0 /\ Elements(<<>>) = {}
  <1>1. <<>> \in Seq({}) /\ Len(<<>>) = 0
    BY EmptySeq
  <1>2. IsQueue(<<>>)
    BY <1>1, QueueOf
  <1>3. Elements(<<>>) = {}
    BY <1>1 DEF Elements
  <1> QED
    BY <1>1, <1>2, <1>3

\* A queue with one more element behind, ...
LEMMA Longer ==
    ASSUME NEW q, IsQueue(q), NEW x
    PROVE  /\ IsQueue(Append(q, x)) /\ Append(q, x) # <<>>
           /\ Len(q) \in Nat /\ Len(Append(q, x)) = Len(q) + 1
           /\ Append(q, x)[Len(q) + 1] = x
           /\ \A i \in 1..Len(q) : Append(q, x)[i] = q[i]
           /\ Elements(Append(q, x)) = Elements(q) \cup {x}
  <1> DEFINE r == Append(q, x)
             n == Len(q)
  <1>1. q \in Seq(Elements(q) \cup {x})
    BY DEF IsQueue
  <1>2. r \in Seq(Elements(q) \cup {x})
    BY <1>1
  <1>3. IsQueue(r)
    BY <1>2, QueueOf
  <1>4. /\ r # <<>> /\ n \in Nat /\ Len(r) = n + 1 /\ r[n + 1] = x
        /\ \A i \in 1..n : r[i] = q[i]
    BY <1>1, AppendProperties
  <1>5. Elements(r) = {r[i] : i \in 1..(n + 1)} /\ Elements(q) = {q[i] : i \in 1..n}
    BY <1>4 DEF Elements
  <1> HIDE DEF r, n
  <1>6. 1..(n + 1) = (1..n) \cup {n + 1}
    BY <1>4
  <1>7. {r[i] : i \in 1..(n + 1)} = {q[i] : i \in 1..n} \cup {x}
    BY <1>4, <1>6
  <1>8. Elements(r) = Elements(q) \cup {x}
    BY <1>5, <1>7
  <1> QED
    BY <1>3, <1>4, <1>8 DEF r, n

\* ... without the first one, ...
LEMMA Shorter ==
    ASSUME NEW q, IsQueue(q), q # <<>>
    PROVE  /\ IsQueue(Tail(q))
           /\ Len(q) \in Nat \ {0} /\ Len(Tail(q)) = Len(q) - 1 /\ Head(q) = q[1]
           /\ \A i \in 1..Len(Tail(q)) : Tail(q)[i] = q[i + 1]
           /\ Elements(q) = Elements(Tail(q)) \cup {q[1]}
  <1> DEFINE r == Tail(q)
             n == Len(q)
  <1>1. q \in Seq(Elements(q))
    BY DEF IsQueue
  <1>2. r \in Seq(Elements(q))
    BY <1>1, HeadTailProperties
  <1>3. IsQueue(r)
    BY <1>2, QueueOf
  <1>4. n \in Nat \ {0}
    BY <1>1, EmptySeq
  <1>5. Len(r) = n - 1 /\ Head(q) = q[1] /\ \A i \in 1..(n - 1) : r[i] = q[i + 1]
    BY <1>1, <1>4, HeadTailProperties
  <1>6. Elements(r) = {r[i] : i \in 1..(n - 1)} /\ Elements(q) = {q[i] : i \in 1..n}
    BY <1>5 DEF Elements
  <1> HIDE DEF r, n
  <1>7. ASSUME NEW i \in 1..n
        PROVE  i = 1 \/ (i - 1 \in 1..(n - 1) /\ r[i - 1] = q[i])
    BY <1>4, <1>5, <1>7
  <1>8. ASSUME NEW i \in 1..(n - 1)
        PROVE  i + 1 \in 1..n /\ r[i] = q[i + 1]
    BY <1>4, <1>5, <1>8
  <1>9. {q[i] : i \in 1..n} = {r[i] : i \in 1..(n - 1)} \cup {q[1]}
    BY <1>4, <1>7, <1>8
  <1>10. Elements(q) = Elements(r) \cup {q[1]}
    BY <1>6, <1>9
  <1> QED
    BY <1>3, <1>4, <1>5, <1>10 DEF r, n

\* ... with one more in front, ...
LEMMA InFront ==
    ASSUME NEW q, IsQueue(q), NEW x
    PROVE  /\ IsQueue(<<x>> \o q) /\ <<x>> \o q # <<>>
           /\ Len(q) \in Nat /\ Len(<<x>> \o q) = Len(q) + 1
           /\ (<<x>> \o q)[1] = x
           /\ \A i \in 1..Len(q) : (<<x>> \o q)[i + 1] = q[i]
           /\ Elements(<<x>> \o q) = Elements(q) \cup {x}
  <1> DEFINE S == Elements(q) \cup {x}
             r == <<x>> \o q
             n == Len(q)
  <1>1. q \in Seq(S) /\ <<x>> \in Seq(S) /\ Len(<<x>>) = 1 /\ <<x>>[1] = x /\ n \in Nat
    BY DEF IsQueue
  <1>2. /\ r \in Seq(S) /\ Len(r) = 1 + n
        /\ \A i \in 1..(1 + n) : r[i] = IF i <= 1 THEN <<x>>[i] ELSE q[i - 1]
    BY <1>1, ConcatProperties
  <1>3. r[1] = x
    BY <1>1, <1>2
  <1>4. ASSUME NEW i \in 1..n
        PROVE  r[i + 1] = q[i]
    <2>1. i + 1 \in 1..(1 + n) /\ ~(i + 1 <= 1) /\ (i + 1) - 1 = i
      BY <1>1
    <2> QED
      BY <1>2, <2>1
  <1>5. IsQueue(r) /\ Elements(r) \subseteq S
    BY <1>2, QueueOf
  <1>6. S \subseteq Elements(r)
    <2>1. x \in Elements(r)
      BY <1>1, <1>2, <1>3 DEF Elements
    <2>2. ASSUME NEW i \in 1..n
          PROVE  q[i] \in Elements(r)
      <3>1. i + 1 \in 1..Len(r)
        BY <1>1, <1>2
      <3> QED
        BY <1>4, <3>1 DEF Elements
    <2> QED
      BY <2>1, <2>2 DEF Elements
  <1>7. r # <<>>
    BY <1>1, <1>2, EmptyQueue
  <1> QED
    BY <1>1, <1>2, <1>3, <1>4, <1>5, <1>6, <1>7

\* ... and the last m elements of one.
LastOf(q, m) == SubSeq(q, Len(q) - m + 1, Len(q))

LEMMA Cut ==
    ASSUME NEW q, IsQueue(q), NEW m \in Nat, m <= Len(q)
    PROVE  /\ IsQueue(LastOf(q, m)) /\ Len(q) \in Nat /\ Len(LastOf(q, m)) = m
           /\ \A i \in 1..m : LastOf(q, m)[i] = q[Len(q) - m + i]
           /\ Elements(LastOf(q, m)) \subseteq Elements(q)
  <1> DEFINE n == Len(q)
             a == n - m + 1
             r == LastOf(q, m)
  <1>1. n \in Nat /\ q \in Seq(Elements(q))
    BY DEF IsQueue
  <1>2. a \in Int /\ n \in Int /\ \A i \in a..n : q[i] \in Elements(q)
    <2>1. ASSUME NEW i \in a..n
          PROVE  i \in 1..n
      BY <1>1
    <2> QED
      BY <1>1, <2>1 DEF Elements
  <1>3. /\ r \in Seq(Elements(q)) /\ Len(r) = IF a <= n THEN n - a + 1 ELSE 0
        /\ \A i \in 1..(n - a + 1) : r[i] = q[a + i - 1]
    <2> HIDE DEF a, n
    <2>1. /\ SubSeq(q, a, n) \in Seq(Elements(q))
          /\ Len(SubSeq(q, a, n)) = IF a <= n THEN n - a + 1 ELSE 0
          /\ \A i \in 1..(n - a + 1) : SubSeq(q, a, n)[i] = q[a + i - 1]
      BY <1>2, SubSeqProperties
    <2> QED
      BY <2>1 DEF LastOf, a, n
  <1>4. n - a + 1 = m /\ (a <= n <=> m # 0)
    BY <1>1
  <1>5. Len(r) = m
    BY <1>3, <1>4
  <1>6. \A i \in 1..m : r[i] = q[n - m + i]
    <2>1. ASSUME NEW i \in 1..m
          PROVE  a + i - 1 = n - m + i
      BY <1>1
    <2> QED
      BY <1>3, <1>4, <2>1
  <1> QED
    BY <1>1, <1>3, <1>5, <1>6, QueueOf
------------------------------------------------------------------------------
(* The memory: buffer b and queue q when l lines were logged, those before o  *)
(* by other processes                                                         *)

At(q, w) == {i \in 1..Len(q) : q[i].what = w}
MessagesAt(q) == At(q, "LOG_MESSAGE")
TrimsAt(q) == At(q, "TRIM_LOG_FILE")

\* The lines of this process are at the end of the buffer, without a gap.
InOrder(b, l, o) ==
    \E k \in 0..(Len(b) - 1) :
        /\ \A i \in 1..k : b[i] \in 1..(o - 1) \cup {Garbage}
        /\ \A i \in (k + 1)..Len(b) : b[i] = l - (Len(b) - i) /\ b[i] >= o

\* Lines are posted in order, all but the first line of the process.
Posted(q, l, o) ==
    /\ \A i \in MessagesAt(q) : q[i].line \in Nat /\ o < q[i].line /\ q[i].line <= l
    /\ \A i, j \in MessagesAt(q) : i < j => q[i].line < q[j].line

\* Behind the last trim are only lines that are in the buffer, and not its first.
Recent(b, q, l) ==
    \A i \in MessagesAt(q) : (\A k \in TrimsAt(q) : k < i) => q[i].line > l - Len(b) + 1

\* Between two trims there are no more lines than the buffer takes.
Runs(q) ==
    \A i, j \in MessagesAt(q) :
        i <= j /\ (\A k \in TrimsAt(q) : k < i \/ k > j) => q[j].line - q[i].line + 1 <= Limit

Good(b, q, l, o, c) ==
    /\ IsQueue(b) /\ IsQueue(q) /\ l \in Nat /\ o \in Nat \ {0}
    /\ InOrder(b, l, o) /\ Len(b) <= c
    /\ Posted(q, l, o) /\ Recent(b, q, l) /\ Runs(q)

LEMMA LimitIs ==
    /\ Limit \in Nat /\ MAXLOGENTRIES \in Nat \ {0}
    /\ MAXLOGENTRIES <= Limit /\ Limit <= 2 * MAXLOGENTRIES
  BY ConstantsAssumption DEF Limit

LEMMA AtLonger ==
    ASSUME NEW q, IsQueue(q), NEW x, NEW w
    PROVE  /\ Len(q) \in Nat /\ Append(q, x)[Len(q) + 1] = x
           /\ At(Append(q, x), w) = IF x.what = w THEN At(q, w) \cup {Len(q) + 1} ELSE At(q, w)
           /\ \A i \in At(q, w) : i \in 1..Len(q) /\ Append(q, x)[i] = q[i]
  <1> DEFINE r == Append(q, x)
             n == Len(q)
  <1>1. /\ n \in Nat /\ Len(r) = n + 1 /\ r[n + 1] = x
        /\ \A i \in 1..n : r[i] = q[i]
    BY Longer
  <1>2. At(r, w) = {i \in 1..(n + 1) : r[i].what = w} /\ At(q, w) = {i \in 1..n : q[i].what = w}
    BY <1>1 DEF At
  <1> HIDE DEF r, n
  <1>3. 1..(n + 1) = (1..n) \cup {n + 1} /\ n + 1 \notin 1..n
    BY <1>1
  <1>4. At(r, w) = IF x.what = w THEN At(q, w) \cup {n + 1} ELSE At(q, w)
    BY <1>1, <1>2, <1>3
  <1>5. \A i \in At(q, w) : i \in 1..n /\ r[i] = q[i]
    BY <1>1, <1>2
  <1> QED
    BY <1>1, <1>4, <1>5 DEF r, n

LEMMA AtShorter ==
    ASSUME NEW q, IsQueue(q), q # <<>>, NEW w
    PROVE  /\ \A i \in At(Tail(q), w) :
                 i \in Nat \ {0} /\ i + 1 \in At(q, w) /\ Tail(q)[i] = q[i + 1]
           /\ \A i \in At(q, w) : i \in Nat \ {0} /\ (i = 1 \/ i - 1 \in At(Tail(q), w))
           /\ 1 \in At(q, w) <=> q[1].what = w
  <1> DEFINE r == Tail(q)
             n == Len(q)
  <1>1. /\ n \in Nat \ {0} /\ Len(r) = n - 1
        /\ \A i \in 1..(n - 1) : r[i] = q[i + 1]
    BY Shorter
  <1>2. At(r, w) = {i \in 1..(n - 1) : r[i].what = w} /\ At(q, w) = {i \in 1..n : q[i].what = w}
    BY <1>1 DEF At
  <1> HIDE DEF r, n
  <1>3. \A i \in At(r, w) : i \in Nat \ {0} /\ i + 1 \in At(q, w) /\ r[i] = q[i + 1]
    BY <1>1, <1>2
  <1>4. \A i \in At(q, w) : i \in Nat \ {0} /\ (i = 1 \/ i - 1 \in At(r, w))
    <2> SUFFICES ASSUME NEW i \in At(q, w), i # 1
                 PROVE  i - 1 \in At(r, w)
      BY <1>1, <1>2
    <2>1. i - 1 \in 1..(n - 1) /\ (i - 1) + 1 = i /\ q[i].what = w
      BY <1>1, <1>2
    <2>2. r[i - 1] = q[i]
      BY <1>1, <2>1
    <2> QED
      BY <1>1, <1>2, <2>1, <2>2
  <1>5. 1 \in At(q, w) <=> q[1].what = w
    BY <1>1, <1>2
  <1> QED
    BY <1>3, <1>4, <1>5 DEF r

LEMMA MessageIs ==
    ASSUME NEW n, NEW w
    PROVE  /\ LogMessage(n).what = "LOG_MESSAGE" /\ LogMessage(n).line = n
           /\ Message(w).what = w
  BY DEF LogMessage, Message

\* A line is logged, and not yet trimmed.
LEMMA GoodLonger ==
    ASSUME NEW b, NEW q, NEW l, NEW o, Good(b, q, l, o, Limit), o <= l
    PROVE  Good(Append(b, l + 1), Append(q, LogMessage(l + 1)), l + 1, o, Limit + 1)
  <1> DEFINE b1 == Append(b, l + 1)
             q1 == Append(q, LogMessage(l + 1))
             n == Len(b)
             m == Len(q)
  <1> USE DEF Good
  <1>1. /\ IsQueue(b1) /\ n \in Nat /\ Len(b1) = n + 1 /\ b1[n + 1] = l + 1
        /\ \A i \in 1..n : b1[i] = b[i]
    BY Longer
  <1>2. IsQueue(q1) /\ m \in Nat /\ q1[m + 1].line = l + 1
    BY Longer, MessageIs
  <1>3. /\ MessagesAt(q1) = MessagesAt(q) \cup {m + 1} /\ TrimsAt(q1) = TrimsAt(q)
        /\ \A i \in MessagesAt(q) : i \in 1..m /\ q1[i] = q[i]
        /\ \A i \in TrimsAt(q) : i \in 1..m
    <2> DEFINE x == LogMessage(l + 1)
    <2>1. x.what = "LOG_MESSAGE"
      BY MessageIs
    <2> HIDE DEF x
    <2>2. /\ At(Append(q, x), "LOG_MESSAGE") = At(q, "LOG_MESSAGE") \cup {m + 1}
          /\ \A i \in At(q, "LOG_MESSAGE") : i \in 1..m /\ Append(q, x)[i] = q[i]
      BY <2>1, AtLonger
    <2>3. At(Append(q, x), "TRIM_LOG_FILE") = At(q, "TRIM_LOG_FILE")
      BY <2>1, AtLonger
    <2>4. \A i \in At(q, "TRIM_LOG_FILE") : i \in 1..m
      BY AtLonger
    <2> QED
      BY <2>2, <2>3, <2>4 DEF MessagesAt, TrimsAt, x
  <1>4. l \in Nat /\ o \in Nat \ {0} /\ n <= Limit /\ Limit \in Nat
    BY LimitIs
  <1> HIDE DEF b1, q1, n, m
  <1>5. 1 <= n /\ InOrder(b1, l + 1, o)
    <2>1. PICK k \in 0..(n - 1) :
              /\ \A i \in 1..k : b[i] \in 1..(o - 1) \cup {Garbage}
              /\ \A i \in (k + 1)..n : b[i] = l - (n - i) /\ b[i] >= o
      BY DEF InOrder, n
    <2>2. k \in 0..(Len(b1) - 1) /\ \A i \in 1..k : i \in 1..n
      BY <1>1, <2>1
    <2>3. \A i \in (k + 1)..Len(b1) : b1[i] = (l + 1) - (Len(b1) - i) /\ b1[i] >= o
      <3> TAKE i \in (k + 1)..Len(b1)
      <3>1. CASE i = n + 1
        BY <1>1, <1>4, <3>1
      <3>2. CASE i # n + 1
        <4>1. i \in (k + 1)..n /\ i \in 1..n
          BY <1>1, <2>1, <3>2
        <4> QED
          BY <1>1, <1>4, <2>1, <4>1
      <3> QED
        BY <3>1, <3>2
    <2>4. \A i \in 1..k : b1[i] \in 1..(o - 1) \cup {Garbage}
      BY <1>1, <2>1, <2>2
    <2>5. 1 <= n
      BY <1>1, <2>1
    <2>6. InOrder(b1, l + 1, o)
      BY <2>2, <2>3, <2>4, Zenon DEF InOrder
    <2> QED
      BY <2>5, <2>6
  <1>6. Posted(q1, l + 1, o)
    <2>1. \A i \in MessagesAt(q1) : q1[i].line \in Nat /\ o < q1[i].line /\ q1[i].line <= l + 1
      BY <1>2, <1>3, <1>4 DEF Posted
    <2>2. ASSUME NEW i \in MessagesAt(q1), NEW j \in MessagesAt(q1), i < j
          PROVE  q1[i].line < q1[j].line
      <3>1. i \in MessagesAt(q)
        BY <1>2, <1>3, <2>2
      <3>2. q[i].line \in Nat /\ q[i].line <= l
        BY <3>1 DEF Posted
      <3> QED
        BY <1>2, <1>3, <1>4, <2>2, <3>1, <3>2 DEF Posted
    <2> QED
      BY <2>1, <2>2 DEF Posted
  <1>7. Recent(b1, q1, l + 1)
    <2> SUFFICES ASSUME NEW i \in MessagesAt(q1), \A k \in TrimsAt(q1) : k < i
                 PROVE  q1[i].line > l + 1 - Len(b1) + 1
      BY DEF Recent
    <2>1. CASE i = m + 1
      BY <1>1, <1>2, <1>4, <1>5, <2>1
    <2>2. CASE i \in MessagesAt(q)
      <3>1. q[i].line \in Nat /\ q[i].line > l - n + 1
        BY <1>3, <2>2 DEF Recent, Posted, n
      <3> QED
        BY <1>1, <1>3, <1>4, <2>2, <3>1
    <2> QED
      BY <1>3, <2>1, <2>2
  <1>8. Runs(q1)
    <2> SUFFICES ASSUME NEW i \in MessagesAt(q1), NEW j \in MessagesAt(q1), i <= j,
                        \A k \in TrimsAt(q1) : k < i \/ k > j
                 PROVE  q1[j].line - q1[i].line + 1 <= Limit
      BY DEF Runs
    <2>1. CASE j \in MessagesAt(q)
      <3>1. i \in MessagesAt(q)
        BY <1>2, <1>3, <2>1
      <3>2. q[j].line - q[i].line + 1 <= Limit
        BY <1>3, <2>1, <3>1 DEF Runs
      <3>3. q1[i] = q[i] /\ q1[j] = q[j]
        BY <1>3, <2>1, <3>1
      <3> QED
        BY <3>2, <3>3
    <2>2. CASE j = m + 1 /\ i = m + 1
      BY <1>1, <1>2, <1>4, <1>5, <2>2
    <2>3. CASE j = m + 1 /\ i \in MessagesAt(q)
      <3>1. \A k \in TrimsAt(q) : k < i
        BY <1>2, <1>3, <2>3
      <3>2. q[i].line \in Nat /\ q[i].line > l - n + 1
        BY <2>3, <3>1 DEF Recent, Posted, n
      <3>3. q1[i].line = q[i].line /\ q1[j].line = l + 1
        BY <1>2, <1>3, <2>3
      <3> QED
        BY <1>1, <1>4, <3>2, <3>3
    <2> QED
      BY <1>3, <2>1, <2>2, <2>3
  <1>9. Len(b1) <= Limit + 1 /\ l + 1 \in Nat
    BY <1>1, <1>4
  <1> QED
    BY <1>1, <1>2, <1>4, <1>5, <1>6, <1>7, <1>8, <1>9 DEF b1, q1

\* Another message is sent.
LEMMA GoodOther ==
    ASSUME NEW b, NEW q, NEW l, NEW o, NEW c, Good(b, q, l, o, c),
           NEW x, x.what # "LOG_MESSAGE"
    PROVE  Good(b, Append(q, x), l, o, c)
  <1> DEFINE r == Append(q, x)
             m == Len(q)
  <1>1. IsQueue(q) /\ IsQueue(r)
    BY Longer DEF Good
  <1>2. m \in Nat /\ At(r, "LOG_MESSAGE") = At(q, "LOG_MESSAGE")
    BY <1>1, AtLonger
  <1>3. \A i \in At(q, "LOG_MESSAGE") : i \in 1..m /\ r[i] = q[i]
    BY <1>1, Longer DEF At
  <1>4. /\ At(r, "TRIM_LOG_FILE") \subseteq At(q, "TRIM_LOG_FILE") \cup {m + 1}
        /\ At(q, "TRIM_LOG_FILE") \subseteq At(r, "TRIM_LOG_FILE")
    BY <1>1, AtLonger
  <1> HIDE DEF r, m
  <1>5. Posted(r, l, o)
    BY <1>2, <1>3 DEF Good, Posted, MessagesAt
  <1>6. Recent(b, r, l)
    <2>1. Recent(b, q, l)
      BY DEF Good
    <2> QED
      BY <1>2, <1>3, <1>4, <2>1 DEF Recent, MessagesAt, TrimsAt
  <1>7. Runs(r)
    <2>1. Runs(q)
      BY DEF Good
    <2> SUFFICES ASSUME NEW i \in MessagesAt(r), NEW j \in MessagesAt(r), i <= j,
                        \A k \in TrimsAt(r) : k < i \/ k > j
                 PROVE  r[j].line - r[i].line + 1 <= Limit
      BY DEF Runs
    <2>2. i \in MessagesAt(q) /\ j \in MessagesAt(q) /\ r[i] = q[i] /\ r[j] = q[j]
      BY <1>2, <1>3 DEF MessagesAt
    <2>3. \A k \in TrimsAt(q) : k < i \/ k > j
      BY <1>4 DEF TrimsAt
    <2> QED
      BY <2>1, <2>2, <2>3 DEF Runs
  <1> QED
    BY <1>1, <1>5, <1>6, <1>7 DEF Good, r

\* The buffer is cut to its last m lines, and a trim is sent.
LEMMA GoodCut ==
    ASSUME NEW b, NEW q, NEW l, NEW o, NEW c, Good(b, q, l, o, c), NEW m \in 1..Len(b)
    PROVE  Good(LastOf(b, m), Append(q, Message("TRIM_LOG_FILE")), l, o, m)
  <1> DEFINE x == Message("TRIM_LOG_FILE")
             r == Append(q, x)
             a == LastOf(b, m)
             n == Len(b)
  <1>1. x.what = "TRIM_LOG_FILE" /\ x.what # "LOG_MESSAGE"
    BY MessageIs
  <1> HIDE DEF x
  <1>2. Good(b, r, l, o, c)
    BY <1>1, GoodOther
  <1>3. /\ Len(q) \in Nat /\ At(r, "LOG_MESSAGE") = At(q, "LOG_MESSAGE")
        /\ \A i \in At(q, "LOG_MESSAGE") : i \in 1..Len(q)
    BY <1>1, AtLonger DEF Good
  <1>4. Len(q) + 1 \in At(r, "TRIM_LOG_FILE")
    BY <1>1, AtLonger DEF Good
  <1>5. n \in Nat
    BY Longer DEF Good
  <1>6. IsQueue(a) /\ Len(a) = m /\ m \in Nat \ {0} /\ \A i \in 1..m : a[i] = b[n - m + i]
    BY <1>5, Cut DEF Good
  <1> HIDE DEF r, a, n
  <1>7. Recent(a, r, l)
    <2>1. \A i \in MessagesAt(r) : i < Len(q) + 1
      BY <1>3 DEF MessagesAt
    <2>2. \A i \in MessagesAt(r) : ~(\A k \in TrimsAt(r) : k < i)
      BY <1>3, <1>4, <2>1 DEF MessagesAt, TrimsAt
    <2> QED
      BY <2>2 DEF Recent
  <1>8. InOrder(a, l, o)
    <2>1. l \in Nat /\ o \in Nat \ {0} /\ InOrder(b, l, o)
      BY DEF Good
    <2>2. PICK k \in 0..(n - 1) :
              /\ \A i \in 1..k : b[i] \in 1..(o - 1) \cup {Garbage}
              /\ \A i \in (k + 1)..n : b[i] = l - (n - i) /\ b[i] >= o
      BY <2>1, Zenon DEF InOrder, n
    <2> DEFINE k1 == IF k <= n - m THEN 0 ELSE k - (n - m)
    <2>3. m \in 1..n
      BY DEF n
    <2>4. k1 \in 0..(Len(a) - 1)
      BY <1>5, <1>6, <2>2, <2>3
    <2>5. \A i \in 1..k1 : a[i] \in 1..(o - 1) \cup {Garbage}
      <3> TAKE i \in 1..k1
      <3>1. n - m + i \in 1..k /\ i \in 1..m
        BY <1>5, <1>6, <2>2, <2>3
      <3> QED
        BY <1>6, <2>2, <3>1
    <2>6. \A i \in (k1 + 1)..Len(a) : a[i] = l - (Len(a) - i) /\ a[i] >= o
      <3> TAKE i \in (k1 + 1)..Len(a)
      <3>1. n - m + i \in (k + 1)..n /\ i \in 1..m
        BY <1>5, <1>6, <2>2, <2>3
      <3>2. n - (n - m + i) = m - i
        BY <1>5, <1>6, <3>1
      <3>3. a[i] = b[n - m + i]
        BY <1>6, <3>1
      <3>4. a[i] = l - (n - (n - m + i)) /\ a[i] >= o
        BY <2>2, <3>1, <3>3
      <3> QED
        BY <1>6, <3>2, <3>4
    <2> HIDE DEF k1
    <2> QED
      BY <2>4, <2>5, <2>6, Zenon DEF InOrder
  <1>9. Len(a) <= m
    BY <1>6
  <1>10. IsQueue(r) /\ l \in Nat /\ o \in Nat \ {0} /\ Posted(r, l, o) /\ Runs(r)
    BY <1>2 DEF Good
  <1> QED
    BY <1>6, <1>7, <1>8, <1>9, <1>10 DEF Good, a, r, x

\* A line of the file is put in front.
LEMMA GoodInFront ==
    ASSUME NEW b, NEW q, NEW l, NEW o, Good(b, q, l, o, Limit),
           NEW n \in 1..(o - 1) \cup {Garbage}
    PROVE  Good(<<n>> \o b, q, l, o, Limit + 1)
  <1> DEFINE a == <<n>> \o b
             m == Len(b)
  <1>1. /\ IsQueue(a) /\ m \in Nat /\ Len(a) = m + 1 /\ a[1] = n
        /\ \A i \in 1..m : a[i + 1] = b[i]
    BY InFront DEF Good
  <1>2. /\ IsQueue(q) /\ l \in Nat /\ o \in Nat \ {0} /\ InOrder(b, l, o) /\ m <= Limit
        /\ Posted(q, l, o) /\ Recent(b, q, l) /\ Runs(q)
    BY DEF Good
  <1> HIDE DEF a, m
  <1>3. InOrder(a, l, o)
    <2>1. PICK k \in 0..(m - 1) :
              /\ \A i \in 1..k : b[i] \in 1..(o - 1) \cup {Garbage}
              /\ \A i \in (k + 1)..m : b[i] = l - (m - i) /\ b[i] >= o
      BY <1>2, Zenon DEF InOrder, m
    <2>2. k + 1 \in 0..(Len(a) - 1)
      BY <1>1, <2>1
    <2>3. \A i \in 1..(k + 1) : a[i] \in 1..(o - 1) \cup {Garbage}
      <3> TAKE i \in 1..(k + 1)
      <3>1. CASE i = 1
        BY <1>1, <3>1
      <3>2. CASE i # 1
        <4>1. i - 1 \in 1..k /\ i - 1 \in 1..m /\ (i - 1) + 1 = i
          BY <1>1, <2>1, <3>2
        <4>2. a[i] = b[i - 1]
          BY <1>1, <4>1
        <4> QED
          BY <2>1, <4>1, <4>2
      <3> QED
        BY <3>1, <3>2
    <2>4. \A i \in (k + 1 + 1)..Len(a) : a[i] = l - (Len(a) - i) /\ a[i] >= o
      <3> TAKE i \in (k + 1 + 1)..Len(a)
      <3>1. i - 1 \in (k + 1)..m /\ i - 1 \in 1..m /\ (i - 1) + 1 = i /\ m - (i - 1) = Len(a) - i
        BY <1>1, <2>1
      <3>2. a[i] = b[i - 1]
        BY <1>1, <3>1
      <3>3. b[i - 1] = l - (m - (i - 1)) /\ b[i - 1] >= o
        BY <2>1, <3>1
      <3> QED
        BY <3>1, <3>2, <3>3
    <2> QED
      BY <2>2, <2>3, <2>4, Zenon DEF InOrder
  <1>4. Recent(a, q, l)
    <2> SUFFICES ASSUME NEW i \in MessagesAt(q), \A k \in TrimsAt(q) : k < i
                 PROVE  q[i].line > l - Len(a) + 1
      BY DEF Recent
    <2>1. q[i].line \in Nat /\ q[i].line > l - m + 1
      BY <1>2 DEF Recent, Posted, m
    <2> QED
      BY <1>1, <1>2, <2>1
  <1>5. Len(a) <= Limit + 1
    BY <1>1, <1>2, LimitIs
  <1> QED
    BY <1>1, <1>2, <1>3, <1>4, <1>5 DEF Good, a

\* The handler takes a message.
LEMMA GoodShorter ==
    ASSUME NEW b, NEW q, NEW l, NEW o, NEW c, Good(b, q, l, o, c), q # <<>>
    PROVE  Good(b, Tail(q), l, o, c)
  <1> DEFINE r == Tail(q)
  <1>1. IsQueue(q) /\ IsQueue(r)
    BY Shorter DEF Good
  <1>2. \A i \in MessagesAt(r) : i \in Nat \ {0} /\ i + 1 \in MessagesAt(q) /\ r[i] = q[i + 1]
    BY <1>1, AtShorter DEF MessagesAt
  <1>3. \A k \in TrimsAt(q) : k \in Nat \ {0} /\ (k = 1 \/ k - 1 \in TrimsAt(r))
    BY <1>1, AtShorter DEF TrimsAt
  <1> HIDE DEF r
  <1>4. Posted(r, l, o)
    <2>1. Posted(q, l, o)
      BY DEF Good
    <2>2. \A i \in MessagesAt(r) : r[i].line \in Nat /\ o < r[i].line /\ r[i].line <= l
      BY <1>2, <2>1 DEF Posted
    <2>3. ASSUME NEW i \in MessagesAt(r), NEW j \in MessagesAt(r), i < j
          PROVE  r[i].line < r[j].line
      <3>1. i + 1 < j + 1 /\ i + 1 \in MessagesAt(q) /\ j + 1 \in MessagesAt(q)
        BY <1>2, <2>3
      <3>2. q[i + 1].line < q[j + 1].line
        BY <2>1, <3>1 DEF Posted
      <3> QED
        BY <1>2, <3>2
    <2> QED
      BY <2>2, <2>3 DEF Posted
  <1>5. Recent(b, r, l)
    <2>1. Recent(b, q, l)
      BY DEF Good
    <2> SUFFICES ASSUME NEW i \in MessagesAt(r), \A k \in TrimsAt(r) : k < i
                 PROVE  r[i].line > l - Len(b) + 1
      BY DEF Recent
    <2>2. \A k \in TrimsAt(q) : k < i + 1
      BY <1>2, <1>3
    <2> QED
      BY <1>2, <2>1, <2>2 DEF Recent
  <1>6. Runs(r)
    <2>1. Runs(q)
      BY DEF Good
    <2> SUFFICES ASSUME NEW i \in MessagesAt(r), NEW j \in MessagesAt(r), i <= j,
                        \A k \in TrimsAt(r) : k < i \/ k > j
                 PROVE  r[j].line - r[i].line + 1 <= Limit
      BY DEF Runs
    <2>2. /\ i + 1 \in MessagesAt(q) /\ j + 1 \in MessagesAt(q) /\ i + 1 <= j + 1
          /\ r[i] = q[i + 1] /\ r[j] = q[j + 1] /\ i \in Nat \ {0} /\ j \in Nat
      BY <1>2
    <2>3. \A k \in TrimsAt(q) : k < i + 1 \/ k > j + 1
      BY <1>3, <2>2
    <2>4. q[j + 1].line - q[i + 1].line + 1 <= Limit
      BY <2>1, <2>2, <2>3 DEF Runs
    <2> QED
      BY <2>2, <2>4
  <1> QED
    BY <1>1, <1>4, <1>5, <1>6 DEF Good, r
------------------------------------------------------------------------------
(* The length of the file: F records are in it or still to be written from the *)
(* message at hand; a trim that is queued will start it again                  *)

Fits(b, q, l, F) ==
    /\ F <= 2 * Limit
    /\ TrimsAt(q) = {} => F <= Limit + Len(b) - 1
    /\ \A i \in MessagesAt(q) : TrimsAt(q) = {} => F + l - q[i].line + 1 <= Limit + Len(b) - 1
    /\ \A i, j \in MessagesAt(q) :
          i <= j /\ (\A k \in TrimsAt(q) : k > j) => F + q[j].line - q[i].line + 1 <= 2 * Limit

\* Every queued line is a number between o and l.
LEMMA LinesAre ==
    ASSUME NEW b, NEW q, NEW l, NEW o, NEW c, Good(b, q, l, o, c)
    PROVE  /\ l \in Nat /\ o \in Nat \ {0} /\ Len(b) \in Nat \ {0} /\ Len(q) \in Nat
           /\ \A i \in MessagesAt(q) : /\ i \in 1..Len(q) /\ q[i].what = "LOG_MESSAGE"
                                       /\ q[i].line \in Nat /\ o < q[i].line /\ q[i].line <= l
           /\ \A i \in TrimsAt(q) : i \in 1..Len(q) /\ q[i].what = "TRIM_LOG_FILE"
  <1>1. IsQueue(b) /\ IsQueue(q) /\ l \in Nat /\ o \in Nat \ {0} /\ InOrder(b, l, o) /\ Posted(q, l, o)
    BY DEF Good
  <1>2. Len(b) \in Nat /\ Len(q) \in Nat
    BY <1>1, Longer
  <1>3. Len(b) # 0
    BY <1>2, <1>1 DEF InOrder
  <1> QED
    BY <1>1, <1>2, <1>3 DEF Posted, MessagesAt, TrimsAt, At

LEMMA FitsLess ==
    ASSUME NEW b, NEW q, NEW l, NEW o, NEW c, Good(b, q, l, o, c),
           NEW F \in Nat, Fits(b, q, l, F), NEW G \in Nat, G <= F
    PROVE  Fits(b, q, l, G)
  <1>1. Limit \in Nat
    BY LimitIs
  <1>2. G <= 2 * Limit /\ (TrimsAt(q) = {} => G <= Limit + Len(b) - 1)
    BY <1>1, LinesAre DEF Fits
  <1>3. ASSUME NEW i \in MessagesAt(q), TrimsAt(q) = {}
        PROVE  G + l - q[i].line + 1 <= Limit + Len(b) - 1
    <2>1. F + l - q[i].line + 1 <= Limit + Len(b) - 1
      BY <1>3 DEF Fits
    <2> QED
      BY <1>1, <2>1, LinesAre
  <1>4. ASSUME NEW i \in MessagesAt(q), NEW j \in MessagesAt(q), i <= j,
               \A k \in TrimsAt(q) : k > j
        PROVE  G + q[j].line - q[i].line + 1 <= 2 * Limit
    <2>1. F + q[j].line - q[i].line + 1 <= 2 * Limit
      BY <1>4 DEF Fits
    <2> QED
      BY <1>1, <2>1, LinesAre
  <1> QED
    BY <1>2, <1>3, <1>4 DEF Fits

\* The whole buffer is written to an empty file.
LEMMA FitsBuffer ==
    ASSUME NEW b, NEW q, NEW l, NEW o, Good(b, q, l, o, Limit)
    PROVE  Fits(b, q, l, Len(b))
  <1>1. Limit \in Nat \ {0}
    BY LimitIs
  <1>2. Len(b) <= Limit /\ Recent(b, q, l) /\ Runs(q)
    BY DEF Good
  <1>3. Len(b) <= 2 * Limit /\ Len(b) <= Limit + Len(b) - 1
    BY <1>1, <1>2, LinesAre
  <1>4. ASSUME NEW i \in MessagesAt(q), TrimsAt(q) = {}
        PROVE  Len(b) + l - q[i].line + 1 <= Limit + Len(b) - 1
    <2>1. q[i].line > l - Len(b) + 1
      BY <1>2, <1>4 DEF Recent
    <2> QED
      BY <1>1, <1>2, <2>1, LinesAre
  <1>5. ASSUME NEW i \in MessagesAt(q), NEW j \in MessagesAt(q), i <= j,
               \A k \in TrimsAt(q) : k > j
        PROVE  Len(b) + q[j].line - q[i].line + 1 <= 2 * Limit
    <2>1. q[j].line - q[i].line + 1 <= Limit
      BY <1>2, <1>5 DEF Runs
    <2> QED
      BY <1>1, <1>2, <2>1, LinesAre
  <1> QED
    BY <1>3, <1>4, <1>5 DEF Fits

\* A line is logged, ...
LEMMA FitsLonger ==
    ASSUME NEW b, NEW q, NEW l, NEW o, Good(b, q, l, o, Limit),
           NEW F \in Nat, Fits(b, q, l, F)
    PROVE  Fits(Append(b, l + 1), Append(q, LogMessage(l + 1)), l + 1, F)
  <1> DEFINE x == LogMessage(l + 1)
             b1 == Append(b, l + 1)
             q1 == Append(q, x)
             n == Len(b)
             m == Len(q)
  <1>1. x.what = "LOG_MESSAGE" /\ x.line = l + 1
    BY MessageIs
  <1> HIDE DEF x
  <1>2. Len(b1) = n + 1 /\ q1[m + 1] = x /\ \A i \in 1..m : q1[i] = q[i]
    <2>1. IsQueue(b) /\ IsQueue(q)
      BY DEF Good
    <2> QED
      BY <2>1, Longer
  <1>3. At(q1, "LOG_MESSAGE") = At(q, "LOG_MESSAGE") \cup {m + 1}
    BY <1>1, AtLonger DEF Good
  <1>4. At(q1, "TRIM_LOG_FILE") = At(q, "TRIM_LOG_FILE")
    BY <1>1, AtLonger DEF Good
  <1>5. /\ l \in Nat /\ n \in Nat \ {0} /\ m \in Nat
        /\ \A i \in MessagesAt(q) : i \in 1..m /\ q[i].line \in Nat /\ q[i].line <= l
        /\ \A i \in TrimsAt(q) : i \in 1..m
    BY LinesAre
  <1>6. Limit \in Nat /\ n <= Limit
    BY LimitIs DEF Good
  <1>7. MessagesAt(q1) = MessagesAt(q) \cup {m + 1} /\ TrimsAt(q1) = TrimsAt(q)
    BY <1>3, <1>4 DEF MessagesAt, TrimsAt
  <1>8. F <= 2 * Limit /\ (TrimsAt(q) = {} => F <= Limit + n - 1)
    BY DEF Fits
  <1> HIDE DEF b1, q1, n, m
  <1>9. TrimsAt(q1) = {} => F <= Limit + Len(b1) - 1
    BY <1>2, <1>5, <1>6, <1>7, <1>8
  <1>10. ASSUME NEW i \in MessagesAt(q1), TrimsAt(q1) = {}
         PROVE  F + (l + 1) - q1[i].line + 1 <= Limit + Len(b1) - 1
    <2>1. CASE i = m + 1
      <3>1. q1[i].line = l + 1
        BY <1>1, <1>2, <2>1
      <3> QED
        BY <1>2, <1>5, <1>6, <1>7, <1>8, <1>10, <3>1
    <2>2. CASE i \in MessagesAt(q)
      <3>1. F + l - q[i].line + 1 <= Limit + n - 1
        BY <1>7, <1>10, <2>2 DEF Fits, n
      <3>2. q1[i].line = q[i].line /\ q[i].line \in Nat
        BY <1>2, <1>5, <2>2
      <3> QED
        BY <1>2, <1>5, <1>6, <3>1, <3>2
    <2> QED
      BY <1>7, <2>1, <2>2
  <1>11. ASSUME NEW i \in MessagesAt(q1), NEW j \in MessagesAt(q1), i <= j,
                \A k \in TrimsAt(q1) : k > j
         PROVE  F + q1[j].line - q1[i].line + 1 <= 2 * Limit
    <2>1. CASE j \in MessagesAt(q)
      <3>1. i \in MessagesAt(q)
        BY <1>5, <1>7, <1>11, <2>1
      <3>2. F + q[j].line - q[i].line + 1 <= 2 * Limit
        BY <1>7, <1>11, <2>1, <3>1 DEF Fits
      <3>3. q1[i] = q[i] /\ q1[j] = q[j]
        BY <1>2, <1>5, <2>1, <3>1
      <3> QED
        BY <3>2, <3>3
    <2>2. CASE j = m + 1
      <3>1. TrimsAt(q) = {}
        <4>1. \A k \in TrimsAt(q) : k > m + 1 /\ k <= m /\ k \in Nat /\ m \in Nat
          BY <1>5, <1>7, <1>11, <2>2
        <4>2. \A k \in TrimsAt(q) : FALSE
          BY <4>1
        <4> QED
          BY <4>2
      <3>2. q1[j].line = l + 1
        BY <1>1, <1>2, <2>2
      <3>3. CASE i = m + 1
        <4>1. q1[i].line = l + 1
          BY <1>1, <1>2, <3>3
        <4> QED
          BY <1>5, <1>6, <1>8, <3>1, <3>2, <4>1
      <3>4. CASE i \in MessagesAt(q)
        <4>1. F + l - q[i].line + 1 <= Limit + n - 1
          BY <3>1, <3>4 DEF Fits, n
        <4>2. q1[i].line = q[i].line /\ q[i].line \in Nat
          BY <1>2, <1>5, <3>4
        <4> QED
          BY <1>5, <1>6, <3>2, <4>1, <4>2
      <3> QED
        BY <1>7, <3>3, <3>4
    <2> QED
      BY <1>7, <2>1, <2>2
  <1> QED
    BY <1>8, <1>9, <1>10, <1>11 DEF Fits, b1, q1, x

\* ... or another message is sent.
LEMMA FitsOther ==
    ASSUME NEW b, NEW q, NEW l, NEW o, NEW c, Good(b, q, l, o, c), NEW F, Fits(b, q, l, F),
           NEW x, x.what # "LOG_MESSAGE", NEW a, a = b \/ x.what = "TRIM_LOG_FILE"
    PROVE  Fits(a, Append(q, x), l, F)
  <1> DEFINE r == Append(q, x)
             m == Len(q)
  <1>1. \A i \in 1..m : r[i] = q[i]
    <2>1. IsQueue(q)
      BY DEF Good
    <2> QED
      BY <2>1, Longer
  <1>2. At(r, "LOG_MESSAGE") = At(q, "LOG_MESSAGE")
    BY AtLonger DEF Good
  <1>3. \A i \in MessagesAt(q) : i \in 1..m
    BY LinesAre
  <1>4. /\ At(q, "TRIM_LOG_FILE") \subseteq At(r, "TRIM_LOG_FILE")
        /\ x.what = "TRIM_LOG_FILE" => m + 1 \in At(r, "TRIM_LOG_FILE")
    BY AtLonger DEF Good
  <1> HIDE DEF r, m
  <1>5. MessagesAt(r) = MessagesAt(q) /\ \A i \in MessagesAt(q) : r[i] = q[i]
    BY <1>1, <1>2, <1>3 DEF MessagesAt
  <1>6. TrimsAt(q) \subseteq TrimsAt(r) /\ (TrimsAt(r) = {} => a = b)
    BY <1>4 DEF TrimsAt
  <1>7. F <= 2 * Limit /\ (TrimsAt(r) = {} => F <= Limit + Len(a) - 1)
    BY <1>6 DEF Fits
  <1>8. ASSUME NEW i \in MessagesAt(r), TrimsAt(r) = {}
        PROVE  F + l - r[i].line + 1 <= Limit + Len(a) - 1
    <2>1. F + l - q[i].line + 1 <= Limit + Len(b) - 1
      BY <1>5, <1>6, <1>8 DEF Fits
    <2> QED
      BY <1>5, <1>6, <1>8, <2>1
  <1>9. ASSUME NEW i \in MessagesAt(r), NEW j \in MessagesAt(r), i <= j,
               \A k \in TrimsAt(r) : k > j
        PROVE  F + r[j].line - r[i].line + 1 <= 2 * Limit
    <2>1. F + q[j].line - q[i].line + 1 <= 2 * Limit
      BY <1>5, <1>6, <1>9 DEF Fits
    <2> QED
      BY <1>5, <2>1
  <1> QED
    BY <1>7, <1>8, <1>9 DEF Fits, r

\* The handler takes a line, which it will write, ...
LEMMA FitsTaken ==
    ASSUME NEW b, NEW q, NEW l, NEW o, NEW c, Good(b, q, l, o, c),
           NEW F \in Nat, Fits(b, q, l, F), q # <<>>, q[1].what = "LOG_MESSAGE"
    PROVE  Fits(b, Tail(q), l, F + 1)
  <1> DEFINE r == Tail(q)
  <1>1. \A i \in At(r, "LOG_MESSAGE") :
            i \in Nat \ {0} /\ i + 1 \in At(q, "LOG_MESSAGE") /\ r[i] = q[i + 1]
    BY AtShorter DEF Good
  <1>2. \A k \in At(q, "TRIM_LOG_FILE") : k \in Nat \ {0} /\ (k = 1 \/ k - 1 \in At(r, "TRIM_LOG_FILE"))
    BY AtShorter DEF Good
  <1>3. 1 \in At(q, "LOG_MESSAGE")
    BY AtShorter DEF Good
  <1>4. /\ l \in Nat /\ Len(b) \in Nat
        /\ \A i \in MessagesAt(q) : q[i].line \in Nat /\ q[i].line <= l
        /\ \A k \in TrimsAt(q) : q[k].what = "TRIM_LOG_FILE"
    BY LinesAre
  <1>5. \A i, j \in MessagesAt(q) : i < j => q[i].line < q[j].line
    BY DEF Good, Posted
  <1>6. Limit \in Nat
    BY LimitIs
  <1> HIDE DEF r
  <1>7. \A k \in TrimsAt(q) : k \in Nat /\ k > 1 /\ k - 1 \in TrimsAt(r)
    <2>1. \A k \in TrimsAt(q) : k # 1
      BY <1>4
    <2> QED
      BY <1>2, <2>1 DEF TrimsAt
  <1>8. 1 \in MessagesAt(q)
    BY <1>3 DEF MessagesAt
  <1>9. \A i \in MessagesAt(r) :
            i \in Nat \ {0} /\ i + 1 \in MessagesAt(q) /\ r[i] = q[i + 1]
    BY <1>1 DEF MessagesAt
  <1>10. F + q[1].line - q[1].line + 1 <= 2 * Limit
    BY <1>7, <1>8 DEF Fits
  <1>11. F + 1 <= 2 * Limit
    BY <1>4, <1>8, <1>10
  <1>12. TrimsAt(r) = {} => TrimsAt(q) = {}
    BY <1>7
  <1>13. TrimsAt(r) = {} => F + l - q[1].line + 1 <= Limit + Len(b) - 1
    BY <1>8, <1>12 DEF Fits
  <1>14. TrimsAt(r) = {} => F + 1 <= Limit + Len(b) - 1
    BY <1>4, <1>6, <1>8, <1>13
  <1>15. ASSUME NEW i \in MessagesAt(r)
         PROVE  r[i].line \in Nat /\ r[i].line <= l /\ q[1].line \in Nat /\ q[1].line < r[i].line
    <2>1. i + 1 > 1 /\ i + 1 \in MessagesAt(q) /\ r[i] = q[i + 1]
      BY <1>9
    <2> QED
      BY <1>4, <1>5, <1>8, <2>1
  <1>16. ASSUME NEW i \in MessagesAt(r), TrimsAt(r) = {}
         PROVE  (F + 1) + l - r[i].line + 1 <= Limit + Len(b) - 1
    <2>1. r[i].line \in Nat /\ q[1].line \in Nat /\ q[1].line + 1 <= r[i].line
      BY <1>15
    <2>2. F + l - q[1].line + 1 <= Limit + Len(b) - 1
      BY <1>13, <1>16
    <2>3. ASSUME NEW x \in Nat, NEW y \in Nat, NEW m \in Int, x + 1 <= y, F + l - x + 1 <= m
          PROVE  (F + 1) + l - y + 1 <= m
      BY <1>4, <2>3
    <2>4. Limit + Len(b) - 1 \in Int
      BY <1>4, <1>6
    <2> QED
      BY <2>1, <2>2, <2>3, <2>4
  <1>17. ASSUME NEW i \in MessagesAt(r), NEW j \in MessagesAt(r), i <= j,
                \A k \in TrimsAt(r) : k > j
         PROVE  (F + 1) + r[j].line - r[i].line + 1 <= 2 * Limit
    <2>1. j + 1 \in MessagesAt(q) /\ r[j] = q[j + 1] /\ 1 <= j + 1 /\ j \in Nat
      BY <1>9
    <2>2. \A k \in TrimsAt(q) : k > j + 1
      BY <1>7, <1>17, <2>1
    <2>3. F + q[j + 1].line - q[1].line + 1 <= 2 * Limit
      BY <1>8, <2>1, <2>2 DEF Fits
    <2>4. F + r[j].line - q[1].line + 1 <= 2 * Limit
      BY <2>1, <2>3
    <2> QED
      BY <1>6, <1>15, <2>4
  <1> QED
    BY <1>11, <1>14, <1>16, <1>17 DEF Fits, r

\* ... or something else, but not a trim.
LEMMA FitsShorter ==
    ASSUME NEW b, NEW q, NEW l, NEW o, NEW c, Good(b, q, l, o, c),
           NEW F \in Nat, Fits(b, q, l, F), q # <<>>, q[1].what # "TRIM_LOG_FILE"
    PROVE  Fits(b, Tail(q), l, F)
  <1> DEFINE r == Tail(q)
  <1>1. \A i \in At(r, "LOG_MESSAGE") :
            i \in Nat \ {0} /\ i + 1 \in At(q, "LOG_MESSAGE") /\ r[i] = q[i + 1]
    BY AtShorter DEF Good
  <1>2. \A k \in At(q, "TRIM_LOG_FILE") : k \in Nat \ {0} /\ (k = 1 \/ k - 1 \in At(r, "TRIM_LOG_FILE"))
    BY AtShorter DEF Good
  <1>3. \A k \in TrimsAt(q) : q[k].what = "TRIM_LOG_FILE"
    BY LinesAre
  <1> HIDE DEF r
  <1>4. \A k \in TrimsAt(q) : k \in Nat /\ k - 1 \in TrimsAt(r)
    <2>1. \A k \in TrimsAt(q) : k # 1
      BY <1>3
    <2> QED
      BY <1>2, <2>1 DEF TrimsAt
  <1>5. \A i \in MessagesAt(r) :
            i \in Nat \ {0} /\ i + 1 \in MessagesAt(q) /\ r[i] = q[i + 1]
    BY <1>1 DEF MessagesAt
  <1>6. TrimsAt(r) = {} => TrimsAt(q) = {}
    BY <1>4
  <1>7. F <= 2 * Limit /\ (TrimsAt(r) = {} => F <= Limit + Len(b) - 1)
    BY <1>6 DEF Fits
  <1>8. ASSUME NEW i \in MessagesAt(r), TrimsAt(r) = {}
        PROVE  F + l - r[i].line + 1 <= Limit + Len(b) - 1
    BY <1>5, <1>6, <1>8 DEF Fits
  <1>9. ASSUME NEW i \in MessagesAt(r), NEW j \in MessagesAt(r), i <= j,
               \A k \in TrimsAt(r) : k > j
        PROVE  F + r[j].line - r[i].line + 1 <= 2 * Limit
    <2>1. i + 1 \in MessagesAt(q) /\ j + 1 \in MessagesAt(q) /\ i + 1 <= j + 1 /\ j \in Nat
      BY <1>5, <1>9
    <2>2. \A k \in TrimsAt(q) : k > j + 1
      BY <1>4, <1>9, <2>1
    <2>3. F + q[j + 1].line - q[i + 1].line + 1 <= 2 * Limit
      BY <2>1, <2>2 DEF Fits
    <2> QED
      BY <1>5, <2>3
  <1> QED
    BY <1>7, <1>8, <1>9 DEF Fits, r
------------------------------------------------------------------------------
(* What logging does to the memory: b and q become c and r                    *)

IsPosted(q, n) == \E i \in 1..Len(q) : q[i] = LogMessage(n)

\* A message that was sent when l lines were logged.
Sent(x, l) ==
    \/ x.what = "LOG_MESSAGE" /\ x.line \in Nat /\ x.line > l
    \/ x.what \in {"TRIM_LOG_FILE", "FLUSH_TO_DISK"}

Follows(b, q, l, c, r, l2) ==
    /\ l \in Nat /\ l2 \in Nat /\ l <= l2
    /\ Len(b) \in Nat /\ Len(c) \in Nat /\ Len(q) \in Nat /\ Len(r) \in Nat
    /\ Len(q) <= Len(r) /\ (r # <<>> \/ q = r)
    /\ \A i \in 1..Len(q) : r[i] = q[i]
    /\ \A i \in (Len(q) + 1)..Len(r) : Sent(r[i], l)
    /\ \A n \in Elements(c) : n \in Elements(b) \/ (n \in (l + 1)..l2 /\ IsPosted(r, n))
    /\ TrimsAt(r) = {} => Elements(b) \subseteq Elements(c) /\ Len(b) <= Len(c)
    /\ \A F \in Nat : Fits(b, q, l, F) => Fits(c, r, l2, F)

\* What was sent is still there, and so is a trim.
LEMMA StillThere ==
    ASSUME NEW b, NEW q, NEW l, NEW c, NEW r, NEW l2, Follows(b, q, l, c, r, l2)
    PROVE  /\ \A n : IsPosted(q, n) => IsPosted(r, n)
           /\ TrimsAt(q) \subseteq TrimsAt(r) /\ MessagesAt(q) \subseteq MessagesAt(r)
  <1>1. \A i \in 1..Len(q) : i \in 1..Len(r) /\ r[i] = q[i]
    BY DEF Follows
  <1> QED
    BY <1>1 DEF IsPosted, TrimsAt, MessagesAt, At

LEMMA FollowsTwice ==
    ASSUME NEW b, NEW q, NEW l, NEW c, NEW r, NEW l2, NEW d, NEW s, NEW l3,
           Follows(b, q, l, c, r, l2), Follows(c, r, l2, d, s, l3)
    PROVE  Follows(b, q, l, d, s, l3)
  <1>1. /\ l \in Nat /\ l2 \in Nat /\ l3 \in Nat /\ l <= l2 /\ l2 <= l3
        /\ Len(b) \in Nat /\ Len(c) \in Nat /\ Len(d) \in Nat
        /\ Len(q) \in Nat /\ Len(r) \in Nat /\ Len(s) \in Nat
        /\ Len(q) <= Len(r) /\ Len(r) <= Len(s)
    BY DEF Follows
  <1>2. \A i \in 1..Len(q) : i \in 1..Len(r) /\ s[i] = q[i]
    BY <1>1 DEF Follows
  <1>3. \A i \in (Len(q) + 1)..Len(s) : Sent(s[i], l)
    <2> TAKE i \in (Len(q) + 1)..Len(s)
    <2>1. CASE i \in 1..Len(r)
      <3>1. Sent(r[i], l) /\ s[i] = r[i]
        BY <1>1, <2>1 DEF Follows
      <3> QED
        BY <3>1
    <2>2. CASE i \notin 1..Len(r)
      <3>1. Sent(s[i], l2)
        BY <1>1, <2>2 DEF Follows
      <3> QED
        BY <1>1, <3>1 DEF Sent
    <2> QED
      BY <2>1, <2>2
  <1>4. \A n \in Elements(d) : n \in Elements(b) \/ (n \in (l + 1)..l3 /\ IsPosted(s, n))
    <2> TAKE n \in Elements(d)
    <2>1. CASE n \in Elements(c)
      <3>1. n \in Elements(b) \/ (n \in (l + 1)..l2 /\ IsPosted(r, n))
        BY <2>1 DEF Follows
      <3>2. IsPosted(r, n) => IsPosted(s, n)
        BY StillThere
      <3> QED
        BY <1>1, <3>1, <3>2
    <2>2. CASE n \notin Elements(c)
      <3>1. n \in (l2 + 1)..l3 /\ IsPosted(s, n)
        BY <2>2 DEF Follows
      <3> QED
        BY <1>1, <3>1
    <2> QED
      BY <2>1, <2>2
  <1>5. TrimsAt(s) = {} => Elements(b) \subseteq Elements(d) /\ Len(b) <= Len(d)
    <2> SUFFICES ASSUME TrimsAt(s) = {}
                 PROVE  Elements(b) \subseteq Elements(d) /\ Len(b) <= Len(d)
      OBVIOUS
    <2>1. TrimsAt(r) = {}
      BY StillThere
    <2>2. Elements(c) \subseteq Elements(d) /\ Len(c) <= Len(d)
      BY DEF Follows
    <2>3. Elements(b) \subseteq Elements(c) /\ Len(b) <= Len(c)
      BY <2>1 DEF Follows
    <2> QED
      BY <1>1, <2>2, <2>3
  <1>6. \A F \in Nat : Fits(b, q, l, F) => Fits(d, s, l3, F)
    BY DEF Follows
  <1>7. s # <<>> \/ q = s
    BY DEF Follows
  <1> QED
    BY <1>1, <1>2, <1>3, <1>4, <1>5, <1>6, <1>7 DEF Follows

\* Nothing is logged, ...
LEMMA FollowsItself ==
    ASSUME NEW b, NEW q, NEW l, NEW o, NEW c, Good(b, q, l, o, c)
    PROVE  Follows(b, q, l, b, q, l)
  BY LinesAre DEF Follows

\* ... a line is, without a trim, ...
LEMMA FollowsLonger ==
    ASSUME NEW b, NEW q, NEW l, NEW o, Good(b, q, l, o, Limit)
    PROVE  Follows(b, q, l, Append(b, l + 1), Append(q, LogMessage(l + 1)), l + 1)
  <1> DEFINE x == LogMessage(l + 1)
             c == Append(b, l + 1)
             r == Append(q, x)
  <1>1. x.what = "LOG_MESSAGE" /\ x.line = l + 1
    BY MessageIs
  <1>2. \A F \in Nat : Fits(b, q, l, F) => Fits(c, r, l + 1, F)
    BY FitsLonger
  <1> HIDE DEF x
  <1>3. l \in Nat /\ Len(b) \in Nat /\ Len(q) \in Nat
    BY LinesAre
  <1>4. Len(c) = Len(b) + 1 /\ Elements(c) = Elements(b) \cup {l + 1}
    <2>1. IsQueue(b)
      BY DEF Good
    <2> QED
      BY <2>1, Longer
  <1>5. Len(r) = Len(q) + 1 /\ r[Len(q) + 1] = x /\ r # <<>> /\ \A i \in 1..Len(q) : r[i] = q[i]
    <2>1. IsQueue(q)
      BY DEF Good
    <2> QED
      BY <2>1, Longer
  <1> HIDE DEF c, r
  <1>6. \A i \in (Len(q) + 1)..Len(r) : Sent(r[i], l)
    <2> TAKE i \in (Len(q) + 1)..Len(r)
    <2>1. i = Len(q) + 1
      BY <1>3, <1>5
    <2>2. r[i].what = "LOG_MESSAGE" /\ r[i].line = l + 1
      BY <1>1, <1>5, <2>1
    <2> QED
      BY <1>3, <2>2 DEF Sent
  <1>7. IsPosted(r, l + 1)
    <2>1. Len(q) + 1 \in 1..Len(r) /\ r[Len(q) + 1] = LogMessage(l + 1)
      BY <1>3, <1>5 DEF x
    <2> QED
      BY <2>1 DEF IsPosted
  <1>8. \A n \in Elements(c) : n \in Elements(b) \/ (n \in (l + 1)..(l + 1) /\ IsPosted(r, n))
    BY <1>3, <1>4, <1>7
  <1>9. /\ l + 1 \in Nat /\ l <= l + 1 /\ Len(c) \in Nat /\ Len(r) \in Nat /\ Len(q) <= Len(r)
        /\ Elements(b) \subseteq Elements(c) /\ Len(b) <= Len(c)
    BY <1>3, <1>4, <1>5
  <1>10. Follows(b, q, l, c, r, l + 1)
    BY <1>2, <1>3, <1>5, <1>6, <1>8, <1>9 DEF Follows
  <1> QED
    BY <1>10 DEF c, r, x

\* ... or another message is sent, a trim when the buffer was cut.
LEMMA FollowsOther ==
    ASSUME NEW b, NEW q, NEW l, NEW o, NEW c, Good(b, q, l, o, c),
           NEW x, x.what \in {"TRIM_LOG_FILE", "FLUSH_TO_DISK"},
           NEW a, Len(a) \in Nat, Elements(a) \subseteq Elements(b),
           a = b \/ x.what = "TRIM_LOG_FILE"
    PROVE  Follows(b, q, l, a, Append(q, x), l)
  <1> DEFINE r == Append(q, x)
  <1>1. \A F \in Nat : Fits(b, q, l, F) => Fits(a, r, l, F)
    BY FitsOther
  <1>2. l \in Nat /\ Len(b) \in Nat /\ Len(q) \in Nat
    BY LinesAre
  <1>3. Len(r) = Len(q) + 1 /\ r[Len(q) + 1] = x /\ r # <<>> /\ \A i \in 1..Len(q) : r[i] = q[i]
    <2>1. IsQueue(q)
      BY DEF Good
    <2> QED
      BY <2>1, Longer
  <1>4. x.what = "TRIM_LOG_FILE" => Len(q) + 1 \in At(r, "TRIM_LOG_FILE")
    BY AtLonger DEF Good
  <1> HIDE DEF r
  <1>5. \A i \in (Len(q) + 1)..Len(r) : Sent(r[i], l)
    <2> TAKE i \in (Len(q) + 1)..Len(r)
    <2>1. i = Len(q) + 1
      BY <1>2, <1>3
    <2> QED
      BY <1>3, <2>1 DEF Sent
  <1>6. TrimsAt(r) = {} => a = b
    BY <1>4 DEF TrimsAt
  <1>7. TrimsAt(r) = {} => Elements(b) \subseteq Elements(a) /\ Len(b) <= Len(a)
    BY <1>2, <1>6
  <1>8. \A n \in Elements(a) : n \in Elements(b)
    OBVIOUS
  <1>9. l <= l /\ Len(r) \in Nat /\ Len(q) <= Len(r)
    BY <1>2, <1>3
  <1>10. Follows(b, q, l, a, r, l)
    BY <1>1, <1>2, <1>3, <1>5, <1>7, <1>8, <1>9 DEF Follows
  <1> QED
    BY <1>10 DEF r

\* newLogItem() trims a buffer that has grown too long.
LEMMA TrimmedIs ==
    ASSUME NEW b, NEW q, NEW l, NEW o, Good(b, q, l, o, Limit + 1)
    PROVE  LET m == Trimmed([buffer |-> b, queue |-> q])
           IN  /\ Good(m.buffer, m.queue, l, o, Limit)
               /\ Follows(b, q, l, m.buffer, m.queue, l)
  <1> DEFINE m == Trimmed([buffer |-> b, queue |-> q])
             x == Message("TRIM_LOG_FILE")
             a == LastOf(b, MAXLOGENTRIES)
  <1>1. /\ Limit \in Nat /\ MAXLOGENTRIES \in Nat \ {0} /\ MAXLOGENTRIES <= Limit
    BY LimitIs
  <1>2. Len(b) \in Nat /\ IsQueue(b)
    BY LinesAre DEF Good
  <1>3. CASE Len(b) > Limit
    <2>1. m.buffer = a /\ m.queue = Append(q, x)
      BY <1>3 DEF Trimmed, LastOf
    <2>2. MAXLOGENTRIES \in 1..Len(b) /\ MAXLOGENTRIES \in Nat /\ MAXLOGENTRIES <= Len(b)
      BY <1>1, <1>2, <1>3
    <2>3. Good(a, Append(q, x), l, o, MAXLOGENTRIES)
      BY <2>2, GoodCut
    <2>4. Good(a, Append(q, x), l, o, Limit)
      <3> HIDE DEF a, x
      <3>1. Len(a) \in Nat /\ Len(a) <= MAXLOGENTRIES
        BY <2>3, LinesAre DEF Good
      <3>2. Len(a) <= Limit
        BY <1>1, <3>1
      <3> QED
        BY <2>3, <3>2 DEF Good
    <2>5. Len(a) \in Nat /\ Elements(a) \subseteq Elements(b)
      BY <1>2, <2>2, Cut
    <2>6. x.what = "TRIM_LOG_FILE"
      BY MessageIs
    <2> HIDE DEF a, x, m
    <2>7. Follows(b, q, l, a, Append(q, x), l)
      BY <2>5, <2>6, FollowsOther
    <2> QED
      BY <2>1, <2>4, <2>7 DEF m
  <1>4. CASE ~(Len(b) > Limit)
    <2>1. m.buffer = b /\ m.queue = q
      BY <1>4 DEF Trimmed
    <2>2. Good(b, q, l, o, Limit)
      <3>1. Len(b) <= Limit
        BY <1>1, <1>2, <1>4
      <3> QED
        BY <3>1 DEF Good
    <2>3. Follows(b, q, l, b, q, l)
      BY FollowsItself
    <2> HIDE DEF m
    <2> QED
      BY <2>1, <2>2, <2>3 DEF m
  <1> QED
    BY <1>3, <1>4

\* newLogItem(logItem, false).
LEMMA NewLineIs ==
    ASSUME NEW b, NEW q, NEW l, NEW o, Good(b, q, l, o, Limit), o <= l
    PROVE  LET m == NewLine([buffer |-> b, queue |-> q], l + 1)
           IN  /\ m = [buffer |-> m.buffer, queue |-> m.queue]
               /\ Good(m.buffer, m.queue, l + 1, o, Limit)
               /\ Follows(b, q, l, m.buffer, m.queue, l + 1)
  <1> DEFINE m == NewLine([buffer |-> b, queue |-> q], l + 1)
             c == Append(b, l + 1)
             r == Append(q, LogMessage(l + 1))
  <1>1. Good(c, r, l + 1, o, Limit + 1)
    BY GoodLonger
  <1>2. Follows(b, q, l, c, r, l + 1)
    BY FollowsLonger
  <1>3. m = Trimmed([buffer |-> c, queue |-> r])
    BY DEF NewLine
  <1> HIDE DEF m, c, r
  <1>4. Good(m.buffer, m.queue, l + 1, o, Limit) /\ Follows(c, r, l + 1, m.buffer, m.queue, l + 1)
    BY <1>1, <1>3, TrimmedIs
  <1>5. Follows(b, q, l, m.buffer, m.queue, l + 1)
    BY <1>2, <1>4, FollowsTwice
  <1>6. m = [buffer |-> m.buffer, queue |-> m.queue]
    BY <1>3 DEF Trimmed
  <1> QED
    BY <1>4, <1>5, <1>6 DEF m

\* The handler logs up to two lines.
LEMMA LogsItselfIs ==
    ASSUME NEW b, NEW q, Good(b, q, lines, born, Limit), born <= lines, NEW k \in 0..2,
           LogsItself([buffer |-> b, queue |-> q], k)
    PROVE  /\ lines' = lines + k /\ Good(logbuffer', queue', lines', born, Limit)
           /\ Follows(b, q, lines, logbuffer', queue', lines')
  <1> DEFINE m0 == [buffer |-> b, queue |-> q]
             m1 == NewLine(m0, lines + 1)
             m2 == NewLine(m1, lines + 2)
  <1>1. lines \in Nat /\ born \in Nat
    BY LinesAre
  <1>2. lines' = lines + k
    BY DEF LogsItself
  <1>3. m0.buffer = b /\ m0.queue = q
    OBVIOUS
  <1>4. /\ m1 = [buffer |-> m1.buffer, queue |-> m1.queue]
        /\ Good(m1.buffer, m1.queue, lines + 1, born, Limit)
        /\ Follows(b, q, lines, m1.buffer, m1.queue, lines + 1)
    BY NewLineIs
  <1> HIDE DEF m1
  <1>5. /\ Good(m2.buffer, m2.queue, lines + 2, born, Limit)
        /\ Follows(m1.buffer, m1.queue, lines + 1, m2.buffer, m2.queue, lines + 2)
    <2> DEFINE c == m1.buffer
               r == m1.queue
               l == lines + 1
    <2>1. Good(c, r, l, born, Limit) /\ born <= l
      BY <1>1, <1>4
    <2>2. m1 = [buffer |-> c, queue |-> r] /\ l + 1 = lines + 2
      BY <1>1, <1>4
    <2> HIDE DEF c, r, l
    <2>3. LET m == NewLine([buffer |-> c, queue |-> r], l + 1)
          IN  /\ Good(m.buffer, m.queue, l + 1, born, Limit)
              /\ Follows(c, r, l, m.buffer, m.queue, l + 1)
      BY <2>1, NewLineIs
    <2> QED
      BY <2>2, <2>3 DEF c, r, l
  <1>6. Follows(b, q, lines, m2.buffer, m2.queue, lines + 2)
    BY <1>4, <1>5, FollowsTwice
  <1>7. Follows(b, q, lines, b, q, lines)
    BY FollowsItself
  <1> DEFINE m == CASE k = 0 -> m0 [] k = 1 -> m1 [] k = 2 -> m2
  <1>8. logbuffer' = m.buffer /\ queue' = m.queue
    BY DEF LogsItself, Become, m1
  <1> HIDE DEF m2
  <1>9. CASE k = 0
    <2>1. m = m0
      BY <1>9
    <2>2. logbuffer' = b /\ queue' = q /\ lines' = lines
      BY <1>1, <1>2, <1>3, <1>8, <1>9, <2>1
    <2> QED
      BY <1>2, <1>7, <2>2
  <1>10. CASE k = 1
    <2>1. m = m1
      BY <1>10
    <2> QED
      BY <1>2, <1>4, <1>8, <1>10, <2>1
  <1>11. CASE k = 2
    <2>1. m = m2
      BY <1>11
    <2> QED
      BY <1>2, <1>5, <1>6, <1>8, <1>11, <2>1
  <1> QED
    BY <1>9, <1>10, <1>11
------------------------------------------------------------------------------
(* Where things are: what the handler is at, the file and the queue            *)

LinesTo(l) == 1..l \cup {Garbage}
Record == [line : Int \cup {Garbage}, whole : BOOLEAN]

HandlerShape ==
    /\ mode \in Modes /\ read \in Nat /\ itemsRead \in Nat
    /\ mode \in {"reading", "opening"} => alive /\ ~opened
    /\ mode \in {"snapshot", "writing", "record"} => opened
    /\ opened => alive /\ file # None
    /\ mode = "reading" => file # None /\ read <= Len(file)
    /\ IsQueue(todo) /\ (todo # <<>> <=> mode \in {"writing", "record"})

FileShape ==
    /\ lines \in Nat /\ cleared \in Nat /\ cleared <= lines /\ born \in Nat \ {0}
    /\ alive => born <= lines
    /\ Elements(logbuffer) \subseteq LinesTo(lines) /\ Elements(todo) \subseteq LinesTo(lines)
    /\ file # None => file \in Seq(Record) /\ \A i \in 1..Len(file) : file[i].line \in LinesTo(lines)
    /\ file # None /\ alive /\ ~opened => \A i \in 1..Len(file) : file[i].line \in LinesTo(born - 1)
    /\ mode = "record" =>
          Len(file) > 0 /\ ~file[Len(file)].whole /\ file[Len(file)].line = todo[1]

QueueShape ==
    /\ ~alive => queue = <<>> /\ logbuffer = <<>> /\ mode = "idle" /\ ~opened
    /\ alive => Good(logbuffer, queue, lines, born, Limit)
    /\ \A i \in 1..Len(queue) : queue[i].what = "LOG_INIT" => i = 1 /\ mode = "idle" /\ ~opened
    /\ alive /\ ~failed =>
          opened \/ mode \in {"reading", "opening"} \/ (queue # <<>> /\ queue[1].what = "LOG_INIT")

Shape == HandlerShape /\ FileShape /\ QueueShape

(* The kinds of steps.                                                        *)

Grows(b) ==
    /\ alive /\ Good(logbuffer', queue', lines', born, Limit)
    /\ Follows(b, queue, lines, logbuffer', queue', lines')
    /\ alive' = alive /\ opened' = opened /\ file' = file /\ born' = born

\* Somebody logs or flushes, ...
Speaks ==
    /\ Grows(logbuffer)
    /\ mode' = mode /\ read' = read /\ itemsRead' = itemsRead /\ todo' = todo
    /\ failed' = failed /\ cleared' = cleared

\* ... or clears the log.
Clears ==
    /\ Grows(logbuffer)
    /\ mode' = mode /\ read' = read /\ itemsRead' = itemsRead /\ todo' = todo
    /\ failed' = failed /\ cleared' = lines
    /\ EarlyClear \/ (mode # "reading" /\ ~Queued("LOG_INIT"))
    /\ Elements(logbuffer') = {lines + 1} /\ lines' = lines + 1
    /\ Len(queue') \in TrimsAt(queue')

\* A record that was cut off is passed over, ...
PassesOver ==
    /\ Grows(logbuffer) /\ mode = "reading" /\ mode' = "reading"
    /\ read' \in Nat /\ read < read' /\ read' <= Len(file) /\ ~file[read + 1].whole
    /\ itemsRead' = itemsRead /\ todo' = todo /\ failed' = failed /\ cleared' = cleared

\* ... one is restored, ...
Restores ==
    /\ \E n \in LinesTo(born - 1) :
          Grows(<<n>> \o logbuffer) /\ (file[read + 1].whole => n = file[read + 1].line)
    /\ mode = "reading" /\ mode' = "reading" /\ read' = read + 1 /\ read' <= Len(file)
    /\ itemsRead' = itemsRead + 1 /\ todo' = todo /\ failed' = failed /\ cleared' = cleared

\* ... or reading ends.
StopsReading ==
    /\ Grows(logbuffer) /\ mode = "reading" /\ mode' = "opening" /\ read' = 0 /\ itemsRead' = 0
    /\ read = Len(file) \/ itemsRead > 2 * MAXLOGENTRIES \/ ~file[read + 1].whole
    /\ todo' = todo /\ failed' = failed /\ cleared' = cleared

\* Opening or writing fails.
GivesUp ==
    /\ Grows(logbuffer) /\ mode' = "idle" /\ mode # "reading" /\ mode # "snapshot"
    /\ read' = read /\ itemsRead' = itemsRead
    /\ todo' = <<>> /\ failed' = TRUE /\ cleared' = cleared

\* The handler goes on with a message, or without one.
Served(w) ==
    /\ alive /\ mode = "idle" /\ queue # <<>> /\ queue[1].what = w /\ queue' = Tail(queue)
Same ==
    /\ alive' = alive /\ logbuffer' = logbuffer /\ lines' = lines
    /\ born' = born /\ failed' = failed /\ cleared' = cleared
Rests == read' = read /\ itemsRead' = itemsRead /\ todo' = todo

StartsReading ==
    /\ Same /\ Served("LOG_INIT") /\ read' = 0 /\ itemsRead' = 0
    /\ mode' = IF file = None THEN "opening" ELSE "reading"
    /\ todo' = todo /\ opened' = opened /\ file' = file
Opens ==
    /\ Same /\ alive /\ queue' = queue /\ Rests
    /\ mode = "opening" /\ mode' = "idle" /\ opened' = TRUE /\ file' = <<>>
StartsWriting ==
    /\ Same /\ Served("LOG_MESSAGE") /\ opened /\ opened' = opened /\ file' = file
    /\ read' = read /\ itemsRead' = itemsRead
    /\ mode' = "writing" /\ todo' = <<queue[1].line>>
Skips ==
    /\ Same /\ opened' = opened /\ file' = file /\ mode' = mode /\ Rests
    /\ \/ Served("LOG_MESSAGE") /\ ~opened
       \/ Served("FLUSH_TO_DISK") /\ opened
StartsTrim ==
    /\ Same /\ Served("TRIM_LOG_FILE") /\ opened /\ opened' = opened /\ Rests
    /\ mode' = "snapshot"
    /\ file' = <<>> \/ (file' = file /\ untrimmed')
TakesSnapshot ==
    /\ Same /\ alive /\ queue' = queue /\ opened' = opened /\ file' = file
    /\ read' = read /\ itemsRead' = itemsRead
    /\ mode = "snapshot" /\ mode' = "writing" /\ todo' = logbuffer
Begins ==
    /\ Same /\ alive /\ queue' = queue /\ opened' = opened /\ Rests
    /\ mode = "writing" /\ mode' = "record"
    /\ file' = Append(file, [line |-> Head(todo), whole |-> FALSE])
Completes ==
    /\ Same /\ alive /\ queue' = queue /\ opened' = opened
    /\ read' = read /\ itemsRead' = itemsRead
    /\ mode = "record" /\ mode' = (IF Tail(todo) = <<>> THEN "idle" ELSE "writing")
    /\ file' = [file EXCEPT ![Len(file)].whole = TRUE] /\ todo' = Tail(todo)

IsBorn ==
    /\ ~alive /\ alive' = TRUE /\ lines' = lines + 1 /\ logbuffer' = <<lines + 1>>
    /\ queue' = <<Message("LOG_INIT")>> /\ born' = lines + 1 /\ cleared' = 0 /\ failed' = FALSE
    /\ mode' = mode /\ Rests /\ opened' = opened /\ file' = file
Ends ==
    /\ Dies /\ file' = file /\ lines' = lines
    /\ born' = born /\ cleared' = cleared /\ failed' = failed

GoesOn ==
    \/ StartsReading \/ Opens \/ StartsWriting \/ Skips \/ StartsTrim
    \/ TakesSnapshot \/ Begins \/ Completes

Step ==
    \/ Speaks \/ Clears \/ PassesOver \/ Restores \/ StopsReading \/ GivesUp
    \/ GoesOn \/ IsBorn \/ Ends
------------------------------------------------------------------------------
(* Every action is of one of these kinds.                                      *)

\* The handler logs something, on top of buffer b.
LEMMA HandlerLogs ==
    ASSUME Shape, alive, NEW b, Good(b, queue, lines, born, Limit), NEW k \in 0..2,
           LogsItself([buffer |-> b, queue |-> queue], k),
           alive' = alive, opened' = opened, file' = file, born' = born
    PROVE  Grows(b)
  <1>1. born <= lines
    BY DEF Shape, FileShape
  <1>2. /\ Good(logbuffer', queue', lines', born, Limit)
        /\ Follows(b, queue, lines, logbuffer', queue', lines')
    BY <1>1, LogsItselfIs
  <1> QED
    BY <1>2 DEF Grows

\* ... or a line of the file and then something on top of it.
LEMMA HandlerRestores ==
    ASSUME Shape, alive, NEW n \in LinesTo(born - 1), NEW k \in 0..2,
           LogsItself(CachedLine(Memory, n), k),
           alive' = alive, opened' = opened, file' = file, born' = born
    PROVE  Grows(<<n>> \o logbuffer)
  <1> DEFINE b == <<n>> \o logbuffer
             m == Trimmed([buffer |-> b, queue |-> queue])
             c == m.buffer
             r == m.queue
  <1>1. born <= lines /\ Good(logbuffer, queue, lines, born, Limit)
    BY DEF Shape, FileShape, QueueShape
  <1>2. Good(b, queue, lines, born, Limit + 1)
    BY <1>1, GoodInFront DEF LinesTo
  <1>3. CachedLine(Memory, n) = m
    <2>1. <<n>> \o Memory.buffer = b
      BY DEF Memory
    <2> HIDE DEF b
    <2>2. [Memory EXCEPT !.buffer = b] = [buffer |-> b, queue |-> queue]
      BY DEF Memory
    <2>3. CachedLine(Memory, n) = Trimmed([Memory EXCEPT !.buffer = b])
      BY <2>1 DEF CachedLine
    <2> QED
      BY <2>2, <2>3
  <1>4. m = [buffer |-> c, queue |-> r]
    BY DEF Trimmed
  <1> HIDE DEF b, m
  <1>5. Good(c, r, lines, born, Limit) /\ Follows(b, queue, lines, c, r, lines)
    BY <1>2, TrimmedIs DEF m
  <1>6. LogsItself([buffer |-> c, queue |-> r], k)
    BY <1>3, <1>4
  <1> HIDE DEF c, r
  <1>7. /\ Good(logbuffer', queue', lines', born, Limit)
        /\ Follows(c, r, lines, logbuffer', queue', lines')
    BY <1>1, <1>5, <1>6, LogsItselfIs
  <1>8. Follows(b, queue, lines, logbuffer', queue', lines')
    BY <1>5, <1>7, FollowsTwice
  <1> QED
    BY <1>7, <1>8 DEF Grows, b

LEMMA LoggingIs ==
    ASSUME Shape, newLogItem
    PROVE  Speaks
  <1>1. /\ alive /\ Become(NewLine(Memory, lines + 1)) /\ lines' = lines + 1
        /\ alive' = alive /\ opened' = opened /\ file' = file /\ born' = born
        /\ mode' = mode /\ read' = read /\ itemsRead' = itemsRead /\ todo' = todo
        /\ failed' = failed /\ cleared' = cleared
    BY DEF newLogItem, handler, history
  <1>2. LogsItself([buffer |-> logbuffer, queue |-> queue], 1)
    BY <1>1 DEF LogsItself, Memory
  <1>3. Good(logbuffer, queue, lines, born, Limit)
    BY <1>1 DEF Shape, QueueShape
  <1>4. Grows(logbuffer)
    BY <1>1, <1>2, <1>3, HandlerLogs
  <1> QED
    BY <1>1, <1>4 DEF Speaks

LEMMA FlushingIs ==
    ASSUME Shape, flushLog
    PROVE  Speaks
  <1> DEFINE x == Message("FLUSH_TO_DISK")
  <1>1. /\ alive /\ queue' = Append(queue, x) /\ logbuffer' = logbuffer /\ lines' = lines
        /\ alive' = alive /\ opened' = opened /\ file' = file /\ born' = born
        /\ mode' = mode /\ read' = read /\ itemsRead' = itemsRead /\ todo' = todo
        /\ failed' = failed /\ cleared' = cleared
    BY DEF flushLog, handler, history
  <1>2. Good(logbuffer, queue, lines, born, Limit)
    BY <1>1 DEF Shape, QueueShape
  <1>3. x.what = "FLUSH_TO_DISK"
    BY MessageIs
  <1> HIDE DEF x
  <1>4. Good(logbuffer, Append(queue, x), lines, born, Limit)
    BY <1>2, <1>3, GoodOther
  <1>5. Len(logbuffer) \in Nat
    BY <1>2, LinesAre
  <1>6. Follows(logbuffer, queue, lines, logbuffer, Append(queue, x), lines)
    BY <1>2, <1>3, <1>5, FollowsOther
  <1>7. Grows(logbuffer)
    BY <1>1, <1>4, <1>6 DEF Grows
  <1> QED
    BY <1>1, <1>7 DEF Speaks

LEMMA ClearingIs ==
    ASSUME Shape, clearLog
    PROVE  Clears
  <1> DEFINE l == lines + 1
             x == Message("TRIM_LOG_FILE")
             b == Append(logbuffer, l)
             q == Append(queue, LogMessage(l))
             a == Append(<<>>, l)
  <1>1. /\ lines' = l /\ cleared' = lines
        /\ alive' = alive /\ opened' = opened /\ file' = file /\ born' = born
        /\ mode' = mode /\ read' = read /\ itemsRead' = itemsRead /\ todo' = todo
        /\ failed' = failed
    BY DEF clearLog, handler
  <1>2. alive
    BY DEF clearLog
  <1>3. /\ Good(logbuffer, queue, lines, born, Limit) /\ born <= lines
        /\ Limit \in Nat \ {0} /\ lines \in Nat
    BY <1>2, LimitIs DEF Shape, QueueShape, FileShape
  <1>4. logbuffer' = a /\ queue' = Append(q, x)
    <2> DEFINE m0 == [buffer |-> a, queue |-> q]
               m == Trimmed(m0)
    <2>1. Len(a) = 1
      BY EmptyQueue, Longer
    <2>2. ~(Len(m0.buffer) > Limit)
      BY <1>3, <2>1
    <2>3. m = m0
      BY <2>2 DEF Trimmed
    <2>4. NewLine([Memory EXCEPT !.buffer = <<>>], l) = m
      <3>1. [Memory EXCEPT !.buffer = <<>>] = [buffer |-> <<>>, queue |-> queue]
        BY DEF Memory
      <3> QED
        BY <3>1 DEF NewLine
    <2>5. Become([m EXCEPT !.queue = Append(@, x)])
      BY <2>4 DEF clearLog
    <2> HIDE DEF a, q, x, m
    <2> QED
      BY <2>3, <2>5 DEF Become
  <1>5. Good(b, q, l, born, Limit + 1)
    BY <1>3, GoodLonger
  <1>6. Follows(logbuffer, queue, lines, b, q, l)
    BY <1>3, FollowsLonger
  <1>7. Len(a) = 1 /\ a[1] = l /\ Elements(a) = {l} /\ IsQueue(a)
    <2> DEFINE e == <<>>
    <2>1. IsQueue(e) /\ Len(e) = 0 /\ Elements(e) = {}
      BY EmptyQueue
    <2> HIDE DEF e, l
    <2>2. IsQueue(e)
      BY <2>1
    <2>3. /\ Len(Append(e, l)) = Len(e) + 1 /\ Append(e, l)[Len(e) + 1] = l
          /\ IsQueue(Append(e, l))
      BY <2>2, Longer
    <2>4. Elements(Append(e, l)) = Elements(e) \cup {l}
      BY <2>2, Longer
    <2> QED
      BY <2>1, <2>3, <2>4 DEF e
  <1>8. /\ IsQueue(b) /\ Len(b) \in Nat \ {0} /\ b[Len(b)] = l /\ l \in Elements(b)
    <2>1. Len(logbuffer) \in Nat /\ IsQueue(logbuffer)
      BY <1>3, LinesAre DEF Good
    <2> QED
      BY <2>1, Longer
  <1>9. x.what = "TRIM_LOG_FILE"
    BY MessageIs
  <1> HIDE DEF a, b, q, x, l
  <1>10. a = LastOf(b, 1)
    <2> DEFINE z == LastOf(b, 1)
    <2>1. 1 \in Nat /\ 1 <= Len(b) /\ 1 \in 1..1
      BY <1>8
    <2>2. IsQueue(z) /\ Len(z) = 1 /\ z[1] = b[Len(b) - 1 + 1]
      BY <1>8, <2>1, Cut
    <2>3. Len(b) - 1 + 1 = Len(b)
      BY <1>8
    <2>4. z[1] = l
      BY <1>8, <2>2, <2>3
    <2> HIDE DEF z
    <2>5. a \in Seq(Elements(a) \cup Elements(z)) /\ z \in Seq(Elements(a) \cup Elements(z))
      BY <1>7, <2>2 DEF IsQueue
    <2>6. \A i \in 1..Len(a) : a[i] = z[i]
      BY <1>7, <2>4
    <2>7. a = z
      BY <1>7, <2>2, <2>5, <2>6, SeqEqual
    <2> QED
      BY <2>7 DEF z
  <1>11. 1 \in 1..Len(b)
    BY <1>8
  <1>12. Good(a, Append(q, x), l, born, 1)
    BY <1>5, <1>10, <1>11, GoodCut DEF x
  <1>13. Good(a, Append(q, x), l, born, Limit)
    <2>1. Len(a) <= Limit
      BY <1>3, <1>7
    <2> QED
      BY <1>12, <2>1 DEF Good
  <1>14. Follows(b, q, l, a, Append(q, x), l)
    <2>1. Len(a) \in Nat /\ Elements(a) \subseteq Elements(b)
      BY <1>7, <1>8
    <2> QED
      BY <1>5, <1>9, <2>1, FollowsOther
  <1>15. Follows(logbuffer, queue, lines, a, Append(q, x), l)
    BY <1>6, <1>14, FollowsTwice
  <1>16. Grows(logbuffer)
    BY <1>1, <1>2, <1>4, <1>13, <1>15 DEF Grows
  <1>17. Len(queue') \in TrimsAt(queue')
    <2>1. IsQueue(q)
      BY <1>5 DEF Good
    <2>2. Len(Append(q, x)) = Len(q) + 1
      BY <2>1, Longer
    <2>3. Len(q) + 1 \in At(Append(q, x), "TRIM_LOG_FILE")
      BY <1>9, <2>1, AtLonger
    <2> QED
      BY <1>4, <2>2, <2>3 DEF TrimsAt
  <1>18. Elements(logbuffer') = {lines + 1} /\ lines' = lines + 1
    BY <1>1, <1>4, <1>7 DEF l
  <1>19. EarlyClear \/ (mode # "reading" /\ ~Queued("LOG_INIT"))
    BY DEF clearLog
  <1> QED
    BY <1>1, <1>16, <1>17, <1>18, <1>19 DEF Clears

\* What readCacheContents() does with a record.
LEMMA ReadingIs ==
    ASSUME Shape, ReadWhole \/ ReadBrokenLast \/ ReadBroken \/ ReadEnd
    PROVE  PassesOver \/ Restores \/ StopsReading
  <1>1. alive /\ mode = "reading"
    BY DEF ReadWhole, ReadBrokenLast, ReadBroken, ReadEnd, ReadingEnds
  <1>2. /\ Good(logbuffer, queue, lines, born, Limit) /\ Memory = [buffer |-> logbuffer, queue |-> queue]
        /\ file # None /\ read \in Nat /\ read <= Len(file) /\ file \in Seq(Record) /\ ~opened
    BY <1>1 DEF Shape, QueueShape, HandlerShape, FileShape, Memory
  <1>3. Len(file) \in Nat
    BY <1>2, LenProperties
  <1>4. ASSUME NEW r, NEW k \in 0..2, ReadsOn(Memory, r, k)
        PROVE  /\ Grows(logbuffer) /\ mode' = "reading" /\ read' = r
               /\ todo' = todo /\ failed' = failed /\ cleared' = cleared
    <2>1. /\ alive' = alive /\ opened' = opened /\ file' = file /\ born' = born
          /\ mode' = mode /\ read' = r /\ todo' = todo /\ failed' = failed /\ cleared' = cleared
      BY <1>4 DEF ReadsOn, history
    <2>2. LogsItself([buffer |-> logbuffer, queue |-> queue], k)
      BY <1>2, <1>4 DEF ReadsOn
    <2>3. Grows(logbuffer)
      BY <1>1, <1>2, <2>1, <2>2, HandlerLogs
    <2> QED
      BY <1>1, <2>1, <2>3
  <1>5. ASSUME NEW n \in LinesTo(born - 1), NEW k \in 0..2,
               ReadsOn(CachedLine(Memory, n), read + 1, k)
        PROVE  /\ Grows(<<n>> \o logbuffer) /\ mode' = "reading" /\ read' = read + 1
               /\ todo' = todo /\ failed' = failed /\ cleared' = cleared
    <2>1. /\ alive' = alive /\ opened' = opened /\ file' = file /\ born' = born
          /\ mode' = mode /\ read' = read + 1 /\ todo' = todo /\ failed' = failed /\ cleared' = cleared
      BY <1>5 DEF ReadsOn, history
    <2>2. LogsItself(CachedLine(Memory, n), k)
      BY <1>5 DEF ReadsOn
    <2>3. Grows(<<n>> \o logbuffer)
      BY <1>1, <2>1, <2>2, HandlerRestores
    <2> QED
      BY <1>1, <2>1, <2>3
  <1>6. ASSUME NEW k \in 0..2, ReadingEnds(Memory, k)
        PROVE  /\ Grows(logbuffer) /\ mode' = "opening" /\ read' = 0 /\ itemsRead' = 0
               /\ todo' = todo /\ failed' = failed /\ cleared' = cleared
    <2>1. /\ alive' = alive /\ opened' = opened /\ file' = file /\ born' = born
          /\ mode' = "opening" /\ read' = 0 /\ itemsRead' = 0
          /\ todo' = todo /\ failed' = failed /\ cleared' = cleared
      BY <1>6 DEF ReadingEnds, history
    <2>2. LogsItself([buffer |-> logbuffer, queue |-> queue], k)
      BY <1>2, <1>6 DEF ReadingEnds
    <2>3. Grows(logbuffer)
      BY <1>1, <1>2, <2>1, <2>2, HandlerLogs
    <2> QED
      BY <1>1, <2>1, <2>3
  <1>7. CASE ReadWhole
    <2> DEFINE n == file[read + 1].line
               k == IF itemsRead' > 2 * MAXLOGENTRIES THEN 1 ELSE 0
    <2>1. /\ ~AtEnd /\ itemsRead' = itemsRead + 1 /\ k \in 0..2
          /\ ReadsOn(CachedLine(Memory, n), read + 1, k)
      BY <1>7 DEF ReadWhole
    <2>2. read + 1 \in 1..Len(file) /\ read + 1 <= Len(file)
      BY <1>2, <1>3, <2>1 DEF AtEnd
    <2>3. n \in LinesTo(born - 1)
      BY <1>1, <1>2, <2>2 DEF Shape, FileShape
    <2> HIDE DEF k, n
    <2>4. /\ Grows(<<n>> \o logbuffer) /\ mode' = "reading" /\ read' = read + 1
          /\ todo' = todo /\ failed' = failed /\ cleared' = cleared
      BY <1>5, <2>1, <2>3
    <2>5. Restores
      BY <1>1, <2>1, <2>2, <2>3, <2>4 DEF Restores, n
    <2> QED
      BY <2>5
  <1>8. CASE ReadBrokenLast
    <2>1. ~AtEnd /\ ~file[read + 1].whole
      BY <1>8 DEF ReadBrokenLast
    <2>2. read + 1 <= Len(file) /\ read < read + 1 /\ read + 1 \in Nat
      BY <1>2, <1>3, <2>1 DEF AtEnd
    <2>3. CASE ReadsOn(Memory, read + 1, 0) /\ UNCHANGED itemsRead
      <3>1. /\ Grows(logbuffer) /\ mode' = "reading" /\ read' = read + 1
            /\ todo' = todo /\ failed' = failed /\ cleared' = cleared
        BY <1>4, <2>3
      <3> QED
        BY <1>1, <2>1, <2>2, <2>3, <3>1 DEF PassesOver
    <2>4. CASE ReadingEnds(Memory, 2)
      <3>1. /\ Grows(logbuffer) /\ mode' = "opening" /\ read' = 0 /\ itemsRead' = 0
            /\ todo' = todo /\ failed' = failed /\ cleared' = cleared
        BY <1>6, <2>4
      <3> QED
        BY <1>1, <2>1, <3>1 DEF StopsReading
    <2>5. CASE /\ itemsRead' = itemsRead + 1
               /\ ReadsOn(CachedLine(Memory, Garbage), read + 1,
                          IF itemsRead' > 2 * MAXLOGENTRIES THEN 1 ELSE 0)
      <3> DEFINE k == IF itemsRead' > 2 * MAXLOGENTRIES THEN 1 ELSE 0
      <3>1. k \in 0..2 /\ Garbage \in LinesTo(born - 1) /\ ReadsOn(CachedLine(Memory, Garbage), read + 1, k)
        BY <2>5 DEF LinesTo
      <3> HIDE DEF k
      <3>2. /\ Grows(<<Garbage>> \o logbuffer) /\ mode' = "reading" /\ read' = read + 1
            /\ todo' = todo /\ failed' = failed /\ cleared' = cleared
        BY <1>5, <3>1
      <3>3. Restores
        BY <1>1, <2>1, <2>2, <2>5, <3>1, <3>2 DEF Restores
      <3> QED
        BY <3>3
    <2> QED
      BY <1>8, <2>3, <2>4, <2>5 DEF ReadBrokenLast
  <1>9. CASE ReadBroken
    <2>1. ~AtEnd /\ ~file[read + 1].whole /\ ~IsLast(read + 1)
      BY <1>9 DEF ReadBroken
    <2>2. /\ read + 1 < Len(file) /\ read < read + 1 /\ read + 1 \in Nat /\ read + 1 <= Len(file)
          /\ read < read + 2 /\ read + 2 \in Nat /\ read + 2 <= Len(file)
      BY <1>2, <1>3, <2>1 DEF AtEnd, IsLast
    <2>3. CASE UNCHANGED itemsRead /\ \/ ReadsOn(Memory, read + 1, 1)
                                      \/ ReadsOn(Memory, read + 2, 1)
      <3>1. /\ Grows(logbuffer) /\ mode' = "reading" /\ (read' = read + 1 \/ read' = read + 2)
            /\ todo' = todo /\ failed' = failed /\ cleared' = cleared
        BY <1>4, <2>3
      <3> QED
        BY <1>1, <2>1, <2>2, <2>3, <3>1 DEF PassesOver
    <2>4. CASE ReadingEnds(Memory, 2)
      <3>1. /\ Grows(logbuffer) /\ mode' = "opening" /\ read' = 0 /\ itemsRead' = 0
            /\ todo' = todo /\ failed' = failed /\ cleared' = cleared
        BY <1>6, <2>4
      <3> QED
        BY <1>1, <2>1, <3>1 DEF StopsReading
    <2> QED
      BY <1>9, <2>3, <2>4 DEF ReadBroken
  <1>10. CASE ReadEnd
    <2>1. AtEnd /\ ReadingEnds(Memory, 1)
      BY <1>10 DEF ReadEnd
    <2>2. /\ Grows(logbuffer) /\ mode' = "opening" /\ read' = 0 /\ itemsRead' = 0
          /\ todo' = todo /\ failed' = failed /\ cleared' = cleared
      BY <1>6, <2>1
    <2> QED
      BY <1>1, <2>1, <2>2 DEF StopsReading, AtEnd
  <1> QED
    BY <1>7, <1>8, <1>9, <1>10

\* What goes wrong with the disk.
LEMMA FailuresAre ==
    ASSUME Shape, OpenFails \/ WriteFails
    PROVE  GivesUp
  <1>1. /\ alive /\ mode \in {"opening", "writing", "record"} /\ LogsItself(Memory, 2)
        /\ alive' = alive /\ opened' = opened /\ file' = file /\ born' = born
        /\ mode' = "idle" /\ read' = read /\ itemsRead' = itemsRead
        /\ failed' = TRUE /\ cleared' = cleared
    <2>1. alive
      BY DEF OpenFails, WriteFails, Shape, HandlerShape
    <2>2. /\ mode \in {"opening", "writing", "record"} /\ LogsItself(Memory, 2)
          /\ alive' = alive /\ opened' = opened /\ file' = file /\ born' = born
          /\ mode' = "idle" /\ read' = read /\ itemsRead' = itemsRead /\ cleared' = cleared
      BY DEF OpenFails, WriteFails
    <2>3. failed' = TRUE
      BY DEF OpenFails, WriteFails
    <2> QED
      BY <2>1, <2>2, <2>3
  <1>2. todo' = <<>>
    BY DEF OpenFails, WriteFails, Shape, HandlerShape
  <1>3. Good(logbuffer, queue, lines, born, Limit) /\ LogsItself([buffer |-> logbuffer, queue |-> queue], 2)
    BY <1>1 DEF Shape, QueueShape, Memory
  <1>4. Grows(logbuffer)
    BY <1>1, <1>3, HandlerLogs
  <1> QED
    BY <1>1, <1>2, <1>4 DEF GivesUp

LEMMA OpeningIs ==
    ASSUME OpenLogFile
    PROVE  Opens
  BY DEF OpenLogFile, Opens, Same, Rests, memory

LEMMA TrimmingIs ==
    ASSUME Shape, HandleTrim \/ TrimFails
    PROVE  StartsTrim
  <1>1. Served("TRIM_LOG_FILE")
    <2>1. alive /\ queue # <<>> /\ Head(queue).what = "TRIM_LOG_FILE" /\ mode = "idle"
          /\ queue' = Tail(queue)
      BY DEF HandleTrim, TrimFails, Takes
    <2>2. Head(queue) = queue[1]
      BY <2>1, Shorter DEF Shape, QueueShape, Good
    <2> QED
      BY <2>1, <2>2 DEF Served
  <1>2. CASE HandleTrim
    BY <1>1, <1>2 DEF HandleTrim, StartsTrim, Same, Rests
  <1>3. CASE TrimFails
    BY <1>1, <1>3 DEF TrimFails, StartsTrim, Same, Rests
  <1> QED
    BY <1>2, <1>3

LEMMA HandlingIs ==
    ASSUME Shape,
           \/ HandleInit \/ OpenLogFile \/ HandleMessage \/ HandleTrim \/ TrimFails \/ Snapshot
           \/ HandleFlush \/ BeginRecord \/ EndRecord
    PROVE  GoesOn
  <1>1. queue # <<>> /\ alive => Head(queue) = queue[1]
    BY Shorter DEF Shape, QueueShape, Good
  <1>2. ASSUME NEW w, Takes(w)
        PROVE  Served(w)
    BY <1>1, <1>2 DEF Takes, Served
  <1>3. CASE HandleInit
    <2>1. Served("LOG_INIT")
      BY <1>2, <1>3 DEF HandleInit
    <2>2. StartsReading
      BY <1>3, <2>1 DEF HandleInit, StartsReading, Same, history
    <2> QED
      BY <2>2 DEF GoesOn
  <1>4. CASE OpenLogFile
    BY <1>4, OpeningIs DEF GoesOn
  <1>5. CASE HandleMessage
    <2>1. Served("LOG_MESSAGE") /\ Head(queue) = queue[1]
      BY <1>1, <1>2, <1>5 DEF HandleMessage, Takes
    <2>2. CASE opened
      <3>1. StartsWriting
        BY <1>5, <2>1, <2>2 DEF HandleMessage, StartsWriting, Same, history
      <3> QED
        BY <3>1 DEF GoesOn
    <2>3. CASE ~opened
      <3>1. Skips
        BY <1>5, <2>1, <2>3 DEF HandleMessage, Skips, Same, Rests, history
      <3> QED
        BY <3>1 DEF GoesOn
    <2> QED
      BY <2>2, <2>3
  <1>6. CASE HandleTrim \/ TrimFails
    BY <1>6, TrimmingIs DEF GoesOn
  <1>7. CASE Snapshot
    <2>1. TakesSnapshot
      BY <1>7 DEF Snapshot, TakesSnapshot, Same, memory, history
    <2> QED
      BY <2>1 DEF GoesOn
  <1>8. CASE HandleFlush
    <2>1. Served("FLUSH_TO_DISK")
      BY <1>2, <1>8 DEF HandleFlush
    <2>2. Skips
      BY <1>8, <2>1 DEF HandleFlush, Skips, Same, Rests, handler, history
    <2> QED
      BY <2>2 DEF GoesOn
  <1>9. CASE BeginRecord
    <2>1. Begins
      BY <1>9 DEF BeginRecord, Begins, Same, Rests, memory, history
    <2> QED
      BY <2>1 DEF GoesOn
  <1>10. CASE EndRecord
    <2>1. Completes
      BY <1>10 DEF EndRecord, Completes, Same, memory, history
    <2> QED
      BY <2>1 DEF GoesOn
  <1> QED
    BY <1>3, <1>4, <1>5, <1>6, <1>7, <1>8, <1>9, <1>10

LEMMA StepsAre ==
    ASSUME Shape, Next
    PROVE  Step
  <1>1. ASSUME newLogItem \/ flushLog PROVE Step
    BY <1>1, LoggingIs, FlushingIs DEF Step
  <1>2. ASSUME clearLog PROVE Step
    BY <1>2, ClearingIs DEF Step
  <1>3. ASSUME ReadWhole \/ ReadBrokenLast \/ ReadBroken \/ ReadEnd PROVE Step
    BY <1>3, ReadingIs DEF Step
  <1>4. ASSUME OpenFails \/ WriteFails PROVE Step
    BY <1>4, FailuresAre DEF Step
  <1>5. ASSUME \/ HandleInit \/ OpenLogFile \/ HandleMessage \/ HandleTrim \/ TrimFails
               \/ Snapshot \/ HandleFlush \/ BeginRecord \/ EndRecord
        PROVE  Step
    BY <1>5, HandlingIs DEF Step
  <1>6. ASSUME initLogCache PROVE Step
    <2>1. IsBorn
      BY <1>6 DEF initLogCache, IsBorn, Rests, handler
    <2> QED
      BY <2>1 DEF Step
  <1>7. ASSUME Kill \/ HandleWithoutFile PROVE Step
    <2>1. Ends
      BY <1>7 DEF Kill, HandleWithoutFile, Ends, history
    <2> QED
      BY <2>1 DEF Step
  <1> QED
    BY <1>1, <1>2, <1>3, <1>4, <1>5, <1>6, <1>7 DEF Next, Handler

\* A file that was not truncated becomes one that was by these two steps alone.
Heals == untrimmed /\ ~untrimmed' => Opens \/ StartsTrim

LEMMA HealingIs ==
    ASSUME Shape, Next
    PROVE  Heals
  <1>1. ASSUME newLogItem \/ flushLog \/ clearLog \/ initLogCache \/ Kill \/ HandleWithoutFile
        PROVE  untrimmed' = untrimmed
    BY <1>1 DEF newLogItem, flushLog, clearLog, initLogCache, Kill, HandleWithoutFile, history
  <1>2. ASSUME ReadWhole \/ ReadBrokenLast \/ ReadBroken \/ ReadEnd \/ HandleInit
        PROVE  untrimmed' = untrimmed
    BY <1>2 DEF ReadWhole, ReadBrokenLast, ReadBroken, ReadEnd, HandleInit, ReadsOn, ReadingEnds,
                history
  <1>3. ASSUME \/ OpenFails \/ WriteFails \/ HandleMessage \/ Snapshot \/ HandleFlush
               \/ BeginRecord \/ EndRecord
        PROVE  untrimmed' = untrimmed
    BY <1>3 DEF OpenFails, WriteFails, HandleMessage, Snapshot, HandleFlush, BeginRecord,
                EndRecord, history
  <1>4. ASSUME OpenLogFile \/ HandleTrim \/ TrimFails
        PROVE  Opens \/ StartsTrim
    BY <1>4, OpeningIs, TrimmingIs
  <1> QED
    BY <1>1, <1>2, <1>3, <1>4 DEF Next, Handler, Heals

LEMMA StuttersAre ==
    ASSUME UNCHANGED vars
    PROVE  /\ alive' = alive /\ logbuffer' = logbuffer /\ queue' = queue
           /\ mode' = mode /\ read' = read /\ itemsRead' = itemsRead /\ todo' = todo
           /\ opened' = opened /\ file' = file /\ lines' = lines
           /\ born' = born /\ cleared' = cleared /\ failed' = failed
           /\ untrimmed' = untrimmed
  BY DEF vars, memory, handler, history
------------------------------------------------------------------------------
(* Shape is kept.                                                              *)

LEMMA NoFile ==
    ASSUME NEW f \in Seq(Record)
    PROVE  f # None /\ Len(f) \in Nat /\ \A i \in 1..Len(f) : f[i] \in Record
  <1>1. Seq(Record) = Seq([line : Int \cup {Garbage}, whole : BOOLEAN])
    BY DEF Record
  <1>2. f # None
    BY <1>1, ConstantsAssumption
  <1>3. Len(f) \in Nat /\ \A i \in 1..Len(f) : f[i] \in Record
    BY LenProperties, ElementOfSeq
  <1> QED
    BY <1>2, <1>3

LEMMA BeginsIs ==
    ASSUME Shape, Begins
    PROVE  /\ file' \in Seq(Record) /\ Len(file) \in Nat /\ Len(file') = Len(file) + 1
           /\ file'[Len(file')].line = todo[1] /\ ~file'[Len(file')].whole
           /\ \A i \in 1..Len(file) : file'[i] = file[i]
           /\ todo # <<>> /\ IsQueue(todo) /\ todo[1] \in Elements(todo) /\ todo[1] \in LinesTo(lines)
  <1>1. /\ todo # <<>> /\ IsQueue(todo) /\ Elements(todo) \subseteq LinesTo(lines)
        /\ file \in Seq(Record)
    BY DEF Begins, Shape, HandlerShape, FileShape
  <1>2. Head(todo) = todo[1] /\ todo[1] \in Elements(todo) /\ todo[1] \in LinesTo(lines)
    BY <1>1, Shorter
  <1> DEFINE x == [line |-> Head(todo), whole |-> FALSE]
  <1>3. x \in Record
    BY <1>2 DEF LinesTo, Record
  <1>4. x.line = todo[1] /\ ~x.whole
    BY <1>2
  <1>5. file' = Append(file, x)
    BY DEF Begins
  <1> HIDE DEF x
  <1>6. Append(file, x) \in Seq(Record)
    BY <1>1, <1>3
  <1>7. /\ Len(Append(file, x)) = Len(file) + 1 /\ Append(file, x)[Len(file) + 1] = x
        /\ \A i \in 1..Len(file) : Append(file, x)[i] = file[i]
    BY <1>1, <1>3, AppendProperties
  <1>8. Len(file) \in Nat
    BY <1>1, LenProperties
  <1> QED
    BY <1>1, <1>2, <1>4, <1>5, <1>6, <1>7, <1>8

LEMMA CompletesIs ==
    ASSUME Shape, Completes
    PROVE  /\ file' \in Seq(Record) /\ Len(file) \in Nat \ {0} /\ Len(file') = Len(file)
           /\ \A i \in 1..Len(file) : file'[i].line = file[i].line /\ (file[i].whole => file'[i].whole)
           /\ file'[Len(file)].whole /\ file[Len(file)].line = todo[1]
           /\ todo # <<>> /\ IsQueue(todo)
  <1>1. /\ todo # <<>> /\ IsQueue(todo)
        /\ file \in Seq(Record) /\ Len(file) > 0 /\ file[Len(file)].line = todo[1]
    BY DEF Completes, Shape, HandlerShape, FileShape
  <1> DEFINE n == Len(file)
             x == [file[n] EXCEPT !.whole = TRUE]
  <1>2. n \in Nat \ {0} /\ n \in 1..n /\ file \in [1..n -> Record]
    BY <1>1, LenProperties
  <1>3. file[n] \in Record
    BY <1>2
  <1>4. x \in Record /\ x.line = file[n].line /\ x.whole
    BY <1>3 DEF Record
  <1>5. file' = [file EXCEPT ![n] = x]
    BY DEF Completes
  <1> HIDE DEF x, n
  <1>6. file' \in [1..n -> Record] /\ \A i \in 1..n : file'[i] = IF i = n THEN x ELSE file[i]
    BY <1>2, <1>4, <1>5
  <1>7. file' \in Seq(Record)
    BY <1>2, <1>6, SeqDef
  <1>8. Len(file') = n
    BY <1>2, <1>6, <1>7, LenProperties
  <1>9. \A i \in 1..n : file'[i].line = file[i].line /\ (file[i].whole => file'[i].whole)
    BY <1>4, <1>6
  <1> QED
    BY <1>1, <1>2, <1>4, <1>6, <1>7, <1>8, <1>9 DEF n

LEMMA RestoresKeeps ==
    ASSUME Restores
    PROVE  alive /\ alive' = alive /\ opened' = opened /\ file' = file /\ born' = born
  <1>1. PICK n \in LinesTo(born - 1) : Grows(<<n>> \o logbuffer)
    BY DEF Restores
  <1> QED
    BY <1>1 DEF Grows

LEMMA HandlerKept ==
    ASSUME Shape, Step
    PROVE  HandlerShape'
  <1> USE DEF HandlerShape
  <1>1. HandlerShape /\ (alive => Good(logbuffer, queue, lines, born, Limit))
    BY DEF Shape, QueueShape
  <1>2. CASE Speaks \/ Clears
    <2>1. /\ alive' = alive /\ opened' = opened /\ file' = file /\ mode' = mode
          /\ read' = read /\ itemsRead' = itemsRead /\ todo' = todo
      BY <1>2 DEF Speaks, Clears, Grows
    <2> QED
      BY <1>1, <2>1
  <1>3. CASE PassesOver \/ Restores
    <2>1. /\ alive' = alive /\ opened' = opened /\ file' = file /\ mode = "reading" /\ mode' = "reading"
          /\ read' \in Nat /\ read' <= Len(file) /\ itemsRead' \in Nat /\ todo' = todo
      <3>1. CASE PassesOver
        BY <1>1, <3>1 DEF PassesOver, Grows
      <3>2. CASE Restores
        <4>1. alive' = alive /\ opened' = opened /\ file' = file
          BY <3>2, RestoresKeeps
        <4> QED
          BY <1>1, <3>2, <4>1 DEF Restores
      <3> QED
        BY <1>3, <3>1, <3>2
    <2> QED
      BY <1>1, <2>1
  <1>4. CASE StopsReading
    <2>1. /\ alive' = alive /\ opened' = opened /\ file' = file /\ mode = "reading" /\ mode' = "opening"
          /\ read' = 0 /\ itemsRead' = 0 /\ todo' = todo
      BY <1>4 DEF StopsReading, Grows
    <2> QED
      BY <1>1, <2>1 DEF Modes
  <1>5. CASE GivesUp
    <2>1. /\ alive' = alive /\ opened' = opened /\ file' = file /\ mode' = "idle"
          /\ read' = read /\ itemsRead' = itemsRead /\ todo' = <<>>
      BY <1>5 DEF GivesUp, Grows
    <2> QED
      BY <1>1, <2>1, EmptyQueue DEF Modes
  <1>6. CASE StartsReading
    <2>1. /\ alive' = alive /\ alive /\ opened' = opened /\ file' = file /\ mode = "idle"
          /\ mode' = (IF file = None THEN "opening" ELSE "reading")
          /\ read' = 0 /\ itemsRead' = 0 /\ todo' = todo
      BY <1>6 DEF StartsReading, Same, Served
    <2>2. ~opened
      <3>1. queue # <<>> /\ queue[1].what = "LOG_INIT" /\ IsQueue(queue)
        BY <1>1, <1>6 DEF StartsReading, Served, Good
      <3>2. 1 \in 1..Len(queue)
        BY <3>1, Shorter
      <3> QED
        BY <3>1, <3>2 DEF Shape, QueueShape
    <2>3. file # None => Len(file) \in Nat
      BY NoFile DEF Shape, FileShape
    <2>4. mode' \in {"reading", "opening"} /\ (mode' = "reading" => file # None)
      BY <2>1
    <2> QED
      BY <1>1, <2>1, <2>2, <2>3, <2>4 DEF Modes
  <1>7. CASE Opens
    <2>1. /\ alive' = alive /\ alive /\ opened' = TRUE /\ file' = <<>> /\ mode = "opening" /\ mode' = "idle"
          /\ read' = read /\ itemsRead' = itemsRead /\ todo' = todo
      BY <1>7 DEF Opens, Same, Rests
    <2>2. <<>> # None
      <3>1. <<>> \in Seq(Record)
        BY EmptySeq
      <3> QED
        BY <3>1, NoFile
    <2> QED
      BY <1>1, <2>1, <2>2 DEF Modes
  <1>8. CASE StartsWriting
    <2>1. /\ alive' = alive /\ alive /\ opened' = opened /\ opened /\ file' = file
          /\ mode = "idle" /\ mode' = "writing"
          /\ read' = read /\ itemsRead' = itemsRead /\ todo' = <<queue[1].line>>
      BY <1>8 DEF StartsWriting, Same, Served
    <2>2. todo' \in Seq({queue[1].line}) /\ todo' # <<>>
      BY <2>1
    <2>3. IsQueue(todo')
      BY <2>2, QueueOf
    <2> QED
      BY <1>1, <2>1, <2>2, <2>3 DEF Modes
  <1>9. CASE Skips
    <2>1. /\ alive' = alive /\ opened' = opened /\ file' = file /\ mode' = mode
          /\ read' = read /\ itemsRead' = itemsRead /\ todo' = todo
      BY <1>9 DEF Skips, Same, Rests
    <2> QED
      BY <1>1, <2>1
  <1>10. CASE StartsTrim
    <2>1. /\ alive' = alive /\ alive /\ opened' = opened /\ opened
          /\ (file' = <<>> \/ file' = file) /\ mode = "idle" /\ mode' = "snapshot"
          /\ read' = read /\ itemsRead' = itemsRead /\ todo' = todo
      BY <1>10 DEF StartsTrim, Same, Served, Rests
    <2>2. <<>> # None
      <3>1. <<>> \in Seq(Record)
        BY EmptySeq
      <3> QED
        BY <3>1, NoFile
    <2> QED
      BY <1>1, <2>1, <2>2 DEF Modes
  <1>11. CASE TakesSnapshot
    <2>1. /\ alive' = alive /\ alive /\ opened' = opened /\ file' = file
          /\ mode = "snapshot" /\ mode' = "writing"
          /\ read' = read /\ itemsRead' = itemsRead /\ todo' = logbuffer
      BY <1>11 DEF TakesSnapshot, Same
    <2>2. IsQueue(logbuffer) /\ Len(logbuffer) # 0
      BY <1>1, <2>1, LinesAre DEF Good
    <2>3. logbuffer # <<>>
      BY <2>2, EmptyQueue
    <2> QED
      BY <1>1, <2>1, <2>2, <2>3 DEF Modes
  <1>12. CASE Begins
    <2>1. /\ alive' = alive /\ alive /\ opened' = opened
          /\ mode = "writing" /\ mode' = "record"
          /\ read' = read /\ itemsRead' = itemsRead /\ todo' = todo
      BY <1>12 DEF Begins, Same, Rests
    <2>2. file' # None
      BY <1>12, BeginsIs, NoFile
    <2> QED
      BY <1>1, <2>1, <2>2 DEF Modes
  <1>13. CASE Completes
    <2>1. /\ alive' = alive /\ alive /\ opened' = opened
          /\ mode = "record" /\ mode' = (IF Tail(todo) = <<>> THEN "idle" ELSE "writing")
          /\ read' = read /\ itemsRead' = itemsRead /\ todo' = Tail(todo)
      BY <1>13 DEF Completes, Same
    <2>2. file' # None
      BY <1>13, CompletesIs, NoFile
    <2>3. IsQueue(Tail(todo))
      BY <1>13, CompletesIs, Shorter
    <2>4. /\ mode' \in {"idle", "writing"} /\ (todo' # <<>> <=> mode' = "writing")
      BY <2>1
    <2> QED
      BY <1>1, <2>1, <2>2, <2>3, <2>4 DEF Modes
  <1>14. CASE IsBorn
    <2>1. /\ ~alive /\ alive' = TRUE /\ opened' = opened /\ file' = file /\ mode' = mode
          /\ read' = read /\ itemsRead' = itemsRead /\ todo' = todo
      BY <1>14 DEF IsBorn, Rests
    <2>2. mode = "idle" /\ ~opened
      BY <2>1 DEF Shape, QueueShape
    <2> QED
      BY <1>1, <2>1, <2>2
  <1>15. CASE Ends
    <2>1. /\ mode' = "idle" /\ opened' = FALSE /\ file' = file
          /\ read' = 0 /\ itemsRead' = 0 /\ todo' = <<>>
      BY <1>15 DEF Ends, Dies
    <2> QED
      BY <2>1, EmptyQueue DEF Modes
  <1> QED
    BY <1>2, <1>3, <1>4, <1>5, <1>6, <1>7, <1>8, <1>9, <1>10, <1>11, <1>12, <1>13, <1>14, <1>15
    DEF Step, GoesOn

\* The lines in the buffer are numbers that were given.
LEMMA LinesGrow ==
    ASSUME NEW l \in Nat, NEW k \in Nat, l <= k
    PROVE  LinesTo(l) \subseteq LinesTo(k)
  BY DEF LinesTo

LEMMA GrowsIs ==
    ASSUME Shape, NEW b, Grows(b), Elements(b) \subseteq LinesTo(lines)
    PROVE  /\ lines' \in Nat /\ lines \in Nat /\ lines <= lines' /\ born <= lines'
           /\ Elements(logbuffer') \subseteq LinesTo(lines') /\ LinesTo(lines) \subseteq LinesTo(lines')
  <1>1. /\ lines' \in Nat /\ lines \in Nat /\ lines <= lines'
        /\ \A n \in Elements(logbuffer') :
              n \in Elements(b) \/ (n \in (lines + 1)..lines' /\ IsPosted(queue', n))
    BY DEF Grows, Follows
  <1>2. born <= lines /\ born \in Nat
    BY DEF Shape, FileShape, Grows
  <1>3. LinesTo(lines) \subseteq LinesTo(lines')
    BY <1>1, LinesGrow
  <1>4. (lines + 1)..lines' \subseteq LinesTo(lines')
    BY <1>1 DEF LinesTo
  <1> QED
    BY <1>1, <1>2, <1>3, <1>4

LEMMA FileKept ==
    ASSUME Shape, Step
    PROVE  FileShape'
  <1>1. /\ FileShape /\ HandlerShape /\ (alive => Good(logbuffer, queue, lines, born, Limit))
        /\ (~alive => mode = "idle" /\ ~opened /\ logbuffer = <<>>)
    BY DEF Shape, QueueShape
  <1>2. HandlerShape'
    BY HandlerKept
  <1>3. ASSUME NEW b, Grows(b), Elements(b) \subseteq LinesTo(lines),
               mode' # "record" \/ (mode' = mode /\ todo' = todo),
               todo' = todo \/ todo' = <<>>,
               cleared' = cleared \/ cleared' = lines
        PROVE  FileShape'
    <2>1. /\ lines' \in Nat /\ lines \in Nat /\ lines <= lines' /\ born <= lines'
          /\ Elements(logbuffer') \subseteq LinesTo(lines') /\ LinesTo(lines) \subseteq LinesTo(lines')
      BY <1>3, GrowsIs
    <2>2. alive' = alive /\ opened' = opened /\ file' = file /\ born' = born /\ alive
      BY <1>3 DEF Grows
    <2>3. Elements(todo') \subseteq LinesTo(lines')
      BY <1>1, <1>3, <2>1, EmptyQueue DEF FileShape
    <2>4. cleared' \in Nat /\ cleared' <= lines'
      BY <1>1, <1>3, <2>1 DEF FileShape
    <2>5. mode' = "record" =>
              Len(file') > 0 /\ ~file'[Len(file')].whole /\ file'[Len(file')].line = todo'[1]
      BY <1>1, <1>3, <2>2 DEF FileShape
    <2>6. file' # None => file' \in Seq(Record) /\ \A i \in 1..Len(file') : file'[i].line \in LinesTo(lines')
      BY <1>1, <2>1, <2>2 DEF FileShape
    <2>7. file' # None /\ alive' /\ ~opened' =>
              \A i \in 1..Len(file') : file'[i].line \in LinesTo(born' - 1)
      BY <1>1, <2>2 DEF FileShape
    <2>8. born' \in Nat \ {0} /\ born' <= lines'
      BY <1>1, <2>1, <2>2 DEF FileShape
    <2> QED
      BY <2>1, <2>3, <2>4, <2>5, <2>6, <2>7, <2>8 DEF FileShape
  <1>4. Elements(logbuffer) \subseteq LinesTo(lines)
    BY <1>1 DEF FileShape
  <1>5. CASE Speaks \/ Clears \/ PassesOver \/ StopsReading \/ GivesUp
    <2>1. /\ Grows(logbuffer) /\ (mode' # "record" \/ (mode' = mode /\ todo' = todo))
          /\ (todo' = todo \/ todo' = <<>>) /\ (cleared' = cleared \/ cleared' = lines)
      BY <1>5 DEF Speaks, Clears, PassesOver, StopsReading, GivesUp
    <2> QED
      BY <1>3, <1>4, <2>1
  <1>6. CASE Restores
    <2>1. PICK n \in LinesTo(born - 1) : Grows(<<n>> \o logbuffer)
      BY <1>6 DEF Restores
    <2>2. /\ alive /\ mode' = "reading" /\ todo' = todo /\ cleared' = cleared
      BY <1>6, <2>1 DEF Restores, Grows
    <2>3. Elements(<<n>> \o logbuffer) = Elements(logbuffer) \cup {n}
      BY <1>1, <2>2, InFront DEF Good
    <2>4. born \in Nat \ {0} /\ lines \in Nat /\ born <= lines
      BY <1>1, <2>2 DEF FileShape
    <2>5. n \in LinesTo(lines)
      BY <2>4 DEF LinesTo
    <2>6. Elements(<<n>> \o logbuffer) \subseteq LinesTo(lines)
      BY <1>4, <2>3, <2>5
    <2> QED
      BY <1>3, <2>1, <2>2, <2>6
  <1>7. ASSUME Same, todo' = todo \/ Elements(todo') \subseteq LinesTo(lines),
               \/ mode' # "record" /\ (file' = file \/ file' = <<>>)
                    /\ (opened' = opened \/ file' = <<>>)
               \/ Begins
               \/ Completes
        PROVE  FileShape'
    <2>1. /\ alive' = alive /\ logbuffer' = logbuffer /\ lines' = lines
          /\ born' = born /\ cleared' = cleared
      BY <1>7 DEF Same
    <2>2. Elements(todo') \subseteq LinesTo(lines')
      BY <1>1, <1>7, <2>1 DEF FileShape
    <2>3. CASE mode' # "record" /\ (file' = file \/ file' = <<>>) /\ (opened' = opened \/ file' = <<>>)
      <3>1. <<>> \in Seq(Record) /\ Len(<<>>) = 0
        BY EmptySeq
      <3>2. CASE file' = <<>>
        <4>1. file' \in Seq(Record) /\ \A i \in 1..Len(file') : FALSE
          BY <3>1, <3>2
        <4> QED
          BY <1>1, <2>1, <2>2, <2>3, <4>1 DEF FileShape
      <3>3. CASE file' = file /\ opened' = opened
        BY <1>1, <2>1, <2>2, <2>3, <3>3 DEF FileShape
      <3> QED
        BY <2>3, <3>2, <3>3
    <2>4. CASE Begins
      <3>1. /\ file' \in Seq(Record) /\ Len(file) \in Nat /\ Len(file') = Len(file) + 1
            /\ file'[Len(file')].line = todo[1] /\ ~file'[Len(file')].whole
            /\ \A i \in 1..Len(file) : file'[i] = file[i]
            /\ todo[1] \in LinesTo(lines)
        BY <2>4, BeginsIs
      <3>2. /\ mode = "writing" /\ opened' = opened /\ todo' = todo
        BY <2>4 DEF Begins, Rests
      <3>3. opened /\ file # None
        BY <1>1, <3>2 DEF HandlerShape
      <3>4. \A i \in 1..Len(file') : file'[i].line \in LinesTo(lines')
        <4> TAKE i \in 1..Len(file')
        <4>1. i = Len(file') \/ i \in 1..Len(file)
          BY <3>1
        <4> QED
          BY <1>1, <2>1, <3>1, <3>3, <4>1 DEF FileShape
      <3>5. Len(file') > 0
        BY <3>1
      <3> QED
        BY <1>1, <2>1, <2>2, <3>1, <3>2, <3>3, <3>4, <3>5 DEF FileShape
    <2>5. CASE Completes
      <3>1. /\ file' \in Seq(Record) /\ Len(file') = Len(file)
            /\ \A i \in 1..Len(file) : file'[i].line = file[i].line
        BY <2>5, CompletesIs
      <3>2. mode = "record" /\ mode' # "record" /\ opened' = opened
        BY <2>5 DEF Completes
      <3>3. opened /\ file # None
        BY <1>1, <3>2 DEF HandlerShape
      <3> QED
        BY <1>1, <2>1, <2>2, <3>1, <3>2, <3>3 DEF FileShape
    <2> QED
      BY <1>7, <2>3, <2>4, <2>5
  <1>8. CASE StartsReading \/ Opens \/ Skips \/ StartsTrim
    <2>1. Same /\ todo' = todo
      BY <1>8 DEF StartsReading, Opens, Skips, StartsTrim, Rests
    <2>2. mode' # "record" /\ (file' = file \/ file' = <<>>) /\ (opened' = opened \/ file' = <<>>)
      BY <1>8 DEF StartsReading, Opens, Skips, StartsTrim, Served
    <2> QED
      BY <1>7, <2>1, <2>2
  <1>9. CASE StartsWriting
    <2>1. /\ Same /\ mode' # "record" /\ file' = file /\ opened' = opened /\ alive
          /\ queue # <<>> /\ queue[1].what = "LOG_MESSAGE" /\ todo' = <<queue[1].line>>
      BY <1>9 DEF StartsWriting, Served
    <2>2. 1 \in MessagesAt(queue)
      BY <1>1, <2>1, AtShorter DEF Good, MessagesAt
    <2>3. queue[1].line \in Nat /\ born < queue[1].line /\ queue[1].line <= lines
      BY <1>1, <2>1, <2>2, LinesAre
    <2>4. queue[1].line \in LinesTo(lines)
      BY <1>1, <2>3 DEF LinesTo, FileShape
    <2>5. todo' \in Seq(LinesTo(lines))
      BY <2>1, <2>4
    <2>6. Elements(todo') \subseteq LinesTo(lines)
      BY <2>5, QueueOf
    <2> QED
      BY <1>7, <2>1, <2>6
  <1>10. CASE TakesSnapshot
    BY <1>4, <1>7, <1>10 DEF TakesSnapshot
  <1>11. CASE Begins
    BY <1>7, <1>11 DEF Begins, Rests
  <1>12. CASE Completes
    <2>1. Elements(todo) = Elements(todo') \cup {todo[1]}
      BY <1>12, CompletesIs, Shorter DEF Completes
    <2>2. Elements(todo') \subseteq LinesTo(lines)
      BY <1>1, <2>1 DEF FileShape
    <2> QED
      BY <1>7, <1>12, <2>2 DEF Completes
  <1>13. CASE IsBorn
    <2>1. /\ ~alive /\ lines' = lines + 1 /\ logbuffer' = <<lines + 1>> /\ born' = lines + 1
          /\ cleared' = 0 /\ mode' = mode /\ todo' = todo /\ file' = file
      BY <1>13 DEF IsBorn, Rests
    <2>2. mode = "idle"
      BY <1>1, <2>1
    <2>3. lines \in Nat /\ lines + 1 \in Nat \ {0} /\ (lines + 1) - 1 = lines /\ lines <= lines + 1
      BY <1>1 DEF FileShape
    <2>4. LinesTo(lines) \subseteq LinesTo(lines + 1) /\ lines + 1 \in LinesTo(lines + 1)
      BY <2>3, LinesGrow DEF LinesTo
    <2>5. logbuffer' \in Seq(LinesTo(lines + 1))
      BY <2>1, <2>4
    <2>6. Elements(logbuffer') \subseteq LinesTo(lines + 1)
      BY <2>5, QueueOf
    <2>7. lines' \in Nat /\ born' \in Nat \ {0} /\ born' <= lines' /\ cleared' \in Nat /\ cleared' <= lines'
      BY <2>1, <2>3
    <2>8. Elements(todo') \subseteq LinesTo(lines')
      BY <1>1, <2>1, <2>4 DEF FileShape
    <2>9. file' # None => /\ file' \in Seq(Record)
                          /\ \A i \in 1..Len(file') : /\ file'[i].line \in LinesTo(lines')
                                                      /\ file'[i].line \in LinesTo(born' - 1)
      BY <1>1, <2>1, <2>3, <2>4 DEF FileShape
    <2>10. mode' # "record"
      BY <2>1, <2>2
    <2> QED
      BY <2>1, <2>6, <2>7, <2>8, <2>9, <2>10 DEF FileShape
  <1>14. CASE Ends
    <2>1. /\ alive' = FALSE /\ logbuffer' = <<>> /\ mode' = "idle" /\ todo' = <<>>
          /\ file' = file /\ lines' = lines /\ born' = born /\ cleared' = cleared
      BY <1>14 DEF Ends, Dies
    <2>2. Elements(<<>>) = {}
      BY EmptyQueue
    <2> QED
      BY <1>1, <2>1, <2>2 DEF FileShape
  <1> QED
    BY <1>5, <1>6, <1>8, <1>9, <1>10, <1>11, <1>12, <1>13, <1>14 DEF Step, GoesOn

\* The queue of a new process.
LEMMA FirstLine ==
    ASSUME NEW l \in Nat
    PROVE  /\ Good(<<l + 1>>, <<Message("LOG_INIT")>>, l + 1, l + 1, Limit)
           /\ Len(<<Message("LOG_INIT")>>) = 1 /\ <<Message("LOG_INIT")>>[1].what = "LOG_INIT"
           /\ Elements(<<l + 1>>) = {l + 1}
           /\ MessagesAt(<<Message("LOG_INIT")>>) = {} /\ TrimsAt(<<Message("LOG_INIT")>>) = {}
  <1> DEFINE x == Message("LOG_INIT")
             q == <<x>>
             o == l + 1
             b == <<o>>
  <1>1. x.what = "LOG_INIT"
    BY MessageIs
  <1> HIDE DEF x
  <1>2. q \in Seq({x}) /\ Len(q) = 1 /\ q[1] = x
    OBVIOUS
  <1>3. b \in Seq({o}) /\ Len(b) = 1 /\ b[1] = o /\ o \in Nat \ {0}
    OBVIOUS
  <1> HIDE DEF o, b, q
  <1>4. IsQueue(q) /\ IsQueue(b) /\ Elements(b) \subseteq {o}
    BY <1>2, <1>3, QueueOf
  <1>5. o \in Elements(b)
    BY <1>3 DEF Elements
  <1>6. MessagesAt(q) = {} /\ TrimsAt(q) = {}
    <2>1. \A i \in 1..Len(q) : q[i].what = "LOG_INIT"
      BY <1>1, <1>2
    <2> QED
      BY <2>1 DEF MessagesAt, TrimsAt, At
  <1>7. InOrder(b, o, o)
    <2>1. 0 \in 0..(Len(b) - 1) /\ \A i \in 1..0 : FALSE
      BY <1>3
    <2>2. \A i \in (0 + 1)..Len(b) : b[i] = o - (Len(b) - i) /\ b[i] >= o
      BY <1>3
    <2> QED
      BY <2>1, <2>2 DEF InOrder
  <1>8. Len(b) <= Limit
    BY <1>3, LimitIs
  <1>9. Good(b, q, o, o, Limit)
    BY <1>3, <1>4, <1>6, <1>7, <1>8 DEF Good, Posted, Recent, Runs
  <1> QED
    BY <1>1, <1>2, <1>4, <1>5, <1>6, <1>9 DEF b, o, q, x

LEMMA QueueKept ==
    ASSUME Shape, Step
    PROVE  QueueShape'
  <1>1. QueueShape /\ HandlerShape
    BY DEF Shape
  <1>2. ASSUME NEW b, Grows(b),
               \/ mode' = mode /\ failed' = failed
               \/ mode \in {"reading", "opening", "writing", "record"}
                    /\ (mode' \in {"reading", "opening"} \/ failed')
        PROVE  QueueShape'
    <2>1. /\ alive' = alive /\ opened' = opened /\ born' = born /\ alive
          /\ Good(logbuffer', queue', lines', born, Limit)
          /\ Len(queue) \in Nat /\ Len(queue') \in Nat /\ Len(queue) <= Len(queue')
          /\ (queue' # <<>> \/ queue = queue')
          /\ \A i \in 1..Len(queue) : queue'[i] = queue[i]
          /\ \A i \in (Len(queue) + 1)..Len(queue') : Sent(queue'[i], lines)
      BY <1>2 DEF Grows, Follows
    <2>2. \A i \in (Len(queue) + 1)..Len(queue') : queue'[i].what # "LOG_INIT"
      BY <2>1 DEF Sent
    <2>3. \A i \in 1..Len(queue) : queue[i].what # "LOG_INIT" \/ mode = "idle"
      BY <1>1 DEF QueueShape
    <2>4. ASSUME NEW i \in 1..Len(queue'), queue'[i].what = "LOG_INIT"
          PROVE  i = 1 /\ mode' = "idle" /\ ~opened'
      <3>1. i \in 1..Len(queue)
        BY <2>1, <2>2, <2>4
      <3>2. queue[i].what = "LOG_INIT"
        BY <2>1, <2>4, <3>1
      <3>3. i = 1 /\ mode = "idle" /\ ~opened
        BY <1>1, <3>1, <3>2 DEF QueueShape
      <3>4. mode' = mode
        BY <1>2, <3>3
      <3> QED
        BY <2>1, <3>3, <3>4
    <2>5. ~failed' => opened' \/ mode' \in {"reading", "opening"}
                             \/ (queue' # <<>> /\ queue'[1].what = "LOG_INIT")
      <3> SUFFICES ASSUME ~failed'
                   PROVE  \/ opened' \/ mode' \in {"reading", "opening"}
                          \/ (queue' # <<>> /\ queue'[1].what = "LOG_INIT")
        OBVIOUS
      <3>1. CASE mode' = mode /\ failed' = failed
        <4>1. ~failed
          BY <3>1
        <4>2. \/ opened \/ mode \in {"reading", "opening"}
              \/ (queue # <<>> /\ queue[1].what = "LOG_INIT")
          BY <1>1, <2>1, <4>1 DEF QueueShape
        <4>3. CASE queue # <<>> /\ queue[1].what = "LOG_INIT"
          <5>1. 1 \in 1..Len(queue)
            BY <1>1, <2>1, <4>3, Shorter DEF QueueShape, Good
          <5>2. queue'[1].what = "LOG_INIT" /\ queue' # <<>>
            BY <2>1, <4>3, <5>1
          <5> QED
            BY <5>2
        <4> QED
          BY <2>1, <3>1, <4>2, <4>3
      <3> QED
        BY <1>2, <3>1
    <2> QED
      BY <2>1, <2>4, <2>5 DEF QueueShape
  <1>3. CASE Speaks \/ Clears \/ PassesOver \/ StopsReading \/ GivesUp
    <2>1. CASE Speaks \/ Clears
      <3>1. Grows(logbuffer) /\ mode' = mode /\ failed' = failed
        BY <2>1 DEF Speaks, Clears
      <3> QED
        BY <1>2, <3>1
    <2>2. CASE PassesOver \/ StopsReading
      <3>1. Grows(logbuffer) /\ mode = "reading" /\ mode' \in {"reading", "opening"}
        BY <2>2 DEF PassesOver, StopsReading
      <3> QED
        BY <1>2, <3>1
    <2>3. CASE GivesUp
      <3>1. Grows(logbuffer) /\ mode # "snapshot" /\ failed' /\ mode' = "idle"
        BY <2>3 DEF GivesUp
      <3>2. CASE mode = "idle"
        <4>1. /\ alive' = alive /\ opened' = opened /\ born' = born /\ alive
              /\ Good(logbuffer', queue', lines', born, Limit)
              /\ Len(queue) \in Nat /\ Len(queue') \in Nat /\ Len(queue) <= Len(queue')
              /\ \A i \in 1..Len(queue) : queue'[i] = queue[i]
              /\ \A i \in (Len(queue) + 1)..Len(queue') : Sent(queue'[i], lines)
          BY <3>1 DEF Grows, Follows
        <4>2. \A i \in (Len(queue) + 1)..Len(queue') : queue'[i].what # "LOG_INIT"
          BY <4>1 DEF Sent
        <4>3. \A i \in 1..Len(queue') : i \in 1..Len(queue) \/ i \in (Len(queue) + 1)..Len(queue')
          BY <4>1
        <4>4. \A i \in 1..Len(queue') : queue'[i].what = "LOG_INIT" => i = 1 /\ ~opened
          BY <1>1, <4>1, <4>2, <4>3 DEF QueueShape
        <4> QED
          BY <3>1, <4>1, <4>4 DEF QueueShape
      <3>3. CASE mode # "idle"
        <4>1. mode \in {"reading", "opening", "writing", "record"}
          BY <1>1, <3>1, <3>3 DEF HandlerShape, Modes
        <4> QED
          BY <1>2, <3>1, <4>1
      <3> QED
        BY <3>2, <3>3
    <2> QED
      BY <1>3, <2>1, <2>2, <2>3
  <1>4. CASE Restores
    <2>1. PICK n \in LinesTo(born - 1) : Grows(<<n>> \o logbuffer)
      BY <1>4 DEF Restores
    <2>2. mode = "reading" /\ mode' = "reading"
      BY <1>4 DEF Restores
    <2> QED
      BY <1>2, <2>1, <2>2
  <1>5. ASSUME NEW w, Same, Served(w),
               \/ mode' = mode /\ opened' = opened /\ w # "LOG_INIT"
               \/ mode' \in {"reading", "opening"}
               \/ opened /\ opened' = opened
        PROVE  QueueShape'
    <2>1. /\ alive /\ alive' = alive /\ logbuffer' = logbuffer /\ lines' = lines /\ born' = born
          /\ failed' = failed /\ queue # <<>> /\ queue' = Tail(queue) /\ queue[1].what = w /\ mode = "idle"
      BY <1>5 DEF Same, Served
    <2>2. Good(logbuffer, queue, lines, born, Limit)
      BY <1>1, <2>1 DEF QueueShape
    <2>3. Good(logbuffer', queue', lines', born', Limit)
      BY <2>1, <2>2, GoodShorter
    <2>4. /\ Len(queue) \in Nat \ {0} /\ Len(queue') = Len(queue) - 1
          /\ \A i \in 1..Len(queue') : queue'[i] = queue[i + 1]
      BY <2>1, <2>2, Shorter DEF Good
    <2>5. \A i \in 1..Len(queue') : queue'[i].what # "LOG_INIT"
      <3> TAKE i \in 1..Len(queue')
      <3>1. i + 1 \in 1..Len(queue) /\ i + 1 # 1
        BY <2>4
      <3> QED
        BY <1>1, <2>4, <3>1 DEF QueueShape
    <2>6. ~failed' => opened' \/ mode' \in {"reading", "opening"}
      <3>1. ~failed => opened \/ w = "LOG_INIT"
        BY <1>1, <2>1 DEF QueueShape
      <3> QED
        BY <1>5, <2>1, <3>1
    <2> QED
      BY <2>1, <2>3, <2>5, <2>6 DEF QueueShape
  <1>6. CASE StartsReading
    <2>1. Same /\ Served("LOG_INIT") /\ mode' \in {"reading", "opening"}
      BY <1>6 DEF StartsReading
    <2> QED
      BY <1>5, <2>1
  <1>7. CASE StartsWriting
    <2>1. Same /\ Served("LOG_MESSAGE") /\ opened /\ opened' = opened
      BY <1>7 DEF StartsWriting
    <2> QED
      BY <1>5, <2>1
  <1>8. CASE Skips
    <2>1. Same /\ mode' = mode /\ opened' = opened /\ (Served("LOG_MESSAGE") \/ Served("FLUSH_TO_DISK"))
      BY <1>8 DEF Skips
    <2> QED
      BY <1>5, <2>1
  <1>9. CASE StartsTrim
    <2>1. Same /\ Served("TRIM_LOG_FILE") /\ opened /\ opened' = opened
      BY <1>9 DEF StartsTrim
    <2> QED
      BY <1>5, <2>1
  <1>10. CASE Opens \/ TakesSnapshot \/ Begins \/ Completes
    <2>1. /\ alive /\ alive' = alive /\ logbuffer' = logbuffer /\ lines' = lines /\ born' = born
          /\ failed' = failed /\ queue' = queue
      BY <1>10 DEF Opens, TakesSnapshot, Begins, Completes, Same
    <2>2. opened'
      <3>1. mode \in {"snapshot", "writing", "record"} => opened
        BY <1>1 DEF HandlerShape
      <3>2. opened' = TRUE \/ (mode \in {"snapshot", "writing", "record"} /\ opened' = opened)
        BY <1>10 DEF Opens, TakesSnapshot, Begins, Completes
      <3> QED
        BY <3>1, <3>2
    <2>3. mode # "idle"
      BY <1>10 DEF Opens, TakesSnapshot, Begins, Completes
    <2>4. \A i \in 1..Len(queue') : queue'[i].what # "LOG_INIT"
      BY <1>1, <2>1, <2>3 DEF QueueShape
    <2> QED
      BY <1>1, <2>1, <2>2, <2>4 DEF QueueShape
  <1>11. CASE IsBorn
    <2> DEFINE q == <<Message("LOG_INIT")>>
               l == lines
               b == <<l + 1>>
    <2>1. /\ ~alive /\ alive' = TRUE /\ mode' = mode /\ opened' = opened
          /\ lines' = l + 1 /\ logbuffer' = b /\ born' = l + 1 /\ queue' = q
      BY <1>11 DEF IsBorn
    <2>2. mode = "idle" /\ ~opened
      BY <1>1, <2>1 DEF QueueShape
    <2>3. l \in Nat
      BY DEF Shape, FileShape
    <2>4. Good(b, q, l + 1, l + 1, Limit) /\ Len(q) = 1 /\ q[1].what = "LOG_INIT"
      BY <2>3, FirstLine
    <2> HIDE DEF b, q, l
    <2>5. q # <<>>
      BY <2>4, EmptyQueue
    <2>6. \A i \in 1..Len(q) : i = 1
      BY <2>4
    <2> QED
      BY <2>1, <2>2, <2>4, <2>5, <2>6 DEF QueueShape
  <1>12. CASE Ends
    <2>1. alive' = FALSE /\ logbuffer' = <<>> /\ queue' = <<>> /\ mode' = "idle" /\ opened' = FALSE
      BY <1>12 DEF Ends, Dies
    <2>2. \A i \in 1..Len(<<>>) : FALSE
      BY EmptyQueue
    <2> QED
      BY <2>1, <2>2 DEF QueueShape
  <1> QED
    BY <1>3, <1>4, <1>6, <1>7, <1>8, <1>9, <1>10, <1>11, <1>12 DEF Step, GoesOn

LEMMA ShapeKept ==
    ASSUME Shape, Next
    PROVE  Shape'
  BY StepsAre, HandlerKept, FileKept, QueueKept DEF Shape
------------------------------------------------------------------------------
(* A line of the buffer is on its way to the file.                             *)

InFile(n) == file # None /\ \E i \in 1..Len(file) : file[i].whole /\ file[i].line = n

Way ==
    alive /\ ~failed /\ mode # "snapshot" =>
        \A n \in Elements(logbuffer) :
            n \in Int /\ n > born => InFile(n) \/ n \in Elements(todo) \/ IsPosted(queue, n)

LEMMA PostedShorter ==
    ASSUME NEW q, IsQueue(q), q # <<>>, NEW n, IsPosted(q, n)
    PROVE  q[1] = LogMessage(n) \/ IsPosted(Tail(q), n)
  <1>1. PICK i \in 1..Len(q) : q[i] = LogMessage(n)
    BY DEF IsPosted
  <1>2. /\ Len(q) \in Nat /\ Len(Tail(q)) = Len(q) - 1
        /\ \A j \in 1..Len(Tail(q)) : Tail(q)[j] = q[j + 1]
    BY Shorter
  <1>3. CASE i = 1
    BY <1>1, <1>3
  <1>4. CASE i # 1
    <2>1. i - 1 \in 1..Len(Tail(q)) /\ (i - 1) + 1 = i
      BY <1>2, <1>4
    <2>2. Tail(q)[i - 1] = LogMessage(n)
      BY <1>1, <1>2, <2>1
    <2> QED
      BY <2>1, <2>2 DEF IsPosted
  <1> QED
    BY <1>3, <1>4

LEMMA WayKept ==
    ASSUME Shape, Way, Step, Shape'
    PROVE  Way'
  <1>1. HandlerShape /\ FileShape /\ QueueShape
    BY DEF Shape
  <1>2. ASSUME NEW b, Grows(b), failed' = failed, todo' = todo,
               mode # "snapshot" \/ mode' = mode,
               \A n \in Elements(b) : n \in Elements(logbuffer) \/ ~(n \in Int /\ n > born)
        PROVE  Way'
    <2>1. /\ alive' = alive /\ file' = file /\ born' = born /\ lines \in Nat
          /\ Follows(b, queue, lines, logbuffer', queue', lines')
          /\ \A n \in Elements(logbuffer') :
                n \in Elements(b) \/ (n \in (lines + 1)..lines' /\ IsPosted(queue', n))
      BY <1>2 DEF Grows, Follows
    <2>2. \A n : IsPosted(queue, n) => IsPosted(queue', n)
      BY <2>1, StillThere
    <2> SUFFICES ASSUME alive', ~failed', mode' # "snapshot",
                        NEW n \in Elements(logbuffer'), n \in Int, n > born'
                 PROVE  InFile(n)' \/ n \in Elements(todo') \/ IsPosted(queue', n)
      BY DEF Way
    <2>3. alive /\ ~failed /\ mode # "snapshot"
      BY <1>2, <2>1
    <2>4. CASE n \in Elements(logbuffer)
      <3>1. InFile(n) \/ n \in Elements(todo) \/ IsPosted(queue, n)
        BY <2>1, <2>3, <2>4 DEF Way
      <3> QED
        BY <1>2, <2>1, <2>2, <3>1 DEF InFile
    <2> QED
      BY <1>2, <2>1, <2>4
  <1>3. CASE Speaks \/ Clears \/ PassesOver \/ StopsReading
    <2>1. /\ Grows(logbuffer) /\ failed' = failed /\ todo' = todo
          /\ (mode # "snapshot" \/ mode' = mode)
      BY <1>3 DEF Speaks, Clears, PassesOver, StopsReading
    <2> QED
      BY <1>2, <2>1
  <1>4. CASE Restores
    <2>1. PICK n \in LinesTo(born - 1) : Grows(<<n>> \o logbuffer)
      BY <1>4 DEF Restores
    <2>2. mode # "snapshot" /\ failed' = failed /\ todo' = todo
      BY <1>4 DEF Restores
    <2>3. Elements(<<n>> \o logbuffer) = Elements(logbuffer) \cup {n}
      <3>1. IsQueue(logbuffer)
        BY <1>1, <2>1 DEF Grows, QueueShape, Good
      <3> QED
        BY <3>1, InFront
    <2>4. ~(n \in Int /\ n > born)
      BY <1>1, ConstantsAssumption DEF FileShape, LinesTo
    <2> QED
      BY <1>2, <2>1, <2>2, <2>3, <2>4
  <1>5. CASE GivesUp
    BY <1>5 DEF GivesUp, Way
  <1>6. ASSUME Same, Served("LOG_INIT") \/ Served("FLUSH_TO_DISK"), file' = file, todo' = todo
        PROVE  Way'
    <2>1. /\ alive /\ logbuffer' = logbuffer /\ born' = born /\ failed' = failed /\ alive' = alive
          /\ queue # <<>> /\ queue' = Tail(queue) /\ mode = "idle"
          /\ queue[1].what \in {"LOG_INIT", "FLUSH_TO_DISK"}
      BY <1>6 DEF Same, Served
    <2>2. IsQueue(queue)
      BY <1>1, <2>1 DEF QueueShape, Good
    <2>3. ASSUME NEW n, IsPosted(queue, n)
          PROVE  IsPosted(queue', n)
      <3>1. LogMessage(n).what = "LOG_MESSAGE"
        BY MessageIs
      <3>2. queue[1] # LogMessage(n)
        BY <2>1, <3>1
      <3> QED
        BY <2>1, <2>2, <2>3, <3>2, PostedShorter
    <2> QED
      BY <1>6, <2>1, <2>3 DEF Way, InFile
  <1>7. CASE StartsReading
    BY <1>6, <1>7 DEF StartsReading
  <1>8. CASE Opens
    <2>1. /\ alive /\ mode = "opening" /\ alive' = alive /\ logbuffer' = logbuffer /\ born' = born
          /\ failed' = failed /\ queue' = queue /\ todo' = todo
      BY <1>8 DEF Opens, Same, Rests
    <2>2. ~opened
      BY <1>1, <2>1 DEF HandlerShape
    <2>3. file # None => \A i \in 1..Len(file) : file[i].line \in LinesTo(born - 1)
      BY <1>1, <2>1, <2>2 DEF FileShape
    <2>4. \A n : n \in Int /\ n > born => ~InFile(n)
      <3>1. \A n : n \in Int /\ n > born => n \notin LinesTo(born - 1)
        BY <1>1, ConstantsAssumption DEF FileShape, LinesTo
      <3> QED
        BY <2>3, <3>1 DEF InFile
    <2> QED
      BY <2>1, <2>4 DEF Way
  <1>9. CASE StartsWriting
    <2>1. /\ alive /\ alive' = alive /\ logbuffer' = logbuffer /\ born' = born /\ failed' = failed
          /\ queue # <<>> /\ queue' = Tail(queue) /\ mode = "idle" /\ file' = file
          /\ todo' = <<queue[1].line>>
      BY <1>9 DEF StartsWriting, Same, Served
    <2>2. IsQueue(queue) /\ todo = <<>>
      BY <1>1, <2>1 DEF QueueShape, Good, HandlerShape
    <2>3. ASSUME NEW n, IsPosted(queue, n)
          PROVE  IsPosted(queue', n) \/ n \in Elements(todo')
      <3>1. CASE queue[1] = LogMessage(n)
        <4>1. queue[1].line = n
          BY <3>1, MessageIs
        <4>2. todo' \in Seq({n}) /\ Len(todo') = 1 /\ todo'[1] = n
          BY <2>1, <4>1
        <4> QED
          BY <4>2 DEF Elements
      <3>2. CASE queue[1] # LogMessage(n)
        BY <2>1, <2>2, <2>3, <3>2, PostedShorter
      <3> QED
        BY <3>1, <3>2
    <2>4. \A n : n \notin Elements(todo)
      BY <2>2, EmptyQueue
    <2> QED
      BY <2>1, <2>3, <2>4 DEF Way, InFile
  <1>10. CASE Skips
    <2>1. CASE Served("FLUSH_TO_DISK")
      <3>1. Same /\ file' = file /\ todo' = todo
        BY <1>10 DEF Skips, Rests
      <3> QED
        BY <1>6, <2>1, <3>1
    <2>2. CASE Served("LOG_MESSAGE") /\ ~opened
      <3>1. failed
        <4>1. alive /\ mode = "idle" /\ queue # <<>> /\ queue[1].what = "LOG_MESSAGE"
          BY <2>2 DEF Served
        <4> QED
          BY <1>1, <2>2, <4>1 DEF QueueShape
      <3>2. failed' = failed
        BY <1>10 DEF Skips, Same
      <3> QED
        BY <3>1, <3>2 DEF Way
    <2> QED
      BY <1>10, <2>1, <2>2 DEF Skips
  <1>11. CASE StartsTrim
    BY <1>11 DEF StartsTrim, Way
  <1>12. CASE TakesSnapshot
    BY <1>12 DEF TakesSnapshot, Same, Way
  <1>13. CASE Begins
    <2>1. /\ alive' = alive /\ logbuffer' = logbuffer /\ born' = born /\ failed' = failed
          /\ queue' = queue /\ todo' = todo /\ mode = "writing"
      BY <1>13 DEF Begins, Same, Rests
    <2>2. ASSUME NEW n, InFile(n)
          PROVE  InFile(n)'
      <3>1. PICK i \in 1..Len(file) : file[i].whole /\ file[i].line = n
        BY <2>2 DEF InFile
      <3>2. /\ file' \in Seq(Record) /\ Len(file) \in Nat /\ Len(file') = Len(file) + 1
            /\ \A j \in 1..Len(file) : file'[j] = file[j]
        BY <1>13, BeginsIs
      <3>3. i \in 1..Len(file') /\ file'[i] = file[i] /\ file' # None
        BY <3>1, <3>2, NoFile
      <3> QED
        BY <3>1, <3>3 DEF InFile
    <2> QED
      BY <2>1, <2>2 DEF Way
  <1>14. CASE Completes
    <2>1. /\ alive' = alive /\ logbuffer' = logbuffer /\ born' = born /\ failed' = failed
          /\ queue' = queue /\ todo' = Tail(todo) /\ mode = "record"
      BY <1>14 DEF Completes, Same
    <2>2. /\ file' \in Seq(Record) /\ Len(file) \in Nat \ {0} /\ Len(file') = Len(file)
          /\ \A i \in 1..Len(file) : file'[i].line = file[i].line /\ (file[i].whole => file'[i].whole)
          /\ file'[Len(file)].whole /\ file[Len(file)].line = todo[1]
          /\ todo # <<>> /\ IsQueue(todo)
      BY <1>14, CompletesIs
    <2>3. file' # None /\ Len(file) \in 1..Len(file')
      BY <2>2, NoFile
    <2>4. ASSUME NEW n, InFile(n)
          PROVE  InFile(n)'
      BY <2>2, <2>3, <2>4 DEF InFile
    <2>5. ASSUME NEW n, n = todo[1]
          PROVE  InFile(n)'
      BY <2>2, <2>3, <2>5 DEF InFile
    <2>6. Elements(todo) = Elements(todo') \cup {todo[1]}
      BY <2>1, <2>2, Shorter
    <2> QED
      BY <2>1, <2>4, <2>5, <2>6 DEF Way
  <1>15. CASE IsBorn
    <2>1. logbuffer' = <<lines + 1>> /\ born' = lines + 1
      BY <1>15 DEF IsBorn
    <2>2. lines \in Nat
      BY <1>1 DEF FileShape
    <2>3. Elements(logbuffer') = {lines + 1}
      <3> DEFINE l == lines
      <3>1. Elements(<<l + 1>>) = {l + 1}
        BY <2>2, FirstLine
      <3> QED
        BY <2>1, <3>1
    <2> QED
      BY <2>1, <2>2, <2>3 DEF Way
  <1>16. CASE Ends
    BY <1>16 DEF Ends, Dies, Way
  <1> QED
    BY <1>3, <1>4, <1>5, <1>7, <1>8, <1>9, <1>10, <1>11, <1>12, <1>13, <1>14, <1>15, <1>16
    DEF Step, GoesOn
------------------------------------------------------------------------------
(* The file fits.                                                              *)

Pending ==
    IF mode = "writing" THEN Len(todo) ELSE IF mode = "record" THEN Len(todo) - 1 ELSE 0

HasRoom ==
    /\ opened /\ mode # "snapshot" => Fits(logbuffer, queue, lines, Len(file) + Pending)
    /\ file # None => Len(file) <= 2 * Limit
    /\ mode = "snapshot" => file = <<>>

\* There is room unless the last truncation failed.
Room == ~untrimmed => HasRoom

LEMMA SizesAre ==
    ASSUME Shape
    PROVE  /\ Limit \in Nat /\ Len(todo) \in Nat /\ Pending \in Nat
           /\ file # None => Len(file) \in Nat
           /\ mode \in {"writing", "record"} => Len(todo) > 0
  <1>1. IsQueue(todo) /\ (todo # <<>> <=> mode \in {"writing", "record"})
    BY DEF Shape, HandlerShape
  <1>2. Len(todo) \in Nat /\ (todo # <<>> => Len(todo) > 0)
    <2>1. Len(todo) \in Nat
      BY <1>1, Longer
    <2>2. todo # <<>> => Len(todo) \in Nat \ {0}
      BY <1>1, Shorter
    <2> QED
      BY <2>1, <2>2
  <1>3. file # None => Len(file) \in Nat
    BY NoFile DEF Shape, FileShape
  <1>4. Pending \in Nat
    BY <1>1, <1>2 DEF Pending
  <1> QED
    BY <1>1, <1>2, <1>3, <1>4, LimitIs

LEMMA RoomKept ==
    ASSUME Shape, Room, Step, Heals, Shape'
    PROVE  Room'
  <1> SUFFICES ASSUME ~untrimmed' PROVE HasRoom'
    BY DEF Room
  <1>0. HasRoom \/ Opens \/ StartsTrim
    BY DEF Room, Heals
  <1>1. HandlerShape /\ FileShape /\ QueueShape
    BY DEF Shape
  <1>2. /\ Limit \in Nat /\ Len(todo) \in Nat /\ Pending \in Nat
        /\ file # None => Len(file) \in Nat
        /\ mode \in {"writing", "record"} => Len(todo) > 0
    BY SizesAre
  <1>3. opened => alive /\ file # None /\ Len(file) \in Nat /\ Good(logbuffer, queue, lines, born, Limit)
    BY <1>1, <1>2 DEF HandlerShape, QueueShape
  <1>4. CASE HasRoom /\ (Speaks \/ Clears)
    <2>1. Grows(logbuffer) /\ mode' = mode /\ todo' = todo
      BY <1>4 DEF Speaks, Clears
    <2>2. /\ opened' = opened /\ file' = file
          /\ \A F \in Nat : Fits(logbuffer, queue, lines, F) => Fits(logbuffer', queue', lines', F)
      BY <2>1 DEF Grows, Follows
    <2>3. Pending' = Pending
      BY <2>1 DEF Pending
    <2>4. opened' /\ mode' # "snapshot" => Fits(logbuffer', queue', lines', Len(file') + Pending')
      <3> SUFFICES ASSUME opened', mode' # "snapshot"
                   PROVE  Fits(logbuffer', queue', lines', Len(file') + Pending')
        OBVIOUS
      <3>1. opened /\ mode # "snapshot" /\ Len(file) + Pending \in Nat
        BY <1>2, <1>3, <2>1, <2>2
      <3>2. Fits(logbuffer, queue, lines, Len(file) + Pending)
        BY <1>4, <3>1 DEF HasRoom
      <3> QED
        BY <2>2, <2>3, <3>1, <3>2
    <2> QED
      BY <1>4, <2>1, <2>2, <2>4 DEF HasRoom
  <1>5. ASSUME HasRoom, ~opened', file' = file
        PROVE  HasRoom'
    BY <1>5 DEF HasRoom, Shape, HandlerShape
  <1>6. CASE HasRoom /\ (PassesOver \/ StopsReading \/ Restores \/ StartsReading)
    <2>1. opened' = opened /\ file' = file
      <3>1. CASE Restores
        BY <3>1, RestoresKeeps
      <3>2. CASE PassesOver \/ StopsReading \/ StartsReading
        BY <3>2 DEF PassesOver, StopsReading, StartsReading, Grows
      <3> QED
        BY <1>6, <3>1, <3>2
    <2>2. mode' \in {"reading", "opening"}
      BY <1>6 DEF PassesOver, StopsReading, Restores, StartsReading
    <2>3. ~opened'
      BY <2>2 DEF Shape, HandlerShape
    <2> QED
      BY <1>5, <1>6, <2>1, <2>3
  <1>7. CASE HasRoom /\ GivesUp
    <2>1. /\ Grows(logbuffer) /\ mode # "snapshot" /\ mode' = "idle"
      BY <1>7 DEF GivesUp
    <2>2. /\ opened' = opened /\ file' = file
          /\ \A F \in Nat : Fits(logbuffer, queue, lines, F) => Fits(logbuffer', queue', lines', F)
      BY <2>1 DEF Grows, Follows
    <2>3. opened' => Fits(logbuffer', queue', lines', Len(file') + Pending')
      <3> SUFFICES ASSUME opened'
                   PROVE  Fits(logbuffer', queue', lines', Len(file') + Pending')
        OBVIOUS
      <3>1. /\ opened /\ Len(file) \in Nat /\ Len(file) + Pending \in Nat
            /\ Len(file) <= Len(file) + Pending /\ Good(logbuffer, queue, lines, born, Limit)
        BY <1>2, <1>3, <2>2
      <3>2. Fits(logbuffer, queue, lines, Len(file) + Pending)
        BY <1>7, <2>1, <3>1 DEF HasRoom
      <3>3. Fits(logbuffer, queue, lines, Len(file))
        BY <3>1, <3>2, FitsLess
      <3>4. Len(file') + Pending' = Len(file)
        BY <2>1, <2>2, <3>1 DEF Pending
      <3> QED
        BY <2>2, <3>1, <3>3, <3>4
    <2> QED
      BY <1>7, <2>1, <2>2, <2>3 DEF HasRoom
  <1>8. ASSUME Same, NEW F \in Nat, Fits(logbuffer, queue', lines, F), Len(file') + Pending' = F,
               Len(file') \in Nat, Len(file') <= F, mode' # "snapshot"
        PROVE  HasRoom'
    <2>1. logbuffer' = logbuffer /\ lines' = lines
      BY <1>8 DEF Same
    <2>2. F <= 2 * Limit
      BY <1>8 DEF Fits
    <2>3. Len(file') <= 2 * Limit
      BY <1>2, <1>8, <2>2
    <2> QED
      BY <1>8, <2>1, <2>3 DEF HasRoom
  <1>9. CASE Opens
    <2>1. /\ Same /\ alive /\ queue' = queue /\ mode' = "idle" /\ file' = <<>>
      BY <1>9 DEF Opens
    <2>2. Good(logbuffer, queue, lines, born, Limit)
      BY <1>1, <2>1 DEF QueueShape
    <2>3. Fits(logbuffer, queue, lines, Len(logbuffer)) /\ Len(logbuffer) \in Nat
      BY <2>2, FitsBuffer, LinesAre
    <2>4. Fits(logbuffer, queue, lines, 0)
      BY <2>2, <2>3, FitsLess
    <2>5. Len(file') = 0 /\ Pending' = 0
      BY <2>1, EmptyQueue DEF Pending
    <2> QED
      BY <1>8, <2>1, <2>4, <2>5
  <1>10. CASE HasRoom /\ StartsWriting
    <2>1. /\ Same /\ alive /\ opened /\ mode = "idle" /\ mode' = "writing" /\ file' = file
          /\ todo' = <<queue[1].line>> /\ queue # <<>> /\ queue[1].what = "LOG_MESSAGE"
          /\ queue' = Tail(queue)
      BY <1>10 DEF StartsWriting, Served
    <2>2. Pending = 0 /\ Pending' = 1
      BY <2>1 DEF Pending
    <2>3. /\ Len(file) \in Nat /\ Good(logbuffer, queue, lines, born, Limit)
          /\ Fits(logbuffer, queue, lines, Len(file))
      BY <1>3, <1>10, <2>1, <2>2 DEF HasRoom
    <2>4. Fits(logbuffer, queue', lines, Len(file) + 1)
      BY <2>1, <2>3, FitsTaken
    <2>5. Len(file) + 1 \in Nat /\ Len(file') + Pending' = Len(file) + 1 /\ Len(file') <= Len(file) + 1
      BY <2>1, <2>2, <2>3
    <2> QED
      BY <1>8, <2>1, <2>3, <2>4, <2>5
  <1>11. CASE HasRoom /\ Skips
    <2>1. Same /\ opened' = opened /\ file' = file /\ mode' = mode /\ todo' = todo
      BY <1>11 DEF Skips, Rests
    <2>2. CASE ~opened
      BY <1>5, <1>11, <2>1, <2>2
    <2>3. CASE opened /\ Served("FLUSH_TO_DISK")
      <3>1. queue # <<>> /\ queue[1].what = "FLUSH_TO_DISK" /\ queue' = Tail(queue) /\ mode = "idle"
        BY <2>3 DEF Served
      <3>2. /\ Len(file) \in Nat /\ Len(file) + Pending \in Nat /\ Good(logbuffer, queue, lines, born, Limit)
            /\ Fits(logbuffer, queue, lines, Len(file) + Pending)
        BY <1>2, <1>3, <1>11, <2>3, <3>1 DEF HasRoom
      <3>3. Fits(logbuffer, queue', lines, Len(file) + Pending)
        BY <3>1, <3>2, FitsShorter
      <3>4. Pending' = Pending /\ Len(file') <= Len(file) + Pending
        BY <1>2, <2>1, <3>2 DEF Pending
      <3> QED
        BY <1>8, <2>1, <3>1, <3>2, <3>3, <3>4
    <2> QED
      BY <1>11, <2>2, <2>3 DEF Skips
  <1>12. CASE StartsTrim
    <2>1. mode' = "snapshot" /\ file' = <<>>
      BY <1>12 DEF StartsTrim
    <2>2. Len(file') <= 2 * Limit
      BY <1>2, <2>1, EmptyQueue
    <2> QED
      BY <2>1, <2>2 DEF HasRoom
  <1>13. CASE HasRoom /\ TakesSnapshot
    <2>1. /\ Same /\ alive /\ queue' = queue /\ mode = "snapshot" /\ mode' = "writing"
          /\ todo' = logbuffer /\ file' = file
      BY <1>13 DEF TakesSnapshot
    <2>2. Good(logbuffer, queue, lines, born, Limit) /\ file = <<>>
      BY <1>1, <1>13, <2>1 DEF QueueShape, HasRoom
    <2>3. Fits(logbuffer, queue, lines, Len(logbuffer)) /\ Len(logbuffer) \in Nat
      BY <2>2, FitsBuffer, LinesAre
    <2>4. Len(file') = 0 /\ Pending' = Len(logbuffer)
      BY <2>1, <2>2, EmptyQueue DEF Pending
    <2>5. Len(file') + Pending' = Len(logbuffer) /\ Len(file') \in Nat /\ Len(file') <= Len(logbuffer)
      BY <2>3, <2>4
    <2> QED
      BY <1>8, <2>1, <2>3, <2>5
  <1>14. CASE HasRoom /\ Begins
    <2>1. /\ Same /\ queue' = queue /\ todo' = todo /\ mode = "writing" /\ mode' = "record"
      BY <1>14 DEF Begins, Rests
    <2>2. opened /\ Len(file') = Len(file) + 1
      BY <1>1, <1>14, <2>1, BeginsIs DEF HandlerShape
    <2>3. Pending = Len(todo) /\ Pending' = Len(todo) - 1
      BY <2>1 DEF Pending
    <2>4. Fits(logbuffer, queue', lines, Len(file) + Pending)
      BY <1>14, <2>1, <2>2 DEF HasRoom
    <2>5. /\ Len(file) + Pending \in Nat /\ Len(file') + Pending' = Len(file) + Pending
          /\ Len(file') \in Nat /\ Len(file') <= Len(file) + Pending
      BY <1>2, <1>3, <2>1, <2>2, <2>3
    <2> QED
      BY <1>8, <2>1, <2>4, <2>5
  <1>15. CASE HasRoom /\ Completes
    <2>1. /\ Same /\ queue' = queue /\ todo' = Tail(todo) /\ mode = "record"
          /\ mode' = (IF Tail(todo) = <<>> THEN "idle" ELSE "writing")
      BY <1>15 DEF Completes
    <2>2. /\ opened /\ Len(file') = Len(file)
      BY <1>1, <1>15, <2>1, CompletesIs DEF HandlerShape
    <2>3. Len(todo') = Len(todo) - 1
      BY <1>15, <2>1, CompletesIs, Shorter
    <2>4. Pending = Len(todo) - 1 /\ Pending' = Len(todo) - 1
      <3>1. Pending = Len(todo) - 1
        BY <2>1 DEF Pending
      <3>2. CASE Tail(todo) = <<>>
        <4>1. Len(todo') = 0 /\ Pending' = 0
          BY <2>1, <3>2, EmptyQueue DEF Pending
        <4> QED
          BY <2>3, <3>1, <4>1
      <3>3. CASE Tail(todo) # <<>>
        BY <2>1, <2>3, <3>1, <3>3 DEF Pending
      <3> QED
        BY <3>2, <3>3
    <2>5. Fits(logbuffer, queue', lines, Len(file) + Pending)
      BY <1>15, <2>1, <2>2 DEF HasRoom
    <2>6. /\ Len(file) + Pending \in Nat /\ Len(file') + Pending' = Len(file) + Pending
          /\ Len(file') \in Nat /\ Len(file') <= Len(file) + Pending
      BY <1>2, <1>3, <2>2, <2>4
    <2> QED
      BY <1>8, <2>1, <2>5, <2>6
  <1>16. CASE HasRoom /\ IsBorn
    <2>1. ~alive /\ opened' = opened /\ file' = file
      BY <1>16 DEF IsBorn
    <2>2. ~opened
      BY <1>1, <2>1 DEF QueueShape
    <2> QED
      BY <1>5, <1>16, <2>1, <2>2
  <1>17. CASE HasRoom /\ Ends
    <2>1. opened' = FALSE /\ file' = file
      BY <1>17 DEF Ends, Dies
    <2> QED
      BY <1>5, <1>17, <2>1
  <1> QED
    BY <1>0, <1>4, <1>6, <1>7, <1>9, <1>10, <1>11, <1>12, <1>13, <1>14, <1>15, <1>16, <1>17
    DEF Step, GoesOn
------------------------------------------------------------------------------
(* What was cleared stays away.                                                *)

\* Of the lines up to c none is in the buffer, and those that are posted are
\* followed by a trim.
Gone(b, q, c) ==
    /\ \A n \in 1..c : n \notin Elements(b)
    /\ \A i \in MessagesAt(q) : q[i].line <= c => \E k \in TrimsAt(q) : k > i

Away ==
    /\ Gone(logbuffer, queue, cleared)
    /\ cleared > 0 => mode # "reading" /\ ~Queued("LOG_INIT")
    /\ opened /\ ~untrimmed /\ mode # "snapshot" /\ TrimsAt(queue) = {} =>
          \A n \in 1..cleared : n \notin Elements(todo) /\ \A i \in 1..Len(file) : file[i].line # n

LEMMA GoneShorter ==
    ASSUME NEW b, NEW q, IsQueue(q), q # <<>>, NEW c, Gone(b, q, c)
    PROVE  Gone(b, Tail(q), c)
  <1> DEFINE r == Tail(q)
  <1>1. \A i \in MessagesAt(r) : i \in Nat /\ i + 1 \in MessagesAt(q) /\ r[i] = q[i + 1]
    BY AtShorter DEF MessagesAt
  <1>2. \A k \in TrimsAt(q) : k \in Nat \ {0} /\ (k = 1 \/ k - 1 \in TrimsAt(r))
    BY AtShorter DEF TrimsAt
  <1> HIDE DEF r
  <1>3. ASSUME NEW i \in MessagesAt(r), r[i].line <= c
        PROVE  \E k \in TrimsAt(r) : k > i
    <2>1. i \in Nat /\ i + 1 \in MessagesAt(q) /\ q[i + 1].line <= c
      BY <1>1, <1>3
    <2>2. PICK k \in TrimsAt(q) : k > i + 1
      BY <2>1 DEF Gone
    <2>3. k - 1 \in TrimsAt(r) /\ k - 1 > i
      BY <1>2, <2>1, <2>2
    <2> QED
      BY <2>3
  <1>4. Gone(b, r, c)
    BY <1>3 DEF Gone
  <1> QED
    BY <1>4 DEF r

\* A trim is served before what comes behind it.
LEMMA TrimsShorter ==
    ASSUME NEW q, IsQueue(q), q # <<>>, q[1].what # "TRIM_LOG_FILE", TrimsAt(Tail(q)) = {}
    PROVE  TrimsAt(q) = {}
  <1>1. \A k \in TrimsAt(q) : k = 1 \/ k - 1 \in TrimsAt(Tail(q))
    BY AtShorter DEF TrimsAt
  <1>2. 1 \notin TrimsAt(q)
    BY AtShorter DEF TrimsAt
  <1> QED
    BY <1>1, <1>2

LEMMA AwayGrows ==
    ASSUME Shape, Away, NEW b, Grows(b), \A n \in 1..cleared : n \notin Elements(b),
           cleared' = cleared, todo' = todo \/ todo' = <<>>,
           mode' = "reading" => mode = "reading", mode = "snapshot" => mode' = "snapshot",
           untrimmed => untrimmed'
    PROVE  Away'
  <1>1. /\ opened' = opened /\ file' = file /\ Len(queue) \in Nat /\ Len(queue') \in Nat
        /\ Len(queue) <= Len(queue')
        /\ \A i \in 1..Len(queue) : queue'[i] = queue[i]
        /\ \A i \in (Len(queue) + 1)..Len(queue') : Sent(queue'[i], lines)
        /\ \A n \in Elements(logbuffer') :
              n \in Elements(b) \/ (n \in (lines + 1)..lines' /\ IsPosted(queue', n))
    BY DEF Grows, Follows
  <1>2. cleared \in Nat /\ lines \in Nat /\ cleared <= lines
    BY DEF Shape, FileShape
  <1>3. TrimsAt(queue) \subseteq TrimsAt(queue')
    BY StillThere DEF Grows
  <1>4. \A n \in 1..cleared : n \notin Elements(logbuffer')
    BY <1>1, <1>2 DEF Grows, Follows
  <1>5. ASSUME NEW i \in MessagesAt(queue'), queue'[i].line <= cleared
        PROVE  \E k \in TrimsAt(queue') : k > i
    <2>1. i \in 1..Len(queue') /\ queue'[i].what = "LOG_MESSAGE"
      BY <1>5 DEF MessagesAt, At
    <2>2. i \in 1..Len(queue)
      <3>1. CASE i \in (Len(queue) + 1)..Len(queue')
        <4>1. queue'[i].line \in Nat /\ queue'[i].line > lines
          BY <1>1, <2>1, <3>1 DEF Sent
        <4> QED
          BY <1>2, <1>5, <4>1
      <3> QED
        BY <1>1, <2>1, <3>1
    <2>3. i \in MessagesAt(queue) /\ queue[i].line <= cleared
      BY <1>1, <1>5, <2>1, <2>2 DEF MessagesAt, At
    <2>4. PICK k \in TrimsAt(queue) : k > i
      BY <2>3 DEF Away, Gone
    <2> QED
      BY <1>3, <2>4
  <1>6. Gone(logbuffer', queue', cleared')
    BY <1>4, <1>5 DEF Gone
  <1>7. ~Queued("LOG_INIT") => ~Queued("LOG_INIT")'
    <2>1. \A i \in 1..Len(queue') : queue'[i].what = "LOG_INIT" => i \in 1..Len(queue)
      BY <1>1 DEF Sent
    <2> QED
      BY <1>1, <2>1 DEF Queued
  <1>8. cleared' > 0 => mode' # "reading" /\ ~Queued("LOG_INIT")'
    BY <1>7 DEF Away
  <1>9. TrimsAt(queue') = {} => TrimsAt(queue) = {}
    BY <1>3
  <1>10. opened' /\ ~untrimmed' /\ mode' # "snapshot" /\ TrimsAt(queue') = {} =>
             \A n \in 1..cleared' : /\ n \notin Elements(todo')
                                    /\ \A i \in 1..Len(file') : file'[i].line # n
    BY <1>1, <1>9, EmptyQueue DEF Away
  <1> QED
    BY <1>6, <1>8, <1>10 DEF Away

LEMMA AwayKept ==
    ASSUME Shape, Room, Away, ~EarlyClear, Step, Heals, Shape'
    PROVE  Away'
  <1>0. (untrimmed => untrimmed') \/ Opens \/ StartsTrim
    BY DEF Heals
  <1>1. HandlerShape /\ FileShape /\ QueueShape
    BY DEF Shape
  <1>2. cleared \in Nat /\ lines \in Nat /\ born \in Nat
    BY <1>1 DEF FileShape
  <1>3. /\ \A n \in 1..cleared : n \notin Elements(logbuffer)
        /\ Gone(logbuffer, queue, cleared)
    BY DEF Away, Gone
  <1>4. CASE (untrimmed => untrimmed') /\ (Speaks \/ PassesOver \/ StopsReading \/ GivesUp)
    <2>1. /\ Grows(logbuffer) /\ cleared' = cleared /\ (todo' = todo \/ todo' = <<>>)
          /\ (mode' = "reading" => mode = "reading") /\ (mode = "snapshot" => mode' = "snapshot")
      BY <1>4 DEF Speaks, PassesOver, StopsReading, GivesUp
    <2> QED
      BY <1>3, <1>4, <2>1, AwayGrows
  <1>5. CASE (untrimmed => untrimmed') /\ Restores
    <2>1. PICK n \in LinesTo(born - 1) : Grows(<<n>> \o logbuffer)
      BY <1>5 DEF Restores
    <2>2. mode = "reading" /\ mode' = "reading" /\ cleared' = cleared /\ todo' = todo
      BY <1>5 DEF Restores
    <2>3. \A m \in 1..cleared : FALSE
      BY <1>2, <2>2 DEF Away
    <2> QED
      BY <1>5, <2>1, <2>2, <2>3, AwayGrows
  <1>6. CASE Clears
    <2> DEFINE k == Len(queue')
    <2>1. /\ Grows(logbuffer) /\ cleared' = lines /\ mode' = mode
          /\ mode # "reading" /\ ~Queued("LOG_INIT")
          /\ Elements(logbuffer') = {lines + 1} /\ k \in TrimsAt(queue')
      BY <1>6 DEF Clears
    <2>2. /\ Good(logbuffer', queue', lines', born, Limit)
          /\ Len(queue) \in Nat /\ k \in Nat
          /\ \A i \in 1..Len(queue) : queue'[i] = queue[i]
          /\ \A i \in (Len(queue) + 1)..k : Sent(queue'[i], lines)
      BY <2>1 DEF Grows, Follows
    <2>3. \A i \in MessagesAt(queue') : i \in 1..k /\ queue'[i].what = "LOG_MESSAGE"
      BY <2>2, LinesAre
    <2>4. queue'[k].what = "TRIM_LOG_FILE"
      BY <2>1, <2>2, LinesAre
    <2>5. \A i \in MessagesAt(queue') : k > i
      <3> TAKE i \in MessagesAt(queue')
      <3>1. i # k
        BY <2>3, <2>4
      <3> QED
        BY <2>2, <2>3, <3>1
    <2>6. \A n \in 1..lines : n \notin Elements(logbuffer')
      BY <1>2, <2>1
    <2> HIDE DEF k
    <2>7. Gone(logbuffer', queue', cleared')
      BY <2>1, <2>5, <2>6 DEF Gone
    <2>8. ~Queued("LOG_INIT")'
      <3>1. \A i \in 1..k : i \in 1..Len(queue) \/ i \in (Len(queue) + 1)..k
        BY <2>2
      <3>2. \A i \in 1..k : queue'[i].what # "LOG_INIT"
        BY <2>1, <2>2, <3>1 DEF Sent, Queued
      <3> QED
        BY <3>2 DEF Queued, k
    <2> QED
      BY <2>1, <2>7, <2>8 DEF Away
  <1>7. ASSUME NEW w, Same, Served(w), mode' # "reading" \/ w = "LOG_INIT",
               opened' = opened,
               \/ mode' = "snapshot"
               \/ ~opened
               \/ /\ (untrimmed => untrimmed') /\ file' = file
                  /\ \/ w # "TRIM_LOG_FILE" /\ todo' = todo
                     \/ w = "LOG_MESSAGE" /\ todo' = <<queue[1].line>>
        PROVE  Away'
    <2>1. /\ alive /\ logbuffer' = logbuffer /\ cleared' = cleared /\ born' = born
          /\ queue # <<>> /\ queue[1].what = w /\ queue' = Tail(queue) /\ mode = "idle"
      BY <1>7 DEF Same, Served
    <2>2. Good(logbuffer, queue, lines, born, Limit) /\ IsQueue(queue)
      BY <1>1, <2>1 DEF QueueShape, Good
    <2>3. Gone(logbuffer', queue', cleared')
      BY <1>3, <2>1, <2>2, GoneShorter
    <2>4. /\ Len(queue) \in Nat \ {0} /\ Len(queue') = Len(queue) - 1
          /\ \A i \in 1..Len(queue') : queue'[i] = queue[i + 1]
      BY <2>1, <2>2, Shorter
    <2>5. Queued("LOG_INIT")' => Queued("LOG_INIT")
      <3>1. \A i \in 1..Len(queue') : i + 1 \in 1..Len(queue)
        BY <2>4
      <3> QED
        BY <2>4, <3>1 DEF Queued
    <2>6. w = "LOG_INIT" => Queued("LOG_INIT")
      <3>1. 1 \in 1..Len(queue)
        BY <2>4
      <3> QED
        BY <2>1, <3>1 DEF Queued
    <2>7. cleared' > 0 => mode' # "reading" /\ ~Queued("LOG_INIT")'
      BY <1>7, <2>1, <2>5, <2>6 DEF Away
    <2>8. ASSUME opened', ~untrimmed', mode' # "snapshot", TrimsAt(queue') = {}, NEW n \in 1..cleared'
          PROVE  n \notin Elements(todo') /\ \A i \in 1..Len(file') : file'[i].line # n
      <3>1. w # "TRIM_LOG_FILE" /\ file' = file
        BY <1>7, <2>8
      <3>2. TrimsAt(queue) = {}
        BY <2>1, <2>2, <2>8, <3>1, TrimsShorter
      <3>3. n \in 1..cleared /\ opened /\ ~untrimmed /\ mode # "snapshot"
        BY <1>7, <2>1, <2>8
      <3>4. n \notin Elements(todo) /\ \A i \in 1..Len(file) : file[i].line # n
        BY <3>2, <3>3 DEF Away
      <3>5. CASE todo' = todo
        BY <3>1, <3>4, <3>5
      <3>6. CASE w = "LOG_MESSAGE" /\ todo' = <<queue[1].line>>
        <4>1. 1 \in MessagesAt(queue)
          BY <2>1, <2>2, <3>6, AtShorter DEF MessagesAt
        <4>2. ~(queue[1].line <= cleared)
          BY <1>3, <3>2, <4>1 DEF Gone
        <4>3. queue[1].line # n
          BY <1>2, <3>3, <4>2
        <4>4. todo' \in Seq({queue[1].line})
          BY <3>6
        <4>5. Elements(todo') \subseteq {queue[1].line}
          BY <4>4, QueueOf
        <4> QED
          BY <3>1, <3>4, <4>3, <4>5
      <3> QED
        BY <1>7, <2>8, <3>5, <3>6
    <2> QED
      BY <2>3, <2>7, <2>8 DEF Away
  <1>8. CASE (untrimmed => untrimmed') /\ StartsReading
    <2>1. Same /\ Served("LOG_INIT") /\ opened' = opened /\ file' = file /\ todo' = todo
      BY <1>8 DEF StartsReading
    <2> QED
      BY <1>7, <1>8, <2>1
  <1>9. CASE (untrimmed => untrimmed') /\ StartsWriting
    <2>1. /\ Same /\ Served("LOG_MESSAGE") /\ opened' = opened /\ file' = file
          /\ todo' = <<queue[1].line>> /\ mode' # "reading"
      BY <1>9 DEF StartsWriting
    <2> QED
      BY <1>7, <1>9, <2>1
  <1>10. CASE (untrimmed => untrimmed') /\ Skips
    <2>1. /\ Same /\ opened' = opened /\ file' = file /\ todo' = todo /\ mode' = mode
          /\ (Served("LOG_MESSAGE") \/ Served("FLUSH_TO_DISK"))
      BY <1>10 DEF Skips, Rests
    <2>2. mode' # "reading"
      BY <2>1 DEF Served
    <2> QED
      BY <1>7, <1>10, <2>1, <2>2
  <1>11. CASE StartsTrim
    <2>1. Same /\ Served("TRIM_LOG_FILE") /\ opened' = opened /\ mode' = "snapshot"
      BY <1>11 DEF StartsTrim
    <2> QED
      BY <1>7, <2>1
  <1>12. ASSUME Same, queue' = queue, mode # "reading", mode' # "reading",
                opened' /\ ~untrimmed' /\ mode' # "snapshot" /\ TrimsAt(queue) = {} =>
                    \A n \in 1..cleared : /\ n \notin Elements(todo')
                                          /\ \A i \in 1..Len(file') : file'[i].line # n
         PROVE  Away'
    <2>1. logbuffer' = logbuffer /\ cleared' = cleared
      BY <1>12 DEF Same
    <2> QED
      BY <1>12, <2>1 DEF Away, Gone, Queued
  <1>13. CASE Opens
    <2>1. /\ Same /\ queue' = queue /\ mode = "opening" /\ mode' = "idle"
          /\ todo' = todo /\ file' = <<>>
      BY <1>13 DEF Opens, Rests
    <2>2. todo = <<>>
      BY <1>1, <2>1 DEF HandlerShape
    <2>3. Elements(todo') = {} /\ \A i \in 1..Len(file') : FALSE
      BY <2>1, <2>2, EmptyQueue
    <2> QED
      BY <1>12, <2>1, <2>3
  <1>14. CASE (untrimmed => untrimmed') /\ TakesSnapshot
    <2>1. /\ Same /\ queue' = queue /\ mode = "snapshot" /\ mode' = "writing"
          /\ todo' = logbuffer /\ file' = file
      BY <1>14 DEF TakesSnapshot
    <2>2. ASSUME ~untrimmed' PROVE \A i \in 1..Len(file') : FALSE
      <3>1. file = <<>>
        BY <1>14, <2>1, <2>2 DEF Room, HasRoom
      <3> QED
        BY <2>1, <3>1, EmptyQueue
    <2> QED
      BY <1>3, <1>12, <2>1, <2>2
  <1>15. CASE (untrimmed => untrimmed') /\ Begins
    <2>1. /\ Same /\ queue' = queue /\ mode = "writing" /\ mode' = "record" /\ todo' = todo
      BY <1>15 DEF Begins, Rests
    <2>2. /\ Len(file) \in Nat /\ Len(file') = Len(file) + 1 /\ file'[Len(file')].line = todo[1]
          /\ \A i \in 1..Len(file) : file'[i] = file[i]
          /\ todo[1] \in Elements(todo)
      BY <1>15, BeginsIs
    <2>3. opened
      BY <1>1, <2>1 DEF HandlerShape
    <2>4. ASSUME ~untrimmed', TrimsAt(queue) = {}, NEW n \in 1..cleared
          PROVE  n \notin Elements(todo') /\ \A i \in 1..Len(file') : file'[i].line # n
      <3>1. n \notin Elements(todo) /\ \A i \in 1..Len(file) : file[i].line # n
        BY <1>15, <2>1, <2>3, <2>4 DEF Away
      <3>2. \A i \in 1..Len(file') : i = Len(file') \/ i \in 1..Len(file)
        BY <2>2
      <3> QED
        BY <2>1, <2>2, <3>1, <3>2
    <2> QED
      BY <1>12, <2>1, <2>4
  <1>16. CASE (untrimmed => untrimmed') /\ Completes
    <2>1. /\ Same /\ queue' = queue /\ mode = "record" /\ mode' # "reading" /\ todo' = Tail(todo)
      BY <1>16 DEF Completes
    <2>2. /\ Len(file') = Len(file) /\ \A i \in 1..Len(file) : file'[i].line = file[i].line
          /\ Elements(todo) = Elements(todo') \cup {todo[1]}
      BY <1>16, <2>1, CompletesIs, Shorter
    <2>3. opened
      BY <1>1, <2>1 DEF HandlerShape
    <2>4. ASSUME ~untrimmed', TrimsAt(queue) = {}, NEW n \in 1..cleared
          PROVE  n \notin Elements(todo') /\ \A i \in 1..Len(file') : file'[i].line # n
      <3>1. n \notin Elements(todo) /\ \A i \in 1..Len(file) : file[i].line # n
        BY <1>16, <2>1, <2>3, <2>4 DEF Away
      <3> QED
        BY <2>2, <3>1
    <2> QED
      BY <1>12, <2>1, <2>4
  <1>17. CASE IsBorn
    <2> DEFINE q == <<Message("LOG_INIT")>>
    <2>1. cleared' = 0 /\ queue' = q
      BY <1>17 DEF IsBorn
    <2>2. MessagesAt(q) = {}
      BY <1>2, FirstLine
    <2> HIDE DEF q
    <2>3. \A n \in 1..0 : FALSE
      OBVIOUS
    <2> QED
      BY <2>1, <2>2, <2>3 DEF Away, Gone
  <1>18. CASE Ends
    <2>1. logbuffer' = <<>> /\ queue' = <<>> /\ mode' = "idle" /\ opened' = FALSE
      BY <1>18 DEF Ends, Dies
    <2>2. Elements(<<>>) = {} /\ \A i \in 1..Len(<<>>) : FALSE
      BY EmptyQueue
    <2>3. MessagesAt(<<>>) = {}
      BY <2>2 DEF MessagesAt, At
    <2>4. ~Queued("LOG_INIT")'
      BY <2>1, <2>2 DEF Queued
    <2> QED
      BY <2>1, <2>2, <2>3, <2>4 DEF Away, Gone
  <1> QED
    BY <1>0, <1>4, <1>5, <1>6, <1>8, <1>9, <1>10, <1>11, <1>13, <1>14, <1>15, <1>16, <1>17, <1>18
    DEF Step, GoesOn
------------------------------------------------------------------------------
(* What was read back is in the buffer.                                        *)

WholeTo(i) == \A j \in 1..i : file[j].whole

Restored ==
    mode = "reading" /\ TrimsAt(queue) = {} =>
        /\ itemsRead <= Len(logbuffer)
        /\ \A i \in 1..read : WholeTo(i) => file[i].line \in Elements(logbuffer)

\* A line that is logged is added to what was restored, unless there is a trim.
LEMMA Remains ==
    ASSUME NEW b, Grows(b), TrimsAt(queue') = {}
    PROVE  /\ TrimsAt(queue) = {} /\ file' = file
           /\ Elements(b) \subseteq Elements(logbuffer')
           /\ Len(b) \in Nat /\ Len(logbuffer') \in Nat /\ Len(b) <= Len(logbuffer')
           /\ Len(logbuffer') <= 2 * MAXLOGENTRIES
  <1>1. /\ Follows(b, queue, lines, logbuffer', queue', lines') /\ file' = file
        /\ Good(logbuffer', queue', lines', born, Limit)
    BY DEF Grows
  <1>2. TrimsAt(queue) \subseteq TrimsAt(queue')
    BY <1>1, StillThere
  <1>3. Len(logbuffer') <= Limit /\ Len(logbuffer') \in Nat
    BY <1>1 DEF Good, Follows
  <1>4. Len(logbuffer') <= 2 * MAXLOGENTRIES
    BY <1>3, LimitIs
  <1> QED
    BY <1>1, <1>2, <1>4 DEF Follows

LEMMA RestoredKept ==
    ASSUME Shape, Restored, Step
    PROVE  Restored'
  <1>1. mode = "reading" => read \in Nat /\ itemsRead \in Nat /\ Len(file) \in Nat /\ read <= Len(file)
    BY NoFile DEF Shape, HandlerShape, FileShape
  <1>2. CASE Speaks \/ Clears
    <2>1. Grows(logbuffer) /\ mode' = mode /\ read' = read /\ itemsRead' = itemsRead
      BY <1>2 DEF Speaks, Clears
    <2> SUFFICES ASSUME mode' = "reading", TrimsAt(queue') = {}
                 PROVE  /\ itemsRead' <= Len(logbuffer')
                        /\ \A i \in 1..read' : WholeTo(i)' => file'[i].line \in Elements(logbuffer')
      BY DEF Restored
    <2>2. /\ TrimsAt(queue) = {} /\ file' = file
          /\ Elements(logbuffer) \subseteq Elements(logbuffer')
          /\ Len(logbuffer) \in Nat /\ Len(logbuffer') \in Nat /\ Len(logbuffer) <= Len(logbuffer')
      BY <2>1, Remains
    <2>3. /\ itemsRead <= Len(logbuffer)
          /\ \A i \in 1..read : WholeTo(i) => file[i].line \in Elements(logbuffer)
      BY <2>1, <2>2 DEF Restored
    <2>4. itemsRead' <= Len(logbuffer')
      BY <1>1, <2>1, <2>2, <2>3
    <2> QED
      BY <2>1, <2>2, <2>3, <2>4 DEF WholeTo
  <1>3. CASE PassesOver
    <2>1. /\ Grows(logbuffer) /\ mode = "reading" /\ itemsRead' = itemsRead
          /\ read' \in Nat /\ read < read' /\ read' <= Len(file) /\ ~file[read + 1].whole
      BY <1>3 DEF PassesOver
    <2> SUFFICES ASSUME TrimsAt(queue') = {}
                 PROVE  /\ itemsRead' <= Len(logbuffer')
                        /\ \A i \in 1..read' : WholeTo(i)' => file'[i].line \in Elements(logbuffer')
      BY DEF Restored
    <2>2. /\ TrimsAt(queue) = {} /\ file' = file
          /\ Elements(logbuffer) \subseteq Elements(logbuffer')
          /\ Len(logbuffer) \in Nat /\ Len(logbuffer') \in Nat /\ Len(logbuffer) <= Len(logbuffer')
      BY <2>1, Remains
    <2>3. /\ itemsRead <= Len(logbuffer)
          /\ \A i \in 1..read : WholeTo(i) => file[i].line \in Elements(logbuffer)
      BY <2>1, <2>2 DEF Restored
    <2>4. itemsRead' <= Len(logbuffer')
      BY <1>1, <2>1, <2>2, <2>3
    <2>5. ASSUME NEW i \in 1..read', WholeTo(i)'
          PROVE  file'[i].line \in Elements(logbuffer')
      <3>1. \A j \in 1..i : file[j].whole
        BY <2>2, <2>5 DEF WholeTo
      <3>2. i \in 1..read
        BY <1>1, <2>1, <3>1
      <3> QED
        BY <2>2, <2>3, <3>1, <3>2 DEF WholeTo
    <2> QED
      BY <2>4, <2>5
  <1>4. CASE Restores
    <2>1. PICK n \in LinesTo(born - 1) :
              Grows(<<n>> \o logbuffer) /\ (file[read + 1].whole => n = file[read + 1].line)
      BY <1>4 DEF Restores
    <2> DEFINE b == <<n>> \o logbuffer
    <2>2. mode = "reading" /\ itemsRead' = itemsRead + 1 /\ read' = read + 1
      BY <1>4 DEF Restores
    <2>3. IsQueue(logbuffer)
      BY <2>1 DEF Grows, Shape, QueueShape, Good
    <2>4. /\ Len(logbuffer) \in Nat /\ Len(b) = Len(logbuffer) + 1
          /\ Elements(b) = Elements(logbuffer) \cup {n}
      BY <2>3, InFront
    <2> HIDE DEF b
    <2>5. Grows(b)
      BY <2>1 DEF b
    <2> SUFFICES ASSUME TrimsAt(queue') = {}
                 PROVE  /\ itemsRead' <= Len(logbuffer')
                        /\ \A i \in 1..read' : WholeTo(i)' => file'[i].line \in Elements(logbuffer')
      BY DEF Restored
    <2>6. /\ TrimsAt(queue) = {} /\ file' = file /\ Elements(b) \subseteq Elements(logbuffer')
          /\ Len(b) \in Nat /\ Len(logbuffer') \in Nat /\ Len(b) <= Len(logbuffer')
      BY <2>5, Remains
    <2>7. /\ itemsRead <= Len(logbuffer)
          /\ \A i \in 1..read : WholeTo(i) => file[i].line \in Elements(logbuffer)
      BY <2>2, <2>6 DEF Restored
    <2>8. itemsRead' <= Len(logbuffer')
      BY <1>1, <2>2, <2>4, <2>6, <2>7
    <2>9. ASSUME NEW i \in 1..read', WholeTo(i)'
          PROVE  file'[i].line \in Elements(logbuffer')
      <3>1. WholeTo(i) /\ i \in 1..i
        BY <1>1, <2>2, <2>6, <2>9 DEF WholeTo
      <3>2. CASE i = read + 1
        <4>1. file[read + 1].whole
          BY <3>1, <3>2 DEF WholeTo
        <4> QED
          BY <2>1, <2>4, <2>6, <3>2, <4>1
      <3>3. CASE i # read + 1
        <4>1. i \in 1..read
          BY <1>1, <2>2, <3>3
        <4> QED
          BY <2>4, <2>6, <2>7, <3>1, <4>1
      <3> QED
        BY <3>2, <3>3
    <2> QED
      BY <2>8, <2>9
  <1>5. CASE StartsReading
    <2>1. logbuffer' = logbuffer /\ read' = 0 /\ itemsRead' = 0 /\ alive
      BY <1>5 DEF StartsReading, Same, Served
    <2>2. Len(logbuffer) \in Nat
      BY <2>1, LinesAre DEF Shape, QueueShape
    <2>3. \A i \in 1..0 : FALSE
      OBVIOUS
    <2> QED
      BY <2>1, <2>2, <2>3 DEF Restored
  <1>6. ASSUME \/ StopsReading \/ GivesUp \/ Opens \/ StartsWriting \/ Skips \/ StartsTrim
               \/ TakesSnapshot \/ Begins \/ Completes \/ Ends \/ IsBorn
        PROVE  mode' # "reading"
    <2>1. CASE StopsReading \/ GivesUp \/ Opens \/ StartsWriting \/ StartsTrim \/ TakesSnapshot \/ Begins
      BY <2>1 DEF StopsReading, GivesUp, Opens, StartsWriting, StartsTrim, TakesSnapshot, Begins
    <2>2. CASE Skips
      BY <2>2 DEF Skips, Served
    <2>3. CASE Completes \/ Ends
      BY <2>3 DEF Completes, Ends, Dies
    <2>4. CASE IsBorn
      BY <2>4 DEF IsBorn, Shape, QueueShape
    <2> QED
      BY <1>6, <2>1, <2>2, <2>3, <2>4
  <1>7. mode' # "reading" => Restored'
    BY DEF Restored
  <1> QED
    BY <1>2, <1>3, <1>4, <1>5, <1>6, <1>7 DEF Step, GoesOn
------------------------------------------------------------------------------
(* The theorems.                                                               *)

Inv == Shape /\ Way /\ Room /\ Restored

LEMMA Initially ==
    ASSUME Init
    PROVE  Inv /\ Away
  <1>1. /\ alive = FALSE /\ logbuffer = <<>> /\ queue = <<>> /\ mode = "idle"
        /\ read = 0 /\ itemsRead = 0 /\ todo = <<>> /\ opened = FALSE /\ file = None
        /\ lines = 0 /\ born = 1 /\ cleared = 0
    BY DEF Init
  <1>2. IsQueue(<<>>) /\ Len(<<>>) = 0 /\ Elements(<<>>) = {}
    BY EmptyQueue
  <1>3. \A i \in 1..0 : FALSE
    OBVIOUS
  <1>4. HandlerShape
    BY <1>1, <1>2 DEF HandlerShape, Modes
  <1>5. FileShape
    BY <1>1, <1>2 DEF FileShape
  <1>6. QueueShape
    BY <1>1, <1>2, <1>3 DEF QueueShape
  <1>7. Way /\ Room /\ Restored
    BY <1>1 DEF Way, Room, HasRoom, Restored
  <1>8. MessagesAt(<<>>) = {} /\ ~Queued("LOG_INIT")
    BY <1>1, <1>2, <1>3 DEF MessagesAt, At, Queued
  <1>9. Away
    BY <1>1, <1>3, <1>8 DEF Away, Gone
  <1> QED
    BY <1>4, <1>5, <1>6, <1>7, <1>9 DEF Inv, Shape

LEMMA InvKept ==
    ASSUME Inv, [Next]_vars
    PROVE  Inv'
  <1>1. CASE Next
    <2>1. Shape /\ Way /\ Room /\ Restored
      BY DEF Inv
    <2>2. Step /\ Heals /\ Shape'
      BY <1>1, <2>1, StepsAre, HealingIs, ShapeKept
    <2>3. Way'
      BY <2>1, <2>2, WayKept
    <2>4. Room'
      BY <2>1, <2>2, RoomKept
    <2>5. Restored'
      BY <2>1, <2>2, RestoredKept
    <2> QED
      BY <2>2, <2>3, <2>4, <2>5 DEF Inv
  <1>2. CASE UNCHANGED vars
    <2>1. /\ alive' = alive /\ logbuffer' = logbuffer /\ queue' = queue
          /\ mode' = mode /\ read' = read /\ itemsRead' = itemsRead /\ todo' = todo
          /\ opened' = opened /\ file' = file /\ lines' = lines
          /\ born' = born /\ cleared' = cleared /\ failed' = failed
          /\ untrimmed' = untrimmed
      BY <1>2, StuttersAre
    <2>2. HandlerShape' /\ FileShape'
      BY <2>1 DEF Inv, Shape, HandlerShape, FileShape
    <2>3. QueueShape'
      BY <2>1 DEF Inv, Shape, QueueShape
    <2>4. Way'
      BY <2>1 DEF Inv, Way, InFile
    <2>5. Room' /\ Restored'
      BY <2>1 DEF Inv, Room, HasRoom, Pending, Restored, WholeTo
    <2> QED
      BY <2>2, <2>3, <2>4, <2>5 DEF Inv, Shape
  <1> QED
    BY <1>1, <1>2

\* The inductive invariant: the memory is in order, the lines of the buffer are on
\* their way to the file, there is room for all that is queued unless the last
\* truncation failed, and what the reader of the old file has passed is in the buffer.
THEOREM Inductive == Spec => []Inv
  <1>1. Init => Inv
    BY Initially
  <1>2. Inv /\ [Next]_vars => Inv'
    BY InvKept
  <1> QED
    BY <1>1, <1>2, PTL DEF Spec

\* newLogItem() adds lines at both ends of the buffer and trims it, the thread of
\* the handler restores old lines while other threads log and clear: the lines of
\* this process always are at the end of the buffer, without a gap and in order.
THEOREM LinesInOrder == Spec => []LinesStayInOrder
  <1>1. Inv => LinesStayInOrder
    <2> SUFFICES ASSUME Inv, alive
                 PROVE  \E k \in 0..Len(logbuffer) :
                            /\ Elements(SubSeq(logbuffer, 1, k)) \subseteq 1..(born - 1) \cup {Garbage}
                            /\ \A i \in (k + 1)..Len(logbuffer) :
                                  logbuffer[i] = lines - (Len(logbuffer) - i) /\ logbuffer[i] >= born
                            /\ k < Len(logbuffer)
      BY DEF LinesStayInOrder
    <2> DEFINE n == Len(logbuffer)
    <2>1. IsQueue(logbuffer) /\ InOrder(logbuffer, lines, born)
      BY DEF Inv, Shape, QueueShape, Good
    <2>2. n \in Nat /\ logbuffer \in Seq(Elements(logbuffer))
      BY <2>1, Longer DEF IsQueue
    <2>3. PICK k \in 0..(n - 1) :
              /\ \A i \in 1..k : logbuffer[i] \in 1..(born - 1) \cup {Garbage}
              /\ \A i \in (k + 1)..n : logbuffer[i] = lines - (n - i) /\ logbuffer[i] >= born
      BY <2>1 DEF InOrder
    <2> DEFINE r == SubSeq(logbuffer, 1, k)
    <2>4. k \in Nat /\ k \in 0..n /\ k < n
      BY <2>2
    <2>5. /\ Len(r) = IF 1 <= k THEN k - 1 + 1 ELSE 0
          /\ \A i \in 1..(k - 1 + 1) : r[i] = logbuffer[1 + i - 1]
      <3>1. \A i \in 1..k : logbuffer[i] \in Elements(logbuffer)
        BY <2>4 DEF Elements
      <3> QED
        BY <2>2, <2>4, <3>1, SubSeqProperties
    <2> HIDE DEF r, n
    <2>6. Len(r) = k /\ \A i \in 1..k : r[i] = logbuffer[i]
      BY <2>4, <2>5
    <2>7. Elements(r) \subseteq 1..(born - 1) \cup {Garbage}
      BY <2>3, <2>6 DEF Elements
    <2> QED
      BY <2>3, <2>4, <2>7 DEF r, n
  <1> QED
    BY <1>1, Inductive, PTL

\* A line that was logged in this process is, as long as it is in the buffer, in the
\* queue of the handler, among the lines it writes or in the file, however trims,
\* clears and the opening of the file fall between, unless a write has failed.
THEOREM NothingDropped == Spec => []NothingIsDropped
  <1>1. Inv => NothingIsDropped
    <2> SUFFICES ASSUME Inv, alive, ~failed,
                        NEW n \in {m \in Elements(logbuffer) \cap Int : m > born}
                 PROVE  \/ n \in Written \/ n \in Elements(todo) \/ mode = "snapshot"
                        \/ \E i \in 1..Len(queue) : queue[i] = LogMessage(n)
      BY DEF NothingIsDropped
    <2>1. mode = "snapshot" \/ InFile(n) \/ n \in Elements(todo) \/ IsPosted(queue, n)
      BY DEF Inv, Way
    <2>2. ASSUME InFile(n) PROVE n \in Written
      <3>1. PICK i \in 1..Len(file) : file[i].whole /\ file[i].line = n
        BY <2>2 DEF InFile
      <3>2. file # None /\ file[i] \in {s \in Elements(file) : s.whole}
        BY <2>2, <3>1 DEF InFile, Elements
      <3> QED
        BY <3>1, <3>2 DEF Written
    <2> QED
      BY <2>1, <2>2 DEF IsPosted
  <1> QED
    BY <1>1, Inductive, PTL

\* The file never holds more than twice what the buffer takes, however many lines
\* are logged and however far the handler lags behind with its messages and trims,
\* unless the last truncation in trimLogFile() failed.
THEOREM FileBounded == Spec => []FileIsBounded
  <1>1. Inv => FileIsBounded
    BY DEF Inv, Room, HasRoom, FileIsBounded
  <1> QED
    BY <1>1, Inductive, PTL

\* readLogCache() on the file of a killed process: when it ends, every line before
\* the first record that was cut off is in the buffer, or the buffer was trimmed or
\* cleared meanwhile and a trim of the file is queued.
THEOREM RecoveryComplete == Spec => RecoveryIsComplete
  <1> DEFINE A == mode = "reading" /\ mode' = "opening" =>
                     \A i \in 1..Len(file) :
                         (\A j \in 1..i : file[j].whole) =>
                             \/ file[i].line \in Elements(logbuffer')
                             \/ \E k \in 1..Len(queue') : queue'[k].what = "TRIM_LOG_FILE"
  <1>1. Inv /\ [Next]_vars => [A]_vars
    <2> SUFFICES ASSUME Inv, Next, mode = "reading", mode' = "opening",
                        NEW i \in 1..Len(file), \A j \in 1..i : file[j].whole,
                        ~ \E k \in 1..Len(queue') : queue'[k].what = "TRIM_LOG_FILE"
                 PROVE  file[i].line \in Elements(logbuffer')
      OBVIOUS
    <2>1. Shape /\ Step /\ Restored
      BY StepsAre DEF Inv
    <2>2. StopsReading
      <3>1. ~(Speaks \/ Clears \/ PassesOver \/ Restores \/ GivesUp)
        BY DEF Speaks, Clears, PassesOver, Restores, GivesUp
      <3>2. ~(StartsReading \/ Opens \/ StartsWriting \/ Skips \/ StartsTrim)
        BY DEF StartsReading, Opens, StartsWriting, Skips, StartsTrim, Served
      <3>3. ~(TakesSnapshot \/ Begins \/ Completes \/ Ends)
        BY DEF TakesSnapshot, Begins, Completes, Ends, Dies
      <3>4. ~IsBorn
        BY DEF IsBorn
      <3> QED
        BY <2>1, <3>1, <3>2, <3>3, <3>4 DEF Step, GoesOn
    <2>3. /\ Grows(logbuffer)
          /\ read = Len(file) \/ itemsRead > 2 * MAXLOGENTRIES \/ ~file[read + 1].whole
      BY <2>2 DEF StopsReading
    <2>4. TrimsAt(queue') = {}
      BY DEF TrimsAt, At
    <2>5. /\ TrimsAt(queue) = {} /\ Elements(logbuffer) \subseteq Elements(logbuffer')
          /\ Len(logbuffer) \in Nat /\ Len(logbuffer') \in Nat
          /\ Len(logbuffer) <= Len(logbuffer') /\ Len(logbuffer') <= 2 * MAXLOGENTRIES
      BY <2>3, <2>4, Remains
    <2>6. /\ itemsRead <= Len(logbuffer)
          /\ \A j \in 1..read : WholeTo(j) => file[j].line \in Elements(logbuffer)
      BY <2>1, <2>5 DEF Restored
    <2>7. read \in Nat /\ itemsRead \in Nat /\ Len(file) \in Nat /\ read <= Len(file)
      BY <2>1, NoFile DEF Shape, HandlerShape, FileShape
    <2>8. read = Len(file) \/ ~file[read + 1].whole
      BY <2>3, <2>5, <2>6, <2>7, LimitIs
    <2>9. i \in 1..read
      BY <2>7, <2>8
    <2> QED
      BY <2>5, <2>6, <2>9 DEF WholeTo
  <1>2. Inv /\ [Next]_vars => [A]_vars
    BY <1>1
  <1> QED
    BY <1>2, Inductive, PTL DEF Spec, RecoveryIsComplete

\* clearLog() against the messages that are still posted and the records that are
\* being written: what was cleared is gone from the buffer and, once the handler has
\* served the trim, from the file, unless the truncation failed, and provided that
\* nobody clears the log before the old file was read back.
THEOREM ClearedStays == ASSUME ~EarlyClear PROVE Spec => []ClearedStaysAway
  <1>1. Init => Inv /\ Away
    BY Initially
  <1>2. Inv /\ Away /\ [Next]_vars => Inv' /\ Away'
    <2> SUFFICES ASSUME Inv, Away, [Next]_vars PROVE Inv' /\ Away'
      OBVIOUS
    <2>1. Inv'
      BY InvKept
    <2>2. CASE Next
      <3>1. Shape /\ Room /\ Step /\ Heals /\ Shape'
        BY <2>1, <2>2, StepsAre, HealingIs DEF Inv
      <3> QED
        BY <2>1, <3>1, AwayKept
    <2>3. CASE UNCHANGED vars
      <3>1. /\ logbuffer' = logbuffer /\ queue' = queue /\ mode' = mode /\ todo' = todo
            /\ opened' = opened /\ file' = file /\ cleared' = cleared
            /\ untrimmed' = untrimmed
        BY <2>3, StuttersAre
      <3>2. Away'
        BY <3>1 DEF Away, Queued
      <3> QED
        BY <2>1, <3>2
    <2> QED
      BY <2>2, <2>3
  <1>3. Inv /\ Away => ClearedStaysAway
    <2> SUFFICES ASSUME Inv, Away, alive, NEW n \in 1..cleared
                 PROVE  /\ n \notin Elements(logbuffer)
                        /\ mode = "idle" /\ ~Queued("TRIM_LOG_FILE") /\ opened /\ ~untrimmed
                              => n \notin Written
      BY DEF ClearedStaysAway
    <2>1. n \notin Elements(logbuffer)
      BY DEF Away, Gone
    <2>2. ASSUME mode = "idle", ~Queued("TRIM_LOG_FILE"), opened, ~untrimmed PROVE n \notin Written
      <3>1. TrimsAt(queue) = {}
        BY <2>2 DEF TrimsAt, At, Queued
      <3>2. \A i \in 1..Len(file) : file[i].line # n
        BY <2>2, <3>1 DEF Away
      <3> QED
        BY <3>2 DEF Written, Elements
    <2> QED
      BY <2>1, <2>2
  <1> QED
    BY <1>1, <1>2, <1>3, PTL DEF Spec
=============================================================================

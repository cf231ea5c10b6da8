------------------------- MODULE ConversationProofs -------------------------
(***************************************************************************)
(* The requests of the adapters and the walk over the endpoints, for every *)
(* number of threads, endpoints, turns, calls in a batch and runs.         *)
(***************************************************************************)
EXTENDS Conversation, SelectingProofs, TLAPS

-----------------------------------------------------------------------------
(* Rows and messages.                                                      *)
CallId == Nat \X Nat
Row == [role : {"tool"}, id : CallId]
       \cup [role : {"user"}, note : Nat \X {"query", "breaker", "state"}]
       \cup [role : {"assistant"}, calls : Seq(CallId)]
Message == Row \cup {System}

LEMMA RowFacts ==
  /\ \A id \in CallId : /\ Result(id) \in Row /\ Result(id).role = "tool"
                        /\ Result(id).id = id
  /\ \A c \in Seq(CallId) : /\ Assistant(c) \in Row /\ Assistant(c).role = "assistant"
                            /\ Assistant(c).calls = c
  /\ \A t \in Nat : /\ User(<<t, "breaker">>) \in Row /\ User(<<t, "breaker">>).role = "user"
                    /\ User(<<t, "state">>) \in Row /\ User(<<t, "state">>).role = "user"
  /\ Query \in Row /\ Query.role = "user"
  /\ System \in Message /\ System.role = "system" /\ Row \subseteq Message
BY DEF Row, Message, Result, Assistant, User, Query, System

LEMMA RowKinds ==
  \A r \in Row :
    /\ r.role \in {"tool", "user", "assistant"}
    /\ r.role = "tool" => r.id \in CallId /\ r = Result(r.id)
BY DEF Row, Result

-----------------------------------------------------------------------------
(* The rows behind the last assistant row.                                 *)
LEMMA TrailingIs ==
  ASSUME NEW h \in Seq(Row)
  PROVE  \E last \in 0 .. Len(h) :
           /\ Trailing(h) = SubSeq(h, last + 1, Len(h))
           /\ \A i \in (last + 1) .. Len(h) : h[i].role # "assistant"
           /\ last # 0 => h[last].role = "assistant"
<1> DEFINE I == {i \in 1 .. Len(h) : h[i].role = "assistant"}
           last == SelectLastInSeq(h, LAMBDA r : r.role = "assistant")
<1>1. last = IF I # {} THEN Max(I) ELSE 0
  BY DEF SelectLastInSeq
<1>2. Trailing(h) = SubSeq(h, last + 1, Len(h))
  BY DEF Trailing
<1>3. Len(h) \in Nat
  OBVIOUS
<1> HIDE DEF last
<1>4. CASE I = {}
  <2>1. last = 0 /\ \A i \in 1 .. Len(h) : h[i].role # "assistant"
    BY <1>1, <1>4
  <2> QED BY <1>2, <1>3, <2>1
<1>5. CASE I # {}
  <2> DEFINE n == Len(h)
             S == {n - i : i \in I}
  <2>1. I \subseteq 1 .. n /\ n \in Nat
    OBVIOUS
  <2>2. IsFiniteSet(I)
    <3>1. IsFiniteSet(1 .. n)
      BY <2>1, FS_Interval
    <3> QED BY <2>1, <3>1, FS_Subset
  <2> HIDE DEF I
  <2>3. S \in SUBSET Nat
    BY <2>1
  <2>4. IsFiniteSet(S)
    <3>1. S \subseteq 0 .. n
      BY <2>1
    <3>2. IsFiniteSet(0 .. n)
      BY <2>1, FS_Interval
    <3> QED BY <3>1, <3>2, FS_Subset
  <2>5. PICK x \in I : TRUE
    BY <1>5
  <2>6. n - x \in S
    BY <2>5
  <2> HIDE DEF S
  <2>7. \E m \in S : \A y \in S : m <= y
    BY <2>3, <2>4, <2>6, LeastMember
  <2>8. PICK g \in I : \A i \in I : n - g <= n - i
    BY <2>7 DEF S
  <2>9. \A i \in I : g >= i
    BY <2>1, <2>8
  <2>10. last \in I /\ \A i \in I : last >= i
    BY <1>1, <1>5, <2>9 DEF Max
  <2>11. last \in 1 .. n /\ h[last].role = "assistant"
    BY <2>10 DEF I
  <2>12. ASSUME NEW i \in (last + 1) .. Len(h) PROVE h[i].role # "assistant"
    <3>1. i \in 1 .. n /\ ~(last >= i)
      BY <2>11
    <3> QED BY <2>10, <3>1 DEF I
  <2> QED BY <1>2, <1>3, <2>11, <2>12
<1> QED BY <1>4, <1>5

-----------------------------------------------------------------------------
(* A message list a strict provider accepts.                               *)
Well(m) ==
  \A k \in DOMAIN m :
    /\ m[k].role = "assistant" =>
         LET n == Len(m[k].calls)
         IN  /\ k + n <= Len(m)
             /\ \A j \in 1..n : m[k + j].role = "tool"
             /\ {m[k + j].id : j \in 1..n} = Range(m[k].calls)
    /\ m[k].role = "tool" =>
         \E j \in 1..(k - 1) : /\ m[j].role = "assistant"
                               /\ m[k].id \in Range(m[j].calls)
                               /\ k <= j + Len(m[j].calls)

LEMMA JoinFacts ==
  \A T : \A a, b \in Seq(T) :
    /\ a \o b \in Seq(T) /\ Len(a \o b) = Len(a) + Len(b)
    /\ \A i \in 1 .. Len(a) : (a \o b)[i] = a[i]
    /\ \A i \in 1 .. Len(b) : (a \o b)[Len(a) + i] = b[i]
OBVIOUS

(* Such a list stays one when an assistant message is followed by one      *)
(* result per call, of these calls and no other, and then by user messages.*)
LEMMA WellGrows ==
  ASSUME NEW m \in Seq(Message), Well(m), NEW c \in Seq(CallId),
         NEW q \in Seq(Message), Len(q) = Len(c),
         \A j \in 1 .. Len(q) : q[j].role = "tool",
         {q[j].id : j \in 1 .. Len(q)} = Range(c),
         NEW u \in Seq(Message), \A j \in 1 .. Len(u) : u[j].role = "user"
  PROVE  Well(Append(m, Assistant(c)) \o (q \o u))
<1> DEFINE l == Len(m)
           n == Len(q)
           x == Append(m, Assistant(c)) \o (q \o u)
<1>1. l \in Nat /\ n \in Nat /\ Len(u) \in Nat
  OBVIOUS
<1>2. Assistant(c) \in Message /\ Assistant(c).role = "assistant" /\ Assistant(c).calls = c
  BY RowFacts
<1> DEFINE y == Append(m, Assistant(c))
           z == q \o u
<1>y. /\ y \in Seq(Message) /\ Len(y) = l + 1 /\ \A k \in 1 .. l : y[k] = m[k]
      /\ y[l + 1] = Assistant(c)
  BY <1>2
<1>z. /\ z \in Seq(Message) /\ Len(z) = n + Len(u) /\ \A j \in 1 .. n : z[j] = q[j]
      /\ \A j \in 1 .. Len(u) : z[n + j] = u[j]
  <2>1. q \in Seq(Message) /\ u \in Seq(Message)
    OBVIOUS
  <2> QED BY ONLY <2>1, JoinFacts
<1>v. x = y \o z
  OBVIOUS
<1> HIDE DEF y, z, x
<1>x. /\ y \o z \in Seq(Message) /\ Len(y \o z) = Len(y) + Len(z)
      /\ \A i \in 1 .. Len(y) : (y \o z)[i] = y[i]
      /\ \A i \in 1 .. Len(z) : (y \o z)[Len(y) + i] = z[i]
  <2>1. y \in Seq(Message) /\ z \in Seq(Message)
    BY <1>y, <1>z
  <2> QED BY ONLY <2>1, JoinFacts
<1> HIDE DEF l, n
<1>3. x \in Seq(Message) /\ Len(x) = l + 1 + n + Len(u)
  BY <1>1, <1>v, <1>x, <1>y, <1>z
<1>4. \A k \in 1 .. l : x[k] = m[k]
  BY <1>1, <1>v, <1>x, <1>y
<1>5. x[l + 1] = Assistant(c)
  BY <1>1, <1>v, <1>x, <1>y
<1>6. \A j \in 1 .. n : x[l + 1 + j] = q[j]
  BY <1>1, <1>v, <1>x, <1>y, <1>z
<1>7. \A j \in 1 .. Len(u) : x[l + 1 + n + j] = u[j]
  <2>1. \A j \in 1 .. Len(u) : n + j \in 1 .. n + Len(u) /\ l + 1 + (n + j) = l + 1 + n + j
    BY <1>1
  <2> QED BY <1>1, <1>v, <1>x, <1>y, <1>z, <2>1
<1>8. DOMAIN x = 1 .. l + 1 + n + Len(u)
  BY <1>3
<1> SUFFICES ASSUME NEW k \in DOMAIN x
             PROVE  /\ x[k].role = "assistant" =>
                         /\ k + Len(x[k].calls) <= Len(x)
                         /\ \A j \in 1 .. Len(x[k].calls) : x[k + j].role = "tool"
                         /\ {x[k + j].id : j \in 1 .. Len(x[k].calls)} = Range(x[k].calls)
                    /\ x[k].role = "tool" =>
                         \E j \in 1 .. (k - 1) : /\ x[j].role = "assistant"
                                                 /\ x[k].id \in Range(x[j].calls)
                                                 /\ k <= j + Len(x[j].calls)
  BY DEF Well, x
<1>9. CASE k \in 1 .. l
  <2>1. k \in DOMAIN m /\ x[k] = m[k]
    BY <1>4, <1>9 DEF l
  <2>2. ASSUME x[k].role = "assistant"
        PROVE  /\ k + Len(x[k].calls) <= Len(x)
               /\ \A j \in 1 .. Len(x[k].calls) : x[k + j].role = "tool"
               /\ {x[k + j].id : j \in 1 .. Len(x[k].calls)} = Range(x[k].calls)
    <3> DEFINE a == Len(m[k].calls)
    <3>1. /\ k + a <= l
          /\ \A j \in 1 .. a : m[k + j].role = "tool"
          /\ {m[k + j].id : j \in 1 .. a} = Range(m[k].calls)
      BY <2>1, <2>2 DEF Well, l
    <3>2. a \in Nat
      <4>1. m[k] \in Message
        BY <2>1
      <4>2. m[k].calls \in Seq(CallId)
        BY <2>1, <2>2, <4>1 DEF Message, Row, System
      <4> QED BY <4>2
    <3> HIDE DEF a
    <3>3. \A j \in 1 .. a : k + j \in 1 .. l
      BY <1>1, <1>9, <3>1, <3>2
    <3>4. \A j \in 1 .. a : x[k + j] = m[k + j]
      BY <1>4, <3>3
    <3>5. {x[k + j].id : j \in 1 .. a} = {m[k + j].id : j \in 1 .. a}
      BY <3>4
    <3>6. k + a <= Len(x)
      BY <1>1, <1>3, <1>9, <3>1, <3>2
    <3> QED BY <2>1, <3>1, <3>4, <3>5, <3>6 DEF a
  <2>3. ASSUME x[k].role = "tool"
        PROVE  \E j \in 1 .. (k - 1) : /\ x[j].role = "assistant"
                                       /\ x[k].id \in Range(x[j].calls)
                                       /\ k <= j + Len(x[j].calls)
    <3>1. PICK j \in 1 .. (k - 1) : /\ m[j].role = "assistant"
                                   /\ m[k].id \in Range(m[j].calls)
                                   /\ k <= j + Len(m[j].calls)
      BY <2>1, <2>3 DEF Well
    <3>2. j \in 1 .. l
      BY <1>1, <1>9
    <3> QED BY <1>4, <2>1, <3>1, <3>2
  <2> QED BY <2>2, <2>3
<1>10. CASE k = l + 1
  <2>1. x[k].role = "assistant" /\ x[k].calls = c
    BY <1>2, <1>5, <1>10
  <2>2. k + n <= Len(x) /\ Len(c) = n /\ n \in Nat
    BY <1>1, <1>3, <1>10 DEF n
  <2>3. \A j \in 1 .. n : x[k + j].role = "tool"
    BY <1>6, <1>10 DEF n
  <2>4. {x[k + j].id : j \in 1 .. n} = {q[j].id : j \in 1 .. n}
    <3>1. \A j \in 1 .. n : x[k + j] = q[j]
      BY <1>6, <1>10
    <3> QED BY ONLY <3>1
  <2>5. {q[j].id : j \in 1 .. n} = Range(c)
    BY DEF n
  <2> QED BY <2>1, <2>2, <2>3, <2>4, <2>5
<1>11. CASE \E j \in 1 .. n : k = l + 1 + j
  <2>1. PICK j \in 1 .. n : k = l + 1 + j
    BY <1>11
  <2>2. x[k] = q[j] /\ x[k].role = "tool" /\ x[k].id \in Range(c)
    BY <1>6, <2>1 DEF n
  <2>3. l + 1 \in 1 .. (k - 1) /\ k <= l + 1 + Len(c)
    BY <1>1, <2>1 DEF n
  <2> QED BY <1>2, <1>5, <2>2, <2>3
<1>12. CASE \E j \in 1 .. Len(u) : k = l + 1 + n + j
  <2>1. x[k].role = "user"
    BY <1>7, <1>12
  <2> QED BY <2>1
<1>13. \/ k \in 1 .. l
       \/ k = l + 1
       \/ \E j \in 1 .. n : k = l + 1 + j
       \/ \E j \in 1 .. Len(u) : k = l + 1 + n + j
  <2>1. k \in 1 .. l + 1 + n + Len(u)
    BY <1>8
  <2>2. CASE k > l + 1 /\ k <= l + 1 + n
    <3>1. k - (l + 1) \in 1 .. n /\ k = l + 1 + (k - (l + 1))
      BY <1>1, <2>1, <2>2
    <3> QED BY <3>1
  <2>3. CASE k > l + 1 + n
    <3>1. k - (l + 1 + n) \in 1 .. Len(u) /\ k = l + 1 + n + (k - (l + 1 + n))
      BY <1>1, <2>1, <2>3
    <3> QED BY <3>1
  <2> QED BY <1>1, <2>1, <2>2, <2>3
<1> QED BY <1>9, <1>10, <1>11, <1>12, <1>13

-----------------------------------------------------------------------------
(* The rows of a turn: each call is answered at one place, and what is not *)
(* an answer is a nudge.                                                   *)
Answering(rows, c) ==
  /\ rows \in Seq(Row)
  /\ \E pos \in [1 .. Len(c) -> 1 .. Len(rows)] :
       /\ \A k \in 1 .. Len(c) : rows[pos[k]] = Result(c[k])
       /\ \A i \in 1 .. Len(rows) :
            (\E k \in 1 .. Len(c) : pos[k] = i) \/ rows[i].role = "user"

LEMMA IdsFacts ==
  ASSUME NEW n \in Nat, NEW t \in Nat
  PROVE  /\ Ids(n, t) \in Seq(CallId) /\ Len(Ids(n, t)) = n
         /\ \A k \in 1 .. n : Ids(n, t)[k] = <<t, k>>
BY DEF Ids, CallId

LEMMA ResultsAnswer ==
  ASSUME NEW c \in Seq(CallId)
  PROVE  /\ Results(c) \in Seq(Row) /\ Len(Results(c)) = Len(c)
         /\ \A k \in 1 .. Len(c) : Results(c)[k] = Result(c[k])
         /\ Answering(Results(c), c)
<1> DEFINE n == Len(c)
           r == Results(c)
<1>1. n \in Nat /\ DOMAIN c = 1 .. n /\ \A k \in 1 .. n : c[k] \in CallId
  OBVIOUS
<1>2. r = [k \in 1 .. n |-> Result(c[k])]
  BY <1>1 DEF Results
<1>3. \A k \in 1 .. n : Result(c[k]) \in Row
  BY <1>1, RowFacts
<1> HIDE DEF n, r
<1>4. r \in Seq(Row) /\ Len(r) = n /\ \A k \in 1 .. n : r[k] = Result(c[k])
  BY <1>1, <1>2, <1>3
<1> DEFINE pos == [k \in 1 .. n |-> k]
<1>5. /\ pos \in [1 .. n -> 1 .. Len(r)]
      /\ \A k \in 1 .. n : r[pos[k]] = Result(c[k])
      /\ \A i \in 1 .. Len(r) : \E k \in 1 .. n : pos[k] = i
  BY <1>4
<1> HIDE DEF pos
<1> QED BY <1>4, <1>5 DEF Answering, n, r

LEMMA TrippedAnswer ==
  ASSUME NEW c \in Seq(CallId), NEW t \in Nat, NEW k \in 1 .. Len(c)
  PROVE  Answering(Tripped(c, k, t), c)
<1> DEFINE n == Len(c)
           r == Results(c)
           u == User(<<t, "breaker">>)
           x == Tripped(c, k, t)
<1>1. n \in Nat
  OBVIOUS
<1>2. r \in Seq(Row) /\ Len(r) = n /\ \A i \in 1 .. n : r[i] = Result(c[i])
  BY ResultsAnswer
<1>3. u \in Row /\ u.role = "user"
  BY RowFacts
<1>4. x = SubSeq(r, 1, k) \o <<u>> \o SubSeq(r, k + 1, n)
  BY DEF Tripped
<1> HIDE DEF n, r, u, x
<1>5. k \in 1 .. n
  BY DEF n
<1>6. /\ x \in Seq(Row) /\ Len(x) = n + 1
      /\ \A i \in 1 .. k : x[i] = r[i]
      /\ x[k + 1] = u
      /\ \A i \in (k + 1) .. n : x[i + 1] = r[i]
  <2> DEFINE y == SubSeq(r, 1, k)
             z == SubSeq(r, k + 1, n)
  <2>1. y \in Seq(Row) /\ Len(y) = k /\ \A i \in 1 .. k : y[i] = r[i]
    BY <1>1, <1>2, <1>5
  <2>2. z \in Seq(Row) /\ Len(z) = n - k /\ \A i \in 1 .. n - k : z[i] = r[k + i]
    BY <1>1, <1>2, <1>5
  <2>3. x = y \o <<u>> \o z
    BY <1>4
  <2> HIDE DEF y, z
  <2>4. /\ x \in Seq(Row) /\ Len(x) = n + 1
        /\ \A i \in 1 .. k : x[i] = y[i]
        /\ x[k + 1] = u
        /\ \A i \in 1 .. n - k : x[k + 1 + i] = z[i]
    <3> DEFINE v == y \o <<u>>
    <3>1. /\ v \in Seq(Row) /\ Len(v) = k + 1 /\ \A i \in 1 .. k : v[i] = y[i]
          /\ v[k + 1] = u
      BY <1>3, <2>1
    <3>2. x = v \o z
      BY <2>3
    <3> HIDE DEF v
    <3>3. /\ v \o z \in Seq(Row) /\ Len(v \o z) = Len(v) + Len(z)
          /\ \A i \in 1 .. Len(v) : (v \o z)[i] = v[i]
          /\ \A i \in 1 .. Len(z) : (v \o z)[Len(v) + i] = z[i]
      <4>1. v \in Seq(Row) /\ z \in Seq(Row)
        BY <2>2, <3>1
      <4> QED BY ONLY <4>1, JoinFacts
    <3> QED BY <1>1, <1>5, <2>2, <3>1, <3>2, <3>3
  <2>5. ASSUME NEW i \in (k + 1) .. n PROVE x[i + 1] = r[i]
    <3>1. i - k \in 1 .. n - k /\ k + 1 + (i - k) = i + 1 /\ k + (i - k) = i
      BY <1>1, <1>5
    <3>2. x[k + 1 + (i - k)] = z[i - k] /\ z[i - k] = r[k + (i - k)]
      BY <2>2, <2>4, <3>1
    <3> QED BY <3>1, <3>2
  <2> QED BY <2>1, <2>4, <2>5
<1> DEFINE pos == [i \in 1 .. n |-> IF i <= k THEN i ELSE i + 1]
<1>7. pos \in [1 .. n -> 1 .. Len(x)]
  BY <1>1, <1>5, <1>6
<1>8. \A i \in 1 .. n : x[pos[i]] = r[i]
  BY <1>1, <1>5, <1>6
<1>9. ASSUME NEW i \in 1 .. Len(x)
      PROVE  (\E j \in 1 .. n : pos[j] = i) \/ x[i].role = "user"
  <2>1. CASE i <= k
    <3>1. i \in 1 .. n
      BY <1>1, <1>5, <1>6, <2>1
    <3>2. pos[i] = i
      BY <2>1, <3>1
    <3> QED BY <3>1, <3>2
  <2>2. CASE i = k + 1
    BY <1>3, <1>6, <2>2
  <2>3. CASE i > k + 1
    <3>1. i - 1 \in 1 .. n /\ ~(i - 1 <= k) /\ i = (i - 1) + 1
      BY <1>1, <1>5, <1>6, <2>3
    <3>2. pos[i - 1] = i
      BY <3>1
    <3> QED BY <3>1, <3>2
  <2> QED BY <1>5, <2>1, <2>2, <2>3
<1> HIDE DEF pos
<1>10. \A i \in 1 .. n : x[pos[i]] = Result(c[i])
  BY <1>2, <1>8
<1>11. Answering(x, c)
  BY <1>6, <1>7, <1>9, <1>10 DEF Answering, n
<1> QED BY <1>11 DEF x

LEMMA NudgeAnswers ==
  ASSUME NEW rows, NEW c \in Seq(CallId), Answering(rows, c), NEW u \in Row, u.role = "user"
  PROVE  Answering(rows \o <<u>>, c)
<1> DEFINE x == rows \o <<u>>
<1>1. PICK pos \in [1 .. Len(c) -> 1 .. Len(rows)] :
         /\ \A k \in 1 .. Len(c) : rows[pos[k]] = Result(c[k])
         /\ \A i \in 1 .. Len(rows) :
              (\E k \in 1 .. Len(c) : pos[k] = i) \/ rows[i].role = "user"
  BY DEF Answering
<1>2. rows \in Seq(Row)
  BY DEF Answering
<1>3. /\ x \in Seq(Row) /\ Len(x) = Len(rows) + 1 /\ Len(rows) \in Nat
      /\ \A i \in 1 .. Len(rows) : x[i] = rows[i]
      /\ x[Len(rows) + 1] = u
  BY <1>2
<1> HIDE DEF x
<1>4. pos \in [1 .. Len(c) -> 1 .. Len(x)]
  BY <1>1, <1>3
<1>5. \A k \in 1 .. Len(c) : x[pos[k]] = Result(c[k])
  BY <1>1, <1>3
<1>6. \A i \in 1 .. Len(x) :
        (\E k \in 1 .. Len(c) : pos[k] = i) \/ x[i].role = "user"
  BY <1>1, <1>3
<1>7. Answering(x, c)
  BY <1>3, <1>4, <1>5, <1>6 DEF Answering
<1> QED BY <1>7 DEF x

LEMMA BatchAnswers ==
  ASSUME NEW c \in Seq(CallId), NEW t \in Nat, NEW rows \in BatchRows(c, t)
  PROVE  Answering(rows, c)
<1> DEFINE R == {Results(c)} \cup {Tripped(c, k, t) : k \in DOMAIN c}
<1>1. \A r \in R : Answering(r, c)
  <2>1. DOMAIN c = 1 .. Len(c)
    OBVIOUS
  <2> QED BY <2>1, ResultsAnswer, TrippedAnswer
<1>2. rows \in R \/ \E r \in R : rows = r \o <<User(<<t, "state">>)>>
  BY DEF BatchRows
<1> HIDE DEF R
<1>3. User(<<t, "state">>) \in Row /\ User(<<t, "state">>).role = "user"
  BY RowFacts
<1> QED BY <1>1, <1>2, <1>3, NudgeAnswers

-----------------------------------------------------------------------------
(* What is threaded into a request.                                        *)
LEMMA RangeFacts ==
  \A T : \A x \in Seq(T) : \A r : r \in Range(x) <=> \E j \in 1 .. Len(x) : x[j] = r
BY DEF Range

LEMMA RangeJoin ==
  \A T : \A x, y \in Seq(T) : Range(x \o y) = Range(x) \cup Range(y)
<1>1. ASSUME NEW T, NEW x \in Seq(T), NEW y \in Seq(T), NEW r
      PROVE  r \in Range(x \o y) <=> r \in Range(x) \/ r \in Range(y)
  <2>1. /\ x \o y \in Seq(T) /\ Len(x \o y) = Len(x) + Len(y)
        /\ \A i \in 1 .. Len(x) : (x \o y)[i] = x[i]
        /\ \A i \in 1 .. Len(y) : (x \o y)[Len(x) + i] = y[i]
    BY JoinFacts
  <2>2. Len(x) \in Nat /\ Len(y) \in Nat
    OBVIOUS
  <2>3. ASSUME r \in Range(x) PROVE r \in Range(x \o y)
    <3>1. PICK j \in 1 .. Len(x) : x[j] = r
      BY RangeFacts, <2>3
    <3>2. j \in 1 .. Len(x \o y) /\ (x \o y)[j] = r
      BY <2>1, <2>2, <3>1
    <3> QED BY RangeFacts, <2>1, <3>2
  <2>4. ASSUME r \in Range(y) PROVE r \in Range(x \o y)
    <3>1. PICK j \in 1 .. Len(y) : y[j] = r
      BY RangeFacts, <2>4
    <3>2. Len(x) + j \in 1 .. Len(x \o y) /\ (x \o y)[Len(x) + j] = r
      BY <2>1, <2>2, <3>1
    <3> QED BY RangeFacts, <2>1, <3>2
  <2>5. ASSUME r \in Range(x \o y) PROVE r \in Range(x) \/ r \in Range(y)
    <3>1. PICK j \in 1 .. Len(x \o y) : (x \o y)[j] = r
      BY RangeFacts, <2>1, <2>5
    <3>2. CASE j <= Len(x)
      <4>1. j \in 1 .. Len(x) /\ x[j] = r
        BY <2>1, <2>2, <3>1, <3>2
      <4> QED BY RangeFacts, <4>1
    <3>3. CASE j > Len(x)
      <4>1. j - Len(x) \in 1 .. Len(y) /\ Len(x) + (j - Len(x)) = j
        BY <2>1, <2>2, <3>3
      <4>2. y[j - Len(x)] = r
        BY <2>1, <3>1, <4>1
      <4> QED BY RangeFacts, <4>1, <4>2
    <3> QED BY <2>2, <3>2, <3>3
  <2> QED BY <2>3, <2>4, <2>5
<1> QED BY <1>1

(* Behind the last assistant row.                                          *)
Behind(h, i) == \A j \in i .. Len(h) : h[j].role # "assistant"

LEMMA TrailingRows ==
  ASSUME NEW h \in Seq(Row)
  PROVE  \E last \in 0 .. Len(h) :
           /\ Trailing(h) \in Seq(Row) /\ Len(Trailing(h)) = Len(h) - last
           /\ \A i \in 1 .. Len(h) - last : Trailing(h)[i] = h[last + i]
           /\ \A i \in 1 .. Len(h) : Behind(h, i) <=> i > last
<1> PICK last \in 0 .. Len(h) :
      /\ Trailing(h) = SubSeq(h, last + 1, Len(h))
      /\ \A i \in (last + 1) .. Len(h) : h[i].role # "assistant"
      /\ last # 0 => h[last].role = "assistant"
  BY TrailingIs
<1> DEFINE l == Len(h)
<1>1. l \in Nat /\ last \in 0 .. l
  OBVIOUS
<1>2. /\ Trailing(h) \in Seq(Row) /\ Len(Trailing(h)) = l - last
      /\ \A i \in 1 .. l - last : Trailing(h)[i] = h[last + i]
  OBVIOUS
<1>3. ASSUME NEW i \in 1 .. l PROVE Behind(h, i) <=> i > last
  <2>1. CASE i > last
    <3>1. \A j \in i .. l : j \in (last + 1) .. l
      BY <1>1, <2>1
    <3> QED BY <2>1, <3>1 DEF Behind
  <2>2. CASE ~(i > last)
    <3>1. last \in i .. l /\ last # 0
      BY <1>1, <2>2
    <3> QED BY <2>2, <3>1 DEF Behind
  <2> QED BY <2>1, <2>2
<1> QED BY <1>2, <1>3

(* If every pending call has one result among the rows, exactly these      *)
(* results are kept, as many as there are calls.                           *)
LEMMA KeptResults ==
  ASSUME NEW x \in Seq(Row), NEW c \in Seq(CallId),
         \A j, k \in 1 .. Len(c) : c[j] = c[k] => j = k,
         \A k \in 1 .. Len(c) : \E i \in 1 .. Len(x) :
           /\ x[i] = Result(c[k])
           /\ \A j \in 1 .. Len(x) : x[j] = Result(c[k]) => j = i
  PROVE  LET P == {Result(id) : id \in Range(c)}
             q == Kept(x, P)
         IN  /\ q \in Seq(Row) /\ Len(q) = Len(c)
             /\ \A j \in 1 .. Len(q) : q[j].role = "tool"
             /\ {q[j].id : j \in 1 .. Len(q)} = Range(c)
             /\ Range(q) = P
<1> DEFINE P == {Result(id) : id \in Range(c)}
           q == Kept(x, P)
           where == {i \in DOMAIN x : x[i] \in P}
           n == Len(c)
<1>1. n \in Nat /\ DOMAIN x = 1 .. Len(x) /\ \A k \in 1 .. n : c[k] \in CallId
  OBVIOUS
<1>2. \A id : id \in Range(c) <=> \E k \in 1 .. n : c[k] = id
  BY RangeFacts
<1>3. \A r : r \in P <=> \E k \in 1 .. n : r = Result(c[k])
  BY <1>2
<1>4. /\ q \in Seq(Row) /\ q \in Seq(P) /\ Len(q) = Cardinality(where)
  <2> HIDE DEF P
  <2> QED BY KeptSelects
<1>5. /\ \A k \in DOMAIN q :
           \E i \in DOMAIN x : x[i] = q[k] /\ x[i] \in P
      /\ \A i \in DOMAIN x :
           x[i] \in P => \E k \in DOMAIN q : q[k] = x[i]
  <2> HIDE DEF P
  <2> QED BY KeptRange
<1> DEFINE f == [k \in 1 .. n |-> CHOOSE i \in 1 .. Len(x) : x[i] = Result(c[k])]
<1>6. \A k \in 1 .. n : f[k] \in 1 .. Len(x) /\ x[f[k]] = Result(c[k])
  <2> SUFFICES ASSUME NEW k \in 1 .. n
               PROVE  f[k] \in 1 .. Len(x) /\ x[f[k]] = Result(c[k])
    OBVIOUS
  <2>1. \E i \in 1 .. Len(x) : x[i] = Result(c[k])
    OBVIOUS
  <2> QED BY <2>1
<1> HIDE DEF P, q, where, f
<1>7. f \in [1 .. n -> where]
  <2>1. \A k \in 1 .. n : f[k] \in where
    BY <1>1, <1>3, <1>6 DEF where
  <2> QED BY <2>1 DEF f
<1>8. \A j, k \in 1 .. n : f[j] = f[k] => j = k
  <2> SUFFICES ASSUME NEW j \in 1 .. n, NEW k \in 1 .. n, f[j] = f[k] PROVE j = k
    OBVIOUS
  <2>1. Result(c[j]) = Result(c[k])
    BY <1>6
  <2>2. c[j] = c[k]
    BY <1>1, <2>1, RowFacts
  <2> QED BY <2>2 DEF n
<1>9. \A i \in where : \E k \in 1 .. n : f[k] = i
  <2> SUFFICES ASSUME NEW i \in where PROVE \E k \in 1 .. n : f[k] = i
    OBVIOUS
  <2>1. i \in 1 .. Len(x) /\ x[i] \in P
    BY <1>1 DEF where
  <2>2. PICK k \in 1 .. n : x[i] = Result(c[k])
    BY <1>3, <2>1
  <2>3. PICK e \in 1 .. Len(x) : \A j \in 1 .. Len(x) : x[j] = Result(c[k]) => j = e
    BY DEF n
  <2>4. f[k] = e /\ i = e
    BY <1>6, <2>1, <2>2, <2>3
  <2> QED BY <2>4
<1>10. Cardinality(where) = n
  <2>1. IsFiniteSet(1 .. n) /\ Cardinality(1 .. n) = n
    <3>1. IsFiniteSet(1 .. n) /\ Cardinality(1 .. n) = IF 1 > n THEN 0 ELSE n - 1 + 1
      <4>1. 1 \in Int /\ n \in Int
        BY <1>1
      <4> QED BY ONLY <4>1, FS_Interval
    <3> QED BY <1>1, <3>1
  <2>2. f \in Bijection(1 .. n, where)
    BY <1>7, <1>8, <1>9 DEF Bijection, Injection, Surjection, IsInjective
  <2>3. ExistsBijection(1 .. n, where)
    BY <2>2 DEF ExistsBijection
  <2> QED BY <2>1, <2>3, FS_Bijection
<1>11. Len(q) \in Nat /\ DOMAIN q = 1 .. Len(q)
  BY <1>4
<1>12. \A j \in 1 .. Len(q) : \E k \in 1 .. n : q[j] = Result(c[k])
  <2>1. \A j \in 1 .. Len(q) : q[j] \in P
    BY <1>5, <1>11
  <2> QED BY <1>3, <2>1
<1>13. \A k \in 1 .. n : \E j \in 1 .. Len(q) : q[j] = Result(c[k])
  <2> SUFFICES ASSUME NEW k \in 1 .. n PROVE \E j \in 1 .. Len(q) : q[j] = Result(c[k])
    OBVIOUS
  <2>1. f[k] \in DOMAIN x /\ x[f[k]] = Result(c[k]) /\ x[f[k]] \in P
    BY <1>1, <1>3, <1>6
  <2> QED BY <1>5, <1>11, <2>1
<1>14. \A j \in 1 .. Len(q) : q[j].role = "tool"
  BY <1>1, <1>12, RowFacts
<1>15. \A id : id \in {q[j].id : j \in 1 .. Len(q)} <=> id \in Range(c)
  <2>1. ASSUME NEW j \in 1 .. Len(q) PROVE q[j].id \in Range(c)
    <3>1. PICK k \in 1 .. n : q[j] = Result(c[k])
      BY <1>12
    <3>2. c[k] \in CallId /\ Result(c[k]).id = c[k]
      BY <1>1, RowFacts
    <3> QED BY <1>2, <3>1, <3>2
  <2>2. ASSUME NEW k \in 1 .. n PROVE \E j \in 1 .. Len(q) : q[j].id = c[k]
    <3>1. PICK j \in 1 .. Len(q) : q[j] = Result(c[k])
      BY <1>13
    <3>2. c[k] \in CallId /\ Result(c[k]).id = c[k]
      BY <1>1, RowFacts
    <3> QED BY <3>1, <3>2
  <2> QED BY <1>2, <2>1, <2>2
<1>16. \A r : r \in Range(q) <=> r \in P
  <2>1. \A r : r \in Range(q) <=> \E j \in 1 .. Len(q) : q[j] = r
    BY <1>4, RangeFacts
  <2>2. ASSUME NEW r, r \in Range(q) PROVE r \in P
    <3>1. PICK j \in 1 .. Len(q) : q[j] = r
      BY <2>1, <2>2
    <3> QED BY <1>3, <1>12, <3>1
  <2>3. ASSUME NEW r, r \in P PROVE r \in Range(q)
    <3>1. PICK k \in 1 .. n : r = Result(c[k])
      BY <1>3, <2>3
    <3> QED BY <1>13, <2>1, <3>1
  <2> QED BY <2>2, <2>3
<1>17. {q[j].id : j \in 1 .. Len(q)} = Range(c) /\ Range(q) = P
  BY <1>15, <1>16
<1> QED BY <1>4, <1>10, <1>14, <1>17 DEF P, q, n

LEMMA KeptNudges ==
  ASSUME NEW x \in Seq(Row)
  PROVE  LET u == Kept(x, Users(x))
         IN  /\ u \in Seq(Row)
             /\ \A j \in 1 .. Len(u) : u[j].role = "user"
             /\ \A i \in 1 .. Len(x) : x[i].role = "user" => x[i] \in Range(u)
<1> DEFINE U == Users(x)
           u == Kept(x, U)
<1>1. \A r : r \in U <=> r \in Range(x) /\ r.role = "user"
  BY DEF Users
<1> HIDE DEF U
<1>2. u \in Seq(Row)
  BY KeptSelects
<1>3. /\ \A k \in DOMAIN u : \E i \in DOMAIN x : x[i] = u[k] /\ x[i] \in U
      /\ \A i \in DOMAIN x : x[i] \in U => \E k \in DOMAIN u : u[k] = x[i]
  BY KeptRange
<1> HIDE DEF u
<1>4. DOMAIN x = 1 .. Len(x) /\ DOMAIN u = 1 .. Len(u)
  BY <1>2
<1>5. \A j \in 1 .. Len(u) : u[j].role = "user"
  BY <1>1, <1>3, <1>4
<1>6. \A i \in 1 .. Len(x) : x[i].role = "user" => x[i] \in Range(u)
  <2> SUFFICES ASSUME NEW i \in 1 .. Len(x), x[i].role = "user" PROVE x[i] \in Range(u)
    OBVIOUS
  <2>1. x[i] \in Range(x)
    BY RangeFacts
  <2>2. \E k \in 1 .. Len(u) : u[k] = x[i]
    BY <1>1, <1>3, <1>4, <2>1
  <2> QED BY <1>2, <2>2, RangeFacts
<1> QED BY <1>2, <1>5, <1>6 DEF U, u

-----------------------------------------------------------------------------
(* An adapter before a request and with one on its way. Before it, every   *)
(* pending call is answered by one row behind the last assistant row; the  *)
(* other results, and the nudges before that row, were sent already. The   *)
(* ids of a call begin with its turn, so no result answers a later call.   *)
Adapter == [messages : Seq(Message), pending : Seq(CallId), first : BOOLEAN]
Once(h, id) ==
  \E i \in 1 .. Len(h) : /\ h[i] = Result(id) /\ Behind(h, i)
                         /\ \A j \in 1 .. Len(h) : h[j] = Result(id) => j = i
Accounted(a, h, t) ==
  \A i \in 1 .. Len(h) :
    /\ h[i].role = "tool" =>
         h[i].id[1] <= t /\ (h[i] \in Range(a.messages) \/ h[i].id \in Range(a.pending))
    /\ h[i].role = "user" => h[i] \in Range(a.messages) \/ Behind(h, i)
Awaiting(a, h, t) ==
  /\ \E m \in Seq(Message) : Well(m) /\ a.messages = Append(m, Assistant(a.pending))
  /\ \A j, k \in 1 .. Len(a.pending) : a.pending[j] = a.pending[k] => j = k
  /\ \A k \in 1 .. Len(a.pending) : Once(h, a.pending[k])
  /\ Accounted(a, h, t)
Ready(a, h, t) ==
  \/ a = FreshAdapter /\ h = <<>>
  \/ ~a.first /\ Awaiting(a, h, t)
AllSent(a, h, t) ==
  \A i \in 1 .. Len(h) :
    /\ h[i].role = "tool" => h[i].id[1] < t
    /\ h[i].role \in {"tool", "user"} => h[i] \in Range(a.messages)
Sent(a, h, t) == ~a.first /\ a.pending = <<>> /\ Well(a.messages) /\ AllSent(a, h, t)

LEMMA FirstRequest ==
  ASSUME NEW t
  PROVE  LET a == Request(FreshAdapter, <<>>)
         IN  a \in Adapter /\ Sent(a, <<>>, t)
<1> DEFINE a == Request(FreshAdapter, <<>>)
           m == <<System, Query>>
<1>1. System \in Message /\ Query \in Message /\ System.role = "system" /\ Query.role = "user"
  BY RowFacts
<1>2. a = [messages |-> m, pending |-> <<>>, first |-> FALSE]
  BY DEF Request, FreshAdapter
<1>3. m \in Seq(Message) /\ Len(m) = 2 /\ m[1] = System /\ m[2] = Query
  BY <1>1
<1> HIDE DEF m
<1>4. \A k \in DOMAIN m : m[k].role \notin {"assistant", "tool"}
  <2>1. DOMAIN m = {1, 2}
    BY <1>3
  <2> QED BY <1>1, <1>3, <2>1
<1>5. Well(m)
  BY <1>4 DEF Well
<1>7. AllSent(a, <<>>, t)
  BY DEF AllSent
<1> HIDE DEF a
<1>6. a \in Adapter
  <2>1. <<>> \in Seq(CallId)
    OBVIOUS
  <2> QED BY <1>2, <1>3, <2>1 DEF Adapter
<1>8. Sent(a, <<>>, t)
  BY <1>2, <1>5, <1>7 DEF Sent
<1> QED BY <1>6, <1>8 DEF a

LEMMA NextRequest ==
  ASSUME NEW a \in Adapter, NEW h \in Seq(Row), NEW t \in Nat,
         ~a.first, Awaiting(a, h, t)
  PROVE  Request(a, h) \in Adapter /\ Sent(Request(a, h), h, t + 1)
<1> DEFINE c == a.pending
           x == Trailing(h)
           q == Kept(x, Pending(a))
           u == Kept(x, Users(x))
           b == Request(a, h)
<1>1. c \in Seq(CallId) /\ a.messages \in Seq(Message)
  BY DEF Adapter
<1>2. PICK last \in 0 .. Len(h) :
        /\ x \in Seq(Row) /\ Len(x) = Len(h) - last
        /\ \A i \in 1 .. Len(h) - last : x[i] = h[last + i]
        /\ \A i \in 1 .. Len(h) : Behind(h, i) <=> i > last
  BY TrailingRows
<1>3. b = [messages |-> a.messages \o (q \o u), pending |-> <<>>, first |-> FALSE]
  <2>1. b = [a EXCEPT !.messages = a.messages \o (q \o u), !.pending = <<>>]
    BY DEF Request, Threaded
  <2> QED BY <2>1 DEF Adapter
<1> HIDE DEF x, b
<1>4. Len(h) \in Nat
  OBVIOUS
<1>5. ASSUME NEW i \in 1 .. Len(h), Behind(h, i)
      PROVE  i - last \in 1 .. Len(x) /\ x[i - last] = h[i]
  <2>1. i > last /\ i - last \in 1 .. Len(h) - last /\ last + (i - last) = i
    BY <1>2, <1>4, <1>5
  <2> QED BY <1>2, <2>1
<1>6. \A j, k \in 1 .. Len(c) : c[j] = c[k] => j = k
  BY DEF Awaiting
<1>7. ASSUME NEW k \in 1 .. Len(c)
      PROVE  \E i \in 1 .. Len(x) :
               /\ x[i] = Result(c[k])
               /\ \A j \in 1 .. Len(x) : x[j] = Result(c[k]) => j = i
  <2>1. PICK i \in 1 .. Len(h) :
           /\ h[i] = Result(c[k]) /\ Behind(h, i)
           /\ \A j \in 1 .. Len(h) : h[j] = Result(c[k]) => j = i
    BY DEF Awaiting, Once
  <2>2. i - last \in 1 .. Len(x) /\ x[i - last] = Result(c[k])
    BY <1>5, <2>1
  <2>3. ASSUME NEW j \in 1 .. Len(x), x[j] = Result(c[k]) PROVE j = i - last
    <3>1. last + j \in 1 .. Len(h) /\ h[last + j] = x[j]
      BY <1>2, <1>4
    <3>2. last + j = i
      BY <2>1, <2>3, <3>1
    <3> QED BY <3>2
  <2> QED BY <2>2, <2>3
<1>8. Pending(a) = {Result(id) : id \in Range(c)}
  BY DEF Pending
<1> HIDE DEF c
<1>9. /\ q \in Seq(Row) /\ Len(q) = Len(c)
      /\ \A j \in 1 .. Len(q) : q[j].role = "tool"
      /\ {q[j].id : j \in 1 .. Len(q)} = Range(c)
      /\ Range(q) = Pending(a)
  <2> DEFINE P == {Result(id) : id \in Range(c)}
             k == Kept(x, P)
  <2>1. /\ k \in Seq(Row) /\ Len(k) = Len(c)
        /\ \A j \in 1 .. Len(k) : k[j].role = "tool"
        /\ {k[j].id : j \in 1 .. Len(k)} = Range(c)
        /\ Range(k) = P
    <3>1. x \in Seq(Row)
      BY <1>2
    <3> QED BY ONLY <1>1, <1>6, <1>7, <3>1, KeptResults
  <2>2. q = k /\ Pending(a) = P
    BY <1>8
  <2> HIDE DEF P, k, q
  <2> QED BY <2>1, <2>2
<1> HIDE DEF q
<1>10. /\ u \in Seq(Row)
       /\ \A j \in 1 .. Len(u) : u[j].role = "user"
       /\ \A i \in 1 .. Len(x) : x[i].role = "user" => x[i] \in Range(u)
  BY <1>2, KeptNudges
<1> HIDE DEF u
<1>11. q \in Seq(Message) /\ u \in Seq(Message)
  BY <1>9, <1>10, RowFacts
<1>12. a.messages \o (q \o u) \in Seq(Message) /\ Well(a.messages \o (q \o u))
  <2>1. PICK m \in Seq(Message) : Well(m) /\ a.messages = Append(m, Assistant(c))
    BY DEF Awaiting, c
  <2>2. Well(Append(m, Assistant(c)) \o (q \o u))
    BY <1>1, <1>9, <1>10, <1>11, <2>1, WellGrows
  <2>3. q \o u \in Seq(Message)
    BY <1>11, JoinFacts
  <2> HIDE DEF Adapter
  <2>4. a.messages \o (q \o u) \in Seq(Message)
    BY <1>1, <2>3, JoinFacts
  <2> QED BY <2>1, <2>2, <2>4
<1>13. /\ Range(a.messages) \subseteq Range(a.messages \o (q \o u))
       /\ Range(q) \subseteq Range(a.messages \o (q \o u))
       /\ Range(u) \subseteq Range(a.messages \o (q \o u))
  <2>1. q \o u \in Seq(Message) /\ Range(q \o u) = Range(q) \cup Range(u)
    BY ONLY <1>11, RangeJoin, JoinFacts
  <2>2. Range(a.messages \o (q \o u)) = Range(a.messages) \cup Range(q \o u)
    <3> DEFINE M == a.messages
               B == q \o u
    <3>1. M \in Seq(Message) /\ B \in Seq(Message)
      BY <1>1, <2>1
    <3> HIDE DEF M, B
    <3>2. Range(M \o B) = Range(M) \cup Range(B)
      BY ONLY <3>1, RangeJoin
    <3> QED BY <3>2 DEF M, B
  <2> QED BY <2>1, <2>2
<1>14. b \in Adapter
  BY <1>3, <1>12 DEF Adapter
<1>15. ASSUME NEW i \in 1 .. Len(h)
       PROVE  /\ h[i].role = "tool" => h[i].id[1] < t + 1
              /\ h[i].role \in {"tool", "user"} => h[i] \in Range(b.messages)
  <2>1. h[i] \in Row /\ b.messages = a.messages \o (q \o u)
    <3>1. h[i] \in Row
      OBVIOUS
    <3>2. b.messages = a.messages \o (q \o u)
      BY ONLY <1>3
    <3> QED BY <3>1, <3>2
  <2>2. ASSUME h[i].role = "tool"
        PROVE  h[i].id[1] < t + 1 /\ h[i] \in Range(b.messages)
    <3>1. h[i].id \in CallId /\ h[i] = Result(h[i].id)
      BY <2>1, <2>2, RowKinds
    <3>2. h[i].id[1] <= t /\ (h[i] \in Range(a.messages) \/ h[i].id \in Range(c))
      BY <2>2 DEF Awaiting, Accounted, c
    <3>3. h[i].id \in Range(c) => h[i] \in Pending(a)
      BY <1>8, <3>1
    <3>4. h[i] \in Range(b.messages)
      BY <1>9, <1>13, <2>1, <3>2, <3>3
    <3>5. h[i].id[1] \in Nat
      BY <3>1 DEF CallId
    <3> QED BY <3>2, <3>4, <3>5
  <2>3. ASSUME h[i].role = "user" PROVE h[i] \in Range(b.messages)
    <3>1. h[i] \in Range(a.messages) \/ Behind(h, i)
      BY <2>3 DEF Awaiting, Accounted
    <3>2. Behind(h, i) => h[i] \in Range(u)
      BY <1>5, <1>10, <2>3
    <3> QED BY <1>13, <2>1, <3>1, <3>2
  <2> QED BY <2>2, <2>3
<1>16. AllSent(b, h, t + 1)
  BY <1>15 DEF AllSent
<1>17. Sent(b, h, t + 1)
  BY <1>3, <1>12, <1>16 DEF Sent
<1> QED BY <1>14, <1>17 DEF b

(* After a response without calls the assistant row of the turn comes last,*)
(* or before a nudge.                                                      *)
LEMMA TalkAwaits ==
  ASSUME NEW a \in Adapter, NEW h \in Seq(Row), NEW t \in Nat, AllSent(a, h, t),
         a.pending = <<>>, NEW rows \in TalkRows(t), NEW b \in Adapter,
         b.pending = <<>>, Range(a.messages) \subseteq Range(b.messages)
  PROVE  h \o rows \in Seq(Row) /\ Accounted(b, h \o rows, t)
<1> DEFINE A == Assistant(<<>>)
           U == User(<<t, "state">>)
           g == h \o rows
<1>1. A \in Row /\ A.role = "assistant" /\ U \in Row /\ U.role = "user"
  <2>1. <<>> \in Seq(CallId)
    OBVIOUS
  <2> QED BY <2>1, RowFacts
<1>2. rows = <<A>> \/ rows = <<A, U>>
  BY DEF TalkRows
<1> HIDE DEF A, U
<1>3. /\ rows \in Seq(Row) /\ Len(rows) \in 1 .. 2 /\ rows[1] = A
      /\ Len(rows) = 2 => rows[2] = U
  <2>1. CASE rows = <<A>>
    BY ONLY <1>1, <2>1
  <2>2. CASE rows = <<A, U>>
    BY ONLY <1>1, <2>2
  <2> QED BY <1>2, <2>1, <2>2
<1>4. /\ g \in Seq(Row) /\ Len(g) = Len(h) + Len(rows) /\ Len(h) \in Nat
      /\ \A i \in 1 .. Len(h) : g[i] = h[i]
      /\ \A i \in 1 .. Len(rows) : g[Len(h) + i] = rows[i]
  <2>1. h \in Seq(Row) /\ rows \in Seq(Row) /\ Len(h) \in Nat
    BY <1>3
  <2> QED BY ONLY <2>1, JoinFacts
<1> HIDE DEF g
<1>5. ASSUME NEW i \in 1 .. Len(g)
      PROVE  /\ g[i].role = "tool" =>
                  g[i].id[1] <= t /\ (g[i] \in Range(b.messages) \/ g[i].id \in Range(b.pending))
             /\ g[i].role = "user" => g[i] \in Range(b.messages) \/ Behind(g, i)
  <2>1. CASE i <= Len(h)
    <3>1. i \in 1 .. Len(h) /\ g[i] = h[i] /\ h[i] \in Row
      BY <1>4, <2>1
    <3>2. ASSUME h[i].role = "tool" PROVE h[i].id[1] <= t /\ h[i] \in Range(b.messages)
      <4>1. h[i].id \in CallId
        BY <3>1, <3>2, RowKinds
      <4>2. h[i].id[1] \in Nat
        BY <4>1 DEF CallId
      <4>3. h[i].id[1] < t /\ h[i] \in Range(a.messages)
        BY <3>1, <3>2 DEF AllSent
      <4> QED BY <4>2, <4>3
    <3>3. h[i].role = "user" => h[i] \in Range(b.messages)
      BY <3>1 DEF AllSent
    <3> QED BY <3>1, <3>2, <3>3
  <2>2. CASE i = Len(h) + 1
    <3>1. g[i] = A
      BY <1>3, <1>4, <2>2
    <3> QED BY <1>1, <3>1
  <2>3. CASE i = Len(h) + 2
    <3>1. Len(rows) = 2 /\ i = Len(g)
      BY <1>3, <1>4, <2>3
    <3>2. g[i] = U
      BY <1>3, <1>4, <2>3, <3>1
    <3>3. i .. Len(g) = {i}
      BY <3>1
    <3>4. Behind(g, i)
      BY <1>1, <3>2, <3>3 DEF Behind
    <3> QED BY <1>1, <3>2, <3>4
  <2>4. i <= Len(h) \/ i = Len(h) + 1 \/ i = Len(h) + 2
    <3>1. Len(rows) \in 1 .. 2 /\ Len(h) \in Nat /\ i \in 1 .. Len(h) + Len(rows)
      BY <1>3, <1>4
    <3>2. \A k \in Nat : \A n \in 1 .. 2 : \A j \in 1 .. k + n :
            j <= k \/ j = k + 1 \/ j = k + 2
      OBVIOUS
    <3> QED BY ONLY <3>1, <3>2
  <2> QED BY <2>1, <2>2, <2>3, <2>4
<1>6. Accounted(b, g, t)
  BY <1>5 DEF Accounted
<1> QED BY <1>4, <1>6 DEF g

(* After a response with calls each of them is answered once.              *)
LEMMA BatchAwaits ==
  ASSUME NEW a \in Adapter, NEW h \in Seq(Row), NEW t \in Nat, AllSent(a, h, t),
         NEW c \in Seq(CallId), \A k \in 1 .. Len(c) : c[k] = <<t, k>>,
         NEW rows, Answering(rows, c), NEW b \in Adapter,
         b.pending = c, Range(a.messages) \subseteq Range(b.messages)
  PROVE  /\ h \o rows \in Seq(Row) /\ Accounted(b, h \o rows, t)
         /\ \A k \in 1 .. Len(c) : Once(h \o rows, c[k])
<1> DEFINE g == h \o rows
           n == Len(c)
<1>1. PICK pos \in [1 .. n -> 1 .. Len(rows)] :
         /\ \A k \in 1 .. n : rows[pos[k]] = Result(c[k])
         /\ \A i \in 1 .. Len(rows) :
              (\E k \in 1 .. n : pos[k] = i) \/ rows[i].role = "user"
  BY DEF Answering
<1>2. rows \in Seq(Row)
  BY DEF Answering
<1>3. /\ g \in Seq(Row) /\ Len(g) = Len(h) + Len(rows)
      /\ \A i \in 1 .. Len(h) : g[i] = h[i]
      /\ \A i \in 1 .. Len(rows) : g[Len(h) + i] = rows[i]
  <2>1. h \in Seq(Row) /\ rows \in Seq(Row)
    BY <1>2
  <2> QED BY ONLY <2>1, JoinFacts
<1>4. Len(h) \in Nat /\ Len(rows) \in Nat /\ n \in Nat
  BY <1>2
<1>5. \A k \in 1 .. n : /\ c[k] \in CallId /\ c[k][1] = t /\ c[k][2] = k
                       /\ Result(c[k]).role = "tool" /\ Result(c[k]).id = c[k]
  <2> SUFFICES ASSUME NEW k \in 1 .. n
               PROVE  /\ c[k] \in CallId /\ c[k][1] = t /\ c[k][2] = k
                      /\ Result(c[k]).role = "tool" /\ Result(c[k]).id = c[k]
    OBVIOUS
  <2>1. c[k] \in CallId /\ c[k] = <<t, k>>
    OBVIOUS
  <2>2. Result(c[k]).role = "tool" /\ Result(c[k]).id = c[k]
    BY <2>1, RowFacts
  <2>3. c[k][1] = t /\ c[k][2] = k
    BY ONLY <2>1
  <2> QED BY ONLY <2>1, <2>2, <2>3
<1>6. \A k \in 1 .. n : c[k] \in Range(c)
  BY RangeFacts
<1>7. ASSUME NEW i \in 1 .. Len(h), h[i].role = "tool"
      PROVE  h[i].id[1] \in Nat /\ h[i].id[1] < t
  <2>1. h[i].id \in CallId
    BY <1>7, RowKinds
  <2> QED BY <1>7, <2>1 DEF AllSent, CallId
<1> HIDE DEF g, n
<1>8. \A j \in 1 .. Len(g) : j \in 1 .. Len(h) \/ \E i \in 1 .. Len(rows) : j = Len(h) + i
  <2> SUFFICES ASSUME NEW j \in 1 .. Len(g), j \notin 1 .. Len(h)
               PROVE  \E i \in 1 .. Len(rows) : j = Len(h) + i
    OBVIOUS
  <2>1. j - Len(h) \in 1 .. Len(rows) /\ j = Len(h) + (j - Len(h))
    BY <1>3, <1>4
  <2> QED BY <2>1
<1>9. \A i \in 1 .. Len(rows) : rows[i].role \in {"tool", "user"}
  BY <1>1, <1>5
<1>10. ASSUME NEW i \in 1 .. Len(rows) PROVE Len(h) + i \in 1 .. Len(g) /\ Behind(g, Len(h) + i)
  <2>1. ASSUME NEW j \in (Len(h) + i) .. Len(g) PROVE g[j].role # "assistant"
    <3>1. j - Len(h) \in 1 .. Len(rows) /\ j = Len(h) + (j - Len(h))
      BY <1>3, <1>4
    <3>2. g[j] = rows[j - Len(h)]
      BY <1>3, <3>1
    <3> QED BY <1>9, <3>1, <3>2
  <2> QED BY <1>3, <1>4, <2>1 DEF Behind
<1>11. ASSUME NEW k \in 1 .. n PROVE Once(g, c[k])
  <2> DEFINE e == Len(h) + pos[k]
  <2>1. e \in 1 .. Len(g) /\ Behind(g, e) /\ g[e] = Result(c[k])
    BY <1>1, <1>3, <1>10
  <2>2. ASSUME NEW j \in 1 .. Len(g), g[j] = Result(c[k]) PROVE j = e
    <3>1. g[j].role = "tool" /\ g[j].id[1] = t
      BY <1>5, <2>2
    <3>2. CASE j \in 1 .. Len(h)
      BY <1>3, <1>7, <3>1, <3>2
    <3>3. CASE \E i \in 1 .. Len(rows) : j = Len(h) + i
      <4>1. PICK i \in 1 .. Len(rows) : j = Len(h) + i
        BY <3>3
      <4>2. g[j] = rows[i]
        BY <1>3, <4>1
      <4>3. PICK l \in 1 .. n : pos[l] = i
        BY <1>1, <3>1, <4>2
      <4>4. Result(c[l]) = Result(c[k])
        BY <1>1, <2>2, <4>2, <4>3
      <4>5. l = k
        BY <1>5, <4>4
      <4> QED BY <4>1, <4>3, <4>5
    <3> QED BY <1>8, <3>2, <3>3
  <2> HIDE DEF e
  <2> QED BY <2>1, <2>2 DEF Once
<1>12. ASSUME NEW j \in 1 .. Len(g)
       PROVE  /\ g[j].role = "tool" =>
                   g[j].id[1] <= t /\ (g[j] \in Range(b.messages) \/ g[j].id \in Range(b.pending))
              /\ g[j].role = "user" => g[j] \in Range(b.messages) \/ Behind(g, j)
  <2>1. CASE j \in 1 .. Len(h)
    <3>1. g[j] = h[j]
      BY <1>3, <2>1
    <3>2. h[j].role = "tool" => h[j].id[1] <= t
      BY <1>7, <2>1
    <3>3. h[j].role \in {"tool", "user"} => h[j] \in Range(b.messages)
      BY <2>1 DEF AllSent
    <3> QED BY <3>1, <3>2, <3>3
  <2>2. CASE \E i \in 1 .. Len(rows) : j = Len(h) + i
    <3>1. PICK i \in 1 .. Len(rows) : j = Len(h) + i
      BY <2>2
    <3>2. g[j] = rows[i] /\ Behind(g, j)
      BY <1>3, <1>10, <3>1
    <3>3. CASE \E k \in 1 .. n : pos[k] = i
      <4>1. PICK k \in 1 .. n : pos[k] = i
        BY <3>3
      <4>2. g[j] = Result(c[k])
        BY <1>1, <3>2, <4>1
      <4>3. g[j].role = "tool" /\ g[j].id = c[k] /\ g[j].id[1] = t
        BY <1>5, <4>2
      <4> QED BY <1>6, <4>3
    <3>4. CASE rows[i].role = "user"
      BY <3>2, <3>4
    <3> QED BY <1>1, <3>3, <3>4
  <2> QED BY <1>8, <2>1, <2>2
<1>13. Accounted(b, g, t)
  BY <1>12 DEF Accounted
<1> QED BY <1>3, <1>11, <1>13 DEF g, n

LEMMA ReceivedFacts ==
  ASSUME NEW a \in Adapter, NEW c \in Seq(CallId), a.pending = <<>>
  PROVE  /\ Received(a, c) \in Adapter
         /\ Received(a, c).messages = Append(a.messages, Assistant(c))
         /\ Received(a, c).pending = c /\ Received(a, c).first = a.first
         /\ Range(a.messages) \subseteq Range(Received(a, c).messages)
<1> DEFINE M == a.messages
           B == Append(M, Assistant(c))
           b == Received(a, c)
<1>1. a \in [messages : Seq(Message), pending : Seq(CallId), first : BOOLEAN]
  BY DEF Adapter
<1>2. <<>> \o c = c
  OBVIOUS
<1>3. Assistant(c) \in Message
  BY RowFacts
<1>4. M \in Seq(Message) /\ B \in Seq(Message)
  BY <1>1, <1>3
<1>5. b = [a EXCEPT !.messages = B, !.pending = c]
  BY <1>2 DEF Received
<1> HIDE DEF B, b
<1>6. b = [messages |-> B, pending |-> c, first |-> a.first]
  BY <1>1, <1>5
<1>7. b \in Adapter
  BY <1>1, <1>4, <1>6 DEF Adapter
<1>8. Range(M) \subseteq Range(B)
  <2>1. B = M \o <<Assistant(c)>> /\ <<Assistant(c)>> \in Seq(Message)
    BY <1>3, <1>4 DEF B
  <2> DEFINE X == <<Assistant(c)>>
  <2>2. M \in Seq(Message) /\ X \in Seq(Message) /\ B = M \o X
    BY <1>4, <2>1
  <2> HIDE DEF M, X
  <2>3. Range(M \o X) = Range(M) \cup Range(X)
    BY ONLY <2>2, RangeJoin
  <2> QED BY <2>2, <2>3
<1> QED BY <1>6, <1>7, <1>8 DEF b, B, M

LEMMA ReceivedAwaits ==
  ASSUME NEW a \in Adapter, NEW h \in Seq(Row), NEW t \in Nat, Sent(a, h, t), NEW n \in Nat,
         NEW rows \in IF n = 0 THEN TalkRows(t) ELSE BatchRows(Ids(n, t), t)
  PROVE  h \o rows \in Seq(Row) /\ Ready(Received(a, Ids(n, t)), h \o rows, t)
<1> DEFINE c == Ids(n, t)
           b == Received(a, c)
           g == h \o rows
<1>1. c \in Seq(CallId) /\ Len(c) = n /\ \A k \in 1 .. n : c[k] = <<t, k>>
  BY IdsFacts
<1>2. a.pending = <<>> /\ ~a.first /\ Well(a.messages) /\ AllSent(a, h, t)
  BY DEF Sent
<1> HIDE DEF c
<1>3. /\ b \in Adapter /\ b.messages = Append(a.messages, Assistant(c))
      /\ b.pending = c /\ b.first = a.first
      /\ Range(a.messages) \subseteq Range(b.messages)
  BY ONLY <1>1, <1>2, ReceivedFacts, a \in Adapter
<1>4. \A j, k \in 1 .. n : c[j] = c[k] => j = k
  <2> SUFFICES ASSUME NEW j \in 1 .. n, NEW k \in 1 .. n, c[j] = c[k] PROVE j = k
    OBVIOUS
  <2>1. <<t, j>> = <<t, k>>
    BY <1>1
  <2> QED BY <2>1
<1>5. a.messages \in Seq(Message)
  BY DEF Adapter
<1> HIDE DEF b
<1>6. g \in Seq(Row) /\ Accounted(b, g, t) /\ \A k \in 1 .. n : Once(g, c[k])
  <2>1. CASE n = 0
    <3>1. c = <<>> /\ rows \in TalkRows(t)
      BY <1>1, <2>1
    <3>2. g \in Seq(Row) /\ Accounted(b, g, t)
      BY <1>2, <1>3, <3>1, TalkAwaits
    <3> QED BY <2>1, <3>2
  <2>2. CASE n # 0
    <3>1. rows \in BatchRows(c, t)
      BY <2>2 DEF c
    <3>2. Answering(rows, c)
      BY <1>1, <3>1, BatchAnswers
    <3>3. \A k \in 1 .. Len(c) : c[k] = <<t, k>>
      BY <1>1
    <3>4. /\ g \in Seq(Row) /\ Accounted(b, g, t)
          /\ \A k \in 1 .. Len(c) : Once(g, c[k])
      BY <1>1, <1>2, <1>3, <3>2, <3>3, BatchAwaits
    <3> QED BY <1>1, <3>4
  <2> QED BY <2>1, <2>2
<1> HIDE DEF g
<1>7. Awaiting(b, g, t)
  BY <1>1, <1>2, <1>3, <1>4, <1>5, <1>6 DEF Awaiting
<1>8. Ready(b, g, t)
  BY <1>2, <1>3, <1>7 DEF Ready
<1> QED BY <1>6, <1>8 DEF b, c, g

-----------------------------------------------------------------------------
(* The inductive invariant of the threads' conversations.                  *)
ThreadTypeOK ==
  /\ phase \in [Workers -> {"ready", "dial", "sent", "over"}]
  /\ adapter \in [Workers -> Adapter] /\ history \in [Workers -> Seq(Row)]
  /\ turn \in [Workers -> Nat]
ThreadInv ==
  /\ ThreadTypeOK
  /\ \A w \in Workers :
       /\ phase[w] = "ready" => Ready(adapter[w], history[w], turn[w])
       /\ phase[w] \in {"dial", "sent"} => Sent(adapter[w], history[w], turn[w])

LEMMA FreshFacts ==
  FreshAdapter \in Adapter /\ <<>> \in Seq(Row) /\ \A t : Ready(FreshAdapter, <<>>, t)
<1>1. <<>> \in Seq(Message) /\ <<>> \in Seq(CallId) /\ <<>> \in Seq(Row)
  OBVIOUS
<1> QED BY <1>1 DEF FreshAdapter, Adapter, Ready

LEMMA ThreadInit == Init => ThreadInv
<1> SUFFICES ASSUME Init PROVE ThreadInv
  OBVIOUS
<1>1. /\ phase = [w \in Workers |-> "over"] /\ adapter = [w \in Workers |-> FreshAdapter]
      /\ history = [w \in Workers |-> <<>>] /\ turn = [w \in Workers |-> 0]
  BY DEF Init
<1> QED BY <1>1, FreshFacts DEF ThreadInv, ThreadTypeOK

LEMMA ThreadStep ==
  ASSUME ConversationAssumption, ThreadInv, NEW w \in Workers, Step(w)
  PROVE  ThreadInv'
<1> DEFINE Fits(v) ==
             /\ phase[v] = "ready" => Ready(adapter[v], history[v], turn[v])
             /\ phase[v] \in {"dial", "sent"} => Sent(adapter[v], history[v], turn[v])
           FitsNext(v) ==
             /\ phase'[v] = "ready" => Ready(adapter'[v], history'[v], turn'[v])
             /\ phase'[v] \in {"dial", "sent"} => Sent(adapter'[v], history'[v], turn'[v])
<1>1. /\ phase \in [Workers -> {"ready", "dial", "sent", "over"}]
      /\ adapter \in [Workers -> Adapter] /\ history \in [Workers -> Seq(Row)]
      /\ turn \in [Workers -> Nat]
  BY DEF ThreadInv, ThreadTypeOK
<1>2. \A v \in Workers : Fits(v)
  BY DEF ThreadInv
<1>3. /\ phase[w] \in {"ready", "dial", "sent", "over"} /\ adapter[w] \in Adapter
      /\ history[w] \in Seq(Row) /\ turn[w] \in Nat
  BY <1>1
(* Enough: the step types w's four fields and leaves w fitting.            *)
<1>4. ASSUME NEW p \in {"ready", "dial", "sent", "over"}, NEW a \in Adapter,
             NEW h \in Seq(Row), NEW t \in Nat,
             phase' = [phase EXCEPT ![w] = p], adapter' = [adapter EXCEPT ![w] = a],
             history' = [history EXCEPT ![w] = h], turn' = [turn EXCEPT ![w] = t],
             p = "ready" => Ready(a, h, t),
             p \in {"dial", "sent"} => Sent(a, h, t)
      PROVE  ThreadInv'
  <2>1. ThreadTypeOK'
    BY <1>1, <1>4 DEF ThreadTypeOK
  <2>2. ASSUME NEW v \in Workers PROVE FitsNext(v)
    <3>1. CASE v = w
      <4>1. phase'[v] = p /\ adapter'[v] = a /\ history'[v] = h /\ turn'[v] = t
        BY <1>1, <1>4, <3>1
      <4> QED BY <1>4, <4>1
    <3>2. CASE v # w
      <4>1. /\ phase'[v] = phase[v] /\ adapter'[v] = adapter[v]
            /\ history'[v] = history[v] /\ turn'[v] = turn[v]
        BY <1>1, <1>4, <3>2
      <4> QED BY <1>2, <4>1
    <3> QED BY <3>1, <3>2
  <2> QED BY <2>1, <2>2 DEF ThreadInv
<1>5. /\ phase = [phase EXCEPT ![w] = phase[w]] /\ adapter = [adapter EXCEPT ![w] = adapter[w]]
      /\ history = [history EXCEPT ![w] = history[w]] /\ turn = [turn EXCEPT ![w] = turn[w]]
  BY <1>1
<1> HIDE DEF Fits, FitsNext
<1>6. CASE StartRun(w)
  <2>1. /\ phase' = [phase EXCEPT ![w] = "ready"] /\ adapter' = [adapter EXCEPT ![w] = FreshAdapter]
        /\ history' = [history EXCEPT ![w] = <<>>] /\ turn' = [turn EXCEPT ![w] = 0]
    BY <1>6 DEF StartRun
  <2> QED BY <1>4, <2>1, FreshFacts
<1>7. CASE Send(w)
  <2> DEFINE a == Request(adapter[w], history[w])
             t == turn[w] + 1
  <2>1. /\ phase' = [phase EXCEPT ![w] = "dial"] /\ adapter' = [adapter EXCEPT ![w] = a]
        /\ history' = history /\ turn' = [turn EXCEPT ![w] = t]
    BY <1>7 DEF Send
  <2>2. Ready(adapter[w], history[w], turn[w])
    BY <1>2, <1>7 DEF Fits, Send
  <2>3. t \in Nat
    BY <1>3
  <2>4. a \in Adapter /\ Sent(a, history[w], t)
    <3>1. CASE adapter[w] = FreshAdapter /\ history[w] = <<>>
      BY <3>1, FirstRequest
    <3>2. CASE ~adapter[w].first /\ Awaiting(adapter[w], history[w], turn[w])
      BY ONLY <1>3, <3>2, NextRequest
    <3> QED BY <2>2, <3>1, <3>2 DEF Ready
  <2> HIDE DEF a, t
  <2>5. history' = [history EXCEPT ![w] = history[w]]
    BY <1>5, <2>1
  <2> QED BY <1>3, <1>4, <2>1, <2>3, <2>4, <2>5
<1>8. CASE Dial(w)
  <2>1. /\ phase' = [phase EXCEPT ![w] = "sent"] /\ phase[w] = "dial"
        /\ adapter' = adapter /\ history' = history /\ turn' = turn
    BY <1>8 DEF Dial
  <2>2. Sent(adapter[w], history[w], turn[w])
    BY <1>2, <2>1 DEF Fits
  <2>3. /\ adapter' = [adapter EXCEPT ![w] = adapter[w]]
        /\ history' = [history EXCEPT ![w] = history[w]] /\ turn' = [turn EXCEPT ![w] = turn[w]]
    BY <1>5, <2>1
  <2> QED BY <1>3, <1>4, <2>1, <2>2, <2>3
<1>9. CASE Answered(w)
  <2>1. phase[w] = "sent" /\ turn' = turn
    BY <1>9 DEF Answered
  <2>2. Sent(adapter[w], history[w], turn[w])
    BY <1>2, <2>1 DEF Fits
  <2>3. PICK n \in 0 .. MaxBatch :
          /\ adapter' = [adapter EXCEPT ![w] = Received(adapter[w], Ids(n, turn[w]))]
          /\ \/ /\ phase' = [phase EXCEPT ![w] = "ready"]
                /\ \E rows \in IF n = 0 THEN TalkRows(turn[w])
                               ELSE BatchRows(Ids(n, turn[w]), turn[w]) :
                     history' = [history EXCEPT ![w] = history[w] \o rows]
             \/ /\ phase' = [phase EXCEPT ![w] = "over"]
                /\ history' = [history EXCEPT ![w] = <<>>]
    BY <1>9 DEF Answered
  <2> DEFINE a == Received(adapter[w], Ids(n, turn[w]))
  <2>4. n \in Nat
    BY DEF ConversationAssumption
  <2>5. a \in Adapter
    <3>1. Ids(n, turn[w]) \in Seq(CallId)
      BY <1>3, <2>4, IdsFacts
    <3>2. adapter[w].pending = <<>>
      BY <2>2 DEF Sent
    <3> QED BY <1>3, <3>1, <3>2, ReceivedFacts
  <2>6. turn' = [turn EXCEPT ![w] = turn[w]]
    BY <1>5, <2>1
  <2>7. CASE phase' = [phase EXCEPT ![w] = "ready"]
             /\ \E rows \in IF n = 0 THEN TalkRows(turn[w])
                            ELSE BatchRows(Ids(n, turn[w]), turn[w]) :
                  history' = [history EXCEPT ![w] = history[w] \o rows]
    <3>1. PICK rows \in IF n = 0 THEN TalkRows(turn[w]) ELSE BatchRows(Ids(n, turn[w]), turn[w]) :
             history' = [history EXCEPT ![w] = history[w] \o rows]
      BY <2>7
    <3> DEFINE h == history[w] \o rows
    <3>2. h \in Seq(Row) /\ Ready(a, h, turn[w])
      BY <1>3, <2>2, <2>4, ReceivedAwaits
    <3>3. /\ phase' = [phase EXCEPT ![w] = "ready"] /\ adapter' = [adapter EXCEPT ![w] = a]
          /\ history' = [history EXCEPT ![w] = h]
      BY <2>3, <2>7, <3>1
    <3> HIDE DEF a, h
    <3> QED BY <1>3, <1>4, <2>5, <2>6, <3>2, <3>3
  <2>8. CASE phase' = [phase EXCEPT ![w] = "over"]
             /\ history' = [history EXCEPT ![w] = <<>>]
    <3>1. adapter' = [adapter EXCEPT ![w] = a]
      BY <2>3
    <3> HIDE DEF a
    <3> QED BY <1>3, <1>4, <2>5, <2>6, <2>8, <3>1, FreshFacts
  <2> QED BY <2>3, <2>7, <2>8
<1>10. CASE Refuses(w) \/ Raises(w)
  <2>1. /\ \/ phase' = [phase EXCEPT ![w] = "over"]
           \/ phase' = [phase EXCEPT ![w] = "dial"]
        /\ phase[w] = "sent" /\ adapter' = adapter /\ history' = history /\ turn' = turn
    BY <1>10 DEF Refuses, Raises
  <2>2. Sent(adapter[w], history[w], turn[w])
    BY <1>2, <2>1 DEF Fits
  <2>3. /\ adapter' = [adapter EXCEPT ![w] = adapter[w]]
        /\ history' = [history EXCEPT ![w] = history[w]] /\ turn' = [turn EXCEPT ![w] = turn[w]]
    BY <1>5, <2>1
  <2>4. PICK p \in {"over", "dial"} : phase' = [phase EXCEPT ![w] = p]
    BY <2>1
  <2> QED BY <1>3, <1>4, <2>2, <2>3, <2>4
<1> QED BY <1>6, <1>7, <1>8, <1>9, <1>10 DEF Step

LEMMA ThreadTheorem == Spec => []ThreadInv
<1>1. ThreadInv /\ [Next]_vars => ThreadInv'
  <2> SUFFICES ASSUME ThreadInv, [Next]_vars PROVE ThreadInv'
    OBVIOUS
  <2>1. CASE Next
    BY <2>1, ConversationAssumption, ThreadStep DEF Next
  <2>2. CASE UNCHANGED vars
    BY <2>2 DEF vars, ThreadInv, ThreadTypeOK
  <2> QED BY <2>1, <2>2
<1> QED BY <1>1, ThreadInit, PTL DEF Spec

LEMMA SentIsThreaded == ThreadInv => RequestsAreThreaded /\ NothingIsLost
<1> SUFFICES ASSUME ThreadInv PROVE RequestsAreThreaded /\ NothingIsLost
  OBVIOUS
<1>1. ASSUME NEW m \in Requests PROVE Well(m)
  <2>1. PICK w \in Workers : phase[w] \in {"dial", "sent"} /\ m = adapter[w].messages
    BY DEF Requests
  <2> QED BY <2>1 DEF ThreadInv, Sent
<1>2. RequestsAreThreaded
  BY <1>1 DEF RequestsAreThreaded, Well
<1>3. ASSUME NEW w \in Workers, phase[w] \in {"dial", "sent"}, NEW r \in Range(history[w]),
             r.role \in {"tool", "user"}
      PROVE  r \in Range(adapter[w].messages)
  <2>1. history[w] \in Seq(Row) /\ Sent(adapter[w], history[w], turn[w])
    BY <1>3 DEF ThreadInv, ThreadTypeOK
  <2>2. PICK i \in 1 .. Len(history[w]) : history[w][i] = r
    BY <2>1, RangeFacts
  <2> QED BY <1>3, <2>1, <2>2 DEF Sent, AllSent
<1> QED BY <1>2, <1>3 DEF NothingIsLost

(* Every request that is sent has each call answered at once and no answer *)
(* without its call, as strict providers demand.                           *)
THEOREM RequestsAreThreadedHolds == Spec => []RequestsAreThreaded
<1>1. ThreadInv => RequestsAreThreaded
  BY SentIsThreaded
<1> QED BY <1>1, ThreadTheorem, PTL

(* No result and no nudge is missing from the request that follows it.     *)
THEOREM NothingIsLostHolds == Spec => []NothingIsLost
<1>1. ThreadInv => NothingIsLost
  BY SentIsThreaded
<1> QED BY <1>1, ThreadTheorem, PTL

-----------------------------------------------------------------------------
(* The walk over the endpoints. A walk that no other thread disturbed has  *)
(* tried the i endpoints from the sticky one on, wrapping around.          *)
Endpoint == 0 .. N - 1
Walk == [i : Endpoint, at : Endpoint, tried : SUBSET Endpoint, moved : BOOLEAN]
WalkTypeOK ==
  /\ phase \in [Workers -> {"ready", "dial", "sent", "over"}]
  /\ walk \in [Workers -> Walk] /\ sticky \in Endpoint
Undisturbed(x, s) == x.tried = {(s + j) % N : j \in 0 .. x.i - 1}
WalkInv ==
  /\ WalkTypeOK
  /\ \A w \in Workers : ~walk[w].moved =>
       /\ phase[w] \in {"dial", "sent"} => Undisturbed(walk[w], sticky)
       /\ phase[w] = "sent" => walk[w].at = (sticky + walk[w].i) % N

LEMMA ModFacts ==
  \A n \in Nat \ {0} : \A s \in 0 .. n - 1 :
    \A j \in 0 .. n - 1 : (s + j) % n = IF s + j < n THEN s + j ELSE s + j - n
<1>1. \A n \in Nat \ {0} : \A s, j \in 0 .. n - 1 : s + j < n => (s + j) % n = s + j
  OBVIOUS
<1>2. \A n \in Nat \ {0} : \A s, j \in 0 .. n - 1 : s + j >= n => (s + j) % n = s + j - n
  OBVIOUS
<1>3. ASSUME NEW n \in Nat \ {0}, NEW s \in 0 .. n - 1, NEW j \in 0 .. n - 1
      PROVE  (s + j) % n = IF s + j < n THEN s + j ELSE s + j - n
  <2>1. s + j < n \/ s + j >= n
    OBVIOUS
  <2>2. s + j >= n => ~(s + j < n)
    OBVIOUS
  <2> QED BY <1>1, <1>2, <2>1, <2>2
<1> QED BY <1>3

(* The endpoints from any one on, all N of them, are all endpoints.        *)
LEMMA WrapsAround ==
  ASSUME ConversationAssumption, NEW s \in Endpoint
  PROVE  {(s + j) % N : j \in Endpoint} = Endpoint
<1>1. N \in Nat \ {0}
  BY DEF ConversationAssumption
<1>2. \A j \in 0 .. N - 1 : (s + j) % N = IF s + j < N THEN s + j ELSE s + j - N
  BY <1>1, ModFacts DEF Endpoint
<1>3. \A j \in 0 .. N - 1 : (s + j) % N \in 0 .. N - 1
  BY <1>1, <1>2 DEF Endpoint
<1>4. ASSUME NEW e \in 0 .. N - 1 PROVE \E j \in 0 .. N - 1 : (s + j) % N = e
  <2> DEFINE j == IF s <= e THEN e - s ELSE e - s + N
  <2>1. j \in 0 .. N - 1 /\ e = IF s + j < N THEN s + j ELSE s + j - N
    BY <1>1 DEF Endpoint
  <2> HIDE DEF j
  <2> QED BY <1>2, <2>1
<1> QED BY <1>3, <1>4 DEF Endpoint

LEMMA WalkInit == ConversationAssumption /\ Init => WalkInv
<1> SUFFICES ASSUME ConversationAssumption, Init PROVE WalkInv
  OBVIOUS
<1>1. 0 \in Endpoint
  BY DEF ConversationAssumption, Endpoint
<1>2. NoWalk \in Walk
  BY <1>1 DEF NoWalk, Walk
<1> QED BY <1>1, <1>2 DEF Init, WalkInv, WalkTypeOK

LEMMA WalkStep ==
  ASSUME ConversationAssumption, WalkInv, NEW w \in Workers, Step(w)
  PROVE  WalkInv'
<1>1. N \in Nat \ {0} /\ 0 \in Endpoint
  BY DEF ConversationAssumption, Endpoint
<1>2. NoWalk \in Walk /\ Undisturbed(NoWalk, sticky) /\ NoWalk.i = 0 /\ ~NoWalk.moved
  <2>1. 0 .. 0 - 1 = {}
    OBVIOUS
  <2> QED BY <1>1, <2>1 DEF NoWalk, Walk, Undisturbed
<1>3. /\ phase \in [Workers -> {"ready", "dial", "sent", "over"}]
      /\ walk \in [Workers -> Walk] /\ sticky \in Endpoint
  BY DEF WalkInv, WalkTypeOK
<1>4. \A v \in Workers : walk[v] \in Walk
  BY <1>3
<1>5. \A i \in Endpoint : (sticky + i) % N \in Endpoint
  BY <1>1, <1>3, ModFacts DEF Endpoint
<1>6. \A v \in Workers : v # w /\ sticky' = sticky /\ walk'[v] = walk[v] /\ phase'[v] = phase[v] =>
        (~walk'[v].moved =>
          /\ phase'[v] \in {"dial", "sent"} => Undisturbed(walk'[v], sticky')
          /\ phase'[v] = "sent" => walk'[v].at = (sticky' + walk'[v].i) % N)
  BY DEF WalkInv
<1>7. CASE StartRun(w)
  BY <1>3, <1>6, <1>7 DEF StartRun, WalkInv, WalkTypeOK
<1>8. CASE Send(w)
  <2>1. walk'[w] = NoWalk /\ phase'[w] = "dial" /\ sticky' = sticky
    BY <1>3, <1>8 DEF Send
  <2> QED BY <1>2, <1>3, <1>6, <1>8, <2>1 DEF Send, WalkInv, WalkTypeOK
<1>9. CASE Dial(w)
  <2>1. /\ walk' = [walk EXCEPT ![w] = [walk[w] EXCEPT !.at = (sticky + walk[w].i) % N]]
        /\ phase' = [phase EXCEPT ![w] = "sent"] /\ sticky' = sticky /\ phase[w] = "dial"
    BY <1>9 DEF Dial, Rotated
  <2>2. (sticky + walk[w].i) % N \in Endpoint
    BY <1>4, <1>5 DEF Walk
  <2>3. /\ walk'[w] \in Walk /\ walk'[w].at = (sticky + walk[w].i) % N
        /\ walk'[w].i = walk[w].i /\ walk'[w].tried = walk[w].tried
        /\ walk'[w].moved = walk[w].moved
    BY <1>3, <1>4, <2>1, <2>2 DEF Walk
  <2>4. ~walk'[w].moved => Undisturbed(walk'[w], sticky')
    BY <2>1, <2>3 DEF WalkInv, Undisturbed
  <2>5. WalkTypeOK'
    BY <1>3, <2>1, <2>3 DEF WalkTypeOK
  <2> QED BY <1>3, <1>6, <2>1, <2>3, <2>4, <2>5 DEF WalkInv
<1>10. CASE Answered(w)
  <2>1. /\ phase' \in [Workers -> {"ready", "dial", "sent", "over"}]
        /\ phase'[w] \in {"ready", "over"} /\ \A v \in Workers \ {w} : phase'[v] = phase[v]
    BY <1>3, <1>10 DEF Answered
  <2>2. /\ sticky' = walk[w].at
        /\ walk' = [v \in Workers |->
             IF v = w THEN NoWalk
             ELSE [walk[v] EXCEPT !.moved = phase[v] \in {"dial", "sent"}
                                            /\ (@ \/ sticky' # sticky)]]
    BY <1>10 DEF Answered
  <2>3. sticky' \in Endpoint
    BY <1>4, <2>2 DEF Walk
  <2>4. ASSUME NEW v \in Workers, v # w
        PROVE  /\ walk'[v] \in Walk
               /\ walk'[v].moved = (phase[v] \in {"dial", "sent"}
                                     /\ (walk[v].moved \/ sticky' # sticky))
               /\ walk'[v].i = walk[v].i /\ walk'[v].at = walk[v].at
               /\ walk'[v].tried = walk[v].tried
    <3> DEFINE b == phase[v] \in {"dial", "sent"} /\ (walk[v].moved \/ sticky' # sticky)
    <3>1. b \in BOOLEAN
      OBVIOUS
    <3>2. walk'[v] = [walk[v] EXCEPT !.moved = b]
      BY <2>2, <2>4
    <3> HIDE DEF b
    <3>3. /\ walk'[v] \in Walk /\ walk'[v].moved = b /\ walk'[v].i = walk[v].i
          /\ walk'[v].at = walk[v].at /\ walk'[v].tried = walk[v].tried
      BY <1>4, <3>1, <3>2 DEF Walk
    <3> QED BY <3>3 DEF b
  <2>5. walk' \in [Workers -> Walk] /\ walk'[w] = NoWalk
    BY <1>2, <2>2, <2>4
  <2>6. ASSUME NEW v \in Workers, v # w, ~walk'[v].moved
        PROVE  /\ phase'[v] \in {"dial", "sent"} => Undisturbed(walk'[v], sticky')
               /\ phase'[v] = "sent" => walk'[v].at = (sticky' + walk'[v].i) % N
    <3>1. CASE phase[v] \in {"dial", "sent"}
      <4>1. ~walk[v].moved /\ sticky' = sticky
        BY <2>4, <2>6, <3>1
      <4> QED BY <2>1, <2>4, <2>6, <3>1, <4>1 DEF WalkInv, Undisturbed
    <3>2. CASE phase[v] \notin {"dial", "sent"}
      BY <2>1, <2>6, <3>2
    <3> QED BY <3>1, <3>2
  <2> QED BY <2>1, <2>3, <2>5, <2>6 DEF WalkInv, WalkTypeOK
<1>11. CASE Refuses(w)
  <2>1. phase[w] = "sent" /\ sticky' = sticky
    BY <1>11 DEF Refuses
  <2>2. CASE MayRotate(walk[w].i)
    <3>1. /\ walk' = [walk EXCEPT ![w] = [walk[w] EXCEPT !.i = @ + 1, !.tried = Tried(w)]]
          /\ phase' = [phase EXCEPT ![w] = "dial"]
      BY <1>11, <2>2 DEF Refuses
    <3>2. walk[w].i + 1 \in Endpoint /\ walk[w].i \in Nat
      BY <1>1, <1>4, <2>2 DEF Walk, Endpoint, MayRotate
    <3>3. Tried(w) \in SUBSET Endpoint
      BY <1>4 DEF Tried, Walk
    <3>4. /\ walk'[w] \in Walk /\ walk'[w].i = walk[w].i + 1 /\ walk'[w].tried = Tried(w)
          /\ walk'[w].moved = walk[w].moved
      BY <1>3, <1>4, <3>1, <3>2, <3>3 DEF Walk
    <3>5. ASSUME ~walk[w].moved PROVE Undisturbed(walk'[w], sticky')
      <4>1. 0 .. (walk[w].i + 1) - 1 = (0 .. walk[w].i - 1) \cup {walk[w].i}
        BY <3>2
      <4>2. /\ walk[w].tried = {(sticky + j) % N : j \in 0 .. walk[w].i - 1}
            /\ walk[w].at = (sticky + walk[w].i) % N
        BY <2>1, <3>5 DEF WalkInv, Undisturbed
      <4> QED BY <2>1, <3>4, <4>1, <4>2 DEF Undisturbed, Tried
    <3>6. WalkTypeOK'
      BY <1>3, <2>1, <3>1, <3>4 DEF WalkTypeOK
    <3> QED BY <1>3, <1>6, <2>1, <3>1, <3>4, <3>5, <3>6 DEF WalkInv
  <2>3. CASE ~MayRotate(walk[w].i)
    <3>1. /\ walk' = [walk EXCEPT ![w] = NoWalk] /\ phase' = [phase EXCEPT ![w] = "over"]
      BY <1>11, <2>3 DEF Refuses
    <3> QED BY <1>2, <1>3, <1>6, <2>1, <3>1 DEF WalkInv, WalkTypeOK
  <2> QED BY <2>2, <2>3
<1>12. CASE Raises(w)
  BY <1>2, <1>3, <1>6, <1>12 DEF Raises, WalkInv, WalkTypeOK
<1> QED BY <1>7, <1>8, <1>9, <1>10, <1>11, <1>12 DEF Step

LEMMA WalkTheorem == Spec => []WalkInv
<1>1. WalkInv /\ [Next]_vars => WalkInv'
  <2> SUFFICES ASSUME WalkInv, [Next]_vars PROVE WalkInv'
    OBVIOUS
  <2>1. CASE Next
    BY <2>1, ConversationAssumption, WalkStep DEF Next
  <2>2. CASE UNCHANGED vars
    BY <2>2 DEF vars, WalkInv, WalkTypeOK, Undisturbed
  <2> QED BY <2>1, <2>2
<1> QED BY <1>1, ConversationAssumption, WalkInit, PTL DEF Spec

LEMMA WalkIsWhole == ConversationAssumption /\ WalkInv => GivesUpAfterAll
<1> SUFFICES ASSUME ConversationAssumption, WalkInv, NEW w \in Workers,
                    phase[w] = "sent", ~MayRotate(walk[w].i), ~walk[w].moved
             PROVE  Tried(w) = 0 .. N - 1
  BY DEF GivesUpAfterAll
<1>1. N \in Nat \ {0} /\ walk[w] \in Walk /\ sticky \in Endpoint
  BY DEF ConversationAssumption, WalkInv, WalkTypeOK
<1>2. walk[w].i = N - 1
  BY <1>1 DEF Walk, Endpoint, MayRotate
<1>3. /\ walk[w].tried = {(sticky + j) % N : j \in 0 .. N - 1 - 1}
      /\ walk[w].at = (sticky + (N - 1)) % N
  BY <1>2 DEF WalkInv, Undisturbed
<1>4. Endpoint = (0 .. N - 1 - 1) \cup {N - 1}
  BY <1>1 DEF Endpoint
<1>5. Tried(w) = {(sticky + j) % N : j \in Endpoint}
  BY <1>3, <1>4 DEF Tried
<1>6. {(sticky + j) % N : j \in Endpoint} = Endpoint
  BY <1>1, WrapsAround
<1> QED BY <1>5, <1>6 DEF Endpoint

(* The failure that a run ends on is that of the last of all endpoints,    *)
(* unless another thread moved the sticky index under the walk.            *)
THEOREM GivesUpHolds == Spec => []GivesUpAfterAll
<1>1. WalkInv => GivesUpAfterAll
  BY ConversationAssumption, WalkIsWhole
<1> QED BY <1>1, WalkTheorem, PTL
=============================================================================

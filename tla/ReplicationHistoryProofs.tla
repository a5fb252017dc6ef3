----------------------- MODULE ReplicationHistoryProofs -----------------------
(***************************************************************************)
(* Proof that in a steady view of a correct primary the lists of all nodes *)
(* are beginnings of one list, as long as no node executes anything twice, *)
(* for every number of nodes, clients and requests and whatever the other  *)
(* nodes do.  The list is that of all the requests R that were ever given  *)
(* a number, in the order of the numbers, in use still or not.             *)
(***************************************************************************)
EXTENDS ReplicationListProofs

-----------------------------------------------------------------------------
(* The list that requests with numbers make up.                            *)

(* Each number stands for one request, and none of them is a dummy.        *)
Unique(R) ==
  /\ R \subseteq Request
  /\ \A r \in R : r.client_request \in ClientRequest
  /\ \A r, o \in R : r.seq_num = o.seq_num => r = o

Appends(r) == ValueOf[r.client_request]
Reached(R, n) == \A r \in R : r.seq_num <= n

Different(list) == \A k, l \in DOMAIN list : list[k] = list[l] => k = l

Given(R, n) == CHOOSE r \in R : r.seq_num = n

(* The list of the requests with the numbers 0 to n.                       *)
ListTo(R, n) == [k \in 1 .. n + 1 |-> Appends(Given(R, k - 1))]

(* There are such requests, and no two of them append the same.            *)
Complete(R, n) ==
  /\ n \in Int /\ -1 <= n
  /\ \A k \in 0 .. n : \E r \in R : r.seq_num = k

Once(R, n) ==
  \A r, o \in R :
    r.seq_num \in 0 .. n /\ o.seq_num \in 0 .. n /\ Appends(r) = Appends(o)
      => r = o

Served(R, n) == Complete(R, n) /\ Once(R, n)

LEMMA ListIs ==
  ASSUME NEW R, Unique(R), NEW n, Complete(R, n)
  PROVE  /\ ListTo(R, n) \in Seq(Value)
         /\ Len(ListTo(R, n)) = n + 1
         /\ \A r \in R : r.seq_num \in 0 .. n
                           => ListTo(R, n)[r.seq_num + 1] = Appends(r)
<1>1. n + 1 \in Nat
  BY DEF Complete
<1>2. ASSUME NEW r \in R
      PROVE  Given(R, r.seq_num) = r /\ Appends(r) \in Value
  <2>1. Given(R, r.seq_num) \in R /\ Given(R, r.seq_num).seq_num = r.seq_num
    BY DEF Given
  <2> QED
    BY <2>1, RequestAssumption DEF Unique, Appends
<1>3. ASSUME NEW k \in 1 .. n + 1
      PROVE  Appends(Given(R, k - 1)) \in Value
  <2>1. k - 1 \in 0 .. n
    BY DEF Complete
  <2>2. PICK r \in R : r.seq_num = k - 1
    BY <2>1 DEF Complete
  <2> QED
    BY <1>2, <2>2
<1>4. ListTo(R, n) \in [1 .. n + 1 -> Value]
  BY <1>3 DEF ListTo
<1>5. ASSUME NEW r \in R, r.seq_num \in 0 .. n
      PROVE  ListTo(R, n)[r.seq_num + 1] = Appends(r)
  <2>1. r.seq_num + 1 \in 1 .. n + 1 /\ (r.seq_num + 1) - 1 = r.seq_num
    BY <1>5 DEF Complete
  <2>2. ListTo(R, n)[r.seq_num + 1] = Appends(Given(R, (r.seq_num + 1) - 1))
    BY <2>1 DEF ListTo
  <2> QED
    BY <1>2, <2>1, <2>2
<1> QED
  BY <1>1, <1>4, <1>5

(* Two lists that are as long and hold the same are the same.              *)
LEMMA SameLists ==
  ASSUME NEW s \in Seq(Value), NEW t \in Seq(Value), Len(s) = Len(t),
         \A k \in 1 .. Len(s) : s[k] = t[k]
  PROVE  s = t
OBVIOUS

(* A number up to n stands for a request.                                  *)
LEMMA ListAt ==
  ASSUME NEW R, Unique(R), NEW n, Complete(R, n), NEW k \in 1 .. n + 1
  PROVE  \E r \in R : r.seq_num = k - 1 /\ ListTo(R, n)[k] = Appends(r)
<1>1. k - 1 \in 0 .. n /\ (k - 1) + 1 = k
  BY DEF Complete
<1>2. PICK r \in R : r.seq_num = k - 1
  BY <1>1 DEF Complete
<1>3. ListTo(R, n)[r.seq_num + 1] = Appends(r)
  BY <1>1, <1>2, ListIs
<1> QED
  BY <1>1, <1>2, <1>3

(* More numbers are given, and what was there is not touched.              *)
LEMMA HistoryGrows ==
  ASSUME NEW R, NEW Q, R \subseteq Q, Unique(Q), NEW n, Served(R, n)
  PROVE  Unique(R) /\ Served(Q, n) /\ ListTo(Q, n) = ListTo(R, n)
<1>1. Unique(R)
  BY DEF Unique
<1>2. Complete(R, n) /\ Complete(Q, n)
  BY DEF Served, Complete
<1>3. ASSUME NEW r \in Q, r.seq_num \in 0 .. n
      PROVE  r \in R
  <2>1. PICK o \in R : o.seq_num = r.seq_num
    BY <1>2, <1>3 DEF Complete
  <2> QED
    BY <2>1 DEF Unique
<1>4. Once(Q, n)
  <2>1. SUFFICES ASSUME NEW r \in Q, NEW o \in Q, Appends(r) = Appends(o),
                        r.seq_num \in 0 .. n, o.seq_num \in 0 .. n
                 PROVE  r = o
    BY DEF Once
  <2>2. r \in R /\ o \in R
    BY <1>3, <2>1
  <2> QED
    BY <2>1, <2>2 DEF Served, Once
<1>5. ASSUME NEW k \in 1 .. n + 1
      PROVE  ListTo(Q, n)[k] = ListTo(R, n)[k]
  <2>1. PICK r \in R : r.seq_num = k - 1 /\ ListTo(R, n)[k] = Appends(r)
    BY <1>1, <1>2, ListAt
  <2>2. PICK o \in Q : o.seq_num = k - 1 /\ ListTo(Q, n)[k] = Appends(o)
    BY <1>2, ListAt
  <2> QED
    BY <2>1, <2>2 DEF Unique
<1>6. /\ ListTo(R, n) \in Seq(Value) /\ Len(ListTo(R, n)) = n + 1
      /\ ListTo(Q, n) \in Seq(Value) /\ Len(ListTo(Q, n)) = n + 1
  BY <1>1, <1>2, ListIs
<1>7. ListTo(Q, n) = ListTo(R, n)
  BY <1>5, <1>6, SameLists
<1> QED
  BY <1>1, <1>2, <1>4, <1>7 DEF Served

(* What was served up to a number was up to those before it.               *)
LEMMA ServedBefore ==
  ASSUME NEW R, NEW n, Served(R, n), NEW m \in Int, -1 <= m, m <= n
  PROVE  Served(R, m)
<1>1. n \in Int /\ 0 .. m \subseteq 0 .. n
  BY DEF Served, Complete
<1>2. Complete(R, m)
  BY <1>1 DEF Served, Complete
<1>3. Once(R, m)
  <2>1. Once(R, n)
    BY DEF Served
  <2> QED
    BY <1>1, <2>1, Zenon DEF Once
<1> QED
  BY <1>2, <1>3 DEF Served

LEMMA ListsArePrefixes ==
  ASSUME NEW R, Unique(R), NEW m, Complete(R, m), NEW n, Complete(R, n), m <= n
  PROVE  IsPrefix(ListTo(R, m), ListTo(R, n))
<1> DEFINE s == ListTo(R, m)
           t == ListTo(R, n)
<1>1. /\ s \in Seq(Value) /\ Len(s) = m + 1 /\ t \in Seq(Value) /\ Len(t) = n + 1
      /\ m \in Int /\ n \in Int /\ -1 <= m
  BY ListIs DEF Complete
<1>2. ASSUME NEW k \in 1 .. m + 1
      PROVE  s[k] = t[k]
  <2>1. PICK r \in R : r.seq_num = k - 1 /\ s[k] = Appends(r)
    BY ListAt
  <2>2. k \in 1 .. n + 1
    BY <1>1
  <2>3. PICK o \in R : o.seq_num = k - 1 /\ t[k] = Appends(o)
    BY <2>2, ListAt
  <2> QED
    BY <2>1, <2>3 DEF Unique
<1> HIDE DEF s, t
<1>3. Len(s) <= Len(t)
  BY <1>1
<1>4. SubSeq(s, 1, Len(s)) = SubSeq(t, 1, Len(s))
  BY <1>1, <1>2, <1>3
<1> QED
  BY <1>3, <1>4 DEF IsPrefix, s, t

-----------------------------------------------------------------------------
(* What a log without dummies appends.                                     *)

LEMMA ExecutedAll ==
  ASSUME NEW log \in Seq(LogEntry),
         \A k \in DOMAIN log : log[k].request.client_request \in ClientRequest
  PROVE  /\ Executed(log) \in Seq(Value) /\ Len(Executed(log)) = Len(log)
         /\ \A k \in 1 .. Len(log) : Executed(log)[k] = Appends(log[k].request)
<1>1. Len(log) \in Nat /\ DOMAIN log = 1 .. Len(log)
  OBVIOUS
<1>2. Real(log) = 1 .. Len(log)
  BY <1>1, RequestAssumption DEF Real
<1>3. Cardinality(1 .. Len(log)) = Len(log)
  BY <1>1, FS_Interval
<1>4. ASSUME NEW k \in 1 .. Len(log)
      PROVE  Rank(log, k) = k
  <2>1. { m \in Real(log) : m <= k } = 1 .. k /\ k \in Nat
    BY <1>1, <1>2
  <2>2. Cardinality(1 .. k) = k
    BY <2>1, FS_Interval
  <2> QED
    BY <2>1, <2>2 DEF Rank
<1>5. /\ Executed(log) \in Seq(Value)
      /\ Len(Executed(log)) = Cardinality(Real(log))
      /\ \A k \in Real(log) :
           Executed(log)[Rank(log, k)] = ValueOf[log[k].request.client_request]
  BY ExecutedAt
<1> QED
  BY <1>2, <1>3, <1>4, <1>5 DEF Appends

(* A list whose values differ is one in which nothing is served twice.     *)
LEMMA DifferentValues ==
  ASSUME NEW R, Unique(R), NEW n, Complete(R, n),
         Different(ListTo(R, n))
  PROVE  Served(R, n)
<1>1. SUFFICES ASSUME NEW r \in R, NEW o \in R, Appends(r) = Appends(o),
                      r.seq_num \in 0 .. n, o.seq_num \in 0 .. n
               PROVE  r = o
  BY DEF Served, Once
<1>2. /\ ListTo(R, n)[r.seq_num + 1] = Appends(r)
      /\ ListTo(R, n)[o.seq_num + 1] = Appends(o)
      /\ DOMAIN ListTo(R, n) = 1 .. n + 1
  BY <1>1, ListIs DEF ListTo
<1>3. r.seq_num + 1 \in 1 .. n + 1 /\ o.seq_num + 1 \in 1 .. n + 1
  BY <1>1 DEF Complete
<1>4. r.seq_num + 1 = o.seq_num + 1
  BY <1>1, <1>2, <1>3 DEF Different
<1>5. r.seq_num = o.seq_num
  <2>1. r.seq_num \in Int /\ o.seq_num \in Int
    BY <1>1 DEF Complete
  <2> QED
    BY <1>4, <2>1
<1> QED
  BY <1>5 DEF Unique

(* The entries of requests of R, whose numbers come next, append to the    *)
(* list what R has with these numbers.                                     *)
LEMMA ListGrows ==
  ASSUME NEW R, Unique(R), NEW n, Complete(R, n), NEW entries \in Seq(Entries(R)),
         \A m \in DOMAIN entries : entries[m].request.seq_num = n + m
  PROVE  /\ Complete(R, n + Len(entries))
         /\ ListTo(R, n) \o Executed(entries) = ListTo(R, n + Len(entries))
<1> DEFINE l == n + Len(entries)
           s == ListTo(R, n)
           e == Executed(entries)
           t == ListTo(R, l)
<1>1. n \in Int /\ -1 <= n /\ Len(entries) \in Nat /\ l \in Int /\ -1 <= l
  BY DEF Complete
<1>2. \A m \in 1 .. Len(entries) :
        entries[m].request \in R /\ entries[m].request.seq_num = n + m
  <2>1. \A m \in 1 .. Len(entries) : entries[m] \in Entries(R) /\ m \in DOMAIN entries
    OBVIOUS
  <2> QED
    BY <2>1 DEF Entries
<1>3. Complete(R, l)
  <2> SUFFICES ASSUME NEW k \in 0 .. l PROVE \E r \in R : r.seq_num = k
    BY <1>1 DEF Complete
  <2>1. CASE k <= n
    <3>1. k \in 0 .. n
      BY <1>1, <2>1
    <3> QED
      BY <3>1 DEF Complete
  <2>2. CASE ~(k <= n)
    <3> DEFINE m == k - n
    <3>1. m \in 1 .. Len(entries) /\ n + m = k
      BY <1>1, <2>2
    <3> HIDE DEF m
    <3>2. entries[m].request \in R /\ entries[m].request.seq_num = k
      BY <1>2, <3>1
    <3> QED
      BY <3>2
  <2> QED
    BY <2>1, <2>2
<1>4. /\ e \in Seq(Value) /\ Len(e) = Len(entries)
      /\ \A m \in 1 .. Len(entries) : e[m] = Appends(entries[m].request)
  <2>1. Entries(R) \subseteq LogEntry
    BY DEF Entries, LogEntry, Unique
  <2>2. entries \in Seq(LogEntry)
    BY <2>1, SeqMonotonic
  <2>3. \A m \in DOMAIN entries : entries[m].request.client_request \in ClientRequest
    BY <1>2 DEF Unique
  <2> QED
    BY <2>2, <2>3, ExecutedAll
<1>5. s \in Seq(Value) /\ Len(s) = n + 1 /\ t \in Seq(Value) /\ Len(t) = l + 1
  BY <1>3, ListIs
<1>6. /\ s \o e \in Seq(Value) /\ Len(s \o e) = l + 1
      /\ \A k \in 1 .. n + 1 : (s \o e)[k] = s[k]
      /\ \A m \in 1 .. Len(entries) : (s \o e)[n + 1 + m] = e[m]
  <2>1. Len(s) + Len(e) = l + 1 /\ \A m \in 1 .. Len(entries) : Len(s) + m = n + 1 + m
    BY <1>1, <1>4, <1>5
  <2> HIDE DEF s, e, l
  <2>2. /\ s \o e \in Seq(Value) /\ Len(s \o e) = Len(s) + Len(e)
        /\ \A k \in 1 .. Len(s) : (s \o e)[k] = s[k]
        /\ \A m \in 1 .. Len(e) : (s \o e)[Len(s) + m] = e[m]
    BY <1>4, <1>5, Joined
  <2> QED
    BY <1>4, <1>5, <2>1, <2>2
<1>7. ASSUME NEW k \in 1 .. l + 1
      PROVE  (s \o e)[k] = t[k]
  <2>1. PICK r \in R : r.seq_num = k - 1 /\ t[k] = Appends(r)
    BY <1>3, ListAt
  <2>2. CASE k <= n + 1
    <3>1. k \in 1 .. n + 1
      BY <1>1, <2>2
    <3>2. PICK o \in R : o.seq_num = k - 1 /\ s[k] = Appends(o)
      BY <3>1, ListAt
    <3> QED
      BY <1>6, <2>1, <3>1, <3>2 DEF Unique
  <2>3. CASE ~(k <= n + 1)
    <3> DEFINE m == k - (n + 1)
    <3>1. m \in 1 .. Len(entries) /\ n + 1 + m = k /\ n + m = k - 1
      BY <1>1, <2>3
    <3> HIDE DEF m, s, e, t
    <3>2. (s \o e)[k] = Appends(entries[m].request)
      BY <1>4, <1>6, <3>1
    <3>3. entries[m].request = r
      BY <1>2, <2>1, <3>1 DEF Unique
    <3> QED
      BY <2>1, <3>2, <3>3
  <2> QED
    BY <2>2, <2>3
<1> HIDE DEF s, e, t
<1>8. s \o e = t
  BY <1>5, <1>6, <1>7, SameLists
<1> QED
  BY <1>3, <1>8 DEF s, e, t

-----------------------------------------------------------------------------
(* What a structure has to do with the history R of the numbers.           *)

(* Up to each number in its log all have been served.                      *)
LogServed(R, s) ==
  \A m \in DOMAIN s.r_log : /\ 0 <= s.r_log[m].request.seq_num
                            /\ Served(R, s.r_log[m].request.seq_num)

(* What is believed of a node: its list is some beginning.                 *)
Heard(R, s) ==
  /\ LogServed(R, s)
  /\ \E n : Served(R, n) /\ s.rep_state = ListTo(R, n)

(* What a node has itself: its log says how far its list has come.         *)
Matched(R, s) ==
  /\ LogServed(R, s)
  /\ Served(R, LastExec(s))
  /\ s.rep_state = ListTo(R, LastExec(s))

(* Its log keeps the last entry, see Newest.                               *)
Held(R, s) == Matched(R, s) /\ s.number_of_clients > 0

LEMMA HeldHeard ==
  ASSUME NEW R, NEW s, Held(R, s)
  PROVE  Heard(R, s)
BY DEF Held, Matched, Heard

LEMMA LikeHeld ==
  ASSUME NEW R, NEW s, Held(R, s), NEW t, Like(s, t)
  PROVE  Held(R, t)
BY DEF Held, Matched, LogServed, Like, LastExec

LEMMA MoreHistory ==
  ASSUME NEW R, NEW Q, R \subseteq Q, Unique(Q), NEW s
  PROVE  /\ Held(R, s) => Held(Q, s)
         /\ Heard(R, s) => Heard(Q, s)
<1>1. LogServed(R, s) => LogServed(Q, s)
  BY HistoryGrows DEF LogServed
<1>2. Matched(R, s) => Matched(Q, s)
  BY <1>1, HistoryGrows DEF Matched
<1>3. Heard(R, s) => Heard(Q, s)
  BY <1>1, HistoryGrows DEF Heard
<1> QED
  BY <1>2, <1>3 DEF Held

-----------------------------------------------------------------------------
(* Consolidated states.                                                    *)

(* Where nothing is served twice a log that appends the end of a list ends *)
(* with the last number of that list.                                      *)
LEMMA EndNumber ==
  ASSUME NEW R, Unique(R), NEW n, Served(R, n), NEW log \in Seq(Entries(R)),
         log # <<>>, 0 <= Last(log).request.seq_num,
         Served(R, Last(log).request.seq_num), IsSuffix(Executed(log), ListTo(R, n))
  PROVE  Last(log).request.seq_num = n
<1> DEFINE e == Executed(log)
           l == ListTo(R, n)
           r == Last(log).request
<1>1. Len(log) \in Nat /\ Len(log) >= 1 /\ Last(log) = log[Len(log)]
  BY DEF Last
<1>2. r \in R
  <2>1. log[Len(log)] \in Entries(R)
    BY <1>1
  <2> QED
    BY <1>1, <2>1 DEF Entries
<1>3. /\ e \in Seq(Value) /\ Len(e) = Len(log) /\ e[Len(log)] = Appends(r)
  <2>1. Entries(R) \subseteq LogEntry
    BY DEF Entries, LogEntry, Unique
  <2>2. log \in Seq(LogEntry)
    BY <2>1, SeqMonotonic
  <2>3. \A k \in DOMAIN log : log[k] \in Entries(R)
    OBVIOUS
  <2>4. \A k \in DOMAIN log : log[k].request.client_request \in ClientRequest
    BY <2>3 DEF Entries, Unique
  <2>5. Len(log) \in 1 .. Len(log)
    BY <1>1
  <2> QED
    BY <1>1, <2>2, <2>4, <2>5, ExecutedAll
<1>4. n \in Int /\ l \in Seq(Value) /\ Len(l) = n + 1
  BY ListIs DEF Served, Complete
<1> HIDE DEF e, l, r
<1>5. Len(e) <= n + 1 /\ e[Len(e)] = l[(n + 1) - Len(e) + Len(e)]
  <2>1. Len(e) \in 1 .. Len(e)
    BY <1>1, <1>3
  <2>2. IsSuffix(e, l)
    BY DEF e, l
  <2> QED
    BY <1>3, <1>4, <2>1, <2>2, SuffixIs
<1>6. n + 1 \in 1 .. n + 1 /\ (n + 1) - Len(e) + Len(e) = n + 1 /\ (n + 1) - 1 = n
  BY <1>1, <1>3, <1>4, <1>5
<1>7. PICK o \in R : o.seq_num = n /\ l[n + 1] = Appends(o)
  <2>1. \E o \in R : o.seq_num = (n + 1) - 1 /\ l[n + 1] = Appends(o)
    BY <1>6, ListAt DEF Served, l
  <2> QED
    BY <1>6, <2>1
<1>8. Appends(r) = Appends(o)
  BY <1>3, <1>5, <1>6, <1>7
<1>9. r.seq_num \in Int /\ 0 <= r.seq_num /\ Served(R, r.seq_num) /\ 0 <= n
  BY <1>1, <1>3, <1>4, <1>5 DEF r, Served, Complete
<1>10. CASE r.seq_num <= n
  <2>1. r.seq_num \in 0 .. n /\ o.seq_num \in 0 .. n
    BY <1>4, <1>7, <1>9, <1>10
  <2> QED
    BY <1>2, <1>7, <1>8, <2>1 DEF Served, Once, r
<1>11. CASE ~(r.seq_num <= n)
  <2>1. r.seq_num \in 0 .. r.seq_num /\ o.seq_num \in 0 .. r.seq_num
    BY <1>4, <1>7, <1>9, <1>11
  <2> QED
    BY <1>2, <1>7, <1>8, <1>9, <2>1 DEF Served, Once, r
<1> QED
  BY <1>10, <1>11

(* All the lists that a node believes are beginnings of one: whichever of  *)
(* them it takes, and whichever log, the log says how far the list goes.   *)
LEMMA ConsStateMatched ==
  ASSUME NEW R, Unique(R), NEW S, FineAll(S, R, FALSE), \A j \in Node : Heard(R, S[j]),
         NEW A, A \subseteq Node, FindConsState(S, A).ok
  PROVE  Matched(R, FindConsState(S, A))
<1> DEFINE k == CHOOSE j \in Shortest(S, A) : TRUE
           state == S[k].rep_state
           log == CorrespondingRLog(S, A, state)
           X == FindConsState(S, A)
           matches == { m \in UNION { {j} \X DOMAIN S[j].r_log : j \in A } :
                          IsSuffix(Executed(SubSeq(S[m[1]].r_log, 1, m[2])), state) }
           first == { m \in matches : \A o \in matches :
                        m[1] < o[1] \/ (m[1] = o[1] /\ m[2] <= o[2]) }
           m == CHOOSE o \in first : TRUE
<1>1. /\ X.rep_state = state /\ X.r_log = log /\ (log = <<>> => state = <<>>)
      /\ Shortest(S, A) # {}
  <2> HIDE DEF log, state
  <2>1. X = NoState \/ /\ ~(log = <<>> /\ state # <<>>) /\ Shortest(S, A) # {}
                       /\ X.rep_state = state /\ X.r_log = log
    BY DEF FindConsState, log, state
  <2>2. X # NoState
    BY DEF NoState
  <2> QED
    BY <2>1, <2>2
<1>2. k \in Node
  BY <1>1 DEF Shortest
<1>3. log = IF first = {} THEN <<>> ELSE SubSeq(S[m[1]].r_log, 1, m[2])
  BY DEF CorrespondingRLog
<1>4. \A o \in first : /\ IsSuffix(Executed(SubSeq(S[o[1]].r_log, 1, o[2])), state)
                       /\ o[1] \in Node /\ o[2] \in DOMAIN S[o[1]].r_log
  OBVIOUS
<1> HIDE DEF k, first, log, X
<1>5. PICK n : Served(R, n) /\ state = ListTo(R, n)
  BY <1>2 DEF Heard
<1> HIDE DEF state
<1>6. n \in Int /\ state \in Seq(Value) /\ Len(state) = n + 1
  BY <1>5, ListIs DEF Served, Complete
<1>7. CASE first = {}
  <2>1. log = <<>> /\ state = <<>>
    BY <1>1, <1>3, <1>7
  <2>2. n = -1
    BY <1>6, <2>1
  <2>3. LastExec(X) = -1 /\ DOMAIN X.r_log = {}
    BY <1>1, <2>1 DEF LastExec
  <2> QED
    BY <1>1, <1>5, <2>2, <2>3 DEF Matched, LogServed, X
<1>8. CASE first # {}
  <2>1. m \in first
    BY <1>8
  <2> HIDE DEF m
  <2> DEFINE all == S[m[1]].r_log
  <2>2. /\ IsSuffix(Executed(log), state) /\ log = SubSeq(all, 1, m[2])
        /\ m[1] \in Node /\ m[2] \in DOMAIN all
    BY <1>3, <1>4, <1>8, <2>1
  <2>3. all \in Seq(Entries(R)) /\ LogServed(R, S[m[1]])
    BY <2>2 DEF FineAll, Fine, LogIsFine, Heard
  <2>4. \A q \in DOMAIN all : 0 <= all[q].request.seq_num /\ Served(R, all[q].request.seq_num)
    BY <2>3 DEF LogServed
  <2> HIDE DEF all
  <2>5. m[2] \in Nat /\ m[2] >= 1 /\ m[2] <= Len(all) /\ Len(all) \in Nat
    BY <2>2, <2>3
  <2>6. /\ log \in Seq(Entries(R)) /\ Len(log) = m[2] /\ log # <<>>
        /\ \A q \in 1 .. m[2] : q \in DOMAIN all /\ log[q] = all[q]
    BY <2>2, <2>3, <2>5
  <2>7. Last(log) = all[m[2]]
    BY <2>5, <2>6 DEF Last
  <2>8. LastExec(X) = Last(log).request.seq_num
    BY <1>1, <2>6 DEF LastExec
  <2>9. Last(log).request.seq_num = n
    BY <1>5, <2>2, <2>4, <2>6, <2>7, EndNumber
  <2>10. LogServed(R, X)
    BY <1>1, <2>4, <2>6 DEF LogServed
  <2> QED
    BY <1>1, <1>5, <2>8, <2>9, <2>10 DEF Matched, X
<1> QED
  BY <1>7, <1>8

LEMMA ConsolidateHeld ==
  ASSUME NEW R, Unique(R), NEW S, FineAll(S, R, FALSE), NEW i \in Node,
         \A j \in Node : Heard(R, S[j]), Held(R, S[i])
  PROVE  Held(R, Consolidate(S, i))
<1> DEFINE own == FindConsState(S, ComPrefStates(S, Quorum))
           ds == FindConsState(S, ComPrefStates(S, N - 3 * F))
           X == IF own.ok THEN own ELSE GetDsState(S)
           s == [S[i] EXCEPT !.con_flag = ~X.ok]
           u == [s EXCEPT !.rep_state = X.rep_state]
           t == [u EXCEPT !.r_log = X.r_log]
<1>1. X.ok => Matched(R, X)
  <2>1. own.ok => Matched(R, own)
    BY ComPrefNodes, ConsStateMatched
  <2>2. ds.ok => Matched(R, ds)
    BY ComPrefNodes, ConsStateMatched
  <2>3. GetDsState(S) = NoState \/ (ds.ok /\ GetDsState(S) = ds)
    <3> HIDE DEF ds
    <3> QED
      BY DEF GetDsState, ds
  <2>4. ~NoState.ok
    BY DEF NoState
  <2> HIDE DEF own, ds
  <2> QED
    BY <2>1, <2>2, <2>3, <2>4
<1>2. Consolidate(S, i) = s \/ (X.ok /\ Consolidate(S, i) = t)
  BY DEF Consolidate
<1> HIDE DEF own, X
<1>3. Like(S[i], s) /\ Whole(s)
  BY FieldsLike DEF FineAll, Fine, Like
<1> HIDE DEF s
<1>4. Held(R, s)
  BY <1>3, LikeHeld
<1>5. ASSUME X.ok PROVE Held(R, t)
  <2>1. Whole(u) /\ u.rep_state = X.rep_state /\ u.number_of_clients = s.number_of_clients
    BY <1>3 DEF Whole
  <2> HIDE DEF u
  <2>2. /\ t.rep_state = X.rep_state /\ t.r_log = X.r_log
        /\ t.number_of_clients = s.number_of_clients
    BY <2>1 DEF Whole
  <2> HIDE DEF t
  <2> QED
    BY <1>1, <1>4, <1>5, <2>2 DEF Held, Matched, LogServed, LastExec
<1> QED
  BY <1>2, <1>4, <1>5

-----------------------------------------------------------------------------
(* Requests are executed: the list grows along the one that R makes up.    *)

(* The bound of the log leaves its end.                                    *)
LEMMA NewestEnds ==
  ASSUME SIGMA > 0, NEW s, s.number_of_clients \in Nat, s.number_of_clients > 0,
         NEW R, NEW log \in Seq(Entries(R))
  PROVE  /\ log # <<>> => Newest(s, log) # <<>> /\ Last(Newest(s, log)) = Last(log)
         /\ log = <<>> => Newest(s, log) = <<>>
         /\ \A m \in DOMAIN Newest(s, log) :
              \E q \in DOMAIN log : Newest(s, log)[m] = log[q]
<1> DEFINE limit == 3 * SIGMA * s.number_of_clients
<1>1. limit \in Nat /\ limit > 0
  BY SigmaAssumption
<1>2. Newest(s, log) = IF Len(log) <= limit THEN log
                       ELSE SubSeq(log, Len(log) - limit + 1, Len(log))
  BY DEF Newest
<1> HIDE DEF limit
<1>3. CASE Len(log) <= limit
  BY <1>2, <1>3
<1>4. CASE ~(Len(log) <= limit)
  <2> DEFINE a == Len(log) - limit + 1
             rest == SubSeq(log, a, Len(log))
  <2>1. Len(log) \in Nat /\ a \in Int /\ 1 <= a /\ a <= Len(log) /\ Len(log) - a + 1 = limit
    BY <1>1, <1>4
  <2> HIDE DEF a
  <2>2. /\ rest \in Seq(Entries(R)) /\ Len(rest) = limit
        /\ \A m \in 1 .. limit : rest[m] = log[a + m - 1]
    BY <1>1, <2>1
  <2>3. a + limit - 1 = Len(log) /\ limit \in 1 .. limit
    BY <1>1, <2>1
  <2> HIDE DEF rest
  <2>4. rest # <<>> /\ Last(rest) = Last(log)
    BY <1>1, <2>2, <2>3 DEF Last
  <2>5. \A m \in DOMAIN rest : a + m - 1 \in DOMAIN log
    BY <1>1, <2>1, <2>2
  <2>6. \A m \in DOMAIN rest : \E q \in DOMAIN log : rest[m] = log[q]
    BY <2>2, <2>5
  <2>7. Newest(s, log) = rest /\ log # <<>>
    BY <1>2, <1>4, <2>1 DEF rest, a
  <2> QED
    BY <2>4, <2>6, <2>7
<1> QED
  BY <1>3, <1>4

(* The log of s grows by entries whose numbers come next.                  *)
LEMMA GrowHeld ==
  ASSUME SIGMA > 0, NEW R, Unique(R), NEW s, Fine(s, R, FALSE), Held(R, s),
         NEW entries \in Seq(Entries(R)),
         \A m \in DOMAIN entries : entries[m].request.seq_num = LastExec(s) + m,
         NEW t, t.rep_state = s.rep_state \o Executed(entries),
         t.r_log = Newest(s, s.r_log \o entries),
         t.number_of_clients = s.number_of_clients,
         Different(t.rep_state)
  PROVE  Held(R, t)
<1> DEFINE n == LastExec(s)
           last == n + Len(entries)
           log == s.r_log
           all == log \o entries
<1>1. /\ Served(R, n) /\ s.rep_state = ListTo(R, n) /\ LogServed(R, s)
      /\ n \in Int /\ -1 <= n /\ Len(entries) \in Nat
  BY DEF Held, Matched, Served, Complete
<1>2. Complete(R, last) /\ t.rep_state = ListTo(R, last)
  BY <1>1, ListGrows DEF Served
<1>3. Served(R, last)
  BY <1>2, DifferentValues
<1>4. /\ log \in Seq(Entries(R)) /\ all \in Seq(Entries(R))
      /\ Len(log) \in Nat /\ Len(all) = Len(log) + Len(entries)
      /\ \A q \in 1 .. Len(log) : all[q] = log[q]
      /\ \A m \in 1 .. Len(entries) : all[Len(log) + m] = entries[m]
      /\ DOMAIN all = 1 .. Len(all) /\ DOMAIN log = 1 .. Len(log)
      /\ DOMAIN entries = 1 .. Len(entries)
  BY DEF Fine, LogIsFine
<1>5. ASSUME NEW q \in DOMAIN all
      PROVE  0 <= all[q].request.seq_num /\ Served(R, all[q].request.seq_num)
  <2>1. CASE q <= Len(log)
    <3>1. q \in DOMAIN log
      BY <1>4, <2>1
    <3> QED
      BY <1>1, <1>4, <3>1 DEF LogServed
  <2>2. CASE ~(q <= Len(log))
    <3> DEFINE m == q - Len(log)
    <3>1. m \in 1 .. Len(entries) /\ q = Len(log) + m
      BY <1>4, <2>2
    <3>2. n + m \in Int /\ 0 <= n + m /\ n + m <= last
      BY <1>1, <3>1
    <3> HIDE DEF m, n, last, all
    <3>3. all[q].request.seq_num = n + m
      BY <1>4, <3>1 DEF n
    <3> QED
      BY <1>3, <3>2, <3>3, ServedBefore
  <2> QED
    BY <2>1, <2>2
<1>6. s.number_of_clients \in Nat /\ s.number_of_clients > 0
  BY DEF Fine, Held
<1>7. n = IF log = <<>> THEN -1 ELSE Last(log).request.seq_num
  BY DEF LastExec
<1>8. all # <<>> => Last(all).request.seq_num = last
  <2>1. CASE entries = <<>>
    <3>1. all = log /\ last = n
      BY <1>1, <1>4, <2>1
    <3> QED
      BY <1>7, <3>1
  <2>2. CASE entries # <<>>
    <3>1. Len(entries) \in 1 .. Len(entries) /\ all # <<>>
      BY <1>4, <2>2
    <3>2. Last(all) = entries[Len(entries)]
      BY <1>4, <3>1 DEF Last
    <3> QED
      BY <1>4, <3>1, <3>2
  <2> QED
    BY <2>1, <2>2
<1>9. all = <<>> => last = -1
  <2> SUFFICES ASSUME all = <<>> PROVE last = -1
    OBVIOUS
  <2>1. Len(log) = 0 /\ Len(entries) = 0
    BY <1>1, <1>4
  <2>2. log = <<>>
    BY <1>4, <2>1
  <2> QED
    BY <1>1, <1>7, <2>1, <2>2
<1> HIDE DEF all, last, log, n
<1>10. /\ all # <<>> => Newest(s, all) # <<>> /\ Last(Newest(s, all)) = Last(all)
       /\ all = <<>> => Newest(s, all) = <<>>
       /\ \A m \in DOMAIN Newest(s, all) :
            \E q \in DOMAIN all : Newest(s, all)[m] = all[q]
  <2>1. all \in Seq(Entries(R)) /\ SIGMA > 0
    BY <1>4
  <2> QED
    BY <1>6, <2>1, NewestEnds
<1>11. t.r_log = Newest(s, all)
  BY DEF all, log
<1>12. LastExec(t) = last
  BY <1>8, <1>9, <1>10, <1>11 DEF LastExec
<1>13. LogServed(R, t)
  BY <1>5, <1>10, <1>11 DEF LogServed
<1> QED
  BY <1>2, <1>3, <1>6, <1>12, <1>13 DEF Held, Matched

LEMMA ExecuteHeld ==
  ASSUME SIGMA > 0, NEW R, Unique(R), NEW S, FineAll(S, R, FALSE), NEW i \in Node,
         Held(R, S[i]), NEW t \in ExecuteInOrder(S, i),
         Different(t.rep_state)
  PROVE  Held(R, t)
<1> DEFINE s == S[i]
<1>1. Fine(s, R, FALSE)
  BY DEF FineAll
<1>2. PICK o \in ExecutionOrders(S, i) : t = Commit(S, s, o)
  BY DEF ExecuteInOrder
<1> DEFINE entries == [n \in DOMAIN o |-> [request |-> o[n],
                                           x_set |-> CommittedSet(S, o[n])]]
<1>3. PICK n \in Nat : o \in [1 .. n -> Executable(S, i)]
  BY DEF ExecutionOrders
<1>4. /\ \A m \in DOMAIN o : o[m].seq_num = LastExec(s) + m
      /\ Executable(S, i) \subseteq R
  BY SupportedFine DEF ExecutionOrders, Executable
<1>5. entries \in Seq(Entries(R))
  <2>1. \A m \in 1 .. n : o[m] \in R /\ CommittedSet(S, o[m]) \subseteq Node
    BY <1>3, <1>4 DEF CommittedSet
  <2>2. entries \in [1 .. n -> Entries(R)]
    BY <1>3, <2>1 DEF Entries
  <2> HIDE DEF entries
  <2> QED
    BY <2>2
<1>6. \A m \in DOMAIN entries : entries[m].request.seq_num = LastExec(s) + m
  BY <1>4
<1>7. /\ t.rep_state = s.rep_state \o Executed(entries)
      /\ t.r_log = Newest(s, s.r_log \o entries)
      /\ t.number_of_clients = s.number_of_clients
  BY <1>1, <1>2 DEF Commit, Fine, Whole
<1> HIDE DEF entries
<1> QED
  BY <1>1, <1>5, <1>6, <1>7, GrowHeld

(* A round of requests of node i in the view of the primary v, which alone *)
(* adds to the numbers.                                                    *)
LEMMA NumberingHeld ==
  ASSUME NEW R, Unique(R), NEW S, FineAll(S, R, FALSE), NEW i \in Node, NEW v \in Node,
         Behaviour[v] = "NONE", i = v => \A r \in R : r.seq_num <= S[i].seq_num,
         NEW u \in Numbering(S, i, v)
  PROVE  \E G \in SUBSET Request :
           /\ Unique(R \cup G) /\ Fine(u, R \cup G, FALSE) /\ Like(S[i], u)
           /\ i # v => G = {}
           /\ i = v => Numbered(G, S[i].seq_num, u.seq_num)
<1>1. Fine(S[i], R, FALSE) /\ Whole(S[i]) /\ v \in View /\ R \subseteq Request
  BY DEF FineAll, Fine, View, Unique
<1>2. CASE i = v
  <2>1. u \in Assign(S, i, v)
    BY <1>2 DEF Numbering
  <2>2. PICK G \in SUBSET Request :
          /\ Fine(u, R \cup G, FALSE)
          /\ Numbered(G, S[i].seq_num, u.seq_num)
          /\ \A r \in G : r.client_request \in ClientRequest
    BY <1>1, <1>2, <2>1, AssignFine
  <2>3. \A r \in R \cup G : r.seq_num \in Int
    BY <1>1 DEF Request
  <2>4. S[i].seq_num \in Int
    BY <1>1 DEF Fine
  <2>5. \A r, o \in R \cup G : r.seq_num = o.seq_num => r = o
    BY <1>2, <2>2, <2>3, <2>4 DEF Unique, Numbered
  <2>6. Unique(R \cup G)
    BY <1>1, <2>2, <2>5 DEF Unique
  <2> QED
    BY <1>1, <1>2, <2>1, <2>2, <2>6, AssignLike
<1>3. CASE i # v
  <2>1. PICK s \in AcceptPreprep(S, i, v) : u = Prepare([S EXCEPT ![i] = s], i)
    BY <1>3 DEF Numbering
  <2>2. Fine(s, R, FALSE) /\ Like(S[i], s)
    BY <1>1, <2>1, AcceptFine, AcceptLike
  <2>3. FineAll([S EXCEPT ![i] = s], R, FALSE) /\ [S EXCEPT ![i] = s][i] = s
    BY <2>2 DEF FineAll
  <2>4. Fine(u, R, FALSE)
    BY <2>1, <2>3, PrepareFine
  <2>5. Like(s, u)
    BY <2>1, <2>2, <2>3, RaiseLike DEF Prepare, Like
  <2>6. R \cup {} = R
    OBVIOUS
  <2> QED
    BY <1>3, <2>2, <2>4, <2>5, <2>6, LikeAgain
<1> QED
  BY <1>2, <1>3

LEMMA ProcessHeld ==
  ASSUME SIGMA > 0, NEW R, Unique(R), NEW S, FineAll(S, R, FALSE), NEW i \in Node,
         Held(R, S[i]), NEW v \in Node, Behaviour[v] = "NONE",
         i = v => \A r \in R : r.seq_num <= S[i].seq_num,
         NEW t \in ProcessRequests(S, i, v),
         Different(t.rep_state)
  PROVE  \E G \in SUBSET Request :
           /\ Unique(R \cup G) /\ Fine(t, R \cup G, FALSE) /\ Held(R \cup G, t)
           /\ i # v => G = {}
           /\ i = v => Numbered(G, S[i].seq_num, t.seq_num)
<1> DEFINE own(s) == [S EXCEPT ![i] = s]
<1>1. PICK u \in Numbering(S, i, v) : \E w \in CommitPrepared(own(u), i) :
             t \in ExecuteInOrder(own(w), i)
  BY RequestSteps
<1>2. \A s, Q : FineAll(S, Q, FALSE) /\ Fine(s, Q, FALSE)
                   => FineAll(own(s), Q, FALSE) /\ own(s)[i] = s
  BY DEF FineAll
<1> HIDE DEF own
<1>3. PICK G \in SUBSET Request :
        /\ Unique(R \cup G) /\ Fine(u, R \cup G, FALSE) /\ Like(S[i], u)
        /\ i # v => G = {}
        /\ i = v => Numbered(G, S[i].seq_num, u.seq_num)
  BY NumberingHeld
<1>4. PICK w \in CommitPrepared(own(u), i) : t \in ExecuteInOrder(own(w), i)
  BY <1>1
<1> DEFINE Q == R \cup G
<1>5. FineAll(S, Q, FALSE) /\ Q \subseteq Request /\ Held(Q, S[i])
  <2>1. R \subseteq Q
    OBVIOUS
  <2>2. Unique(Q)
    BY <1>3
  <2> HIDE DEF Q
  <2> QED
    BY <2>1, <2>2, AllInMore, MoreHistory DEF Unique
<1>6. FineAll(own(u), Q, FALSE) /\ own(u)[i] = u /\ Whole(u)
  BY <1>2, <1>3, <1>5 DEF Like
<1> HIDE DEF Q
<1>7. Fine(w, Q, FALSE) /\ SameNumber(u, w) /\ Like(u, w)
  BY <1>4, <1>6, CommitPreparedFine, CommitPreparedLike
<1>8. Held(Q, w)
  BY <1>3, <1>5, <1>7, LikeHeld
<1>9. FineAll(own(w), Q, FALSE) /\ own(w)[i] = w
  BY <1>2, <1>5, <1>7
<1>10. Fine(t, Q, FALSE) /\ SameNumber(w, t)
  BY <1>4, <1>5, <1>9, ExecuteFine
<1>11. Held(Q, t)
  BY <1>3, <1>4, <1>8, <1>9, ExecuteHeld DEF Q
<1> QED
  BY <1>3, <1>7, <1>10, <1>11 DEF SameNumber, Q

-----------------------------------------------------------------------------
(* The loop in a steady view.                                              *)

LEMMA SteadyLike ==
  ASSUME NEW R, RepFine(R, FALSE), NEW i \in Node, NEW v \in Node,
         NEW read, read.views[i] = v, NEW again, again.views[i] = v,
         Own(i).prim = v, ~Own(i).view_changed,
         NEW s \in ViewPart(rep[i], i, read, again)
  PROVE  Like(Own(i), s)
<1>1. DOMAIN rep[i] = Node /\ Whole(rep[i][i])
  BY DEF RepFine, FineAll, Fine
<1>2. \/ s = rep[i][i]
      \/ s = [rep[i] EXCEPT ![i].view_changed = FALSE, ![i].prim = v][i]
  BY DEF ViewPart, Own
<1> DEFINE t == [rep[i][i] EXCEPT !.view_changed = FALSE]
<1>3. [rep[i] EXCEPT ![i].view_changed = FALSE, ![i].prim = v][i] = [t EXCEPT !.prim = v]
  BY <1>1
<1>4. Like(rep[i][i], rep[i][i]) /\ Like(rep[i][i], t) /\ Whole(t)
  BY <1>1, FieldsLike DEF Like
<1> HIDE DEF t
<1>5. Like(t, [t EXCEPT !.prim = v])
  BY <1>4, FieldsLike
<1>6. Like(rep[i][i], [t EXCEPT !.prim = v])
  BY <1>4, <1>5, LikeAgain
<1>7. s = rep[i][i] \/ s = [t EXCEPT !.prim = v]
  BY <1>2, <1>3
<1> QED
  BY <1>4, <1>6, <1>7 DEF Own

(* A node that flushes its structures has lost its primary.                *)
LEMMA FlushLosesPrimary ==
  ASSUME NEW i \in Node, NEW v \in View, NEW C, C \subseteq ClientRequest, IsFiniteSet(C),
         NEW T \in AskedFor(FlushLocal, i, C),
         NEW t, t \in ProcessRequests(T, i, v) \/ t = T[i]
  PROVE  t.prim = TEE
<1>1. FineAll(FlushLocal, Request, FALSE)
  BY FlushFine
<1>2. FlushLocal[i].prim = TEE
  BY DEF FlushLocal, SetToTee, FreshStructure
<1>3. FineAll(T, Request, FALSE) /\ SameNumber(FlushLocal[i], T[i])
  BY <1>1, AskedFine
<1>4. ASSUME t \in ProcessRequests(T, i, v)
      PROVE  t.prim = T[i].prim
  <2>1. Progress(Request, FALSE, i, v, T[i], t)
    BY <1>3, <1>4, ProcessFine
  <2> QED
    BY <2>1 DEF Progress
<1> QED
  BY <1>2, <1>3, <1>4 DEF SameNumber

(* What a turn of node i leaves in T and t, that had S, in the view v: the *)
(* requests that got numbers are new ones.                                 *)
Turned(R, S, T, i, v, t) ==
  \E G \in SUBSET Request :
    /\ Unique(R \cup G) /\ FineAll(Placed(T, i, t), R \cup G, FALSE)
    /\ Held(R \cup G, t)
    /\ \A j \in Node : j # i => Heard(R \cup G, T[j])
    /\ i # v => G = {}
    /\ i = v => Numbered(G, S[i].seq_num, t.seq_num)

LEMMA RowHeld ==
  ASSUME NEW R, Unique(R), NEW S, FineAll(S, R, FALSE), NEW i \in Node,
         \A j \in Node : Heard(R, S[j]), Held(R, S[i]),
         NEW U, U = Placed(S, i, Consolidate(S, i))
  PROVE  /\ FineAll(U, R, FALSE) /\ SameNumber(S[i], U[i]) /\ Held(R, U[i])
<1>1. PICK x : x = Consolidate(S, i)
  OBVIOUS
<1>2. Fine(x, R, FALSE)
  BY <1>1, ConsolidateFine
<1>3. SameNumber(S[i], x)
  <2>1. ASSUME NEW o, FineAll(S, R, o)
        PROVE  /\ Consolidate(S, i).seq_num = S[i].seq_num
               /\ Consolidate(S, i).prim = S[i].prim
    BY <2>1, ConsolidateFine
  <2> QED
    BY <1>1, <2>1 DEF SameNumber
<1>4. Held(R, x)
  BY <1>1, ConsolidateHeld
<1>5. U = [S EXCEPT ![i] = x]
  BY <1>1 DEF Placed
<1> QED
  BY <1>2, <1>3, <1>4, <1>5 DEF FineAll

(* The own structure is consolidated, requests come in, and maybe a round  *)
(* of requests is done.                                                    *)
LEMMA TurnHeld ==
  ASSUME SIGMA > 0, NEW R, Unique(R), NEW S, FineAll(S, R, FALSE), NEW i \in Node,
         \A j \in Node : Heard(R, S[j]), Held(R, S[i]),
         NEW v \in Node, Behaviour[v] = "NONE",
         i = v => Reached(R, S[i].seq_num),
         NEW C, C \subseteq ClientRequest, IsFiniteSet(C),
         NEW T \in AskedFor(Placed(S, i, Consolidate(S, i)), i, C),
         NEW t, t \in ProcessRequests(T, i, v) \/ t = T[i],
         Different(t.rep_state)
  PROVE  Turned(R, S, T, i, v, t)
<1>1. PICK U : U = Placed(S, i, Consolidate(S, i))
  OBVIOUS
<1>2. FineAll(U, R, FALSE) /\ SameNumber(S[i], U[i]) /\ Held(R, U[i])
  BY <1>1, RowHeld
<1>3. T \in AskedFor(U, i, C)
  BY <1>1
<1>4. FineAll(T, R, FALSE) /\ SameNumber(U[i], T[i])
  BY <1>2, <1>3, AskedFine
<1>5. Held(R, T[i])
  <2>1. FineAll(U, Request, FALSE)
    BY <1>2, AllInMore DEF Unique
  <2> QED
    BY <1>2, <1>3, <2>1, AskedLike, LikeHeld
<1>6. \A j \in Node : j # i => T[j] = S[j]
  <2>1. PICK s : T = [U EXCEPT ![i] = s]
    BY <1>3 DEF AskedFor
  <2>2. PICK x : U = [S EXCEPT ![i] = x]
    BY <1>1 DEF Placed
  <2> QED
    BY <2>1, <2>2 DEF FineAll
<1>7. T[i].seq_num = S[i].seq_num /\ T[i].seq_num \in Int
  BY <1>2, <1>4 DEF SameNumber, FineAll, Fine
<1>8. PICK G \in SUBSET Request :
        /\ Unique(R \cup G) /\ Fine(t, R \cup G, FALSE) /\ Held(R \cup G, t)
        /\ i # v => G = {}
        /\ i = v => Numbered(G, S[i].seq_num, t.seq_num)
  <2>1. CASE t \in ProcessRequests(T, i, v)
    <3>1. i = v => \A r \in R : r.seq_num <= T[i].seq_num
      BY <1>7 DEF Reached
    <3>2. \E G \in SUBSET Request :
            /\ Unique(R \cup G) /\ Fine(t, R \cup G, FALSE) /\ Held(R \cup G, t)
            /\ i # v => G = {}
            /\ i = v => Numbered(G, T[i].seq_num, t.seq_num)
      BY <1>4, <1>5, <2>1, <3>1, ProcessHeld
    <3> QED
      BY <1>7, <3>2
  <2>2. CASE t = T[i]
    <3>1. R \cup {} = R
      OBVIOUS
    <3>2. Numbered({}, T[i].seq_num, T[i].seq_num)
      BY <1>7 DEF Numbered
    <3>3. Fine(T[i], R, FALSE)
      BY <1>4 DEF FineAll
    <3> QED
      BY <1>5, <1>7, <2>2, <3>1, <3>2, <3>3
  <2> QED
    BY <2>1, <2>2
<1> DEFINE Q == R \cup G
<1>9. R \subseteq Q /\ Unique(Q) /\ Fine(t, Q, FALSE)
  BY <1>8
<1> HIDE DEF Q
<1>10. FineAll(Placed(T, i, t), Q, FALSE)
  <2>1. FineAll(T, Q, FALSE)
    BY <1>4, <1>9, AllInMore
  <2> QED
    BY <1>9, <2>1, UpdateFine DEF Placed
<1>11. \A j \in Node : j # i => Heard(Q, T[j])
  BY <1>6, <1>9, MoreHistory
<1> QED
  BY <1>8, <1>10, <1>11 DEF Turned, Q

-----------------------------------------------------------------------------
(* The state of all nodes.                                                 *)

(* The structures S[i][j], the own ones among them, and the messages.      *)
AllHeld(R, S, queues) ==
  /\ \A i \in Node : Held(R, S[i][i])
  /\ \A i, j \in Node : /\ Heard(R, S[i][j])
                        /\ \A s \in Range(queues[i][j]) : Heard(R, s)

(* The requests R are all that the primary v has ever numbered, and all    *)
(* lists are beginnings of the one they make up.                           *)
History(R, v) ==
  Unique(R) /\ Reached(R, Own(v).seq_num) /\ AllHeld(R, rep, net)

LEMMA HistoryNext ==
  ASSUME NEW Q, NEW v \in Node, Unique(Q), Reached(Q, Own(v)'.seq_num),
         AllHeld(Q, rep', net')
  PROVE  History(Q, v)'
BY DEF History, AllHeld, Reached, Own, Held, Matched, Heard, LogServed, LastExec, Served,
       Complete, Once, ListTo, Given, Appends, Unique, Range

LEMMA BodyHeld ==
  ASSUME SIGMA > 0, NEW v \in Node, Steady(v), Steady(v)',
         NEW R, AllFine(R, FALSE), History(R, v), Wired, Wired',
         NEW i \in Node, BodyStep(i),
         Different(Own(i)'.rep_state)
  PROVE  \E Q \in SUBSET Request : AllFine(Q, FALSE)' /\ History(Q, v)'
<1>1. PICK again, no_view_change, C :
        /\ again \in {ve[i], ve'[i]}
        /\ C \subseteq ClientRequest /\ IsFiniteSet(C)
        /\ RunBody(i, ve[i], again, no_view_change, C)
  BY DEF BodyStep
<1>2. /\ ve[i].views[i] = v /\ again.views[i] = v /\ v \in View
      /\ Behaviour[v] = "NONE" /\ Own(i).prim = v /\ ~Own(i).view_changed
      /\ Own(i)'.prim = v
  BY <1>1 DEF Steady, View
<1>3. PICK s \in ViewPart(rep[i], i, ve[i], again) : BodyFrom(i, s, v, C)
  BY <1>1, <1>2, BodyParts
<1>4. RepFine(R, FALSE) /\ FineAll(rep[i], R, FALSE)
  BY DEF AllFine, RepFine
<1>5. Fine(s, R, FALSE) /\ SameNumber(Own(i), s) /\ Like(Own(i), s)
  BY <1>2, <1>3, <1>4, SteadyView, SteadyLike
<1>6. PICK S : S = Placed(rep[i], i, s)
  OBVIOUS
<1>7. FineAll(S, R, FALSE) /\ S[i] = s
  BY <1>4, <1>5, <1>6 DEF Placed, FineAll
<1>8. Unique(R) /\ Held(R, S[i]) /\ Held(R, Own(i)) /\ \A j \in Node : Heard(R, rep[i][j])
  BY <1>5, <1>7, LikeHeld DEF History, AllHeld, Own
<1>9. \A j \in Node : Heard(R, S[j])
  <2>1. \A j \in Node : S[j] = IF j = i THEN s ELSE rep[i][j]
    BY <1>4, <1>6 DEF Placed, FineAll
  <2> QED
    BY <1>7, <1>8, <2>1, HeldHeard
<1>10. PICK flush \in BOOLEAN : \E T \in AskedFor(Considered(S, i, flush), i, C) :
         \E t : /\ t \in ProcessRequests(T, i, v) \/ t = T[i]
                /\ rep' = Placed(rep, i, Placed(T, i, t))
  BY <1>3, <1>6 DEF BodyFrom
<1>11. PICK T \in AskedFor(Considered(S, i, flush), i, C) :
         \E t : /\ t \in ProcessRequests(T, i, v) \/ t = T[i]
                /\ rep' = Placed(rep, i, Placed(T, i, t))
  BY <1>10
<1>12. PICK t : /\ t \in ProcessRequests(T, i, v) \/ t = T[i]
                /\ rep' = Placed(rep, i, Placed(T, i, t))
  BY <1>11
<1>13. DOMAIN T = Node
  <2>1. \E x : T = [Considered(S, i, flush) EXCEPT ![i] = x]
    BY DEF AskedFor
  <2>2. DOMAIN Considered(S, i, flush) = Node
    BY <1>7 DEF Considered, Placed, FlushLocal, FineAll
  <2> QED
    BY <2>1, <2>2
<1>14. PICK row : row = Placed(T, i, t)
  OBVIOUS
<1>15. /\ row[i] = t /\ \A j \in Node : j # i => row[j] = T[j]
       /\ \A j \in Node : rep'[j] = IF j = i THEN row ELSE rep[j]
       /\ Own(i)' = t
  BY <1>4, <1>12, <1>13, <1>14 DEF Placed, RepFine, Own
<1>16. ~flush
  <2> SUFFICES ASSUME flush PROVE FALSE
    OBVIOUS
  <2>1. T \in AskedFor(FlushLocal, i, C)
    BY DEF Considered
  <2>2. t.prim = TEE
    BY <1>1, <1>2, <1>12, <2>1, FlushLosesPrimary
  <2> QED
    BY <1>2, <1>15, <2>2, NodesAssumption DEF Node, TEE
<1>17. T \in AskedFor(Placed(S, i, Consolidate(S, i)), i, C)
  BY <1>16 DEF Considered
<1>18. i = v => Reached(R, S[i].seq_num)
  BY <1>5, <1>7 DEF History, SameNumber
<1>19. Different(t.rep_state)
  BY <1>15
<1>20. Turned(R, S, T, i, v, t)
  BY <1>1, <1>2, <1>7, <1>8, <1>9, <1>12, <1>17, <1>18, <1>19, TurnHeld
<1>21. PICK G \in SUBSET Request :
         /\ Unique(R \cup G) /\ FineAll(Placed(T, i, t), R \cup G, FALSE)
         /\ Held(R \cup G, t)
         /\ \A j \in Node : j # i => Heard(R \cup G, T[j])
         /\ i # v => G = {}
         /\ i = v => Numbered(G, S[i].seq_num, t.seq_num)
  BY <1>20 DEF Turned
<1>22. PICK Q \in SUBSET Request : Q = R \cup G
  BY <1>8 DEF Unique
<1>23. /\ R \subseteq Q /\ Unique(Q) /\ FineAll(row, Q, FALSE) /\ Held(Q, t)
       /\ \A j \in Node : Heard(Q, row[j])
  BY <1>14, <1>15, <1>21, <1>22, HeldHeard
<1>24. AllFine(Q, FALSE)'
  <2>1. RepFine(Q, FALSE)
    BY <1>4, <1>23, FineInMore DEF RepFine, FineAll
  <2>2. RepFine(Q, FALSE)'
    BY <1>12, <1>14, <1>23, <2>1, RowFine
  <2>3. PICK M : (\A x \in M : Fine(x, R, FALSE)) /\ net \in [Node -> [Node -> Seq(M)]]
    BY DEF AllFine, NetFine
  <2>4. \A x \in M : Fine(x, Q, FALSE)
    BY <1>23, <2>3, FineInMore
  <2>5. net' = net
    BY <1>1 DEF RunBody
  <2>6. NetFine(Q, FALSE)'
    BY <2>3, <2>4, <2>5 DEF NetFine, Fine, Whole, LogIsFine, Follow
  <2> QED
    BY <2>2, <2>6 DEF AllFine
<1>25. Reached(Q, Own(v)'.seq_num)
  <2>1. \A r \in R : r.seq_num <= Own(v).seq_num
    BY DEF History, Reached
  <2>2. CASE i = v
    <3>1. Own(v)'.seq_num = t.seq_num /\ Own(v).seq_num = S[i].seq_num
      BY <1>5, <1>7, <1>15, <2>2 DEF SameNumber
    <3>2. S[i].seq_num <= t.seq_num /\ \A r \in G : r.seq_num <= t.seq_num
      BY <1>21, <2>2 DEF Numbered
    <3>3. S[i].seq_num \in Int /\ t.seq_num \in Int /\ \A r \in R : r.seq_num \in Int
      BY <1>7, <1>8, <1>15, <1>23 DEF FineAll, Fine, Unique, Request
    <3> QED
      BY <1>22, <2>1, <3>1, <3>2, <3>3 DEF Reached
  <2>3. CASE i # v
    <3>1. Own(v)' = Own(v)
      BY <1>15, <2>3 DEF Own
    <3> QED
      BY <1>21, <1>22, <2>1, <2>3, <3>1 DEF Reached
  <2> QED
    BY <2>2, <2>3
<1>26. AllHeld(Q, rep', net')
  <2>1. AllHeld(Q, rep, net)
    BY <1>23, MoreHistory DEF History, AllHeld
  <2>2. net' = net
    BY <1>1 DEF RunBody
  <2> QED
    BY <1>15, <1>23, <2>1, <2>2 DEF AllHeld
<1> QED
  BY <1>23, <1>24, <1>25, <1>26, HistoryNext

LEMMA QuietHeld ==
  ASSUME NEW v \in Node, NEW R, AllFine(R, FALSE), History(R, v), Wired, QuietStep
  PROVE  AllFine(R, FALSE)' /\ History(R, v)'
<1>1. AllFine(R, FALSE)' /\ SameNumber(Own(v), Own(v)')
  BY QuietFine
<1>2. Unique(R) /\ Reached(R, Own(v)'.seq_num) /\ AllHeld(R, rep, net)
  BY <1>1 DEF History, SameNumber
<1>3. /\ DOMAIN rep = Node
      /\ \A i \in Node : DOMAIN rep[i] = Node /\ Whole(rep[i][i])
      /\ \A i, j \in Node : Whole(rep[i][j])
  BY DEF AllFine, RepFine, FineAll, Fine
<1>4. ASSUME UNCHANGED <<rep, net>>
      PROVE  AllHeld(R, rep', net')
  BY <1>2, <1>4
<1>5. ASSUME NEW i \in Node, NEW c \in ClientRequest, Inject(i, c)
      PROVE  AllHeld(R, rep', net')
  <2>1. PICK s \in ExtendPendReqs(rep[i][i], {c}) : rep' = [rep EXCEPT ![i][i] = s]
    BY <1>5 DEF Inject
  <2>2. Held(R, s)
    <3>1. Held(R, rep[i][i]) /\ Like(rep[i][i], s)
      BY <1>2, <1>3, ExtendLike DEF AllHeld
    <3> QED
      BY <3>1, LikeHeld
  <2>3. \A k, l \in Node : rep'[k][l] = IF k = i /\ l = i THEN s ELSE rep[k][l]
    BY <1>3, <2>1
  <2>4. net' = net
    BY <1>5 DEF Inject
  <2> QED
    BY <1>2, <2>2, <2>3, <2>4, HeldHeard DEF AllHeld
<1>6. PICK M : net \in [Node -> [Node -> Seq(M)]]
  BY DEF AllFine, NetFine
<1>7. ASSUME NEW i \in Node, NEW j \in Node, SendTo(i, j)
      PROVE  AllHeld(R, rep', net')
  <2>1. net' = [net EXCEPT ![i][j] = Append(net[i][j], rep[i][i])] /\ rep' = rep
    BY <1>7 DEF SendTo
  <2>2. \A k, l \in Node : net[k][l] \in Seq(M)
    BY <1>6
  <2>3. \A x \in Range(Append(net[i][j], rep[i][i])) :
          x \in Range(net[i][j]) \/ x = rep[i][i]
    BY <2>2 DEF Range
  <2>4. \A k, l \in Node : net'[k][l] = IF k = i /\ l = j THEN Append(net[i][j], rep[i][i])
                                       ELSE net[k][l]
    BY <1>6, <2>1
  <2>5. Heard(R, rep[i][i])
    BY <1>2 DEF AllHeld
  <2> QED
    BY <1>2, <2>1, <2>3, <2>4, <2>5 DEF AllHeld
<1>8. ASSUME NEW i \in Node, NEW j \in Node, Receive(i, j)
      PROVE  AllHeld(R, rep', net')
  <2>1. /\ net[j][i] \in Seq(M) /\ net[j][i] # <<>> /\ i # j
        /\ net' = [net EXCEPT ![j][i] = Tail(net[j][i])]
        /\ rep' = [rep EXCEPT ![i][j] = Believed(i, j, Head(net[j][i]))]
    BY <1>6, <1>8 DEF Receive, Wired
  <2>2. PICK s : s = Believed(i, j, Head(net[j][i]))
    OBVIOUS
  <2>3. Head(net[j][i]) \in Range(net[j][i]) /\ Range(Tail(net[j][i])) \subseteq Range(net[j][i])
    BY <2>1 DEF Range
  <2>4. Heard(R, Head(net[j][i])) /\ Heard(R, rep[i][j])
    BY <1>2, <2>3 DEF AllHeld
  <2>5. Heard(R, s)
    <3>1. Heard(R, [rep[i][j] EXCEPT !.rep_state = Head(net[j][i]).rep_state])
      BY <1>3, <2>4 DEF Heard, LogServed, Whole
    <3> QED
      BY <2>2, <2>4, <3>1 DEF Believed
  <2>6. \A k, l \in Node : rep'[k][l] = IF k = i /\ l = j THEN s ELSE rep[k][l]
    BY <1>3, <2>1, <2>2
  <2>7. \A k, l \in Node : net'[k][l] = IF k = j /\ l = i THEN Tail(net[j][i])
                                       ELSE net[k][l]
    BY <1>6, <2>1
  <2> QED
    BY <1>2, <2>1, <2>3, <2>5, <2>6, <2>7 DEF AllHeld
<1>9. AllHeld(R, rep', net')
  BY <1>4, <1>5, <1>7, <1>8 DEF QuietStep, Move, vars
<1> QED
  BY <1>1, <1>2, <1>9, HistoryNext

-----------------------------------------------------------------------------
(* One history in a steady view.                                           *)

(* No node, correct or not, has executed anything twice, see ExecutedOnce. *)
NothingTwice == \A i \in Node : Different(Own(i).rep_state)

(* The lists of all nodes, what they believe of each other and what is on  *)
(* its way are beginnings of one list.                                     *)
OneHistory(v) == \E R \in SUBSET Request : InUse \subseteq R /\ History(R, v)

(* In a steady view of a correct primary this stays so as long as nothing  *)
(* is executed twice (run, lines 9 to 25).                                 *)
OneHistoryStays ==
  [][\A v \in Node :
       Steady(v) /\ Steady(v)' /\ NothingTwice' /\ OneHistory(v) => OneHistory(v)']_vars

LEMMA HistoryStep ==
  ASSUME SIGMA > 0, AllFine(Request, FALSE), Wired, [Next]_vars,
         NEW v \in Node, Steady(v), Steady(v)', NothingTwice', OneHistory(v)
  PROVE  OneHistory(v)'
<1>1. PICK R \in SUBSET Request : InUse \subseteq R /\ History(R, v)
  BY DEF OneHistory
<1>2. AllFine(R, FALSE)
  BY <1>1, FineInUse
<1>3. Wired'
  BY WiredStep
<1>4. \E Q \in SUBSET Request : AllFine(Q, FALSE)' /\ History(Q, v)'
  <2>1. CASE QuietStep
    BY <1>1, <1>2, <2>1, QuietHeld
  <2>2. ASSUME NEW i \in Node, BodyStep(i)
        PROVE  \E Q \in SUBSET Request : AllFine(Q, FALSE)' /\ History(Q, v)'
    <3>1. Different(Own(i)'.rep_state)
      BY DEF NothingTwice, Different, Own
    <3> QED
      BY <1>1, <1>2, <1>3, <2>2, <3>1, BodyHeld
  <2> QED
    BY <2>1, <2>2, StepKinds
<1>5. PICK Q \in SUBSET Request : AllFine(Q, FALSE)' /\ History(Q, v)'
  BY <1>4
<1>6. InUse' \subseteq Q
  BY <1>5, InUseNext
<1> QED
  BY <1>5, <1>6 DEF OneHistory

LEMMA HistoryAgrees ==
  ASSUME NEW v \in Node, OneHistory(v)
  PROVE  LogsAgree
<1>1. PICK R \in SUBSET Request : InUse \subseteq R /\ History(R, v)
  BY DEF OneHistory
<1>2. ASSUME NEW i \in Node, NEW j \in Node
      PROVE  Agree(Own(i).rep_state, Own(j).rep_state)
  <2>1. PICK m : Served(R, m) /\ Own(i).rep_state = ListTo(R, m)
    BY <1>1, HeldHeard DEF History, AllHeld, Heard, Own
  <2>2. PICK n : Served(R, n) /\ Own(j).rep_state = ListTo(R, n)
    BY <1>1, HeldHeard DEF History, AllHeld, Heard, Own
  <2>3. Unique(R) /\ Complete(R, m) /\ Complete(R, n) /\ m \in Int /\ n \in Int
    BY <1>1, <2>1, <2>2 DEF History, Served, Complete
  <2>4. m <= n \/ n <= m
    BY <2>3
  <2> QED
    BY <2>1, <2>2, <2>3, <2>4, ListsArePrefixes DEF Agree
<1>3. ASSUME NEW i \in Node
      PROVE  LogRequests(Own(i)) \subseteq R
  <2>1. <<i, i>> \in Node \X Node /\ <<i, i>>[1] = i /\ <<i, i>>[2] = i
    OBVIOUS
  <2>2. RequestsOf(rep[i][i]) \subseteq InUse
    BY <2>1 DEF InUse
  <2> QED
    BY <1>1, <2>2 DEF RequestsOf, Own
<1>4. ASSUME NEW i \in Node, NEW j \in Node,
             NEW r \in LogRequests(Own(i)), NEW o \in LogRequests(Own(j)),
             r.seq_num = o.seq_num
      PROVE  r = o
  BY <1>1, <1>3, <1>4 DEF History, Unique
<1> QED
  BY <1>2, <1>4 DEF LogsAgree, Correct

(* Nothing has happened yet: no node knows of requests, but of clients.    *)
Blank ==
  \A i, j \in Node : /\ rep[i][j].rep_state = <<>> /\ rep[i][j].r_log = <<>>
                     /\ rep[i][j].req_q = {} /\ rep[i][j].number_of_clients > 0

LEMMA BlankHistory ==
  ASSUME Init, Blank, NEW v \in Node
  PROVE  OneHistory(v)
<1> DEFINE R == {}
<1>1. Unique(R) /\ Served(R, -1)
  BY DEF Unique, Served, Complete, Once
<1>2. ListTo(R, -1) = <<>>
  <2>1. ListTo(R, -1) \in Seq(Value) /\ Len(ListTo(R, -1)) = -1 + 1
    BY <1>1, ListIs DEF Served
  <2> QED
    BY <2>1
<1>3. ASSUME NEW i \in Node, NEW j \in Node
      PROVE  Held(R, rep[i][j])
  <2>1. LastExec(rep[i][j]) = -1 /\ DOMAIN rep[i][j].r_log = {}
    BY DEF Blank, LastExec
  <2> QED
    BY <1>1, <1>2, <2>1 DEF Blank, Held, Matched, LogServed
<1>4. \A i, j \in Node : Range(net[i][j]) = {}
  BY DEF Init, Range
<1>5. History(R, v)
  BY <1>1, <1>3, <1>4, HeldHeard DEF History, Reached, AllHeld
<1>6. InUse = {}
  <2>1. \A i, j \in Node : RequestsOf(rep[i][j]) = {}
    BY DEF Blank, RequestsOf, QueueRequests, LogRequests
  <2> QED
    BY <1>4, <2>1 DEF InUse
<1> QED
  BY <1>5, <1>6 DEF OneHistory

(* In a steady view of a correct primary all lists, those that nodes       *)
(* believe others to have and those in messages too, stay beginnings of    *)
(* one list, which the numbers of the primary make up, as long as no node  *)
(* executes anything twice: whatever a loop takes over from the others     *)
(* (find_cons_state, get_corresponding_r_log), executes (commit) and cuts  *)
(* off its log, and however messages are delayed.                          *)
THEOREM HistoryForever ==
  ASSUME SIGMA > 0
  PROVE  Spec => OneHistoryStays
<1>1. AllFine(Request, FALSE) /\ Wired /\ [Next]_vars =>
        [\A v \in Node : Steady(v) /\ Steady(v)' /\ NothingTwice' /\ OneHistory(v)
                           => OneHistory(v)']_vars
  BY HistoryStep
<1> QED
  BY <1>1, Shape, PTL DEF Spec, OneHistoryStays

(* So what correct nodes have executed is the same as far as they have     *)
(* come, and no number stands for two requests in their logs, as long as   *)
(* the view is steady and nothing is executed twice, see LogsAgree.        *)
THEOREM SteadyLogsAgree ==
  ASSUME SIGMA > 0, NEW v \in Node
  PROVE  Spec /\ OneHistory(v) /\ [](Steady(v) /\ NothingTwice) => []LogsAgree
<1>1. AllFine(Request, FALSE) /\ Wired /\ [Next]_vars /\ OneHistory(v) /\
      Steady(v) /\ Steady(v)' /\ NothingTwice' => OneHistory(v)'
  BY HistoryStep
<1>2. OneHistory(v) => LogsAgree
  BY HistoryAgrees
<1> QED
  BY <1>1, <1>2, Shape, PTL DEF Spec

(* That is so from every start in which nothing was requested yet, as when *)
(* run() begins with the structures of __init__.                           *)
THEOREM FreshLogsAgree ==
  ASSUME SIGMA > 0, NEW v \in Node
  PROVE  Spec /\ Blank /\ [](Steady(v) /\ NothingTwice) => []LogsAgree
<1>1. Init /\ Blank => OneHistory(v)
  BY BlankHistory
<1>2. Spec /\ OneHistory(v) /\ [](Steady(v) /\ NothingTwice) => []LogsAgree
  BY SteadyLogsAgree
<1> QED
  BY <1>1, <1>2, PTL DEF Spec

=============================================================================
